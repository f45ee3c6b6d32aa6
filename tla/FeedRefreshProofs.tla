------------------------- MODULE FeedRefreshProofs -------------------------
(***************************************************************************)
(* What a refresh reports and what it writes, for any feeds, any number of *)
(* runs and any contents.                                                  *)
(***************************************************************************)
EXTENDS FeedRefresh, SequenceTheorems, TLAPS

Elems(s) == {s[i] : i \in DOMAIN s}

Distinct(s) == \A i, j \in DOMAIN s : s[i] = s[j] => i = j

Working == {"fetch", "read_hash", "put_first", "put_second"}

Content == 0 .. MaxVersion   \* NoVersion or a version

TypeOK ==
    /\ upstream \in [Doc -> Version]
    /\ doc \in [Doc -> Content] /\ hash \in [Doc -> Content]
    /\ runs \in 0 .. MaxRuns
    /\ pc \in [Run -> Working \cup Ending \cup {"unused"}]
    /\ asked \in [Run -> SUBSET Feed]
    /\ queue \in [Run -> Seq(Feed)]
    /\ unread \in [Run -> Seq(Doc)] /\ todo \in [Run -> Seq(Doc)]
    /\ fetched \in [Run -> [Doc -> Content]]
    /\ skipped \in [Run -> SUBSET Doc]
    /\ results \in [Run -> SUBSET Feed] /\ errors \in [Run -> SUBSET Feed]
    /\ puts \in [Doc -> [Version -> Nat]]
    /\ excuses \in [Doc -> Nat]

\* What a run has left when it is there: the feeds it was asked for are those it
\* reported and those of its queue, each once, and what it fetches and writes is
\* of the first of the queue.
RunOK(r) ==
    /\ pc[r] = "unused" <=> r > runs
    /\ pc[r] = "unused" => results[r] = {} /\ errors[r] = {}
    /\ pc[r] \in Working =>
         /\ queue[r] # <<>> /\ Distinct(queue[r])
         /\ asked[r] = results[r] \cup errors[r] \cup Elems(queue[r])
         /\ results[r] \cap errors[r] = {}
         /\ Elems(queue[r]) \cap (results[r] \cup errors[r]) = {}
         /\ Elems(todo[r]) \cup Elems(unread[r]) \subseteq Elems(DocsOf[Head(queue[r])])
    /\ pc[r] = "fetch" => unread[r] # <<>>
    /\ pc[r] \in {"unused", "fetch"} => todo[r] = <<>>
    /\ pc[r] \in {"read_hash", "put_first", "put_second"} => todo[r] # <<>>
    /\ pc[r] = "raised" => asked[r] = errors[r]
    /\ pc[r] = "responded" =>
         /\ results[r] \cup errors[r] = asked[r]
         /\ results[r] \cap errors[r] = {}

Position == \A r \in Run : RunOK(r)

-----------------------------------------------------------------------------
(* Sequences *)

\* A sequence is its head and what follows.
LEMMA HeadAndTail ==
    ASSUME NEW S, NEW s \in Seq(S), s # <<>>
    PROVE  /\ Head(s) \in S /\ Tail(s) \in Seq(S)
           /\ Elems(s) = {Head(s)} \cup Elems(Tail(s))
           /\ Tail(s) = <<>> <=> Len(s) = 1
<1>1. Len(s) \in Nat \ {0} /\ DOMAIN s = 1 .. Len(s) /\ Head(s) = s[1] /\ s[1] \in S
  OBVIOUS
<1>2. /\ Tail(s) \in Seq(S) /\ Len(Tail(s)) = Len(s) - 1
      /\ DOMAIN Tail(s) = 1 .. Len(s) - 1
      /\ \A i \in 1 .. Len(s) - 1 : Tail(s)[i] = s[i + 1]
  OBVIOUS
<1>3. Elems(s) \subseteq {Head(s)} \cup Elems(Tail(s))
  <2> SUFFICES ASSUME NEW i \in 1 .. Len(s), i # 1 PROVE s[i] \in Elems(Tail(s))
    BY <1>1 DEF Elems
  <2>1. i - 1 \in 1 .. Len(s) - 1 /\ Tail(s)[i - 1] = s[i]
    BY <1>1, <1>2
  <2>2. QED
    BY <1>2, <2>1 DEF Elems
<1>4. {Head(s)} \cup Elems(Tail(s)) \subseteq Elems(s)
  <2>1. 1 \in DOMAIN s /\ \A i \in 1 .. Len(s) - 1 : i + 1 \in DOMAIN s
    BY <1>1
  <2>2. QED
    BY <1>1, <1>2, <2>1 DEF Elems
<1>5. Tail(s) = <<>> <=> Len(s) = 1
  <2>1. Tail(s) = <<>> <=> Len(Tail(s)) = 0
    BY <1>2, EmptySeq
  <2>2. QED
    BY <1>1, <1>2, <2>1
<1>6. QED
  BY <1>1, <1>2, <1>3, <1>4, <1>5

\* What follows the head of a sequence without repetitions has none and is
\* without the head.
LEMMA DistinctTail ==
    ASSUME NEW S, NEW s \in Seq(S), s # <<>>, Distinct(s)
    PROVE  Distinct(Tail(s)) /\ Head(s) \notin Elems(Tail(s))
<1>1. Len(s) \in Nat \ {0} /\ DOMAIN s = 1 .. Len(s) /\ Head(s) = s[1]
  OBVIOUS
<1>2. /\ DOMAIN Tail(s) = 1 .. Len(s) - 1
      /\ \A i \in 1 .. Len(s) - 1 : Tail(s)[i] = s[i + 1]
  OBVIOUS
<1>3. \A i \in 1 .. Len(s) - 1 : i + 1 \in DOMAIN s /\ 1 \in DOMAIN s /\ i + 1 # 1
  BY <1>1
<1>4. Head(s) \notin Elems(Tail(s))
  BY <1>1, <1>2, <1>3 DEF Elems, Distinct
<1>5. ASSUME NEW i \in DOMAIN Tail(s), NEW j \in DOMAIN Tail(s), Tail(s)[i] = Tail(s)[j]
      PROVE  i = j
  <2>1. s[i + 1] = s[j + 1] /\ i + 1 \in DOMAIN s /\ j + 1 \in DOMAIN s
    BY <1>2, <1>3, <1>5
  <2>2. i + 1 = j + 1
    BY <2>1 DEF Distinct
  <2>3. QED
    BY <1>1, <1>2, <2>2
<1>6. QED
  BY <1>4, <1>5 DEF Distinct

\* A page and the rest of a feed are what was unread.
LEMMA PageAndRest ==
    ASSUME TypeOK, NEW r \in Run, unread[r] # <<>>
    PROVE  LET rest == SubSeq(unread[r], Len(Page(r)) + 1, Len(unread[r]))
           IN  /\ Page(r) \in Seq(Doc) /\ Page(r) # <<>> /\ rest \in Seq(Doc)
               /\ Elems(unread[r]) = Elems(Page(r)) \cup Elems(rest)
<1> DEFINE s == unread[r]
           rest == SubSeq(s, Len(Page(r)) + 1, Len(s))
<1>1. s \in Seq(Doc) /\ s # <<>> /\ Len(s) \in Nat \ {0}
  BY DEF TypeOK
<1>2. CASE Page(r) = s
  <2>1. rest = <<>> /\ rest \in Seq(Doc)
    BY <1>1, <1>2
  <2>2. Elems(rest) = {}
    BY <2>1 DEF Elems
  <2>3. QED
    BY <1>1, <1>2, <2>1, <2>2
<1>3. CASE Page(r) = <<Head(s)>>
  <2>1. Len(Page(r)) = 1 /\ Page(r) \in Seq(Doc) /\ Page(r) # <<>> /\ Elems(Page(r)) = {Head(s)}
    BY <1>1, <1>3 DEF Elems
  <2>2. rest = Tail(s)
    <3>1. Len(Page(r)) + 1 = 2
      BY <2>1
    <3>2. Tail(s) = SubSeq(s, 2, Len(s))
      BY <1>1, TailIsSubSeq
    <3>3. QED
      BY <3>1, <3>2
  <2>3. Tail(s) \in Seq(Doc) /\ Elems(s) = {Head(s)} \cup Elems(Tail(s))
    BY <1>1, HeadAndTail
  <2>4. QED
    BY <2>1, <2>2, <2>3
<1>4. QED
  BY <1>2, <1>3 DEF Page

-----------------------------------------------------------------------------
(* Types *)

\* A feed of a queue and its documents.
LEMMA HeadOfQueue ==
    ASSUME TypeOK, NEW r \in Run, queue[r] # <<>>
    PROVE  /\ Head(queue[r]) \in Feed /\ Tail(queue[r]) \in Seq(Feed)
           /\ Elems(queue[r]) = {Head(queue[r])} \cup Elems(Tail(queue[r]))
           /\ DocsOf[Head(queue[r])] \in Seq(Doc)
<1>1. queue[r] \in Seq(Feed)
  BY DEF TypeOK
<1>2. QED
  BY <1>1, HeadAndTail, FeedAssumption

\* The document at hand.
LEMMA HeadOfTodo ==
    ASSUME TypeOK, NEW r \in Run, todo[r] # <<>>
    PROVE  /\ Head(todo[r]) \in Doc /\ Tail(todo[r]) \in Seq(Doc)
           /\ Elems(todo[r]) = {Head(todo[r])} \cup Elems(Tail(todo[r]))
           /\ Tail(todo[r]) = <<>> <=> Len(todo[r]) = 1
           /\ fetched[r][Head(todo[r])] \in Content
<1>1. todo[r] \in Seq(Doc) /\ fetched[r] \in [Doc -> Content]
  BY DEF TypeOK
<1>2. QED
  BY <1>1, HeadAndTail

\* On to the next feed: the run responds, or fetches the one after.
LEMMA NextFeedGoesOn ==
    ASSUME TypeOK, NEW r \in Run, queue[r] # <<>>, NextFeed(r)
    PROVE  /\ pc' \in [Run -> Working \cup Ending \cup {"unused"}]
           /\ queue' \in [Run -> Seq(Feed)]
           /\ unread' \in [Run -> Seq(Doc)] /\ todo' \in [Run -> Seq(Doc)]
           /\ queue'[r] = Tail(queue[r]) /\ todo'[r] = <<>>
           /\ \/ pc'[r] = "responded" /\ Tail(queue[r]) = <<>>
              \/ /\ pc'[r] = "fetch" /\ Tail(queue[r]) # <<>>
                 /\ unread'[r] = DocsOf[Head(queue'[r])] /\ unread'[r] # <<>>
           /\ \A q \in Run \ {r} : /\ pc'[q] = pc[q] /\ queue'[q] = queue[q]
                                   /\ unread'[q] = unread[q] /\ todo'[q] = todo[q]
<1> DEFINE rest == Tail(queue[r])
<1>1. rest \in Seq(Feed)
  BY HeadOfQueue
<1>2. queue' \in [Run -> Seq(Feed)] /\ todo' \in [Run -> Seq(Doc)]
      /\ queue'[r] = rest /\ todo'[r] = <<>>
      /\ \A q \in Run \ {r} : queue'[q] = queue[q] /\ todo'[q] = todo[q]
  BY <1>1 DEF NextFeed, TypeOK
<1>3. CASE rest = <<>>
  BY <1>2, <1>3 DEF NextFeed, TypeOK, Ending
<1>4. CASE rest # <<>>
  <2>1. Head(rest) \in Feed
    BY <1>1, <1>4, HeadAndTail
  <2>2. DocsOf[Head(rest)] \in Seq(Doc) /\ DocsOf[Head(rest)] # <<>>
    BY <2>1, FeedAssumption
  <2>3. /\ pc' = [pc EXCEPT ![r] = "fetch"]
        /\ unread' = [unread EXCEPT ![r] = DocsOf[Head(rest)]]
    BY <1>4 DEF NextFeed
  <2>4. QED
    BY <1>2, <1>4, <2>2, <2>3 DEF TypeOK, Working
<1>5. QED
  BY <1>3, <1>4

\* On to the next document: the feed is done, or the run goes on with it.
LEMMA NextDocGoesOn ==
    ASSUME TypeOK, NEW r \in Run, queue[r] # <<>>, todo[r] # <<>>, NextDoc(r)
    PROVE  \/ /\ Tail(todo[r]) = <<>> /\ unread[r] = <<>>
              /\ results' = [results EXCEPT ![r] = @ \cup {Head(queue[r])}]
              /\ NextFeed(r)
           \/ /\ todo' = [todo EXCEPT ![r] = Tail(@)]
              /\ \/ /\ Tail(todo[r]) = <<>> /\ unread[r] # <<>>
                    /\ pc' = [pc EXCEPT ![r] = "fetch"]
                 \/ /\ Tail(todo[r]) # <<>>
                    /\ pc' = [pc EXCEPT ![r] = "read_hash"]
              /\ UNCHANGED <<queue, unread, results>>
BY HeadOfTodo DEF NextDoc

\* Both keep the types of what they change.
LEMMA NextDocTypes ==
    ASSUME TypeOK, NEW r \in Run, queue[r] # <<>>, todo[r] # <<>>, NextDoc(r)
    PROVE  /\ pc' \in [Run -> Working \cup Ending \cup {"unused"}]
           /\ queue' \in [Run -> Seq(Feed)]
           /\ unread' \in [Run -> Seq(Doc)] /\ todo' \in [Run -> Seq(Doc)]
           /\ results' \in [Run -> SUBSET Feed]
<1>1. CASE /\ results' = [results EXCEPT ![r] = @ \cup {Head(queue[r])}]
           /\ NextFeed(r)
  BY <1>1, NextFeedGoesOn, HeadOfQueue DEF TypeOK
<1>2. CASE /\ todo' = [todo EXCEPT ![r] = Tail(@)]
           /\ pc' = [pc EXCEPT ![r] = "fetch"] \/ pc' = [pc EXCEPT ![r] = "read_hash"]
           /\ UNCHANGED <<queue, unread, results>>
  BY <1>2, HeadOfTodo DEF TypeOK, Working
<1>3. QED
  BY <1>1, <1>2, NextDocGoesOn

\* And the run is not about to put anything.
LEMMA NextDocPutsNothing ==
    ASSUME TypeOK, NEW r \in Run, queue[r] # <<>>, todo[r] # <<>>, NextDoc(r)
    PROVE  pc'[r] \notin {"put_first", "put_second"}
<1>1. CASE NextFeed(r)
  BY <1>1, NextFeedGoesOn
<1>2. CASE pc' = [pc EXCEPT ![r] = "fetch"] \/ pc' = [pc EXCEPT ![r] = "read_hash"]
  BY <1>2 DEF TypeOK
<1>3. QED
  BY <1>1, <1>2, NextDocGoesOn

\* Types are kept.
LEMMA TypeStep == TypeOK /\ Position /\ [Next]_vars => TypeOK'
<1> SUFFICES ASSUME TypeOK, Position, [Next]_vars PROVE TypeOK'
  OBVIOUS
<1> USE DEF historyVars
<1>1. ASSUME NEW d \in Doc, UpstreamChanges(d) PROVE TypeOK'
  BY <1>1 DEF UpstreamChanges, TypeOK, storeVars, runVars
<1>2. CASE Invoke
  <2>1. runs + 1 \in Run /\ runs' \in 0 .. MaxRuns
    BY <1>2, FeedAssumption DEF Invoke, TypeOK, Run
  <2>2. PICK feeds \in {FeedOrder} \cup {<<f>> : f \in Feed} :
          /\ asked' = [asked EXCEPT ![runs + 1] = {feeds[i] : i \in DOMAIN feeds}]
          /\ queue' = [queue EXCEPT ![runs + 1] = feeds]
          /\ unread' = [unread EXCEPT ![runs + 1] = DocsOf[Head(feeds)]]
    BY <1>2 DEF Invoke
  <2>3. feeds \in Seq(Feed) /\ feeds # <<>>
    <3>1. \A f \in Feed : <<f>> \in Seq(Feed) /\ <<f>> # <<>>
      OBVIOUS
    <3>2. QED
      BY <3>1, FeedAssumption
  <2>4. {feeds[i] : i \in DOMAIN feeds} \in SUBSET Feed /\ DocsOf[Head(feeds)] \in Seq(Doc)
    BY <2>3, HeadAndTail, FeedAssumption
  <2>5. asked' \in [Run -> SUBSET Feed] /\ queue' \in [Run -> Seq(Feed)]
        /\ unread' \in [Run -> Seq(Doc)]
    BY <2>2, <2>3, <2>4 DEF TypeOK
  <2>6. pc' \in [Run -> Working \cup Ending \cup {"unused"}]
    BY <1>2 DEF Invoke, TypeOK, Working
  <2>7. QED
    BY <1>2, <2>1, <2>5, <2>6 DEF Invoke, TypeOK, storeVars
<1>3. ASSUME NEW r \in Run, FetchPage(r) PROVE TypeOK'
  <2>1. unread[r] # <<>>
    BY <1>3 DEF FetchPage, Position, RunOK
  <2>2. todo' \in [Run -> Seq(Doc)] /\ unread' \in [Run -> Seq(Doc)]
    BY <1>3, <2>1, PageAndRest DEF FetchPage, TypeOK
  <2>3. \A records : Rendered(fetched[r], records) \in [Doc -> Content]
    BY DEF Rendered, TypeOK, Version, Content
  <2>4. fetched' \in [Run -> [Doc -> Content]]
    BY <1>3, <2>3 DEF FetchPage, TypeOK
  <2>5. pc' \in [Run -> Working \cup Ending \cup {"unused"}]
    BY <1>3 DEF FetchPage, TypeOK, Working
  <2>6. QED
    BY <1>3, <2>2, <2>4, <2>5 DEF FetchPage, TypeOK, storeVars
<1>4. ASSUME NEW r \in Run, FetchFails(r) PROVE TypeOK'
  <2>1. queue[r] # <<>>
    BY <1>4 DEF FetchFails, Position, RunOK, Working
  <2>2. errors' \in [Run -> SUBSET Feed]
    BY <1>4, <2>1, HeadOfQueue DEF FetchFails, TypeOK
  <2>3. /\ pc' \in [Run -> Working \cup Ending \cup {"unused"}]
        /\ queue' \in [Run -> Seq(Feed)]
        /\ unread' \in [Run -> Seq(Doc)] /\ todo' \in [Run -> Seq(Doc)]
    <3>1. CASE NextFeed(r)
      BY <2>1, <3>1, NextFeedGoesOn
    <3>2. CASE pc' = [pc EXCEPT ![r] = "raised"] /\ UNCHANGED <<queue, unread, todo>>
      BY <3>2 DEF TypeOK, Ending
    <3>3. QED
      BY <1>4, <3>1, <3>2 DEF FetchFails
  <2>4. QED
    BY <1>4, <2>2, <2>3 DEF FetchFails, TypeOK, storeVars
<1>5. ASSUME NEW r \in Run, Skip(r) PROVE TypeOK'
  <2>1. queue[r] # <<>> /\ todo[r] # <<>>
    BY <1>5 DEF Skip, Position, RunOK, Working
  <2>2. skipped' \in [Run -> SUBSET Doc]
    BY <1>5, <2>1, HeadOfTodo DEF Skip, TypeOK
  <2>3. NextDoc(r)
    BY <1>5 DEF Skip
  <2>4. QED
    BY <1>5, <2>1, <2>2, <2>3, NextDocTypes DEF Skip, TypeOK, storeVars
<1>6. ASSUME NEW r \in Run, Change(r) PROVE TypeOK'
  <2>1. excuses' \in [Doc -> Nat]
    BY <1>6 DEF Change, TypeOK
  <2>2. pc' \in [Run -> Working \cup Ending \cup {"unused"}]
    BY <1>6 DEF Change, TypeOK, Working
  <2>3. QED
    BY <1>6, <2>1, <2>2 DEF Change, TypeOK, storeVars
<1>7. ASSUME NEW r \in Run, PutFirst(r) PROVE TypeOK'
  <2>1. todo[r] # <<>>
    BY <1>7 DEF PutFirst, Position, RunOK
  <2>2. /\ doc' = [doc EXCEPT ![Head(todo[r])] = fetched[r][Head(todo[r])]]
        /\ puts' = [puts EXCEPT ![Head(todo[r])][fetched[r][Head(todo[r])]] = @ + 1]
        /\ UNCHANGED hash
    BY <1>7 DEF PutFirst, PutOrder, Put
  <2>3. doc' \in [Doc -> Content]
    BY <2>1, <2>2, HeadOfTodo DEF TypeOK
  <2>4. puts' \in [Doc -> [Version -> Nat]]
    <3> DEFINE d == Head(todo[r])
               v == fetched[r][d]
    <3>1. puts[d] \in [Version -> Nat] /\ puts \in [Doc -> [Version -> Nat]]
      BY <2>1, HeadOfTodo DEF TypeOK
    <3>2. puts' = [puts EXCEPT ![d][v] = puts[d][v] + 1]
      BY <2>2
    <3>3. \A w \in Version : puts[d][w] \in Nat /\ puts[d][w] + 1 \in Nat
      BY <3>1
    <3>4. [puts[d] EXCEPT ![v] = puts[d][v] + 1] \in [Version -> Nat]
      BY <3>1, <3>3
    <3>5. QED
      BY <3>1, <3>2, <3>4
  <2>5. pc' \in [Run -> Working \cup Ending \cup {"unused"}]
    BY <1>7 DEF PutFirst, TypeOK, Working
  <2>6. QED
    BY <1>7, <2>2, <2>3, <2>4, <2>5 DEF PutFirst, TypeOK
<1>8. ASSUME NEW r \in Run, PutSecond(r) PROVE TypeOK'
  <2>1. queue[r] # <<>> /\ todo[r] # <<>>
    BY <1>8 DEF PutSecond, Position, RunOK, Working
  <2>2. /\ hash' = [hash EXCEPT ![Head(todo[r])] = fetched[r][Head(todo[r])]]
        /\ UNCHANGED <<doc, puts>>
    BY <1>8 DEF PutSecond, PutOrder, Put
  <2>3. hash' \in [Doc -> Content]
    BY <2>1, <2>2, HeadOfTodo DEF TypeOK
  <2>4. NextDoc(r)
    BY <1>8 DEF PutSecond
  <2>5. QED
    BY <1>8, <2>1, <2>2, <2>3, <2>4, NextDocTypes DEF PutSecond, TypeOK
<1>9. ASSUME NEW r \in Run, Dies(r) PROVE TypeOK'
  <2>1. excuses' \in [Doc -> Nat]
    BY <1>9 DEF Dies, TypeOK
  <2>2. pc' \in [Run -> Working \cup Ending \cup {"unused"}]
    BY <1>9 DEF Dies, TypeOK, Ending
  <2>3. QED
    BY <1>9, <2>1, <2>2 DEF Dies, TypeOK, storeVars
<1>10. CASE UNCHANGED vars
  BY <1>10 DEF vars, storeVars, runVars, TypeOK
<1>11. QED
  BY <1>1, <1>2, <1>3, <1>4, <1>5, <1>6, <1>7, <1>8, <1>9, <1>10 DEF Next, Step

-----------------------------------------------------------------------------
(* Where runs are *)

\* A run that nothing happens to is where it was.
LEMMA OthersStay ==
    ASSUME NEW r \in Run, RunOK(r), runs' = runs,
           pc'[r] = pc[r], asked'[r] = asked[r], queue'[r] = queue[r],
           unread'[r] = unread[r], todo'[r] = todo[r],
           results'[r] = results[r], errors'[r] = errors[r]
    PROVE  RunOK(r)'
BY DEF RunOK, Working

\* The current feed goes to the results or to the errors, and the queue goes on.
LEMMA FeedIsReported ==
    ASSUME TypeOK, NEW r \in Run, RunOK(r), pc[r] \in Working, NextFeed(r),
           runs' = runs, asked' = asked,
           \/ /\ results' = [results EXCEPT ![r] = @ \cup {Head(queue[r])}]
              /\ UNCHANGED errors
           \/ /\ errors' = [errors EXCEPT ![r] = @ \cup {Head(queue[r])}]
              /\ UNCHANGED results
    PROVE  RunOK(r)'
<1> DEFINE feed == Head(queue[r])
           rest == Tail(queue[r])
<1>1. queue[r] # <<>> /\ Distinct(queue[r]) /\ ~(r > runs)
  BY DEF RunOK, Working
<1>2. /\ Elems(queue[r]) = {feed} \cup Elems(rest) /\ feed \notin Elems(rest) /\ Distinct(rest)
  BY <1>1, HeadOfQueue, DistinctTail DEF TypeOK
<1>3. /\ results'[r] \cup errors'[r] = results[r] \cup errors[r] \cup {feed}
      /\ results'[r] \cap errors'[r] = {}
  <2>1. results[r] \cap errors[r] = {} /\ feed \notin results[r] \cup errors[r]
    BY <1>2 DEF RunOK
  <2>2. results \in [Run -> SUBSET Feed] /\ errors \in [Run -> SUBSET Feed]
    BY DEF TypeOK
  <2>3. QED
    BY <2>1, <2>2
<1>4. /\ asked'[r] = results'[r] \cup errors'[r] \cup Elems(rest)
      /\ Elems(rest) \cap (results'[r] \cup errors'[r]) = {}
  BY <1>1, <1>2, <1>3 DEF RunOK
<1>5. CASE pc'[r] = "responded" /\ rest = <<>>
  <2>1. Elems(rest) = {}
    BY <1>5 DEF Elems
  <2>2. QED
    BY <1>1, <1>3, <1>4, <1>5, <2>1 DEF RunOK, Working
<1>6. CASE /\ pc'[r] = "fetch" /\ rest # <<>>
           /\ unread'[r] = DocsOf[Head(queue'[r])] /\ unread'[r] # <<>>
           /\ queue'[r] = rest /\ todo'[r] = <<>>
  <2>1. Elems(todo'[r]) = {}
    BY <1>6 DEF Elems
  <2>2. Elems(queue[r])' = Elems(rest) /\ Distinct(queue[r])' /\ Elems(todo[r])' = {}
        /\ Elems(unread[r])' = Elems(DocsOf[Head(queue[r])])'
    BY <1>2, <1>6, <2>1 DEF Elems, Distinct
  <2>3. QED
    BY <1>1, <1>3, <1>4, <1>6, <2>2 DEF RunOK, Working
<1>7. QED
  BY <1>1, <1>5, <1>6, NextFeedGoesOn

\* The next document leaves a run where it should be.
LEMMA DocIsDone ==
    ASSUME TypeOK, NEW r \in Run, RunOK(r), pc[r] \in Working, todo[r] # <<>>, NextDoc(r),
           runs' = runs, asked' = asked, errors' = errors
    PROVE  RunOK(r)'
<1>1. queue[r] # <<>> /\ ~(r > runs)
  BY DEF RunOK, Working
<1>2. CASE /\ results' = [results EXCEPT ![r] = @ \cup {Head(queue[r])}]
           /\ NextFeed(r)
  BY <1>2, FeedIsReported
<1>3. CASE /\ todo' = [todo EXCEPT ![r] = Tail(@)]
           /\ \/ /\ Tail(todo[r]) = <<>> /\ unread[r] # <<>>
                 /\ pc' = [pc EXCEPT ![r] = "fetch"]
              \/ /\ Tail(todo[r]) # <<>>
                 /\ pc' = [pc EXCEPT ![r] = "read_hash"]
           /\ UNCHANGED <<queue, unread, results>>
  <2>1. todo'[r] = Tail(todo[r]) /\ Elems(Tail(todo[r])) \subseteq Elems(todo[r])
    BY <1>3, HeadOfTodo DEF TypeOK
  <2>2. Elems(todo[r])' \subseteq Elems(todo[r])
    BY <2>1 DEF Elems
  <2>3. /\ pc'[r] \in {"fetch", "read_hash"}
        /\ pc'[r] = "fetch" => unread'[r] # <<>> /\ todo'[r] = <<>>
        /\ pc'[r] = "read_hash" => todo'[r] # <<>>
    BY <1>3, <2>1 DEF TypeOK
  <2>4. UNCHANGED <<queue, unread, results, asked, errors, runs>>
    BY <1>3
  <2>5. QED
    BY <1>1, <2>2, <2>3, <2>4 DEF RunOK, Working
<1>4. QED
  BY <1>1, <1>2, <1>3, NextDocGoesOn

\* A step of a run changes nothing of another.
LEMMA StepIsOwn ==
    ASSUME TypeOK, NEW r \in Run, NEW q \in Run, q # r, RunOK(r), Step(r) \/ Dies(r)
    PROVE  /\ pc'[q] = pc[q] /\ queue'[q] = queue[q]
           /\ unread'[q] = unread[q] /\ todo'[q] = todo[q] /\ fetched'[q] = fetched[q]
           /\ results'[q] = results[q] /\ errors'[q] = errors[q]
<1>1. ASSUME NextFeed(r), queue[r] # <<>>
      PROVE  /\ pc'[q] = pc[q] /\ queue'[q] = queue[q]
             /\ unread'[q] = unread[q] /\ todo'[q] = todo[q]
  BY <1>1, NextFeedGoesOn
<1>2. CASE FetchPage(r) \/ Change(r) \/ PutFirst(r) \/ Dies(r)
  BY <1>2 DEF FetchPage, Change, PutFirst, Dies, TypeOK
<1>3. CASE FetchFails(r)
  BY <1>1, <1>3 DEF FetchFails, TypeOK, RunOK, Working
<1>4. CASE Skip(r) \/ PutSecond(r)
  <2>1. NextDoc(r) /\ errors' = errors /\ fetched' = fetched /\ queue[r] # <<>> /\ todo[r] # <<>>
    BY <1>4 DEF Skip, PutSecond, RunOK, Working
  <2>2. CASE /\ results' = [results EXCEPT ![r] = @ \cup {Head(queue[r])}]
             /\ NextFeed(r)
    BY <1>1, <2>1, <2>2 DEF TypeOK
  <2>3. CASE /\ todo' = [todo EXCEPT ![r] = Tail(@)]
             /\ \/ pc' = [pc EXCEPT ![r] = "fetch"]
                \/ pc' = [pc EXCEPT ![r] = "read_hash"]
             /\ UNCHANGED <<queue, unread, results>>
    BY <2>1, <2>3 DEF TypeOK
  <2>4. QED
    BY <2>1, <2>2, <2>3, NextDocGoesOn
<1>5. QED
  BY <1>2, <1>3, <1>4 DEF Step

\* A run is where it should be after any step.
LEMMA PositionStep == TypeOK /\ Position /\ [Next]_vars => Position'
<1> SUFFICES ASSUME TypeOK, Position, [Next]_vars, NEW q \in Run
             PROVE  RunOK(q)'
  BY DEF Position
<1>0. RunOK(q)
  BY DEF Position
<1> USE DEF historyVars
<1>1. CASE (\E d \in Doc : UpstreamChanges(d)) \/ UNCHANGED vars
  BY <1>0, <1>1, OthersStay DEF UpstreamChanges, vars, runVars
<1>2. CASE Invoke
  <2>1. runs + 1 \in Run /\ runs \in Nat
    BY <1>2, FeedAssumption DEF Invoke, TypeOK, Run
  <2>2. PICK feeds \in {FeedOrder} \cup {<<f>> : f \in Feed} :
          /\ asked' = [asked EXCEPT ![runs + 1] = {feeds[i] : i \in DOMAIN feeds}]
          /\ queue' = [queue EXCEPT ![runs + 1] = feeds]
          /\ unread' = [unread EXCEPT ![runs + 1] = DocsOf[Head(feeds)]]
    BY <1>2 DEF Invoke
  <2>3. CASE q # runs + 1
    <3>1. pc'[q] = pc[q] /\ (q > runs + 1 <=> q > runs)
      BY <1>2, <2>1, <2>3 DEF Invoke, TypeOK, Run
    <3>2. /\ asked'[q] = asked[q] /\ queue'[q] = queue[q] /\ unread'[q] = unread[q]
          /\ todo'[q] = todo[q] /\ results'[q] = results[q] /\ errors'[q] = errors[q]
      BY <1>2, <2>2, <2>3 DEF Invoke, TypeOK
    <3>3. runs' = runs + 1
      BY <1>2 DEF Invoke
    <3>4. QED
      BY <1>0, <3>1, <3>2, <3>3 DEF RunOK, Working
  <2>4. CASE q = runs + 1
    <3>1. q > runs /\ ~(q > runs') /\ pc[q] = "unused"
      BY <1>0, <1>2, <2>1, <2>4 DEF Invoke, RunOK
    <3>2. results[q] = {} /\ errors[q] = {} /\ results'[q] = {} /\ errors'[q] = {}
      BY <1>0, <1>2, <3>1 DEF Invoke, RunOK
    <3>3. feeds \in Seq(Feed) /\ feeds # <<>> /\ Distinct(feeds)
      <4>1. \A f \in Feed : <<f>> \in Seq(Feed) /\ <<f>> # <<>> /\ Distinct(<<f>>)
        BY DEF Distinct
      <4>2. QED
        BY <4>1, FeedAssumption DEF Distinct
    <3>4. Head(feeds) \in Feed /\ DocsOf[Head(feeds)] # <<>>
      BY <3>3, HeadAndTail, FeedAssumption
    <3>5. /\ pc'[q] = "fetch" /\ asked'[q] = Elems(feeds) /\ queue'[q] = feeds
          /\ unread'[q] = DocsOf[Head(feeds)]
      BY <1>2, <2>2, <2>4 DEF Invoke, TypeOK, Elems
    <3>6. todo'[q] = todo[q]
      BY <1>2 DEF Invoke
    <3>7. todo[q] = <<>>
      BY <1>0, <3>1 DEF RunOK
    <3>8. /\ Elems(todo[q])' = {} /\ Elems(queue[q])' = Elems(feeds)
          /\ Elems(unread[q])' = Elems(DocsOf[Head(queue[q])])' /\ Distinct(queue[q])'
      BY <3>3, <3>5, <3>6, <3>7 DEF Elems, Distinct
    <3>9. QED
      BY <3>1, <3>2, <3>3, <3>4, <3>5, <3>6, <3>7, <3>8 DEF RunOK, Working
  <2>5. QED
    BY <2>3, <2>4
<1>3. ASSUME NEW r \in Run, Step(r) \/ Dies(r) PROVE RunOK(q)'
  <2>0. RunOK(r) /\ ~(r > runs) /\ runs' = runs /\ asked' = asked
    <3>1. RunOK(r) /\ pc[r] # "unused"
      BY <1>3 DEF Position, Step, FetchPage, FetchFails, Skip, Change, PutFirst, PutSecond, Dies
    <3>2. QED
      BY <1>3, <3>1 DEF RunOK, Step, FetchPage, FetchFails, Skip, Change, PutFirst, PutSecond, Dies
  <2>1. CASE q # r
    BY <1>0, <1>3, <2>0, <2>1, StepIsOwn, OthersStay
  <2>2. CASE q = r
    <3>1. CASE FetchPage(r)
      <4>1. queue[r] # <<>> /\ unread[r] # <<>> /\ pc[r] = "fetch" /\ pc'[r] = "read_hash"
        BY <2>0, <3>1 DEF FetchPage, RunOK, Working, TypeOK
      <4>2. /\ todo'[r] = Page(r)
            /\ unread'[r] = SubSeq(unread[r], Len(Page(r)) + 1, Len(unread[r]))
            /\ UNCHANGED <<queue, results, errors>>
        BY <3>1 DEF FetchPage, TypeOK
      <4>3. todo'[r] # <<>> /\ Elems(unread[r]) = Elems(todo'[r]) \cup Elems(unread'[r])
        BY <4>1, <4>2, PageAndRest
      <4>4. /\ Elems(todo[r])' = Elems(todo'[r]) /\ Elems(unread[r])' = Elems(unread'[r])
            /\ UNCHANGED <<Elems(queue[r]), Distinct(queue[r]), Elems(DocsOf[Head(queue[r])])>>
        BY <4>2 DEF Elems, Distinct
      <4>5. Elems(unread[r]) \subseteq Elems(DocsOf[Head(queue[r])])
        BY <2>0, <4>1 DEF RunOK, Working
      <4>6. QED
        BY <2>0, <2>2, <4>1, <4>2, <4>3, <4>4, <4>5 DEF RunOK, Working
    <3>2. CASE FetchFails(r)
      <4>1. queue[r] # <<>> /\ pc[r] = "fetch"
        BY <2>0, <3>2 DEF FetchFails, RunOK, Working
      <4>2. CASE asked[r] = {Head(queue[r])}
        <5>1. /\ errors'[r] = errors[r] \cup {Head(queue[r])} /\ pc'[r] = "raised"
              /\ results'[r] = results[r]
          BY <3>2, <4>2 DEF FetchFails, TypeOK
        <5>2. errors[r] \subseteq asked[r]
          BY <2>0, <4>1 DEF RunOK, Working
        <5>3. errors'[r] = asked'[r]
          BY <2>0, <4>2, <5>1, <5>2
        <5>4. QED
          BY <2>0, <2>2, <5>1, <5>3 DEF RunOK, Working
      <4>3. CASE NextFeed(r)
        BY <2>0, <2>2, <3>2, <4>1, <4>3, FeedIsReported DEF FetchFails, Working
      <4>4. QED
        BY <3>2, <4>2, <4>3 DEF FetchFails
    <3>3. CASE Skip(r) \/ PutSecond(r)
      <4>1. /\ NextDoc(r) /\ errors' = errors /\ todo[r] # <<>> /\ pc[r] \in Working
        BY <2>0, <3>3 DEF Skip, PutSecond, RunOK, Working
      <4>2. QED
        BY <2>0, <2>2, <4>1, DocIsDone
    <3>4. CASE Change(r) \/ PutFirst(r)
      <4>1. /\ pc'[r] \in {"put_first", "put_second"} /\ pc[r] \in {"read_hash", "put_first"}
            /\ UNCHANGED <<queue, unread, todo, results, errors>>
        BY <3>4 DEF Change, PutFirst, TypeOK
      <4>2. UNCHANGED <<Elems(todo[r]), Elems(unread[r]), Elems(queue[r]), Distinct(queue[r]),
                        Elems(DocsOf[Head(queue[r])])>>
        BY <4>1 DEF Elems, Distinct
      <4>3. QED
        BY <2>0, <2>2, <4>1, <4>2 DEF RunOK, Working
    <3>5. CASE Dies(r)
      <4>1. pc'[r] = "died" /\ UNCHANGED <<queue, unread, todo, results, errors>>
        BY <3>5 DEF Dies, TypeOK
      <4>2. QED
        BY <2>0, <2>2, <4>1 DEF RunOK, Working
    <3>6. QED
      BY <1>3, <3>1, <3>2, <3>3, <3>4, <3>5 DEF Step
  <2>3. QED
    BY <2>1, <2>2
<1>4. QED
  BY <1>1, <1>2, <1>3 DEF Next

\* Before the first run no run has begun.
LEMMA PositionInit == Init => TypeOK /\ Position
<1> SUFFICES ASSUME Init PROVE TypeOK /\ Position
  OBVIOUS
<1>1. TypeOK
  BY FeedAssumption DEF Init, TypeOK, Version, Content, NoVersion
<1>2. Position
  BY FeedAssumption DEF Init, Position, RunOK, Working, Run
<1>3. QED
  BY <1>1, <1>2

\* A run that is not killed responds, with every feed it was asked for among its
\* results or its errors and none among both; it raises only when its single feed
\* failed (handler.py). Whatever runs overlap and whatever contents return.
THEOREM FeedFailuresAreIsolated == Spec => []FailuresAreIsolated
<1>1. TypeOK /\ Position /\ [Next]_vars => (TypeOK /\ Position)'
  BY TypeStep, PositionStep
<1>2. TypeOK /\ Position => FailuresAreIsolated
  BY DEF Position, RunOK, FailuresAreIsolated
<1>3. QED
  BY PositionInit, <1>1, <1>2, PTL DEF Spec

-----------------------------------------------------------------------------
(* What runs store, when they follow one another and contents only get newer *)

\* A run starts when those before it have ended.
Serial == \A r \in Run : r < runs => pc[r] \in Ending

\* A document is newer than its hash and older than its record.
Ordered == \A d \in Doc : hash[d] <= doc[d] /\ doc[d] <= upstream[d]

\* What a run has to write is not older than what is stored.
Newer(r) ==
    \A d \in Elems(todo[r]) :
        fetched[r][d] # NoVersion /\ doc[d] <= fetched[r][d] /\ fetched[r][d] <= upstream[d]

\* Of its current feed, all is stored but what it has still to fetch or to write.
Left(r) ==
    \A d \in Elems(DocsOf[Head(queue[r])]) :
        doc[d] = fetched[r][d] \/ d \in Elems(todo[r]) \cup Elems(unread[r])

Writes(r) ==
    pc[r] \in Working =>
        /\ Newer(r) /\ Left(r)
        /\ pc[r] = "put_second" => doc[Head(todo[r])] = fetched[r][Head(todo[r])]

Reported(r) ==
    r = runs => \A f \in results[r] : \A d \in Elems(DocsOf[f]) : doc[d] = fetched[r][d]

Stored ==
    /\ Serial /\ Ordered
    /\ \A r \in Run : Writes(r) /\ Reported(r)

\* One run works at a time.
LEMMA OneWorks ==
    ASSUME TypeOK, Position, Serial, NEW r \in Run, pc[r] \in Working
    PROVE  r = runs /\ \A q \in Run : q # r => pc[q] \notin Working
<1>1. \A q \in Run : pc[q] \in Working => q = runs
  <2> SUFFICES ASSUME NEW q \in Run, pc[q] \in Working PROVE q = runs
    OBVIOUS
  <2>1. pc[q] # "unused" /\ pc[q] \notin Ending
    BY DEF Working, Ending
  <2>2. ~(q > runs) /\ ~(q < runs)
    BY <2>1 DEF Position, RunOK, Serial
  <2>3. QED
    BY <2>2, FeedAssumption DEF TypeOK, Run
<1>2. QED
  BY <1>1

\* A document whose content is stored is done: the run has the rest to write, and
\* what it reports is stored.
LEMMA DocIsStored ==
    ASSUME TypeOK, NEW r \in Run, RunOK(r), Writes(r), Reported(r),
           pc[r] \in Working, todo[r] # <<>>,
           doc[Head(todo[r])] = fetched[r][Head(todo[r])],
           NextDoc(r), UNCHANGED <<runs, doc, upstream, fetched>>
    PROVE  Writes(r)' /\ Reported(r)'
<1> DEFINE d == Head(todo[r])
           feed == Head(queue[r])
<1>1. queue[r] # <<>> /\ Elems(todo[r]) = {d} \cup Elems(Tail(todo[r]))
  BY HeadOfTodo DEF RunOK
<1>2. CASE /\ Tail(todo[r]) = <<>> /\ unread[r] = <<>>
           /\ results' = [results EXCEPT ![r] = @ \cup {feed}]
           /\ NextFeed(r)
  <2>1. Elems(Tail(todo[r])) = {} /\ Elems(unread[r]) = {}
    BY <1>2 DEF Elems
  <2>2. \A e \in Elems(DocsOf[feed]) : doc[e] = fetched[r][e]
    BY <1>1, <2>1 DEF Writes, Left
  <2>3. results'[r] = results[r] \cup {feed}
    BY <1>2 DEF TypeOK
  <2>4. Reported(r)'
    BY <2>2, <2>3 DEF Reported, Elems
  <2>5. CASE pc'[r] = "responded"
    BY <2>4, <2>5 DEF Writes, Working
  <2>6. CASE /\ pc'[r] = "fetch" /\ todo'[r] = <<>>
             /\ unread'[r] = DocsOf[Head(queue'[r])]
    <3>1. Newer(r)' /\ Left(r)'
      BY <2>6 DEF Newer, Left, Elems
    <3>2. QED
      BY <2>4, <2>6, <3>1 DEF Writes
  <2>7. QED
    BY <1>1, <1>2, <2>5, <2>6, NextFeedGoesOn
<1>3. CASE /\ todo' = [todo EXCEPT ![r] = Tail(@)]
           /\ \/ pc' = [pc EXCEPT ![r] = "fetch"]
              \/ pc' = [pc EXCEPT ![r] = "read_hash"]
           /\ UNCHANGED <<queue, unread, results>>
  <2>1. todo'[r] = Tail(todo[r]) /\ pc'[r] \in {"fetch", "read_hash"}
    BY <1>3 DEF TypeOK
  <2>2. Newer(r) /\ Left(r)
    BY DEF Writes
  <2>3. Elems(todo[r]) = {d} \cup Elems(todo[r])'
    BY <1>1, <2>1 DEF Elems
  <2>4. UNCHANGED <<Elems(DocsOf[Head(queue[r])]), Elems(unread[r])>>
    BY <1>3 DEF Elems
  <2>5. Newer(r)'
    BY <2>2, <2>3 DEF Newer
  <2>6. Left(r)'
    BY <2>2, <2>3, <2>4 DEF Left
  <2>7. Reported(r)'
    BY <1>3 DEF Reported, Elems
  <2>8. QED
    BY <2>1, <2>5, <2>6, <2>7 DEF Writes
<1>4. QED
  BY <1>1, <1>2, <1>3, NextDocGoesOn

\* Documents of the current feed are of no feed that is done.
LEMMA FeedsAreApart ==
    ASSUME TypeOK, NEW r \in Run, RunOK(r), pc[r] \in Working,
           NEW d \in Elems(todo[r]) \cup Elems(unread[r]),
           NEW f \in results[r]
    PROVE  d \notin Elems(DocsOf[f])
<1>1. Head(queue[r]) \in Feed /\ f \in Feed /\ f # Head(queue[r])
  BY HeadOfQueue DEF RunOK, TypeOK
<1>2. d \in Elems(DocsOf[Head(queue[r])])
  BY DEF RunOK
<1>3. QED
  BY <1>1, <1>2, FeedAssumption DEF Elems

\* A working run keeps what is stored.
LEMMA RunStores ==
    ASSUME TypeOK, Ordered, NEW r \in Run, RunOK(r), Writes(r), Reported(r),
           pc[r] \in Working, Step(r) \/ Dies(r)
    PROVE  Ordered' /\ Writes(r)' /\ Reported(r)'
<1> USE DEF historyVars
<1>0. /\ Newer(r) /\ Left(r) /\ queue[r] # <<>>
      /\ runs' = runs /\ upstream' = upstream
      /\ \A d \in Doc : doc[d] \in Nat /\ hash[d] \in Nat /\ upstream[d] \in Nat \ {0}
                       /\ fetched[r][d] \in Nat
      /\ \A d \in Elems(todo[r]) : d \in Doc
  <2>1. runs' = runs /\ upstream' = upstream
    BY DEF Step, FetchPage, FetchFails, Skip, Change, PutFirst, PutSecond, Dies
  <2>2. \A d \in Elems(todo[r]) : d \in Doc
    BY DEF TypeOK, Elems
  <2>3. \A d \in Doc : /\ doc[d] \in Nat /\ hash[d] \in Nat /\ upstream[d] \in Nat \ {0}
                       /\ fetched[r][d] \in Nat
    BY DEF TypeOK, Content, Version
  <2>4. Newer(r) /\ Left(r) /\ queue[r] # <<>>
    BY DEF Writes, RunOK
  <2>5. QED
    BY <2>1, <2>2, <2>3, <2>4
<1>1. CASE FetchPage(r)
  <2>1. /\ pc'[r] = "read_hash" /\ pc[r] = "fetch" /\ unread[r] # <<>> /\ todo[r] = <<>>
        /\ UNCHANGED <<doc, hash, queue, results>>
    BY <1>1 DEF FetchPage, RunOK, storeVars, TypeOK
  <2>2. /\ todo'[r] = Page(r)
        /\ unread'[r] = SubSeq(unread[r], Len(Page(r)) + 1, Len(unread[r]))
        /\ fetched'[r] = Rendered(fetched[r], Elems(Page(r)))
    BY <1>1 DEF FetchPage, TypeOK, Elems
  <2>3. /\ Elems(unread[r]) = Elems(Page(r)) \cup Elems(unread[r])'
        /\ Elems(todo[r])' = Elems(Page(r)) /\ Elems(todo[r]) = {}
        /\ Elems(DocsOf[Head(queue[r])])' = Elems(DocsOf[Head(queue[r])])
    <3>1. Elems(unread[r])' = Elems(unread'[r]) /\ Elems(todo[r])' = Elems(todo'[r])
      BY DEF Elems
    <3>2. Elems(unread[r]) = Elems(Page(r)) \cup Elems(unread'[r])
      BY <2>1, <2>2, PageAndRest
    <3>3. Elems(todo[r])' = Elems(Page(r))
      BY <2>2, <3>1
    <3>4. Elems(todo[r]) = {}
      BY <2>1 DEF Elems
    <3>5. Elems(DocsOf[Head(queue[r])])' = Elems(DocsOf[Head(queue[r])])
      BY <2>1 DEF Elems
    <3>6. QED
      BY <3>1, <3>2, <3>3, <3>4, <3>5
  <2>4. Elems(Page(r)) \subseteq Doc
    BY <2>1, PageAndRest DEF Elems
  <2>5. \A d \in Doc : fetched'[r][d] = IF d \in Elems(Page(r)) THEN upstream[d]
                                        ELSE fetched[r][d]
    BY <2>2 DEF Rendered
  <2>6. Newer(r)'
    BY <1>0, <2>1, <2>3, <2>4, <2>5 DEF Newer, Ordered, NoVersion
  <2>7. Elems(DocsOf[Head(queue[r])]) \subseteq Doc
    BY <1>0, HeadOfQueue DEF Elems
  <2>8. Left(r)'
    BY <1>0, <2>1, <2>3, <2>5, <2>7 DEF Left
  <2>9. Reported(r)'
    <3> SUFFICES ASSUME r = runs, NEW f \in results[r], NEW d \in Elems(DocsOf[f])
                 PROVE  doc[d] = fetched'[r][d]
      BY <1>0, <2>1 DEF Reported, Elems
    <3>1. d \notin Elems(Page(r))
      BY <2>3, FeedsAreApart
    <3>2. d \in Doc
      BY FeedAssumption DEF TypeOK, Elems
    <3>3. QED
      BY <2>5, <3>1, <3>2 DEF Reported
  <2>10. Ordered'
    BY <1>0, <2>1 DEF Ordered
  <2>11. QED
    BY <2>1, <2>6, <2>8, <2>9, <2>10 DEF Writes
<1>2. CASE FetchFails(r)
  <2>1. UNCHANGED <<doc, hash, fetched, results>>
    BY <1>2 DEF FetchFails, storeVars
  <2>2. Ordered' /\ Reported(r)'
    BY <1>0, <2>1 DEF Ordered, Reported, Elems
  <2>3. CASE pc'[r] \in {"raised", "responded"}
    BY <2>2, <2>3 DEF Writes, Working
  <2>4. CASE /\ pc'[r] = "fetch" /\ todo'[r] = <<>>
             /\ unread'[r] = DocsOf[Head(queue'[r])]
    <3>1. Newer(r)' /\ Left(r)'
      BY <2>4 DEF Newer, Left, Elems
    <3>2. QED
      BY <2>2, <2>4, <3>1 DEF Writes
  <2>5. CASE pc' = [pc EXCEPT ![r] = "raised"]
    BY <2>3, <2>5 DEF TypeOK
  <2>6. QED
    BY <1>0, <1>2, <2>3, <2>4, <2>5, NextFeedGoesOn DEF FetchFails
<1>3. CASE Skip(r)
  <2>1. /\ hash[Head(todo[r])] = fetched[r][Head(todo[r])] /\ todo[r] # <<>> /\ NextDoc(r)
        /\ UNCHANGED <<doc, hash, fetched>>
    BY <1>3 DEF Skip, Unchanged, RunOK, storeVars
  <2>2. Head(todo[r]) \in Elems(todo[r]) /\ Head(todo[r]) \in Doc
    BY <2>1, HeadOfTodo
  <2>3. doc[Head(todo[r])] = fetched[r][Head(todo[r])]
    BY <1>0, <2>1, <2>2 DEF Newer, Ordered
  <2>4. QED
    BY <1>0, <2>1, <2>3, DocIsStored DEF Ordered
<1>4. CASE Change(r)
  <2>1. /\ pc'[r] = "put_first"
        /\ UNCHANGED <<doc, hash, queue, unread, todo, fetched, results>>
    BY <1>4 DEF Change, storeVars, TypeOK
  <2>2. UNCHANGED <<Newer(r), Left(r), Reported(r)>>
    BY <1>0, <2>1 DEF Newer, Left, Reported, Elems
  <2>3. QED
    BY <1>0, <2>1, <2>2 DEF Writes, Ordered
<1>5. CASE PutFirst(r)
  <2> DEFINE d == Head(todo[r])
  <2>1. /\ doc' = [doc EXCEPT ![d] = fetched[r][d]] /\ todo[r] # <<>> /\ pc'[r] = "put_second"
        /\ UNCHANGED <<hash, queue, unread, todo, fetched, results>>
    BY <1>5 DEF PutFirst, PutOrder, Put, RunOK, TypeOK
  <2>2. d \in Elems(todo[r]) /\ d \in Doc
    BY <2>1, HeadOfTodo
  <2>3. /\ doc'[d] = fetched[r][d]
        /\ \A e \in Doc : doc'[e] = doc[e] \/ (e = d /\ doc'[e] = fetched[r][e])
    BY <2>1, <2>2 DEF TypeOK
  <2>4. /\ doc[d] <= fetched[r][d] /\ fetched[r][d] <= upstream[d]
        /\ hash[d] <= doc[d]
    BY <1>0, <2>2 DEF Newer, Ordered
  <2>5. Ordered'
    <3> SUFFICES ASSUME NEW e \in Doc PROVE hash[e] <= doc'[e] /\ doc'[e] <= upstream[e]
      BY <1>0, <2>1 DEF Ordered
    <3>1. CASE e = d
      BY <1>0, <2>2, <2>3, <2>4, <3>1
    <3>2. CASE e # d
      BY <2>3, <3>2 DEF Ordered
    <3>3. QED
      BY <3>1, <3>2
  <2>6. UNCHANGED <<Elems(todo[r]), Elems(unread[r]), Elems(DocsOf[Head(queue[r])])>>
    BY <2>1 DEF Elems
  <2>7. Newer(r)'
    <3> SUFFICES ASSUME NEW e \in Elems(todo[r]) PROVE doc'[e] <= fetched[r][e]
      BY <1>0, <2>1, <2>6 DEF Newer
    <3>1. doc[e] <= fetched[r][e] /\ e \in Doc /\ fetched[r][e] \in Nat
      BY <1>0 DEF Newer
    <3>2. QED
      BY <2>3, <3>1
  <2>8. Elems(DocsOf[Head(queue[r])]) \subseteq Doc
    BY <1>0, HeadOfQueue DEF Elems
  <2>9. Left(r)'
    BY <1>0, <2>1, <2>3, <2>6, <2>8 DEF Left
  <2>10. Reported(r)'
    <3> SUFFICES ASSUME r = runs, NEW f \in results[r], NEW e \in Elems(DocsOf[f])
                 PROVE  doc'[e] = fetched[r][e]
      BY <1>0, <2>1 DEF Reported, Elems
    <3>1. e \in Doc
      BY FeedAssumption DEF TypeOK, Elems
    <3>2. doc[e] = fetched[r][e]
      BY DEF Reported
    <3>3. QED
      BY <2>3, <3>1, <3>2
  <2>11. QED
    BY <2>1, <2>3, <2>5, <2>7, <2>9, <2>10 DEF Writes
<1>6. CASE PutSecond(r)
  <2> DEFINE d == Head(todo[r])
  <2>1. /\ hash' = [hash EXCEPT ![d] = fetched[r][d]] /\ todo[r] # <<>> /\ NextDoc(r)
        /\ UNCHANGED <<doc, fetched>>
    BY <1>6 DEF PutSecond, PutOrder, Put, RunOK
  <2>2. doc[d] = fetched[r][d] /\ d \in Doc
    BY <1>6, <2>1, HeadOfTodo DEF PutSecond, Writes
  <2>3. Ordered'
    <3>1. \A e \in Doc : hash'[e] = hash[e] \/ (e = d /\ hash'[e] = fetched[r][e])
      BY <2>1 DEF TypeOK
    <3>2. \A e \in Doc : hash'[e] <= doc[e] /\ doc[e] <= upstream[e]
      BY <1>0, <2>2, <3>1 DEF Ordered
    <3>3. QED
      BY <1>0, <2>1, <3>2 DEF Ordered
  <2>4. QED
    BY <1>0, <2>1, <2>2, <2>3, DocIsStored
<1>7. CASE Dies(r)
  <2>1. pc'[r] = "died" /\ UNCHANGED <<doc, hash, fetched, results>>
    BY <1>7 DEF Dies, storeVars, TypeOK
  <2>2. QED
    BY <1>0, <2>1 DEF Writes, Working, Ordered, Reported, Elems
<1>8. QED
  BY <1>1, <1>2, <1>3, <1>4, <1>5, <1>6, <1>7 DEF Step

\* Runs that follow one another keep what is stored.
LEMMA StoredStep ==
    ASSUME ~Overlap, ~Reverts
    PROVE  TypeOK /\ Position /\ Stored /\ [Next]_vars => Stored'
<1> SUFFICES ASSUME TypeOK, Position, Stored, [Next]_vars PROVE Stored'
  OBVIOUS
<1> USE DEF historyVars
<1>0. /\ \A d \in Doc : doc[d] \in Nat /\ hash[d] \in Nat /\ upstream[d] \in Nat \ {0}
      /\ \A r \in Run : RunOK(r) /\ Writes(r) /\ Reported(r)
      /\ Ordered /\ Serial
  BY DEF TypeOK, Content, Version, Position, Stored
<1>1. ASSUME NEW d \in Doc, UpstreamChanges(d) PROVE Stored'
  <2>1. upstream' = [upstream EXCEPT ![d] = upstream[d] + 1]
        /\ UNCHANGED <<doc, hash, runs, pc, queue, unread, todo, fetched, results>>
    BY <1>1 DEF UpstreamChanges, storeVars, runVars
  <2>2. \A e \in Doc : upstream[e] <= upstream'[e] /\ upstream'[e] \in Nat
    BY <1>0, <2>1 DEF TypeOK
  <2>3. Ordered'
    BY <1>0, <2>1, <2>2 DEF Ordered
  <2>4. ASSUME NEW r \in Run PROVE Writes(r)' /\ Reported(r)'
    <3>1. UNCHANGED <<Elems(todo[r]), Elems(unread[r]), Elems(DocsOf[Head(queue[r])])>>
      BY <2>1 DEF Elems
    <3>2. Newer(r) => Newer(r)'
      <4> SUFFICES ASSUME Newer(r), NEW e \in Elems(todo[r])
                   PROVE  fetched[r][e] <= upstream'[e]
        BY <2>1, <3>1 DEF Newer
      <4>1. e \in Doc /\ fetched[r][e] \in Nat
        BY DEF TypeOK, Elems, Content
      <4>2. QED
        BY <1>0, <2>2, <4>1 DEF Newer
    <3>3. Left(r) => Left(r)'
      BY <2>1, <3>1 DEF Left
    <3>4. Reported(r)'
      BY <1>0, <2>1 DEF Reported, Elems
    <3>5. QED
      BY <1>0, <2>1, <3>2, <3>3, <3>4 DEF Writes
  <2>5. QED
    BY <1>0, <2>1, <2>3, <2>4 DEF Stored, Serial
<1>2. CASE Invoke
  <2>1. /\ runs + 1 \in Run /\ runs \in Nat /\ runs' = runs + 1
        /\ \A r \in Run : r <= runs => pc[r] \in Ending
    BY <1>2, FeedAssumption DEF Invoke, TypeOK, Run
  <2>2. PICK feeds \in {FeedOrder} \cup {<<f>> : f \in Feed} :
          /\ queue' = [queue EXCEPT ![runs + 1] = feeds]
          /\ unread' = [unread EXCEPT ![runs + 1] = DocsOf[Head(feeds)]]
    BY <1>2 DEF Invoke
  <2>3. /\ pc' = [pc EXCEPT ![runs + 1] = "fetch"]
        /\ UNCHANGED <<upstream, doc, hash, todo, fetched, results>>
    BY <1>2 DEF Invoke, storeVars
  <2>4. Serial'
    <3> SUFFICES ASSUME NEW r \in Run, r < runs + 1 PROVE pc'[r] \in Ending
      BY <2>1 DEF Serial
    <3>1. r # runs + 1 /\ r <= runs
      BY <2>1 DEF Run
    <3>2. QED
      BY <2>1, <2>3, <3>1 DEF TypeOK
  <2>5. Ordered'
    BY <1>0, <2>3 DEF Ordered
  <2>6. ASSUME NEW r \in Run, r # runs + 1 PROVE Writes(r)' /\ Reported(r)'
    <3>1. pc'[r] = pc[r] /\ pc[r] \notin Working
      <4>1. pc'[r] = pc[r]
        BY <2>3, <2>6 DEF TypeOK
      <4>2. pc[r] \in Ending \/ r > runs
        BY <2>1 DEF Run
      <4>3. QED
        BY <1>0, <4>1, <4>2 DEF RunOK, Ending, Working
    <3>2. QED
      BY <2>1, <2>6, <3>1 DEF Writes, Reported
  <2>7. ASSUME NEW r \in Run, r = runs + 1 PROVE Writes(r)' /\ Reported(r)'
    <3>1. pc[r] = "unused" /\ results[r] = {} /\ todo[r] = <<>>
      BY <1>0, <2>1, <2>7 DEF RunOK
    <3>2. /\ pc'[r] = "fetch" /\ todo'[r] = <<>> /\ results'[r] = {}
          /\ unread'[r] = DocsOf[Head(queue'[r])]
      BY <2>2, <2>3, <2>7, <3>1 DEF TypeOK
    <3>3. Elems(todo[r])' = {} /\ Elems(unread[r])' = Elems(DocsOf[Head(queue[r])])'
      BY <3>2 DEF Elems
    <3>4. QED
      BY <3>2, <3>3 DEF Writes, Newer, Left, Reported
  <2>8. QED
    BY <2>4, <2>5, <2>6, <2>7 DEF Stored
<1>3. ASSUME NEW r \in Run, Step(r) \/ Dies(r) PROVE Stored'
  <2>1. /\ pc[r] \in Working /\ runs' = runs /\ upstream' = upstream
    <3>1. pc[r] \in Working
      <4>1. pc[r] \notin Ending \cup {"unused"}
        BY <1>3 DEF Step, FetchPage, FetchFails, Skip, Change, PutFirst, PutSecond, Dies, Ending
      <4>2. QED
        BY <4>1 DEF TypeOK
    <3>2. QED
      BY <1>3, <3>1 DEF Step, FetchPage, FetchFails, Skip, Change, PutFirst, PutSecond, Dies
  <2>2. r = runs /\ \A q \in Run : q # r => pc[q] \notin Working
    BY <1>0, <2>1, OneWorks
  <2>3. ASSUME NEW q \in Run, q # r
        PROVE  pc'[q] = pc[q] /\ Writes(q)' /\ Reported(q)'
    <3>1. pc'[q] = pc[q]
      BY <1>0, <1>3, <2>3, StepIsOwn
    <3>2. QED
      BY <2>1, <2>2, <2>3, <3>1 DEF Writes, Reported
  <2>4. Serial'
    <3> SUFFICES ASSUME NEW q \in Run, q < runs PROVE pc'[q] \in Ending
      BY <2>1 DEF Serial
    <3>1. q # r
      BY <2>2 DEF Run, TypeOK
    <3>2. QED
      BY <1>0, <2>3, <3>1 DEF Serial
  <2>5. Ordered' /\ Writes(r)' /\ Reported(r)'
    BY <1>0, <1>3, <2>1, RunStores
  <2>6. QED
    BY <2>3, <2>4, <2>5 DEF Stored
<1>4. CASE UNCHANGED vars
  <2>1. UNCHANGED <<upstream, doc, hash, runs, pc, queue, unread, todo, fetched, results>>
    BY <1>4 DEF vars, storeVars, runVars
  <2>2. ASSUME NEW r \in Run PROVE Writes(r)' /\ Reported(r)'
    <3>1. UNCHANGED <<Newer(r), Left(r), Reported(r)>>
      BY <2>1 DEF Newer, Left, Reported, Elems
    <3>2. QED
      BY <1>0, <2>1, <3>1 DEF Writes
  <2>3. QED
    BY <1>0, <2>1, <2>2 DEF Stored, Serial, Ordered
<1>5. QED
  BY <1>1, <1>2, <1>3, <1>4 DEF Next

\* Before the first run nothing is stored, and nothing reported.
LEMMA StoredInit == Init => TypeOK /\ Position /\ Stored
<1> SUFFICES ASSUME Init PROVE Stored
  BY PositionInit
<1>1. QED
  BY FeedAssumption DEF Init, Stored, Serial, Ordered, Writes, Reported, Working, Run, NoVersion

\* What a run reports in its results is stored as it fetched it, whatever earlier
\* runs left when they died between the puts of a document and its hash (base.py):
\* it needs runs that follow one another and contents that only get newer, since
\* otherwise a hash can name a content that the document no longer has.
THEOREM ReportedIsStored ==
    ASSUME ~Overlap, ~Reverts
    PROVE  Spec => []ResultIsStored
<1>1. TypeOK /\ Position /\ Stored /\ [Next]_vars => (TypeOK /\ Position /\ Stored)'
  BY TypeStep, PositionStep, StoredStep
<1>2. Stored => ResultIsStored
  BY DEF Stored, Reported, ResultIsStored, Elems
<1>3. QED
  BY StoredInit, <1>1, <1>2, PTL DEF Spec

-----------------------------------------------------------------------------
(* How often a content is put *)

\* A run has put this content and not yet its hash.
Halfway(d, v) ==
    \E r \in Run : pc[r] = "put_second" /\ Head(todo[r]) = d /\ fetched[r][d] = v

\* A content newer than the hash was put once for every excuse, and once more if
\* a run is half-way; one that a run is about to put has an excuse left.
Excused ==
    /\ NoChurn
    /\ \A d \in Doc, v \in Version :
         v > hash[d] /\ ~Halfway(d, v) => puts[d][v] <= excuses[d]
    /\ \A r \in Run : pc[r] = "put_first" =>
         puts[Head(todo[r])][fetched[r][Head(todo[r])]] <= excuses[Head(todo[r])]

\* Nothing is half-way when no run has just put a document.
LEMMA OneIsHalfway ==
    ASSUME TypeOK, Position, Serial, NEW r \in Run, pc[r] \in Working
    PROVE  \A d, v : Halfway(d, v) <=>
             pc[r] = "put_second" /\ Head(todo[r]) = d /\ fetched[r][d] = v
BY OneWorks DEF Halfway, Working

\* A document is written twice with one content for a reason that is counted.
LEMMA ExcusedStep ==
    ASSUME ~Overlap, ~Reverts
    PROVE  TypeOK /\ Position /\ Stored /\ Excused /\ [Next]_vars => Excused'
<1> SUFFICES ASSUME TypeOK, Position, Stored, Excused, [Next]_vars, (TypeOK /\ Position /\ Stored)'
             PROVE  Excused'
  BY TypeStep, PositionStep, StoredStep
<1> USE DEF historyVars
<1>0. /\ \A d \in Doc : doc[d] \in Nat /\ hash[d] \in Nat /\ excuses[d] \in Nat
      /\ \A d \in Doc, v \in Version : puts[d][v] \in Nat
      /\ \A r \in Run : RunOK(r) /\ Writes(r)
      /\ Ordered /\ Serial
  <2>1. \A d \in Doc : doc[d] \in Nat /\ hash[d] \in Nat /\ excuses[d] \in Nat
    BY DEF TypeOK, Content
  <2>2. \A d \in Doc, v \in Version : puts[d][v] \in Nat
    BY DEF TypeOK
  <2>3. QED
    BY <2>1, <2>2 DEF Position, Stored
<1>1. CASE UNCHANGED <<hash, pc, todo, fetched, puts, excuses>>
  <2>1. \A d, v : Halfway(d, v)' <=> Halfway(d, v)
    BY <1>1 DEF Halfway
  <2>2. QED
    BY <1>1, <2>1 DEF Excused, NoChurn
<1>2. CASE Invoke
  <2>1. /\ runs + 1 \in Run /\ \A r \in Run : pc[r] = "put_second" => r # runs + 1
        /\ pc' = [pc EXCEPT ![runs + 1] = "fetch"]
        /\ UNCHANGED <<hash, todo, fetched, puts, excuses>>
    <3>1. runs + 1 \in Run /\ runs \in Nat
      BY <1>2, FeedAssumption DEF Invoke, TypeOK, Run
    <3>2. pc[runs + 1] = "unused"
      BY <1>0, <3>1 DEF RunOK
    <3>3. QED
      BY <1>2, <3>1, <3>2 DEF Invoke, storeVars
  <2>2. \A r \in Run : /\ pc'[r] = "put_second" <=> pc[r] = "put_second"
                       /\ pc'[r] = "put_first" => pc[r] = "put_first"
    BY <2>1 DEF TypeOK
  <2>3. \A d, v : Halfway(d, v)' <=> Halfway(d, v)
    BY <2>1, <2>2 DEF Halfway
  <2>4. QED
    BY <2>1, <2>2, <2>3 DEF Excused, NoChurn
<1>3. ASSUME NEW r \in Run, Step(r) \/ Dies(r) PROVE Excused'
  <2> DEFINE d == Head(todo[r])
             v == fetched[r][d]
  <2>1. pc[r] \in Working
    <3>1. pc[r] \notin Ending \cup {"unused"}
      BY <1>3 DEF Step, FetchPage, FetchFails, Skip, Change, PutFirst, PutSecond, Dies, Ending
    <3>2. QED
      BY <3>1 DEF TypeOK
  <2>2. /\ \A e, w : Halfway(e, w) <=> pc[r] = "put_second" /\ d = e /\ fetched[r][e] = w
        /\ \A q \in Run : q # r => pc[q] \notin Working /\ pc'[q] \notin Working
    <3>1. \A q \in Run : q # r => pc[q] \notin Working /\ pc'[q] = pc[q]
      BY <1>0, <1>3, <2>1, OneWorks, StepIsOwn
    <3>2. QED
      BY <1>0, <2>1, <3>1, OneIsHalfway
  <2>3. \A e, w : Halfway(e, w)' <=>
          pc'[r] = "put_second" /\ Head(todo'[r]) = e /\ fetched'[r][e] = w
    BY <2>2 DEF Halfway, Working
  <2>4. /\ todo[r] # <<>> => d \in Doc /\ v \in Version
        /\ queue[r] # <<>>
    <3>1. todo[r] # <<>> => d \in Elems(todo[r]) /\ d \in Doc /\ v \in Content
      BY HeadOfTodo
    <3>2. todo[r] # <<>> => v # NoVersion
      BY <1>0, <2>1, <3>1 DEF Writes, Newer
    <3>3. QED
      BY <1>0, <2>1, <3>1, <3>2 DEF Content, Version, NoVersion, RunOK
  <2>5. ASSUME pc'[r] \notin {"put_first", "put_second"},
               \A e \in Doc, w \in Version :
                  /\ puts'[e][w] <= 1 + excuses'[e]
                  /\ w > hash'[e] => puts'[e][w] <= excuses'[e]
        PROVE  Excused'
    BY <2>2, <2>3, <2>5 DEF Excused, NoChurn, Working
  <2>6. CASE FetchPage(r) \/ FetchFails(r) \/ Skip(r)
    <3>1. UNCHANGED <<hash, puts, excuses>> /\ pc[r] # "put_second"
      BY <2>6 DEF FetchPage, FetchFails, Skip, storeVars
    <3>2. pc'[r] \notin {"put_first", "put_second"}
      <4>1. CASE FetchPage(r) \/ pc' = [pc EXCEPT ![r] = "raised"]
        BY <4>1 DEF FetchPage, TypeOK
      <4>2. CASE NextFeed(r)
        BY <2>4, <4>2, NextFeedGoesOn
      <4>3. CASE Skip(r)
        BY <1>0, <2>4, <4>3, NextDocPutsNothing DEF Skip, RunOK
      <4>4. QED
        BY <2>6, <4>1, <4>2, <4>3 DEF FetchFails
    <3>3. QED
      BY <2>2, <2>5, <3>1, <3>2 DEF Excused, NoChurn
  <2>7. CASE Change(r)
    <3>1. /\ UNCHANGED <<hash, puts, todo, fetched>> /\ pc[r] = "read_hash"
          /\ pc'[r] = "put_first" /\ todo[r] # <<>>
      BY <1>0, <2>7 DEF Change, storeVars, RunOK, TypeOK
    <3>2. \A e \in Doc : excuses'[e] = excuses[e] \/ excuses'[e] = excuses[e] + 1
      BY <2>7 DEF Change, TypeOK
    <3>3. puts[d][v] <= excuses'[d]
      <4>1. CASE Unchanged(r)
        <5>1. excuses'[d] = excuses[d] + 1
          BY <2>4, <2>7, <3>1, <4>1 DEF Change, TypeOK
        <5>2. puts[d][v] <= 1 + excuses[d]
          BY <2>4, <3>1 DEF Excused, NoChurn
        <5>3. QED
          BY <1>0, <2>4, <3>1, <5>1, <5>2
      <4>2. CASE ~Unchanged(r)
        <5>1. v # hash[d] /\ excuses' = excuses
          BY <2>7, <4>2 DEF Change, Unchanged
        <5>2. hash[d] <= doc[d] /\ doc[d] <= v
          BY <1>0, <2>1, <2>4, <3>1, HeadOfTodo DEF Ordered, Writes, Newer
        <5>3. v > hash[d] /\ ~Halfway(d, v)
          BY <1>0, <2>2, <2>4, <3>1, <5>1, <5>2 DEF Version
        <5>4. QED
          BY <2>4, <3>1, <5>1, <5>3 DEF Excused
      <4>3. QED
        BY <4>1, <4>2
    <3>4. \A e \in Doc, w \in Version :
             /\ puts[e][w] <= 1 + excuses[e]
             /\ w > hash[e] => puts[e][w] <= excuses[e]
      BY <2>2, <3>1 DEF Excused, NoChurn
    <3>5. \A e \in Doc, w \in Version :
             /\ puts[e][w] <= 1 + excuses'[e]
             /\ w > hash[e] => puts[e][w] <= excuses'[e]
      BY <1>0, <3>2, <3>4
    <3>6. \A q \in Run : pc'[q] = "put_first" => q = r
      BY <2>2 DEF Working
    <3>7. QED
      BY <3>1, <3>3, <3>5, <3>6 DEF Excused, NoChurn
  <2>8. CASE PutFirst(r)
    <3>1. /\ UNCHANGED <<hash, excuses, todo, fetched>> /\ pc[r] = "put_first"
          /\ pc'[r] = "put_second" /\ todo[r] # <<>>
          /\ puts' = [puts EXCEPT ![d][v] = @ + 1]
      BY <1>0, <2>8 DEF PutFirst, PutOrder, Put, RunOK, TypeOK
    <3>2. \A e \in Doc, w \in Version :
             puts'[e][w] = IF e = d /\ w = v THEN puts[e][w] + 1 ELSE puts[e][w]
      <4>1. puts \in [Doc -> [Version -> Nat]]
        BY DEF TypeOK
      <4>2. puts[d] \in [Version -> Nat]
        BY <2>4, <3>1, <4>1
      <4>3. QED
        BY <2>4, <3>1, <4>1, <4>2
    <3>3. puts[d][v] <= excuses[d]
      BY <3>1 DEF Excused
    <3>4. ASSUME NEW e \in Doc, NEW w \in Version
          PROVE  /\ puts'[e][w] <= 1 + excuses[e]
                 /\ w > hash[e] /\ ~(e = d /\ w = v) => puts'[e][w] <= excuses[e]
      <4>1. puts[e][w] <= 1 + excuses[e] /\ (w > hash[e] => puts[e][w] <= excuses[e])
        BY <2>2, <3>1 DEF Excused, NoChurn
      <4>2. QED
        BY <1>0, <3>2, <3>3, <4>1
    <3>5. \A e, w : Halfway(e, w)' <=> d = e /\ fetched[r][e] = w
      BY <2>3, <3>1
    <3>6. \A q \in Run : pc'[q] # "put_first"
      BY <2>2, <3>1 DEF Working
    <3>7. QED
      BY <3>1, <3>4, <3>5, <3>6 DEF Excused, NoChurn
  <2>9. CASE PutSecond(r)
    <3>1. /\ UNCHANGED <<puts, excuses>> /\ pc[r] = "put_second" /\ todo[r] # <<>> /\ NextDoc(r)
          /\ hash' = [hash EXCEPT ![d] = v]
      BY <1>0, <2>9 DEF PutSecond, PutOrder, Put, RunOK
    <3>2. pc'[r] \notin {"put_first", "put_second"}
      BY <2>4, <3>1, NextDocPutsNothing
    <3>3. hash[d] <= v
      BY <1>0, <2>1, <2>4, <3>1 DEF Ordered, Writes
    <3>4. ASSUME NEW e \in Doc, NEW w \in Version, w > hash'[e]
          PROVE  puts[e][w] <= excuses[e]
      <4>1. hash'[e] = IF e = d THEN v ELSE hash[e]
        BY <3>1 DEF TypeOK
      <4>2. w > hash[e] /\ ~(e = d /\ w = v)
        BY <1>0, <2>4, <3>1, <3>3, <3>4, <4>1 DEF Version
      <4>3. QED
        BY <2>2, <4>2 DEF Excused
    <3>5. \A e \in Doc, w \in Version : puts[e][w] <= 1 + excuses[e]
      BY DEF Excused, NoChurn
    <3>6. QED
      BY <2>5, <3>1, <3>2, <3>4, <3>5
  <2>10. CASE Dies(r)
    <3>1. UNCHANGED <<hash, puts>> /\ pc'[r] = "died"
      BY <2>10 DEF Dies, storeVars, TypeOK
    <3>2. ASSUME NEW e \in Doc, NEW w \in Version
          PROVE  /\ puts[e][w] <= 1 + excuses'[e]
                 /\ w > hash[e] => puts[e][w] <= excuses'[e]
      <4>1. puts[e][w] <= 1 + excuses[e]
        BY DEF Excused, NoChurn
      <4>2. CASE Halfway(e, w)
        <5>1. pc[r] = "put_second" /\ e = d
          BY <2>2, <4>2
        <5>2. excuses'[e] = excuses[e] + 1
          BY <2>10, <5>1 DEF Dies, TypeOK
        <5>3. QED
          BY <1>0, <4>1, <5>2
      <4>3. CASE ~Halfway(e, w)
        <5>1. w > hash[e] => puts[e][w] <= excuses[e]
          BY <4>3 DEF Excused
        <5>2. excuses'[e] = excuses[e] \/ excuses'[e] = excuses[e] + 1
          BY <2>10 DEF Dies, TypeOK
        <5>3. QED
          BY <1>0, <4>1, <5>1, <5>2
      <4>4. QED
        BY <4>2, <4>3
    <3>3. QED
      BY <2>5, <3>1, <3>2
  <2>11. QED
    BY <1>3, <2>6, <2>7, <2>8, <2>9, <2>10 DEF Step
<1>4. QED
  <2>1. ASSUME NEW d \in Doc, UpstreamChanges(d)
        PROVE  UNCHANGED <<hash, pc, todo, fetched, puts, excuses>>
    BY <2>1 DEF UpstreamChanges, storeVars, runVars
  <2>2. UNCHANGED vars => UNCHANGED <<hash, pc, todo, fetched, puts, excuses>>
    BY DEF vars, storeVars, runVars
  <2>3. QED
    BY <1>1, <1>2, <1>3, <2>1, <2>2 DEF Next

\* The same content of a document is put again only for an excuse: a run died
\* between its two puts, or could not read the hash (base.py). For runs that follow
\* one another and contents that only get newer.
THEOREM ContentIsPutOnce ==
    ASSUME ~Overlap, ~Reverts
    PROVE  Spec => []NoChurn
<1>1. Init => TypeOK /\ Position /\ Stored /\ Excused
  <2>1. Init => Excused
    BY DEF Init, Excused, NoChurn
  <2>2. QED
    BY <2>1, StoredInit
<1>2. TypeOK /\ Position /\ Stored /\ Excused /\ [Next]_vars
        => (TypeOK /\ Position /\ Stored /\ Excused)'
  BY TypeStep, PositionStep, StoredStep, ExcusedStep
<1>3. Excused => NoChurn
  BY DEF Excused
<1>4. QED
  BY <1>1, <1>2, <1>3, PTL DEF Spec
-----------------------------------------------------------------------------
(* Every step is one of DocumentStore, or changes nothing it sees *)

\* A run that has not begun has fetched nothing; one that works has fetched what is
\* not unread of its current feed.
Read(r) ==
    /\ pc[r] = "unused" => fetched[r] = [d \in Doc |-> NoVersion]
    /\ pc[r] \in Working =>
         \A d \in Elems(DocsOf[Head(queue[r])]) :
             fetched[r][d] # NoVersion \/ d \in Elems(unread[r])

\* What the next document or the next feed leaves unread is of the feed it is for.
LEMMA ReadGoesOn ==
    ASSUME TypeOK, NEW r \in Run, RunOK(r), Read(r), pc[r] \in Working,
           \/ NextFeed(r)
           \/ NextDoc(r) /\ todo[r] # <<>>,
           UNCHANGED fetched
    PROVE  Read(r)'
<1>0. queue[r] # <<>>
  BY DEF RunOK
<1>1. CASE NextFeed(r)
  <2>1. CASE pc'[r] = "responded"
    BY <2>1 DEF Read, Working
  <2>2. CASE pc'[r] = "fetch" /\ unread'[r] = DocsOf[Head(queue'[r])]
    <3>1. Elems(unread[r])' = Elems(DocsOf[Head(queue[r])])'
      BY <2>2 DEF Elems
    <3>2. QED
      BY <2>2, <3>1 DEF Read
  <2>3. QED
    BY <1>0, <1>1, <2>1, <2>2, NextFeedGoesOn
<1>2. CASE /\ pc' = [pc EXCEPT ![r] = "fetch"] \/ pc' = [pc EXCEPT ![r] = "read_hash"]
           /\ UNCHANGED <<queue, unread, results>>
  <2>1. UNCHANGED <<Elems(DocsOf[Head(queue[r])]), Elems(unread[r])>>
    BY <1>2 DEF Elems
  <2>2. pc'[r] # "unused"
    BY <1>2 DEF TypeOK
  <2>3. QED
    BY <2>1, <2>2 DEF Read
<1>3. QED
  BY <1>0, <1>1, <1>2, NextDocGoesOn

\* A step of a run keeps what it has read.
LEMMA ReadStep ==
    ASSUME TypeOK, NEW r \in Run, RunOK(r), Read(r), pc[r] \in Working, Step(r) \/ Dies(r)
    PROVE  Read(r)'
<1>1. CASE FetchPage(r)
  <2>1. /\ pc[r] = "fetch" /\ pc'[r] = "read_hash" /\ unread[r] # <<>> /\ UNCHANGED queue
        /\ unread'[r] = SubSeq(unread[r], Len(Page(r)) + 1, Len(unread[r]))
        /\ fetched'[r] = Rendered(fetched[r], Elems(Page(r)))
    BY <1>1 DEF FetchPage, RunOK, TypeOK, Elems
  <2>2. Elems(unread[r]) = Elems(Page(r)) \cup Elems(unread[r])'
    <3>1. Elems(unread[r])' = Elems(unread'[r])
      BY DEF Elems
    <3>2. QED
      BY <2>1, <3>1, PageAndRest
  <2>3. \A d \in Doc : fetched'[r][d] = IF d \in Elems(Page(r)) THEN upstream[d]
                                        ELSE fetched[r][d]
    BY <2>1 DEF Rendered
  <2>4. \A d \in Doc : upstream[d] # NoVersion
    BY DEF TypeOK, Version, NoVersion
  <2>5. Elems(DocsOf[Head(queue[r])]) \subseteq Doc
    BY HeadOfQueue DEF Elems, RunOK
  <2>6. Elems(DocsOf[Head(queue[r])])' = Elems(DocsOf[Head(queue[r])])
    BY <2>1 DEF Elems
  <2>7. QED
    BY <2>1, <2>2, <2>3, <2>4, <2>5, <2>6 DEF Read
<1>2. CASE FetchFails(r)
  <2>1. UNCHANGED fetched
    BY <1>2 DEF FetchFails
  <2>2. CASE pc' = [pc EXCEPT ![r] = "raised"]
    BY <2>2 DEF Read, Working, TypeOK
  <2>3. QED
    BY <1>2, <2>1, <2>2, ReadGoesOn DEF FetchFails
<1>3. CASE Skip(r) \/ PutSecond(r)
  <2>1. NextDoc(r) /\ todo[r] # <<>> /\ UNCHANGED fetched
    BY <1>3 DEF Skip, PutSecond, RunOK
  <2>2. QED
    BY <2>1, ReadGoesOn
<1>4. CASE Change(r) \/ PutFirst(r) \/ Dies(r)
  <2>1. pc'[r] # "unused" /\ UNCHANGED <<queue, unread, fetched>>
    BY <1>4 DEF Change, PutFirst, Dies, TypeOK
  <2>2. UNCHANGED <<Elems(DocsOf[Head(queue[r])]), Elems(unread[r])>>
    BY <2>1 DEF Elems
  <2>3. QED
    BY <2>1, <2>2 DEF Read
<1>5. QED
  BY <1>1, <1>2, <1>3, <1>4 DEF Step

\* Who steps, works and has begun.
LEMMA WhoSteps ==
    ASSUME TypeOK, Position, NEW r \in Run, Step(r) \/ Dies(r)
    PROVE  pc[r] \in Working /\ runs' = runs /\ UNCHANGED upstream
<1>1. pc[r] \notin Ending \cup {"unused"}
  BY DEF Step, FetchPage, FetchFails, Skip, Change, PutFirst, PutSecond, Dies, Ending
<1>2. pc[r] \in Working
  BY <1>1 DEF TypeOK
<1>3. QED
  BY <1>2 DEF Step, FetchPage, FetchFails, Skip, Change, PutFirst, PutSecond, Dies

\* Every run keeps what it has read.
LEMMA AllReadStep ==
    TypeOK /\ Position /\ (\A r \in Run : Read(r)) /\ [Next]_vars => (\A r \in Run : Read(r))'
<1> SUFFICES ASSUME TypeOK, Position, \A r \in Run : Read(r), [Next]_vars, NEW q \in Run
             PROVE  Read(q)'
  OBVIOUS
<1>0. Read(q) /\ RunOK(q)
  BY DEF Position
<1>1. ASSUME pc'[q] = pc[q], queue'[q] = queue[q], unread'[q] = unread[q],
             fetched'[q] = fetched[q]
      PROVE  Read(q)'
  <2>1. UNCHANGED <<Elems(DocsOf[Head(queue[q])]), Elems(unread[q])>>
    BY <1>1 DEF Elems
  <2>2. QED
    BY <1>0, <1>1, <2>1 DEF Read
<1>2. CASE (\E d \in Doc : UpstreamChanges(d)) \/ UNCHANGED vars
  BY <1>1, <1>2 DEF UpstreamChanges, vars, runVars
<1>3. CASE Invoke
  <2>1. PICK feeds \in {FeedOrder} \cup {<<f>> : f \in Feed} :
          /\ queue' = [queue EXCEPT ![runs + 1] = feeds]
          /\ unread' = [unread EXCEPT ![runs + 1] = DocsOf[Head(feeds)]]
    BY <1>3 DEF Invoke
  <2>2. pc' = [pc EXCEPT ![runs + 1] = "fetch"] /\ UNCHANGED fetched
    BY <1>3 DEF Invoke
  <2>3. CASE q # runs + 1
    BY <1>1, <2>1, <2>2, <2>3 DEF TypeOK
  <2>4. CASE q = runs + 1
    <3>1. pc'[q] = "fetch" /\ unread'[q] = DocsOf[Head(queue'[q])]
      BY <2>1, <2>2, <2>4 DEF TypeOK
    <3>2. Elems(unread[q])' = Elems(DocsOf[Head(queue[q])])'
      BY <3>1 DEF Elems
    <3>3. QED
      BY <3>1, <3>2 DEF Read
  <2>5. QED
    BY <2>3, <2>4
<1>4. ASSUME NEW r \in Run, Step(r) \/ Dies(r) PROVE Read(q)'
  <2>1. CASE q = r
    BY <1>0, <1>4, <2>1, ReadStep, WhoSteps
  <2>2. CASE q # r
    BY <1>1, <1>4, <2>2, StepIsOwn DEF Position
  <2>3. QED
    BY <2>1, <2>2
<1>5. QED
  BY <1>2, <1>3, <1>4 DEF Next

\* What the last run fetched and reported.
Fetched == IF runs = 0 THEN [d \in Doc |-> NoVersion] ELSE fetched[runs]
Done == IF runs = 0 THEN {} ELSE results[runs]
Members == [f \in Feed |-> {DocsOf[f][i] : i \in DOMAIN DocsOf[f]}]

\* The documents of a feed, either way.
LEMMA MembersAre == \A f \in Feed : Members[f] = Elems(DocsOf[f])
BY DEF Members, Elems

\* The initial states are those of DocumentStore.
LEMMA StoreInit == Init => Store!Init /\ \A r \in Run : Read(r)
BY DEF Init, Store!Init, Store!Nothing, Fetched, Done, Read, Working, NoVersion

\* A step that leaves the objects, the contents and the reports alone is not seen.
LEMMA Unseen ==
    ASSUME UNCHANGED <<upstream, doc, runs>>, fetched' = fetched, results' = results
    PROVE  UNCHANGED Store!vars
<1>1. Fetched' = Fetched /\ Done' = Done
  BY DEF Fetched, Done
<1>2. QED
  BY <1>1 DEF Store!vars, Fetched, Done

\* The document at hand is done: nothing of it is seen, or that its feed is.
LEMMA DocIsReported ==
    ASSUME TypeOK, Position, NEW r \in Run, r = runs, pc[r] \in Working, Read(r),
           Reported(r)', todo[r] # <<>>, NextDoc(r),
           UNCHANGED <<upstream, doc, runs, fetched>>
    PROVE  [Store!Next]_Store!vars
<1> DEFINE feed == Head(queue[r])
<1>0. queue[r] # <<>> /\ feed \in Feed /\ runs # 0
  BY HeadOfQueue DEF Position, RunOK, Run
<1>1. CASE UNCHANGED results
  BY <1>1, Unseen
<1>2. CASE /\ unread[r] = <<>>
           /\ results' = [results EXCEPT ![r] = @ \cup {feed}]
  <2>1. results'[r] = results[r] \cup {feed}
    BY <1>2 DEF TypeOK
  <2>2. Done' = Done \cup {feed} /\ Fetched' = Fetched /\ Fetched = fetched[r]
    BY <1>0, <2>1 DEF Done, Fetched
  <2>3. \A d \in Elems(DocsOf[feed]) : doc[d] = fetched[r][d]
    BY <2>1 DEF Reported, Elems
  <2>4. \A d \in Elems(DocsOf[feed]) : fetched[r][d] # 0
    <3>1. Elems(unread[r]) = {}
      BY <1>2 DEF Elems
    <3>2. QED
      BY <3>1 DEF Read, NoVersion
  <2>5. Store!Report(feed)
    BY <1>0, <2>2, <2>3, <2>4, MembersAre DEF Store!Report, Fetched, Done, Members
  <2>6. QED
    BY <1>0, <2>5 DEF Store!Next
<1>3. QED
  BY <1>0, <1>1, <1>2, NextDocGoesOn

\* Every step is a step of DocumentStore, or changes nothing it has.
LEMMA StoreStep ==
    ASSUME ~Overlap, ~Reverts
    PROVE  /\ TypeOK /\ Position /\ Stored /\ Stored' /\ (\A r \in Run : Read(r))
           /\ [Next]_vars
           => [Store!Next]_Store!vars
<1> SUFFICES ASSUME TypeOK, Position, Stored, Stored', \A r \in Run : Read(r), [Next]_vars
             PROVE  [Store!Next]_Store!vars
  OBVIOUS
<1> USE DEF historyVars
<1>1. ASSUME NEW d \in Doc, UpstreamChanges(d) PROVE Store!Next
  <2>1. upstream' = [upstream EXCEPT ![d] = @ + 1]
        /\ UNCHANGED <<doc, runs, fetched, results>>
    BY <1>1 DEF UpstreamChanges, storeVars, runVars
  <2>2. Fetched' = Fetched /\ Done' = Done
    BY <2>1 DEF Fetched, Done
  <2>3. Store!Change(d)
    BY <2>1, <2>2 DEF Store!Change, Fetched, Done
  <2>4. QED
    BY <2>3 DEF Store!Next
<1>2. CASE Invoke
  <2>1. /\ runs + 1 \in Run /\ runs \in Nat /\ runs' = runs + 1
        /\ UNCHANGED <<upstream, doc, fetched, results>>
    BY <1>2, FeedAssumption DEF Invoke, TypeOK, Run, storeVars
  <2>2. pc[runs + 1] = "unused" /\ RunOK(runs + 1) /\ Read(runs + 1)
    BY <2>1 DEF Position, RunOK
  <2>3. fetched[runs + 1] = [d \in Doc |-> NoVersion] /\ results[runs + 1] = {}
    BY <2>2 DEF RunOK, Read
  <2>4. Fetched' = Store!Nothing /\ Done' = {}
    BY <2>1, <2>3 DEF Fetched, Done, Store!Nothing, NoVersion
  <2>5. Store!Begin
    BY <2>1, <2>4 DEF Store!Begin, Fetched, Done
  <2>6. QED
    BY <2>5 DEF Store!Next
<1>3. ASSUME NEW r \in Run, Step(r) \/ Dies(r) PROVE [Store!Next]_Store!vars
  <2>1. /\ pc[r] \in Working /\ runs' = runs /\ UNCHANGED upstream
        /\ RunOK(r) /\ Writes(r) /\ Read(r) /\ Reported(r)' /\ queue[r] # <<>>
    BY <1>3, WhoSteps DEF Position, Stored, RunOK
  <2>2. r = runs /\ runs # 0
    BY <2>1, OneWorks DEF Stored, Run
  <2>3. CASE FetchPage(r)
    <3> DEFINE feed == Head(queue[r])
               page == Elems(Page(r))
    <3>1. feed \in Feed /\ feed \notin results[r] /\ page \subseteq Members[feed]
      <4>1. feed \in Feed /\ feed \in Elems(queue[r])
        BY <2>1, HeadOfQueue
      <4>2. page \subseteq Elems(unread[r])
        BY <2>1, <2>3, PageAndRest DEF FetchPage, RunOK
      <4>3. QED
        BY <2>1, <4>1, <4>2, MembersAre DEF RunOK
    <3>2. /\ fetched'[r] = Rendered(fetched[r], page)
          /\ UNCHANGED <<doc, results>>
      BY <2>3 DEF FetchPage, storeVars, Elems, TypeOK
    <3>3. Fetched = fetched[r] /\ Fetched' = Rendered(Fetched, page) /\ Done' = Done
          /\ Done = results[r]
      BY <2>1, <2>2, <3>2 DEF Fetched, Done
    <3>4. Fetched' = [d \in Doc |-> IF d \in page THEN upstream[d] ELSE Fetched[d]]
      BY <3>3 DEF Rendered
    <3> HIDE DEF page, feed
    <3>5. Store!Fetch(feed)
      BY <2>1, <3>1, <3>2, <3>3, <3>4 DEF Store!Fetch, Fetched, Done, Members
    <3>6. QED
      BY <3>1, <3>5 DEF Store!Next
  <2>4. CASE FetchFails(r) \/ Change(r) \/ Dies(r)
    BY <2>1, <2>4, Unseen DEF FetchFails, Change, Dies, storeVars
  <2>5. CASE Skip(r)
    <3>1. NextDoc(r) /\ todo[r] # <<>> /\ UNCHANGED <<doc, fetched>>
      BY <2>1, <2>5 DEF Skip, RunOK, storeVars
    <3>2. QED
      BY <2>1, <2>2, <3>1, DocIsReported
  <2>6. CASE PutFirst(r)
    <3> DEFINE d == Head(todo[r])
    <3>1. /\ doc' = [doc EXCEPT ![d] = fetched[r][d]] /\ todo[r] # <<>>
          /\ UNCHANGED <<fetched, results>>
      BY <2>1, <2>6 DEF PutFirst, PutOrder, Put, RunOK
    <3>2. d \in Elems(todo[r]) /\ d \in Doc
      BY <3>1, HeadOfTodo
    <3>3. doc[d] <= fetched[r][d] /\ doc[d] \in Nat /\ fetched[r][d] \in Nat
      BY <2>1, <3>2 DEF Writes, Newer, TypeOK, Content
    <3>4. Fetched = fetched[r] /\ Fetched' = Fetched /\ Done' = Done
      BY <2>1, <2>2, <3>1 DEF Fetched, Done
    <3>5. CASE doc[d] = fetched[r][d]
      <4>1. doc' = doc
        BY <3>1, <3>5 DEF TypeOK
      <4>2. QED
        BY <2>1, <3>1, <4>1, Unseen
    <3>6. CASE doc[d] < fetched[r][d]
      <4> HIDE DEF d
      <4>1. Store!Write(d)
        BY <2>1, <3>1, <3>4, <3>6 DEF Store!Write, Fetched, Done
      <4>2. QED
        BY <3>2, <4>1 DEF Store!Next
    <3>7. QED
      BY <3>3, <3>5, <3>6
  <2>7. CASE PutSecond(r)
    <3>1. NextDoc(r) /\ todo[r] # <<>> /\ UNCHANGED <<doc, fetched>>
      BY <2>1, <2>7 DEF PutSecond, PutOrder, Put, RunOK
    <3>2. QED
      BY <2>1, <2>2, <3>1, DocIsReported
  <2>8. QED
    BY <1>3, <2>3, <2>4, <2>5, <2>6, <2>7 DEF Step
<1>4. CASE UNCHANGED vars
  BY <1>4, Unseen DEF vars, storeVars, runVars
<1>5. QED
  BY <1>1, <1>2, <1>3, <1>4 DEF Next

\* Refreshes that follow one another are a store of documents, for any feeds, pages
\* and records, and wherever runs die: a document only gets newer, and what is
\* reported is stored as fetched until the next run begins (base.py, handler.py).
THEOREM StoreIsImplemented ==
    ASSUME ~Overlap, ~Reverts
    PROVE  Spec => ImplementsStore
<1> DEFINE Inv == TypeOK /\ Position /\ Stored /\ \A r \in Run : Read(r)
<1>1. Init => Inv /\ Store!Init
  BY StoredInit, StoreInit
<1>2. Inv /\ [Next]_vars => Inv' /\ [Store!Next]_Store!vars
  <2>1. Inv /\ [Next]_vars => Inv'
    BY TypeStep, PositionStep, StoredStep, AllReadStep
  <2>2. QED
    BY <2>1, StoreStep
<1> HIDE DEF Inv
<1>3. Spec => Store!Init /\ [][Store!Next]_Store!vars
  BY <1>1, <1>2, PTL DEF Spec
<1>4. QED
  BY <1>3 DEF ImplementsStore, Store!Spec
=============================================================================
