----------------------------- MODULE FeedRefresh -----------------------------
(***************************************************************************)
(* connectors: handler() refreshes one feed or all of them; for each feed  *)
(* it fetches records upstream and has S3DocumentWriter write one document *)
(* per record under the feed's prefix, with a hash object next to it that  *)
(* lets a later run skip what has not changed.                             *)
(*                                                                         *)
(* The content of a record is a version number and its hash is the same    *)
(* number. A document is written by two puts, and the process may die      *)
(* between them. Runs come from a schedule and from the command line;      *)
(* Overlap says whether two may be under way at once.                      *)
(***************************************************************************)
EXTENDS Naturals, Sequences

CONSTANTS
    Feed,         \* VALID_FEEDS
    FeedOrder,    \* the order in which handler() runs them
    PagedFeed,    \* the feeds fetched page by page (NVD)
    Doc,          \* document keys
    DocsOf,       \* the keys of each feed, in the order the feed lists them
    MaxVersion,   \* bound: contents a record may have
    MaxRuns,      \* bound: runs
    Overlap,      \* two runs may be under way at once
    Reverts       \* a record's content may return to an earlier one

\* The order names a feed once, and every feed has a prefix of its own.
ASSUME FeedAssumption ==
    /\ FeedOrder \in Seq(Feed) /\ FeedOrder # <<>>
    /\ \A i, j \in DOMAIN FeedOrder : FeedOrder[i] = FeedOrder[j] => i = j
    /\ PagedFeed \subseteq Feed
    /\ DocsOf \in [Feed -> Seq(Doc)]
    /\ \A f \in Feed : DocsOf[f] # <<>>
    /\ \A f, g \in Feed : \A i \in DOMAIN DocsOf[f], j \in DOMAIN DocsOf[g] :
         DocsOf[f][i] = DocsOf[g][j] => f = g
    /\ MaxVersion \in Nat \ {0}
    /\ MaxRuns \in Nat
    /\ Overlap \in BOOLEAN /\ Reverts \in BOOLEAN

Run     == 1..MaxRuns
Version == 1..MaxVersion
NoVersion == 0   \* no object under the key

VARIABLES
    upstream,   \* the content of each record now
    doc,        \* the document object: the content it was rendered from
    hash,       \* the hash object next to it
    \* the runs
    runs,       \* how many were started
    pc,         \* what each run does next, or how it ended
    asked,      \* the feeds each run is for
    queue,      \* those it has still to do, the current one first
    unread,     \* records of the current feed it has still to fetch
    todo,       \* fetched ones it has still to write
    fetched,    \* the contents it fetched
    skipped,    \* documents it skipped
    results,    \* feeds it reports as done
    errors,     \* feeds it reports as failed
    \* history
    puts,       \* puts of each content of each document
    excuses     \* per document: deaths between its puts, and unreadable hashes

storeVars == <<doc, hash>>
runVars == <<pc, asked, queue, unread, todo, fetched, skipped, results, errors>>
historyVars == <<puts, excuses>>
vars == <<upstream, storeVars, runs, runVars, historyVars>>

Init ==
    /\ upstream = [d \in Doc |-> 1]
    /\ doc = [d \in Doc |-> NoVersion] /\ hash = [d \in Doc |-> NoVersion]
    /\ runs = 0
    /\ pc = [r \in Run |-> "unused"]
    /\ asked = [r \in Run |-> {}] /\ queue = [r \in Run |-> <<>>]
    /\ unread = [r \in Run |-> <<>>] /\ todo = [r \in Run |-> <<>>]
    /\ fetched = [r \in Run |-> [d \in Doc |-> NoVersion]]
    /\ skipped = [r \in Run |-> {}]
    /\ results = [r \in Run |-> {}] /\ errors = [r \in Run |-> {}]
    /\ puts = [d \in Doc |-> [v \in Version |-> 0]]
    /\ excuses = [d \in Doc |-> 0]

Ending == {"responded", "raised", "died"}

-----------------------------------------------------------------------------
(* Upstream, and whoever starts a run *)

UpstreamChanges(d) ==
    /\ \E v \in Version :
        /\ IF Reverts THEN v # upstream[d] ELSE v = upstream[d] + 1
        /\ upstream' = [upstream EXCEPT ![d] = v]
    /\ UNCHANGED <<storeVars, runs, runVars, historyVars>>

\* One feed or all of them, always under the same prefix.
Invoke ==
    /\ runs < MaxRuns
    /\ Overlap \/ \A r \in Run : r <= runs => pc[r] \in Ending
    /\ runs' = runs + 1
    /\ pc' = [pc EXCEPT ![runs + 1] = "fetch"]
    /\ \E feeds \in {FeedOrder} \cup {<<f>> : f \in Feed} :
            /\ asked' = [asked EXCEPT ![runs + 1] = {feeds[i] : i \in DOMAIN feeds}]
            /\ queue' = [queue EXCEPT ![runs + 1] = feeds]
            /\ unread' = [unread EXCEPT ![runs + 1] = DocsOf[Head(feeds)]]
    /\ UNCHANGED <<upstream, storeVars, todo, fetched, skipped, results, errors, historyVars>>

-----------------------------------------------------------------------------
(* A run *)

\* Go on with the next feed, or respond after the last one.
NextFeed(r) ==
    /\ queue' = [queue EXCEPT ![r] = Tail(@)]
    /\ todo' = [todo EXCEPT ![r] = <<>>]
    /\ IF Tail(queue[r]) = <<>>
       THEN /\ pc' = [pc EXCEPT ![r] = "responded"]
            /\ unread' = [unread EXCEPT ![r] = <<>>]
       ELSE /\ pc' = [pc EXCEPT ![r] = "fetch"]
            /\ unread' = [unread EXCEPT ![r] = DocsOf[Head(Tail(queue[r]))]]

\* Records of one page: all of the feed, or the next one of a paged feed.
Page(r) == IF Head(queue[r]) \in PagedFeed THEN <<Head(unread[r])>> ELSE unread[r]

\* The documents of these records as a run renders them now.
Rendered(old, records) ==
    [d \in Doc |-> IF d \in records THEN upstream[d] ELSE old[d]]

FetchPage(r) ==
    /\ pc[r] = "fetch"
    /\ LET page == Page(r)
       IN  /\ fetched' = [fetched EXCEPT ![r] =
                            Rendered(@, {page[i] : i \in DOMAIN page})]
           /\ todo' = [todo EXCEPT ![r] = page]
           /\ unread' = [unread EXCEPT ![r] = SubSeq(@, Len(page) + 1, Len(@))]
    /\ pc' = [pc EXCEPT ![r] = "read_hash"]
    /\ UNCHANGED <<upstream, storeVars, runs, asked, queue, skipped, results, errors, historyVars>>

\* Mutant: a ConnectorError is always raised.
FetchFails_Raises(r) ==
    /\ pc[r] = "fetch"
    /\ pc' = [pc EXCEPT ![r] = "raised"]
    /\ UNCHANGED <<upstream, storeVars, runs, asked, queue, unread, todo, fetched, skipped,
                   results, errors, historyVars>>

\* ConnectorError, after the retries: raised if this is the only feed,
\* reported otherwise.
FetchFails(r) ==
    /\ pc[r] = "fetch"
    /\ errors' = [errors EXCEPT ![r] = @ \cup {Head(queue[r])}]
    /\ IF asked[r] = {Head(queue[r])}
       THEN /\ pc' = [pc EXCEPT ![r] = "raised"]
            /\ UNCHANGED <<queue, unread, todo>>
       ELSE NextFeed(r)
    /\ UNCHANGED <<upstream, storeVars, runs, asked, fetched, skipped, results, historyVars>>

\* Go on with the next document, page or feed.
NextDoc(r) ==
    IF Len(todo[r]) = 1 /\ unread[r] = <<>>
    THEN /\ results' = [results EXCEPT ![r] = @ \cup {Head(queue[r])}]
         /\ NextFeed(r)
    ELSE /\ todo' = [todo EXCEPT ![r] = Tail(@)]
         /\ pc' = [pc EXCEPT ![r] = IF Len(todo[r]) = 1 THEN "fetch" ELSE "read_hash"]
         /\ UNCHANGED <<queue, unread, results>>

\* Mutant: whatever has a hash is skipped.
Unchanged_IfHashed(r) == hash[Head(todo[r])] # NoVersion

\* Mutant: fetched_at is part of the hash.
Unchanged_HashesTime(r) == FALSE

Unchanged(r) == hash[Head(todo[r])] = fetched[r][Head(todo[r])]

Skip(r) ==
    /\ pc[r] = "read_hash"
    /\ Unchanged(r)
    /\ skipped' = [skipped EXCEPT ![r] = @ \cup {Head(todo[r])}]
    /\ NextDoc(r)
    /\ UNCHANGED <<upstream, storeVars, runs, asked, fetched, errors, historyVars>>

\* No hash, another one, or one that could not be read.
Change(r) ==
    /\ pc[r] = "read_hash"
    /\ pc' = [pc EXCEPT ![r] = "put_first"]
    /\ IF Unchanged(r)
       THEN excuses' = [excuses EXCEPT ![Head(todo[r])] = @ + 1]
       ELSE UNCHANGED excuses
    /\ UNCHANGED <<upstream, storeVars, runs, asked, queue, unread, todo, fetched, skipped,
                   results, errors, puts>>

\* Mutant: the hash object is put first.
PutOrder_HashFirst == <<"hash", "doc">>

PutOrder == <<"doc", "hash">>

Put(r, object) ==
    LET d == Head(todo[r])
        v == fetched[r][d]
    IN  IF object = "doc"
        THEN /\ doc' = [doc EXCEPT ![d] = v]
             /\ puts' = [puts EXCEPT ![d][v] = @ + 1]
             /\ UNCHANGED hash
        ELSE hash' = [hash EXCEPT ![d] = v] /\ UNCHANGED <<doc, puts>>

PutFirst(r) ==
    /\ pc[r] = "put_first"
    /\ Put(r, PutOrder[1])
    /\ pc' = [pc EXCEPT ![r] = "put_second"]
    /\ UNCHANGED <<upstream, runs, asked, queue, unread, todo, fetched, skipped,
                   results, errors, excuses>>

PutSecond(r) ==
    /\ pc[r] = "put_second"
    /\ Put(r, PutOrder[2])
    /\ NextDoc(r)
    /\ UNCHANGED <<upstream, runs, asked, fetched, skipped, errors, excuses>>

\* Out of time or memory, or an S3 error, which nothing catches. A put whose
\* answer is lost is a put after which the run dies.
Dies(r) ==
    /\ pc[r] \notin Ending \cup {"unused"}
    /\ pc' = [pc EXCEPT ![r] = "died"]
    /\ IF pc[r] = "put_second"
       THEN excuses' = [excuses EXCEPT ![Head(todo[r])] = @ + 1]
       ELSE UNCHANGED excuses
    /\ UNCHANGED <<upstream, storeVars, runs, asked, queue, unread, todo, fetched, skipped,
                   results, errors, puts>>

Step(r) ==
    \/ FetchPage(r) \/ FetchFails(r)
    \/ Skip(r) \/ Change(r) \/ PutFirst(r) \/ PutSecond(r)

Next ==
    \/ \E d \in Doc : UpstreamChanges(d)
    \/ Invoke
    \/ \E r \in Run : Step(r) \/ Dies(r)

Spec == Init /\ [][Next]_vars

-----------------------------------------------------------------------------
(* Properties *)

\* A feed that a run reports in its results is stored as the run fetched it,
\* whatever earlier runs left when they died: until another run starts, every
\* document of it, written or skipped, has the content that was fetched.
ResultIsStored ==
    \A r \in Run : r = runs =>
        \A f \in results[r] : \A i \in DOMAIN DocsOf[f] :
            doc[DocsOf[f][i]] = fetched[r][DocsOf[f][i]]

\* A scheduled run does not churn the DOCUMENTS source: the same content of a
\* document is put again only if a run died between its two puts, or could not
\* read its hash.
NoChurn == \A d \in Doc, v \in Version : puts[d][v] <= 1 + excuses[d]

\* One unreachable upstream does not discard the other feeds: a run over all
\* feeds that is not killed responds, with every feed among its results or its
\* errors.
FailuresAreIsolated ==
    \A r \in Run :
        /\ pc[r] = "raised" => asked[r] = errors[r]
        /\ pc[r] = "responded" =>
            /\ results[r] \cup errors[r] = asked[r]
            /\ results[r] \cap errors[r] = {}

\* A refresh is a DocumentStore, as long as runs follow one another and contents do
\* not return: hashes, skips and runs that die, wherever they do, are not seen.
Store ==
    INSTANCE DocumentStore WITH
        Members <- [f \in Feed |-> {DocsOf[f][i] : i \in DOMAIN DocsOf[f]}],
        stored <- doc,
        fetched <- IF runs = 0 THEN [d \in Doc |-> NoVersion] ELSE fetched[runs],
        reported <- IF runs = 0 THEN {} ELSE results[runs]

ImplementsStore == Store!Spec

(* What the repository says and the code does not do *)

\* "skipping unchanged content": a document that is skipped is stored with the
\* content the run fetched.
SkippedIsUnchanged ==
    [][\A r \in Run : skipped'[r] # skipped[r] =>
            doc[Head(todo[r])] = fetched[r][Head(todo[r])]]_vars
=============================================================================
