-------------------------- MODULE SourcesCacheProofs --------------------------
(***************************************************************************)
(* What getVerticalSources shows, for every number of callers and sources, *)
(* every TTL and every timeout.                                            *)
(***************************************************************************)
EXTENDS SourcesCache, TLAPS

\* A load under way: COA evaluated its list after the call and before now,
\* the timers bound how long ago, and what was read and what is awaited are
\* what the list asks for.
Loads ==
    \A r \in Request :
        /\ since[r] <= now
        /\ HasList(r) => since[r] <= asOf[r] /\ asOf[r] <= now
        /\ pc[r] = "list" => due[r] <= now + FetchTimeout
        /\ pc[r] = "listed" => due[r] <= asOf[r] + FetchTimeout
        /\ pc[r] = "details" =>
            due[r] <= asOf[r] + 2 * FetchTimeout /\ done[r] \cup pending[r] = Calls(items[r])
        /\ pc[r] # "details" => done[r] = {}

\* The cached value is complete, and COA evaluated its list at most two
\* timeouts before the entry's time.
Entry ==
    cached =>
        /\ cache.at <= now
        /\ cache.at <= cache.value.asOf + 2 * FetchTimeout
        /\ cache.value.read = Calls(cache.value.items)

IInv == TypeOK /\ Loads /\ Entry /\ AnswersAreFresh /\ AnswersAreComplete
-----------------------------------------------------------------------------
(* Values and answers *)

\* The fetches of some sources are fetches of sources.
LEMMA CallsOfSources == ASSUME NEW list \in SUBSET Source PROVE Calls(list) \subseteq Calls(Source)
BY DEF Calls

Responses == [kind : {"none", "value", "error"}, time : Nat, value : Value]

\* What a caller may be given has the form of a response.
LEMMA ResponseTypes ==
    ASSUME TypeOK
    PROVE  /\ NoResponse \in Responses /\ Error \in Responses
           /\ \A value \in Value : Shows(value) \in Responses
<1>1. NoValue \in Value
  BY DEF NoValue, Value
<1>2. QED
  BY <1>1 DEF NoResponse, Error, Shows, Responses, TypeOK

\* An answer ends the call, and is given to its caller only.
LEMMA AnswerType ==
    ASSUME TypeOK, NEW r \in Request, NEW answer \in Responses, Answer(r, answer)
    PROVE  /\ response' \in [Request -> Responses]
           /\ pc' \in [Request -> {"idle", "token", "list", "listed", "details"}]
           /\ due' \in [Request -> Nat] /\ asOf' \in [Request -> Nat]
           /\ items' \in [Request -> SUBSET Source]
           /\ pending' \in [Request -> SUBSET Calls(Source)]
           /\ done' \in [Request -> SUBSET Calls(Source)]
           /\ response'[r] = answer /\ pc'[r] = "idle" /\ done'[r] = {}
           /\ \A q \in Request \ {r} :
                /\ response'[q] = response[q] /\ pc'[q] = pc[q] /\ due'[q] = due[q]
                /\ asOf'[q] = asOf[q] /\ items'[q] = items[q]
                /\ pending'[q] = pending[q] /\ done'[q] = done[q]
BY DEF TypeOK, Answer, Responses

\* A completed load is stored and shown.
LEMMA CompleteType ==
    ASSUME TypeOK, NEW r \in Request, NEW value \in Value, Complete(r, value)
    PROVE  /\ cached' = TRUE /\ cache' \in [at : Nat, value : Value]
           /\ cache'.at = now /\ cache'.value = value
           /\ Answer(r, Shows(value)) /\ Shows(value) \in Responses
BY ResponseTypes DEF TypeOK, Complete

\* The value that the last fetch of a load completes.
Loaded(r, call) == [asOf |-> asOf[r], items |-> items[r], read |-> done[r] \cup {call}]

\* The last fetch of a load comes before its timer, and completes the list's.
LEMMA LoadedValue ==
    ASSUME TypeOK, Loads, NEW r \in Request, NEW call \in Calls(Source), LastRead(r, call)
    PROVE  /\ Loaded(r, call) \in Value /\ Complete(r, Loaded(r, call))
           /\ now <= asOf[r] + 2 * FetchTimeout /\ since[r] <= asOf[r]
           /\ done[r] \cup {call} = Calls(items[r])
<1>1. Loaded(r, call) \in Value
  BY DEF Loaded, TypeOK, Value
<1>2. Complete(r, Loaded(r, call)) /\ pc[r] = "details"
  BY DEF LastRead, Loaded
<1>3. done[r] \cup {call} = Calls(items[r])
  BY DEF LastRead, Finished, Loads
<1>4. now <= asOf[r] + 2 * FetchTimeout /\ since[r] <= asOf[r]
  BY <1>2, SourcesAssumption DEF Loads, TypeOK, Fetching, HasList
<1>5. QED
  BY <1>1, <1>2, <1>3, <1>4

\* The value of an empty list.
Nothing(r) == [asOf |-> asOf[r], items |-> {}, read |-> {}]

LEMMA NothingValue ==
    ASSUME TypeOK, Loads, NEW r \in Request, EmptyList(r)
    PROVE  /\ Nothing(r) \in Value /\ Complete(r, Nothing(r)) /\ Calls({}) = {}
           /\ now <= asOf[r] + 2 * FetchTimeout /\ since[r] <= asOf[r]
<1>1. Nothing(r) \in Value
  BY DEF Nothing, TypeOK, Value
<1>2. Complete(r, Nothing(r)) /\ pc[r] = "listed"
  BY DEF EmptyList, Nothing
<1>3. now <= asOf[r] + 2 * FetchTimeout /\ since[r] <= asOf[r]
  BY <1>2, SourcesAssumption DEF Loads, TypeOK, Fetching, HasList
<1>4. Calls({}) = {}
  BY DEF Calls
<1>5. QED
  BY <1>1, <1>2, <1>3, <1>4
-----------------------------------------------------------------------------
(* Every step keeps every part of IInv *)

\* Types are kept; a load that starts a fetch starts its timer.
LEMMA TypeStep == TypeOK /\ Loads /\ [Next]_vars => TypeOK'
<1> SUFFICES ASSUME TypeOK, Loads, [Next]_vars PROVE TypeOK'
  OBVIOUS
<1>1. CASE Tick
  BY <1>1 DEF Tick, envVars, cacheVars, loadVars, TypeOK, Fetching
<1>2. ASSUME NEW s \in Source, Register(s) PROVE TypeOK'
  BY <1>2 DEF Register, envVars, cacheVars, loadVars, TypeOK, Fetching
<1>3. ASSUME NEW s \in Source, Remove(s) PROVE TypeOK'
  BY <1>3 DEF Remove, envVars, cacheVars, loadVars, TypeOK, Fetching
<1>4. ASSUME NEW r \in Request, NEW option \in BOOLEAN, FromCache(r, option) PROVE TypeOK'
  <2>1. Shows(cache.value) \in Responses
    BY ResponseTypes DEF TypeOK
  <2>2. Answer(r, Shows(cache.value)) /\ since' \in [Request -> Nat]
    BY <1>4 DEF FromCache, TypeOK
  <2>3. QED
    BY <1>4, <2>1, <2>2, AnswerType DEF FromCache, TypeOK, Fetching, Responses, envVars, cacheVars
<1>5. ASSUME NEW r \in Request, NEW option \in BOOLEAN, StartLoad(r, option) PROVE TypeOK'
  <2>1. response' \in [Request -> Responses] /\ since' \in [Request -> Nat]
    BY <1>5, ResponseTypes DEF StartLoad, TypeOK, Responses
  <2>2. QED
    BY <1>5, <2>1 DEF StartLoad, TypeOK, Fetching, Responses, envVars, cacheVars
<1>6. ASSUME NEW r \in Request, TokenObtained(r) PROVE TypeOK'
  <2>1. due' \in [Request -> Nat] /\ pc' \in [Request -> {"idle", "token", "list", "listed", "details"}]
    BY <1>6, SourcesAssumption DEF TokenObtained, TypeOK
  <2>2. \A q \in Request : Fetching(q)' => now' <= due'[q]
    BY <1>6, SourcesAssumption DEF TokenObtained, TypeOK, Fetching, envVars
  <2>3. QED
    BY <1>6, <2>1, <2>2 DEF TokenObtained, TypeOK, envVars, cacheVars
<1>7. ASSUME NEW r \in Request, ListEvaluated(r) PROVE TypeOK'
  <2>1. /\ asOf' \in [Request -> Nat] /\ items' \in [Request -> SUBSET Source]
        /\ pc' \in [Request -> {"idle", "token", "list", "listed", "details"}]
    BY <1>7 DEF ListEvaluated, TypeOK
  <2>2. \A q \in Request : Fetching(q)' => now' <= due'[q]
    BY <1>7 DEF ListEvaluated, TypeOK, Fetching, envVars
  <2>3. QED
    BY <1>7, <2>1, <2>2 DEF ListEvaluated, TypeOK, envVars, cacheVars
<1>8. ASSUME NEW r \in Request, EmptyList(r) PROVE TypeOK'
  <2>1. Nothing(r) \in Value /\ Complete(r, Nothing(r))
    BY <1>8, NothingValue
  <2>2. QED
    BY <1>8, <2>1, CompleteType, AnswerType DEF EmptyList, TypeOK, Fetching, Responses, envVars
<1>9. ASSUME NEW r \in Request, ListArrives(r) PROVE TypeOK'
  <2>1. pending' \in [Request -> SUBSET Calls(Source)]
    BY <1>9, CallsOfSources DEF ListArrives, TypeOK
  <2>2. due' \in [Request -> Nat] /\ pc' \in [Request -> {"idle", "token", "list", "listed", "details"}]
    BY <1>9, SourcesAssumption DEF ListArrives, TypeOK
  <2>3. \A q \in Request : Fetching(q)' => now' <= due'[q]
    BY <1>9, SourcesAssumption DEF ListArrives, TypeOK, Fetching, envVars
  <2>4. QED
    BY <1>9, <2>1, <2>2, <2>3 DEF ListArrives, TypeOK, envVars, cacheVars
<1>10. ASSUME NEW r \in Request, LoadFails(r) PROVE TypeOK'
  BY <1>10, AnswerType, ResponseTypes DEF LoadFails, TypeOK, Fetching, Responses, envVars, cacheVars
<1>11. ASSUME NEW r \in Request, NEW call \in Calls(Source), DetailRead(r, call) PROVE TypeOK'
  <2>1. pending' \in [Request -> SUBSET Calls(Source)] /\ done' \in [Request -> SUBSET Calls(Source)]
    BY <1>11 DEF DetailRead, TypeOK
  <2>2. QED
    BY <1>11, <2>1 DEF DetailRead, TypeOK, Fetching, envVars, cacheVars
<1>12. ASSUME NEW r \in Request, NEW call \in Calls(Source), LastRead(r, call) PROVE TypeOK'
  <2>1. Loaded(r, call) \in Value /\ Complete(r, Loaded(r, call))
    BY <1>12, LoadedValue
  <2>2. QED
    BY <1>12, <2>1, CompleteType, AnswerType DEF LastRead, TypeOK, Fetching, Responses, envVars
<1>13. CASE UNCHANGED vars
  BY <1>13 DEF vars, envVars, cacheVars, loadVars, TypeOK, Fetching
<1>14. QED
  BY <1>1, <1>2, <1>3, <1>4, <1>5, <1>6, <1>7, <1>8, <1>9, <1>10, <1>11, <1>12, <1>13 DEF Next

\* Loads is kept: only ListEvaluated makes a list, which arrives before its
\* timer; DetailRead moves a fetch to done.
LEMMA LoadsStep == TypeOK /\ Loads /\ [Next]_vars => Loads'
<1> SUFFICES ASSUME TypeOK, Loads, [Next]_vars PROVE Loads'
  OBVIOUS
<1> USE SourcesAssumption DEF TypeOK, Loads, HasList
<1>1. CASE Tick
  BY <1>1 DEF Tick, envVars, cacheVars, loadVars
<1>2. ASSUME NEW s \in Source, Register(s) PROVE Loads'
  BY <1>2 DEF Register, envVars, cacheVars, loadVars
<1>3. ASSUME NEW s \in Source, Remove(s) PROVE Loads'
  BY <1>3 DEF Remove, envVars, cacheVars, loadVars
<1>4. ASSUME NEW r \in Request, NEW option \in BOOLEAN, FromCache(r, option) PROVE Loads'
  <2>1. Answer(r, Shows(cache.value)) /\ Shows(cache.value) \in Responses
    BY <1>4, ResponseTypes DEF FromCache
  <2>2. now' = now /\ since'[r] = 0 /\ \A q \in Request \ {r} : since'[q] = since[q]
    BY <1>4 DEF FromCache, envVars
  <2>3. QED
    BY <2>1, <2>2, AnswerType
<1>5. ASSUME NEW r \in Request, NEW option \in BOOLEAN, StartLoad(r, option) PROVE Loads'
  BY <1>5 DEF StartLoad, envVars, cacheVars, loadVars
<1>6. ASSUME NEW r \in Request, TokenObtained(r) PROVE Loads'
  <2>1. /\ due'[r] = now + FetchTimeout /\ pc'[r] = "list" /\ done[r] = {}
        /\ \A q \in Request \ {r} : pc'[q] = pc[q] /\ due'[q] = due[q]
    BY <1>6 DEF TokenObtained
  <2>2. UNCHANGED <<now, since, asOf, items, pending, done>>
    BY <1>6 DEF TokenObtained, envVars
  <2>3. QED
    BY <2>1, <2>2
<1>7. ASSUME NEW r \in Request, ListEvaluated(r) PROVE Loads'
  <2>1. /\ asOf'[r] = now /\ pc'[r] = "listed" /\ due[r] <= now + FetchTimeout
        /\ since[r] <= now /\ done[r] = {}
    BY <1>7 DEF ListEvaluated
  <2>2. \A q \in Request \ {r} : pc'[q] = pc[q] /\ asOf'[q] = asOf[q] /\ items'[q] = items[q]
    BY <1>7 DEF ListEvaluated
  <2>3. UNCHANGED <<now, since, due, pending, done>>
    BY <1>7 DEF ListEvaluated, envVars
  <2>4. QED
    BY <2>1, <2>2, <2>3
<1>8. ASSUME NEW r \in Request, EmptyList(r) PROVE Loads'
  <2>1. Answer(r, Shows(Nothing(r))) /\ Shows(Nothing(r)) \in Responses
    BY <1>8, NothingValue, CompleteType
  <2>2. UNCHANGED <<now, since>>
    BY <1>8 DEF EmptyList, envVars
  <2>3. QED
    BY <2>1, <2>2, AnswerType
<1>9. ASSUME NEW r \in Request, ListArrives(r) PROVE Loads'
  <2>1. /\ since[r] <= asOf[r] /\ asOf[r] <= now /\ done[r] = {}
        /\ due[r] <= asOf[r] + FetchTimeout /\ now <= due[r]
    BY <1>9 DEF ListArrives, Fetching
  <2>2. now + FetchTimeout <= asOf[r] + 2 * FetchTimeout
    BY <2>1
  <2>3. /\ due'[r] = now + FetchTimeout /\ pc'[r] = "details" /\ pending'[r] = Calls(items[r])
        /\ \A q \in Request \ {r} : pc'[q] = pc[q] /\ due'[q] = due[q] /\ pending'[q] = pending[q]
    BY <1>9 DEF ListArrives
  <2>4. UNCHANGED <<now, since, asOf, items, done>>
    BY <1>9 DEF ListArrives, envVars
  <2>5. QED
    BY <2>1, <2>2, <2>3, <2>4
<1>10. ASSUME NEW r \in Request, LoadFails(r) PROVE Loads'
  <2>1. Answer(r, Error) /\ Error \in Responses /\ UNCHANGED <<now, since>>
    BY <1>10, ResponseTypes DEF LoadFails, envVars
  <2>2. QED
    BY <2>1, AnswerType
<1>11. ASSUME NEW r \in Request, NEW call \in Calls(Source), DetailRead(r, call) PROVE Loads'
  <2>1. done'[r] \cup pending'[r] = done[r] \cup pending[r]
    BY <1>11 DEF DetailRead
  <2>2. QED
    BY <1>11, <2>1 DEF DetailRead, envVars
<1>12. ASSUME NEW r \in Request, NEW call \in Calls(Source), LastRead(r, call) PROVE Loads'
  <2>1. Answer(r, Shows(Loaded(r, call))) /\ Shows(Loaded(r, call)) \in Responses
    BY <1>12, LoadedValue, CompleteType
  <2>2. UNCHANGED <<now, since>>
    BY <1>12 DEF LastRead, envVars
  <2>3. QED
    BY <2>1, <2>2, AnswerType
<1>13. CASE UNCHANGED vars
  BY <1>13 DEF vars, envVars, cacheVars, loadVars
<1>14. QED
  BY <1>1, <1>2, <1>3, <1>4, <1>5, <1>6, <1>7, <1>8, <1>9, <1>10, <1>11, <1>12, <1>13 DEF Next

\* Entry is kept: the last fetch of a load comes before its timer.
LEMMA EntryStep == TypeOK /\ Loads /\ Entry /\ [Next]_vars => Entry'
<1> SUFFICES ASSUME TypeOK, Loads, Entry, [Next]_vars PROVE Entry'
  OBVIOUS
<1> USE SourcesAssumption DEF Entry
<1>1. CASE Tick
  BY <1>1 DEF Tick, TypeOK, cacheVars
<1>2. ASSUME NEW s \in Source, Register(s) PROVE Entry'
  BY <1>2 DEF Register, envVars, cacheVars, loadVars
<1>3. ASSUME NEW s \in Source, Remove(s) PROVE Entry'
  BY <1>3 DEF Remove, envVars, cacheVars, loadVars
<1>4. ASSUME NEW r \in Request, NEW option \in BOOLEAN, FromCache(r, option) PROVE Entry'
  BY <1>4 DEF FromCache, envVars, cacheVars
<1>5. ASSUME NEW r \in Request, NEW option \in BOOLEAN, StartLoad(r, option) PROVE Entry'
  BY <1>5 DEF StartLoad, envVars, cacheVars, loadVars
<1>6. ASSUME NEW r \in Request, TokenObtained(r) PROVE Entry'
  BY <1>6 DEF TokenObtained, envVars, cacheVars, loadVars
<1>7. ASSUME NEW r \in Request, ListEvaluated(r) PROVE Entry'
  BY <1>7 DEF ListEvaluated, envVars, cacheVars, loadVars
<1>8. ASSUME NEW r \in Request, EmptyList(r) PROVE Entry'
  <2>1. /\ Nothing(r) \in Value /\ Complete(r, Nothing(r)) /\ Calls({}) = {}
        /\ now <= asOf[r] + 2 * FetchTimeout
    BY <1>8, NothingValue
  <2>2. cache'.at = now /\ cache'.value = Nothing(r) /\ now' = now /\ now \in Nat
    BY <1>8, <2>1, CompleteType DEF EmptyList, envVars, TypeOK
  <2>3. Nothing(r).asOf = asOf[r] /\ Nothing(r).items = {} /\ Nothing(r).read = {}
    BY DEF Nothing
  <2>4. cache'.value.read = Calls(cache'.value.items)
    BY <2>1, <2>2, <2>3, Zenon
  <2>5. QED
    BY <2>1, <2>2, <2>3, <2>4
<1>9. ASSUME NEW r \in Request, ListArrives(r) PROVE Entry'
  BY <1>9 DEF ListArrives, envVars, cacheVars, loadVars
<1>10. ASSUME NEW r \in Request, LoadFails(r) PROVE Entry'
  BY <1>10 DEF LoadFails, envVars, cacheVars
<1>11. ASSUME NEW r \in Request, NEW call \in Calls(Source), DetailRead(r, call) PROVE Entry'
  BY <1>11 DEF DetailRead, envVars, cacheVars, loadVars
<1>12. ASSUME NEW r \in Request, NEW call \in Calls(Source), LastRead(r, call) PROVE Entry'
  <2>1. /\ Loaded(r, call) \in Value /\ Complete(r, Loaded(r, call))
        /\ now <= asOf[r] + 2 * FetchTimeout /\ done[r] \cup {call} = Calls(items[r])
    BY <1>12, LoadedValue
  <2>2. cache'.at = now /\ cache'.value = Loaded(r, call) /\ now' = now /\ now \in Nat
    BY <1>12, <2>1, CompleteType DEF LastRead, envVars, TypeOK
  <2>3. /\ Loaded(r, call).asOf = asOf[r] /\ Loaded(r, call).items = items[r]
        /\ Loaded(r, call).read = done[r] \cup {call}
    BY DEF Loaded
  <2>4. cache'.value.read = Calls(cache'.value.items)
    BY <2>1, <2>2, <2>3, Zenon
  <2>5. QED
    BY <2>1, <2>2, <2>3, <2>4
<1>13. CASE UNCHANGED vars
  BY <1>13 DEF vars, envVars, cacheVars, loadVars
<1>14. QED
  BY <1>1, <1>2, <1>3, <1>4, <1>5, <1>6, <1>7, <1>8, <1>9, <1>10, <1>11, <1>12, <1>13 DEF Next

\* What is right about the answers of all callers.
Right == AnswersAreFresh /\ AnswersAreComplete

\* An answer that is young enough for its caller, and complete, keeps all right.
LEMMA GoodAnswer ==
    ASSUME TypeOK, Right, NEW r \in Request, NEW value \in Value, Answer(r, Shows(value)),
           now - value.asOf < Ttl + 2 * FetchTimeout, value.asOf >= since'[r],
           value.read = Calls(value.items),
           \A q \in Request \ {r} : since'[q] = since[q]
    PROVE  Right'
<1>1. /\ response'[r].kind = "value" /\ response'[r].time = now /\ response'[r].value = value
      /\ \A q \in Request \ {r} : response'[q] = response[q]
  BY AnswerType, ResponseTypes DEF Shows
<1>2. AnswersAreFresh'
  BY <1>1 DEF Right, AnswersAreFresh, Answered
<1>3. AnswersAreComplete'
  <2>1. response'[r].value.read = Calls(response'[r].value.items)
    BY <1>1, Zenon
  <2>2. \A q \in Request \ {r} : Answered(q)' => response'[q].value.read = Calls(response'[q].value.items)
    BY <1>1 DEF Right, AnswersAreComplete, Answered
  <2>3. QED
    BY <2>1, <2>2 DEF AnswersAreComplete, Answered
<1>4. QED
  BY <1>2, <1>3 DEF Right

\* Where nobody is given a value, and no caller asks for more, all stays right.
LEMMA NoNewAnswer ==
    ASSUME Right, \A q \in Request : Answered(q)' => response'[q] = response[q] /\ since'[q] = since[q]
    PROVE  Right'
<1>1. AnswersAreFresh'
  BY DEF Right, AnswersAreFresh, Answered
<1>2. AnswersAreComplete'
  BY DEF Right, AnswersAreComplete, Answered
<1>3. QED
  BY <1>1, <1>2 DEF Right

\* All answers stay right: a cached one by Entry, a new one by its timers and
\* because nothing is pending; a refresh is never answered from the cache.
LEMMA RightStep == TypeOK /\ Loads /\ Entry /\ Right /\ [Next]_vars => Right'
<1> SUFFICES ASSUME TypeOK, Loads, Entry, Right, [Next]_vars PROVE Right'
  OBVIOUS
<1>1. CASE Tick
  BY <1>1, NoNewAnswer DEF Tick, loadVars
<1>2. ASSUME NEW s \in Source, Register(s) PROVE Right'
  BY <1>2, NoNewAnswer DEF Register, loadVars
<1>3. ASSUME NEW s \in Source, Remove(s) PROVE Right'
  BY <1>3, NoNewAnswer DEF Remove, loadVars
<1>4. ASSUME NEW r \in Request, NEW option \in BOOLEAN, FromCache(r, option) PROVE Right'
  <2>1. /\ Answer(r, Shows(cache.value)) /\ cache.value \in Value
        /\ since'[r] = 0 /\ \A q \in Request \ {r} : since'[q] = since[q]
    BY <1>4 DEF FromCache, TypeOK
  <2>2. /\ now - cache.at < Ttl /\ cache.at <= cache.value.asOf + 2 * FetchTimeout
        /\ cache.value.read = Calls(cache.value.items)
    BY <1>4 DEF FromCache, Usable, Entry
  <2>3. now \in Nat /\ cache.at \in Nat /\ cache.value.asOf \in Nat
    BY DEF TypeOK, Value
  <2>4. now - cache.value.asOf < Ttl + 2 * FetchTimeout /\ cache.value.asOf >= 0
    BY <2>2, <2>3, SourcesAssumption
  <2>5. QED
    BY <2>1, <2>2, <2>4, GoodAnswer
<1>5. ASSUME NEW r \in Request, NEW option \in BOOLEAN, StartLoad(r, option) PROVE Right'
  <2>1. /\ response'[r] = NoResponse
        /\ \A q \in Request \ {r} : response'[q] = response[q] /\ since'[q] = since[q]
    BY <1>5 DEF StartLoad, TypeOK
  <2>2. ~Answered(r)'
    BY <2>1 DEF Answered, NoResponse
  <2>3. QED
    BY <2>1, <2>2, NoNewAnswer
<1>6. ASSUME NEW r \in Request, TokenObtained(r) PROVE Right'
  BY <1>6, NoNewAnswer DEF TokenObtained, loadVars
<1>7. ASSUME NEW r \in Request, ListEvaluated(r) PROVE Right'
  BY <1>7, NoNewAnswer DEF ListEvaluated, loadVars
<1>8. ASSUME NEW r \in Request, EmptyList(r) PROVE Right'
  <2>1. /\ Nothing(r) \in Value /\ Complete(r, Nothing(r)) /\ Calls({}) = {}
        /\ now <= asOf[r] + 2 * FetchTimeout /\ since[r] <= asOf[r]
    BY <1>8, NothingValue
  <2>2. Answer(r, Shows(Nothing(r))) /\ UNCHANGED since
    BY <1>8, <2>1, CompleteType DEF EmptyList
  <2>3. Nothing(r).asOf = asOf[r] /\ Nothing(r).items = {} /\ Nothing(r).read = {}
    BY DEF Nothing
  <2>4. now \in Nat /\ asOf[r] \in Nat /\ since[r] \in Nat
    BY DEF TypeOK
  <2>5. now - asOf[r] < Ttl + 2 * FetchTimeout /\ asOf[r] >= since'[r]
    BY <2>1, <2>2, <2>4, SourcesAssumption
  <2>6. Nothing(r).read = Calls(Nothing(r).items)
    BY <2>1, <2>3, Zenon
  <2>7. QED
    BY <2>1, <2>2, <2>3, <2>5, <2>6, GoodAnswer
<1>9. ASSUME NEW r \in Request, ListArrives(r) PROVE Right'
  BY <1>9, NoNewAnswer DEF ListArrives, loadVars
<1>10. ASSUME NEW r \in Request, LoadFails(r) PROVE Right'
  <2>1. /\ response'[r] = Error /\ UNCHANGED since
        /\ \A q \in Request \ {r} : response'[q] = response[q]
    BY <1>10, AnswerType, ResponseTypes DEF LoadFails
  <2>2. ~Answered(r)'
    BY <2>1 DEF Answered, Error
  <2>3. QED
    BY <2>1, <2>2, NoNewAnswer
<1>11. ASSUME NEW r \in Request, NEW call \in Calls(Source), DetailRead(r, call) PROVE Right'
  BY <1>11, NoNewAnswer DEF DetailRead, loadVars
<1>12. ASSUME NEW r \in Request, NEW call \in Calls(Source), LastRead(r, call) PROVE Right'
  <2>1. /\ Loaded(r, call) \in Value /\ Complete(r, Loaded(r, call))
        /\ now <= asOf[r] + 2 * FetchTimeout /\ since[r] <= asOf[r]
        /\ done[r] \cup {call} = Calls(items[r])
    BY <1>12, LoadedValue
  <2>2. Answer(r, Shows(Loaded(r, call))) /\ UNCHANGED since
    BY <1>12, <2>1, CompleteType DEF LastRead
  <2>3. /\ Loaded(r, call).asOf = asOf[r] /\ Loaded(r, call).items = items[r]
        /\ Loaded(r, call).read = done[r] \cup {call}
    BY DEF Loaded
  <2>4. now \in Nat /\ asOf[r] \in Nat /\ since[r] \in Nat
    BY DEF TypeOK
  <2>5. now - asOf[r] < Ttl + 2 * FetchTimeout /\ asOf[r] >= since'[r]
    BY <2>1, <2>2, <2>4, SourcesAssumption
  <2>6. Loaded(r, call).read = Calls(Loaded(r, call).items)
    BY <2>1, <2>3, Zenon
  <2>7. QED
    BY <2>1, <2>2, <2>3, <2>5, <2>6, GoodAnswer
<1>13. CASE UNCHANGED vars
  BY <1>13, NoNewAnswer DEF vars, loadVars
<1>14. QED
  BY <1>1, <1>2, <1>3, <1>4, <1>5, <1>6, <1>7, <1>8, <1>9, <1>10, <1>11, <1>12, <1>13 DEF Next

-----------------------------------------------------------------------------
(* Theorems *)

\* IInv holds at the start.
LEMMA InitIInv == Init => IInv
<1> SUFFICES ASSUME Init PROVE IInv
  OBVIOUS
<1>1. TypeOK
  BY DEF Init, TypeOK, Fetching, NoResponse, NoValue, Value
<1>2. Loads /\ Entry
  BY DEF Init, Loads, Entry, HasList
<1>3. AnswersAreFresh /\ AnswersAreComplete
  BY DEF Init, AnswersAreFresh, AnswersAreComplete, Answered, NoResponse
<1>4. QED
  BY <1>1, <1>2, <1>3 DEF IInv

\* IInv holds in every reachable state.
THEOREM Invariance == Spec => []IInv
<1>1. IInv /\ [Next]_vars => IInv'
  BY TypeStep, LoadsStep, EntryStep, RightStep DEF IInv, Right
<1>2. QED
  BY InitIInv, <1>1, PTL DEF Spec

\* The variables keep their types, and no fetch outlives its timer.
THEOREM Typing == Spec => []TypeOK
BY Invariance, PTL DEF IInv

\* What is shown was evaluated by COA less than the TTL and two fetch timeouts
\* ago, and a refresh is answered with what COA evaluated after it was asked for.
THEOREM FreshAnswers == Spec => []AnswersAreFresh
BY Invariance, PTL DEF IInv

\* An answer has all the details its list asks for.
THEOREM AllOrNothing == Spec => []AnswersAreComplete
BY Invariance, PTL DEF IInv
-----------------------------------------------------------------------------
(* Every step is one of SourcesService, or changes nothing it sees *)

Waiting == {r \in Request : pc[r] # "idle"}
Shown ==
    [r \in Request |-> [kind |-> response[r].kind,
                       asOf |-> response[r].value.asOf, items |-> response[r].value.items]]

\* The initial states are those of SourcesService.
LEMMA ServiceInit == Init => Service!Init
<1> SUFFICES ASSUME Init PROVE Service!Init
  OBVIOUS
<1>1. Readings = {} /\ Waiting = {}
  BY DEF Init, Readings, HasList, Waiting
<1>2. since = [r \in Request |-> 0]
  BY DEF Init
<1>3. Shown = [r \in Request |-> Service!NoAnswer]
  BY DEF Init, Shown, Service!NoAnswer, NoResponse, NoValue
<1>4. QED
  BY <1>1, <1>2, <1>3 DEF Init, Service!Init, Waiting, Shown

\* What a step leaves alone that SourcesService sees.
LEMMA Invisible ==
    ASSUME UNCHANGED <<now, registered, cacheVars, pc, since, asOf, items, response>>
    PROVE  UNCHANGED Service!vars
<1>1. /\ Readings' = Readings /\ Waiting' = Waiting /\ since' = since /\ Shown' = Shown
      /\ now' = now /\ registered' = registered
  BY DEF Readings, HasList, Waiting, Shown, cacheVars
<1>2. QED
  BY <1>1 DEF Service!vars, Waiting, Shown

\* A caller is shown its response.
LEMMA ResponseShown ==
    ASSUME NEW r \in Request, NEW x, DOMAIN response = Request,
           response' = [response EXCEPT ![r] = x]
    PROVE  Shown' = [Shown EXCEPT ![r] =
                       [kind |-> x.kind, asOf |-> x.value.asOf, items |-> x.value.items]]
<1> DEFINE row(y) == [kind |-> y.kind, asOf |-> y.value.asOf, items |-> y.value.items]
<1>1. Shown = [q \in Request |-> row(response[q])] /\ Shown' = [q \in Request |-> row(response'[q])]
  BY DEF Shown
<1>2. \A q \in Request : row(response'[q]) = IF q = r THEN row(x) ELSE row(response[q])
  <2>1. \A q \in Request : response'[q] = IF q = r THEN x ELSE response[q]
    BY Zenon
  <2> HIDE DEF row
  <2>2. QED
    BY <2>1
<1> HIDE DEF row
<1>3. Shown' = [Shown EXCEPT ![r] = row(x)]
  BY <1>1, <1>2
<1>4. QED
  BY <1>3 DEF row

\* An answer is shown to its caller only, who waits no longer.
LEMMA AnswerShown ==
    ASSUME TypeOK, NEW r \in Request, NEW given, Answer(r, given)
    PROVE  /\ Waiting' = Waiting \ {r}
           /\ Shown' = [Shown EXCEPT ![r] =
                          [kind |-> given.kind, asOf |-> given.value.asOf, items |-> given.value.items]]
           /\ \A q \in Request : HasList(q)' =>
                HasList(q) /\ asOf'[q] = asOf[q] /\ items'[q] = items[q]
<1>1. Waiting' = Waiting \ {r}
  BY DEF Answer, Waiting, TypeOK
<1>2. Shown' = [Shown EXCEPT ![r] =
                  [kind |-> given.kind, asOf |-> given.value.asOf, items |-> given.value.items]]
  BY ResponseShown DEF Answer, TypeOK
<1>3. ASSUME NEW q \in Request, HasList(q)'
      PROVE  HasList(q) /\ asOf'[q] = asOf[q] /\ items'[q] = items[q]
  <2>1. q # r
    BY <1>3 DEF Answer, TypeOK, HasList
  <2>2. QED
    BY <1>3, <2>1 DEF Answer, TypeOK, HasList
<1>4. QED
  BY <1>1, <1>2, <1>3

\* A load that ends leaves the readings of the others, and at most its own.
LEMMA ReadingsKept ==
    ASSUME TypeOK, NEW r \in Request, NEW given, Answer(r, given),
           cached' \in BOOLEAN,
           \/ UNCHANGED cacheVars
           \/ [asOf |-> cache.value.asOf, items |-> cache.value.items]'
                \in Readings \cup {Service!Reading}
    PROVE  Readings' \subseteq Readings \cup {Service!Reading}
<1> SUFFICES ASSUME NEW k \in Readings' PROVE k \in Readings \cup {Service!Reading}
  OBVIOUS
<1>1. \/ cached' /\ k = [asOf |-> cache.value.asOf, items |-> cache.value.items]'
      \/ \E q \in Request :
           HasList(q)' /\ k = [asOf |-> asOf'[q], items |-> items'[q]]
  BY DEF Readings
<1>2. CASE \E q \in Request :
             HasList(q)' /\ k = [asOf |-> asOf'[q], items |-> items'[q]]
  BY <1>2, AnswerShown DEF Readings
<1>3. CASE cached' /\ k = [asOf |-> cache.value.asOf, items |-> cache.value.items]'
  <2>1. CASE UNCHANGED cacheVars
    BY <1>3, <2>1 DEF Readings, cacheVars
  <2>2. QED
    BY <1>3, <2>1
<1>4. QED
  BY <1>1, <1>2, <1>3

\* A completed load is a Return of the reading it completes.
LEMMA CompleteReturns ==
    ASSUME IInv, TypeOK', NEW r \in Request, pc[r] # "idle", NEW value \in Value,
           Complete(r, value), UNCHANGED <<envVars, since>>,
           [asOf |-> value.asOf, items |-> value.items] \in Readings \cup {Service!Reading},
           now - value.asOf < Ttl + 2 * FetchTimeout, value.asOf >= since[r]
    PROVE  Service!Return(r)
<1> DEFINE reading == [asOf |-> value.asOf, items |-> value.items]
<1>1. /\ cached' /\ cache' = [at |-> now, value |-> value]
      /\ Answer(r, Shows(value)) /\ TypeOK /\ cached' \in BOOLEAN
  BY DEF Complete, IInv, TypeOK
<1>2. Readings' \subseteq Readings \cup {Service!Reading}
  <2>1. [asOf |-> cache.value.asOf, items |-> cache.value.items]' = reading
    BY <1>1
  <2>2. QED
    BY <1>1, <2>1, ReadingsKept
<1>3. /\ Waiting' = Waiting \ {r}
      /\ Shown' = [Shown EXCEPT ![r] = Service!Whole(reading)]
  BY <1>1, AnswerShown DEF Service!Whole, Shows
<1>4. r \in Waiting /\ since' = since /\ now' = now /\ registered' = registered
  BY DEF Waiting, envVars
<1>5. Service!GoodFor(reading, since[r])
  BY DEF Service!GoodFor
<1>6. QED
  BY <1>2, <1>3, <1>4, <1>5 DEF Service!Return, Service!Keep, Waiting, Shown

\* Every step is a step of SourcesService, or changes nothing it has.
LEMMA ServiceStep == IInv /\ IInv' /\ [Next]_vars => [Service!Next]_Service!vars
<1> SUFFICES ASSUME IInv, IInv', [Next]_vars PROVE [Service!Next]_Service!vars
  OBVIOUS
<1>1. TypeOK /\ TypeOK' /\ Loads /\ Entry
  BY DEF IInv
<1>2. CASE Tick
  <2>1. Readings' = Readings /\ Waiting' = Waiting /\ since' = since /\ Shown' = Shown
    BY <1>2 DEF Tick, cacheVars, loadVars, Readings, HasList, Waiting, Shown
  <2>2. Service!Tick
    BY <1>2, <2>1 DEF Tick, Service!Tick, Waiting, Shown
  <2>3. QED
    BY <2>2 DEF Service!Next
<1>3. ASSUME NEW s \in Source, Register(s) \/ Remove(s) PROVE Service!Next
  <2>1. Readings' = Readings /\ Waiting' = Waiting /\ since' = since /\ Shown' = Shown
    BY <1>3 DEF Register, Remove, cacheVars, loadVars, Readings, HasList, Waiting, Shown
  <2>2. Service!Change(s)
    BY <1>3, <2>1 DEF Register, Remove, Service!Change, Waiting, Shown
  <2>3. QED
    BY <2>2 DEF Service!Next
<1>4. ASSUME NEW r \in Request, NEW option \in BOOLEAN, FromCache(r, option) PROVE Service!Next
  <2> DEFINE reading == [asOf |-> cache.value.asOf, items |-> cache.value.items]
  <2>1. Answer(r, Shows(cache.value)) /\ UNCHANGED <<envVars, cacheVars>> /\ r \notin Waiting
    BY <1>4 DEF FromCache, Waiting
  <2>2. /\ Waiting' = Waiting \ {r}
        /\ Shown' = [Shown EXCEPT ![r] = Service!Whole(reading)]
    BY <1>1, <2>1, AnswerShown DEF Service!Whole, Shows
  <2>3. reading \in Readings /\ Service!GoodFor(reading, 0)
    <3>1. cached /\ now - cache.at < Ttl /\ cache.at <= cache.value.asOf + 2 * FetchTimeout
      BY <1>1, <1>4 DEF FromCache, Usable, Entry
    <3>2. now \in Nat /\ cache.at \in Nat /\ cache.value.asOf \in Nat
      BY <1>1 DEF TypeOK, Value
    <3>3. now - cache.value.asOf < Ttl + 2 * FetchTimeout /\ cache.value.asOf >= 0
      BY <3>1, <3>2, SourcesAssumption
    <3>4. reading \in Readings
      BY <3>1 DEF Readings
    <3>5. QED
      BY <3>3, <3>4 DEF Service!GoodFor
  <2>4. since' = [since EXCEPT ![r] = 0]
    BY <1>1, <1>4 DEF FromCache, TypeOK
  <2>5. Readings' = Readings
    BY <1>1, <1>4 DEF FromCache, Answer, Readings, HasList, cacheVars, TypeOK
  <2>6. Service!Serve(r)
    BY <2>1, <2>2, <2>3, <2>4, <2>5 DEF Service!Serve, Waiting, Shown, envVars
  <2>7. QED
    BY <2>6 DEF Service!Next
<1>5. ASSUME NEW r \in Request, NEW option \in BOOLEAN, StartLoad(r, option) PROVE Service!Next
  <2>1. r \notin Waiting /\ Waiting' = Waiting \cup {r}
    BY <1>1, <1>5 DEF StartLoad, Waiting, TypeOK
  <2>2. since' = [since EXCEPT ![r] = IF option THEN now ELSE 0]
    BY <1>1, <1>5 DEF StartLoad, TypeOK
  <2>3. Shown' = [Shown EXCEPT ![r] = Service!NoAnswer]
    <3>1. DOMAIN response = Request /\ response' = [response EXCEPT ![r] = NoResponse]
      BY <1>1, <1>5 DEF StartLoad, TypeOK
    <3>2. /\ NoResponse.kind = "none"
          /\ NoResponse.value.asOf = 0 /\ NoResponse.value.items = {}
      BY DEF NoResponse, NoValue
    <3>3. QED
      BY <3>1, <3>2, ResponseShown DEF Service!NoAnswer
  <2>4. Readings' = Readings
    BY <1>1, <1>5 DEF StartLoad, Readings, HasList, cacheVars, TypeOK
  <2>5. Service!Ask(r)
    BY <1>5, <2>1, <2>2, <2>3, <2>4 DEF StartLoad, Service!Ask, Waiting, Shown, envVars
  <2>6. QED
    BY <2>5 DEF Service!Next
<1>6. ASSUME NEW r \in Request, TokenObtained(r) PROVE UNCHANGED Service!vars
  <2>1. Waiting' = Waiting /\ Readings' = Readings
    BY <1>1, <1>6 DEF TokenObtained, Waiting, Readings, HasList, cacheVars, TypeOK
  <2>2. since' = since /\ Shown' = Shown /\ UNCHANGED <<now, registered>>
    BY <1>6 DEF TokenObtained, Shown, envVars
  <2>3. QED
    BY <2>1, <2>2 DEF Service!vars, Waiting, Shown
<1>7. ASSUME NEW r \in Request, ListEvaluated(r) PROVE Service!Next
  <2>1. Waiting' = Waiting
    BY <1>1, <1>7 DEF ListEvaluated, Waiting, TypeOK
  <2>2. Shown' = Shown /\ UNCHANGED <<now, registered, since>>
    BY <1>7 DEF ListEvaluated, Shown, envVars
  <2>3. Readings' \subseteq Readings \cup {Service!Reading}
    <3>1. /\ asOf'[r] = now /\ items'[r] = registered
          /\ \A q \in Request \ {r} : pc'[q] = pc[q] /\ asOf'[q] = asOf[q] /\ items'[q] = items[q]
      BY <1>1, <1>7 DEF ListEvaluated, TypeOK
    <3>2. UNCHANGED cacheVars
      BY <1>7 DEF ListEvaluated
    <3>3. QED
      BY <3>1, <3>2 DEF Readings, Service!Reading, HasList, cacheVars
  <2>4. Service!Read
    BY <2>1, <2>2, <2>3 DEF Service!Read, Service!Keep, Waiting, Shown
  <2>5. QED
    BY <2>4 DEF Service!Next
<1>8. ASSUME NEW r \in Request, EmptyList(r) PROVE Service!Next
  <2>1. pc[r] = "listed" /\ items[r] = {} /\ UNCHANGED <<envVars, since>>
    BY <1>8 DEF EmptyList
  <2>2. /\ Nothing(r) \in Value /\ Complete(r, Nothing(r))
        /\ now <= asOf[r] + 2 * FetchTimeout /\ since[r] <= asOf[r]
    BY <1>1, <1>8, NothingValue
  <2>3. Nothing(r).asOf = asOf[r] /\ Nothing(r).items = items[r]
    BY <2>1 DEF Nothing
  <2>4. [asOf |-> Nothing(r).asOf, items |-> Nothing(r).items] \in Readings
    BY <2>1, <2>3 DEF Readings, HasList
  <2>5. now \in Nat /\ asOf[r] \in Nat /\ since[r] \in Nat
    BY <1>1 DEF TypeOK
  <2>6. now - Nothing(r).asOf < Ttl + 2 * FetchTimeout /\ Nothing(r).asOf >= since[r]
    BY <2>2, <2>3, <2>5, SourcesAssumption
  <2>7. Service!Return(r)
    BY <1>1, <2>1, <2>2, <2>4, <2>6, CompleteReturns
  <2>8. QED
    BY <2>7 DEF Service!Next
<1>9. ASSUME NEW r \in Request, ListArrives(r) PROVE UNCHANGED Service!vars
  <2>1. Waiting' = Waiting /\ Readings' = Readings
    BY <1>1, <1>9 DEF ListArrives, Waiting, Readings, HasList, cacheVars, TypeOK
  <2>2. Shown' = Shown /\ UNCHANGED <<now, registered, since>>
    BY <1>9 DEF ListArrives, Shown, envVars
  <2>3. QED
    BY <2>1, <2>2 DEF Service!vars, Waiting, Shown
<1>10. ASSUME NEW r \in Request, LoadFails(r) PROVE Service!Next
  <2>1. Answer(r, Error) /\ UNCHANGED <<envVars, cacheVars, since>>
    BY <1>10 DEF LoadFails
  <2>2. /\ r \in Waiting /\ Waiting' = Waiting \ {r}
        /\ Shown' = [Shown EXCEPT ![r] = Service!Error]
    BY <1>1, <1>10, <2>1, AnswerShown DEF LoadFails, Waiting, Service!Error, Error, NoValue
  <2>3. Readings' \subseteq Readings \cup {Service!Reading}
    BY <1>1, <2>1, ReadingsKept DEF TypeOK
  <2>4. since' = since /\ UNCHANGED <<now, registered>>
    BY <2>1 DEF envVars
  <2>5. Service!Fail(r)
    BY <2>2, <2>3, <2>4 DEF Service!Fail, Service!Keep, Waiting, Shown
  <2>6. QED
    BY <2>5 DEF Service!Next
<1>11. ASSUME NEW r \in Request, NEW call \in Calls(Source), DetailRead(r, call)
       PROVE  UNCHANGED Service!vars
  BY <1>11, Invisible DEF DetailRead, envVars
<1>12. ASSUME NEW r \in Request, NEW call \in Calls(Source), LastRead(r, call) PROVE Service!Next
  <2>1. pc[r] = "details" /\ UNCHANGED <<envVars, since>>
    BY <1>12 DEF LastRead
  <2>2. /\ Loaded(r, call) \in Value /\ Complete(r, Loaded(r, call))
        /\ now <= asOf[r] + 2 * FetchTimeout /\ since[r] <= asOf[r]
    BY <1>1, <1>12, LoadedValue
  <2>3. Loaded(r, call).asOf = asOf[r] /\ Loaded(r, call).items = items[r]
    BY DEF Loaded
  <2>4. [asOf |-> Loaded(r, call).asOf, items |-> Loaded(r, call).items] \in Readings
    BY <2>1, <2>3 DEF Readings, HasList
  <2>5. now \in Nat /\ asOf[r] \in Nat /\ since[r] \in Nat
    BY <1>1 DEF TypeOK
  <2>6. now - Loaded(r, call).asOf < Ttl + 2 * FetchTimeout /\ Loaded(r, call).asOf >= since[r]
    BY <2>2, <2>3, <2>5, SourcesAssumption
  <2>7. Service!Return(r)
    BY <1>1, <2>1, <2>2, <2>4, <2>6, CompleteReturns
  <2>8. QED
    BY <2>7 DEF Service!Next
<1>13. CASE UNCHANGED vars
  BY <1>13, Invisible DEF vars, envVars, cacheVars, loadVars
<1>14. QED
  BY <1>2, <1>3, <1>4, <1>5, <1>6, <1>7, <1>8, <1>9, <1>10, <1>11, <1>12, <1>13 DEF Next

\* What the live-sources service does is what SourcesService promises, for any number
\* of callers and sources: answers are lists as they stood in COA at one moment.
THEOREM Implementation == Spec => ImplementsService
<1>1. Spec => Service!Init /\ [][Service!Next]_Service!vars
  BY ServiceInit, ServiceStep, Invariance, PTL DEF Spec
<1>2. QED
  BY <1>1 DEF ImplementsService, Service!Spec
=============================================================================
