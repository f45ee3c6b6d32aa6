---------------------------- MODULE SourcesCache ----------------------------
(***************************************************************************)
(* getVerticalSources for a vertical with a live COA namespace: the list   *)
(* of its sources, then the detail and the tables of each at the same      *)
(* time, kept for CACHE_TTL_MS. Requests for one vertical overlap freely;  *)
(* the cache has one entry per vertical, so one vertical is enough.        *)
(*                                                                         *)
(* Every fetch but the token's has FETCH_TIMEOUT_MS, whose timer also      *)
(* covers reading the body. Time is counted in ticks.                      *)
(***************************************************************************)
EXTENDS Naturals

CONSTANTS
    Request,       \* callers of getVerticalSources, one call at a time each
    Source,        \* source ids
    Documents,     \* those of type DOCUMENTS, which have no tables
    Ttl,           \* CACHE_TTL_MS
    FetchTimeout,  \* FETCH_TIMEOUT_MS
    MaxTime        \* bound: the last tick

ASSUME SourcesAssumption ==
    /\ Documents \subseteq Source
    /\ Ttl \in Nat \ {0} /\ FetchTimeout \in Nat
    /\ MaxTime \in Nat

VARIABLES
    now,
    registered,  \* the sources in COA now
    cached,      \* _cache has an entry
    cache,       \* the entry: its time, and the value
    pc,          \* what each request waits for
    since,       \* when it was called, for a refresh; 0 for another call
    due,         \* when the timer of its fetch ends
    asOf,        \* when COA evaluated the list it builds on
    items,       \* the sources on the list
    pending,     \* fetches it waits for
    done,        \* fetches that were answered
    response     \* the last answer to each caller

envVars == <<now, registered>>
cacheVars == <<cached, cache>>
loadVars == <<since, due, asOf, items, pending, done>>
vars == <<envVars, cacheVars, pc, loadVars, response>>

\* The fetches a list asks for.
Calls(list) == (list \X {"detail"}) \cup ((list \ Documents) \X {"tables"})

Value == [asOf : Nat, items : SUBSET Source, read : SUBSET Calls(Source)]
NoValue == [asOf |-> 0, items |-> {}, read |-> {}]
Shows(value) == [kind |-> "value", time |-> now, value |-> value]
NoResponse == [kind |-> "none", time |-> 0, value |-> NoValue]
Error == [kind |-> "error", time |-> 0, value |-> NoValue]

Init ==
    /\ now = 0 /\ registered \in SUBSET Source
    /\ cached = FALSE /\ cache = [at |-> 0, value |-> NoValue]
    /\ pc = [r \in Request |-> "idle"]
    /\ since = [r \in Request |-> 0]
    /\ due = [r \in Request |-> 0]
    /\ asOf = [r \in Request |-> 0]
    /\ items = [r \in Request |-> {}]
    /\ pending = [r \in Request |-> {}]
    /\ done = [r \in Request |-> {}]
    /\ response = [r \in Request |-> NoResponse]

Fetching(r) == pc[r] \in {"list", "listed", "details"}

-----------------------------------------------------------------------------
(* Time and COA *)

\* Mutant: the abort timer is not set.
Tick_Late ==
    /\ now < MaxTime
    /\ now' = now + 1
    /\ UNCHANGED <<registered, cacheVars, pc, loadVars, response>>

\* A timer that ends is served before time goes on.
Tick ==
    /\ now < MaxTime
    /\ \A r \in Request : Fetching(r) => now < due[r]
    /\ now' = now + 1
    /\ UNCHANGED <<registered, cacheVars, pc, loadVars, response>>

Register(s) ==
    /\ s \notin registered
    /\ registered' = registered \cup {s}
    /\ UNCHANGED <<now, cacheVars, pc, loadVars, response>>

Remove(s) ==
    /\ s \in registered
    /\ registered' = registered \ {s}
    /\ UNCHANGED <<now, cacheVars, pc, loadVars, response>>

-----------------------------------------------------------------------------
(* getLiveSources *)

\* Mutant: an entry lives one tick longer.
Usable_OneMore == cached /\ now - cache.at <= Ttl

Usable == cached /\ now - cache.at < Ttl

\* Answer the caller; the call, and what it knew, are over.
Answer(r, answer) ==
    /\ response' = [response EXCEPT ![r] = answer]
    /\ pc' = [pc EXCEPT ![r] = "idle"]
    /\ due' = [due EXCEPT ![r] = 0]
    /\ asOf' = [asOf EXCEPT ![r] = 0]
    /\ items' = [items EXCEPT ![r] = {}]
    /\ pending' = [pending EXCEPT ![r] = {}]
    /\ done' = [done EXCEPT ![r] = {}]

\* Mutant: a refresh may be answered from the cache.
FromCache_Refresh(r, option) ==
    /\ pc[r] = "idle"
    /\ Usable
    /\ since' = [since EXCEPT ![r] = IF option THEN now ELSE 0]
    /\ Answer(r, Shows(cache.value))
    /\ UNCHANGED <<envVars, cacheVars>>

FromCache(r, option) ==
    /\ pc[r] = "idle"
    /\ ~option /\ Usable
    /\ since' = [since EXCEPT ![r] = 0]
    /\ Answer(r, Shows(cache.value))
    /\ UNCHANGED <<envVars, cacheVars>>

StartLoad(r, option) ==
    /\ pc[r] = "idle"
    /\ option \/ ~Usable
    /\ since' = [since EXCEPT ![r] = IF option THEN now ELSE 0]
    /\ pc' = [pc EXCEPT ![r] = "token"]
    /\ response' = [response EXCEPT ![r] = NoResponse]
    /\ UNCHANGED <<envVars, cacheVars, due, asOf, items, pending, done>>

\* getCoaToken, or COA_TOKEN; the timer of the list starts.
TokenObtained(r) ==
    /\ pc[r] = "token"
    /\ pc' = [pc EXCEPT ![r] = "list"]
    /\ due' = [due EXCEPT ![r] = now + FetchTimeout]
    /\ UNCHANGED <<envVars, cacheVars, since, asOf, items, pending, done, response>>

\* The answer for a load that has read all: it is stored and returned. The
\* entry's time is the time it is complete.
Complete(r, value) ==
    /\ cached' = TRUE
    /\ cache' = [at |-> now, value |-> value]
    /\ Answer(r, Shows(value))

\* COA evaluates the list; its answer is under way to the caller, and late by
\* as much as the timer of the fetch allows.
ListEvaluated(r) ==
    /\ pc[r] = "list"
    /\ pc' = [pc EXCEPT ![r] = "listed"]
    /\ asOf' = [asOf EXCEPT ![r] = now]
    /\ items' = [items EXCEPT ![r] = registered]
    /\ UNCHANGED <<envVars, cacheVars, since, due, pending, done, response>>

\* An empty list arrives: it needs no further fetch.
EmptyList(r) ==
    /\ pc[r] = "listed"
    /\ items[r] = {}
    /\ Complete(r, [asOf |-> asOf[r], items |-> {}, read |-> {}])
    /\ UNCHANGED <<envVars, since>>

\* Another arrives: what it asks for is fetched, each with a timer of its own.
ListArrives(r) ==
    /\ pc[r] = "listed"
    /\ items[r] # {}
    /\ pc' = [pc EXCEPT ![r] = "details"]
    /\ due' = [due EXCEPT ![r] = now + FetchTimeout]
    /\ pending' = [pending EXCEPT ![r] = Calls(items[r])]
    /\ UNCHANGED <<envVars, cacheVars, since, asOf, items, done, response>>

\* Mutant: answered as soon as one fetch of each source was.
Finished_Early(r, call) ==
    \A s \in items[r] : \E c \in done[r] \cup {call} : c[1] = s

Finished(r, call) == pending[r] \subseteq {call}

\* A fetch is answered, and others are still awaited. COA evaluates it some
\* time before: the source may be gone by the time the answer arrives. When it
\* was gone before, the answer is an error, and the load fails.
DetailRead(r, call) ==
    /\ pc[r] = "details"
    /\ call \in pending[r]
    /\ ~Finished(r, call)
    /\ pending' = [pending EXCEPT ![r] = @ \ {call}]
    /\ done' = [done EXCEPT ![r] = @ \cup {call}]
    /\ UNCHANGED <<envVars, cacheVars, pc, since, due, asOf, items, response>>

\* The last one is answered.
LastRead(r, call) ==
    /\ pc[r] = "details"
    /\ call \in pending[r]
    /\ Finished(r, call)
    /\ Complete(r, [asOf |-> asOf[r], items |-> items[r], read |-> done[r] \cup {call}])
    /\ UNCHANGED <<envVars, since>>

\* No token, an error status (a source that was removed since the list is
\* one), or the timer: the first failure rejects the whole load, and the
\* route answers 502. The cache is left alone.
LoadFails(r) ==
    /\ pc[r] # "idle"
    /\ Answer(r, Error)
    /\ UNCHANGED <<envVars, cacheVars, since>>

Next ==
    \/ Tick
    \/ \E s \in Source : Register(s) \/ Remove(s)
    \/ \E r \in Request :
        \/ \E option \in BOOLEAN : FromCache(r, option) \/ StartLoad(r, option)
        \/ TokenObtained(r) \/ ListEvaluated(r) \/ EmptyList(r) \/ ListArrives(r) \/ LoadFails(r)
        \/ \E call \in Calls(Source) : DetailRead(r, call) \/ LastRead(r, call)

Spec == Init /\ [][Next]_vars

-----------------------------------------------------------------------------
(* Properties *)

\* Types, and no timer is overrun (coaGet).
TypeOK ==
    /\ now \in Nat
    /\ registered \subseteq Source
    /\ cached \in BOOLEAN
    /\ cache \in [at : Nat, value : Value]
    /\ pc \in [Request -> {"idle", "token", "list", "listed", "details"}]
    /\ since \in [Request -> Nat]
    /\ due \in [Request -> Nat]
    /\ asOf \in [Request -> Nat]
    /\ items \in [Request -> SUBSET Source]
    /\ pending \in [Request -> SUBSET Calls(Source)]
    /\ done \in [Request -> SUBSET Calls(Source)]
    /\ response \in [Request -> [kind : {"none", "value", "error"}, time : Nat, value : Value]]
    /\ \A r \in Request : Fetching(r) => now <= due[r]

Answered(r) == response[r].kind = "value"

\* What a caller is shown was true in COA, as to which sources there are, less
\* than Ttl and two FetchTimeouts ago: the entry's time is that of the end of a
\* load, and COA may have evaluated its list two fetches before, that of the
\* list and the slowest of the details. A refresh shows what COA evaluated
\* after it was asked for, never what another request read before
\* (getLiveSources).
AnswersAreFresh ==
    \A r \in Request :
        Answered(r) =>
            /\ response[r].time - response[r].value.asOf < Ttl + 2 * FetchTimeout
            /\ response[r].value.asOf >= since[r]

\* All or nothing: whatever fails, whoever overlaps, an answer that is no
\* error has the detail of each listed source, and the tables of each that
\* has tables (getLiveSources).
AnswersAreComplete ==
    \A r \in Request :
        Answered(r) => response[r].value.read = Calls(response[r].value.items)

\* COA has evaluated the list of its load.
HasList(r) == pc[r] \in {"listed", "details"}

\* The readings at hand: that of the entry, and those of the loads under way.
Readings ==
    {[asOf |-> cache.value.asOf, items |-> cache.value.items] : c \in {TRUE} \cap {cached}}
      \cup {[asOf |-> asOf[r], items |-> items[r]] : r \in {q \in Request : HasList(q)}}

\* Whatever overlaps, fails or is answered late, a caller is shown a list as it
\* stood in COA at one moment, as fresh as it asked for (the comment on
\* getLiveSources).
Service ==
    INSTANCE SourcesService WITH
        MaxAge <- Ttl + 2 * FetchTimeout,
        readings <- Readings,
        waiting <- {r \in Request : pc[r] # "idle"},
        answer <- [r \in Request |->
                     [kind |-> response[r].kind,
                      asOf |-> response[r].value.asOf, items |-> response[r].value.items]]

ImplementsService == Service!Spec
=============================================================================
