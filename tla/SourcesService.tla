--------------------------- MODULE SourcesService ---------------------------
(***************************************************************************)
(* What getVerticalSources promises its callers, without timers, fetches   *)
(* or a cache: an answer is an error, or the whole list of the sources as  *)
(* it stood in COA at one moment, which was at most MaxAge ago and, when a *)
(* refresh was asked for, not before the call. SourcesCache is shown to    *)
(* implement it.                                                           *)
(***************************************************************************)
EXTENDS Naturals

CONSTANTS
    Request,
    Source,
    MaxAge

VARIABLES
    now,
    registered,  \* the sources in COA now
    readings,    \* readings of its list that are still at hand
    waiting,     \* the requests that were not answered at once
    since,       \* the earliest moment the answer to each may be of
    answer       \* the last answer to each

vars == <<now, registered, readings, waiting, since, answer>>

Reading == [asOf |-> now, items |-> registered]

NoAnswer == [kind |-> "none", asOf |-> 0, items |-> {}]
Error == [kind |-> "error", asOf |-> 0, items |-> {}]
Whole(reading) == [kind |-> "value", asOf |-> reading.asOf, items |-> reading.items]

Init ==
    /\ now = 0 /\ registered \in SUBSET Source
    /\ readings = {} /\ waiting = {}
    /\ since = [r \in Request |-> 0] /\ answer = [r \in Request |-> NoAnswer]

Tick == now' = now + 1 /\ UNCHANGED <<registered, readings, waiting, since, answer>>

\* Sources come and go in COA, unseen.
Change(s) ==
    /\ registered' \in {registered \cup {s}, registered \ {s}}
    /\ UNCHANGED <<now, readings, waiting, since, answer>>

\* A reading is shared or forgotten, never made up.
Keep == readings' \subseteq readings \cup {Reading}

GoodFor(reading, from) == now - reading.asOf < MaxAge /\ reading.asOf >= from

\* A request that does not ask for a refresh may be answered at once.
Serve(r) ==
    /\ r \notin waiting
    /\ \E reading \in readings :
         GoodFor(reading, 0) /\ answer' = [answer EXCEPT ![r] = Whole(reading)]
    /\ since' = [since EXCEPT ![r] = 0]
    /\ UNCHANGED <<now, registered, readings, waiting>>

Ask(r) ==
    /\ r \notin waiting
    /\ waiting' = waiting \cup {r}
    /\ \E from \in {0, now} : since' = [since EXCEPT ![r] = from]
    /\ answer' = [answer EXCEPT ![r] = NoAnswer]
    /\ UNCHANGED <<now, registered, readings>>

Read == Keep /\ UNCHANGED <<now, registered, waiting, since, answer>>

Return(r) ==
    /\ r \in waiting
    /\ waiting' = waiting \ {r}
    /\ \E reading \in readings \cup {Reading} :
         GoodFor(reading, since[r]) /\ answer' = [answer EXCEPT ![r] = Whole(reading)]
    /\ Keep
    /\ UNCHANGED <<now, registered, since>>

Fail(r) ==
    /\ r \in waiting
    /\ waiting' = waiting \ {r}
    /\ answer' = [answer EXCEPT ![r] = Error]
    /\ Keep
    /\ UNCHANGED <<now, registered, since>>

Next ==
    \/ Tick \/ Read
    \/ \E s \in Source : Change(s)
    \/ \E r \in Request : Serve(r) \/ Ask(r) \/ Return(r) \/ Fail(r)

Spec == Init /\ [][Next]_vars
=============================================================================
