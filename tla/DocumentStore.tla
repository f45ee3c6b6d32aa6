---------------------------- MODULE DocumentStore ----------------------------
(***************************************************************************)
(* What refreshes that follow one another come to, without pages, hashes,  *)
(* skips or deaths: a document only ever gets newer, with a content that   *)
(* was fetched since the last refresh began, and a feed is reported once   *)
(* all its documents are stored as fetched. FeedRefresh is shown to        *)
(* implement it.                                                           *)
(***************************************************************************)
EXTENDS Naturals

CONSTANTS
    Doc,
    Feed,
    Members    \* the documents of each feed

VARIABLES
    upstream,  \* the version of each record now
    stored,    \* the version each document has
    fetched,   \* what the last refresh fetched
    reported   \* the feeds it reported as done

vars == <<upstream, stored, fetched, reported>>

Nothing == [d \in Doc |-> 0]

Init ==
    /\ upstream = [d \in Doc |-> 1]
    /\ stored = Nothing /\ fetched = Nothing /\ reported = {}

Change(d) ==
    /\ upstream' = [upstream EXCEPT ![d] = @ + 1]
    /\ UNCHANGED <<stored, fetched, reported>>

Begin ==
    /\ fetched' = Nothing /\ reported' = {}
    /\ UNCHANGED <<upstream, stored>>

\* Some documents of a feed that is not reported yet.
Fetch(f) ==
    /\ f \notin reported
    /\ \E page \in SUBSET Members[f] :
         fetched' = [d \in Doc |-> IF d \in page THEN upstream[d] ELSE fetched[d]]
    /\ UNCHANGED <<upstream, stored, reported>>

Write(d) ==
    /\ stored[d] < fetched[d]
    /\ stored' = [stored EXCEPT ![d] = fetched[d]]
    /\ UNCHANGED <<upstream, fetched, reported>>

Report(f) ==
    /\ \A d \in Members[f] : fetched[d] # 0 /\ stored[d] = fetched[d]
    /\ reported' = reported \cup {f}
    /\ UNCHANGED <<upstream, stored, fetched>>

Next ==
    \/ Begin
    \/ \E d \in Doc : Change(d) \/ Write(d)
    \/ \E f \in Feed : Fetch(f) \/ Report(f)

Spec == Init /\ [][Next]_vars
=============================================================================
