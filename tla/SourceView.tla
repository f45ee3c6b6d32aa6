----------------------------- MODULE SourceView -----------------------------
(***************************************************************************)
(* What the console shows of a vertical's sources: the seed files in Modes *)
(* 1 and 2, COA's records in Live COA (src/lib/coa-sources.ts and          *)
(* coa-source-shape.ts), and the events derived from either: one response  *)
(* of /api/sources, by which the sources page, the bell and the audit tab  *)
(* go, each by its own. How COA's records are fetched is the subject of    *)
(* SourcesCache.                                                           *)
(***************************************************************************)
EXTENDS Integers, SequencesExt

CONSTANTS
    MaxDocuments, MaxSources,  \* bounds on the seed and on what is registered
    MaxStamp,                  \* bound on times
    EventLimit                 \* SEED_EVENT_LIMIT and the limit of liveSourceEvents

\* Both limits of the events are 10.
ASSUME SourceViewAssumption ==
    /\ {MaxDocuments, MaxSources, MaxStamp} \subseteq Nat
    /\ EventLimit \in Nat \ {0}

VARIABLES
    documents,   \* documents.json
    sources      \* COA's records: what the list says of a source, and its detail

viewVars == <<documents, sources>>

Absent == -1

SeedDocument ==
    [source : {"", "advisories"}, chunks : {Absent, 1}, ingested : {Absent} \cup 1 .. MaxStamp]

Record ==
    [item : {[created |-> s, updated |-> s] : s \in {Absent, 1}},
     detail : [created : {Absent, 0, 1, 2}, updated : {Absent, 1, 2}],
     lastScan : {Absent, 2}]

\* A response reads one of the two, so only one of them is filled.
ViewInit == documents = <<>> /\ sources = <<>>

WriteDocument ==
    /\ sources = <<>> /\ Len(documents) < MaxDocuments
    /\ \E d \in SeedDocument : documents' = Append(documents, d)
    /\ UNCHANGED sources

RegisterSource ==
    /\ documents = <<>> /\ Len(sources) < MaxSources
    /\ \E r \in Record : sources' = Append(sources, r)
    /\ UNCHANGED documents

ViewNext == WriteDocument \/ RegisterSource

-----------------------------------------------------------------------------

\* a ?? b
OrElse(a, b) == IF a = Absent THEN b ELSE a

toIso(seconds) == IF seconds > 0 THEN seconds ELSE Absent

Event(of, kind, at) == [of |-> of, kind |-> kind, at |-> at]

\* Mutant: the first ones are taken, then sorted.
Newest_OfFirst(events, limit) ==
    LET few == SubSeq(events, 1, Min({limit, Len(events)}))
        newer(a, b) == few[a].at > few[b].at \/ (few[a].at = few[b].at /\ a < b)
        place(k) == 1 + Cardinality({j \in DOMAIN few : newer(j, k)})
    IN [p \in DOMAIN few |-> few[CHOOSE k \in DOMAIN few : place(k) = p]]

\* Sorted by time, the newest first, and cut.
Newest(events, limit) ==
    LET newer(a, b) == events[a].at > events[b].at \/ (events[a].at = events[b].at /\ a < b)
        place(k) == 1 + Cardinality({j \in DOMAIN events : newer(j, k)})
    IN [p \in 1 .. Min({limit, Len(events)}) |->
          events[CHOOSE k \in DOMAIN events : place(k) = p]]

\* The detail counts, then the list.
sanitizeSource(r) ==
    [createdAt |-> toIso(OrElse(r.detail.created, r.item.created)),
     updatedAt |-> toIso(OrElse(r.detail.updated, r.item.updated)),
     lastScanAt |-> toIso(r.lastScan)]

Push(events, e, condition) == IF condition THEN Append(events, e) ELSE events

\* One pass of the loop over the sources.
WithSource(events, of, s) ==
    LET registered == Push(events, Event(of, "source-registered", s.createdAt),
                           s.createdAt # Absent)
        scanned == Push(registered, Event(of, "source-scanned", s.lastScanAt),
                        s.lastScanAt # Absent)
    IN Push(scanned, Event(of, "source-updated", s.updatedAt),
            s.updatedAt # Absent /\ s.updatedAt # s.createdAt)

LiveEvents(summaries) ==
    LET pass[k \in 0 .. Len(summaries)] ==
          IF k = 0 THEN <<>> ELSE WithSource(pass[k - 1], k, summaries[k])
    IN pass[Len(summaries)]

\* Every source, and the newest of all their events.
liveResponse ==
    LET summaries == [k \in 1 .. Len(sources) |-> sanitizeSource(sources[k])]
    IN [origin |-> "coa-live", sources |-> summaries,
        events |-> Newest(LiveEvents(summaries), EventLimit)]

Label(d) == IF d.source = "" THEN "Unlabelled" ELSE d.source

Chunks(d) == IF d.chunks = Absent THEN 0 ELSE d.chunks

NoGroup == [docs |-> 0, chunks |-> 0, latestIngested |-> Absent]

\* One pass of the loop over the documents: the group of its label, the total of the
\* chunks, and the event if it has a date.
WithDocument(seen, d) ==
    LET g == IF Label(d) \in DOMAIN seen.groups THEN seen.groups[Label(d)] ELSE NoGroup
        counted == [docs |-> g.docs + 1, chunks |-> g.chunks + Chunks(d),
                    latestIngested |-> IF d.ingested > g.latestIngested THEN d.ingested
                                       ELSE g.latestIngested]
    IN [groups |-> [label \in DOMAIN seen.groups \cup {Label(d)} |->
                      IF label = Label(d) THEN counted ELSE seen.groups[label]],
        chunks |-> seen.chunks + Chunks(d),
        events |-> Push(seen.events, Event(Label(d), "seed-ingested", d.ingested),
                        d.ingested # Absent)]

Seen ==
    LET pass[k \in 0 .. Len(documents)] ==
          IF k = 0 THEN [groups |-> <<>>, chunks |-> 0, events |-> <<>>]
          ELSE WithDocument(pass[k - 1], documents[k])
    IN pass[Len(documents)]

\* The groups, the totals, and the newest events.
getSeedSources ==
    [origin |-> "demo-seed", groups |-> Seen.groups, documents |-> Len(documents),
     chunks |-> Seen.chunks, events |-> Newest(Seen.events, EventLimit)]

\* In Live COA a vertical without a namespace has neither sources nor events.
getVerticalSources(mode, configured) ==
    IF mode # "coa" THEN getSeedSources
    ELSE IF configured THEN liveResponse
    ELSE [origin |-> "coa-not-configured", events |-> <<>>]

\* What the sources page lists.
ListedNames(response) ==
    CASE response.origin = "demo-seed"          -> DOMAIN response.groups
      [] response.origin = "coa-live"           -> DOMAIN response.sources
      [] response.origin = "coa-not-configured" -> {}

-----------------------------------------------------------------------------
(* Property *)

InAll(count) == MapThenSumSet(LAMBDA g : count[g], DOMAIN count)

\* The events are of what is listed, the newest first.
EventsAreListed(response) ==
    LET events == response.events
    IN /\ \A k \in DOMAIN events : events[k].of \in ListedNames(response)
       /\ \A a, b \in DOMAIN events : a < b => events[a].at >= events[b].at

\* The groups of the seed add up, and the newest one is of the newest event.
GroupsAddUp(response) ==
    LET groups == response.groups
        latest == {groups[g].latestIngested : g \in DOMAIN groups}
    IN /\ InAll([g \in DOMAIN groups |-> groups[g].docs]) = response.documents
       /\ InAll([g \in DOMAIN groups |-> groups[g].chunks]) = response.chunks
       /\ response.events # <<>> => response.events[1].at = Max(latest)
       /\ response.events = <<>> => latest \subseteq {Absent}

\* An event of the k-th source is shown, or it is older than all that are.
IsTold(events, k, kind, at) ==
    \/ Event(k, kind, at) \in ToSet(events)
    \/ Len(events) = EventLimit /\ events[EventLimit].at >= at

\* A source has its events: no update is one that is its registration.
SourcesAreTold(response) ==
    \A k \in DOMAIN response.sources :
        LET s == response.sources[k]
        IN /\ \/ s.createdAt = Absent
              \/ IsTold(response.events, k, "source-registered", s.createdAt)
           /\ \/ s.lastScanAt = Absent
              \/ IsTold(response.events, k, "source-scanned", s.lastScanAt)
           /\ \/ s.updatedAt \in {Absent, s.createdAt}
              \/ IsTold(response.events, k, "source-updated", s.updatedAt)

\* A response adds up in every mode: an event is of a source that it lists, none is
\* newer than the first one and none left out is newer than the last, the groups of
\* the seed add up to its totals, the newest of the groups is the newest event, and
\* what a source's times tell (registered, scanned, updated) is among the events or
\* older than all of them (getSeedSources, liveSourceEvents).
SourcesAddUp ==
    \A mode \in {"mock", "coa"}, configured \in BOOLEAN :
        LET response == getVerticalSources(mode, configured)
        IN /\ EventsAreListed(response)
           /\ response.origin = "demo-seed" => GroupsAddUp(response)
           /\ response.origin = "coa-live" => SourcesAreTold(response)
=============================================================================
