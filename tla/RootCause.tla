----------------------------- MODULE RootCause -----------------------------
(***************************************************************************)
(* src/lib/context/root-cause.ts: the culprit that the answers of Modes 1  *)
(* and 2 name, among the good lots, suppliers and orders of a subgraph, as *)
(* the subgraph is collected.                                              *)
(*                                                                         *)
(* Nodes and edges are sequences, their order decides ties. The regular    *)
(* expressions over a node's properties are the signals it shows.          *)
(***************************************************************************)
EXTENDS Integers, SequencesExt, FiniteSetsExt

CONSTANTS MaxMembers, MaxLinks   \* bounds on the nodes and edges of a subgraph

ASSUME SubgraphAssumption == MaxMembers \in Nat /\ MaxLinks \in Nat

VARIABLES
    members,   \* the nodes of the subgraph
    links      \* its edges

causeVars == <<members, links>>

Candidate(ids, type, signals) == [id : ids, type : {type}, signals : signals]

\* Two of every type that a node can be taken for another of, and a declared cause.
Candidates ==
    Candidate({"l1", "l2"}, "ComponentLot", {{}, {"quarantine"}, {"fail"}})
      \cup Candidate({"s1", "s2"}, "Supplier", {{}, {"notRequalified"}})
      \cup Candidate({"p1", "p2"}, "PurchaseOrder", {{}})
      \cup Candidate({"r1"}, "RootCause", {{}})

JoinedBy == [Supplier |-> "SUPPLIED_BY", PurchaseOrder |-> "SOURCED_VIA",
             RootCause |-> "ROOT_CAUSED_BY"]

CauseInit == members = <<>> /\ links = <<>>

AddMember ==
    /\ Len(members) < MaxMembers
    /\ \E n \in Candidates :
         /\ n.id \notin {m.id : m \in ToSet(members)}
         /\ members' = Append(members, n)
    /\ UNCHANGED links

\* A subgraph holds no edge twice, and its edges point either way.
AddLink ==
    /\ Len(links) < MaxLinks
    /\ \E a, b \in ToSet(members) :
         /\ a.type = "ComponentLot" /\ b.type \in DOMAIN JoinedBy
         /\ \E e \in {[source |-> a.id, relation |-> JoinedBy[b.type], target |-> b.id],
                       [source |-> b.id, relation |-> JoinedBy[b.type], target |-> a.id]} :
              e \notin ToSet(links) /\ links' = Append(links, e)
    /\ UNCHANGED members

CauseNext == AddMember \/ AddLink

-----------------------------------------------------------------------------

Weight == [fail |-> 5, conditional |-> 4, notRequalified |-> 4, quarantine |-> 2,
           lowCapacity |-> 3]

failureScore(node) == MapThenSumSet(LAMBDA signal : Weight[signal], node.signals)

Nothing == [id |-> "none", type |-> "none", signals |-> {}]   \* undefined

\* The one of these nodes that the subgraph lists first, or Nothing.
FirstOf(nodes) ==
    LET i == SelectInSeq(members, LAMBDA n : n \in nodes)
    IN IF i = 0 THEN Nothing ELSE members[i]

\* a ?? b
Else(a, b) == IF a = Nothing THEN b ELSE a

\* The node of the type with the strongest signals, the first of equals;
\* Nothing if none shows any.
bestOfType(type) ==
    FirstOf({n \in ToSet(members) :
        /\ n.type = type /\ n.signals # {}
        /\ \A m \in ToSet(members) : m.type = type => failureScore(m) <= failureScore(n)})

\* Mutant: the edge is not asked whether it is one of the start node.
followFrom_AnyEdge(start, relation, type) ==
    FirstOf({n \in ToSet(members) :
        n.type = type /\ \E e \in ToSet(links) : e.relation = relation /\ n.id \in {e.source, e.target}})

\* The node at the other end of the first edge, in either direction, that leads
\* to one of the type.
followFrom(start, relation, type) ==
    LET other(e) == IF e.source = start THEN e.target ELSE e.source
        node(e) == FirstOf({n \in ToSet(members) : n.id = other(e)})
        i == SelectInSeq(links, LAMBDA e : /\ e.relation = relation
                                           /\ start \in {e.source, e.target}
                                           /\ node(e).type = type)
    IN IF i = 0 THEN Nothing ELSE node(links[i])

\* The offending lot, what an edge of it leads to, and the first of a type.
worstLot == bestOfType("ComponentLot")
linkedToLot(type) ==
    IF worstLot = Nothing THEN Nothing ELSE followFrom(worstLot.id, JoinedBy[type], type)
firstOfType(type) == FirstOf({n \in ToSet(members) : n.type = type})

\* Supplier, purchase order, lot and root cause, as far as there are any. Those
\* that no edge of the lot leads to are the best, then the first, of their type.
rootCauseChain ==
    LET among(type) == Else(bestOfType(type), firstOfType(type))
        supplier == Else(linkedToLot("Supplier"), among("Supplier"))
        po == Else(linkedToLot("PurchaseOrder"), firstOfType("PurchaseOrder"))
        rootCause == Else(linkedToLot("RootCause"), among("RootCause"))
        present(n) == IF n = Nothing THEN <<>> ELSE <<n>>
    IN present(supplier) \o present(po) \o present(worstLot) \o present(rootCause)

-----------------------------------------------------------------------------
(* Property *)

\* Decoys are not named, in whatever order the subgraph lists its nodes: a lot is
\* named only for its signals and for being the worst, and what stands beside it
\* is what an edge joins to it, whenever an edge joins anything of that type to
\* it (the header of root-cause.ts).
NoDecoys ==
    LET chain == ToSet(rootCauseChain) IN
    \A lot \in {n \in chain : n.type = "ComponentLot"} :
        /\ lot.signals # {}
        /\ \A n \in ToSet(members) :
             n.type = "ComponentLot" => failureScore(n) <= failureScore(lot)
        /\ \A named \in chain \ {lot} :
             LET joined == {n \in ToSet(members) :
                              /\ n.type = named.type
                              /\ \E e \in ToSet(links) :
                                   /\ e.relation = JoinedBy[named.type]
                                   /\ {n.id, lot.id} = {e.source, e.target}}
             IN joined # {} => named \in joined
=============================================================================
