----------------------------- MODULE LocalGraph -----------------------------
(***************************************************************************)
(* One vertical of the local store (src/lib/db/queries.ts) as it is        *)
(* filled, and what the providers of Modes 1 and 2 read from it. An insert *)
(* never replaces an edge, so the rows of the edges are a bag.             *)
(***************************************************************************)
EXTENDS Integers, Sequences, FiniteSets, Bags

CONSTANTS
    Id,          \* ids of nodes
    Relation,
    Transitive,  \* the relation that is the pack's transitive property
    MaxRows,     \* bound on the rows of edges
    Hops         \* bound on the hops of a traversal

ASSUME GraphAssumption ==
    Transitive \in Relation /\ MaxRows \in Nat /\ Hops \in Nat

VARIABLES
    nodes,   \* ids of the stored nodes
    rows     \* the stored edges

graphVars == <<nodes, rows>>

Edge == [source : Id, relation : Relation, target : Id]

Ends(edge) == {edge.source, edge.target}

GraphInit == nodes = {} /\ rows = EmptyBag

upsertNode ==
    /\ \E id \in Id : nodes' = nodes \cup {id}
    /\ UNCHANGED rows

\* The ends of an edge need not be stored.
insertEdge ==
    /\ BagCardinality(rows) < MaxRows
    /\ \E edge \in Edge : rows' = rows (+) SetToBag({edge})
    /\ UNCHANGED nodes

\* The seed script empties the tables; what it then inserts is inserted as any other.
Seeding ==
    /\ nodes' = {} /\ rows' = EmptyBag

GraphNext == upsertNode \/ insertEdge \/ Seeding

-----------------------------------------------------------------------------
(* queries.ts *)

\* Mutant: an edge is followed from its source only.
Neighbor_Forward(edge, frontier) == edge.target

\* The other end of an edge that touches the frontier.
Neighbor(edge, frontier) ==
    IF edge.source \in frontier THEN edge.target ELSE edge.source

\* The rows that touch the frontier are collected, those back to the hop before
\* once more.
Hop(walk) ==
    LET touching == [e \in {e \in DOMAIN rows : Ends(e) \cap walk.frontier # {}} |-> rows[e]]
        next == {Neighbor(e, walk.frontier) : e \in DOMAIN touching}
    IN [visited |-> walk.visited \cup next,
        frontier |-> next \ walk.visited,
        edges |-> walk.edges (+) touching]

AtStart(start) == [visited |-> {start}, frontier |-> {start}, edges |-> EmptyBag]

\* Breadth first, in both directions.
Walk(start, maxHops) ==
    LET walk[hop \in 0 .. maxHops] ==
            IF hop = 0 THEN AtStart(start) ELSE Hop(walk[hop - 1])
    IN walk[maxHops]

traverseGraph(start, maxHops) ==
    LET walk == Walk(start, maxHops)
    IN [nodes |-> walk.visited \cap nodes, edges |-> walk.edges]

\* The rows of some edges, one by one.
Copies(edges) == UNION {{e} \X (1 .. rows[e]) : e \in edges}

getGraphStats ==
    [totalNodes |-> Cardinality(nodes), totalEdges |-> Cardinality(Copies(DOMAIN rows)),
     edgesByRelation |->
        [r \in Relation |-> Cardinality(Copies({e \in DOMAIN rows : e.relation = r}))]]

-----------------------------------------------------------------------------
(* The providers of Modes 1 and 2 *)

\* LocalMockProvider.query: the walks of the entry nodes together, every node
\* and every (source, relation, target) once.
Subgraph(entryNodes) ==
    LET walks == {traverseGraph(n, Hops) : n \in entryNodes}
    IN [nodes |-> UNION {w.nodes : w \in walks},
        edges |-> UNION {DOMAIN w.edges : w \in walks}]

\* LocalMockProvider.computeMetric: the nodes of the walk but one.
MockRadius(node, maxHops) ==
    LET reached == Cardinality(traverseGraph(node, maxHops).nodes)
    IN IF reached = 0 THEN 0 ELSE reached - 1

\* What the summary of a subgraph says is reached: all of it, without the first
\* entry that is part of it.
SummaryReaches(entryNodes) ==
    LET reached == Subgraph(entryNodes).nodes
    IN Cardinality(reached) - (IF entryNodes \cap reached = {} THEN 0 ELSE 1)

\* The edges that carry the property, of which there may be none.
Matching == {e \in DOMAIN rows : e.relation = Transitive}

\* The edges the closure follows: all of them when none carries the property.
Adjacent == IF Matching = {} THEN DOMAIN rows ELSE Matching

\* What is one edge away from what is visited; the start is not visited again.
Targets(start, visited) ==
    {e.target : e \in {e \in Adjacent : e.source \in visited \cup {start}}} \ {start}

\* The order in which the stack is taken off does not matter to what is visited.
transitiveClosure(start) ==
    LET close[visited \in SUBSET Id] ==
            IF Targets(start, visited) \subseteq visited THEN visited
            ELSE close[visited \cup Targets(start, visited)]
    IN close[{}]

\* LocalOntologyProvider.computeMetric: a metric about a node, or any other.
OntologyMetric(name, node) ==
    IF name \in {"blast_radius_score", "safety_critical_exposure"}
    THEN Cardinality(transitiveClosure(node))
    ELSE Cardinality({e.target : e \in DOMAIN rows})

-----------------------------------------------------------------------------
(* Property *)

Joined(a, b) == \E e \in DOMAIN rows : Ends(e) = {a, b}

\* There is a path of at most n edges, in either direction.
Within(start, node, n) ==
    \/ start = node /\ n >= 0
    \/ \E k \in 1 .. n : \E middle \in [1 .. k - 1 -> Id] :
         LET path == [i \in 0 .. k |-> IF i = 0 THEN start
                                       ELSE IF i = k THEN node ELSE middle[i]]
         IN \A i \in 1 .. k : Joined(path[i - 1], path[i])

\* What follows from some edges: the other nodes of every set that start is in and
\* the edges do not leave.
Derived(start, edges) ==
    LET closed == {s \in SUBSET Id :
                     start \in s /\ \A e \in edges : e.source \in s => e.target \in s}
    IN {n \in Id \ {start} : \A s \in closed : n \in s}

\* Mode 2 counts what follows from the transitive property where some edge carries
\* it. Where none does, it counts what follows from all edges together, though the
\* note of the answer and docs/TESTING_MODES.md name the property.
ReachIsDerived(start) ==
    LET reach == OntologyMetric("blast_radius_score", start)
        ofProperty == {e \in DOMAIN rows : e.relation = Transitive}
    IN /\ ofProperty # {} => reach = Cardinality(Derived(start, ofProperty))
       /\ ofProperty = {} => reach = Cardinality(Derived(start, DOMAIN rows))

\* What is found from one node.
FoundFrom(start) ==
    LET derived == Derived(start, DOMAIN rows)
        stored == {n \in nodes : Within(start, n, Hops)}
        all == {start} \cup UNION {Ends(e) : e \in DOMAIN rows}
    IN /\ \A hops \in 0 .. Hops :
            LET walk == traverseGraph(start, hops)
                near == {e \in DOMAIN rows : \E n \in Ends(e) : Within(start, n, hops - 1)}
            IN /\ walk.nodes = {n \in nodes : Within(start, n, hops)}
               /\ DOMAIN walk.edges = near
               /\ \A e \in near : walk.edges[e] \in {rows[e], 2 * rows[e]}
       /\ Subgraph({start}).nodes = stored
       /\ SummaryReaches({start}) = Cardinality(stored \ {start})
       /\ start \in nodes => MockRadius(start, Hops) = SummaryReaches({start})
       /\ ReachIsDerived(start)
       /\ Cardinality(all) <= Hops + 1 => derived \cap nodes \subseteq stored

\* The edges that the statistics count are those of the subgraphs and their copies, of
\* each relation and in all.
StatisticsCountCopies ==
    LET stats == getGraphStats
        shown == Subgraph(Id).edges
        ofRelation(r) == {e \in shown : e.relation = r}
    IN Hops > 0 =>
         /\ stats.totalEdges = Cardinality(shown) <=> \A e \in shown : rows[e] = 1
         /\ \A r \in Relation :
              stats.edgesByRelation[r] = Cardinality(ofRelation(r))
                <=> \A e \in ofRelation(r) : rows[e] = 1
         /\ shown = DOMAIN rows

\* A walk returns the stored nodes within its hops, and the rows with an end
\* nearer than that, none more than twice. The subgraph of a question is such a
\* walk without repetitions, and Mode 1's radius and its summary count the other
\* nodes in it. What Mode 2 reaches from a node is what follows from the edges of
\* the transitive property or, where there are none, from all edges; either way it
\* is part of a subgraph that is deep enough. The statistics count what the
\* subgraphs show and its copies (traverseGraph, summarizeSubgraph,
\* transitiveClosure, getGraphStats).
AnswersAreReachable == (\A start \in Id : FoundFrom(start)) /\ StatisticsCountCopies
=============================================================================
