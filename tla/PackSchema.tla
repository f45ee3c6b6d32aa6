----------------------------- MODULE PackSchema -----------------------------
(***************************************************************************)
(* src/lib/context/pack-loader.ts and pack-schema.ts: the ontology file of *)
(* a pack is read twice, by the reasoner of Mode 2 and by the page that    *)
(* shows the schema; and describe_schema (CoaProvider, /api/schema), whose *)
(* classes the page compares with the pack's.                              *)
(*                                                                         *)
(* A statement of the file is a triple; an IRI is its local name but for   *)
(* the ontology's, which ends in a slash. "_:b" is a blank node.           *)
(***************************************************************************)
EXTENDS Integers, SequencesExt, FiniteSets

CONSTANTS MaxQuads, MaxLive   \* bounds on the statements, and on the live rows

ASSUME SchemaAssumption == MaxQuads \in Nat /\ MaxLive \in Nat

VARIABLES
    quads,    \* the statements of ontology.ttl, in their order
    loaded,   \* the vertical for which the pack was first loaded
    live      \* the class rows of describe_schema

schemaVars == <<quads, loaded, live>>

localName(iri) == IF iri = "packs/" THEN "empty" ELSE iri   \* ""

Quad ==
    [s : {"Line", "Feeder", "GovernedMetric"}, p : {"type"}, o : {"Class"}]
      \cup [s : {"packs/"}, p : {"type"}, o : {"Ontology", "Class"}]
      \cup [s : {"Line"}, p : {"subClassOf"}, o : {"Feeder", "_:b"}]
      \cup [s : {"feeds"}, p : {"type"}, o : {"ObjectProperty", "TransitiveProperty"}]
      \cup [s : {"feeds"}, p : {"domain"}, o : {"Line", "Feeder"}]

\* A class of the pack may be a metric in COA, and the pack may declare the
\* class of the metrics.
LiveRow ==
    [id : {"Line", "load"}, subClassOf : {"none", "GovernedMetric"}]
      \cup [id : {"Bus", "GovernedMetric"}, subClassOf : {"none"}]

SchemaInit == quads = <<>> /\ loaded = "no" /\ live = <<>>

WriteOntology ==
    /\ loaded = "no" /\ Len(quads) < MaxQuads
    /\ \E q \in Quad : quads' = Append(quads, q)
    /\ UNCHANGED <<loaded, live>>

\* Two verticals share the pack; the caches of both readings are keyed by it.
LoadPack ==
    /\ \E vertical \in {"otsec", "cyber"} :
         loaded' = IF loaded = "no" THEN vertical ELSE loaded
    /\ UNCHANGED <<quads, live>>

Register ==
    /\ loaded # "no" /\ Len(live) < MaxLive
    /\ \E row \in LiveRow : live' = Append(live, row)
    /\ UNCHANGED <<quads, loaded>>

SchemaNext == WriteOntology \/ LoadPack \/ Register

-----------------------------------------------------------------------------
(* The two readings of the file *)

Subjects(type) == {q.s : q \in {q \in ToSet(quads) : q.p = "type" /\ q.o = type}}

\* pack-loader.ts: the last value wins, a blank node is a parent as any other,
\* and the ontology is a class if it says so.
LastValue(s, p) ==
    LET i == SelectLastInSeq(quads, LAMBDA q : q.s = s /\ q.p = p)
    IN IF i = 0 THEN "none" ELSE quads[i].o

parseOntology ==
    [vertical |-> loaded,
     classes |-> {[id |-> localName(iri), subClassOf |-> LastValue(iri, "subClassOf")] :
                    iri \in Subjects("Class")},
     properties |-> {[id |-> iri, domain |-> LastValue(iri, "domain"),
                      transitive |-> iri \in Subjects("TransitiveProperty")] :
                       iri \in Subjects("ObjectProperty")}]

\* pack-schema.ts: the first value wins, and a parent has a name.
FirstValue(s, p) ==
    LET i == SelectInSeq(quads, LAMBDA q : /\ q.s = s /\ q.p = p
                                           /\ p = "subClassOf" => q.o # "_:b")
    IN IF i = 0 THEN "none" ELSE quads[i].o

\* Mutant: a class is not asked whether it is the ontology.
PackClasses_Ontology ==
    {[id |-> localName(iri), subClassOf |-> FirstValue(iri, "subClassOf")] :
        iri \in Subjects("Class")}

PackClasses ==
    {[id |-> localName(iri), subClassOf |-> FirstValue(iri, "subClassOf")] :
        iri \in {iri \in Subjects("Class") \ Subjects("Ontology") : localName(iri) # "empty"}}

loadPackLevel ==
    [classes |-> PackClasses,
     relationships |-> {[id |-> iri, domain |-> FirstValue(iri, "domain"),
                         transitive |-> iri \in Subjects("TransitiveProperty")] :
                          iri \in Subjects("ObjectProperty")}]

-----------------------------------------------------------------------------
(* The live schema *)

\* The first row of an id stands for it.
LiveClass(id) == live[SelectInSeq(live, LAMBDA row : row.id = id)]

classifyLiveClasses ==
    LET unique == {row.id : row \in ToSet(live)}
        pack == {c.id : c \in loadPackLevel.classes}
        metric == {id \in unique : "GovernedMetric" \in {id, LiveClass(id).subClassOf}}
    IN [raw |-> Len(live), unique |-> unique,
        present |-> pack \cap unique, missing |-> pack \ unique,
        metric |-> metric, other |-> unique \ (pack \cup metric)]

-----------------------------------------------------------------------------
(* Property *)

\* Where every annotation has one value and every parent a name.
Plain ==
    /\ \A i, j \in DOMAIN quads :
         /\ quads[i].s = quads[j].s /\ quads[i].p = quads[j].p
         /\ quads[i].p # "type"
         => quads[i].o = quads[j].o
    /\ \A q \in ToSet(quads) : q.o # "_:b"

\* The page explains the count of live classes as a sum: each of them is of the
\* pack, of the metric vocabulary or another, in whatever order and however often
\* COA repeats it, and the sum is too large by the classes that are both, for
\* they are counted twice (classifyLiveClasses). The pack it compares them with
\* is the one Mode 2 reasons over, but for the ontology itself (the headers of
\* both files).
SchemaIsExplained ==
    LET split == classifyLiveClasses IN
    /\ Cardinality(split.present) + Cardinality(split.metric) + Cardinality(split.other) =
         Cardinality(split.unique) + Cardinality(split.present \cap split.metric)
    /\ Cardinality(split.present) + Cardinality(split.missing) =
         Cardinality(loadPackLevel.classes)
    /\ Plain => /\ loadPackLevel.classes = {c \in parseOntology.classes : c.id # "empty"}
                /\ loadPackLevel.relationships = parseOntology.properties
=============================================================================
