-------------------------- MODULE LocalStoreProofs --------------------------
(***************************************************************************)
(* What the extraction pipeline and the sync of public sources leave in    *)
(* the local store, for any callers, verticals, documents, entities and    *)
(* texts, and for any requests, keywords, CVEs and MITRE bundles.          *)
(***************************************************************************)
EXTENDS Extraction, GraphSync, TLAPS

-----------------------------------------------------------------------------
(* The extraction pipeline *)

TypeOK ==
    /\ nodes \in [Vertical -> SUBSET Entity]
    /\ docs \subseteq [vertical : Vertical, doc : Doc, entities : SUBSET Entity]
    /\ todo \in [Caller -> Seq([doc : Doc \ UploadDoc, text : Text])]
    /\ job \in [Caller -> Job]
    /\ found \in [Caller -> [entities : SUBSET Entity, relations : SUBSET (Entity \X Entity)]]

\* What a caller takes from its bucket is a file of the bucket.
LEMMA FirstAndRest ==
    ASSUME NEW S, NEW s \in Seq(S), s # <<>>
    PROVE  Head(s) \in S /\ Tail(s) \in Seq(S)
OBVIOUS

\* A document is one of a file or of an upload, its job is of its vertical.
LEMMA BeginTypes ==
    ASSUME TypeOK, NEW c \in Caller, NEW j \in Job, Begin(c, j)
    PROVE  job' \in [Caller -> Job]
BY DEF Begin, TypeOK

\* A caller that has not begun has some job.
LEMMA TypeInit == Init => TypeOK
<1> SUFFICES ASSUME Init PROVE TypeOK
  OBVIOUS
<1>1. SomeJob \in Job
  <2>1. PICK v \in Vertical, d \in Doc, t \in Text : TRUE
    BY ExtractionAssumption
  <2>2. [vertical |-> v, doc |-> d, text |-> t] \in Job
    BY DEF Job
  <2>3. QED
    BY <2>2 DEF SomeJob
<1>2. Nothing \in [entities : SUBSET Entity, relations : SUBSET (Entity \X Entity)]
  BY DEF Nothing
<1>3. QED
  BY <1>1, <1>2 DEF Init, TypeOK

\* What was extracted, and every step before it is stored, has its type.
LEMMA TypeStep == TypeOK /\ [Next]_vars => TypeOK'
<1> SUFFICES ASSUME TypeOK, [Next]_vars PROVE TypeOK'
  OBVIOUS
<1> USE DEF storeVars
<1>0. Job' = Job
  BY DEF Job
<1>1. ASSUME NEW c \in Caller, Upload(c) PROVE TypeOK'
  <2>1. PICK j \in Job : Begin(c, j)
    BY <1>1 DEF Upload
  <2>2. UNCHANGED <<nodes, docs, todo, found>>
    BY <1>1 DEF Upload
  <2>3. QED
    BY <1>0, <2>1, <2>2, BeginTypes DEF TypeOK
<1>2. ASSUME NEW c \in Caller, IngestBucket(c) PROVE TypeOK'
  <2>1. PICK files \in Batch : todo' = [todo EXCEPT ![c] = files]
    BY <1>2 DEF IngestBucket
  <2>2. PICK v \in Vertical : job' = [job EXCEPT ![c].vertical = v]
    BY <1>2 DEF IngestBucket
  <2>3. files \in Seq([doc : Doc \ UploadDoc, text : Text])
    BY ExtractionAssumption
  <2>4. job' \in [Caller -> Job]
    <3>1. job[c] \in Job
      BY DEF TypeOK
    <3>2. [job[c] EXCEPT !.vertical = v] \in Job
      BY <3>1 DEF Job
    <3>3. QED
      BY <2>2, <3>2 DEF TypeOK
  <2>5. UNCHANGED <<nodes, docs, found>>
    BY <1>2 DEF IngestBucket
  <2>6. QED
    BY <1>0, <2>1, <2>3, <2>4, <2>5 DEF TypeOK
<1>3. ASSUME NEW c \in Caller, NextFile(c) PROVE TypeOK'
  <2> DEFINE file == Head(todo[c])
             j == [vertical |-> job[c].vertical, doc |-> file.doc, text |-> file.text]
  <2>1. todo[c] \in Seq([doc : Doc \ UploadDoc, text : Text]) /\ todo[c] # <<>>
    BY <1>3 DEF NextFile, TypeOK
  <2>2. /\ file \in [doc : Doc \ UploadDoc, text : Text]
        /\ Tail(todo[c]) \in Seq([doc : Doc \ UploadDoc, text : Text])
    BY <2>1, FirstAndRest, Zenon
  <2>3. job[c].vertical \in Vertical
    BY DEF TypeOK, Job
  <2>4. j \in Job
    BY <2>2, <2>3 DEF Job
  <2>5. Begin(c, j) /\ UNCHANGED <<nodes, docs, found>>
    BY <1>3 DEF NextFile
  <2>6. todo' \in [Caller -> Seq([doc : Doc \ UploadDoc, text : Text])]
    <3>1. todo' = [todo EXCEPT ![c] = Tail(todo[c])]
      BY <1>3 DEF NextFile
    <3>2. QED
      BY <2>2, <3>1 DEF TypeOK
  <2>7. QED
    BY <1>0, <2>4, <2>5, <2>6, BeginTypes DEF TypeOK
<1>4. ASSUME NEW c \in Caller, SkipFile(c) PROVE TypeOK'
  <2>1. todo[c] \in Seq([doc : Doc \ UploadDoc, text : Text]) /\ todo[c] # <<>>
    BY <1>4 DEF SkipFile, TypeOK
  <2>2. todo' \in [Caller -> Seq([doc : Doc \ UploadDoc, text : Text])]
    <3>1. todo' = [todo EXCEPT ![c] = Tail(todo[c])]
      BY <1>4 DEF SkipFile
    <3>2. Tail(todo[c]) \in Seq([doc : Doc \ UploadDoc, text : Text])
      BY <2>1, FirstAndRest, Zenon
    <3>3. QED
      BY <3>1, <3>2 DEF TypeOK
  <2>3. UNCHANGED <<nodes, docs, job, found>>
    BY <1>4 DEF SkipFile
  <2>4. QED
    BY <1>0, <2>2, <2>3 DEF TypeOK
<1>5. ASSUME NEW c \in Caller, Respond(c) PROVE TypeOK'
  <2>1. SomeJob \in Job
    BY DEF SomeJob, TypeOK
  <2>2. UNCHANGED <<nodes, docs, todo, found>> /\ job' = [job EXCEPT ![c] = SomeJob]
    BY <1>5 DEF Respond
  <2>3. QED
    BY <1>0, <2>1, <2>2 DEF TypeOK
<1>6. ASSUME NEW c \in Caller, CutChunk(c) PROVE TypeOK'
  BY <1>0, <1>6 DEF CutChunk, TypeOK
<1>7. ASSUME NEW c \in Caller, Extract(c) \/ ExtractFails(c) PROVE TypeOK'
  <2>1. \E answer \in [entities : SUBSET Entity, relations : SUBSET (Entity \X Entity)] :
          found' = [found EXCEPT ![c] = answer]
    <3>1. CASE Extract(c)
      <4>1. PICK answer \in Answers(job[c].text) : found' = [found EXCEPT ![c] = answer]
        BY <3>1 DEF Extract
      <4>2. job[c].text \in Text
        BY DEF TypeOK, Job
      <4>3. answer \in [entities : SUBSET Entity, relations : SUBSET (Entity \X Entity)]
        BY <4>1, <4>2, ExtractionAssumption DEF Answers
      <4>4. QED
        BY <4>1, <4>3
    <3>2. CASE ExtractFails(c)
      BY <3>2 DEF ExtractFails
    <3>3. QED
      BY <1>7, <3>1, <3>2
  <2>2. UNCHANGED <<nodes, docs, todo, job>>
    BY <1>7 DEF Extract, ExtractFails
  <2>3. QED
    BY <1>0, <2>1, <2>2 DEF TypeOK
<1>8. ASSUME NEW c \in Caller, Store(c) PROVE TypeOK'
  <2>1. PICK recorded \in BOOLEAN : \E stored \in SUBSET found[c].entities :
          /\ nodes' = [nodes EXCEPT ![job[c].vertical] = @ \cup stored]
          /\ docs' = IF recorded THEN WithRow(job[c], found[c].entities) ELSE docs
    BY <1>8 DEF Store
  <2>2. PICK stored \in SUBSET found[c].entities :
          nodes' = [nodes EXCEPT ![job[c].vertical] = @ \cup stored]
    BY <2>1
  <2>3. job[c] \in Job /\ found[c].entities \in SUBSET Entity
    BY DEF TypeOK
  <2>4. nodes' \in [Vertical -> SUBSET Entity]
    BY <2>2, <2>3 DEF TypeOK
  <2>5. docs' \subseteq [vertical : Vertical, doc : Doc, entities : SUBSET Entity]
    BY <2>1, <2>3 DEF TypeOK, WithRow, Job
  <2>6. /\ found' = [found EXCEPT ![c] = Nothing] /\ UNCHANGED <<todo, job>>
        /\ Nothing \in [entities : SUBSET Entity, relations : SUBSET (Entity \X Entity)]
    BY <1>8 DEF Store, Nothing
  <2>7. QED
    BY <1>0, <2>4, <2>5, <2>6 DEF TypeOK
<1>9. CASE UNCHANGED vars
  BY <1>0, <1>9 DEF vars, TypeOK
<1>10. QED
  BY <1>1, <1>2, <1>3, <1>4, <1>5, <1>6, <1>7, <1>8, <1>9 DEF Next, Pipeline

\* Only Store touches the store, and the account of the pipeline that stored last.
LEMMA StoreOnly ==
    ASSUME [Next]_vars
    PROVE  (\E c \in Caller : Store(c)) \/ UNCHANGED <<nodes, edges, chunks, docs, last>>
BY DEF Next, Pipeline, Upload, IngestBucket, NextFile, SkipFile, Respond, CutChunk, Extract,
       ExtractFails, storeVars, vars

\* What a Store leaves behind.
LEMMA StoreLeaves ==
    ASSUME TypeOK, NEW c \in Caller, Store(c)
    PROVE  /\ \A v \in Vertical : nodes[v] \subseteq nodes'[v]
           /\ \/ docs' = docs
              \/ /\ docs' = WithRow(job[c], found[c].entities)
                 /\ found[c].entities \subseteq nodes'[job[c].vertical]
           /\ last'.clean => /\ last'.job = job[c] /\ last'.entities = found[c].entities
                             /\ chunks' = WithChunk(job[c])
                             /\ docs' = WithRow(job[c], found[c].entities)
                             /\ found[c].entities \subseteq nodes'[job[c].vertical]
                             /\ last'.held = {k.vertical : k \in Rows(job[c].doc)}
<1>1. PICK chunked \in BOOLEAN, recorded \in BOOLEAN :
        \E stored \in SUBSET found[c].entities, tied \in SUBSET Kept(found[c]) :
            /\ InOrder(c, stored, tied, recorded)
            /\ chunks' = IF chunked THEN WithChunk(job[c]) ELSE chunks
            /\ nodes' = [nodes EXCEPT ![job[c].vertical] = @ \cup stored]
            /\ docs' = IF recorded THEN WithRow(job[c], found[c].entities) ELSE docs
            /\ last' = IF Reported(c, chunked, recorded)
                       THEN [job |-> job[c], entities |-> found[c].entities, clean |-> TRUE,
                             held |-> {k.vertical : k \in Rows(job[c].doc)}]
                       ELSE Unclean
  BY DEF Store
<1>2. PICK stored \in SUBSET found[c].entities :
        /\ recorded => stored = found[c].entities
        /\ nodes' = [nodes EXCEPT ![job[c].vertical] = @ \cup stored]
  BY <1>1 DEF InOrder
<1>3. job[c].vertical \in Vertical /\ nodes \in [Vertical -> SUBSET Entity]
  BY DEF TypeOK, Job
<1>4. \A v \in Vertical : nodes[v] \subseteq nodes'[v]
  BY <1>2, <1>3
<1>5. recorded => found[c].entities \subseteq nodes'[job[c].vertical]
  BY <1>2, <1>3
<1>6. last'.clean =>
        /\ chunked /\ recorded
        /\ last'.job = job[c] /\ last'.entities = found[c].entities
        /\ last'.held = {k.vertical : k \in Rows(job[c].doc)}
  <2>1. CASE Reported(c, chunked, recorded)
    BY <1>1, <2>1 DEF Reported
  <2>2. CASE ~Reported(c, chunked, recorded)
    BY <1>1, <2>2 DEF Unclean
  <2>3. QED
    BY <2>1, <2>2
<1>7. QED
  BY <1>1, <1>4, <1>5, <1>6

\* A row is written after its entities, and nodes are never removed.
LEMMA RecordedStep == TypeOK /\ RecordedEntitiesExist /\ [Next]_vars => RecordedEntitiesExist'
<1> SUFFICES ASSUME TypeOK, RecordedEntitiesExist, [Next]_vars, NEW d \in docs'
             PROVE  d.entities \subseteq nodes'[d.vertical]
  BY DEF RecordedEntitiesExist
<1>1. CASE UNCHANGED <<nodes, docs>>
  BY <1>1 DEF RecordedEntitiesExist
<1>2. ASSUME NEW c \in Caller, Store(c) PROVE d.entities \subseteq nodes'[d.vertical]
  <2>1. CASE d \in docs
    <3>1. d.vertical \in Vertical
      BY <2>1 DEF TypeOK
    <3>2. d.entities \subseteq nodes[d.vertical] /\ nodes[d.vertical] \subseteq nodes'[d.vertical]
      BY <1>2, <2>1, <3>1, StoreLeaves DEF RecordedEntitiesExist
    <3>3. QED
      BY <3>2
  <2>2. CASE d \notin docs
    <3>1. /\ docs' = WithRow(job[c], found[c].entities)
          /\ found[c].entities \subseteq nodes'[job[c].vertical]
      BY <1>2, <2>2, StoreLeaves
    <3>2. d.vertical = job[c].vertical /\ d.entities = found[c].entities
      BY <2>2, <3>1 DEF WithRow
    <3>3. QED
      BY <3>1, <3>2
  <2>3. QED
    BY <2>1, <2>2
<1>3. QED
  BY <1>1, <1>2, StoreOnly

\* The pipeline that stored last is the one that reports.
LEMMA CleanStep == TypeOK /\ CleanReportIsStored /\ [Next]_vars => CleanReportIsStored'
<1> SUFFICES ASSUME TypeOK, CleanReportIsStored, [Next]_vars PROVE CleanReportIsStored'
  OBVIOUS
<1>1. CASE UNCHANGED <<nodes, chunks, docs, last>>
  BY <1>1 DEF CleanReportIsStored, Rows
<1>2. ASSUME NEW c \in Caller, Store(c), last'.clean
      PROVE  /\ \E k \in chunks' :
                  /\ k.doc = last'.job.doc /\ k.text = last'.job.text
                  /\ k.vertical = last'.job.vertical \/ k.vertical \in last'.held
             /\ last'.entities \subseteq nodes'[last'.job.vertical]
             /\ [vertical |-> last'.job.vertical, doc |-> last'.job.doc,
                 entities |-> last'.entities] \in docs'
  <2>1. /\ last'.job = job[c] /\ last'.entities = found[c].entities
        /\ chunks' = WithChunk(job[c])
        /\ docs' = WithRow(job[c], found[c].entities)
        /\ found[c].entities \subseteq nodes'[job[c].vertical]
        /\ last'.held = {k.vertical : k \in Rows(job[c].doc)}
    BY <1>2, StoreLeaves
  <2>2. \E k \in WithChunk(job[c]) :
          /\ k.doc = job[c].doc /\ k.text = job[c].text
          /\ \/ k.vertical = job[c].vertical
             \/ k.vertical \in {q.vertical : q \in Rows(job[c].doc)}
    <3> DEFINE old == Rows(job[c].doc)
               of == IF old = {} THEN job[c].vertical ELSE (CHOOSE k \in old : TRUE).vertical
               row == [doc |-> job[c].doc, vertical |-> of, text |-> job[c].text]
    <3>1. row \in WithChunk(job[c])
      BY DEF WithChunk
    <3>2. row.doc = job[c].doc /\ row.text = job[c].text
      OBVIOUS
    <3>3. row.vertical = job[c].vertical \/ row.vertical \in {q.vertical : q \in old}
      <4>1. CASE old = {}
        BY <4>1
      <4>2. CASE old # {}
        <5>1. (CHOOSE k \in old : TRUE) \in old
          BY <4>2
        <5>2. QED
          BY <4>2, <5>1
      <4>3. QED
        BY <4>1, <4>2
    <3>4. QED
      BY <3>1, <3>2, <3>3
  <2>3. [vertical |-> job[c].vertical, doc |-> job[c].doc, entities |-> found[c].entities]
          \in WithRow(job[c], found[c].entities)
    BY DEF WithRow
  <2>4. QED
    BY <2>1, <2>2, <2>3
<1>3. QED
  BY <1>1, <1>2, StoreOnly DEF CleanReportIsStored, Rows

\* What a document row lists is in the graph, whatever failed half-way and whoever
\* else stored in between (runExtractionPipeline).
THEOREM RowsListWhatExists == Spec => []RecordedEntitiesExist
<1>1. Init => RecordedEntitiesExist
  BY DEF Init, RecordedEntitiesExist
<1>2. QED
  BY <1>1, TypeInit, TypeStep, RecordedStep, PTL DEF Spec

\* A pipeline that reports no error has stored its chunk, its entities and its row,
\* the chunk in its own vertical unless the document had one in another before
\* (runExtractionPipeline, the inserts of queries.ts).
THEOREM NoErrorMeansStored == Spec => []CleanReportIsStored
<1>1. Init => CleanReportIsStored
  BY DEF Init, CleanReportIsStored, Unclean
<1>2. QED
  BY <1>1, TypeInit, TypeStep, CleanStep, PTL DEF Spec

-----------------------------------------------------------------------------
(* The sync of public sources *)

\* The keyword at this place has been asked for, or given up.
Handled(r, i) ==
    \/ at[r] \in {"mitre", "storeMitre", "kev", "storeKev", "done"}
    \/ at[r] \in {"nvd", "storeNvd"} /\ i < keyword[r]

SyncTypes ==
    /\ catalogue \subseteq Cve
    /\ vulns \in [Cve -> SUBSET {"nvd", "kev", "other"}]
    /\ at \in [Request -> {"unused", "nvd", "storeNvd", "mitre", "storeMitre",
                           "kev", "storeKev", "done"}]
    /\ connector \in [Request -> Connector]
    /\ keyword \in [Request -> 1 .. Len(Keywords)]
    /\ DOMAIN got = Request /\ DOMAIN errors = Request
    /\ DOMAIN alone = Request /\ DOMAIN read = Request

\* What a request holds and has read is what it fetched at the place where it is.
Place(r) ==
    /\ at[r] = "unused" => keyword[r] = 1 /\ read[r] = {}
    /\ at[r] \in {"nvd", "storeNvd"} => connector[r] \in {"nvd", "all"} /\ read[r] = {}
    /\ at[r] = "storeNvd" => got[r] = Found[Keywords[keyword[r]]]
    /\ at[r] = "mitre" => read[r] = {}
    /\ at[r] = "storeMitre" => read[r] = got[r] /\ got[r] \subseteq StixObject
    /\ at[r] = "kev" => read[r] \subseteq StixObject
    /\ at[r] = "storeKev" => got[r] = read[r] \cap Cve

\* Each keyword handled so far is in the errors or in the graph.
Accounted(r) ==
    connector[r] \in {"nvd", "all"} =>
        \A i \in DOMAIN Keywords : Handled(r, i) =>
            \/ Keywords[i] \in errors[r]
            \/ \A n \in Found[Keywords[i]] : vulns[n] # {}

\* What a request that is alone and without errors has stored so far.
StoredSoFar(r) ==
    connector[r] = "all" /\ errors[r] = {} /\ alone[r] =>
        /\ \A i \in DOMAIN Keywords : Handled(r, i) =>
             \A n \in Found[Keywords[i]] : "nvd" \in vulns[n]
        /\ at[r] \in {"kev", "storeKev", "done"} =>
             read[r] \cap StixObject \subseteq mitre /\ Linked(read[r]) \subseteq links
        /\ at[r] = "done" => \A n \in read[r] \cap Cve : "kev" \in vulns[n]

\* Where a request goes after a source.
LEMMA AfterSource ==
    ASSUME NEW c
    PROVE  /\ c = "all" => /\ After(c, "nvd") = "mitre"
                           /\ After(c, "mitre") = "kev"
                           /\ After(c, "kev") = "done"
           /\ c # "all" => \A source : After(c, source) = "done"
BY DEF After

\* Where a request begins.
LEMMA FirstSource ==
    ASSUME NEW c \in Connector
    PROVE  /\ c \in {"nvd", "all"} => First(c) = "nvd"
           /\ c = "mitre-ics" => First(c) = "mitre"
           /\ c = "cisa-kev" => First(c) = "kev"
BY DEF First, Connector

\* The keyword that was handled is the one before the next, or the last.
LEMMA NextKeywordMoves ==
    ASSUME SyncTypes, NEW r \in Request, NextKeyword(r),
           at[r] \in {"nvd", "storeNvd"}
    PROVE  /\ keyword' \in [Request -> 1 .. Len(Keywords)]
           /\ \/ at' = [at EXCEPT ![r] = "nvd"] /\ keyword'[r] = keyword[r] + 1
              \/ /\ at' = [at EXCEPT ![r] = After(connector[r], "nvd")]
                 /\ keyword' = keyword /\ keyword[r] = Len(Keywords)
           /\ \A q \in Request \ {r} : at'[q] = at[q] /\ keyword'[q] = keyword[q]
           /\ \A i \in DOMAIN Keywords : Handled(r, i)' => Handled(r, i) \/ i = keyword[r]
<1>1. Len(Keywords) \in Nat /\ DOMAIN Keywords = 1 .. Len(Keywords)
  BY SyncAssumption
<1>2. keyword[r] \in 1 .. Len(Keywords) /\ keyword[r] \in Nat
  BY <1>1 DEF SyncTypes
<1>3. CASE keyword[r] < Len(Keywords)
  <2>1. /\ keyword' = [keyword EXCEPT ![r] = keyword[r] + 1]
        /\ at' = [at EXCEPT ![r] = "nvd"]
    BY <1>3 DEF NextKeyword
  <2>2. keyword' \in [Request -> 1 .. Len(Keywords)] /\ keyword'[r] = keyword[r] + 1
    BY <1>1, <1>2, <1>3, <2>1 DEF SyncTypes
  <2>3. \A q \in Request \ {r} : at'[q] = at[q] /\ keyword'[q] = keyword[q]
    BY <2>1 DEF SyncTypes
  <2>4. at'[r] = "nvd"
    BY <2>1 DEF SyncTypes
  <2>5. ASSUME NEW i \in DOMAIN Keywords, Handled(r, i)' PROVE Handled(r, i) \/ i = keyword[r]
    <3>1. i < keyword[r] + 1 /\ i \in Nat
      BY <1>1, <2>2, <2>4, <2>5 DEF Handled
    <3>2. i < keyword[r] \/ i = keyword[r]
      BY <1>2, <3>1
    <3>3. QED
      BY <3>2 DEF Handled
  <2>6. QED
    BY <2>1, <2>2, <2>3, <2>5
<1>4. CASE ~(keyword[r] < Len(Keywords))
  <2>1. keyword' = keyword /\ at' = [at EXCEPT ![r] = After(connector[r], "nvd")]
    BY <1>4 DEF NextKeyword
  <2>2. keyword[r] = Len(Keywords)
    BY <1>1, <1>2, <1>4
  <2>3. ASSUME NEW i \in DOMAIN Keywords PROVE Handled(r, i) \/ i = keyword[r]
    <3>1. i \in 1 .. keyword[r]
      BY <1>1, <2>2
    <3>2. i < keyword[r] \/ i = keyword[r]
      BY <1>2, <3>1
    <3>3. QED
      BY <3>2 DEF Handled
  <2>4. QED
    BY <2>1, <2>2, <2>3 DEF SyncTypes
<1>5. QED
  BY <1>3, <1>4


SyncInv(r) == Place(r) /\ Accounted(r) /\ StoredSoFar(r)

\* A request that a step does not move keeps what it has: no node is removed, and
\* a write of another request ends its being alone.
LEMMA OthersKeep ==
    ASSUME NEW q \in Request, SyncInv(q),
           at'[q] = at[q], connector'[q] = connector[q], keyword'[q] = keyword[q],
           got'[q] = got[q], errors'[q] = errors[q], read'[q] = read[q],
           alone'[q] => alone[q] /\ vulns' = vulns,
           \A n \in Cve : vulns[n] # {} => vulns'[n] # {},
           mitre \subseteq mitre', links \subseteq links'
    PROVE  SyncInv(q)'
<1>1. \A i : Handled(q, i)' <=> Handled(q, i)
  BY DEF Handled
<1>2. Place(q)'
  BY DEF SyncInv, Place
<1>3. Accounted(q)'
  <2> SUFFICES ASSUME connector'[q] \in {"nvd", "all"}, NEW i \in DOMAIN Keywords, Handled(q, i)',
                      Keywords[i] \notin errors'[q], NEW n \in Found[Keywords[i]]
               PROVE  vulns'[n] # {}
    BY DEF Accounted
  <2>1. vulns[n] # {}
    BY <1>1 DEF SyncInv, Accounted
  <2>2. n \in Cve
    BY SyncAssumption
  <2>3. QED
    BY <2>1, <2>2
<1>4. StoredSoFar(q)'
  <2> SUFFICES ASSUME connector'[q] = "all", errors'[q] = {}, alone'[q] PROVE
        /\ \A i \in DOMAIN Keywords : Handled(q, i)' =>
             \A n \in Found[Keywords[i]] : "nvd" \in vulns'[n]
        /\ at'[q] \in {"kev", "storeKev", "done"} =>
             read'[q] \cap StixObject \subseteq mitre' /\ Linked(read'[q]) \subseteq links'
        /\ at'[q] = "done" => \A n \in read'[q] \cap Cve : "kev" \in vulns'[n]
    BY DEF StoredSoFar, Linked
  <2>1. connector[q] = "all" /\ errors[q] = {} /\ alone[q] /\ vulns' = vulns
    OBVIOUS
  <2>2. at[q] \in {"kev", "storeKev", "done"} =>
          read[q] \cap StixObject \subseteq mitre /\ Linked(read[q]) \subseteq links
    BY <2>1 DEF SyncInv, StoredSoFar
  <2>3. \A i \in DOMAIN Keywords : Handled(q, i) => \A n \in Found[Keywords[i]] : "nvd" \in vulns[n]
    BY <2>1 DEF SyncInv, StoredSoFar
  <2>4. at[q] = "done" => \A n \in read[q] \cap Cve : "kev" \in vulns[n]
    BY <2>1 DEF SyncInv, StoredSoFar
  <2>5. QED
    BY <1>1, <2>1, <2>2, <2>3, <2>4
<1>5. QED
  BY <1>2, <1>3, <1>4 DEF SyncInv

\* Around the requests: the catalogue grows, someone ingests a node, a request
\* comes.
LEMMA AroundStep ==
    ASSUME SyncTypes, \A q \in Request : SyncInv(q),
           \/ \E n \in Cve : CisaLists(n) \/ Ingest(n)
           \/ \E r \in Request, c \in Connector : Post(r, c)
    PROVE  SyncTypes' /\ \A q \in Request : SyncInv(q)'
<1> USE DEF graphVars
<1>1. ASSUME NEW n \in Cve, CisaLists(n)
      PROVE  SyncTypes' /\ \A q \in Request : SyncInv(q)'
  <2>1. UNCHANGED <<vulns, mitre, links, at, connector, keyword, got, errors, alone, read>>
    BY <1>1 DEF CisaLists
  <2>2. SyncTypes'
    BY <1>1, <2>1 DEF CisaLists, SyncTypes, Connector
  <2>3. QED
    BY <2>1, <2>2, OthersKeep
<1>2. ASSUME NEW n \in Cve, Ingest(n)
      PROVE  SyncTypes' /\ \A q \in Request : SyncInv(q)'
  <2>1. UNCHANGED <<catalogue, mitre, links, at, connector, keyword, got, errors, read>>
    BY <1>2 DEF Ingest
  <2>2. vulns' = [vulns EXCEPT ![n] = {"other"}] /\ alone' = [r \in Request |-> FALSE]
    BY <1>2 DEF Ingest
  <2>3. SyncTypes'
    BY <2>1, <2>2 DEF SyncTypes, Connector
  <2>4. \A m \in Cve : vulns[m] # {} => vulns'[m] # {}
    BY <2>2 DEF SyncTypes
  <2>5. QED
    BY <2>1, <2>2, <2>3, <2>4, OthersKeep
<1>3. ASSUME NEW r \in Request, NEW c \in Connector, Post(r, c)
      PROVE  SyncTypes' /\ \A q \in Request : SyncInv(q)'
  <2>1. UNCHANGED <<catalogue, vulns, mitre, links, keyword, got, errors, read>>
    BY <1>3 DEF Post
  <2>2. /\ at[r] = "unused" /\ at' = [at EXCEPT ![r] = First(c)]
        /\ connector' = [connector EXCEPT ![r] = c]
        /\ DOMAIN alone' = DOMAIN alone /\ \A q \in Request \ {r} : alone'[q] = alone[q]
    BY <1>3 DEF Post, SyncTypes
  <2>3. /\ c \in {"nvd", "all"} => First(c) = "nvd"
        /\ c \notin {"nvd", "all"} => First(c) \in {"mitre", "kev"}
    BY FirstSource DEF Connector
  <2>4. SyncTypes'
    BY <2>1, <2>2, <2>3 DEF SyncTypes, Connector
  <2>5. SyncInv(r)'
    <3>1. keyword[r] = 1 /\ read[r] = {} /\ keyword'[r] = 1 /\ read'[r] = {}
      BY <2>1, <2>2 DEF SyncInv, Place
    <3>2. connector'[r] = c /\ at'[r] = First(c)
      BY <2>2 DEF SyncTypes
    <3>3. Place(r)'
      BY <2>3, <3>1, <3>2 DEF Place, Connector
    <3>4. c \in {"nvd", "all"} => \A i \in DOMAIN Keywords : ~Handled(r, i)'
      <4>1. \A i \in DOMAIN Keywords : i \in Nat /\ ~(i < 1)
        BY SyncAssumption
      <4>2. QED
        BY <2>3, <3>1, <3>2, <4>1 DEF Handled
    <3>5. Accounted(r)' /\ StoredSoFar(r)'
      BY <2>3, <3>2, <3>4 DEF Accounted, StoredSoFar
    <3>6. QED
      BY <3>3, <3>5 DEF SyncInv
  <2>6. ASSUME NEW q \in Request \ {r} PROVE SyncInv(q)'
    <3>1. at'[q] = at[q] /\ connector'[q] = connector[q] /\ alone'[q] = alone[q]
      BY <2>2 DEF SyncTypes
    <3>2. QED
      BY <2>1, <3>1, OthersKeep
  <2>7. QED
    BY <2>4, <2>5, <2>6
<1>4. QED
  BY <1>1, <1>2, <1>3


\* A request that asks NVD for its keywords.
LEMMA NvdStep ==
    ASSUME SyncTypes, \A q \in Request : SyncInv(q), NEW r \in Request,
           NvdFetch(r) \/ NvdFails(r) \/ NvdStore(r)
    PROVE  SyncTypes' /\ \A q \in Request : SyncInv(q)'
<1> USE DEF graphVars
<1>0. SyncInv(r) /\ keyword[r] \in DOMAIN Keywords /\ Len(Keywords) \in Nat
  BY SyncAssumption DEF SyncTypes
<1>1. CASE NvdFetch(r)
  <2>1. UNCHANGED <<catalogue, vulns, mitre, links, connector, keyword, errors, alone, read>>
    BY <1>1 DEF NvdFetch
  <2>2. /\ at[r] = "nvd" /\ at' = [at EXCEPT ![r] = "storeNvd"]
        /\ got' = [got EXCEPT ![r] = Found[Keywords[keyword[r]]]]
    BY <1>1 DEF NvdFetch
  <2>3. SyncTypes'
    BY <2>1, <2>2 DEF SyncTypes, Connector
  <2>4. at'[r] = "storeNvd" /\ got'[r] = Found[Keywords[keyword[r]]]
    BY <2>2 DEF SyncTypes
  <2>5. \A i : Handled(r, i)' <=> Handled(r, i)
    BY <2>1, <2>2, <2>4 DEF Handled
  <2>6. Place(r)'
    BY <1>0, <2>1, <2>2, <2>4 DEF SyncInv, Place
  <2>7. Accounted(r)'
    BY <1>0, <2>1, <2>5 DEF SyncInv, Accounted
  <2>8. StoredSoFar(r)'
    BY <1>0, <2>1, <2>4, <2>5 DEF SyncInv, StoredSoFar
  <2>9. ASSUME NEW q \in Request \ {r} PROVE SyncInv(q)'
    <3>1. at'[q] = at[q] /\ got'[q] = got[q]
      BY <2>2 DEF SyncTypes
    <3>2. QED
      BY <2>1, <3>1, OthersKeep
  <2>10. QED
    BY <2>3, <2>6, <2>7, <2>8, <2>9 DEF SyncInv
<1>2. ASSUME NvdFails(r) \/ NvdStore(r)
      PROVE  SyncTypes' /\ \A q \in Request : SyncInv(q)'
  <2>1. UNCHANGED <<catalogue, mitre, links, connector, read>> /\ NextKeyword(r)
    BY <1>2 DEF NvdFails, NvdStore
  <2>2. at[r] \in {"nvd", "storeNvd"}
    BY <1>2 DEF NvdFails, NvdStore
  <2>3. /\ keyword' \in [Request -> 1 .. Len(Keywords)]
        /\ at' = [at EXCEPT ![r] = "nvd"] \/ at' = [at EXCEPT ![r] = After(connector[r], "nvd")]
        /\ \A q \in Request \ {r} : at'[q] = at[q] /\ keyword'[q] = keyword[q]
        /\ \A i \in DOMAIN Keywords : Handled(r, i)' => Handled(r, i) \/ i = keyword[r]
    BY <2>1, <2>2, NextKeywordMoves
  <2>4. /\ connector[r] \in {"nvd", "all"} /\ read[r] = {}
        /\ at[r] = "storeNvd" => got[r] = Found[Keywords[keyword[r]]]
    BY <1>0, <2>2 DEF SyncInv, Place
  <2>5. /\ at' \in [Request -> {"unused", "nvd", "storeNvd", "mitre", "storeMitre",
                                "kev", "storeKev", "done"}]
        /\ at'[r] = "nvd" \/ (at'[r] = "mitre" /\ connector[r] = "all")
             \/ (at'[r] = "done" /\ connector[r] = "nvd")
    <3>1. After(connector[r], "nvd") = IF connector[r] = "all" THEN "mitre" ELSE "done"
      BY AfterSource
    <3>2. QED
      BY <2>3, <2>4, <3>1 DEF SyncTypes
  <2>6. /\ vulns' \in [Cve -> SUBSET {"nvd", "kev", "other"}]
        /\ \A n \in Cve : /\ vulns[n] # {} => vulns'[n] # {}
                          /\ "nvd" \in vulns[n] => "nvd" \in vulns'[n]
        /\ \/ errors'[r] = errors[r] \cup {Keywords[keyword[r]]}
           \/ /\ errors'[r] = errors[r]
              /\ \A n \in Found[Keywords[keyword[r]]] : "nvd" \in vulns'[n]
        /\ DOMAIN errors' = Request /\ DOMAIN got' = Request /\ DOMAIN alone' = Request
        /\ alone'[r] => alone[r]
        /\ \A q \in Request \ {r} : /\ errors'[q] = errors[q] /\ got'[q] = got[q]
                                    /\ alone'[q] => alone[q] /\ vulns' = vulns
    <3>1. CASE NvdFails(r)
      BY <3>1 DEF NvdFails, SyncTypes
    <3>2. CASE NvdStore(r)
      <4>1. PICK stored \in SUBSET got[r] :
              /\ vulns' = [n \in Cve |-> IF n \in stored THEN {"nvd"} ELSE vulns[n]]
              /\ errors' = [errors EXCEPT ![r] =
                    IF stored = got[r] THEN errors[r] ELSE errors[r] \cup {Keywords[keyword[r]]}]
        BY <3>2 DEF NvdStore
      <4>2. /\ got' = [got EXCEPT ![r] = {}]
            /\ alone' = [q \in Request |-> alone[q] /\ q = r] /\ at[r] = "storeNvd"
        BY <3>2 DEF NvdStore, Disturb
      <4>3. Found[Keywords[keyword[r]]] = got[r] /\ Found[Keywords[keyword[r]]] \subseteq Cve
        BY <1>0, <2>4, <4>2, SyncAssumption
      <4>4. vulns' \in [Cve -> SUBSET {"nvd", "kev", "other"}]
        BY <4>1 DEF SyncTypes
      <4>5. \A n \in Cve : /\ vulns[n] # {} => vulns'[n] # {}
                           /\ "nvd" \in vulns[n] => "nvd" \in vulns'[n]
        BY <4>1
      <4>6. \/ errors'[r] = errors[r] \cup {Keywords[keyword[r]]}
            \/ /\ errors'[r] = errors[r]
               /\ \A n \in Found[Keywords[keyword[r]]] : "nvd" \in vulns'[n]
        BY <4>1, <4>3 DEF SyncTypes
      <4>7. DOMAIN errors' = Request /\ DOMAIN got' = Request
        BY <4>1, <4>2 DEF SyncTypes
      <4>8. DOMAIN alone' = Request /\ (alone'[r] => alone[r])
            /\ \A q \in Request \ {r} : ~alone'[q]
        BY <4>2, Zenon
      <4>9. \A q \in Request \ {r} : errors'[q] = errors[q] /\ got'[q] = got[q]
        BY <4>1, <4>2 DEF SyncTypes
      <4>10. QED
        BY <4>4, <4>5, <4>6, <4>7, <4>8, <4>9
    <3>3. QED
      BY <1>2, <3>1, <3>2
  <2>7. SyncTypes'
    BY <2>1, <2>3, <2>5, <2>6 DEF SyncTypes, Connector
  <2>8. Place(r)'
    BY <2>1, <2>4, <2>5 DEF Place
  <2>9. ASSUME NEW i \in DOMAIN Keywords, Handled(r, i)', Keywords[i] \notin errors'[r]
        PROVE  \A n \in Found[Keywords[i]] : vulns'[n] # {}
    <3>1. CASE i = keyword[r]
      BY <2>6, <2>9, <3>1
    <3>2. CASE i # keyword[r]
      <4>1. Handled(r, i) /\ Keywords[i] \notin errors[r]
        BY <2>3, <2>6, <2>9, <3>2
      <4>2. \A n \in Found[Keywords[i]] : vulns[n] # {} /\ n \in Cve
        BY <1>0, <2>4, <4>1, SyncAssumption DEF SyncInv, Accounted
      <4>3. QED
        BY <2>6, <4>2
    <3>3. QED
      BY <3>1, <3>2
  <2>10. ASSUME NEW i \in DOMAIN Keywords, Handled(r, i)', connector[r] = "all",
                errors'[r] = {}, alone'[r]
         PROVE  \A n \in Found[Keywords[i]] : "nvd" \in vulns'[n]
    <3>1. CASE i = keyword[r]
      BY <2>6, <2>10, <3>1
    <3>2. CASE i # keyword[r]
      <4>1. Handled(r, i) /\ errors[r] = {} /\ alone[r]
        BY <2>3, <2>6, <2>10, <3>2
      <4>2. \A n \in Found[Keywords[i]] : "nvd" \in vulns[n] /\ n \in Cve
        BY <1>0, <2>10, <4>1, SyncAssumption DEF SyncInv, StoredSoFar
      <4>3. QED
        BY <2>6, <4>2
    <3>3. QED
      BY <3>1, <3>2
  <2>11. SyncInv(r)'
    <3>1. Accounted(r)'
      BY <2>9 DEF Accounted
    <3>2. StoredSoFar(r)'
      BY <2>1, <2>5, <2>10 DEF StoredSoFar
    <3>3. QED
      BY <2>8, <3>1, <3>2 DEF SyncInv
  <2>12. ASSUME NEW q \in Request \ {r} PROVE SyncInv(q)'
    <3>1. at'[q] = at[q] /\ keyword'[q] = keyword[q]
      BY <2>3, Zenon
    <3>2. errors'[q] = errors[q] /\ got'[q] = got[q] /\ (alone'[q] => alone[q] /\ vulns' = vulns)
      BY <2>6, Zenon
    <3>3. \A n \in Cve : vulns[n] # {} => vulns'[n] # {}
      BY <2>6
    <3>4. QED
      BY <2>1, <3>1, <3>2, <3>3, OthersKeep
  <2>13. QED
    BY <2>7, <2>11, <2>12
<1>3. QED
  BY <1>1, <1>2


\* What a bundle links are pairs of its own objects.
LEMMA LinkedOfStix ==
    ASSUME NEW live, NEW more, more \cap StixObject = {}
    PROVE  Linked(live \cup more) = Linked(live)
BY SyncAssumption DEF Linked

\* A request that reads the MITRE bundle.
LEMMA MitreStep ==
    ASSUME SyncTypes, \A q \in Request : SyncInv(q), NEW r \in Request,
           MitreFetch(r) \/ MitreFails(r) \/ MitreStore(r)
    PROVE  SyncTypes' /\ \A q \in Request : SyncInv(q)'
<1> USE DEF graphVars
<1>0. SyncInv(r)
  OBVIOUS
<1>1. CASE MitreFetch(r)
  <2>1. UNCHANGED <<catalogue, vulns, mitre, links, connector, keyword, errors, alone>>
    BY <1>1 DEF MitreFetch
  <2>2. PICK bundle \in SUBSET StixObject : /\ got' = [got EXCEPT ![r] = bundle]
                                            /\ read' = [read EXCEPT ![r] = bundle]
    BY <1>1 DEF MitreFetch
  <2>3. at[r] = "mitre" /\ at' = [at EXCEPT ![r] = "storeMitre"]
    BY <1>1 DEF MitreFetch
  <2>4. SyncTypes'
    BY <2>1, <2>2, <2>3 DEF SyncTypes, Connector
  <2>5. at'[r] = "storeMitre" /\ got'[r] = bundle /\ read'[r] = bundle
    BY <2>2, <2>3 DEF SyncTypes
  <2>6. \A i : Handled(r, i)' <=> Handled(r, i)
    BY <2>3, <2>5 DEF Handled
  <2>7. Place(r)'
    BY <2>5 DEF Place
  <2>8. Accounted(r)'
    BY <1>0, <2>1, <2>6 DEF SyncInv, Accounted
  <2>9. StoredSoFar(r)'
    BY <1>0, <2>1, <2>5, <2>6 DEF SyncInv, StoredSoFar
  <2>10. ASSUME NEW q \in Request \ {r} PROVE SyncInv(q)'
    <3>1. at'[q] = at[q] /\ got'[q] = got[q] /\ read'[q] = read[q]
      BY <2>2, <2>3 DEF SyncTypes
    <3>2. QED
      BY <2>1, <3>1, OthersKeep
  <2>11. QED
    BY <2>4, <2>7, <2>8, <2>9, <2>10 DEF SyncInv
<1>2. ASSUME MitreFails(r) \/ MitreStore(r)
      PROVE  SyncTypes' /\ \A q \in Request : SyncInv(q)'
  <2>1. UNCHANGED <<catalogue, vulns, connector, keyword, alone, read>>
    BY <1>2 DEF MitreFails, MitreStore
  <2>2. at[r] \in {"mitre", "storeMitre"} /\ at' = [at EXCEPT ![r] = After(connector[r], "mitre")]
    BY <1>2 DEF MitreFails, MitreStore
  <2>3. at'[r] = IF connector[r] = "all" THEN "kev" ELSE "done"
    BY <2>2, AfterSource DEF SyncTypes
  <2>4. /\ mitre \subseteq mitre' /\ links \subseteq links'
        /\ DOMAIN errors' = Request /\ DOMAIN got' = Request
        /\ errors[r] \subseteq errors'[r]
        /\ errors'[r] = {} => got[r] \subseteq mitre' /\ Linked(got[r]) \subseteq links'
                              /\ at[r] = "storeMitre"
        /\ \A q \in Request \ {r} : errors'[q] = errors[q] /\ got'[q] = got[q]
    <3>1. CASE MitreFails(r)
      BY <3>1 DEF MitreFails, SyncTypes
    <3>2. CASE MitreStore(r)
      <4>1. PICK stored \in SUBSET got[r] : \E tied \in SUBSET Linked(got[r]) :
              /\ mitre' = mitre \cup stored
              /\ links' = links \cup tied
              /\ errors' = [errors EXCEPT ![r] =
                    IF stored = got[r] /\ tied = Linked(got[r])
                    THEN errors[r] ELSE errors[r] \cup {"mitre"}]
        BY <3>2 DEF MitreStore
      <4>2. PICK tied \in SUBSET Linked(got[r]) :
              /\ links' = links \cup tied
              /\ errors' = [errors EXCEPT ![r] =
                    IF stored = got[r] /\ tied = Linked(got[r])
                    THEN errors[r] ELSE errors[r] \cup {"mitre"}]
        BY <4>1
      <4>3. got' = [got EXCEPT ![r] = {}] /\ at[r] = "storeMitre" /\ mitre' = mitre \cup stored
        BY <3>2, <4>1 DEF MitreStore
      <4>4. errors'[r] = IF stored = got[r] /\ tied = Linked(got[r])
                         THEN errors[r] ELSE errors[r] \cup {"mitre"}
        BY <4>2 DEF SyncTypes
      <4>5. errors'[r] = {} => stored = got[r] /\ tied = Linked(got[r])
        BY <4>4
      <4>6. errors[r] \subseteq errors'[r]
        BY <4>4
      <4>7. DOMAIN errors' = Request /\ DOMAIN got' = Request
            /\ \A q \in Request \ {r} : errors'[q] = errors[q] /\ got'[q] = got[q]
        BY <4>2, <4>3 DEF SyncTypes
      <4>8. QED
        BY <4>2, <4>3, <4>5, <4>6, <4>7
    <3>3. QED
      BY <1>2, <3>1, <3>2
  <2>5. SyncTypes'
    BY <2>1, <2>2, <2>3, <2>4 DEF SyncTypes, Connector
  <2>6. \A i : Handled(r, i)' <=> Handled(r, i)
    BY <2>2, <2>3 DEF Handled
  <2>7. at[r] = "storeMitre" => read[r] = got[r] /\ got[r] \subseteq StixObject
    BY <1>0 DEF SyncInv, Place
  <2>8. Place(r)'
    <3>1. at[r] = "mitre" => read[r] = {}
      BY <1>0 DEF SyncInv, Place
    <3>2. QED
      BY <2>1, <2>2, <2>3, <2>7, <3>1 DEF Place
  <2>9. Accounted(r)'
    BY <1>0, <2>1, <2>4, <2>6 DEF SyncInv, Accounted
  <2>10. StoredSoFar(r)'
    <3> SUFFICES ASSUME connector[r] = "all", errors'[r] = {}, alone[r]
                 PROVE  /\ \A i \in DOMAIN Keywords : Handled(r, i)' =>
                             \A n \in Found[Keywords[i]] : "nvd" \in vulns[n]
                        /\ read[r] \cap StixObject \subseteq mitre'
                        /\ Linked(read[r]) \subseteq links'
      BY <2>1, <2>3 DEF StoredSoFar, Linked
    <3>1. errors[r] = {}
      BY <2>4
    <3>2. \A i \in DOMAIN Keywords : Handled(r, i) => \A n \in Found[Keywords[i]] : "nvd" \in vulns[n]
      BY <1>0, <3>1 DEF SyncInv, StoredSoFar
    <3>3. read[r] = got[r] /\ got[r] \subseteq mitre' /\ Linked(got[r]) \subseteq links'
      BY <2>4, <2>7
    <3>4. QED
      BY <2>6, <3>2, <3>3
  <2>11. ASSUME NEW q \in Request \ {r} PROVE SyncInv(q)'
    <3>1. at'[q] = at[q] /\ errors'[q] = errors[q] /\ got'[q] = got[q]
      BY <2>2, <2>4 DEF SyncTypes
    <3>2. QED
      BY <2>1, <2>4, <3>1, OthersKeep
  <2>12. QED
    BY <2>5, <2>8, <2>9, <2>10, <2>11 DEF SyncInv
<1>3. QED
  BY <1>1, <1>2


\* A request that reads the KEV catalogue.
LEMMA KevStep ==
    ASSUME SyncTypes, \A q \in Request : SyncInv(q), NEW r \in Request,
           KevFetch(r) \/ KevFails(r) \/ KevStore(r)
    PROVE  SyncTypes' /\ \A q \in Request : SyncInv(q)'
<1> USE DEF graphVars
<1>0. SyncInv(r)
  OBVIOUS
<1>1. CASE KevFetch(r)
  <2>1. UNCHANGED <<catalogue, vulns, mitre, links, connector, keyword, errors, alone>>
    BY <1>1 DEF KevFetch
  <2>2. /\ at[r] = "kev" /\ at' = [at EXCEPT ![r] = "storeKev"]
        /\ got' = [got EXCEPT ![r] = catalogue]
        /\ read' = [read EXCEPT ![r] = read[r] \cup catalogue]
    BY <1>1 DEF KevFetch
  <2>3. SyncTypes'
    BY <2>1, <2>2 DEF SyncTypes, Connector
  <2>4. at'[r] = "storeKev" /\ got'[r] = catalogue /\ read'[r] = read[r] \cup catalogue
    BY <2>2 DEF SyncTypes
  <2>5. \A i : Handled(r, i)' <=> Handled(r, i)
    BY <2>2, <2>4 DEF Handled
  <2>6. /\ read[r] \subseteq StixObject /\ catalogue \subseteq Cve
        /\ catalogue \cap StixObject = {} /\ read[r] \cap Cve = {}
    BY <1>0, <2>2, SyncAssumption DEF SyncInv, Place, SyncTypes
  <2>7. Place(r)'
    BY <2>4, <2>6 DEF Place
  <2>8. Accounted(r)'
    BY <1>0, <2>1, <2>5 DEF SyncInv, Accounted
  <2>9. StoredSoFar(r)'
    <3> SUFFICES ASSUME connector[r] = "all", errors[r] = {}, alone[r]
                 PROVE  /\ \A i \in DOMAIN Keywords : Handled(r, i)' =>
                             \A n \in Found[Keywords[i]] : "nvd" \in vulns[n]
                        /\ read'[r] \cap StixObject \subseteq mitre
                        /\ Linked(read'[r]) \subseteq links
      BY <2>1, <2>4 DEF StoredSoFar, Linked
    <3>1. Linked(read'[r]) = Linked(read[r])
      BY <2>4, <2>6, LinkedOfStix
    <3>2. read'[r] \cap StixObject = read[r] \cap StixObject
      BY <2>4, <2>6
    <3>3. /\ \A i \in DOMAIN Keywords : Handled(r, i) => \A n \in Found[Keywords[i]] : "nvd" \in vulns[n]
          /\ read[r] \cap StixObject \subseteq mitre /\ Linked(read[r]) \subseteq links
      BY <1>0, <2>2 DEF SyncInv, StoredSoFar
    <3>4. QED
      BY <2>5, <3>1, <3>2, <3>3
  <2>10. ASSUME NEW q \in Request \ {r} PROVE SyncInv(q)'
    <3>1. at'[q] = at[q] /\ got'[q] = got[q] /\ read'[q] = read[q]
      BY <2>2 DEF SyncTypes
    <3>2. QED
      BY <2>1, <3>1, OthersKeep
  <2>11. QED
    BY <2>3, <2>7, <2>8, <2>9, <2>10 DEF SyncInv
<1>2. ASSUME KevFails(r) \/ KevStore(r)
      PROVE  SyncTypes' /\ \A q \in Request : SyncInv(q)'
  <2>1. UNCHANGED <<catalogue, mitre, links, connector, keyword, read>>
    BY <1>2 DEF KevFails, KevStore
  <2>2. at[r] \in {"kev", "storeKev"} /\ at' = [at EXCEPT ![r] = After(connector[r], "kev")]
    BY <1>2 DEF KevFails, KevStore
  <2>3. at'[r] = "done"
    BY <2>2, AfterSource DEF SyncTypes
  <2>4. /\ vulns' \in [Cve -> SUBSET {"nvd", "kev", "other"}]
        /\ \A n \in Cve : vulns[n] \subseteq vulns'[n]
        /\ DOMAIN errors' = Request /\ DOMAIN got' = Request /\ DOMAIN alone' = Request
        /\ errors[r] \subseteq errors'[r]
        /\ errors'[r] = {} => /\ at[r] = "storeKev"
                              /\ \A n \in got[r] \cap Cve : "kev" \in vulns'[n]
        /\ alone'[r] => alone[r]
        /\ \A q \in Request \ {r} : /\ errors'[q] = errors[q] /\ got'[q] = got[q]
                                    /\ alone'[q] => alone[q] /\ vulns' = vulns
    <3>1. CASE KevFails(r)
      BY <3>1 DEF KevFails, SyncTypes
    <3>2. CASE KevStore(r)
      <4>1. PICK stored \in SUBSET got[r] :
              /\ vulns' = [n \in Cve |-> IF n \in stored THEN vulns[n] \cup {"kev"} ELSE vulns[n]]
              /\ errors' = [errors EXCEPT ![r] =
                    IF stored = got[r] THEN errors[r] ELSE errors[r] \cup {"kev"}]
        BY <3>2 DEF KevStore, Enriched
      <4>2. /\ got' = [got EXCEPT ![r] = {}]
            /\ alone' = [q \in Request |-> alone[q] /\ q = r] /\ at[r] = "storeKev"
        BY <3>2 DEF KevStore, Disturb
      <4>3. vulns' \in [Cve -> SUBSET {"nvd", "kev", "other"}]
        BY <4>1 DEF SyncTypes
      <4>4. \A n \in Cve : vulns[n] \subseteq vulns'[n]
        BY <4>1
      <4>5. errors'[r] = IF stored = got[r] THEN errors[r] ELSE errors[r] \cup {"kev"}
        BY <4>1 DEF SyncTypes
      <4>6. errors[r] \subseteq errors'[r] /\ (errors'[r] = {} => stored = got[r])
        BY <4>5
      <4>7. stored = got[r] => \A n \in got[r] \cap Cve : "kev" \in vulns'[n]
        BY <4>1
      <4>8. DOMAIN errors' = Request /\ DOMAIN got' = Request
            /\ \A q \in Request \ {r} : errors'[q] = errors[q] /\ got'[q] = got[q]
        BY <4>1, <4>2 DEF SyncTypes
      <4>9. DOMAIN alone' = Request /\ (alone'[r] => alone[r])
            /\ \A q \in Request \ {r} : ~alone'[q]
        BY <4>2, Zenon
      <4>10. QED
        BY <4>2, <4>3, <4>4, <4>6, <4>7, <4>8, <4>9
    <3>3. QED
      BY <1>2, <3>1, <3>2
  <2>5. SyncTypes'
    BY <2>1, <2>2, <2>3, <2>4 DEF SyncTypes, Connector
  <2>6. \A i : Handled(r, i)' <=> Handled(r, i)
    BY <2>2, <2>3 DEF Handled
  <2>7. Place(r)'
    BY <2>3 DEF Place
  <2>8. Accounted(r)'
    <3> SUFFICES ASSUME connector[r] \in {"nvd", "all"}, NEW i \in DOMAIN Keywords, Handled(r, i),
                        Keywords[i] \notin errors[r], NEW n \in Found[Keywords[i]]
                 PROVE  vulns'[n] # {}
      BY <2>1, <2>4, <2>6 DEF Accounted
    <3>1. vulns[n] # {} /\ n \in Cve
      BY <1>0, SyncAssumption DEF SyncInv, Accounted
    <3>2. QED
      BY <2>4, <3>1
  <2>9. StoredSoFar(r)'
    <3> SUFFICES ASSUME connector[r] = "all", errors'[r] = {}, alone'[r]
                 PROVE  /\ \A i \in DOMAIN Keywords : Handled(r, i)' =>
                             \A n \in Found[Keywords[i]] : "nvd" \in vulns'[n]
                        /\ read[r] \cap StixObject \subseteq mitre
                        /\ Linked(read[r]) \subseteq links
                        /\ \A n \in read[r] \cap Cve : "kev" \in vulns'[n]
      BY <2>1, <2>3 DEF StoredSoFar, Linked
    <3>1. errors[r] = {} /\ alone[r] /\ at[r] = "storeKev"
      BY <2>4
    <3>2. /\ \A i \in DOMAIN Keywords : Handled(r, i) => \A n \in Found[Keywords[i]] : "nvd" \in vulns[n]
          /\ read[r] \cap StixObject \subseteq mitre /\ Linked(read[r]) \subseteq links
      BY <1>0, <3>1 DEF SyncInv, StoredSoFar
    <3>3. \A i \in DOMAIN Keywords : Found[Keywords[i]] \subseteq Cve
      BY SyncAssumption
    <3>4. got[r] = read[r] \cap Cve
      BY <1>0, <3>1 DEF SyncInv, Place
    <3>5. \A i \in DOMAIN Keywords : Handled(r, i)' => \A n \in Found[Keywords[i]] : "nvd" \in vulns'[n]
      BY <2>4, <2>6, <3>2, <3>3
    <3>6. \A n \in read[r] \cap Cve : "kev" \in vulns'[n]
      BY <2>4, <3>4
    <3>7. QED
      BY <3>2, <3>5, <3>6
  <2>10. ASSUME NEW q \in Request \ {r} PROVE SyncInv(q)'
    <3>0. errors'[q] = errors[q] /\ got'[q] = got[q] /\ (alone'[q] => alone[q] /\ vulns' = vulns)
      BY <2>4, Zenon
    <3>1. at'[q] = at[q]
      BY <2>2 DEF SyncTypes
    <3>2. \A n \in Cve : vulns[n] # {} => vulns'[n] # {}
      BY <2>4
    <3>3. QED
      BY <2>1, <3>0, <3>1, <3>2, OthersKeep
  <2>11. QED
    BY <2>5, <2>7, <2>8, <2>9, <2>10 DEF SyncInv
<1>3. QED
  BY <1>1, <1>2

\* What holds between any two steps of the requests.
SyncIInv == SyncTypes /\ \A q \in Request : SyncInv(q)

\* Each step of a request, and of what surrounds it, keeps the invariant of all.
LEMMA SyncStep == SyncIInv /\ [SyncNext]_syncVars => SyncIInv'
<1> SUFFICES ASSUME SyncTypes, \A q \in Request : SyncInv(q), [SyncNext]_syncVars
             PROVE  SyncTypes' /\ \A q \in Request : SyncInv(q)'
  BY DEF SyncIInv
<1>1. CASE UNCHANGED syncVars
  <2>1. UNCHANGED <<catalogue, vulns, mitre, links, at, connector, keyword, got, errors, alone, read>>
    BY <1>1 DEF syncVars, graphVars
  <2>2. SyncTypes'
    BY <2>1 DEF SyncTypes, Connector
  <2>3. QED
    BY <2>1, <2>2, OthersKeep
<1>2. ASSUME NEW r \in Request, Sync(r)
      PROVE  SyncTypes' /\ \A q \in Request : SyncInv(q)'
  BY <1>2, NvdStep, MitreStep, KevStep DEF Sync
<1>3. QED
  BY <1>1, <1>2, AroundStep DEF SyncNext

\* The invariant of the requests holds from the beginning.
LEMMA SyncInvHolds == SyncSpec => []SyncIInv
<1>1. SyncInit => SyncIInv
  <2> SUFFICES ASSUME SyncInit PROVE SyncTypes /\ \A q \in Request : SyncInv(q)
    BY DEF SyncIInv
  <2>1. Len(Keywords) \in Nat /\ 1 \in 1 .. Len(Keywords)
    BY SyncAssumption
  <2>2. SyncTypes
    BY <2>1 DEF SyncInit, SyncTypes, Connector
  <2>3. ASSUME NEW q \in Request PROVE SyncInv(q)
    BY DEF SyncInit, SyncInv, Place, Accounted, StoredSoFar, Handled
  <2>4. QED
    BY <2>2, <2>3
<1>2. QED
  BY <1>1, SyncStep, PTL DEF SyncSpec

\* A sync of all sources that reports no error and ran alone is complete
\* (POST of sync/route.ts), whatever requests came before or are under way.
THEOREM SyncIsComplete == SyncSpec => []AllSyncIsComplete
<1>1. SyncIInv => AllSyncIsComplete
  <2> SUFFICES ASSUME NEW r \in Request, SyncInv(r), at[r] = "done", connector[r] = "all",
                      errors[r] = {}, alone[r]
               PROVE  /\ \A k \in Keyword : \A n \in Found[k] : "nvd" \in vulns[n]
                      /\ \A n \in read[r] \cap Cve : "kev" \in vulns[n]
                      /\ read[r] \cap StixObject \subseteq mitre
                      /\ Linked(read[r]) \subseteq links
    BY DEF AllSyncIsComplete, SyncIInv
  <2>1. /\ \A i \in DOMAIN Keywords : \A n \in Found[Keywords[i]] : "nvd" \in vulns[n]
        /\ read[r] \cap StixObject \subseteq mitre /\ Linked(read[r]) \subseteq links
        /\ \A n \in read[r] \cap Cve : "kev" \in vulns[n]
    BY DEF SyncInv, StoredSoFar, Handled
  <2>2. QED
    BY <2>1 DEF Keyword
<1>2. QED
  BY <1>1, SyncInvHolds, PTL

\* A request that is done has each of its keywords in its errors or in the graph,
\* whatever requests and inserts it overlaps with (syncNvd).
THEOREM NoKeywordIsLost == SyncSpec => []KeywordsAreAccountedFor
<1>1. SyncIInv => KeywordsAreAccountedFor
  BY DEF KeywordsAreAccountedFor, Keyword, SyncInv, Accounted, Handled, SyncIInv
<1>2. QED
  BY <1>1, SyncInvHolds, PTL

=============================================================================
