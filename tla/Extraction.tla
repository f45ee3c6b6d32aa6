------------------------------ MODULE Extraction ------------------------------
(***************************************************************************)
(* POST /api/extract: a text, or the files of an S3 bucket one after the   *)
(* other, go through runExtractionPipeline, which cuts the text in chunks, *)
(* asks a model for its entities and relationships, and stores the chunk   *)
(* with its vector, the entities, the relationships and a row for the      *)
(* document. Callers overlap at each await; between two awaits the code    *)
(* and its SQLite calls run undivided, the cutting loop included.          *)
(*                                                                         *)
(* A text that needs cutting never leaves the loop (see CutChunk), so what *)
(* comes after has one chunk, "<document>::0", named by its document here. *)
(* Edges are a set: copies of one relationship count once.                 *)
(***************************************************************************)
EXTENDS Naturals, Sequences

CONSTANTS
    Caller,        \* requests
    Vertical,      \* verticals
    Doc,           \* document ids
    UploadDoc,     \* those of uploads, named by their millisecond; others by S3 key
    Entity,        \* entity ids
    Text,          \* contents
    LengthOf,      \* their lengths
    Mentions,      \* the entities the regex extractor finds in them
    Related,       \* bound: relationships the model may name, one per answer
    Batch,         \* what a bucket may hold: sequences of [doc, text]
    MaxChunkSize,  \* 4000
    Overlap        \* 200

ASSUME ExtractionAssumption ==
    /\ Vertical # {} /\ Doc # {} /\ Text # {}
    /\ LengthOf \in [Text -> Nat]
    /\ Mentions \in [Text -> SUBSET Entity]
    /\ Related \subseteq Entity \X Entity
    /\ UploadDoc \subseteq Doc
    /\ Batch \subseteq Seq([doc : Doc \ UploadDoc, text : Text])
    /\ MaxChunkSize \in Nat /\ Overlap \in 1..(MaxChunkSize - 1)

VARIABLES
    nodes,   \* nodes table: per vertical, the entities
    edges,   \* edges table: <<vertical, source, target>>
    chunks,  \* chunks table, keyed by document alone
    docs,    \* documents table, keyed by vertical and document
    pc,      \* what each caller does next
    todo,    \* files of the bucket still to do
    job,     \* the document in the pipeline
    start,   \* chunkText: where the next chunk starts
    found,   \* entities and relationships the model returned
    clean,   \* result.errors is empty so far
    \* history
    last     \* the pipeline that stored last, if it reports no error, and the
             \* verticals (`held`) whose chunk its document had before

storeVars == <<nodes, edges, chunks, docs>>
vars == <<storeVars, pc, todo, job, start, found, clean, last>>

Job == [vertical : Vertical, doc : Doc, text : Text]
Nothing == [entities |-> {}, relations |-> {}]
SomeJob == CHOOSE j \in Job : TRUE
Unclean == [job |-> SomeJob, entities |-> {}, clean |-> FALSE, held |-> {}]

Init ==
    /\ nodes = [v \in Vertical |-> {}] /\ edges = {}
    /\ chunks = {} /\ docs = {}
    /\ pc = [c \in Caller |-> "idle"]
    /\ todo = [c \in Caller |-> <<>>]
    /\ job = [c \in Caller |-> SomeJob]
    /\ start = [c \in Caller |-> 0]
    /\ found = [c \in Caller |-> Nothing]
    /\ clean = [c \in Caller |-> TRUE]
    /\ last = Unclean

\* chunkText runs without an await: while it loops, nobody else moves.
Yielded == \A c \in Caller : pc[c] # "cut"

\* runExtractionPipeline(j): a short text is one chunk.
Begin(c, j) ==
    /\ job' = [job EXCEPT ![c] = j]
    /\ start' = [start EXCEPT ![c] = 0]
    /\ clean' = [clean EXCEPT ![c] = TRUE]
    /\ pc' = [pc EXCEPT ![c] =
                IF LengthOf[j.text] <= MaxChunkSize THEN "extract" ELSE "cut"]

-----------------------------------------------------------------------------
(* The requests *)

\* Mode "text": one pipeline, its document named by the time of the request,
\* which it may share with an upload under way but not with a stored one.
Upload(c) ==
    /\ pc[c] = "idle" /\ Yielded
    /\ \E j \in Job :
        /\ j.doc \in UploadDoc
        /\ \A row \in chunks \cup docs : row.doc # j.doc
        /\ Begin(c, j)
    /\ UNCHANGED <<storeVars, todo, found, last>>

\* Mode "s3": list the bucket.
IngestBucket(c) ==
    /\ pc[c] = "idle" /\ Yielded
    /\ \E files \in Batch : todo' = [todo EXCEPT ![c] = files]
    /\ \E v \in Vertical : job' = [job EXCEPT ![c].vertical = v]
    /\ pc' = [pc EXCEPT ![c] = "file"]
    /\ UNCHANGED <<storeVars, start, found, clean, last>>

\* Get the next file and run the pipeline on it.
NextFile(c) ==
    /\ pc[c] = "file" /\ Yielded
    /\ todo[c] # <<>>
    /\ todo' = [todo EXCEPT ![c] = Tail(@)]
    /\ Begin(c, [vertical |-> job[c].vertical,
                 doc |-> Head(todo[c]).doc, text |-> Head(todo[c]).text])
    /\ UNCHANGED <<storeVars, found, last>>

\* A file that cannot be read, or is empty, is passed over.
SkipFile(c) ==
    /\ pc[c] = "file" /\ Yielded
    /\ todo[c] # <<>>
    /\ todo' = [todo EXCEPT ![c] = Tail(@)]
    /\ UNCHANGED <<storeVars, pc, job, start, found, clean, last>>

Respond(c) ==
    /\ pc[c] = "file" /\ Yielded
    /\ todo[c] = <<>>
    /\ pc' = [pc EXCEPT ![c] = "done"]
    /\ job' = [job EXCEPT ![c] = SomeJob]
    /\ start' = [start EXCEPT ![c] = 0]
    /\ UNCHANGED <<storeVars, todo, found, clean, last>>

-----------------------------------------------------------------------------
(* The pipeline *)

\* One turn of the loop of chunkText. A chunk that reaches the end of the text
\* makes the next one start Overlap before it, and so on for ever.
CutChunk(c) ==
    /\ pc[c] = "cut"
    /\ LET length == LengthOf[job[c].text]
           end == IF start[c] + MaxChunkSize < length
                  THEN start[c] + MaxChunkSize ELSE length
           next == end - Overlap
       IN  /\ start' = [start EXCEPT ![c] = next]
           /\ pc' = [pc EXCEPT ![c] = IF next < length THEN "cut" ELSE "extract"]
    /\ UNCHANGED <<storeVars, todo, job, found, clean, last>>

\* What the model may answer: any entities and at most one relationship, or,
\* when it cannot be reached, what the regex extractor finds.
Answers(text) ==
    [entities : SUBSET Entity, relations : {{}} \cup {{p} : p \in Related}]
        \cup {[entities |-> Mentions[text], relations |-> {}]}

Extract(c) ==
    /\ pc[c] = "extract" /\ Yielded
    /\ \E answer \in Answers(job[c].text) : found' = [found EXCEPT ![c] = answer]
    /\ pc' = [pc EXCEPT ![c] = "store"]
    /\ UNCHANGED <<storeVars, todo, job, start, clean, last>>

\* The model answers JSON of another shape: what was pushed before the error
\* stays, and the error is reported.
ExtractFails(c) ==
    /\ pc[c] = "extract" /\ Yielded
    /\ \E entities \in SUBSET Entity :
        found' = [found EXCEPT ![c] = [entities |-> entities, relations |-> {}]]
    /\ clean' = [clean EXCEPT ![c] = FALSE]
    /\ pc' = [pc EXCEPT ![c] = "store"]
    /\ UNCHANGED <<storeVars, todo, job, start, last>>

Rows(doc) == {k \in chunks : k.doc = doc}

\* insertChunk: a row under this id keeps its vertical.
WithChunk(j) ==
    LET old == Rows(j.doc)
        vertical == IF old = {} THEN j.vertical ELSE (CHOOSE k \in old : TRUE).vertical
    IN  (chunks \ old) \cup {[doc |-> j.doc, vertical |-> vertical, text |-> j.text]}

\* insertDocument
WithRow(j, entities) ==
    {d \in docs : ~(d.vertical = j.vertical /\ d.doc = j.doc)}
        \cup {[vertical |-> j.vertical, doc |-> j.doc, entities |-> entities]}

\* A relationship is stored when one of its ends was extracted.
Kept(f) == {p \in f.relations : p[1] \in f.entities \/ p[2] \in f.entities}

\* Mutant: the row is written before the entities it lists.
InOrder_RowFirst(c, stored, linked, recorded) ==
    /\ linked # {} => stored = found[c].entities
    /\ ~recorded => stored = {} /\ linked = {}

\* An insert that fails ends the pipeline: entities, then edges, then the row.
InOrder(c, stored, linked, recorded) ==
    /\ linked # {} => stored = found[c].entities
    /\ recorded => stored = found[c].entities /\ linked = Kept(found[c])

\* Mutant: an error of insertChunk is caught and not reported.
Reported_Swallowed(c, chunked, recorded) == clean[c] /\ recorded

\* Both catch blocks push their error.
Reported(c, chunked, recorded) == clean[c] /\ chunked /\ recorded

\* Everything after embed(). A chunk that cannot be stored does not stop it.
Store(c) ==
    /\ pc[c] = "store" /\ Yielded
    /\ \E chunked, recorded \in BOOLEAN,
          stored \in SUBSET found[c].entities, linked \in SUBSET Kept(found[c]) :
        /\ InOrder(c, stored, linked, recorded)
        /\ chunks' = IF chunked THEN WithChunk(job[c]) ELSE chunks
        /\ nodes' = [nodes EXCEPT ![job[c].vertical] = @ \cup stored]
        /\ edges' = edges \cup {<<job[c].vertical, p[1], p[2]>> : p \in linked}
        /\ docs' = IF recorded THEN WithRow(job[c], found[c].entities) ELSE docs
        /\ last' = IF Reported(c, chunked, recorded)
                   THEN [job |-> job[c], entities |-> found[c].entities, clean |-> TRUE,
                         held |-> {k.vertical : k \in Rows(job[c].doc)}]
                   ELSE Unclean
    /\ found' = [found EXCEPT ![c] = Nothing]
    /\ clean' = [clean EXCEPT ![c] = TRUE]
    /\ pc' = [pc EXCEPT ![c] = "file"]
    /\ UNCHANGED <<todo, job, start>>

Pipeline(c) == CutChunk(c) \/ Extract(c) \/ ExtractFails(c) \/ Store(c)

Next == \E c \in Caller :
    \/ Upload(c) \/ IngestBucket(c)
    \/ NextFile(c) \/ SkipFile(c) \/ Respond(c)
    \/ Pipeline(c)

\* The event loop runs on whoever is under way; requests need not come.
Fairness == \A c \in Caller : WF_vars(Pipeline(c) \/ NextFile(c) \/ SkipFile(c) \/ Respond(c))

Spec == Init /\ [][Next]_vars /\ Fairness

-----------------------------------------------------------------------------
(* Properties *)

\* A pipeline that reports no error stored everything: the chunk holds its
\* text, where the search of its vertical finds it, its entities are nodes of the
\* vertical, and the document's row lists them, whatever another caller wrote
\* about the same document before (runExtractionPipeline). The exception is a
\* document that had a chunk in another vertical: its new text goes there, and
\* the report is as clean.
CleanReportIsStored ==
    last.clean =>
        LET j == last.job IN
        /\ \E k \in Rows(j.doc) :
              k.text = j.text /\ (k.vertical = j.vertical \/ k.vertical \in last.held)
        /\ last.entities \subseteq nodes[j.vertical]
        /\ [vertical |-> j.vertical, doc |-> j.doc, entities |-> last.entities] \in docs

\* What a document row lists as extracted is in the graph, however many
\* pipelines failed half-way (runExtractionPipeline).
RecordedEntitiesExist == \A d \in docs : d.entities \subseteq nodes[d.vertical]

\* chunkText cuts a text into pieces and returns them.
ChunkingEnds == \A c \in Caller : pc[c] = "cut" ~> pc[c] = "extract"
=============================================================================
