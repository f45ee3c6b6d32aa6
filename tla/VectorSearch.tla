---------------------------- MODULE VectorSearch ----------------------------
(***************************************************************************)
(* The vector half of Mode 2: src/lib/embeddings.ts, the chunks of         *)
(* src/lib/db/queries.ts, and what LocalOntologyProvider answers from them *)
(* while the server is started with one embeddings backend or the other    *)
(* and Titan fails now and then.                                           *)
(*                                                                         *)
(* A vector is the backend whose dimension it has and how similar it is to *)
(* the question's of the same backend.                                     *)
(***************************************************************************)
EXTENDS Integers, FiniteSets

CONSTANTS
    Chunk,   \* ids of chunks
    TopK     \* how many are retrieved

ASSUME SearchAssumption == TopK \in Nat \ {0}

VARIABLES
    backend,    \* EMBEDDINGS_BACKEND
    vector,     \* the vector of a stored chunk
    hits        \* the chunks the last question retrieved

searchVars == <<backend, vector, hits>>

Backend == {"local", "titan"}
Similarity == {-1, 1, 2}

SearchInit ==
    /\ backend = "local"
    /\ vector = <<>> /\ hits = {}

\* EMBEDDINGS_BACKEND is read at every call; a new value needs a restart.
SetBackend ==
    /\ \E b \in Backend : backend' = b
    /\ UNCHANGED <<vector, hits>>

\* embed: a Titan that fails is replaced by the local hashing.
Embedders == IF backend = "titan" THEN Backend ELSE {"local"}

\* insertChunk, of what embed returned. The embedding_backend that is stored with
\* it is the one that was configured, and is never read.
insertChunk ==
    /\ \E c \in Chunk, by \in Embedders, s \in Similarity :
         vector' = [k \in DOMAIN vector \cup {c} |->
                       IF k = c THEN [by |-> by, similarity |-> s] ELSE vector[k]]
    /\ UNCHANGED <<backend, hits>>

\* Mutant: the longer vector is cut to the length of the other.
cosineSimilarity_Cut(by, stored) == stored.similarity

\* Vectors of two lengths have nothing in common.
cosineSimilarity(by, stored) == IF stored.by = by THEN stored.similarity ELSE 0

\* The TopK chunks that score best; ties are in any order.
searchChunksByVector(by) ==
    {top \in SUBSET DOMAIN vector :
        /\ Cardinality(top) = IF Cardinality(DOMAIN vector) < TopK
                              THEN Cardinality(DOMAIN vector) ELSE TopK
        /\ \A c \in top, d \in DOMAIN vector \ top :
             cosineSimilarity(by, vector[c]) >= cosineSimilarity(by, vector[d])}

\* query in vector mode: the question is embedded as a chunk is. Without a hit
\* the answer says that nothing was embedded.
AskVector ==
    /\ \E by \in Embedders : \E top \in searchChunksByVector(by) :
         hits' = {[chunk |-> c, by |-> by] : c \in top}
    /\ UNCHANGED <<backend, vector>>

SearchNext == SetBackend \/ insertChunk \/ AskVector

-----------------------------------------------------------------------------
(* Property *)

\* Whatever backends embedded the chunks and the question, a chunk that is
\* similar to it is passed over only for chunks that are comparable and no less
\* similar: one of the other dimension never takes its place. (The action form:
\* the store may change after a question; the comment on cosineSimilarity.)
SimilarChunksWin ==
    [][hits' # hits =>
        \A h \in hits', c \in DOMAIN vector \ {k.chunk : k \in hits'} :
            vector[c].by = h.by /\ vector[c].similarity > 0 =>
                /\ vector[h.chunk].by = h.by
                /\ vector[h.chunk].similarity >= vector[c].similarity]_searchVars
=============================================================================
