----------------------------- MODULE QueryPath -----------------------------
(***************************************************************************)
(* CoaProvider.query: the paths of one question of the playground in Live  *)
(* COA, from POST /api/query to its answer, with the answers captured in   *)
(* advance and the script that captures them.                              *)
(*                                                                         *)
(* graph:   captured answer, or `query` over AgentCore, over REST, the     *)
(*          same once more, then the document chunks; then the subgraph.   *)
(* vector:  the document chunks, then a note when there are none.          *)
(*                                                                         *)
(* Tokens are the subject of CoaToken: a call here is answered or fails.   *)
(* A call takes up to its cap: the one of API Gateway for REST, that of    *)
(* the AbortController for AgentCore, the time boxes of this code for the  *)
(* rest. One vertical has one captured file; one scripted question is      *)
(* enough, the entries of the file do not depend on each other.            *)
(***************************************************************************)
EXTENDS Naturals

CONSTANTS
    Request,
    AgentCore,     \* COA_TRANSPORT, a valid endpoint and a token
    AgentCap,      \* timeoutMs of agentCoreQuery
    RestCap,       \* the integration timeout of API Gateway
    VectorBudget,  \* COA_VECTOR_TIMEOUT_MS
    NoteBudget,    \* the time box around listSourceTypes
    HeroBudget,    \* the time box around traverse, for a captured answer
    LiveBudget,    \* the same, for a live answer
    MaxWaited      \* bound: waits are counted up to here

ASSUME QueryAssumption ==
    /\ AgentCore \in BOOLEAN
    /\ {AgentCap, RestCap, VectorBudget, NoteBudget, HeroBudget, LiveBudget,
        MaxWaited} \subseteq Nat

\* A scripted question, one that contains it and is under 15 characters
\* longer, and any other.
Question == {"scripted", "near", "other"}

VARIABLES
    file,      \* the file of captured answers
    script,    \* what the capture script does
    entry,     \* it holds an answer to the scripted question
    loaded,    \* the server read the file
    memo,      \* and found the answer in it
    pc,        \* what each request waits for
    asked,     \* its mode, question, and whether it has an entry node
    attempt,   \* calls of runQuery
    result,    \* what COA answered to `query`
    waited,    \* ticks since the question
    response

captureVars == <<file, script, entry>>
serverVars == <<loaded, memo>>
requestVars == <<pc, asked, attempt, result, waited, response>>
vars == <<captureVars, serverVars, requestVars>>

\* "prose" is an answer, "rows" are Tier-2 rows without one, "empty" has no
\* prose and zero rows.
Result == {"prose", "rows", "empty"}

\* The chunks kb/search finds: none, some, or only such that formatting
\* leaves nothing of.
Chunks == {"text", "blank", "none"}

NoResponse == [kind |-> "none", answer |-> "none", label |-> "none"]

Response ==
    [kind : {"none", "ok", "error"},
     answer : {"none", "captured", "prose", "rows", "chunks"},
     label : {"none", "synthesized", "rows", "fallback", "timeout",
              "noDocuments", "noMatch"}]

Init ==
    /\ file \in {"absent", "empty", "answered"}
    /\ script = "idle" /\ entry = FALSE
    /\ loaded = FALSE /\ memo = FALSE
    /\ pc = [r \in Request |-> "idle"]
    /\ asked = [r \in Request |-> [mode |-> "graph", question |-> "other",
                                   node |-> FALSE]]
    /\ attempt = [r \in Request |-> 0]
    /\ result = [r \in Request |-> "none"]
    /\ waited = [r \in Request |-> 0]
    /\ response = [r \in Request |-> NoResponse]

-----------------------------------------------------------------------------
(* The script that captures answers *)

\* Substantial answers of an earlier run are kept, a file that cannot be read
\* counts as none.
ScriptStarts ==
    /\ script = "idle"
    /\ entry' = (file = "answered")
    /\ script' = IF entry' THEN "save" ELSE "ask"
    /\ UNCHANGED <<file, serverVars, requestVars>>

\* One of five attempts brings a substantial answer, or none does.
ScriptAsks ==
    /\ script = "ask"
    /\ entry' \in BOOLEAN
    /\ script' = "save"
    /\ UNCHANGED <<file, serverVars, requestVars>>

\* writeFileSync truncates the file before it writes.
ScriptTruncates ==
    /\ script = "save"
    /\ script' = "write" /\ file' = "torn"
    /\ UNCHANGED <<entry, serverVars, requestVars>>

ScriptWrites ==
    /\ script = "write"
    /\ script' = "idle"
    /\ file' = IF entry THEN "answered" ELSE "empty"
    /\ entry' = FALSE
    /\ UNCHANGED <<serverVars, requestVars>>

ScriptStops ==
    /\ script # "idle"
    /\ script' = "idle" /\ entry' = FALSE
    /\ UNCHANGED <<file, serverVars, requestVars>>

CaptureScript ==
    ScriptStarts \/ ScriptAsks \/ ScriptTruncates \/ ScriptWrites \/ ScriptStops

-----------------------------------------------------------------------------
(* A question arrives *)

\* Ticks of a call, counted up to the bound.
Waited(r, d) ==
    waited' = [waited EXCEPT ![r] = IF @ + d < MaxWaited THEN @ + d ELSE MaxWaited]

Wait(r, cap) == \E d \in 0 .. cap : Waited(r, d)

Call(r, step) == pc' = [pc EXCEPT ![r] = step]

\* The table the server holds: read once, empty when it cannot be read.
Table == IF loaded THEN memo ELSE file = "answered"

\* The contains-match serves near questions as well.
Matches(question) == question \in {"scripted", "near"} /\ Table

FirstTransport == IF AgentCore THEN "agent" ELSE "rest"

Reply(r, answer, label) ==
    /\ Call(r, "idle")
    /\ response' = [response EXCEPT
                      ![r] = [kind |-> "ok", answer |-> answer, label |-> label]]

Fail(r) ==
    /\ Call(r, "idle")
    /\ response' = [response EXCEPT
                      ![r] = [kind |-> "error", answer |-> "none", label |-> "none"]]

Begin(r, mode, question, node) ==
    /\ pc[r] = "idle"
    /\ asked' = [asked EXCEPT ![r] = [mode |-> mode, question |-> question,
                                      node |-> node]]
    /\ waited' = [waited EXCEPT ![r] = 0]

AskVector(r) ==
    \E question \in Question :
        /\ Begin(r, "vector", question, FALSE)
        /\ Call(r, "search")
        /\ attempt' = [attempt EXCEPT ![r] = 0]
        /\ result' = [result EXCEPT ![r] = "none"]
        /\ response' = [response EXCEPT ![r] = NoResponse]
        /\ UNCHANGED <<captureVars, serverVars>>

AskGraph(r) ==
    \E question \in Question, node \in BOOLEAN :
        /\ Begin(r, "graph", question, node)
        /\ loaded' = TRUE /\ memo' = Table
        /\ IF Matches(question)
           THEN /\ attempt' = [attempt EXCEPT ![r] = 0]
                /\ result' = [result EXCEPT ![r] = "captured"]
                /\ IF node
                   THEN /\ Call(r, "draw")
                        /\ response' = [response EXCEPT ![r] = NoResponse]
                   ELSE Reply(r, "captured", "synthesized")
           ELSE /\ attempt' = [attempt EXCEPT ![r] = 1]
                /\ result' = [result EXCEPT ![r] = "none"]
                /\ Call(r, FirstTransport)
                /\ response' = [response EXCEPT ![r] = NoResponse]
        /\ UNCHANGED <<captureVars>>

-----------------------------------------------------------------------------
(* graph *)

\* The answer and the label a result is rendered with.
Shown(res) ==
    CASE res = "rows"     -> <<"rows", "rows">>
      [] res = "prose"    -> <<"prose", "synthesized">>
      [] res = "captured" -> <<"captured", "synthesized">>
      [] OTHER            -> <<"none", "synthesized">>

Render(r, res) == Reply(r, Shown(res)[1], Shown(res)[2])

\* With an entry node, of the caller or of the result, the subgraph is drawn.
Answered(r) ==
    \E res \in Result, node \in BOOLEAN :
        /\ result' = [result EXCEPT ![r] = res]
        /\ IF asked[r].node \/ node
           THEN Call(r, "draw") /\ UNCHANGED response
           ELSE Render(r, res)
        /\ UNCHANGED attempt

\* The stream ended with a `done` frame, whatever it carried.
AgentAnswers(r) ==
    /\ pc[r] = "agent"
    /\ Wait(r, AgentCap)
    /\ Answered(r)
    /\ UNCHANGED <<captureVars, serverVars, asked>>

\* An error frame, no terminal frame, an HTTP error or the timeout: REST.
AgentFails(r) ==
    /\ pc[r] = "agent"
    /\ Wait(r, AgentCap)
    /\ Call(r, "rest")
    /\ UNCHANGED <<captureVars, serverVars, asked, attempt, result, response>>

RestAnswers(r) ==
    /\ pc[r] = "rest"
    /\ Wait(r, RestCap)
    /\ Answered(r)
    /\ UNCHANGED <<captureVars, serverVars, asked>>

\* Mutant: a 5xx is retried twice.
TryAgain_Twice(r, is5xx) == attempt[r] \in {1, 2} /\ is5xx

\* Only the first call is retried, and only when it failed with a 5xx.
TryAgain(r, is5xx) == attempt[r] = 1 /\ is5xx

\* Mutant: the retry is not counted.
RestFails_Uncounted(r) ==
    /\ pc[r] = "rest"
    /\ Wait(r, RestCap)
    /\ \E is5xx \in BOOLEAN :
         Call(r, IF TryAgain(r, is5xx) THEN FirstTransport ELSE "fallback")
    /\ UNCHANGED <<captureVars, serverVars, asked, attempt, result, response>>

\* A 5xx, or any other failure.
RestFails(r) ==
    /\ pc[r] = "rest"
    /\ Wait(r, RestCap)
    /\ \E is5xx \in BOOLEAN :
         IF TryAgain(r, is5xx)
         THEN /\ attempt' = [attempt EXCEPT ![r] = @ + 1]
              /\ Call(r, FirstTransport)
         ELSE Call(r, "fallback") /\ UNCHANGED attempt
    /\ UNCHANGED <<captureVars, serverVars, asked, result, response>>

Format(chunks) == IF chunks = "text" THEN "chunks" ELSE "none"

\* The fallback has no time box of its own and does not look at the count.
FallbackAnswers(r) ==
    /\ pc[r] = "fallback"
    /\ Wait(r, RestCap)
    /\ \E chunks \in Chunks : Reply(r, Format(chunks), "fallback")
    /\ UNCHANGED <<captureVars, serverVars, asked, attempt, result>>

FallbackFails(r) ==
    /\ pc[r] = "fallback"
    /\ Wait(r, RestCap)
    /\ Fail(r)
    /\ UNCHANGED <<captureVars, serverVars, asked, attempt, result>>

DrawBudget(r) == IF result[r] = "captured" THEN HeroBudget ELSE LiveBudget

\* Mutant: the traversal's failure is the request's.
DrawEnds_Throws(r) ==
    /\ pc[r] = "draw"
    /\ Wait(r, DrawBudget(r))
    /\ Render(r, result[r]) \/ Fail(r)
    /\ UNCHANGED <<captureVars, serverVars, asked, attempt, result>>

\* The subgraph arrived, failed or ran out of its time box: the answer is
\* the same, with or without it.
DrawEnds(r) ==
    /\ pc[r] = "draw"
    /\ Wait(r, DrawBudget(r))
    /\ Render(r, result[r])
    /\ UNCHANGED <<captureVars, serverVars, asked, attempt, result>>

-----------------------------------------------------------------------------
(* vector *)

SearchAnswers(r) ==
    /\ pc[r] = "search"
    /\ Wait(r, VectorBudget)
    /\ \/ \E chunks \in Chunks \ {"none"} : Reply(r, Format(chunks), "none")
       \/ Call(r, "explain") /\ UNCHANGED response
    /\ UNCHANGED <<captureVars, serverVars, asked, attempt, result>>

\* The budget elapsed: a note, and no error.
SearchTimesOut(r) ==
    /\ pc[r] = "search"
    /\ Waited(r, VectorBudget)
    /\ Reply(r, "none", "timeout")
    /\ UNCHANGED <<captureVars, serverVars, asked, attempt, result>>

SearchFails(r) ==
    /\ pc[r] = "search"
    /\ Wait(r, VectorBudget)
    /\ Fail(r)
    /\ UNCHANGED <<captureVars, serverVars, asked, attempt, result>>

\* listSourceTypes knows that no source has documents, or it does not.
NoteReady(r) ==
    /\ pc[r] = "explain"
    /\ Wait(r, NoteBudget)
    /\ \E note \in {"noDocuments", "noMatch"} : Reply(r, "none", note)
    /\ UNCHANGED <<captureVars, serverVars, asked, attempt, result>>

-----------------------------------------------------------------------------

Ask(r) == AskVector(r) \/ AskGraph(r)

Continue(r) ==
    \/ AgentAnswers(r) \/ AgentFails(r) \/ RestAnswers(r) \/ RestFails(r)
    \/ FallbackAnswers(r) \/ FallbackFails(r) \/ DrawEnds(r)
    \/ SearchAnswers(r) \/ SearchTimesOut(r) \/ SearchFails(r) \/ NoteReady(r)

Next == CaptureScript \/ \E r \in Request : Ask(r) \/ Continue(r)

\* Every call a request waits for is answered, fails or runs out of time: the
\* gateway, the AbortController and the time boxes of the code see to it.
Fairness == \A r \in Request : WF_vars(Continue(r))

Spec == Init /\ [][Next]_vars /\ Fairness

-----------------------------------------------------------------------------
(* Properties *)

TypeOK ==
    /\ file \in {"absent", "torn", "empty", "answered"}
    /\ script \in {"idle", "ask", "save", "write"} /\ entry \in BOOLEAN
    /\ loaded \in BOOLEAN /\ memo \in BOOLEAN
    /\ pc \in [Request -> {"idle", "search", "explain", "agent", "rest",
                           "fallback", "draw"}]
    /\ asked \in [Request -> [mode : {"vector", "graph"}, question : Question,
                              node : BOOLEAN]]
    /\ attempt \in [Request -> Nat]
    /\ result \in [Request -> Result \cup {"none", "captured"}]
    /\ waited \in [Request -> 0 .. MaxWaited]
    /\ response \in [Request -> Response]

Longer(m, n) == IF m < n THEN n ELSE m

\* The longest a question can take: nothing but its time box for a captured
\* one, else two calls over both transports, then the fallback or the drawing.
Limit(r) ==
    IF asked[r].mode = "vector" THEN VectorBudget + NoteBudget
    ELSE IF result[r] = "captured" THEN HeroBudget
    ELSE 2 * ((IF AgentCore THEN AgentCap ELSE 0) + RestCap)
           + Longer(RestCap, LiveBudget)

\* However its calls end, a question waits no longer than its limit: a
\* captured answer is shown within the time box of its drawing, and failures
\* of the transports and of the retry do not multiply.
WaitIsBounded == \A r \in Request : waited[r] <= Limit(r)

\* An answer COA gave is what the user gets: neither a failed or slow drawing
\* nor an earlier failure turns it into an error or into document chunks.
SynthesisWins ==
    \A r \in Request :
        result[r] # "none" =>
            /\ pc[r] \in {"draw", "idle"}
            /\ response[r].kind # "error"
            /\ response[r].label # "fallback"
            /\ response[r].kind = "ok" /\ result[r] # "empty" =>
                 response[r].answer = result[r]

\* Every question ends, in an answer or an error.
EveryQuestionEnds == \A r \in Request : pc[r] # "idle" ~> pc[r] = "idle"
=============================================================================
