--------------------------- MODULE QueryPathProofs ---------------------------
(***************************************************************************)
(* What a question gets, and how long it waits, for every cap and budget.  *)
(***************************************************************************)
EXTENDS QueryPath, TLAPS

AgentWait == IF AgentCore THEN AgentCap ELSE 0

\* Where a request is says what it knows.
Progress ==
    \A r \in Request :
        /\ pc[r] \in {"search", "explain"} => asked[r].mode = "vector"
        /\ pc[r] \in {"agent", "rest", "fallback"} =>
             asked[r].mode = "graph" /\ result[r] = "none"
        /\ pc[r] \in {"agent", "rest"} => attempt[r] \in {1, 2}
        /\ pc[r] = "agent" => AgentCore
        /\ pc[r] = "draw" => asked[r].mode = "graph" /\ result[r] # "none"
        /\ pc[r] # "idle" => response[r] = NoResponse
        /\ asked[r].mode = "vector" => result[r] = "none"

\* What a request has waited when it is there.
Spent ==
    \A r \in Request :
        /\ pc[r] = "search" => waited[r] = 0
        /\ pc[r] = "explain" => waited[r] <= VectorBudget
        /\ pc[r] = "agent" =>
             waited[r] <= IF attempt[r] = 1 THEN 0 ELSE AgentWait + RestCap
        /\ pc[r] = "rest" =>
             waited[r] <= IF attempt[r] = 1 THEN AgentWait ELSE AgentWait + RestCap + AgentWait
        /\ pc[r] = "fallback" => waited[r] <= 2 * (AgentWait + RestCap)
        /\ pc[r] = "draw" =>
             waited[r] <= IF result[r] = "captured" THEN 0 ELSE 2 * (AgentWait + RestCap)
        /\ pc[r] = "idle" => waited[r] <= Limit(r)

IInv == TypeOK /\ Progress /\ Spent /\ SynthesisWins

-----------------------------------------------------------------------------
(* Waits and results *)

\* A wait adds what the call took, and nothing to other requests.
LEMMA WaitAdds ==
    ASSUME TypeOK, NEW r \in Request, NEW cap \in Nat, Wait(r, cap)
    PROVE  /\ waited' \in [Request -> 0 .. MaxWaited]
           /\ waited'[r] <= waited[r] + cap
           /\ \A q \in Request : q # r => waited'[q] = waited[q]
<1>1. PICK d \in 0 .. cap : Waited(r, d)
  BY DEF Wait
<1>2. waited[r] \in 0 .. MaxWaited /\ MaxWaited \in Nat /\ d \in Nat /\ d <= cap
  BY QueryAssumption DEF TypeOK
<1>3. waited'[r] = IF waited[r] + d < MaxWaited THEN waited[r] + d ELSE MaxWaited
  BY <1>1 DEF Waited, TypeOK
<1>4. waited'[r] \in 0 .. MaxWaited /\ waited'[r] <= waited[r] + cap
  BY <1>2, <1>3
<1>5. waited' \in [Request -> 0 .. MaxWaited]
  BY <1>1, <1>2, <1>4 DEF Waited, TypeOK
<1>6. QED
  BY <1>1, <1>4, <1>5 DEF Waited, TypeOK

\* The budgets are numbers.
LEMMA Caps ==
    /\ AgentCap \in Nat /\ RestCap \in Nat /\ VectorBudget \in Nat /\ NoteBudget \in Nat
    /\ HeroBudget \in Nat /\ LiveBudget \in Nat /\ AgentWait \in Nat /\ AgentCore \in BOOLEAN
    /\ MaxWaited \in Nat
    /\ \A r \in Request : DrawBudget(r) \in Nat
    /\ AgentCore => AgentWait = AgentCap
BY QueryAssumption DEF AgentWait, DrawBudget

\* A result is shown as itself, unless it is empty.
LEMMA ShownResult ==
    ASSUME NEW res \in Result \cup {"captured"}
    PROVE  /\ res # "empty" => Shown(res)[1] = res
           /\ Shown(res)[1] \in {"none", "captured", "prose", "rows", "chunks"}
           /\ Shown(res)[2] \in {"synthesized", "rows"}
<1>1. CASE res = "rows"
  BY <1>1 DEF Shown
<1>2. CASE res = "prose"
  BY <1>2 DEF Shown
<1>3. CASE res = "captured"
  BY <1>3 DEF Shown
<1>4. CASE res = "empty"
  BY <1>4 DEF Shown
<1>5. QED
  BY <1>1, <1>2, <1>3, <1>4 DEF Result

-----------------------------------------------------------------------------
(* Every step keeps every part of IInv *)

\* Types are kept.
LEMMA TypeStep == TypeOK /\ Progress /\ [Next]_vars => TypeOK'
<1> SUFFICES ASSUME TypeOK, Progress, [Next]_vars PROVE TypeOK'
  OBVIOUS
<1>1. CASE CaptureScript
  BY <1>1 DEF CaptureScript, ScriptStarts, ScriptAsks, ScriptTruncates, ScriptWrites, ScriptStops,
              serverVars, requestVars, TypeOK
<1>2. ASSUME NEW r \in Request, AskVector(r) PROVE TypeOK'
  <2>1. PICK question \in Question : Begin(r, "vector", question, FALSE)
    BY <1>2 DEF AskVector
  <2>2. asked' \in [Request -> [mode : {"vector", "graph"}, question : Question, node : BOOLEAN]]
        /\ waited' \in [Request -> 0 .. MaxWaited]
    BY <2>1, Caps DEF Begin, TypeOK
  <2>3. NoResponse \in Response
    BY DEF NoResponse, Response
  <2>4. response' \in [Request -> Response] /\ pc' \in [Request -> {"idle", "search", "explain", "agent", "rest", "fallback", "draw"}]
    BY <1>2, <2>3 DEF AskVector, Call, TypeOK
  <2>5. attempt' \in [Request -> Nat] /\ result' \in [Request -> Result \cup {"none", "captured"}]
    BY <1>2 DEF AskVector, TypeOK
  <2>6. QED
    BY <1>2, <2>2, <2>4, <2>5 DEF AskVector, TypeOK, captureVars, serverVars
<1>3. ASSUME NEW r \in Request, AskGraph(r) PROVE TypeOK'
  <2>1. PICK question \in Question, node \in BOOLEAN : Begin(r, "graph", question, node)
    BY <1>3 DEF AskGraph
  <2>2. asked' \in [Request -> [mode : {"vector", "graph"}, question : Question, node : BOOLEAN]]
        /\ waited' \in [Request -> 0 .. MaxWaited]
    BY <2>1, Caps DEF Begin, TypeOK
  <2>3. NoResponse \in Response
    BY DEF NoResponse, Response
  <2>4. [kind |-> "ok", answer |-> "captured", label |-> "synthesized"] \in Response
    BY DEF Response
  <2>5. response' \in [Request -> Response] /\ pc' \in [Request -> {"idle", "search", "explain", "agent", "rest", "fallback", "draw"}]
    BY <1>3, <2>3, <2>4 DEF AskGraph, Reply, Call, FirstTransport, TypeOK
  <2>6. attempt' \in [Request -> Nat] /\ result' \in [Request -> Result \cup {"none", "captured"}]
    BY <1>3 DEF AskGraph, TypeOK
  <2>7. loaded' \in BOOLEAN /\ memo' \in BOOLEAN
    BY <1>3 DEF AskGraph, Table, TypeOK
  <2>8. QED
    BY <1>3, <2>2, <2>5, <2>6, <2>7 DEF AskGraph, TypeOK, captureVars
<1>4. ASSUME NEW r \in Request, AgentAnswers(r) PROVE TypeOK'
  <2>1. Wait(r, AgentCap)
    BY <1>4 DEF AgentAnswers
  <2>2. waited' \in [Request -> 0 .. MaxWaited]
    BY <2>1, Caps, WaitAdds
  <2>3. PICK res \in Result, node \in BOOLEAN :
          /\ result' = [result EXCEPT ![r] = res]
          /\ IF asked[r].node \/ node THEN Call(r, "draw") /\ UNCHANGED response
             ELSE Render(r, res)
          /\ UNCHANGED attempt
    BY <1>4 DEF AgentAnswers, Answered
  <2>4. [kind |-> "ok", answer |-> Shown(res)[1], label |-> Shown(res)[2]] \in Response
    BY ShownResult DEF Response
  <2>5. response' \in [Request -> Response] /\ pc' \in [Request -> {"idle", "search", "explain", "agent", "rest", "fallback", "draw"}]
    BY <2>3, <2>4 DEF Call, Render, Reply, TypeOK
  <2>6. result' \in [Request -> Result \cup {"none", "captured"}]
    BY <2>3 DEF TypeOK
  <2>7. QED
    BY <1>4, <2>2, <2>3, <2>5, <2>6 DEF AgentAnswers, TypeOK, captureVars, serverVars
<1>5. ASSUME NEW r \in Request, AgentFails(r) PROVE TypeOK'
  <2>1. Wait(r, AgentCap)
    BY <1>5 DEF AgentFails
  <2>2. waited' \in [Request -> 0 .. MaxWaited]
    BY <2>1, Caps, WaitAdds
  <2>3. response' \in [Request -> Response] /\ pc' \in [Request -> {"idle", "search", "explain", "agent", "rest", "fallback", "draw"}]
    BY <1>5 DEF AgentFails, Call, Format, Response, TypeOK
  <2>4. QED
    BY <1>5, <2>2, <2>3 DEF AgentFails, TypeOK, captureVars, serverVars
<1>6. ASSUME NEW r \in Request, RestAnswers(r) PROVE TypeOK'
  <2>1. Wait(r, RestCap)
    BY <1>6 DEF RestAnswers
  <2>2. waited' \in [Request -> 0 .. MaxWaited]
    BY <2>1, Caps, WaitAdds
  <2>3. PICK res \in Result, node \in BOOLEAN :
          /\ result' = [result EXCEPT ![r] = res]
          /\ IF asked[r].node \/ node THEN Call(r, "draw") /\ UNCHANGED response
             ELSE Render(r, res)
          /\ UNCHANGED attempt
    BY <1>6 DEF RestAnswers, Answered
  <2>4. [kind |-> "ok", answer |-> Shown(res)[1], label |-> Shown(res)[2]] \in Response
    BY ShownResult DEF Response
  <2>5. response' \in [Request -> Response] /\ pc' \in [Request -> {"idle", "search", "explain", "agent", "rest", "fallback", "draw"}]
    BY <2>3, <2>4 DEF Call, Render, Reply, TypeOK
  <2>6. result' \in [Request -> Result \cup {"none", "captured"}]
    BY <2>3 DEF TypeOK
  <2>7. QED
    BY <1>6, <2>2, <2>3, <2>5, <2>6 DEF RestAnswers, TypeOK, captureVars, serverVars
<1>7. ASSUME NEW r \in Request, RestFails(r) PROVE TypeOK'
  <2>1. Wait(r, RestCap)
    BY <1>7 DEF RestFails
  <2>2. waited' \in [Request -> 0 .. MaxWaited]
    BY <2>1, Caps, WaitAdds
  <2>3. response' \in [Request -> Response] /\ pc' \in [Request -> {"idle", "search", "explain", "agent", "rest", "fallback", "draw"}]
    BY <1>7 DEF RestFails, Call, TryAgain, FirstTransport, Format, Response, TypeOK
  <2>4. QED
    BY <1>7, <2>2, <2>3 DEF RestFails, TryAgain, TypeOK, captureVars, serverVars
<1>8. ASSUME NEW r \in Request, FallbackAnswers(r) PROVE TypeOK'
  <2>1. Wait(r, RestCap)
    BY <1>8 DEF FallbackAnswers
  <2>2. waited' \in [Request -> 0 .. MaxWaited]
    BY <2>1, Caps, WaitAdds
  <2>3. response' \in [Request -> Response] /\ pc' \in [Request -> {"idle", "search", "explain", "agent", "rest", "fallback", "draw"}]
    BY <1>8 DEF FallbackAnswers, Reply, Call, Format, Response, TypeOK
  <2>4. QED
    BY <1>8, <2>2, <2>3 DEF FallbackAnswers, TypeOK, captureVars, serverVars
<1>9. ASSUME NEW r \in Request, FallbackFails(r) PROVE TypeOK'
  <2>1. Wait(r, RestCap)
    BY <1>9 DEF FallbackFails
  <2>2. waited' \in [Request -> 0 .. MaxWaited]
    BY <2>1, Caps, WaitAdds
  <2>3. response' \in [Request -> Response] /\ pc' \in [Request -> {"idle", "search", "explain", "agent", "rest", "fallback", "draw"}]
    BY <1>9 DEF FallbackFails, Fail, Call, Format, Response, TypeOK
  <2>4. QED
    BY <1>9, <2>2, <2>3 DEF FallbackFails, TypeOK, captureVars, serverVars
<1>10. ASSUME NEW r \in Request, DrawEnds(r) PROVE TypeOK'
  <2>1. Wait(r, DrawBudget(r))
    BY <1>10 DEF DrawEnds
  <2>2. waited' \in [Request -> 0 .. MaxWaited]
    BY <2>1, Caps, WaitAdds
  <2>3. result[r] \in Result \cup {"captured"}
    BY <1>10 DEF DrawEnds, TypeOK, Progress
  <2>4. [kind |-> "ok", answer |-> Shown(result[r])[1], label |-> Shown(result[r])[2]] \in Response
    BY <2>3, ShownResult DEF Response
  <2>5. response' \in [Request -> Response] /\ pc' \in [Request -> {"idle", "search", "explain", "agent", "rest", "fallback", "draw"}]
    BY <1>10, <2>4 DEF DrawEnds, Call, Render, Reply, TypeOK
  <2>6. QED
    BY <1>10, <2>2, <2>5 DEF DrawEnds, TypeOK, captureVars, serverVars
<1>11. ASSUME NEW r \in Request, SearchAnswers(r) PROVE TypeOK'
  <2>1. Wait(r, VectorBudget)
    BY <1>11 DEF SearchAnswers
  <2>2. waited' \in [Request -> 0 .. MaxWaited]
    BY <2>1, Caps, WaitAdds
  <2>3. \A chunks : [kind |-> "ok", answer |-> Format(chunks), label |-> "none"] \in Response
    BY DEF Format, Response
  <2>4. response' \in [Request -> Response] /\ pc' \in [Request -> {"idle", "search", "explain", "agent", "rest", "fallback", "draw"}]
    BY <1>11, <2>3 DEF SearchAnswers, Reply, Call, TypeOK
  <2>5. QED
    BY <1>11, <2>2, <2>4 DEF SearchAnswers, TypeOK, captureVars, serverVars
<1>12. ASSUME NEW r \in Request, SearchTimesOut(r) PROVE TypeOK'
  <2>1. Wait(r, VectorBudget)
    BY <1>12, Caps DEF SearchTimesOut, Wait
  <2>2. waited' \in [Request -> 0 .. MaxWaited]
    BY <2>1, Caps, WaitAdds
  <2>3. response' \in [Request -> Response] /\ pc' \in [Request -> {"idle", "search", "explain", "agent", "rest", "fallback", "draw"}]
    BY <1>12 DEF SearchTimesOut, Reply, Call, Format, Response, TypeOK
  <2>4. QED
    BY <1>12, <2>2, <2>3 DEF SearchTimesOut, TypeOK, captureVars, serverVars
<1>13. ASSUME NEW r \in Request, SearchFails(r) PROVE TypeOK'
  <2>1. Wait(r, VectorBudget)
    BY <1>13 DEF SearchFails
  <2>2. waited' \in [Request -> 0 .. MaxWaited]
    BY <2>1, Caps, WaitAdds
  <2>3. response' \in [Request -> Response] /\ pc' \in [Request -> {"idle", "search", "explain", "agent", "rest", "fallback", "draw"}]
    BY <1>13 DEF SearchFails, Fail, Call, Format, Response, TypeOK
  <2>4. QED
    BY <1>13, <2>2, <2>3 DEF SearchFails, TypeOK, captureVars, serverVars
<1>14. ASSUME NEW r \in Request, NoteReady(r) PROVE TypeOK'
  <2>1. Wait(r, NoteBudget)
    BY <1>14 DEF NoteReady
  <2>2. waited' \in [Request -> 0 .. MaxWaited]
    BY <2>1, Caps, WaitAdds
  <2>3. response' \in [Request -> Response] /\ pc' \in [Request -> {"idle", "search", "explain", "agent", "rest", "fallback", "draw"}]
    BY <1>14 DEF NoteReady, Reply, Call, Format, Response, TypeOK
  <2>4. QED
    BY <1>14, <2>2, <2>3 DEF NoteReady, TypeOK, captureVars, serverVars
<1>15. CASE UNCHANGED vars
  BY <1>15 DEF TypeOK, vars, captureVars, serverVars, requestVars
<1>16. QED
  BY <1>1, <1>2, <1>3, <1>4, <1>5, <1>6, <1>7, <1>8, <1>9, <1>10, <1>11, <1>12, <1>13,
     <1>14, <1>15 DEF Next, Ask, Continue

\* A request knows what its step says.
LEMMA ProgressStep == TypeOK /\ Progress /\ [Next]_vars => Progress'
<1> SUFFICES ASSUME TypeOK, Progress, [Next]_vars PROVE Progress'
  OBVIOUS
<1> USE DEF TypeOK, Progress
<1>1. CASE CaptureScript
  BY <1>1 DEF CaptureScript, ScriptStarts, ScriptAsks, ScriptTruncates, ScriptWrites, ScriptStops,
              requestVars
<1>2. ASSUME NEW r \in Request, AskVector(r) PROVE Progress'
  BY <1>2 DEF AskVector, Begin, Call, NoResponse
<1>3. ASSUME NEW r \in Request, AskGraph(r) PROVE Progress'
  <2>1. PICK question \in Question, node \in BOOLEAN : Begin(r, "graph", question, node)
    BY <1>3 DEF AskGraph
  <2>2. asked'[r].mode = "graph" /\ \A q \in Request : q # r => asked'[q] = asked[q]
    BY <2>1 DEF Begin
  <2>3. \A q \in Request : q # r =>
          /\ pc'[q] = pc[q] /\ result'[q] = result[q] /\ attempt'[q] = attempt[q]
          /\ response'[q] = response[q]
    BY <1>3 DEF AskGraph, Call, Reply
  <2>4. /\ pc'[r] \in {"agent", "rest"} => result'[r] = "none" /\ attempt'[r] = 1
        /\ pc'[r] = "agent" => AgentCore
        /\ pc'[r] = "draw" => result'[r] = "captured"
        /\ pc'[r] # "idle" => response'[r] = NoResponse
        /\ pc'[r] \in {"agent", "rest", "draw", "idle"}
    BY <1>3, Caps DEF AskGraph, Call, Reply, FirstTransport
  <2>5. QED
    BY <2>2, <2>3, <2>4
<1>4. ASSUME NEW r \in Request, AgentAnswers(r) PROVE Progress'
  <2>1. result'[r] # "none" /\ asked' = asked /\ attempt' = attempt
    BY <1>4 DEF AgentAnswers, Answered, Result
  <2>2. \A q \in Request : q # r => result'[q] = result[q] /\ pc'[q] = pc[q] /\ response'[q] = response[q]
    BY <1>4 DEF AgentAnswers, Answered, Call, Render, Reply
  <2>3. pc'[r] \in {"draw", "idle"} /\ (pc'[r] = "draw" => response'[r] = response[r])
    BY <1>4 DEF AgentAnswers, Answered, Call, Render, Reply
  <2>4. asked[r].mode = "graph"
    BY <1>4 DEF AgentAnswers
  <2>5. QED
    BY <1>4, <2>1, <2>2, <2>3, <2>4 DEF AgentAnswers
<1>5. ASSUME NEW r \in Request, AgentFails(r) PROVE Progress'
  BY <1>5 DEF AgentFails, Call, NoResponse
<1>6. ASSUME NEW r \in Request, RestAnswers(r) PROVE Progress'
  <2>1. result'[r] # "none" /\ asked' = asked /\ attempt' = attempt
    BY <1>6 DEF RestAnswers, Answered, Result
  <2>2. \A q \in Request : q # r => result'[q] = result[q] /\ pc'[q] = pc[q] /\ response'[q] = response[q]
    BY <1>6 DEF RestAnswers, Answered, Call, Render, Reply
  <2>3. pc'[r] \in {"draw", "idle"} /\ (pc'[r] = "draw" => response'[r] = response[r])
    BY <1>6 DEF RestAnswers, Answered, Call, Render, Reply
  <2>4. asked[r].mode = "graph"
    BY <1>6 DEF RestAnswers
  <2>5. QED
    BY <1>6, <2>1, <2>2, <2>3, <2>4 DEF RestAnswers
<1>7. ASSUME NEW r \in Request, RestFails(r) PROVE Progress'
  BY <1>7 DEF RestFails, Call, TryAgain, FirstTransport, NoResponse
<1>8. ASSUME NEW r \in Request, FallbackAnswers(r) PROVE Progress'
  BY <1>8 DEF FallbackAnswers, Reply, Call, NoResponse
<1>9. ASSUME NEW r \in Request, FallbackFails(r) PROVE Progress'
  BY <1>9 DEF FallbackFails, Fail, Call, NoResponse
<1>10. ASSUME NEW r \in Request, DrawEnds(r) PROVE Progress'
  BY <1>10 DEF DrawEnds, Render, Reply, Call, NoResponse
<1>11. ASSUME NEW r \in Request, SearchAnswers(r) PROVE Progress'
  BY <1>11 DEF SearchAnswers, Reply, Call, NoResponse
<1>12. ASSUME NEW r \in Request, SearchTimesOut(r) PROVE Progress'
  BY <1>12 DEF SearchTimesOut, Reply, Call, NoResponse
<1>13. ASSUME NEW r \in Request, SearchFails(r) PROVE Progress'
  BY <1>13 DEF SearchFails, Fail, Call, NoResponse
<1>14. ASSUME NEW r \in Request, NoteReady(r) PROVE Progress'
  BY <1>14 DEF NoteReady, Reply, Call, NoResponse
<1>15. CASE UNCHANGED vars
  BY <1>15 DEF vars, captureVars, serverVars, requestVars
<1>16. QED
  BY <1>1, <1>2, <1>3, <1>4, <1>5, <1>6, <1>7, <1>8, <1>9, <1>10, <1>11, <1>12, <1>13,
     <1>14, <1>15 DEF Next, Ask, Continue

\* Every way to a step costs at most what Spent allows there.
LEMMA SpentStep == TypeOK /\ Progress /\ Spent /\ [Next]_vars => Spent'
<1> SUFFICES ASSUME TypeOK, Progress, Spent, [Next]_vars PROVE Spent'
  OBVIOUS
<1> USE DEF TypeOK, Progress, Spent
<1>1. CASE CaptureScript
  <2>1. UNCHANGED requestVars
    BY <1>1 DEF CaptureScript, ScriptStarts, ScriptAsks, ScriptTruncates, ScriptWrites, ScriptStops
  <2>2. \A q \in Request : Limit(q)' = Limit(q)
    BY <2>1 DEF requestVars, Limit
  <2>3. QED
    BY <2>1, <2>2 DEF requestVars
<1>2. ASSUME NEW r \in Request, AskVector(r) PROVE Spent'
  <2>1. \E question \in Question : Begin(r, "vector", question, FALSE)
    BY <1>2 DEF AskVector
  <2>2. waited'[r] = 0 /\ \A q \in Request : q # r => waited'[q] = waited[q] /\ asked'[q] = asked[q]
    BY <2>1 DEF Begin
  <2>3. \A q \in Request : q # r =>
          pc'[q] = pc[q] /\ attempt'[q] = attempt[q] /\ result'[q] = result[q]
    BY <1>2 DEF AskVector, Call
  <2>4. \A q \in Request : q # r => Limit(q)' = Limit(q)
    BY <2>2, <2>3 DEF Limit
  <2>5. 0 <= Limit(r)' /\ 0 <= 2 * (AgentWait + RestCap) /\ 0 <= AgentWait
        /\ 0 <= AgentWait + RestCap /\ 0 <= AgentWait + RestCap + AgentWait
    BY Caps DEF Limit, Longer
  <2>6. QED
    BY <2>2, <2>3, <2>4, <2>5, Caps
<1>3. ASSUME NEW r \in Request, AskGraph(r) PROVE Spent'
  <2>1. \E question \in Question, node \in BOOLEAN : Begin(r, "graph", question, node)
    BY <1>3 DEF AskGraph
  <2>2. waited'[r] = 0 /\ \A q \in Request : q # r => waited'[q] = waited[q] /\ asked'[q] = asked[q]
    BY <2>1 DEF Begin
  <2>3. \A q \in Request : q # r =>
          pc'[q] = pc[q] /\ attempt'[q] = attempt[q] /\ result'[q] = result[q]
    BY <1>3 DEF AskGraph, Call, Reply
  <2>4. \A q \in Request : q # r => Limit(q)' = Limit(q)
    BY <2>2, <2>3 DEF Limit
  <2>5. 0 <= Limit(r)' /\ 0 <= 2 * (AgentWait + RestCap) /\ 0 <= AgentWait
        /\ 0 <= AgentWait + RestCap /\ 0 <= AgentWait + RestCap + AgentWait
    BY Caps DEF Limit, Longer
  <2>6. QED
    BY <2>2, <2>3, <2>4, <2>5, Caps
<1>4. ASSUME NEW r \in Request, AgentAnswers(r) PROVE Spent'
  <2>1. Wait(r, AgentCap)
    BY <1>4 DEF AgentAnswers
  <2>2. /\ waited' \in [Request -> 0 .. MaxWaited] /\ waited'[r] <= waited[r] + AgentCap
        /\ \A q \in Request : q # r => waited'[q] = waited[q]
    BY <2>1, Caps, WaitAdds
  <2>3. \A q \in Request : q # r =>
          /\ pc'[q] = pc[q] /\ attempt'[q] = attempt[q] /\ result'[q] = result[q]
          /\ asked'[q] = asked[q]
    BY <1>4 DEF AgentAnswers, Answered, Call, Render, Reply
  <2>4. /\ pc'[r] \in {"draw", "idle"} /\ result'[r] \in Result /\ asked'[r].mode = "graph"
        /\ waited[r] <= AgentWait + RestCap
    BY <1>4, Caps DEF AgentAnswers, Answered, Call, Render, Reply
  <2>5. \A q \in Request : q # r => Limit(q)' = Limit(q)
    BY <2>3 DEF Limit
  <2>6. waited'[r] <= 2 * (AgentWait + RestCap)
    BY <2>2, <2>4, Caps, <1>4 DEF AgentAnswers
  <2>7. Limit(r)' = 2 * (AgentWait + RestCap) + Longer(RestCap, LiveBudget) /\ result'[r] # "captured"
    BY <2>4 DEF Limit, AgentWait, Result
  <2>8. waited'[r] <= Limit(r)'
    BY <2>2, <2>6, <2>7, Caps DEF Longer
  <2>9. QED
    BY <2>2, <2>3, <2>4, <2>5, <2>6, <2>7, <2>8
<1>5. ASSUME NEW r \in Request, AgentFails(r) PROVE Spent'
  <2>1. Wait(r, AgentCap)
    BY <1>5 DEF AgentFails
  <2>2. /\ waited' \in [Request -> 0 .. MaxWaited] /\ waited'[r] <= waited[r] + AgentCap
        /\ \A q \in Request : q # r => waited'[q] = waited[q]
    BY <2>1, Caps, WaitAdds
  <2>3. \A q \in Request : q # r =>
          /\ pc'[q] = pc[q] /\ attempt'[q] = attempt[q] /\ result'[q] = result[q]
          /\ asked'[q] = asked[q]
    BY <1>5 DEF AgentFails, Call
  <2>4. /\ pc'[r] = "rest" /\ attempt'[r] = attempt[r] /\ attempt[r] \in {1, 2} /\ AgentCore
        /\ waited[r] <= IF attempt[r] = 1 THEN 0 ELSE AgentWait + RestCap
    BY <1>5 DEF AgentFails, Call
  <2>5. \A q \in Request : q # r => Limit(q)' = Limit(q)
    BY <2>3 DEF Limit
  <2>6. waited'[r] <= IF attempt'[r] = 1 THEN AgentWait ELSE AgentWait + RestCap + AgentWait
    BY <2>2, <2>4, Caps
  <2>7. QED
    BY <2>2, <2>3, <2>4, <2>5, <2>6
<1>6. ASSUME NEW r \in Request, RestAnswers(r) PROVE Spent'
  <2>1. Wait(r, RestCap)
    BY <1>6 DEF RestAnswers
  <2>2. /\ waited' \in [Request -> 0 .. MaxWaited] /\ waited'[r] <= waited[r] + RestCap
        /\ \A q \in Request : q # r => waited'[q] = waited[q]
    BY <2>1, Caps, WaitAdds
  <2>3. \A q \in Request : q # r =>
          /\ pc'[q] = pc[q] /\ attempt'[q] = attempt[q] /\ result'[q] = result[q]
          /\ asked'[q] = asked[q]
    BY <1>6 DEF RestAnswers, Answered, Call, Render, Reply
  <2>4. /\ pc'[r] \in {"draw", "idle"} /\ result'[r] \in Result /\ asked'[r].mode = "graph"
        /\ waited[r] <= AgentWait + RestCap + AgentWait
    BY <1>6, Caps DEF RestAnswers, Answered, Call, Render, Reply
  <2>5. \A q \in Request : q # r => Limit(q)' = Limit(q)
    BY <2>3 DEF Limit
  <2>6. waited'[r] <= 2 * (AgentWait + RestCap)
    BY <2>2, <2>4, Caps
  <2>7. Limit(r)' = 2 * (AgentWait + RestCap) + Longer(RestCap, LiveBudget) /\ result'[r] # "captured"
    BY <2>4 DEF Limit, AgentWait, Result
  <2>8. waited'[r] <= Limit(r)'
    BY <2>2, <2>6, <2>7, Caps DEF Longer
  <2>9. QED
    BY <2>2, <2>3, <2>4, <2>5, <2>6, <2>7, <2>8
<1>7. ASSUME NEW r \in Request, RestFails(r) PROVE Spent'
  <2>1. Wait(r, RestCap)
    BY <1>7 DEF RestFails
  <2>2. /\ waited' \in [Request -> 0 .. MaxWaited] /\ waited'[r] <= waited[r] + RestCap
        /\ \A q \in Request : q # r => waited'[q] = waited[q]
    BY <2>1, Caps, WaitAdds
  <2>3. \A q \in Request : q # r =>
          /\ pc'[q] = pc[q] /\ attempt'[q] = attempt[q] /\ result'[q] = result[q]
          /\ asked'[q] = asked[q]
    BY <1>7 DEF RestFails, Call, TryAgain, FirstTransport
  <2>4. /\ pc'[r] \in {FirstTransport, "fallback"}
        /\ pc'[r] # "fallback" => attempt[r] = 1 /\ attempt'[r] = 2
        /\ waited[r] <= IF attempt[r] = 1 THEN AgentWait ELSE AgentWait + RestCap + AgentWait
    BY <1>7 DEF RestFails, Call, TryAgain
  <2>5. \A q \in Request : q # r => Limit(q)' = Limit(q)
    BY <2>3 DEF Limit
  <2>6. CASE pc'[r] = "fallback"
    <3>1. waited'[r] <= 2 * (AgentWait + RestCap)
      BY <2>2, <2>4, Caps
    <3>2. QED
      BY <2>2, <2>3, <2>5, <2>6, <3>1
  <2>7. CASE pc'[r] # "fallback"
    <3>1. waited'[r] <= AgentWait + RestCap
      BY <2>2, <2>4, <2>7, Caps
    <3>2. pc'[r] = "agent" \/ (pc'[r] = "rest" /\ ~AgentCore)
      BY <2>4, <2>7, Caps DEF FirstTransport
    <3>3. waited'[r] <= AgentWait + RestCap + AgentWait
      BY <3>1, <2>2, Caps
    <3>4. QED
      BY <2>2, <2>3, <2>4, <2>5, <2>7, <3>1, <3>2, <3>3
  <2>8. QED
    BY <2>6, <2>7
<1>8. ASSUME NEW r \in Request, FallbackAnswers(r) PROVE Spent'
  <2>1. Wait(r, RestCap)
    BY <1>8 DEF FallbackAnswers
  <2>2. /\ waited' \in [Request -> 0 .. MaxWaited] /\ waited'[r] <= waited[r] + RestCap
        /\ \A q \in Request : q # r => waited'[q] = waited[q]
    BY <2>1, Caps, WaitAdds
  <2>3. \A q \in Request : q # r =>
          /\ pc'[q] = pc[q] /\ attempt'[q] = attempt[q] /\ result'[q] = result[q]
          /\ asked'[q] = asked[q]
    BY <1>8 DEF FallbackAnswers, Reply, Call
  <2>4. /\ pc'[r] = "idle"
        /\ waited[r] <= 2 * (AgentWait + RestCap) /\ result'[r] = "none" /\ asked'[r].mode = "graph"
    BY <1>8 DEF FallbackAnswers, Reply, Call
  <2>5. \A q \in Request : q # r => Limit(q)' = Limit(q)
    BY <2>3 DEF Limit
  <2>6. Limit(r)' = 2 * (AgentWait + RestCap) + Longer(RestCap, LiveBudget)
    BY <2>4 DEF Limit, AgentWait
  <2>7. waited'[r] <= Limit(r)'
    BY <2>2, <2>4, <2>6, Caps DEF Longer
  <2>8. QED
    BY <2>2, <2>3, <2>4, <2>5, <2>7
<1>9. ASSUME NEW r \in Request, FallbackFails(r) PROVE Spent'
  <2>1. Wait(r, RestCap)
    BY <1>9 DEF FallbackFails
  <2>2. /\ waited' \in [Request -> 0 .. MaxWaited] /\ waited'[r] <= waited[r] + RestCap
        /\ \A q \in Request : q # r => waited'[q] = waited[q]
    BY <2>1, Caps, WaitAdds
  <2>3. \A q \in Request : q # r =>
          /\ pc'[q] = pc[q] /\ attempt'[q] = attempt[q] /\ result'[q] = result[q]
          /\ asked'[q] = asked[q]
    BY <1>9 DEF FallbackFails, Fail, Call
  <2>4. /\ pc'[r] = "idle"
        /\ waited[r] <= 2 * (AgentWait + RestCap) /\ result'[r] = "none" /\ asked'[r].mode = "graph"
    BY <1>9 DEF FallbackFails, Fail, Call
  <2>5. \A q \in Request : q # r => Limit(q)' = Limit(q)
    BY <2>3 DEF Limit
  <2>6. Limit(r)' = 2 * (AgentWait + RestCap) + Longer(RestCap, LiveBudget)
    BY <2>4 DEF Limit, AgentWait
  <2>7. waited'[r] <= Limit(r)'
    BY <2>2, <2>4, <2>6, Caps DEF Longer
  <2>8. QED
    BY <2>2, <2>3, <2>4, <2>5, <2>7
<1>10. ASSUME NEW r \in Request, DrawEnds(r) PROVE Spent'
  <2>1. Wait(r, DrawBudget(r))
    BY <1>10 DEF DrawEnds
  <2>2. /\ waited' \in [Request -> 0 .. MaxWaited] /\ waited'[r] <= waited[r] + DrawBudget(r)
        /\ \A q \in Request : q # r => waited'[q] = waited[q]
    BY <2>1, Caps, WaitAdds
  <2>3. \A q \in Request : q # r =>
          /\ pc'[q] = pc[q] /\ attempt'[q] = attempt[q] /\ result'[q] = result[q]
          /\ asked'[q] = asked[q]
    BY <1>10 DEF DrawEnds, Render, Reply, Call
  <2>4. /\ pc'[r] = "idle"
        /\ asked'[r].mode = "graph" /\ result'[r] = result[r]
        /\ waited[r] <= IF result[r] = "captured" THEN 0 ELSE 2 * (AgentWait + RestCap)
    BY <1>10 DEF DrawEnds, Render, Reply, Call
  <2>5. \A q \in Request : q # r => Limit(q)' = Limit(q)
    BY <2>3 DEF Limit
  <2>6. Limit(r)' = IF result[r] = "captured" THEN HeroBudget
                    ELSE 2 * (AgentWait + RestCap) + Longer(RestCap, LiveBudget)
    BY <2>4 DEF Limit, AgentWait
  <2>7. waited'[r] <= Limit(r)'
    BY <2>2, <2>4, <2>6, Caps DEF Longer, DrawBudget
  <2>8. QED
    BY <2>2, <2>3, <2>4, <2>5, <2>7
<1>11. ASSUME NEW r \in Request, SearchAnswers(r) PROVE Spent'
  <2>1. Wait(r, VectorBudget)
    BY <1>11 DEF SearchAnswers
  <2>2. /\ waited' \in [Request -> 0 .. MaxWaited] /\ waited'[r] <= waited[r] + VectorBudget
        /\ \A q \in Request : q # r => waited'[q] = waited[q]
    BY <2>1, Caps, WaitAdds
  <2>3. \A q \in Request : q # r =>
          /\ pc'[q] = pc[q] /\ attempt'[q] = attempt[q] /\ result'[q] = result[q]
          /\ asked'[q] = asked[q]
    BY <1>11 DEF SearchAnswers, Reply, Call
  <2>4. /\ pc'[r] \in {"explain", "idle"}
        /\ waited[r] = 0 /\ asked'[r].mode = "vector"
    BY <1>11 DEF SearchAnswers, Reply, Call
  <2>5. \A q \in Request : q # r => Limit(q)' = Limit(q)
    BY <2>3 DEF Limit
  <2>6. Limit(r)' = VectorBudget + NoteBudget
    BY <2>4 DEF Limit
  <2>7. waited'[r] <= Limit(r)' /\ (pc'[r] = "explain" => waited'[r] <= VectorBudget)
    BY <2>2, <2>4, <2>6, Caps
  <2>8. QED
    BY <2>2, <2>3, <2>4, <2>5, <2>7
<1>12. ASSUME NEW r \in Request, SearchTimesOut(r) PROVE Spent'
  <2>1. Wait(r, VectorBudget)
    BY <1>12, Caps DEF SearchTimesOut, Wait
  <2>2. /\ waited' \in [Request -> 0 .. MaxWaited] /\ waited'[r] <= waited[r] + VectorBudget
        /\ \A q \in Request : q # r => waited'[q] = waited[q]
    BY <2>1, Caps, WaitAdds
  <2>3. \A q \in Request : q # r =>
          /\ pc'[q] = pc[q] /\ attempt'[q] = attempt[q] /\ result'[q] = result[q]
          /\ asked'[q] = asked[q]
    BY <1>12 DEF SearchTimesOut, Reply, Call
  <2>4. /\ pc'[r] = "idle"
        /\ waited[r] = 0 /\ asked'[r].mode = "vector"
    BY <1>12 DEF SearchTimesOut, Reply, Call
  <2>5. \A q \in Request : q # r => Limit(q)' = Limit(q)
    BY <2>3 DEF Limit
  <2>6. Limit(r)' = VectorBudget + NoteBudget
    BY <2>4 DEF Limit
  <2>7. waited'[r] <= Limit(r)' /\ (pc'[r] = "explain" => waited'[r] <= VectorBudget)
    BY <2>2, <2>4, <2>6, Caps
  <2>8. QED
    BY <2>2, <2>3, <2>4, <2>5, <2>7
<1>13. ASSUME NEW r \in Request, SearchFails(r) PROVE Spent'
  <2>1. Wait(r, VectorBudget)
    BY <1>13 DEF SearchFails
  <2>2. /\ waited' \in [Request -> 0 .. MaxWaited] /\ waited'[r] <= waited[r] + VectorBudget
        /\ \A q \in Request : q # r => waited'[q] = waited[q]
    BY <2>1, Caps, WaitAdds
  <2>3. \A q \in Request : q # r =>
          /\ pc'[q] = pc[q] /\ attempt'[q] = attempt[q] /\ result'[q] = result[q]
          /\ asked'[q] = asked[q]
    BY <1>13 DEF SearchFails, Fail, Call
  <2>4. /\ pc'[r] = "idle"
        /\ waited[r] = 0 /\ asked'[r].mode = "vector"
    BY <1>13 DEF SearchFails, Fail, Call
  <2>5. \A q \in Request : q # r => Limit(q)' = Limit(q)
    BY <2>3 DEF Limit
  <2>6. Limit(r)' = VectorBudget + NoteBudget
    BY <2>4 DEF Limit
  <2>7. waited'[r] <= Limit(r)' /\ (pc'[r] = "explain" => waited'[r] <= VectorBudget)
    BY <2>2, <2>4, <2>6, Caps
  <2>8. QED
    BY <2>2, <2>3, <2>4, <2>5, <2>7
<1>14. ASSUME NEW r \in Request, NoteReady(r) PROVE Spent'
  <2>1. Wait(r, NoteBudget)
    BY <1>14 DEF NoteReady
  <2>2. /\ waited' \in [Request -> 0 .. MaxWaited] /\ waited'[r] <= waited[r] + NoteBudget
        /\ \A q \in Request : q # r => waited'[q] = waited[q]
    BY <2>1, Caps, WaitAdds
  <2>3. \A q \in Request : q # r =>
          /\ pc'[q] = pc[q] /\ attempt'[q] = attempt[q] /\ result'[q] = result[q]
          /\ asked'[q] = asked[q]
    BY <1>14 DEF NoteReady, Reply, Call
  <2>4. /\ pc'[r] = "idle"
        /\ waited[r] <= VectorBudget /\ asked'[r].mode = "vector"
    BY <1>14 DEF NoteReady, Reply, Call
  <2>5. \A q \in Request : q # r => Limit(q)' = Limit(q)
    BY <2>3 DEF Limit
  <2>6. Limit(r)' = VectorBudget + NoteBudget
    BY <2>4 DEF Limit
  <2>7. waited'[r] <= Limit(r)' /\ (pc'[r] = "explain" => waited'[r] <= VectorBudget)
    BY <2>2, <2>4, <2>6, Caps
  <2>8. QED
    BY <2>2, <2>3, <2>4, <2>5, <2>7
<1>15. CASE UNCHANGED vars
  BY <1>15 DEF Limit, vars, captureVars, serverVars, requestVars
<1>16. QED
  BY <1>1, <1>2, <1>3, <1>4, <1>5, <1>6, <1>7, <1>8, <1>9, <1>10, <1>11, <1>12, <1>13,
     <1>14, <1>15 DEF Next, Ask, Continue

\* What COA answered stays the answer.
LEMMA SynthesisStep == TypeOK /\ Progress /\ SynthesisWins /\ [Next]_vars => SynthesisWins'
<1> SUFFICES ASSUME TypeOK, Progress, SynthesisWins, [Next]_vars PROVE SynthesisWins'
  OBVIOUS
<1> USE DEF TypeOK, Progress, SynthesisWins
<1>1. CASE CaptureScript
  <2>1. UNCHANGED requestVars
    BY <1>1 DEF CaptureScript, ScriptStarts, ScriptAsks, ScriptTruncates, ScriptWrites, ScriptStops
  <2>2. \A q \in Request : Limit(q)' = Limit(q)
    BY <2>1 DEF requestVars, Limit
  <2>3. QED
    BY <2>1, <2>2 DEF requestVars
<1>2. ASSUME NEW r \in Request, AskVector(r) PROVE SynthesisWins'
  <2>1. \A q \in Request : q # r => pc'[q] = pc[q] /\ result'[q] = result[q] /\ response'[q] = response[q]
    BY <1>2 DEF AskVector, Begin, Call
  <2>2. result'[r] = "none"
    BY <1>2 DEF AskVector
  <2>3. QED
    BY <2>1, <2>2
<1>3. ASSUME NEW r \in Request, AskGraph(r) PROVE SynthesisWins'
  <2>1. \A q \in Request : q # r => pc'[q] = pc[q] /\ result'[q] = result[q] /\ response'[q] = response[q]
    BY <1>3 DEF AskGraph, Call, Reply
  <2>2. CASE result'[r] = "none"
    BY <2>1, <2>2
  <2>3. CASE result'[r] # "none"
    <3>1. /\ result'[r] = "captured" /\ pc'[r] \in {"draw", "idle"}
          /\ response'[r] \in {NoResponse, [kind |-> "ok", answer |-> "captured", label |-> "synthesized"]}
      BY <1>3, <2>3 DEF AskGraph, Call, Reply
    <3>2. QED
      BY <2>1, <3>1 DEF NoResponse
  <2>4. QED
    BY <2>2, <2>3
<1>4. ASSUME NEW r \in Request, AgentAnswers(r) PROVE SynthesisWins'
  <2>1. PICK res \in Result, node \in BOOLEAN :
          /\ result' = [result EXCEPT ![r] = res]
          /\ IF asked[r].node \/ node THEN Call(r, "draw") /\ UNCHANGED response
             ELSE Render(r, res)
    BY <1>4 DEF AgentAnswers, Answered
  <2>2. \A q \in Request : q # r => result'[q] = result[q] /\ pc'[q] = pc[q] /\ response'[q] = response[q]
    BY <2>1 DEF Call, Render, Reply
  <2>3. CASE asked[r].node \/ node
    <3>1. result'[r] = res /\ pc'[r] = "draw" /\ response'[r] = NoResponse
      BY <1>4, <2>1, <2>3 DEF Call, AgentAnswers
    <3>2. QED
      BY <2>2, <3>1 DEF NoResponse
  <2>4. CASE ~(asked[r].node \/ node)
    <3>1. /\ result'[r] = res /\ pc'[r] = "idle"
          /\ response'[r] = [kind |-> "ok", answer |-> Shown(res)[1], label |-> Shown(res)[2]]
      BY <2>1, <2>4 DEF Call, Render, Reply
    <3>2. QED
      BY <2>2, <3>1, ShownResult
  <2>5. QED
    BY <2>3, <2>4
<1>5. ASSUME NEW r \in Request, AgentFails(r) PROVE SynthesisWins'
  <2>1. \A q \in Request : q # r => pc'[q] = pc[q] /\ result'[q] = result[q] /\ response'[q] = response[q]
    BY <1>5 DEF AgentFails, Call
  <2>2. result'[r] = "none"
    BY <1>5 DEF AgentFails
  <2>3. QED
    BY <2>1, <2>2
<1>6. ASSUME NEW r \in Request, RestAnswers(r) PROVE SynthesisWins'
  <2>1. PICK res \in Result, node \in BOOLEAN :
          /\ result' = [result EXCEPT ![r] = res]
          /\ IF asked[r].node \/ node THEN Call(r, "draw") /\ UNCHANGED response
             ELSE Render(r, res)
    BY <1>6 DEF RestAnswers, Answered
  <2>2. \A q \in Request : q # r => result'[q] = result[q] /\ pc'[q] = pc[q] /\ response'[q] = response[q]
    BY <2>1 DEF Call, Render, Reply
  <2>3. CASE asked[r].node \/ node
    <3>1. result'[r] = res /\ pc'[r] = "draw" /\ response'[r] = NoResponse
      BY <1>6, <2>1, <2>3 DEF Call, RestAnswers
    <3>2. QED
      BY <2>2, <3>1 DEF NoResponse
  <2>4. CASE ~(asked[r].node \/ node)
    <3>1. /\ result'[r] = res /\ pc'[r] = "idle"
          /\ response'[r] = [kind |-> "ok", answer |-> Shown(res)[1], label |-> Shown(res)[2]]
      BY <2>1, <2>4 DEF Call, Render, Reply
    <3>2. QED
      BY <2>2, <3>1, ShownResult
  <2>5. QED
    BY <2>3, <2>4
<1>7. ASSUME NEW r \in Request, RestFails(r) PROVE SynthesisWins'
  <2>1. \A q \in Request : q # r => pc'[q] = pc[q] /\ result'[q] = result[q] /\ response'[q] = response[q]
    BY <1>7 DEF RestFails, Call, TryAgain, FirstTransport
  <2>2. result'[r] = "none"
    BY <1>7 DEF RestFails
  <2>3. QED
    BY <2>1, <2>2
<1>8. ASSUME NEW r \in Request, FallbackAnswers(r) PROVE SynthesisWins'
  <2>1. \A q \in Request : q # r => pc'[q] = pc[q] /\ result'[q] = result[q] /\ response'[q] = response[q]
    BY <1>8 DEF FallbackAnswers, Reply, Call
  <2>2. result'[r] = "none"
    BY <1>8 DEF FallbackAnswers
  <2>3. QED
    BY <2>1, <2>2
<1>9. ASSUME NEW r \in Request, FallbackFails(r) PROVE SynthesisWins'
  <2>1. \A q \in Request : q # r => pc'[q] = pc[q] /\ result'[q] = result[q] /\ response'[q] = response[q]
    BY <1>9 DEF FallbackFails, Fail, Call
  <2>2. result'[r] = "none"
    BY <1>9 DEF FallbackFails
  <2>3. QED
    BY <2>1, <2>2
<1>10. ASSUME NEW r \in Request, DrawEnds(r) PROVE SynthesisWins'
  <2>1. result[r] \in Result \cup {"captured"}
    BY <1>10 DEF DrawEnds
  <2>2. \A q \in Request : result'[q] = result[q] /\ (q # r => pc'[q] = pc[q] /\ response'[q] = response[q])
    BY <1>10 DEF DrawEnds, Call, Render, Reply
  <2>3. /\ pc'[r] = "idle"
        /\ response'[r] = [kind |-> "ok", answer |-> Shown(result[r])[1], label |-> Shown(result[r])[2]]
    BY <1>10 DEF DrawEnds, Call, Render, Reply
  <2>4. QED
    BY <2>1, <2>2, <2>3, ShownResult
<1>11. ASSUME NEW r \in Request, SearchAnswers(r) PROVE SynthesisWins'
  <2>1. \A q \in Request : q # r => pc'[q] = pc[q] /\ result'[q] = result[q] /\ response'[q] = response[q]
    BY <1>11 DEF SearchAnswers, Reply, Call
  <2>2. result'[r] = "none"
    BY <1>11 DEF SearchAnswers
  <2>3. QED
    BY <2>1, <2>2
<1>12. ASSUME NEW r \in Request, SearchTimesOut(r) PROVE SynthesisWins'
  <2>1. \A q \in Request : q # r => pc'[q] = pc[q] /\ result'[q] = result[q] /\ response'[q] = response[q]
    BY <1>12 DEF SearchTimesOut, Reply, Call
  <2>2. result'[r] = "none"
    BY <1>12 DEF SearchTimesOut
  <2>3. QED
    BY <2>1, <2>2
<1>13. ASSUME NEW r \in Request, SearchFails(r) PROVE SynthesisWins'
  <2>1. \A q \in Request : q # r => pc'[q] = pc[q] /\ result'[q] = result[q] /\ response'[q] = response[q]
    BY <1>13 DEF SearchFails, Fail, Call
  <2>2. result'[r] = "none"
    BY <1>13 DEF SearchFails
  <2>3. QED
    BY <2>1, <2>2
<1>14. ASSUME NEW r \in Request, NoteReady(r) PROVE SynthesisWins'
  <2>1. \A q \in Request : q # r => pc'[q] = pc[q] /\ result'[q] = result[q] /\ response'[q] = response[q]
    BY <1>14 DEF NoteReady, Reply, Call
  <2>2. result'[r] = "none"
    BY <1>14 DEF NoteReady
  <2>3. QED
    BY <2>1, <2>2
<1>15. CASE UNCHANGED vars
  BY <1>15 DEF vars, captureVars, serverVars, requestVars
<1>16. QED
  BY <1>1, <1>2, <1>3, <1>4, <1>5, <1>6, <1>7, <1>8, <1>9, <1>10, <1>11, <1>12, <1>13,
     <1>14, <1>15 DEF Next, Ask, Continue

-----------------------------------------------------------------------------
(* Theorems *)

\* IInv holds at the start.
LEMMA Initially == Init => IInv
<1> SUFFICES ASSUME Init PROVE IInv
  OBVIOUS
<1>1. TypeOK
  <2>1. NoResponse \in Response
    BY DEF NoResponse, Response
  <2>2. [mode |-> "graph", question |-> "other", node |-> FALSE]
          \in [mode : {"vector", "graph"}, question : Question, node : BOOLEAN]
    BY DEF Question
  <2>3. response \in [Request -> Response] /\ waited \in [Request -> 0 .. MaxWaited]
    BY <2>1, Caps DEF Init
  <2>4. asked \in [Request -> [mode : {"vector", "graph"}, question : Question, node : BOOLEAN]]
    BY <2>2 DEF Init
  <2>5. QED
    BY <2>3, <2>4 DEF Init, TypeOK
<1>2. Progress
  BY DEF Init, Progress
<1>3. Spent
  <2> SUFFICES ASSUME NEW r \in Request PROVE pc[r] = "idle" /\ waited[r] <= Limit(r)
    BY DEF Spent
  <2>1. 0 <= Limit(r)
    BY Caps DEF Limit, Longer
  <2>2. QED
    BY <2>1 DEF Init
<1>4. SynthesisWins
  BY DEF Init, SynthesisWins
<1>5. QED
  BY <1>1, <1>2, <1>3, <1>4 DEF IInv

\* IInv is inductive.
LEMMA Inductive == IInv /\ [Next]_vars => IInv'
BY TypeStep, ProgressStep, SpentStep, SynthesisStep DEF IInv

\* A wait is within its limit wherever the request is.
LEMMA SpentIsBounded == TypeOK /\ Progress /\ Spent => WaitIsBounded
<1> SUFFICES ASSUME TypeOK, Progress, Spent, NEW r \in Request PROVE waited[r] <= Limit(r)
  BY DEF WaitIsBounded
<1>1. waited[r] \in Nat
  BY Caps DEF TypeOK
<1>2. CASE asked[r].mode = "vector"
  <2>1. Limit(r) = VectorBudget + NoteBudget
    BY <1>2 DEF Limit
  <2>2. pc[r] \in {"idle", "search", "explain"}
    BY <1>2 DEF TypeOK, Progress
  <2>3. QED
    BY <1>1, <2>1, <2>2, Caps DEF Spent
<1>3. CASE asked[r].mode # "vector" /\ result[r] = "captured"
  <2>1. Limit(r) = HeroBudget
    BY <1>3 DEF Limit
  <2>2. pc[r] \in {"idle", "draw"}
    BY <1>3 DEF TypeOK, Progress
  <2>3. QED
    BY <1>1, <1>3, <2>1, <2>2, Caps DEF Spent
<1>4. CASE asked[r].mode # "vector" /\ result[r] # "captured"
  <2>1. Limit(r) = 2 * (AgentWait + RestCap) + Longer(RestCap, LiveBudget)
    BY <1>4 DEF Limit, AgentWait
  <2>2. Longer(RestCap, LiveBudget) \in Nat
    BY Caps DEF Longer
  <2>3. pc[r] \in {"idle", "draw", "agent", "rest", "fallback"}
    BY <1>4 DEF TypeOK, Progress
  <2>4. pc[r] # "idle" => waited[r] <= 2 * (AgentWait + RestCap)
    BY <1>1, <1>4, <2>3, Caps DEF Spent
  <2>5. QED
    BY <1>1, <2>1, <2>2, <2>4, Caps DEF Spent
<1>5. QED
  BY <1>2, <1>3, <1>4

\* IInv holds in every reachable state.
LEMMA Invariance == Spec => []IInv
<1>1. Init => IInv
  BY Initially
<1>2. IInv /\ [Next]_vars => IInv'
  BY Inductive
<1>3. QED
  BY <1>1, <1>2, PTL DEF Spec

\* Every variable keeps its type, for any caps and budgets.
THEOREM Typing == Spec => []TypeOK
<1>1. IInv => TypeOK
  BY DEF IInv
<1>2. QED
  BY <1>1, Invariance, PTL

\* However calls end, a question of CoaProvider.query waits at most its limit:
\* the time box for a captured answer, two rounds of both transports and one
\* more call for a live one.
THEOREM BoundedWait == Spec => []WaitIsBounded
<1>1. IInv => WaitIsBounded
  BY SpentIsBounded DEF IInv
<1>2. QED
  BY <1>1, Invariance, PTL

\* What COA answered to `query` is what the user is shown, whatever becomes
\* of the drawing and whatever failed before.
THEOREM AnswerIsKept == Spec => []SynthesisWins
<1>1. IInv => SynthesisWins
  BY DEF IInv
<1>2. QED
  BY <1>1, Invariance, PTL

=============================================================================
