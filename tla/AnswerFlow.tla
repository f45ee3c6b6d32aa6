----------------------------- MODULE AnswerFlow -----------------------------
(***************************************************************************)
(* What the query page says about how an answer was formed: the flow above *)
(* the panes (src/components/answer-flow.tsx) and the explainer with its   *)
(* animation (src/components/how-it-works.tsx), both derived from the two  *)
(* results the page holds. What is asked of whom is the subject of         *)
(* Playground.                                                             *)
(***************************************************************************)
EXTENDS Naturals

Done == 5   \* DONE, the last phase of the animation

\* What a path returns: an answer with sources, one that names none, neither, or
\* an error of the route.
Outcome == {"grounded", "unsourced", "nothing", "error"}

VARIABLES
    vectorRes, graphRes,   \* the results the page holds, or "null"
    vectorErr, graphErr,
    running,
    replaying,    \* the flow is animated once more
    open,         \* the explainer is open
    autoPlayed,
    phase,
    playing,
    timers        \* phases whose timer is set

resultVars == <<vectorRes, graphRes, vectorErr, graphErr, running>>
explainerVars == <<open, autoPlayed, phase, playing, timers>>
flowVars == <<resultVars, replaying, explainerVars>>

FlowInit ==
    /\ vectorRes = "null" /\ graphRes = "null"
    /\ vectorErr = FALSE /\ graphErr = FALSE
    /\ running = FALSE /\ replaying = FALSE
    /\ open = FALSE /\ autoPlayed = FALSE
    /\ phase = Done /\ playing = FALSE /\ timers = {}

\* The page shows the flow; when it does not, the flow forgets its replay.
FlowShown == running \/ vectorRes # "null" \/ graphRes # "null"

-----------------------------------------------------------------------------
(* The page *)

RunQuery ==
    /\ ~running
    /\ running' = TRUE
    /\ vectorErr' = FALSE /\ graphErr' = FALSE
    /\ vectorRes' = "null" /\ graphRes' = "null"
    /\ UNCHANGED <<replaying, explainerVars>>

ResultsArrive ==
    /\ running
    /\ running' = FALSE
    /\ vectorRes' \in Outcome /\ graphRes' \in Outcome
    /\ vectorErr' = (vectorRes' = "error") /\ graphErr' = (graphRes' = "error")
    /\ UNCHANGED <<replaying, explainerVars>>

\* One of the requests failed: no result is kept.
RequestFails ==
    /\ running
    /\ running' = FALSE
    /\ vectorErr' = TRUE /\ graphErr' = TRUE
    /\ replaying' = FALSE
    /\ UNCHANGED <<vectorRes, graphRes, explainerVars>>

PickExample ==
    /\ vectorRes' = "null" /\ graphRes' = "null"
    /\ replaying' = (replaying /\ running)
    /\ UNCHANGED <<vectorErr, graphErr, running, explainerVars>>

\* What the two panes hold: only the vector's tells an error from no answer.
Answers == {"grounded", "unsourced"}

VectorPane ==
    IF vectorRes \in Answers THEN "answer"
    ELSE IF vectorErr THEN "error" ELSE IF vectorRes # "null" THEN "note" ELSE "dash"

GraphPane ==
    IF graphRes \in Answers THEN "answer" ELSE IF graphRes = "nothing" THEN "note" ELSE "dash"

-----------------------------------------------------------------------------
(* AnswerFlow *)

\* Mutant: an answer without sources counts.
VectorContributed_Unsourced == vectorRes \in Answers

VectorContributed == vectorRes = "grounded"

GraphContributed == graphRes \in Answers /\ ~graphErr

Animating == running \/ replaying

statusFor(result, contributed, errored) ==
    CASE errored                                               -> "error"
      [] ~errored /\ Animating                                 -> "running"
      [] ~errored /\ ~Animating /\ result = "null"             -> "idle"
      [] ~errored /\ ~Animating /\ result # "null" /\ contributed  -> "used"
      [] ~errored /\ ~Animating /\ result # "null" /\ ~contributed -> "unused"

VectorState == statusFor(vectorRes, VectorContributed, vectorErr)
GraphState == statusFor(graphRes, GraphContributed, graphErr)

FlowDone ==
    ~running /\ (vectorRes # "null" \/ graphRes # "null" \/ vectorErr \/ graphErr)

\* The tone of the last node.
synthTone ==
    IF Animating THEN "running"
    ELSE IF ~FlowDone THEN "neutral"
    ELSE IF "used" \in {VectorState, GraphState} THEN "done"
    ELSE IF "error" \in {VectorState, GraphState} THEN "error"
    ELSE "warn"

\* Which paths the legend names, and as what.
legend ==
    [grounds |-> {path \in {"vector", "graph"} :
                    (IF path = "vector" THEN VectorState ELSE GraphState) = "used"},
     notUsed |-> {path \in {"vector", "graph"} :
                    (IF path = "vector" THEN VectorState ELSE GraphState) \in {"error", "unused"}}]

Replay ==
    /\ FlowShown /\ FlowDone /\ ~replaying
    /\ replaying' = TRUE
    /\ UNCHANGED <<resultVars, explainerVars>>

ReplayEnds ==
    /\ replaying
    /\ replaying' = FALSE
    /\ UNCHANGED <<resultVars, explainerVars>>

-----------------------------------------------------------------------------
(* HowItWorks *)

play == phase' = 0 /\ playing' = TRUE /\ timers' = 1 .. Done

\* The first time it opens it plays; closing it stops the timers and nothing else.
Toggle ==
    /\ open' = ~open
    /\ autoPlayed' = TRUE
    /\ IF open' /\ ~autoPlayed
       THEN play
       ELSE timers' = {} /\ UNCHANGED <<phase, playing>>
    /\ UNCHANGED <<resultVars, replaying>>

\* Mutant: the button can be pressed while it plays.
PlayAgain_AnyTime ==
    /\ open
    /\ play
    /\ UNCHANGED <<open, autoPlayed, resultVars, replaying>>

PlayAgain ==
    /\ open /\ ~playing
    /\ play
    /\ UNCHANGED <<open, autoPlayed, resultVars, replaying>>

\* The timers end in the order of the phases.
Advance ==
    \E i \in timers :
        /\ \A j \in timers : i <= j
        /\ phase' = i
        /\ playing' = (playing /\ i # Done)
        /\ timers' = timers \ {i}
        /\ UNCHANGED <<open, autoPlayed, resultVars, replaying>>

\* What the page tells it of a path: used, not used, or not run yet.
Used(result, when) ==
    IF result = "null" THEN "notRun" ELSE IF result \in when THEN "used" ELSE "notUsed"

vectorUsed == Used(vectorRes, {"grounded"})
graphUsed == Used(graphRes, Answers)

anyUsed ==
    IF {vectorUsed, graphUsed} = {"notRun"} THEN "notRun"
    ELSE IF "used" \in {vectorUsed, graphUsed} THEN "used" ELSE "notUsed"

\* The state of a step: the first one is not told what was used.
FlowStep(index) ==
    IF phase < index THEN "pending"
    ELSE IF phase = index THEN "active"
    ELSE IF index > 0 /\ anyUsed = "notUsed" THEN "noGrounding"
    ELSE "done"

FlowNext ==
    \/ RunQuery \/ ResultsArrive \/ RequestFails \/ PickExample
    \/ Replay \/ ReplayEnds
    \/ Toggle \/ PlayAgain \/ Advance

-----------------------------------------------------------------------------
(* Property *)

\* Once the flow is shown and at rest: a path is marked used only above a pane with
\* an answer, errored exactly above the pane that says so, and unused above a pane
\* without one, but for a vector answer that names no source, which the legend
\* calls "found nothing" as well; and the last step shows grounding in the flow if
\* and only if it does in the explainer.
MarksFitPanes ==
    FlowShown /\ ~Animating =>
      /\ VectorState = "used" => VectorPane = "answer"
      /\ VectorState = "error" <=> VectorPane = "error"
      /\ VectorState = "unused" /\ VectorPane = "answer" <=> vectorRes = "unsourced"
      /\ GraphState = "used" <=> GraphPane = "answer"
      /\ legend.grounds = {} =>
           GraphPane # "answer" /\ (VectorPane = "answer" => vectorRes = "unsourced")
      /\ legend.grounds \cup legend.notUsed = {"vector", "graph"}
      /\ phase = Done => (synthTone = "done" <=> FlowStep(4) = "done")

\* While a question runs, nothing is told of the one before.
NothingIsOld == running => synthTone = "running" /\ {VectorPane, GraphPane} = {"dash"}

\* It was closed while it played: its timers are gone, and its button is disabled.
CutShort == playing /\ timers = {}

IsSettling == phase = Done \/ CutShort \/ (open /\ playing /\ timers = phase + 1 .. Done)

OnlyClosingCuts ==
    /\ CutShort => UNCHANGED <<phase, playing, timers>>
    /\ CutShort' => CutShort \/ (open /\ ~open')

\* What the query page says of an answer fits the answers it shows, whatever was
\* replayed, chosen or failed before, and while a question runs it tells nothing of
\* the one before. The explainer is settled or on its way to the end while it is
\* open, unless it was closed while it played: then it stays where it was, however
\* often it is opened, though "re-open shows final state" (statusFor, legend,
\* HowItWorks).
FlowIsHonest ==
    /\ [](MarksFitPanes /\ NothingIsOld /\ IsSettling)
    /\ [][OnlyClosingCuts]_flowVars
=============================================================================
