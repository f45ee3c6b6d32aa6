----------------------------- MODULE SseStream -----------------------------
(***************************************************************************)
(* consumeStream of src/lib/context/coa-agentcore.ts, which the proxy of   *)
(* tools/quick-mcp-proxy holds a copy of: the answer of an AgentCore query *)
(* read from a stream of server-sent events that is cut anywhere, ends or  *)
(* breaks off anywhere, and may carry several frames in one event.         *)
(*                                                                         *)
(* A character stands for the part of a line that no cut may lose: "D/" is *)
(* a `done` frame, "D" alone its torn beginning, "E" an `error` frame (or  *)
(* `null`, on which handleFrame throws), "x" a line that is neither.       *)
(***************************************************************************)
EXTENDS Integers, Sequences, FiniteSetsExt

CONSTANTS MaxLines   \* bound on the pieces of lines in a stream

ASSUME StreamAssumption == MaxLines \in Nat

VARIABLES
    newline,  \* how the runtime ends its lines, all alike
    pieces,   \* how many pieces of lines it sent
    sent,     \* their characters
    arrived,  \* how many characters of it arrived
    buffer,
    outcome   \* "reading", "done", "failed" or "broken"

streamVars == <<newline, pieces, sent, arrived, buffer, outcome>>

Newline == {<<"n">>, <<"r", "n">>}

DoneFrame == <<"D", "/">>
ErrorFrame == <<"E">>

Pieces == {DoneFrame, <<"D">>, ErrorFrame, <<"x">>}

StreamInit ==
    /\ newline \in Newline /\ pieces = 0 /\ sent = <<>>
    /\ arrived = 0 /\ buffer = <<>> /\ outcome = "reading"

-----------------------------------------------------------------------------
(* One event *)

StartsAt(s, i, t) ==
    i + Len(t) - 1 <= Len(s) /\ \A j \in 1 .. Len(t) : s[i + j - 1] = t[j]

BlankLines == {<<"n", "n">>, <<"r", "n", "r", "n">>}

\* Mutant: only the bare newline is looked for.
BlankLineAt_LfOnly(s, i) == StartsAt(s, i, <<"n", "n">>)

BlankLineAt(s, i) == \E t \in BlankLines : StartsAt(s, i, t)

\* Where the first event ends, 0 if it is not complete.
indexOfDoubleNewline(s) ==
    LET at == {i \in DOMAIN s : BlankLineAt(s, i)}
    IN IF at = {} THEN 0 ELSE Min(at)

\* Without the line end at the start, if there is one.
DropNewline(s) ==
    IF StartsAt(s, 1, <<"n">>) THEN SubSeq(s, 2, Len(s))
    ELSE IF StartsAt(s, 1, <<"r", "n">>) THEN SubSeq(s, 3, Len(s))
    ELSE s

\* A line of s reads t, but for a "\r" at its end.
LineAt(s, i, t) ==
    /\ i = 1 \/ s[i - 1] = "n"
    /\ StartsAt(s, i, t)
    /\ i + Len(t) > Len(s) \/ s[i + Len(t)] \in {"n", "r"}

\* handleFrame over the lines of an event: an error is thrown in the end even if
\* a `done` frame came with it.
Decision(s) ==
    IF \E i \in DOMAIN s : LineAt(s, i, ErrorFrame) THEN "failed"
    ELSE IF \E i \in DOMAIN s : LineAt(s, i, DoneFrame) THEN "done" ELSE "reading"

-----------------------------------------------------------------------------
(* The stream *)

\* The runtime sends a piece of a line, or ends one.
Send ==
    /\ outcome = "reading" /\ pieces < MaxLines
    /\ pieces' = pieces + 1
    /\ \E piece \in Pieces \cup {newline} : sent' = sent \o piece
    /\ UNCHANGED <<newline, arrived, buffer, outcome>>

\* The next read is awaited once the complete events of the buffer are taken.
Awaiting == outcome = "reading" /\ indexOfDoubleNewline(buffer) = 0

\* Any number of characters arrives.
Read ==
    /\ Awaiting /\ arrived < Len(sent)
    /\ \E n \in arrived + 1 .. Len(sent) :
         arrived' = n /\ buffer' = buffer \o SubSeq(sent, arrived + 1, n)
    /\ UNCHANGED <<newline, pieces, sent, outcome>>

\* One pass of the loop over the complete events, up to the first that decides.
TakeEvent ==
    LET end == indexOfDoubleNewline(buffer)
        rest == SubSeq(buffer, end, Len(buffer))
    IN /\ outcome = "reading" /\ end # 0
       /\ outcome' = Decision(SubSeq(buffer, 1, end - 1))
       /\ buffer' = DropNewline(DropNewline(rest))
       /\ UNCHANGED <<newline, pieces, sent, arrived>>

\* An event no blank line ends is taken as well; without a terminal frame the
\* call fails.
StreamEnds ==
    /\ Awaiting /\ arrived = Len(sent)
    /\ outcome' = IF Decision(buffer) = "done" THEN "done" ELSE "failed"
    /\ UNCHANGED <<newline, pieces, sent, arrived, buffer>>

\* The connection is lost or the AbortController's time is up.
StreamBreaks ==
    /\ Awaiting
    /\ outcome' = "broken"
    /\ UNCHANGED <<newline, pieces, sent, arrived, buffer>>

StreamNext == Send \/ Read \/ TakeEvent \/ StreamEnds \/ StreamBreaks

-----------------------------------------------------------------------------
(* Property *)

\* A `done` frame that no error precedes, or follows without an empty line in
\* between.
Verdict(s) ==
    IF \E i \in DOMAIN s :
         /\ LineAt(s, i, DoneFrame)
         /\ \A j \in DOMAIN s :
              LineAt(s, j, ErrorFrame) => \E b \in i + 1 .. j - 1 : LineAt(s, b, <<>>)
    THEN "done" ELSE "failed"

\* The answer does not depend on where the network cuts the stream: the event
\* with the first terminal frame decides, an error in it wins, and a stream
\* without one fails (the comment on consumeStream).
StreamIsCutFree == outcome \in {"done", "failed"} => outcome = Verdict(sent)
=============================================================================
