------------------------------ MODULE Markdown ------------------------------
(***************************************************************************)
(* src/components/markdown.tsx: how the text of an answer is cut into      *)
(* blocks, one by each pass of the loop. A line is what the tests of the   *)
(* loop can tell of it; the inline formatting of a line is left out.       *)
(***************************************************************************)
EXTENDS Integers, FiniteSets, SequencesExt

CONSTANT MaxTextLines   \* bound on the lines of a text

ASSUME TextAssumption == MaxTextLines \in Nat

VARIABLES
    text,     \* the lines of the answer
    cursor,   \* the index of the loop, one more than i
    blocks

textVars == <<text, cursor, blocks>>

\* "separator" is a row of dashes between columns; a heading, an item or a number may
\* hold a pipe. Left out is a fence that does: a table takes it for a row.
LineKind == {"fence", "separator", "row", "heading", "pipedHeading", "rule", "item", "pipedItem",
             "number", "pipedNumber", "blank", "plain"}

Headings == {"heading", "pipedHeading"}
Items == {"item", "pipedItem"}
Numbers == {"number", "pipedNumber"}

TextInit == text = <<>> /\ cursor = 1 /\ blocks = <<>>

\* The answer is there before the loop starts.
AppendLine ==
    /\ cursor = 1 /\ Len(text) < MaxTextLines
    /\ \E kind \in LineKind : text' = Append(text, kind)
    /\ UNCHANGED <<cursor, blocks>>

-----------------------------------------------------------------------------

Kind(i) == IF i \in DOMAIN text THEN text[i] ELSE "end"

Piped(i) == Kind(i) \in {"separator", "row", "pipedHeading", "pipedItem", "pipedNumber"}

\* The first line from i on that does not belong to the run, or the end.
EndOfRun(i, run) ==
    CHOOSE j \in i .. Len(text) + 1 : j \notin run /\ i .. j - 1 \subseteq run

\* A block at line i: what it is, the lines it shows, the line to go on with.
Block(name, lines, next) == [name |-> name, lines |-> lines, next |-> next]

\* Mutant: the closing fence is not skipped.
CodeBlock_OpenEnd(i) ==
    LET close == EndOfRun(i + 1, {j \in DOMAIN text : Kind(j) # "fence"})
    IN Block("code", i + 1 .. close - 1, close)

\* The text's end closes a fence.
CodeBlock(i) ==
    LET close == EndOfRun(i + 1, {j \in DOMAIN text : Kind(j) # "fence"})
    IN Block("code", i + 1 .. close - 1, close + 1)

TableStarts(i) == Piped(i) /\ Kind(i + 1) = "separator"

\* Whatever line with a pipe follows is a row of the table.
Table(i) ==
    LET next == EndOfRun(i + 2, {j \in DOMAIN text : Piped(j)})
    IN Block("table", {i} \cup (i + 2 .. next - 1), next)

List(i, kinds) ==
    LET next == EndOfRun(i, {j \in DOMAIN text : Kind(j) \in kinds})
    IN Block("list", i .. next - 1, next)

\* A rule does not end a paragraph.
Paragraph(i) ==
    LET next == EndOfRun(i + 1, {j \in DOMAIN text :
                    /\ Kind(j) \notin {"blank", "fence"} \cup Headings \cup Items \cup Numbers
                    /\ ~TableStarts(j)})
    IN Block("paragraph", i .. next - 1, next)

\* The tests in the order of the loop.
BlockAt(i) ==
    CASE Kind(i) = "fence"                          -> CodeBlock(i)
      [] TableStarts(i)                             -> Table(i)
      [] Kind(i) \in Headings /\ ~TableStarts(i)    -> Block("heading", {i}, i + 1)
      [] Kind(i) = "rule"                           -> Block("rule", {}, i + 1)
      [] Kind(i) \in Items /\ ~TableStarts(i)       -> List(i, Items)
      [] Kind(i) \in Numbers /\ ~TableStarts(i)     -> List(i, Numbers)
      [] Kind(i) = "blank"                          -> Block("spacer", {}, i + 1)
      [] Kind(i) \in {"plain", "row", "separator"} /\ ~TableStarts(i)
                                                    -> Paragraph(i)

\* A pass of the loop of Markdown.
NextBlock ==
    /\ cursor <= Len(text)
    /\ blocks' = Append(blocks, BlockAt(cursor))
    /\ cursor' = BlockAt(cursor).next
    /\ UNCHANGED text

TextNext == AppendLine \/ NextBlock

-----------------------------------------------------------------------------
(* Property *)

Fences(i) == Cardinality({k \in 1 .. i - 1 : Kind(k) = "fence"})

InCode(i) == Fences(i) % 2 = 1

\* What may be left out: a fence, and outside code a blank line, a rule, and the
\* separator under the header of a table.
LeftOut(i) ==
    \/ Kind(i) = "fence"
    \/ ~InCode(i) /\ Kind(i) \in {"blank", "rule"}
    \/ ~InCode(i) /\ Kind(i) = "separator" /\ Piped(i - 1)

\* Nothing of an answer that the loop went through is lost, shown twice or out of its
\* place; code is what stands between fences, a heading or an item is part of no
\* paragraph, and every pass takes a line at least (the loop of Markdown).
LinesAreShownOnce ==
    /\ \A a, b \in DOMAIN blocks : a < b =>
         \A i \in blocks[a].lines, j \in blocks[b].lines : i < j
    /\ \A i \in 1 .. Len(text) : i < cursor =>
         LeftOut(i) \/ \E b \in ToSet(blocks) : i \in b.lines
    /\ \A b \in ToSet(blocks) : \A i \in b.lines :
         /\ i \in 1 .. Len(text) /\ i < cursor
         /\ b.name = "code" <=> InCode(i)
         /\ b.name = "paragraph" => Kind(i) \in {"plain", "row", "separator", "rule"}
    /\ Len(blocks) < cursor
=============================================================================
