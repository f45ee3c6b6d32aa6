----------------------------- MODULE MetricRows -----------------------------
(***************************************************************************)
(* src/lib/context/coa-rows.ts and computeMetric of CoaProvider: a         *)
(* governed metric comes back as the rows of a grouped query, which are    *)
(* filtered by the arguments and reduced to one number.                    *)
(*                                                                         *)
(* A row is a function of its columns. Cells are strings: digits, digits   *)
(* with a word before them ("unit-7"), or no number at all.                *)
(***************************************************************************)
EXTENDS Integers, Sequences, FiniteSets

CONSTANTS MaxResultRows   \* bound on the rows of a result

ASSUME ResultAssumption == MaxResultRows \in Nat

VARIABLES
    result,   \* what Tier 1 answers: the tier, its rows, the value of a newer COA
    args      \* the arguments of the metric that were set so far

metricVars == <<result, args>>

NaN == -1
Metric == "score"

\* The columns of a grouped query, its group before its measures.
ColumnSets == {{"unit_id", "value"}, {"unit_id", "score"}, {"unit_id", "count", "score"}}
Key == {"unitId", "kind"}
Want == {"empty", "7", "unit-7"}

MetricInit ==
    /\ result \in [tier : {1, 2}, rows : {<<>>}, scalar : {NaN, 9}]
    /\ args = <<>>

AppendRow ==
    /\ Len(result.rows) < MaxResultRows
    /\ \E columns \in IF result.rows = <<>> THEN ColumnSets ELSE {DOMAIN result.rows[1]} :
         \E row \in [columns -> {"7", "8", "x"}] :
            result' = [result EXCEPT !.rows = Append(@, row)]
    /\ UNCHANGED args

SetArg ==
    /\ \E key \in Key \ DOMAIN args, want \in Want :
         args' = [k \in DOMAIN args \cup {key} |-> IF k = key THEN want ELSE args[k]]
    /\ UNCHANGED result

MetricNext == AppendRow \/ SetArg

-----------------------------------------------------------------------------

\* num, and an argument without its leading word.
num(cell) == CASE cell = "7" -> 7 [] cell = "8" -> 8 [] OTHER -> NaN
Unprefixed(arg) == IF arg = "unit-7" THEN "7" ELSE arg

snake(key) == IF key = "unitId" THEN "unit_id" ELSE key

Matches(row, key, want) ==
    LET column == IF key \in DOMAIN row THEN key ELSE snake(key) IN
    column \in DOMAIN row =>
        \/ row[column] = want
        \/ num(row[column]) # NaN /\ Unprefixed(want) = row[column]

\* Mutant: one argument that matches is enough.
filterRows_Any(rows) ==
    {i \in DOMAIN rows : \E key \in DOMAIN args : Matches(rows[i], key, args[key])}

\* The places of the rows that are left: an argument that is empty, or that no
\* column is about, does not filter.
filterRows(rows) ==
    {i \in DOMAIN rows : \A key \in DOMAIN args :
        args[key] # "empty" => Matches(rows[i], key, args[key])}

reduceMetricRows(name, rows, kept) ==
    IF Cardinality(kept) # 1 THEN NaN
    ELSE LET row == rows[CHOOSE i \in kept : TRUE]
             numeric == {column \in DOMAIN row : num(row[column]) # NaN}
         IN IF "value" \in numeric THEN num(row["value"])
            ELSE IF name \in numeric THEN num(row[name])
            ELSE IF Cardinality(numeric) = 1
            THEN num(row[CHOOSE column \in numeric : TRUE]) ELSE NaN

\* runTier1Metric throws unless Tier 1 answered with rows.
Throws == result.tier # 1

\* The scalar of a newer COA goes before the rows, whatever the arguments: none
\* are sent.
computeMetric ==
    IF Throws THEN NaN
    ELSE IF result.scalar # NaN THEN result.scalar
    ELSE reduceMetricRows(Metric, result.rows, filterRows(result.rows))

-----------------------------------------------------------------------------
(* Property *)

\* The rows that agree with every argument some column is about.
Agreeing ==
    {i \in DOMAIN result.rows :
        LET row == result.rows[i] IN
        \A key \in {k \in DOMAIN args : args[k] # "empty"} :
            \A column \in {key, snake(key)} \cap DOMAIN row :
                row[column] \in {args[key], Unprefixed(args[key])}}

\* A number read from rows stands for the one row that agrees with all the
\* arguments: two rows that they do not tell apart, or none, are no value, and
\* nothing Tier 1 did not answer is (the comment on computeMetric).
MetricIsUnambiguous ==
    /\ computeMetric # NaN => result.tier = 1
    /\ computeMetric # NaN /\ result.scalar = NaN =>
         \E i \in Agreeing :
            /\ Agreeing = {i}
            /\ \E column \in DOMAIN result.rows[i] : num(result.rows[i][column]) = computeMetric
=============================================================================
