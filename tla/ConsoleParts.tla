---------------------------- MODULE ConsoleParts ----------------------------
(***************************************************************************)
(* The parts of the console that share no state with each other: the       *)
(* stream of an AgentCore answer, the login gate, the pages and the mode   *)
(* they go by, what they say of an answer and of the sources, the text of  *)
(* an answer, the local graph, the local vectors, the chain of a root      *)
(* cause, the rows of a metric, the schema of a pack. A behaviour is one   *)
(* of them at work and the others at rest: what they do side by side is    *)
(* their product, and adds nothing to a property of one.                   *)
(***************************************************************************)
EXTENDS SseStream, AccessGate, Playground, AnswerFlow, SourceView, Markdown,
        LocalGraph, VectorSearch, RootCause, MetricRows, PackSchema

VARIABLE part   \* the part at work

Parts == {"stream", "gate", "pages", "flow", "sources", "text", "graph", "vector",
          "cause", "metric", "schema"}

vars == <<part, streamVars, gateVars, pagesVars, flowVars, viewVars, textVars, graphVars,
                searchVars, causeVars, metricVars, schemaVars>>

StreamAtRest == StreamInit /\ newline = <<"n">>
MetricAtRest == result = [tier |-> 1, rows |-> <<>>, scalar |-> NaN] /\ args = <<>>
PagesAtRest ==
    /\ PagesInit /\ ~ready /\ ~lossy /\ mode = "mock" /\ page = [t \in Tab |-> "query"]
    /\ vertical = [t \in Tab |-> CHOOSE v \in Vertical : TRUE]

Init ==
    /\ part \in Parts
    /\ IF part = "stream" THEN StreamInit ELSE StreamAtRest
    /\ IF part = "pages" THEN PagesInit ELSE PagesAtRest
    /\ IF part = "metric" THEN MetricInit ELSE MetricAtRest
    /\ GateInit /\ FlowInit /\ ViewInit /\ TextInit
    /\ GraphInit /\ SearchInit /\ CauseInit /\ SchemaInit

StreamStep ==
    /\ part = "stream" /\ StreamNext
    /\ UNCHANGED <<gateVars, pagesVars, flowVars, viewVars, textVars, graphVars,
                   searchVars, causeVars, metricVars, schemaVars>>

GateStep ==
    /\ part = "gate" /\ GateNext
    /\ UNCHANGED <<streamVars, pagesVars, flowVars, viewVars, textVars, graphVars,
                   searchVars, causeVars, metricVars, schemaVars>>

PagesStep ==
    /\ part = "pages" /\ PagesNext
    /\ UNCHANGED <<streamVars, gateVars, flowVars, viewVars, textVars, graphVars,
                   searchVars, causeVars, metricVars, schemaVars>>

ExplainStep ==
    /\ part = "flow" /\ FlowNext
    /\ UNCHANGED <<streamVars, gateVars, pagesVars, viewVars, textVars, graphVars,
                   searchVars, causeVars, metricVars, schemaVars>>

ViewStep ==
    /\ part = "sources" /\ ViewNext
    /\ UNCHANGED <<streamVars, gateVars, pagesVars, flowVars, textVars, graphVars,
                   searchVars, causeVars, metricVars, schemaVars>>

TextStep ==
    /\ part = "text" /\ TextNext
    /\ UNCHANGED <<streamVars, gateVars, pagesVars, flowVars, viewVars, graphVars,
                   searchVars, causeVars, metricVars, schemaVars>>

GraphStep ==
    /\ part = "graph" /\ GraphNext
    /\ UNCHANGED <<streamVars, gateVars, pagesVars, flowVars, viewVars, textVars,
                   searchVars, causeVars, metricVars, schemaVars>>

SearchStep ==
    /\ part = "vector" /\ SearchNext
    /\ UNCHANGED <<streamVars, gateVars, pagesVars, flowVars, viewVars, textVars,
                   graphVars, causeVars, metricVars, schemaVars>>

CauseStep ==
    /\ part = "cause" /\ CauseNext
    /\ UNCHANGED <<streamVars, gateVars, pagesVars, flowVars, viewVars, textVars,
                   graphVars, searchVars, metricVars, schemaVars>>

MetricStep ==
    /\ part = "metric" /\ MetricNext
    /\ UNCHANGED <<streamVars, gateVars, pagesVars, flowVars, viewVars, textVars,
                   graphVars, searchVars, causeVars, schemaVars>>

SchemaStep ==
    /\ part = "schema" /\ SchemaNext
    /\ UNCHANGED <<streamVars, gateVars, pagesVars, flowVars, viewVars, textVars,
                   graphVars, searchVars, causeVars, metricVars>>

Next ==
    /\ \/ StreamStep \/ GateStep \/ PagesStep \/ ExplainStep \/ ViewStep \/ TextStep
       \/ GraphStep \/ SearchStep \/ CauseStep \/ MetricStep \/ SchemaStep
    /\ UNCHANGED part

Spec == Init /\ [][Next]_vars
=============================================================================
