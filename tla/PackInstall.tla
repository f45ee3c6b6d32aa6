------------------------------ MODULE PackInstall ------------------------------
(***************************************************************************)
(* tools/coa-pack: installing one pack into one COA namespace.             *)
(*                                                                         *)
(* install() is a fixed sequence of REST calls with two waits in it. Each  *)
(* call is one action; COA, whose code is not in this repository, moves on *)
(* its own between the calls. The operator may run the installer again     *)
(* after it failed (or after it succeeded, which the metrics warning asks  *)
(* for), so the state COA keeps outlives a run.                            *)
(*                                                                         *)
(* Any call may raise: before COA applied it (Raise), or after, when the   *)
(* answer is lost or the process is killed. The second is the "failed" in  *)
(* the pc' \in {..., "failed"} of the calls that change COA.               *)
(***************************************************************************)
EXTENDS Naturals

CONSTANTS
    NSources,       \* the pack declares sources 1..NSources
    NGrants,        \* and grants 1..NGrants
    DataSources,    \* the declared sources that the metrics' datasets bind to
    HasMetrics,     \* metrics.osi.yaml is not empty
    MaxRuns,        \* bound: how often the operator starts the installer
    MaxPolls        \* polls of one job before its timeout is over

ASSUME PackAssumption ==
    /\ NSources \in Nat
    /\ NGrants \in Nat
    /\ DataSources \subseteq 1..NSources
    /\ HasMetrics \in BOOLEAN
    /\ MaxRuns \in Nat \ {0}
    /\ MaxPolls \in Nat

Source == 1..NSources
Grant  == 1..NGrants
Run    == 1..MaxRuns

VARIABLES
    \* the installer process
    pc,          \* the call it makes next, or how the run ended
    create,      \* --create-namespace was given
    polls,       \* polls of the current job so far: the time waited
    job,         \* the ingest job it polls: the loading one, or a conflicting one
    warnings,    \* InstallReport.warnings, one value per kind
    nextSource,  \* the source registered next
    nextGrant,   \* the grant created next
    \* COA
    namespace,   \* "absent", "committed" (GET still answers 404) or "visible"
    body,        \* the object at the run's s3Key is stored
    ontology,    \* status of the job that loads the pack's IRI
    jobBody,     \* the body was there when that job was accepted
    conflictJob, \* status of each run's second ingest of the same IRI
    importJob,   \* status of each run's metric import, as a poll would report it
    metrics,     \* the pack's metrics are online
    sources,     \* how many sourceIds each declared source was given
    grants,      \* how many times each grant was created
    handmade,    \* the operator registered the data sources by hand
    \* history
    runs,        \* runs started
    stopped,     \* where each finished run ended
    hadSource    \* the data sources were registered when the current run started

installerVars == <<create, polls, job, warnings, nextSource, nextGrant>>
coaVars == <<namespace, body, ontology, jobBody, conflictJob, importJob,
             metrics, sources, grants, handmade>>
historyVars == <<runs, stopped, hadSource>>
vars == <<pc, installerVars, coaVars, historyVars>>

EarlyStage == {"get_namespace", "post_namespace", "upload_url", "put_body",
               "ingest", "ingest_poll", "import", "import_poll", "import_detail"}
Stage  == EarlyStage \cup {"sources", "grants"}
Ending == {"installed", "failed"}

IngestPending == {"pending", "running", "embeddings_sync"}
IngestStatus  == {"absent"} \cup IngestPending \cup {"completed", "failed"}
\* "inline": COA named no job to poll. "unknown": a status outside ImportOsi's.
ImportStatus  == {"none", "inline", "IN_PROGRESS", "COMPLETED",
                  "FAILED_unresolved", "FAILED_errors", "unknown"}
Warning == {"ingest_skipped", "no_ingest_job", "metrics_deferred"}

\* Every JDBC source the metrics' datasets bind to is registered.
Registered ==
    \/ handmade
    \/ DataSources # {} /\ \A s \in DataSources : sources[s] > 0

Init ==
    /\ pc = "idle"
    /\ create = FALSE /\ polls = 0 /\ job = "none" /\ warnings = {}
    /\ nextSource = 1 /\ nextGrant = 1
    /\ namespace \in {"absent", "visible"}
    /\ body = FALSE /\ ontology = "absent" /\ jobBody = FALSE
    /\ conflictJob = [r \in Run |-> "absent"]
    /\ importJob = [r \in Run |-> "none"]
    /\ metrics = FALSE
    /\ sources = [s \in Source |-> 0]
    /\ grants = [g \in Grant |-> 0]
    /\ handmade = FALSE
    /\ runs = 0 /\ stopped = [r \in Run |-> "running"] /\ hadSource = FALSE

-----------------------------------------------------------------------------
(* The operator *)

StartRun ==
    /\ pc \notin Stage
    /\ runs < MaxRuns
    /\ pc' = "get_namespace"
    /\ create' \in BOOLEAN
    /\ polls' = 0 /\ job' = "none" /\ warnings' = {}
    /\ nextSource' = 1 /\ nextGrant' = 1
    /\ runs' = runs + 1
    /\ hadSource' = Registered
    /\ UNCHANGED <<coaVars, stopped>>

\* Wiring the data source outside the pack, as docs/MODE3_COA.md has it done.
RegisterByHand ==
    /\ ~handmade
    /\ handmade' = TRUE
    /\ UNCHANGED <<pc, installerVars, namespace, body, ontology, jobBody, conflictJob,
                   importJob, metrics, sources, grants, historyVars>>

-----------------------------------------------------------------------------
(* The installer *)

\* Leave the current call for the stage `to`; a finished run is recorded.
Go(to) ==
    /\ pc' = to
    /\ stopped' = IF to \in Ending
                  THEN [stopped EXCEPT ![runs] = IF to = "failed" THEN pc ELSE to]
                  ELSE stopped
    /\ UNCHANGED <<create, runs, hadSource>>

\* A call that COA refuses, that never reaches it, or that the process dies in;
\* also an ingest job in a state outside IngestStatus, which _poll raises on.
Raise ==
    /\ pc \in Stage
    /\ Go("failed")
    /\ UNCHANGED <<polls, job, warnings, nextSource, nextGrant, coaVars>>

GetNamespace ==
    /\ pc = "get_namespace"
    /\ Go(IF namespace = "visible" THEN "upload_url"
          ELSE IF create THEN "post_namespace" ELSE "failed")
    /\ UNCHANGED <<polls, job, warnings, nextSource, nextGrant, coaVars>>

\* 201 creates the record; 409, which a record not yet visible causes, reuses it.
PostNamespace ==
    /\ pc = "post_namespace"
    /\ \/ /\ namespace = "absent"
          /\ namespace' = "committed"
          /\ \E to \in {"upload_url", "failed"} : Go(to)
       \/ /\ namespace # "absent"
          /\ Go("upload_url")
          /\ UNCHANGED namespace
    /\ UNCHANGED <<polls, job, warnings, nextSource, nextGrant, body, ontology, jobBody,
                   conflictJob, importJob, metrics, sources, grants, handmade>>

\* The key may be new or the one an earlier run stored its body under.
RequestUploadUrl ==
    /\ pc = "upload_url"
    /\ body' \in {FALSE, body}
    /\ Go("put_body")
    /\ UNCHANGED <<polls, job, warnings, nextSource, nextGrant, namespace, ontology, jobBody,
                   conflictJob, importJob, metrics, sources, grants, handmade>>

\* Only a status of 400 or more raises, so a 307 that names no usable endpoint
\* (or a second 307) passes for success although S3 kept nothing.
PutPresigned ==
    /\ pc = "put_body"
    /\ \/ /\ body' = TRUE
          /\ \E to \in {"ingest", "failed"} : Go(to)
       \/ UNCHANGED body /\ Go("ingest")
    /\ UNCHANGED <<polls, job, warnings, nextSource, nextGrant, namespace, ontology, jobBody,
                   conflictJob, importJob, metrics, sources, grants, handmade>>

AfterOntology == IF HasMetrics THEN "import" ELSE "sources"

\* 202 starts the job that loads the IRI. The answer may lack a jobId.
IngestAccepted ==
    /\ pc = "ingest"
    /\ ontology \in {"absent", "failed"}
    /\ ontology' = "pending" /\ jobBody' = body
    /\ job' = "loading"
    /\ \/ \E to \in {"ingest_poll", "failed"} : Go(to) /\ UNCHANGED warnings
       \/ Go(AfterOntology) /\ warnings' = warnings \cup {"no_ingest_job"}
    /\ UNCHANGED <<polls, nextSource, nextGrant, namespace, body, conflictJob, importJob,
                   metrics, sources, grants, handmade>>

\* The IRI is taken: a 409 now, or a job that will fail with "already exists".
IngestConflict ==
    /\ pc = "ingest"
    /\ ontology \notin {"absent", "failed"}
    /\ \/ /\ Go(AfterOntology)
          /\ warnings' = warnings \cup {"ingest_skipped"}
          /\ UNCHANGED <<job, conflictJob>>
       \/ /\ Go("ingest_poll")
          /\ job' = "conflict"
          /\ conflictJob' = [conflictJob EXCEPT ![runs] = "pending"]
          /\ UNCHANGED warnings
    /\ UNCHANGED <<polls, nextSource, nextGrant, namespace, body, ontology, jobBody,
                   importJob, metrics, sources, grants, handmade>>

\* Mutant: embeddings_sync passes for done.
PolledIngest_SyncIsDone ==
    LET status == IF job = "loading" THEN ontology ELSE conflictJob[runs]
    IN  IF status = "embeddings_sync" THEN "completed" ELSE status

PolledIngest == IF job = "loading" THEN ontology ELSE conflictJob[runs]

\* Mutant: the timeout is tested one poll late.
KeepPolling_OneLate ==
    IF polls <= MaxPolls THEN polls' = polls + 1 /\ Go(pc) ELSE UNCHANGED polls /\ Go("failed")

\* Mutant: no timeout.
KeepPolling_Forever == UNCHANGED polls /\ Go(pc)

\* _poll: wait on, unless the timeout is over.
KeepPolling ==
    \/ /\ polls < MaxPolls
       /\ polls' = polls + 1
       /\ Go(pc)
    \/ /\ polls = MaxPolls
       /\ polls' = polls
       /\ Go("failed")

PollIngest ==
    /\ pc = "ingest_poll"
    /\ \/ /\ PolledIngest = "completed"
          /\ Go(AfterOntology) /\ polls' = 0
          /\ UNCHANGED warnings
       \/ /\ PolledIngest = "failed"
          /\ polls' = 0
          /\ IF job = "conflict"
             THEN Go(AfterOntology) /\ warnings' = warnings \cup {"ingest_skipped"}
             ELSE Go("failed") /\ UNCHANGED warnings
       \/ /\ PolledIngest \in IngestPending
          /\ KeepPolling
          /\ UNCHANGED warnings
    /\ UNCHANGED <<job, nextSource, nextGrant, coaVars>>

\* A jobId with IN_PROGRESS is polled. Any other answer (no jobId, or another
\* status) is taken for an import done inline: success, and no warning.
ImportOsi ==
    /\ pc = "import"
    /\ \/ /\ importJob' = [importJob EXCEPT ![runs] = "IN_PROGRESS"]
          /\ \E to \in {"import_poll", "failed"} : Go(to)
       \/ /\ importJob' = [importJob EXCEPT ![runs] = "inline"]
          /\ \E to \in {"sources", "failed"} : Go(to)
    /\ UNCHANGED <<polls, job, warnings, nextSource, nextGrant, namespace, body, ontology,
                   jobBody, conflictJob, metrics, sources, grants, handmade>>

\* Mutant: the 202 is taken for the import.
PollImport_NoWait ==
    /\ pc = "import_poll" /\ Go("sources")
    /\ UNCHANGED <<polls, job, warnings, nextSource, nextGrant, coaVars>>

PollImport ==
    /\ pc = "import_poll"
    /\ \/ importJob[runs] = "COMPLETED" /\ Go("sources") /\ polls' = 0
       \/ /\ importJob[runs] \in {"FAILED_unresolved", "FAILED_errors", "unknown"}
          /\ Go("import_detail") /\ polls' = 0
       \/ importJob[runs] = "IN_PROGRESS" /\ KeepPolling
    /\ UNCHANGED <<job, warnings, nextSource, nextGrant, coaVars>>

\* Mutant: every failed import is only warned about.
ReadImportDetail_NeverFatal ==
    /\ pc = "import_detail" /\ Go("sources")
    /\ warnings' = warnings \cup {"metrics_deferred"}
    /\ UNCHANGED <<polls, job, nextSource, nextGrant, coaVars>>

\* A job that failed, or is in a state the installer does not know, is read once
\* more: no metric processed and no error reported is taken to mean that no data
\* source is registered yet, which is only warned about.
ReadImportDetail ==
    /\ pc = "import_detail"
    /\ \/ /\ importJob[runs] # "FAILED_errors"
          /\ Go("sources") /\ warnings' = warnings \cup {"metrics_deferred"}
       \/ /\ importJob[runs] # "FAILED_unresolved"
          /\ Go("failed") /\ UNCHANGED warnings
    /\ UNCHANGED <<polls, job, nextSource, nextGrant, coaVars>>

\* Mutant: a POST whose answer is lost is sent again.
CreateSource_Resent ==
    /\ pc = "sources" /\ nextSource <= NSources /\ Go("sources")
    /\ sources' = [sources EXCEPT ![nextSource] = @ + 1]
    /\ \E sent \in {0, 1} : nextSource' = nextSource + sent
    /\ UNCHANGED <<polls, job, warnings, nextGrant, namespace, body, ontology, jobBody,
                   conflictJob, importJob, metrics, grants, handmade>>

\* Not idempotent: every call mints a sourceId.
CreateSource ==
    /\ pc = "sources"
    /\ nextSource <= NSources
    /\ sources' = [sources EXCEPT ![nextSource] = @ + 1]
    /\ nextSource' = nextSource + 1
    /\ \E to \in {"sources", "failed"} : Go(to)
    /\ UNCHANGED <<polls, job, warnings, nextGrant, namespace, body, ontology, jobBody,
                   conflictJob, importJob, metrics, grants, handmade>>

SourcesCreated ==
    /\ pc = "sources"
    /\ nextSource > NSources
    /\ Go("grants")
    /\ UNCHANGED <<polls, job, warnings, nextSource, nextGrant, coaVars>>

CreateGrant ==
    /\ pc = "grants"
    /\ nextGrant <= NGrants
    /\ grants' = [grants EXCEPT ![nextGrant] = @ + 1]
    /\ nextGrant' = nextGrant + 1
    /\ \E to \in {"grants", "failed"} : Go(to)
    /\ UNCHANGED <<polls, job, warnings, nextSource, namespace, body, ontology, jobBody,
                   conflictJob, importJob, metrics, sources, handmade>>

GrantsCreated ==
    /\ pc = "grants"
    /\ nextGrant > NGrants
    /\ Go("installed")
    /\ UNCHANGED <<polls, job, warnings, nextSource, nextGrant, coaVars>>

Install ==
    \/ GetNamespace \/ PostNamespace
    \/ RequestUploadUrl \/ PutPresigned
    \/ IngestAccepted \/ IngestConflict \/ PollIngest
    \/ ImportOsi \/ PollImport \/ ReadImportDetail
    \/ CreateSource \/ SourcesCreated
    \/ CreateGrant \/ GrantsCreated

-----------------------------------------------------------------------------
(* COA: what src/ says of the control plane that is not in it *)

NamespaceBecomesVisible ==
    /\ namespace = "committed"
    /\ namespace' = "visible"
    /\ UNCHANGED <<pc, installerVars, body, ontology, jobBody, conflictJob, importJob,
                   metrics, sources, grants, handmade, historyVars>>

\* A job without a body ends in NoSuchKey; any job may fail for COA's own reasons.
IngestAdvances ==
    /\ \/ ontology = "pending" /\ ontology' = "running"
       \/ ontology = "running" /\ jobBody /\ ontology' = "embeddings_sync"
       \/ ontology = "embeddings_sync" /\ ontology' = "completed"
       \/ ontology \in IngestPending /\ ontology' = "failed"
    /\ UNCHANGED <<pc, installerVars, namespace, body, jobBody, conflictJob, importJob,
                   metrics, sources, grants, handmade, historyVars>>

ConflictFails(r) ==
    /\ conflictJob[r] = "pending"
    /\ conflictJob' = [conflictJob EXCEPT ![r] = "failed"]
    /\ UNCHANGED <<pc, installerVars, namespace, body, ontology, jobBody, importJob,
                   metrics, sources, grants, handmade, historyVars>>

\* Datasets are resolved first: without their data sources no metric is created
\* (docs/MODE3_COA.md). What an inline or an unknown import does, no one reads.
ImportMoves(r) ==
    /\ \/ /\ importJob[r] = "IN_PROGRESS"
          /\ \/ Registered /\ metrics' = TRUE /\ importJob' = [importJob EXCEPT ![r] = "COMPLETED"]
             \/ /\ \E status \in {"FAILED_errors", "unknown"}
                             \cup (IF Registered THEN {} ELSE {"FAILED_unresolved"}) :
                      importJob' = [importJob EXCEPT ![r] = status]
                /\ UNCHANGED metrics
       \/ /\ importJob[r] \in {"inline", "unknown"}
          /\ Registered /\ metrics' = TRUE
          /\ UNCHANGED importJob
    /\ UNCHANGED <<pc, installerVars, namespace, body, ontology, jobBody, conflictJob,
                   sources, grants, handmade, historyVars>>

COA ==
    \/ NamespaceBecomesVisible
    \/ IngestAdvances
    \/ \E r \in Run : ConflictFails(r) \/ ImportMoves(r)

-----------------------------------------------------------------------------

Next == StartRun \/ RegisterByHand \/ Install \/ Raise \/ COA

Spec == Init /\ [][Next]_vars

\* Every HTTP call of CoaClient has a timeout, so the installer never stands
\* still in a call. Nothing is assumed of COA or of the operator.
FairSpec == Spec /\ WF_vars(Install)

-----------------------------------------------------------------------------
(* Properties *)

ControlOK ==
    /\ pc \in {"idle"} \cup Stage \cup Ending
    /\ create \in BOOLEAN /\ hadSource \in BOOLEAN
    /\ runs \in 0..MaxRuns
    /\ stopped \in [Run -> {"running", "installed"} \cup Stage]
    /\ pc # "idle" => runs > 0

TypeOK ==
    /\ ControlOK
    /\ polls \in 0..MaxPolls
    /\ job \in {"none", "loading", "conflict"}
    /\ warnings \in SUBSET Warning
    /\ nextSource \in 1..(NSources + 1) /\ nextGrant \in 1..(NGrants + 1)
    /\ namespace \in {"absent", "committed", "visible"}
    /\ body \in BOOLEAN /\ jobBody \in BOOLEAN
    /\ ontology \in IngestStatus
    /\ conflictJob \in [Run -> {"absent", "pending", "failed"}]
    /\ importJob \in [Run -> ImportStatus]
    /\ metrics \in BOOLEAN /\ handmade \in BOOLEAN
    /\ sources \in [Source -> Nat] /\ grants \in [Grant -> Nat]

\* A run that reports success without having warned about the ingest leaves the
\* ontology fully loaded, vector index included: the wait for `completed` that
\* the docstring of installer.py gives the reason for.
OntologyReady ==
    pc = "installed" /\ warnings \cap {"ingest_skipped", "no_ingest_job"} = {}
        => ontology = "completed"

\* A run that reports success without the "metrics not imported" warning has
\* brought the pack's metrics online: the 202 of the import says nothing, only
\* the job does. An import that COA answers without a job in progress is the
\* exception: nothing confirms it, and nothing is warned about.
MetricsReady ==
    pc = "installed" /\ HasMetrics /\ "metrics_deferred" \notin warnings
        => metrics \/ importJob[runs] = "inline"

\* Registering the data sources and running the installer again brings the
\* metrics online (docs/MODE3_COA.md): a run that starts with them registered,
\* and whose import is a job in states the installer knows, succeeds only with
\* the metrics online, whatever the runs before it left.
RerunBringsMetricsOnline ==
    pc = "installed" /\ HasMetrics /\ hadSource
        => metrics \/ importJob[runs] \in {"inline", "unknown"}

\* Sources are registered late for this reason: as long as every earlier run
\* ended before the source step, no source has more than one sourceId, however
\* often and wherever those runs failed.
EarlyFailuresAreSafe ==
    (\A r \in Run : r < runs => stopped[r] \in EarlyStage)
        => \A s \in Source : sources[s] <= 1

\* The installer registers a source only after this run has settled the
\* ontology and the metrics: done, skipped with a warning, or answered inline.
SettledBeforeSources ==
    [][sources' # sources =>
        /\ ontology = "completed" \/ warnings \cap {"ingest_skipped", "no_ingest_job"} # {}
        /\ \/ ~HasMetrics \/ metrics
           \/ "metrics_deferred" \in warnings \/ importJob[runs] = "inline"]_vars

\* A run ends, whatever COA does with the jobs it waits for: the time-outs of
\* _poll bound both waits.
RunEnds == pc \in Stage ~> pc \notin Stage

(* What the repository says and the code does not do *)

\* "re-running a failed install is safe": a source that has two sourceIds had
\* them minted by runs of which an earlier one had succeeded.
RetryIsSafe ==
    (\A r \in Run : r < runs => stopped[r] # "installed")
        => \A s \in Source : sources[s] <= 1
=============================================================================
