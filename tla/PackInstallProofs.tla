--------------------------- MODULE PackInstallProofs ---------------------------
(***************************************************************************)
(* What PackInstall promises for every pack, every number of runs and      *)
(* every timeout. The inductive invariant IInv adds to each property what  *)
(* is true of the stages that lead to it.                                  *)
(***************************************************************************)
EXTENDS PackInstall, TLAPS

ImportStage  == {"import", "import_poll", "import_detail"}
SourceStage  == {"sources", "grants", "installed"}

\* Past the ingest, the ontology is loaded or the report carries a warning.
OntologySettled ==
    pc \in ImportStage \cup SourceStage
        => ontology = "completed" \/ warnings \cap {"ingest_skipped", "no_ingest_job"} # {}

\* Past the import, the metrics are online, the report carries a warning, or COA
\* named no job to poll.
MetricsSettled ==
    pc \in SourceStage =>
        \/ ~HasMetrics \/ metrics
        \/ "metrics_deferred" \in warnings \/ importJob[runs] = "inline"

\* Only a job that resolved its datasets completes.
CompletedImport == \A r \in Run : importJob[r] = "COMPLETED" => metrics

\* A registered source stays registered, so the run that found the data sources
\* cannot have its import fail for want of them: it defers its metrics only over
\* a job in an unknown state.
SourceFound ==
    /\ hadSource => Registered
    /\ hadSource => runs > 0 /\ importJob[runs] # "FAILED_unresolved"
    /\ hadSource /\ "metrics_deferred" \in warnings => importJob[runs] = "unknown"
    /\ pc = "import_detail" =>
           importJob[runs] \in {"FAILED_unresolved", "FAILED_errors", "unknown"}
    /\ pc = "import_poll" => importJob[runs] # "inline"
    /\ pc \in EarlyStage \ {"import_poll", "import_detail"} =>
           importJob[runs] = "none" /\ "metrics_deferred" \notin warnings
    /\ \A r \in Run : r > runs => importJob[r] = "none"

EarlyRunsOnly == \A r \in Run : r < runs => stopped[r] \in EarlyStage

\* While only early failures happened, sources exist up to nextSource at most
\* once, and none exists before the source step of the current run.
SourcesSoFar ==
    /\ pc = "idle" => runs = 0
    /\ pc = "installed" => stopped[runs] = "installed"
    /\ pc = "failed" => stopped[runs] \in Stage
    /\ pc \in Ending => runs > 0
    /\ EarlyRunsOnly =>
        /\ pc \in {"idle"} \cup EarlyStage => \A s \in Source : sources[s] = 0
        /\ pc = "failed" /\ stopped[runs] \in EarlyStage => \A s \in Source : sources[s] = 0
        /\ pc = "sources" => \A s \in Source : s >= nextSource => sources[s] = 0
        /\ \A s \in Source : sources[s] <= 1

IInv ==
    /\ TypeOK
    /\ OntologySettled
    /\ MetricsSettled
    /\ CompletedImport
    /\ SourceFound
    /\ SourcesSoFar
-----------------------------------------------------------------------------
(* Every step keeps every part of IInv *)

\* Every step of the installer leaves one stage for a stage or an ending.
LEMMA InstallGoes ==
    ASSUME TypeOK, Install \/ Raise
    PROVE  pc \in Stage /\ \E to \in Stage \cup Ending : Go(to)
<1> USE DEF Stage, EarlyStage, Ending
<1>1. CASE Raise
  BY <1>1 DEF Raise
<1>2. CASE GetNamespace
  BY <1>2 DEF GetNamespace
<1>3. CASE PostNamespace
  BY <1>3 DEF PostNamespace
<1>4. CASE RequestUploadUrl
  BY <1>4 DEF RequestUploadUrl
<1>5. CASE PutPresigned
  BY <1>5 DEF PutPresigned
<1>6. CASE IngestAccepted
  BY <1>6 DEF IngestAccepted, AfterOntology
<1>7. CASE IngestConflict
  BY <1>7 DEF IngestConflict, AfterOntology
<1>8. CASE PollIngest
  BY <1>8 DEF PollIngest, AfterOntology, KeepPolling
<1>9. CASE ImportOsi
  BY <1>9 DEF ImportOsi
<1>10. CASE PollImport
  BY <1>10 DEF PollImport, KeepPolling
<1>11. CASE ReadImportDetail
  BY <1>11 DEF ReadImportDetail
<1>12. CASE CreateSource
  BY <1>12 DEF CreateSource
<1>13. CASE SourcesCreated
  BY <1>13 DEF SourcesCreated
<1>14. CASE CreateGrant
  BY <1>14 DEF CreateGrant
<1>15. CASE GrantsCreated
  BY <1>15 DEF GrantsCreated
<1>16. QED
  BY <1>1, <1>2, <1>3, <1>4, <1>5, <1>6, <1>7, <1>8, <1>9, <1>10, <1>11, <1>12, <1>13, <1>14, <1>15 DEF Install

LEMMA ControlStep == TypeOK /\ [Next]_vars => ControlOK'
<1> SUFFICES ASSUME TypeOK, [Next]_vars PROVE ControlOK'
  OBVIOUS
<1> USE DEF ControlOK, TypeOK
<1>1. CASE Install \/ Raise
  <2>1. PICK to \in Stage \cup Ending : pc \in Stage /\ Go(to)
    BY <1>1, InstallGoes
  <2>2. QED
    BY <2>1 DEF Go, Run, Ending, Stage, EarlyStage
<1>2. CASE StartRun
  <2>1. hadSource' \in BOOLEAN
    <3>1. hadSource' = Registered
      BY <1>2 DEF StartRun
    <3>2. Registered \in BOOLEAN
      BY Zenon DEF Registered
    <3>3. QED
      BY <3>1, <3>2
  <2>2. QED
    BY <1>2, <2>1, PackAssumption DEF StartRun, Run, Stage, EarlyStage, Ending
<1>3. CASE RegisterByHand \/ COA \/ UNCHANGED vars
  BY <1>3 DEF RegisterByHand, COA, NamespaceBecomesVisible, IngestAdvances, ConflictFails,
              ImportMoves, installerVars, historyVars, vars
<1>4. QED
  BY <1>1, <1>2, <1>3 DEF Next

LEMMA TypeStep == TypeOK /\ [Next]_vars => TypeOK'
<1> SUFFICES ASSUME TypeOK, [Next]_vars PROVE TypeOK'
  OBVIOUS
<1> USE PackAssumption DEF TypeOK, Source, Grant, Run, IngestPending, IngestStatus, ImportStatus, Warning,
             installerVars, coaVars
<1>1. CASE StartRun
  BY <1>1, ControlStep DEF StartRun
<1>2. CASE RegisterByHand
  BY <1>2, ControlStep DEF RegisterByHand
<1>3. CASE Raise
  BY <1>3, ControlStep DEF Raise
<1>4. CASE GetNamespace
  BY <1>4, ControlStep DEF GetNamespace
<1>5. CASE PostNamespace
  BY <1>5, ControlStep DEF PostNamespace
<1>6. CASE RequestUploadUrl
  BY <1>6, ControlStep DEF RequestUploadUrl
<1>7. CASE PutPresigned
  BY <1>7, ControlStep DEF PutPresigned
<1>8. CASE IngestAccepted
  BY <1>8, ControlStep DEF IngestAccepted
<1>9. CASE IngestConflict
  BY <1>9, ControlStep DEF IngestConflict
<1>10. CASE PollIngest
  <2>1. polls' \in 0..MaxPolls
    BY <1>10 DEF PollIngest, KeepPolling
  <2>2. warnings' \in SUBSET Warning
    BY <1>10 DEF PollIngest
  <2>3. QED
    BY <1>10, <2>1, <2>2, ControlStep DEF PollIngest
<1>11. CASE ImportOsi
  BY <1>11, ControlStep DEF ImportOsi
<1>12. CASE PollImport
  BY <1>12, ControlStep DEF PollImport, KeepPolling
<1>13. CASE ReadImportDetail
  BY <1>13, ControlStep DEF ReadImportDetail
<1>14. CASE CreateSource
  BY <1>14, ControlStep DEF CreateSource
<1>15. CASE SourcesCreated
  BY <1>15, ControlStep DEF SourcesCreated
<1>16. CASE CreateGrant
  BY <1>16, ControlStep DEF CreateGrant
<1>17. CASE GrantsCreated
  BY <1>17, ControlStep DEF GrantsCreated
<1>18. CASE NamespaceBecomesVisible
  BY <1>18, ControlStep DEF NamespaceBecomesVisible
<1>19. CASE IngestAdvances
  BY <1>19, ControlStep DEF IngestAdvances
<1>20. ASSUME NEW r \in Run, ConflictFails(r) PROVE TypeOK'
  BY <1>20, ControlStep DEF ConflictFails
<1>21. ASSUME NEW r \in Run, ImportMoves(r) PROVE TypeOK'
  BY <1>21, ControlStep DEF ImportMoves
<1>22. CASE UNCHANGED vars
  BY <1>22, ControlStep DEF vars
<1>23. QED
  BY <1>1, <1>2, <1>3, <1>4, <1>5, <1>6, <1>7, <1>8, <1>9, <1>10, <1>11, <1>12, <1>13,
     <1>14, <1>15, <1>16, <1>17, <1>18, <1>19, <1>20, <1>21, <1>22 DEF Next, Install, COA

LEMMA OntologyStep == TypeOK /\ OntologySettled /\ [Next]_vars => OntologySettled'
<1> SUFFICES ASSUME TypeOK, OntologySettled, [Next]_vars PROVE OntologySettled'
  OBVIOUS
<1> USE PackAssumption DEF OntologySettled, Stage, EarlyStage, Ending, ImportStage, SourceStage, IngestPending,
             installerVars, coaVars, historyVars
<1>1. CASE StartRun
  BY <1>1 DEF StartRun
<1>2. CASE RegisterByHand
  BY <1>2 DEF RegisterByHand
<1>3. CASE Raise
  BY <1>3 DEF Raise, Go
<1>4. CASE GetNamespace
  BY <1>4 DEF GetNamespace, Go
<1>5. CASE PostNamespace
  BY <1>5 DEF PostNamespace, Go
<1>6. CASE RequestUploadUrl
  BY <1>6 DEF RequestUploadUrl, Go
<1>7. CASE PutPresigned
  BY <1>7 DEF PutPresigned, Go
<1>8. CASE IngestAccepted
  BY <1>8 DEF IngestAccepted, Go, AfterOntology
<1>9. CASE IngestConflict
  BY <1>9 DEF IngestConflict, Go, AfterOntology
<1>10. CASE PollIngest
  <2>1. CASE PolledIngest = "completed"
    <3>1. job = "loading" /\ ontology = "completed"
      BY <2>1, <1>10 DEF PolledIngest, PollIngest, TypeOK, ControlOK, Run
    <3>2. QED
      BY <3>1, <1>10 DEF PollIngest
  <2>2. CASE PolledIngest \in IngestPending
    <3>1. pc' \in {"ingest_poll", "failed"}
      BY <2>2, <1>10 DEF PollIngest, KeepPolling, Go
    <3>2. QED
      BY <3>1
  <2>3. CASE PolledIngest = "failed"
    <3>1. pc' = "failed" \/ "ingest_skipped" \in warnings'
      BY <2>3, <1>10 DEF PollIngest, Go
    <3>2. QED
      BY <3>1
  <2>4. QED
    BY <2>1, <2>2, <2>3, <1>10 DEF PollIngest
<1>11. CASE ImportOsi
  BY <1>11 DEF ImportOsi, Go
<1>12. CASE PollImport
  BY <1>12 DEF PollImport, Go, KeepPolling
<1>13. CASE ReadImportDetail
  BY <1>13 DEF ReadImportDetail, Go
<1>14. CASE CreateSource
  BY <1>14 DEF CreateSource, Go
<1>15. CASE SourcesCreated
  BY <1>15 DEF SourcesCreated, Go
<1>16. CASE CreateGrant
  BY <1>16 DEF CreateGrant, Go
<1>17. CASE GrantsCreated
  BY <1>17 DEF GrantsCreated, Go
<1>18. CASE NamespaceBecomesVisible
  BY <1>18 DEF NamespaceBecomesVisible
<1>19. CASE IngestAdvances
  BY <1>19 DEF IngestAdvances
<1>20. ASSUME NEW r \in Run, ConflictFails(r) PROVE OntologySettled'
  BY <1>20 DEF ConflictFails
<1>21. ASSUME NEW r \in Run, ImportMoves(r) PROVE OntologySettled'
  BY <1>21 DEF ImportMoves
<1>22. CASE UNCHANGED vars
  BY <1>22 DEF vars
<1>23. QED
  BY <1>1, <1>2, <1>3, <1>4, <1>5, <1>6, <1>7, <1>8, <1>9, <1>10, <1>11, <1>12, <1>13,
     <1>14, <1>15, <1>16, <1>17, <1>18, <1>19, <1>20, <1>21, <1>22 DEF Next, Install, COA

LEMMA MetricsStep == TypeOK /\ CompletedImport /\ MetricsSettled /\ [Next]_vars => (CompletedImport /\ MetricsSettled)'
<1> SUFFICES ASSUME TypeOK, CompletedImport, MetricsSettled, [Next]_vars PROVE (CompletedImport /\ MetricsSettled)'
  OBVIOUS
<1> USE PackAssumption DEF MetricsSettled, CompletedImport, TypeOK, ControlOK, Run, ImportStatus, Stage, EarlyStage, Ending, ImportStage, SourceStage, IngestPending,
             installerVars, coaVars, historyVars
<1>1. CASE StartRun
  BY <1>1 DEF StartRun
<1>2. CASE RegisterByHand
  BY <1>2 DEF RegisterByHand
<1>3. CASE Raise
  BY <1>3 DEF Raise, Go
<1>4. CASE GetNamespace
  BY <1>4 DEF GetNamespace, Go
<1>5. CASE PostNamespace
  BY <1>5 DEF PostNamespace, Go
<1>6. CASE RequestUploadUrl
  BY <1>6 DEF RequestUploadUrl, Go
<1>7. CASE PutPresigned
  BY <1>7 DEF PutPresigned, Go
<1>8. CASE IngestAccepted
  BY <1>8 DEF IngestAccepted, Go, AfterOntology
<1>9. CASE IngestConflict
  BY <1>9 DEF IngestConflict, Go, AfterOntology
<1>10. CASE PollIngest
  BY <1>10 DEF PollIngest, Go, AfterOntology, PolledIngest, KeepPolling
<1>11. CASE ImportOsi
  BY <1>11 DEF ImportOsi, Go
<1>12. CASE PollImport
  BY <1>12 DEF PollImport, Go, KeepPolling
<1>13. CASE ReadImportDetail
  BY <1>13 DEF ReadImportDetail, Go
<1>14. CASE CreateSource
  BY <1>14 DEF CreateSource, Go
<1>15. CASE SourcesCreated
  BY <1>15 DEF SourcesCreated, Go
<1>16. CASE CreateGrant
  BY <1>16 DEF CreateGrant, Go
<1>17. CASE GrantsCreated
  BY <1>17 DEF GrantsCreated, Go
<1>18. CASE NamespaceBecomesVisible
  BY <1>18 DEF NamespaceBecomesVisible
<1>19. CASE IngestAdvances
  BY <1>19 DEF IngestAdvances
<1>20. ASSUME NEW r \in Run, ConflictFails(r) PROVE (CompletedImport /\ MetricsSettled)'
  BY <1>20 DEF ConflictFails
<1>21. ASSUME NEW r \in Run, ImportMoves(r) PROVE (CompletedImport /\ MetricsSettled)'
  <2>1. metrics => metrics'
    BY <1>21 DEF ImportMoves
  <2>2. \A q \in Run : importJob'[q] = importJob[q] \/ importJob[q] = "IN_PROGRESS"
    BY <1>21 DEF ImportMoves
  <2>3. CompletedImport'
    BY <1>21, <2>1 DEF ImportMoves
  <2>4. pc \in SourceStage => runs \in Run
    OBVIOUS
  <2>5. UNCHANGED <<pc, runs, warnings>>
    BY <1>21 DEF ImportMoves
  <2>6. QED
    BY <2>1, <2>2, <2>3, <2>4, <2>5
<1>22. CASE UNCHANGED vars
  BY <1>22 DEF vars
<1>23. QED
  BY <1>1, <1>2, <1>3, <1>4, <1>5, <1>6, <1>7, <1>8, <1>9, <1>10, <1>11, <1>12, <1>13,
     <1>14, <1>15, <1>16, <1>17, <1>18, <1>19, <1>20, <1>21, <1>22 DEF Next, Install, COA

LEMMA SourceFoundStep == TypeOK /\ SourceFound /\ [Next]_vars => SourceFound'
<1> SUFFICES ASSUME TypeOK, SourceFound, [Next]_vars PROVE SourceFound'
  OBVIOUS
<1> USE PackAssumption DEF SourceFound, Registered, TypeOK, ControlOK, Run, Source, ImportStatus, Stage, EarlyStage, Ending, ImportStage, SourceStage, IngestPending,
             installerVars, coaVars, historyVars
<1>1. CASE StartRun
  BY <1>1 DEF StartRun
<1>2. CASE RegisterByHand
  BY <1>2 DEF RegisterByHand
<1>3. CASE Raise
  BY <1>3 DEF Raise, Go
<1>4. CASE GetNamespace
  BY <1>4 DEF GetNamespace, Go
<1>5. CASE PostNamespace
  BY <1>5 DEF PostNamespace, Go
<1>6. CASE RequestUploadUrl
  BY <1>6 DEF RequestUploadUrl, Go
<1>7. CASE PutPresigned
  BY <1>7 DEF PutPresigned, Go
<1>8. CASE IngestAccepted
  BY <1>8 DEF IngestAccepted, Go, AfterOntology
<1>9. CASE IngestConflict
  BY <1>9 DEF IngestConflict, Go, AfterOntology
<1>10. CASE PollIngest
  BY <1>10 DEF PollIngest, Go, AfterOntology, PolledIngest, KeepPolling
<1>11. CASE ImportOsi
  BY <1>11 DEF ImportOsi, Go
<1>12. CASE PollImport
  BY <1>12 DEF PollImport, Go, KeepPolling
<1>13. CASE ReadImportDetail
  BY <1>13 DEF ReadImportDetail, Go
<1>14. CASE CreateSource
  BY <1>14 DEF CreateSource, Go
<1>15. CASE SourcesCreated
  BY <1>15 DEF SourcesCreated, Go
<1>16. CASE CreateGrant
  BY <1>16 DEF CreateGrant, Go
<1>17. CASE GrantsCreated
  BY <1>17 DEF GrantsCreated, Go
<1>18. CASE NamespaceBecomesVisible
  BY <1>18 DEF NamespaceBecomesVisible
<1>19. CASE IngestAdvances
  BY <1>19 DEF IngestAdvances
<1>20. ASSUME NEW r \in Run, ConflictFails(r) PROVE SourceFound'
  BY <1>20 DEF ConflictFails
<1>21. ASSUME NEW r \in Run, ImportMoves(r) PROVE SourceFound'
  BY <1>21 DEF ImportMoves
<1>22. CASE UNCHANGED vars
  BY <1>22 DEF vars
<1>23. QED
  BY <1>1, <1>2, <1>3, <1>4, <1>5, <1>6, <1>7, <1>8, <1>9, <1>10, <1>11, <1>12, <1>13,
     <1>14, <1>15, <1>16, <1>17, <1>18, <1>19, <1>20, <1>21, <1>22 DEF Next, Install, COA

\* A stage that ends, or that only follows another, moves no source.
LEMMA SourcesKept ==
    ASSUME TypeOK, SourcesSoFar, NEW to, Go(to), UNCHANGED <<sources, nextSource>>,
           \/ pc \in EarlyStage /\ to \in EarlyStage \cup {"sources", "failed"}
           \/ pc \in {"sources", "grants"} /\ to \in {"grants", "installed", "failed"}
    PROVE  SourcesSoFar'
<1>1. runs \in Run /\ runs' = runs
  BY PackAssumption DEF TypeOK, ControlOK, Go, EarlyStage, Run
<1>2. \A r \in Run : r < runs => stopped'[r] = stopped[r]
  BY <1>1 DEF Go, TypeOK, ControlOK, Run
<1>3. EarlyRunsOnly' => EarlyRunsOnly
  BY <1>1, <1>2 DEF EarlyRunsOnly
<1>4. to = "failed" => stopped'[runs] = pc
  BY <1>1 DEF Go, TypeOK, ControlOK, Ending
<1>5. to = "installed" => stopped'[runs] = "installed"
  BY <1>1 DEF Go, TypeOK, ControlOK, Ending
<1>6. pc' = to /\ runs > 0
  BY <1>1 DEF Go, Run
<1>7. QED
  BY <1>1, <1>3, <1>4, <1>5, <1>6 DEF SourcesSoFar, Stage, EarlyStage, Ending

LEMMA SourcesStep == TypeOK /\ SourcesSoFar /\ [Next]_vars => SourcesSoFar'
<1> SUFFICES ASSUME TypeOK, SourcesSoFar, [Next]_vars PROVE SourcesSoFar'
  OBVIOUS
<1> USE PackAssumption DEF installerVars, coaVars, historyVars
<1>1. CASE StartRun
  <2>1. runs' = runs + 1 /\ pc' = "get_namespace" /\ UNCHANGED <<sources, stopped>>
    BY <1>1 DEF StartRun, coaVars
  <2>2. EarlyRunsOnly' => EarlyRunsOnly /\ (runs > 0 => stopped[runs] \in EarlyStage)
    BY <2>1 DEF EarlyRunsOnly, TypeOK, ControlOK, Run
  <2>3. pc \in {"idle", "installed", "failed"}
    BY <1>1 DEF StartRun, TypeOK, ControlOK, Ending
  <2>4. EarlyRunsOnly' => \A s \in Source : sources[s] = 0
    BY <2>2, <2>3 DEF SourcesSoFar, Ending, EarlyStage
  <2>5. QED
    BY <2>1, <2>4 DEF SourcesSoFar, Stage, EarlyStage, Ending
<1>2. CASE RegisterByHand
  BY <1>2 DEF RegisterByHand, SourcesSoFar, EarlyRunsOnly
<1>3. CASE Raise
  BY <1>3, SourcesKept DEF Raise, Stage
<1>4. CASE GetNamespace
  BY <1>4, SourcesKept DEF GetNamespace, EarlyStage
<1>5. CASE PostNamespace
  BY <1>5, SourcesKept DEF PostNamespace, EarlyStage
<1>6. CASE RequestUploadUrl
  BY <1>6, SourcesKept DEF RequestUploadUrl, EarlyStage
<1>7. CASE PutPresigned
  BY <1>7, SourcesKept DEF PutPresigned, EarlyStage
<1>8. CASE IngestAccepted
  BY <1>8, SourcesKept DEF IngestAccepted, AfterOntology, EarlyStage
<1>9. CASE IngestConflict
  BY <1>9, SourcesKept DEF IngestConflict, AfterOntology, EarlyStage
<1>10. CASE PollIngest
  BY <1>10, SourcesKept DEF PollIngest, AfterOntology, KeepPolling, EarlyStage
<1>11. CASE ImportOsi
  BY <1>11, SourcesKept DEF ImportOsi, EarlyStage
<1>12. CASE PollImport
  BY <1>12, SourcesKept DEF PollImport, KeepPolling, EarlyStage
<1>13. CASE ReadImportDetail
  BY <1>13, SourcesKept DEF ReadImportDetail, EarlyStage
<1>14. CASE CreateSource
  <2>1. PICK to \in {"sources", "failed"} : Go(to)
    BY <1>14 DEF CreateSource
  <2>2. runs \in Run /\ runs' = runs /\ pc = "sources" /\ pc' = to
    BY <2>1, <1>14 DEF CreateSource, TypeOK, ControlOK, Go, Stage, Run
  <2>3. \A r \in Run : r < runs => stopped'[r] = stopped[r]
    BY <2>1, <2>2 DEF Go, TypeOK, ControlOK, Run
  <2>4. EarlyRunsOnly' => EarlyRunsOnly
    BY <2>2, <2>3 DEF EarlyRunsOnly
  <2>5. to = "failed" => stopped'[runs] = "sources"
    BY <2>1, <2>2 DEF Go, TypeOK, ControlOK, Ending
  <2>6. /\ nextSource \in Source /\ nextSource' = nextSource + 1
        /\ sources' = [sources EXCEPT ![nextSource] = @ + 1]
    BY <1>14 DEF CreateSource, TypeOK, Source
  <2>7. EarlyRunsOnly => \A s \in Source : sources'[s] <= 1 /\ (s > nextSource => sources'[s] = 0)
    BY <2>2, <2>6 DEF SourcesSoFar, TypeOK, Source
  <2>8. QED
    BY <2>2, <2>4, <2>5, <2>6, <2>7 DEF SourcesSoFar, Stage, EarlyStage, Ending, Run, Source, TypeOK
<1>15. CASE SourcesCreated
  BY <1>15, SourcesKept DEF SourcesCreated, EarlyStage
<1>16. CASE CreateGrant
  BY <1>16, SourcesKept DEF CreateGrant, EarlyStage
<1>17. CASE GrantsCreated
  BY <1>17, SourcesKept DEF GrantsCreated, EarlyStage
<1>18. CASE NamespaceBecomesVisible
  BY <1>18 DEF NamespaceBecomesVisible, SourcesSoFar, EarlyRunsOnly
<1>19. CASE IngestAdvances
  BY <1>19 DEF IngestAdvances, SourcesSoFar, EarlyRunsOnly
<1>20. ASSUME NEW r \in Run, ConflictFails(r) PROVE SourcesSoFar'
  BY <1>20 DEF ConflictFails, SourcesSoFar, EarlyRunsOnly
<1>21. ASSUME NEW r \in Run, ImportMoves(r) PROVE SourcesSoFar'
  BY <1>21 DEF ImportMoves, SourcesSoFar, EarlyRunsOnly
<1>22. CASE UNCHANGED vars
  BY <1>22 DEF vars, SourcesSoFar, EarlyRunsOnly
<1>23. QED
  BY <1>1, <1>2, <1>3, <1>4, <1>5, <1>6, <1>7, <1>8, <1>9, <1>10, <1>11, <1>12, <1>13,
     <1>14, <1>15, <1>16, <1>17, <1>18, <1>19, <1>20, <1>21, <1>22 DEF Next, Install, COA

-----------------------------------------------------------------------------
(* The theorems *)

LEMMA InitIInv == Init => IInv
<1> SUFFICES ASSUME Init PROVE IInv
  OBVIOUS
<1> USE PackAssumption DEF Init
<1>1. TypeOK
  <2>1. stopped \in [Run -> {"running", "installed"} \cup Stage]
    OBVIOUS
  <2>2. conflictJob \in [Run -> {"absent", "pending", "failed"}]
    OBVIOUS
  <2>3. importJob \in [Run -> ImportStatus]
    BY DEF ImportStatus
  <2>4. sources \in [Source -> Nat] /\ grants \in [Grant -> Nat]
    OBVIOUS
  <2>5. runs \in 0..MaxRuns /\ polls \in 0..MaxPolls
    OBVIOUS
  <2>6. nextSource \in 1..(NSources + 1) /\ nextGrant \in 1..(NGrants + 1)
    OBVIOUS
  <2>7. ControlOK
    BY <2>1, <2>5 DEF ControlOK, Stage, EarlyStage
  <2>8. QED
    BY <2>2, <2>3, <2>4, <2>5, <2>6, <2>7 DEF TypeOK, IngestStatus, Warning
<1>2. OntologySettled /\ MetricsSettled
  BY DEF OntologySettled, MetricsSettled, ImportStage, SourceStage
<1>3. CompletedImport /\ SourceFound
  BY DEF CompletedImport, SourceFound, EarlyStage
<1>4. SourcesSoFar
  BY DEF SourcesSoFar, Ending, EarlyStage
<1>5. QED
  BY <1>1, <1>2, <1>3, <1>4 DEF IInv

LEMMA StepIInv == IInv /\ [Next]_vars => IInv'
BY TypeStep, OntologyStep, MetricsStep, SourceFoundStep, SourcesStep DEF IInv

\* The inductive invariant of the installer and of what it leaves in COA.
THEOREM Invariance == Spec => []IInv
BY InitIInv, StepIInv, PTL DEF Spec

\* Type correctness of every run of every pack.
THEOREM Typing == Spec => []TypeOK
<1>1. IInv => TypeOK
  BY DEF IInv
<1>2. QED
  BY <1>1, Invariance, PTL

\* A success without an ingest warning means a completed ingest: no branch of
\* install() after the ingest is reached in any other way.
THEOREM OntologyIsReady == Spec => []OntologyReady
<1>1. IInv => OntologyReady
  BY DEF IInv, OntologySettled, OntologyReady, SourceStage
<1>2. QED
  BY <1>1, Invariance, PTL

\* A success without a metrics warning means that a completed job created the
\* metrics, unless COA answered the import without a job in progress: that answer
\* is believed whatever it did.
THEOREM MetricsAreReady == Spec => []MetricsReady
<1>1. IInv => MetricsReady
  BY DEF IInv, MetricsSettled, MetricsReady, SourceStage
<1>2. QED
  BY <1>1, Invariance, PTL

\* Re-running the installer once the data sources are registered brings the
\* metrics online, whatever the earlier runs left behind, as long as COA imports
\* by a job whose states the installer knows.
THEOREM RerunsBringMetrics == Spec => []RerunBringsMetricsOnline
<1>1. IInv => RerunBringsMetricsOnline
  BY DEF IInv, MetricsSettled, SourceFound, RerunBringsMetricsOnline, SourceStage
<1>2. QED
  BY <1>1, Invariance, PTL

\* Runs that fail before the source step never cost a second sourceId.
THEOREM EarlyFailuresMintNothing == Spec => []EarlyFailuresAreSafe
<1>1. IInv => EarlyFailuresAreSafe
  BY DEF IInv, SourcesSoFar, EarlyRunsOnly, EarlyFailuresAreSafe
<1>2. QED
  BY <1>1, Invariance, PTL

\* Sources are registered only after the ontology and the metrics are settled, or
\* the import was answered without a job in progress.
THEOREM SourcesComeLate == Spec => SettledBeforeSources
<1> DEFINE Settled == /\ ontology = "completed"
                         \/ warnings \cap {"ingest_skipped", "no_ingest_job"} # {}
                      /\ \/ ~HasMetrics \/ metrics
                         \/ "metrics_deferred" \in warnings \/ importJob[runs] = "inline"
<1>1. IInv /\ CreateSource => Settled
  BY DEF IInv, OntologySettled, MetricsSettled, CreateSource, SourceStage
<1>2. [Next]_vars /\ ~CreateSource => UNCHANGED sources
  <2> SUFFICES ASSUME [Next]_vars, ~CreateSource PROVE UNCHANGED sources
    OBVIOUS
  <2>1. CASE Install
    BY <2>1 DEF Install, GetNamespace, PostNamespace, RequestUploadUrl, PutPresigned,
                IngestAccepted, IngestConflict, PollIngest, ImportOsi, PollImport,
                ReadImportDetail, SourcesCreated, CreateGrant, GrantsCreated, coaVars
  <2>2. CASE StartRun \/ RegisterByHand \/ Raise \/ COA \/ UNCHANGED vars
    BY <2>2 DEF StartRun, RegisterByHand, Raise, COA, NamespaceBecomesVisible,
                IngestAdvances, ConflictFails, ImportMoves, coaVars, vars
  <2>3. QED
    BY <2>1, <2>2 DEF Next
<1>3. IInv /\ [Next]_vars => [sources' # sources => Settled]_vars
  BY <1>1, <1>2
<1>4. Settled <=> (/\ ontology = "completed"
                      \/ warnings \cap {"ingest_skipped", "no_ingest_job"} # {}
                   /\ \/ ~HasMetrics \/ metrics
                      \/ "metrics_deferred" \in warnings \/ importJob[runs] = "inline")
  OBVIOUS
<1>5. QED
  BY <1>3, <1>4, Invariance, PTL DEF Spec, SettledBeforeSources
=============================================================================
