---------------------------- MODULE MCLocalStore ----------------------------
(* The two writers of the local store, each at work alone: the extraction    *)
(* pipeline as in MCExtraction, and the sync of public sources over two      *)
(* keywords that share a CVE, two MITRE objects and their relationship. They *)
(* write other kinds of rows, so what they do side by side is their product. *)
EXTENDS MCExtraction, GraphSync, TLC

CONSTANTS c1, c2, t1, g1

VARIABLE part   \* the writer at work

storesVars == <<part, vars, syncVars>>

MCKeywords == <<"Siemens", "Fortinet">>
MCFound == [k \in {"Siemens", "Fortinet"} |-> IF k = "Siemens" THEN {c1} ELSE {c1, c2}]
MCRelationship == {<<g1, t1>>}
MCStoresSymmetry == Permutations(Caller) \cup Permutations(Request)

StoresInit ==
    /\ part \in {"extraction", "sync"}
    /\ Init /\ SyncInit
    /\ part = "extraction" => vulns = [n \in Cve |-> {}]

ExtractionStep == part = "extraction" /\ Next /\ UNCHANGED <<part, syncVars>>

PublicSourcesStep == part = "sync" /\ SyncNext /\ UNCHANGED <<part, vars>>

StoresSpec == StoresInit /\ [][ExtractionStep \/ PublicSourcesStep]_storesVars
=============================================================================
