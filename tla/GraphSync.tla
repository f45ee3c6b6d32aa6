------------------------------ MODULE GraphSync ------------------------------
(***************************************************************************)
(* POST /api/sync fills the local graph from three public sources: NVD     *)
(* keyword by keyword, the MITRE ATT&CK for ICS bundle, and the CISA KEV   *)
(* catalogue, each alone or all of them in this order. Requests overlap:   *)
(* every fetch is awaited, and what follows it up to the next await runs   *)
(* undivided, since the SQLite calls are synchronous.                      *)
(*                                                                         *)
(* A vulnerability node is the set of facts its properties hold: "nvd" for *)
(* the CVE record, "kev" for exploited_in_wild = true with the KEV dates,  *)
(* "other" for what the seed or /api/ingest put there; {} is no node.      *)
(***************************************************************************)
EXTENDS Naturals, Sequences

CONSTANTS
    Request,      \* calls of POST
    Cve,          \* vulnerability ids
    Keywords,     \* options.keywords, in order
    Found,        \* per keyword, the CVEs NVD returns with enough CVSS
    StixObject,   \* techniques, groups and malware of the MITRE bundle
    Relationship  \* its relationships: pairs of STIX objects

ASSUME SyncAssumption ==
    /\ Keywords \in Seq(STRING) /\ Keywords # <<>>
    /\ \A i \in DOMAIN Keywords : Found[Keywords[i]] \subseteq Cve
    /\ Relationship \subseteq StixObject \X StixObject
    /\ Cve \cap StixObject = {}   \* "cve-2024-3400"; "t0855" or a name

VARIABLES
    catalogue,  \* the CVEs the KEV catalogue lists now; it only grows
    vulns,      \* nodes table: the facts on each CVE
    mitre,      \* nodes table: the MITRE objects
    links,      \* edges table; copies of one edge count once
    at,         \* what each request does next
    connector,  \* body.connector
    keyword,    \* syncNvd: index of the current keyword
    got,        \* what the awaited fetch returned
    errors,     \* the keywords and sources in results.*.errors
    \* history
    alone,      \* no other write since the request began
    read        \* per request: the KEV catalogue and the MITRE bundle it read

graphVars == <<vulns, mitre, links>>
syncVars == <<catalogue, graphVars, at, connector, keyword, got, errors, alone, read>>

Connector == {"nvd", "mitre-ics", "cisa-kev", "all"}

SyncInit ==
    /\ catalogue = {}
    /\ vulns \in [Cve -> {{}, {"other"}}]
    /\ mitre = {} /\ links = {}
    /\ at = [r \in Request |-> "unused"]
    /\ connector = [r \in Request |-> "all"]
    /\ keyword = [r \in Request |-> 1]
    /\ got = [r \in Request |-> {}]
    /\ errors = [r \in Request |-> {}]
    /\ alone = [r \in Request |-> FALSE]
    /\ read = [r \in Request |-> {}]

Running(r) == at[r] \notin {"unused", "done"}

\* A write of w disturbs every other request.
Disturb(w) == alone' = [r \in Request |-> alone[r] /\ r = w]

-----------------------------------------------------------------------------
(* Around the requests *)

CisaLists(n) ==
    /\ n \notin catalogue
    /\ catalogue' = catalogue \cup {n}
    /\ UNCHANGED <<graphVars, at, connector, keyword, got, errors, alone, read>>

\* POST /api/ingest with a node that has this id: the upsert replaces all.
Ingest(n) ==
    /\ vulns' = [vulns EXCEPT ![n] = {"other"}]
    /\ alone' = [r \in Request |-> FALSE]
    /\ UNCHANGED <<catalogue, mitre, links, at, connector, keyword, got, errors, read>>

\* Where a request goes first, and where it goes after a source.
First(c) == CASE c \in {"nvd", "all"} -> "nvd"
              [] c = "mitre-ics" -> "mitre"
              [] c = "cisa-kev" -> "kev"

After(c, source) ==
    IF c # "all" THEN "done" ELSE [nvd |-> "mitre", mitre |-> "kev", kev |-> "done"][source]

Post(r, c) ==
    /\ at[r] = "unused"
    /\ at' = [at EXCEPT ![r] = First(c)]
    /\ connector' = [connector EXCEPT ![r] = c]
    /\ alone' = [alone EXCEPT ![r] = \A q \in Request \ {r} : ~Running(q)]
    /\ UNCHANGED <<catalogue, graphVars, keyword, got, errors, read>>

-----------------------------------------------------------------------------
(* syncNvd *)

NvdFetch(r) ==
    /\ at[r] = "nvd"
    /\ got' = [got EXCEPT ![r] = Found[Keywords[keyword[r]]]]
    /\ at' = [at EXCEPT ![r] = "storeNvd"]
    /\ UNCHANGED <<catalogue, graphVars, connector, keyword, errors, alone, read>>

\* On with the next keyword, or the next source after the last one.
NextKeyword(r) ==
    IF keyword[r] < Len(Keywords)
    THEN /\ keyword' = [keyword EXCEPT ![r] = @ + 1]
         /\ at' = [at EXCEPT ![r] = "nvd"]
    ELSE /\ at' = [at EXCEPT ![r] = After(connector[r], "nvd")]
         /\ UNCHANGED keyword

\* Mutant: the loop is left at the first error instead of continued.
NvdFails_Returns(r) ==
    /\ at[r] = "nvd"
    /\ errors' = [errors EXCEPT ![r] = @ \cup {Keywords[keyword[r]]}]
    /\ at' = [at EXCEPT ![r] = After(connector[r], "nvd")]
    /\ UNCHANGED <<catalogue, graphVars, connector, keyword, got, alone, read>>

NvdFails(r) ==
    /\ at[r] = "nvd"
    /\ errors' = [errors EXCEPT ![r] = @ \cup {Keywords[keyword[r]]}]
    /\ NextKeyword(r)
    /\ UNCHANGED <<catalogue, graphVars, connector, got, alone, read>>

\* upsertNode replaces the properties of a node it finds. A record of an
\* unexpected shape or an SQLite error ends the loop and is reported.
NvdStore(r) ==
    /\ at[r] = "storeNvd"
    /\ \E stored \in SUBSET got[r] :
        /\ vulns' = [n \in Cve |-> IF n \in stored THEN {"nvd"} ELSE vulns[n]]
        /\ errors' = [errors EXCEPT ![r] =
                        IF stored = got[r] THEN @ ELSE @ \cup {Keywords[keyword[r]]}]
    /\ got' = [got EXCEPT ![r] = {}]
    /\ NextKeyword(r)
    /\ Disturb(r)
    /\ UNCHANGED <<catalogue, mitre, links, connector, read>>

-----------------------------------------------------------------------------
(* syncMitreIcs *)

\* The bundle's objects that are neither revoked nor deprecated.
MitreFetch(r) ==
    /\ at[r] = "mitre"
    /\ \E bundle \in SUBSET StixObject :
        got' = [got EXCEPT ![r] = bundle] /\ read' = [read EXCEPT ![r] = bundle]
    /\ at' = [at EXCEPT ![r] = "storeMitre"]
    /\ UNCHANGED <<catalogue, graphVars, connector, keyword, errors, alone>>

MitreFails(r) ==
    /\ at[r] = "mitre"
    /\ errors' = [errors EXCEPT ![r] = @ \cup {"mitre"}]
    /\ at' = [at EXCEPT ![r] = After(connector[r], "mitre")]
    /\ UNCHANGED <<catalogue, graphVars, connector, keyword, got, alone, read>>

\* stixIdToNodeId has the objects of this bundle that became nodes.
Linked(live) == {e \in Relationship : e[1] \in live /\ e[2] \in live}

\* Nodes first, then edges; an SQLite error ends it and is reported.
MitreStore(r) ==
    /\ at[r] = "storeMitre"
    /\ \E stored \in SUBSET got[r], linked \in SUBSET Linked(got[r]) :
        /\ stored # got[r] => linked = {}
        /\ mitre' = mitre \cup stored
        /\ links' = links \cup linked
        /\ errors' = [errors EXCEPT ![r] =
                        IF stored = got[r] /\ linked = Linked(got[r])
                        THEN @ ELSE @ \cup {"mitre"}]
    /\ got' = [got EXCEPT ![r] = {}]
    /\ at' = [at EXCEPT ![r] = After(connector[r], "mitre")]
    /\ UNCHANGED <<catalogue, vulns, connector, keyword, alone, read>>

-----------------------------------------------------------------------------
(* syncCisaKev *)

KevFetch(r) ==
    /\ at[r] = "kev"
    /\ got' = [got EXCEPT ![r] = catalogue]
    /\ read' = [read EXCEPT ![r] = @ \cup catalogue]
    /\ at' = [at EXCEPT ![r] = "storeKev"]
    /\ UNCHANGED <<catalogue, graphVars, connector, keyword, errors, alone>>

KevFails(r) ==
    /\ at[r] = "kev"
    /\ errors' = [errors EXCEPT ![r] = @ \cup {"kev"}]
    /\ at' = [at EXCEPT ![r] = After(connector[r], "kev")]
    /\ UNCHANGED <<catalogue, graphVars, connector, keyword, got, alone, read>>

\* Mutant: an existing node's properties are not spread into the new ones.
Enriched_Replaced(facts) == {"kev"}

\* A node that exists keeps its properties and gets those of KEV.
Enriched(facts) == facts \cup {"kev"}

KevStore(r) ==
    /\ at[r] = "storeKev"
    /\ \E stored \in SUBSET got[r] :
        /\ vulns' = [n \in Cve |-> IF n \in stored THEN Enriched(vulns[n]) ELSE vulns[n]]
        /\ errors' = [errors EXCEPT ![r] = IF stored = got[r] THEN @ ELSE @ \cup {"kev"}]
    /\ at' = [at EXCEPT ![r] = After(connector[r], "kev")]
    /\ got' = [got EXCEPT ![r] = {}]
    /\ Disturb(r)
    /\ UNCHANGED <<catalogue, mitre, links, connector, keyword, read>>

Sync(r) ==
    \/ NvdFetch(r) \/ NvdFails(r) \/ NvdStore(r)
    \/ MitreFetch(r) \/ MitreFails(r) \/ MitreStore(r)
    \/ KevFetch(r) \/ KevFails(r) \/ KevStore(r)

SyncNext ==
    \/ \E n \in Cve : CisaLists(n) \/ Ingest(n)
    \/ \E r \in Request : Sync(r) \/ \E c \in Connector : Post(r, c)

SyncSpec == SyncInit /\ [][SyncNext]_syncVars

-----------------------------------------------------------------------------
(* Properties *)

Keyword == {Keywords[i] : i \in DOMAIN Keywords}

\* A sync of all sources that reports no error, while nobody else wrote,
\* leaves each CVE NVD returned with its record, each CVE of the catalogue it
\* read marked as exploited, the KEV facts on top of the NVD record, and the
\* objects and relationships of the MITRE bundle it read (POST, syncNvd,
\* syncMitreIcs, syncCisaKev).
AllSyncIsComplete ==
    \A r \in Request :
        at[r] = "done" /\ connector[r] = "all" /\ errors[r] = {} /\ alone[r] =>
            /\ \A k \in Keyword : \A n \in Found[k] : "nvd" \in vulns[n]
            /\ \A n \in read[r] \cap Cve : "kev" \in vulns[n]
            /\ read[r] \cap StixObject \subseteq mitre /\ Linked(read[r]) \subseteq links

\* A request that is done has each of its keywords either in its errors or
\* in the graph: one that failed neither hides itself nor takes the others
\* with it, and no overlapping request removes a node (syncNvd).
KeywordsAreAccountedFor ==
    \A r \in Request :
        at[r] = "done" /\ connector[r] \in {"nvd", "all"} =>
            \A k \in Keyword \ errors[r] : \A n \in Found[k] : vulns[n] # {}
=============================================================================
