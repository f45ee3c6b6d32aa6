# A verification project for sample-groundwork

This directory holds TLA+ modules for the parts of the repository where order,
failure or sharing decides what happens, TLC configurations that check them on
small instances, and TLAPS proofs of the properties that matter most. Paths are
those of the repository.

The program is a playground (Next.js, `src/`) that answers questions about a
knowledge graph in three modes: from sample data, from a local SQLite graph, and
live from AWS's Context Ontology Accelerator (COA). Around it stand an installer
that loads a "pack" into COA (`tools/coa-pack`), scheduled feeds that write
documents to S3 (`connectors`), and a proxy that lets Amazon Quick ask COA
(`tools/quick-mcp-proxy`). COA, Cognito, S3 and the public feeds are not in the
repository: they are modelled from how the code uses them, as nondeterministic
as that use allows.

## Inventory

| Component | State | Operations | What is hard |
|---|---|---|---|
| coa-pack installer (`installer.py`, `client.py`) | none of its own; COA's namespace, job, metrics, sources, grants outlive a run | `install`: namespace, upload, ingest and wait, import and wait, sources, grants | no rollback; calls applied whose answers are lost; jobs that outlive the wait; re-runs over what earlier runs left |
| COA token manager (`coa-token.ts`, proxy `coa-client.ts`) | cached token, its expiry, the promise in flight | `getCoaToken` | callers that overlap at the await; failures shared by all; a token that expires while it is used |
| Live sources (`coa-sources.ts`, `coa-source-shape.ts`) | one cache entry per vertical | `getVerticalSources`, with or without `refresh` | list and details read at different times; overlapping loads; a failure of one fetch of many; age; events cut to the newest |
| COA provider (`coa-provider.ts`, `coa-rows.ts`) | none per request | `query` in graph and vector mode, `computeMetric`, `describeSchema` | two transports, a retry, a fallback and time boxes that could multiply or displace an answer; rows that the arguments do not tell apart |
| Captured answers (`coa-cache.ts`, `capture-hero-answers.mjs`) | a JSON file; the server's memo of it | lookup; capture | memo of a file that was missing or half written; fuzzy match |
| AgentCore client (`coa-agentcore.ts`, twice) | a buffer per call | `agentCoreQuery`, `consumeStream` | frames in pieces; a stream without a terminal frame; both line ends |
| Mode switch (`context/index.ts`, `api/mode`, `fidelity-badge.tsx`) | one mode per process; a badge per page | `setMode`, `getMode`, `getProvider` | pages that learn the mode once; a switch that fails or whose answer is lost |
| Query page (`console/query/page.tsx`, `answer-flow.tsx`, `how-it-works.tsx`, `markdown.tsx`) | vertical, mode, results, animation | ask, choose vertical or example, replay | two requests per question, with a switch between them; two accounts of one result; text cut into blocks by one loop |
| Data pages (`use-api-json.ts`, `vertical-sources.tsx`, `console-layout.tsx`) | the last answer, with the URL it is for | load, select a vertical | late answers; a dialog that keeps another vertical's answer; events cut |
| Local graph store (`db/`) | tables nodes, edges, chunks, documents | upserts, inserts, `traverseGraph`, search | keys that differ between tables; upserts that replace everything; edges that repeat; vectors of two dimensions |
| Public syncs (`lib/connectors/nvd, mitre-ics, cisa-kev`, `api/sync`) | the store | one sync or all | overlapping syncs that write the same nodes; one keyword or source failing |
| Extraction (`bedrock-extract.ts`, `s3-ingest.ts`, `embeddings.ts`) | the store | text upload, bucket ingest | a failure between four kinds of insert; same document from two callers; the cutting loop |
| Feed connectors (`connectors/`) | document and hash objects in S3 | `handler`, `S3DocumentWriter.write` | death between two puts; two runs over one prefix; one feed failing |
| quick-mcp-proxy (`server.ts`, `auth.ts`, `coa-client.ts`) | token; captured answers; settings | request handler, `context_query` | settings that combine to let a stranger in; a deadline per transport; callers that hang up while their token is verified |
| Access gate (`auth.ts`, `proxy.ts`, `api/auth`) | signed sessions | log in, log out, check | expiry, restarts with other settings, open and closed routes |
| Local providers, root cause (`local-*.ts`, `root-cause.ts`) | none | reads of the store | closures over edges, selection among equals |
| Pack loaders of the app (`pack-loader.ts`, `pack-schema.ts`) | a memo per pack | `loadPack`, `loadPackSchemaDetail` | two readings of one file that must agree |
| Other pages, infrastructure, scripts, data | - | - | presentation, declarations, static data |

How they interact: pages call the API routes; `/api/query` asks the provider of
the current mode; `CoaProvider` and the sources service share the token manager
by function call, and the proxy holds copies of the token manager and of the
AgentCore client; the syncs and the extraction share the SQLite tables, which the
local providers read; the feed
connectors share S3 with COA and with the bucket ingest; the installer and the
feeds meet the rest only in COA. JavaScript code runs undivided between two
awaits and the SQLite calls are synchronous, so an action of a model of it
reaches from one await to the next. The Python programs are sequential; there
the steps are their remote calls.

`PROJECT.json` lists the same components with what is modelled of each, and
under `hazards` every place where something can go wrong that a test would
hardly reach, with the properties that cover it or the reason why none does.

## Modules

| Module | Of | Composed with | Proofs |
|---|---|---|---|
| `PackInstall` | the installer, COA's jobs, the operator who runs it again | - | `PackInstallProofs` |
| `TokenService` | what the token manager promises, without clocks or promises | - | - |
| `CoaToken` | token manager, Cognito, the callers, COA's check of a token | refines `TokenService` | `CoaTokenProofs` |
| `ProxyAuth`, `QuickProxy` | the proxy's settings and authorization; its requests, mint and transports | `QuickProxy` extends `ProxyAuth` | `QuickProxyProofs` |
| `SourcesService` | what the live sources promise, without timers, fetches or a cache | - | - |
| `SourcesCache` (`MCSourcesCache`) | live sources of one vertical, COA's sources | refines `SourcesService` | `SourcesCacheProofs` |
| `DocumentStore` | what refreshes that follow one another come to, without pages, hashes, skips or deaths | - | - |
| `FeedRefresh` (`MCFeedRefresh`) | runs over the feeds, S3 and upstream | refines `DocumentStore` | `FeedRefreshProofs` |
| `GraphSync` (`MCLocalStore`) | the sync route, three public sources, `/api/ingest` | store tables nodes, edges | `LocalStoreProofs` |
| `Extraction` (`MCExtraction`, `MCLocalStore`) | uploads and buckets, model, embeddings | all four store tables | `LocalStoreProofs` |
| `QueryPath` | one question in Live COA, captured answers and the script | cites `CoaToken` for tokens | `QueryPathProofs` |
| `SseStream`, `AccessGate`, `Playground`, `AnswerFlow`, `SourceView`, `Markdown`, `LocalGraph`, `VectorSearch`, `RootCause`, `MetricRows`, `PackSchema` | the parts of the console listed below | `ConsoleParts` | `ConsolePartsProofs` |

Each module parses alone; where one relies on another it says so in
its header. The `MC` modules only give constants that a configuration cannot
write (functions, sequences) and the symmetry. No module declares a RECURSIVE
operator. Definitions whose name has a suffix after an underscore and whose
comment begins with "Mutant:" are variants of the definition that follows
them, each a plausible slip in the code; no specification uses them. For every
checked property one of them, put in place of the original, violates it.

### PackInstall

`pc` names the call the installer makes next. Each call is an action whose
alternatives are the answers the code tells apart; `Raise` stands for a call
refused or lost before COA applied it, and the `"failed"` alternatives of the
calls that change COA for an answer lost after it did. `IngestAdvances`,
`ConflictFails`, `ImportMoves` and `NamespaceBecomesVisible` are COA's own steps.
`StartRun` may follow every ending, so what a run leaves is what the next one
finds. `RequestUploadUrl` may return the old key or a new one (whether two runs
get one key is COA's affair), and a body that is absent makes the job fail. An
import answered with a job in progress is polled; any other answer passes for an
import done inline, of which COA may do what it likes. A job in a state that the
installer does not know is read like a failed one. `DataSources` are the declared
sources that the metrics' datasets bind to; until all of them are registered (by
the pack or by hand) COA resolves no dataset, which is how `docs/MODE3_COA.md`
describes it.

Checked: a reported success means a loaded ontology (`OntologyReady`) and
metrics online (`MetricsReady`) unless the warnings say otherwise or the import
was answered inline; a re-run after the data sources were registered does bring the
metrics (`RerunBringsMetricsOnline`) when COA imports by a job in known states;
failures before the source step never duplicate a source
(`EarlyFailuresAreSafe`). `RunEnds` holds because `_poll` counts its waits. That
sources come after both waits are settled (`SettledBeforeSources`) is proved only.
Bounds: two sources, one of them a data source (a run may fail between them), one
grant, two runs (the second finds everything a first can leave; the proofs are for any
number), one poll before the timeout.

### CoaToken

A call of `getCoaToken` is one step up to its await: `TakeCached`, `JoinMint` or
`StartMint`; `MintOk` and `MintFails` settle the shared promise for everyone
that awaits it, which is the microtask after the fetch. `Tick` lets time pass
while no request exceeds its limit. `EnvToken`, `CanMint` and `SourcesCaller`
give the two orders in which `resolveToken` and `getLiveSources` look at
`COA_TOKEN`.

Checked: `ImplementsService`, that the manager is a `TokenService` under the
mapping of `Service`: a call gets the token at hand or waits, the first that waits
starts the mint, all that wait share what it comes to, and nobody who comes later
does. A minted token does not expire while a request presents it
(`NoMidRequest403`); mints are at least the assumed lifetime less the skew apart
(`SpacedMints`). Three callers are two that share and one that comes late; three
mints are enough for a failure between two that succeed; time runs past one
lifetime.

### ProxyAuth and QuickProxy

`ProxyAuth` has the settings as booleans (a list of allowed values is its being
set, a claim its being on the list), what makes the server refuse to start, and
the decision on a request. `Entitled` is what the header of `auth.ts` says is to
be served, in other words than the code. `QuickProxy` takes two requests through
authorize, body, captured answers, token and both transports, in one process with
one memo and one shared mint; Quick may hang up at any time, and when it does while its
token is verified, the body is never read and the handler never ends (`Authorize`,
"unread"). Each await is charged with its full limit in `spent`. Checked under every
combination of settings: COA is asked only for requests that are to be served, never
by strangers on an open listener without OAuth (`OnlyAdmittedReachCoa`); the wait is at
most the key set, one mint and one `QueryTimeout` per transport (`WaitIsBounded`),
which is not what the setting promises (`QuickTimeout.cfg` and `QueryTimeoutIsHard`);
each request ends unless its caller left before its body was read
(`EveryRequestEnds`), also those that joined a mint which failed.

### SourcesCache

A load waits for the token, the list, then for a set of detail fetches answered
in any order. `ListEvaluated` is COA's reading of the list, `EmptyList` and
`ListArrives` its arrival, which may be as late as the timer of the fetch allows.
`Register` and `Remove` change COA meanwhile: a source removed after the list was
evaluated makes its detail fail, which rejects the load, unless the detail had been
evaluated before.
Checked: what a caller is shown is younger than `Ttl + 2 * FetchTimeout`, because the
entry's time is that of the end of the load and the TTL alone is not the bound, and
a refresh shows what COA evaluated after it was asked for (`AnswersAreFresh`); answers
are all or nothing (`AnswersAreComplete`). `ImplementsService` says what this comes
to for a caller: the mapping of `Service` hides the entry, the loads and the details,
and leaves an error or the whole list of sources, as it stood in COA at one moment
that is recent enough for what was asked. One of the two sources has no tables, two
callers overlap, and the clock goes on after an entry has expired, so that it is
loaded again.

### FeedRefresh

A run takes its feeds in order, page by page, and writes a document with two
puts; it may die at every step. Contents are version numbers and a hash is equal
exactly when the content is. Checked for runs that do not overlap and contents
that do not return: a feed reported as done is stored as fetched
(`ResultIsStored`), the same content is not written twice without a reason
(`NoChurn`), and one feed's failure leaves the others (`FailuresAreIsolated`).
`ImplementsStore`: under the mapping of `Store`, which hides pages, hashes, skips and
deaths, documents only get newer, with what the last run fetched, and a feed is
reported when all its documents are stored as fetched.
Three runs: one that dies, one that mends, one that skips. Runs that overlap and
contents that return are constants (`Overlap`, `Reverts`): with either of them a
document that is skipped may hold something else. `FeedOverlap.cfg` shows it for
two runs, with one feed and one document. `FetchFails` does not say after how
many retries.

### GraphSync

A request goes from await to await: fetch, then store undivided. A vulnerability
node is the set of facts its properties hold, so that an upsert which replaces
and one that extends are told apart. Checked: a sync of all sources that reports
no error, while nobody else wrote, has everything (`AllSyncIsComplete`); each
keyword is stored or reported (`KeywordsAreAccountedFor`). Edges are a set here:
`insertEdge` adds copies, whose effect on what is read is the subject of
`LocalGraph`. Two requests overlap in every order over two CVEs,
two keywords, two MITRE objects. `/api/ingest` may always come, so the model
never stops. Its specification is `SyncSpec`, its program counter `at` and its edges
`links`, so that the module can be extended beside `Extraction`, whose
specification is `Spec`: `LocalStoreProofs` does.

### Extraction

`Begin` starts the pipeline for one document, `Extract` is the model's answer
(any entities; the regular expressions' finds when it cannot be reached),
`Store` all that follows `embed()`, whose inserts may fail in the order they are
made. `chunkText` is the step `CutChunk`, which no other caller interrupts. A
text longer than `MaxChunkSize` never leaves that loop (`ExtractChunking.cfg`), so
everything behind it has a single chunk; and a caller that cuts stops the others
in the model, as it does in the code. Vectors are the subject of `VectorSearch`.
Checked: a report without errors means everything is stored
(`CleanReportIsStored`); what a document's row lists is in the graph
(`RecordedEntitiesExist`). Two callers, two verticals,
a document uploaded and one that comes twice in a bucket with two contents; the
cut has length 4 and overlap 1, which is all the loop depends on. Requests for
one document share its row even when they interleave at the awaits.

### QueryPath

`pc` is the call a question waits for. `waited` adds up what each call may take,
up to `MaxWaited`, more than any path takes. `Answered` draws the subgraph when there is
an entry node. The captured table is read at the first graph question and kept
(`Table`), whatever the file held, while the script truncates and writes it.
Checked: a question waits no longer than the sum of its calls allows
(`WaitIsBounded`, with the number in `Limit`), and an answer COA gave is what
the user gets (`SynthesisWins`). `EveryQuestionEnds` under fairness. One request
is enough: requests share only the memo, which is read in one step, and the
proofs, among them that of `TypeOK`, are for any number. Caps and budgets are
distinct enough that a retry too many exceeds the limit.

### ConsoleParts and its parts

Eleven parts of the console share no variable. `ConsoleParts` composes them with a
variable `part`, chosen at the start: the part at work steps, the others rest in
one of their initial states. So a run checks the union of the parts, not their
product, which would add nothing: no part reads what another writes.

- `SseStream`. The runtime sends pieces of lines and ends of lines (`Send`); `Read`
  takes any number of the characters sent, so a frame may be torn anywhere, and the
  stream may end or break off. `TakeEvent` is one pass of the loop over the complete
  events, and the next read is awaited when there is none left (`Awaiting`).
  `StreamIsCutFree` compares the outcome with `Verdict`, which reads the whole
  stream at once. Five pieces hold two frames in one event, a blank line between
  and a torn frame, with either line end.
- `AccessGate`. One browser over restarts that change the variables of the gate, and
  time. `GateAdmits`: a page behind the gate is shown only in the states and to the
  sessions that admit it, whatever cookie the browser kept. `SignOut` is the logout
  route; the Sign out of the console (`console-layout.tsx:162`) does not call it and
  removes an item of localStorage, which no part of the gate reads. `SessionTTL` of 2
  in 4 ticks lets a session end and another begin.
- `Playground`. The mode is the server's; `badge` and `pageMode` are a tab's copies
  from when it was loaded. A switch is sent, handled, and followed by a reload or
  an error; a page may be left meanwhile (`stray`). Data pages keep an answer under
  the vertical it was fetched for; the schema dialog over the Sources page keeps the
  schema it has until another comes, and an error until it is closed. With one tab
  and no lost answers the badge is right whenever it is settled
  (`SettledBadgeIsRight`), and what the tab shows is from the provider it names and of
  the vertical it shows, the dialog apart while it waits or has an error
  (`PageMatchesBadge`); both conditions are needed (see the disagreements). One tab,
  two verticals of which one has a namespace, one switch at a time whose page is gone.
- `AnswerFlow`. The flow over the panes and the explainer each derive from the results
  what was used. `FlowIsHonest` compares their marks with what the panes show
  (`MarksFitPanes`), asks that nothing is told of the question before
  (`NothingIsOld`), and that the explainer comes to its last phase (`IsSettling`)
  unless it is closed while it plays (`OnlyClosingCuts`). The two places where a
  comment of the code says otherwise are exceptions it names: the answer without
  sources, and the explainer that was closed too early. What a path returns is one of
  four outcomes, all that the derivations tell apart.
- `SourceView`. What COA's records or the seed file come to in one response, which each
  of the bell, the audit tab and the Sources page asks for on its own. `SourcesAddUp`:
  events belong to listed sources and are the newest (`EventsAreListed`), groups add up
  to totals (`GroupsAddUp`), and the times of a source, its registration, last scan and
  last update, are among the events or older than all of them (`SourcesAreTold`).
  Three documents or two sources, with two of their events let through, so that the
  cut cuts.
- `Markdown`. `NextBlock` is one pass of the loop over the lines. Every text of up to
  four lines of twelve kinds. `LinesAreShownOnce`: no line of an answer is lost or shown
  twice or out of order, code is what stands between fences, a heading or an item is
  part of no paragraph, and every pass takes a line. A fence that holds a pipe, which
  a table takes for a row, is not among the kinds.
- `LocalGraph`. Every bag of up to four edges over three nodes and two relations, with
  nodes stored or not. A walk is taken hop by hop (`Walk`, `Hop`), the closure over
  what is next to what was visited (`Targets`). `AnswersAreReachable` relates the
  traversal, the subgraph, its summary and Mode 1's blast radius to paths (`FoundFrom`),
  Mode 2's to what follows from the edges of the transitive property or, where there
  are none, from all edges (`ReachIsDerived`), and the statistics to the subgraphs,
  which show a row once where the statistics count its copies
  (`StatisticsCountCopies`).
- `VectorSearch`. Three chunks embedded by either backend, restarts with the other one,
  Titan failing for single texts. `SimilarChunksWin`: a chunk of the question's
  dimension is passed over only for more similar ones.
- `RootCause`. Every sequence of up to four nodes and two edges, enough for a lot and
  its supplier beside a decoy of each. `NoDecoys`: a lot is named for its signals only,
  and what stands beside it is joined to it where an edge joins one of its type at
  all; otherwise it is the first of the type.
- `MetricRows`. Every result of two rows. `MetricIsUnambiguous`: a number stands for the
  one row that the arguments single out.
- `PackSchema`. Every ontology of three statements, and two live rows, among them a
  class of the pack that is a governed metric as well. `SchemaIsExplained`: the groups
  that the schema is split into exceed its classes by those that are in two of them,
  and both loaders read the same classes and relationships where every annotation has
  one value.

## Runs

| Run | Distinct states | Shows |
|---|---|---|
| `pack_install` | 1.25 M | two runs over every failure: what success stands for, what failure leaves, and that each run ends |
| `pack_retry` | violation | `RetryIsSafe`: a run that failed late, run again, gives a source a second id |
| `coa_token` | 336,369 | the manager is a token service; no token that expires in use, mints apart |
| `quick_proxy` | 298,176 | only admitted requests reach COA, waits are bounded, each request ends that was read |
| `quick_timeout` | violation | `QueryTimeoutIsHard`: a query takes one limit over AgentCore and another over REST |
| `sources_cache` | 2.7 M | a service of recent readings: age, freshness of a refresh, completeness |
| `feed_refresh` | 6.3 M | a document store: reported means stored; no churn; failures stay where they are |
| `feed_overlap` | violation | `SkippedIsUnchanged`: two runs leave a hash that names another content |
| `local_store` | 4.2 M | a clean sync of all sources is complete, errors account for the rest; a clean report is stored, rows rest on nodes |
| `extract_chunking` | violation | `ChunkingEnds`: the loop never passes the end of a long text |
| `query_path` | 27,976 | the wait is bounded, COA's answer wins, each question ends |
| `console_parts` | 1.1 M | the twelve properties of the parts above |

`CHECK_DEADLOCK FALSE` stands where the system may really stop: requests and
runs are bounded and need not come, and the clocks end at `MaxTime`. Symmetry is
used for the callers of `SourcesCache`, `Extraction` and `GraphSync` only, where nothing
names a caller and no property is one of liveness: `ImplementsService` is about initial
states and single steps (`extract_chunking` has one caller and does not use
symmetry). In `local_store` one of the two writers is at work in each behaviour: they
write other kinds of rows, so a state of both is a pair of a state of each.

Bounds appear as constants named in the modules: `MaxRuns`, `MaxPolls`,
`MaxMints`, `MaxTime`, `MaxVersion`, `MaxWaited`, those of the parts (`MaxLines`,
`MaxClock`, `MaxStray`, `MaxRows`, `MaxMembers`, `MaxLinks`, `MaxResultRows`,
`MaxQuads`, `MaxLive`, `MaxTextLines`, `MaxDocuments`, `MaxSources`, `MaxStamp`), and
the sizes of the sets. They were chosen so that each has the case it is for: a run
after a failed run, a mint after a failed mint, a clock past the TTL and past a
token's life, a wait longer than any that the code allows, a cycle and a node beyond
the hops, a tie and the node that loses it. For the components with a proof module the
proofs remove them, but for what is listed as model-checked only.

## Fairness

- `PackInstall!FairSpec`: the installer keeps going (`WF_vars(Install)`). Every
  call of `CoaClient` has an HTTP timeout, and the poll loop counts its sleeps.
  Nothing is assumed of COA, whose jobs may stay pending for ever.
- `QueryPath`: `WF_vars(Continue(r))`. A call of a question ends because the REST
  API stands behind API Gateway's integration timeout, AgentCore's fetch behind an
  `AbortController`, the vector search behind `AbortSignal.timeout`, and the
  drawing behind `withTimeout`. The fallback has no time box of its own and rests
  on the gateway.
- `QuickProxy`: `WF_vars(Continue(r))` for each request and
  `WF_vars(MintOk \/ MintFails)`. AgentCore and REST have the timer of
  `queryTimeoutMs`, the key set the timeout of `jose`, the mint that of the HTTP
  client. Nothing says that Quick waits, or that requests come.
- `Extraction`: the event loop runs a caller that is under way. The fetches there
  are the SDK's, with its own limits. The violation it is used for needs the
  caller to go on, and shows that going on does not help.
- The other modules state safety only and have no fairness.

## Proofs

TLAPS proves the properties below for every value of the constants that the
assumptions allow. A proof module has an inductive invariant, `IInv` where one
serves all its theorems and otherwise one per component; a lemma that the initial
states satisfy it, a lemma that every action keeps it (one step per action), and
the theorems, which are its consequences.

| Module | Theorems | What the invariant adds, and why |
|---|---|---|
| `PackInstallProofs` | `Typing`, `OntologyIsReady`, `MetricsAreReady`, `RerunsBringMetrics`, `EarlyFailuresMintNothing`, `SourcesComeLate` | a run past the ingest has a completed ontology or a warning (`OntologySettled`), past the import metrics, a warning or an inline answer (`MetricsSettled`); an import that completed put the metrics online (`CompletedImport`), data sources registered at the start are still registered (`SourceFound`), and the sources given ids are those before `nextSource` while the earlier runs ended early (`SourcesSoFar`). The properties speak of the end of a run only, which no step alone explains |
| `CoaTokenProofs` | `Implementation`, `Typing`, `MintIsShared`, `FlightIsLive`, `MintedTokensAreAccepted`, `MintsAreSpaced` | the mint in flight is the last one and open (`Flight`), mints are in order of time (`MintTimes`), the cached expiry is no later than the real one and belongs to a mint that is done (`CacheTimes`), and a held token lasts for as long as it may be held (`HeldTimes`) |
| `SourcesCacheProofs` | `Typing`, `FreshAnswers`, `AllOrNothing`, `Implementation` | what a load under way has read and awaits (`Loads`: its list was evaluated after the call, and no longer ago than the timers of the fetches behind it allow), and the age and completeness of the entry when it was stored (`Entry`) |
| `QueryPathProofs` | `Typing`, `BoundedWait`, `AnswerIsKept` | where a question is says how often it tried and whether it has a result (`Progress`), and how much of its limit is spent at each call (`Spent`) |
| `QuickProxyProofs` | `AuthorizedAreEntitled`, `OnlyEntitledAskCoa`, `BoundedWait` | who is past the authorizer was let in, by a server whose settings pass (`Admission`); how much a request can have been charged with at each await (`Charged`). That whoever is let in is entitled is a fact about the settings alone, the first theorem, proved over all of them |
| `FeedRefreshProofs` | `FeedFailuresAreIsolated`, `ReportedIsStored`, `ContentIsPutOnce`, `StoreIsImplemented` | where in its feeds and documents a run stands, and that what it is done with is named once (`Position`); a document is newer than its hash and older than its record (`Ordered`), what a run has to write is not older than what is stored, and of its feed all else is stored (`Writes`, in `Stored`); each content was put once, and once more for every excuse (`Excused`); for the refinement, of its current feed a run has fetched all but what is unread (`Read`). The first theorem holds for runs that overlap, the others assume `~Overlap` and `~Reverts`, without which `feed_overlap` refutes them |
| `LocalStoreProofs` | `RowsListWhatExists`, `NoErrorMeansStored`; `SyncIsComplete`, `NoKeywordIsLost` | for `Extraction` the types and the properties are inductive. For `GraphSync`, `SyncIInv`: what a request holds is what it fetched at the place where it is (`Place`), the keywords handled are in its errors or in the graph (`Accounted`), and a request that is alone and without errors has stored all it has passed (`StoredSoFar`); it was checked by TLC before it was proved |
| `ConsolePartsProofs` | `GateFailsClosed`; `BadgeFollowsServer`, `PagesFollowBadge`; `FlowAndExplainerAgree`; `WalksFindWhatIsNear`; `CutsDoNotMatter`; `NoChunkTakesItsPlace`; `ChainNamesNoDecoys`; `MetricStandsForOneRow`; `SchemaAddsUp`; `EachLineIsShownOnce`; `PagesAgreeOnSources` | the cookie is of the last login (`CookieIsOfLogin`); all a tab holds is of the mode of the server until an accepted switch loads it again (`InStep`); what a dialog shows is of its vertical unless it waits or has an error (`DialogInv`); both results come and go together, and the timers are those of the phases to come or gone for good (`FlowInv`, `TimersInv`); for the chain, the metric, the vectors and the schema, types (`CauseInv`, `MetricInv`, `VectorType`, `SchemaInv`) and lemmas on the operators; for the graph that the rows are a bag of edges (`GraphInv`), and of a walk, hop by hop, that its frontier is the last layer of what it visited (`Around`) and that a row was counted once for each hop that touched it (`Counted`), which `FoundFrom` sums up; the loop over an answer stands outside code whenever it starts a block (`TextInv`); the buffer is what arrived from the start of a line on, and no terminal frame is before it (`ReadFrom`, in `StreamInv`); for the sources their shapes (`ViewInv`), and of the loop over the seed that after each document groups, total and events agree (`GroupsAgree`) |

The theorems of the console's parts use lemmas on the operators the parts are built
from: a set of positions has a first (`LeastOf`) and, under a bound, a last one
(`LargestOf`); what `followFrom` returns is joined by an edge (`FollowedIsJoined`);
where an annotation has one value, both readings find it (`OneValue`); a run of lines
ends at its first stranger (`EndOfRunIs`), and each block takes the lines it should
(`PassTakes`, with `Takes` as the contract of a pass). For the graph, `Induction` says
of sets of numbers what the library says with an operator as a parameter. With it the
function inside `Walk` can be unfolded (`WalkUnfolds`), and the one inside
`transitiveClosure`, which recurs over sets, is shown to exist (`SomeCloses`) and to
find the least closed set (`AllClose`), by the number of targets not yet visited.
For the stream, a blank line found in the buffer stands in the stream, and what goes
on after it starts a line (`BlankIsDropped`); within an event no line is empty
(`NoEmptyLine`); and what is sent later adds no terminal line to what has been read
(`LinesStay`). For the sources, what is sorted and cut keeps the order of times and
leaves out only what is older (`NewestIs`, from places that are each taken once:
`PlacesAreApart`, `PlacesAreTaken`), and a sum over groups is the number of its units
(`InAllIs`), to which a document adds (`OneKeyMore`).

`BadgeFollowsServer` and `PagesFollowBadge` are for one tab (`Tab = {tab}`) with any
verticals: with two the badge of the other tab is old, as said below.
`NoChunkTakesItsPlace` is an action property, for any number of chunks and every
`TopK`.

Three theorems are refinements: under the mapping of the module, initial states map
to initial states, and each step to a step of the abstract specification or a
stutter, one lemma or step of the proof per action.

- `CoaTokenProofs!Implementation`: ticks and Cognito's issuing stutter, `StartMint`
  and `JoinMint` are `Join`, `MintOk` and `MintFails` settle all that wait. It needs
  `IInv` to know that everyone who waits awaits the mint in flight, and that this is
  the last one.
- `SourcesCacheProofs!Implementation`: a hit is `Serve`, the evaluation of the list is
  `Read`, the end of a load is `Return` or `Fail`; the arrival of the list stutters, as
  do a token and all details but the last. `Loads` and `Entry` say that what is
  returned is one of the readings at hand, young enough and, after a refresh, not from
  before it (`ServiceStep`).
- `FeedRefreshProofs!StoreIsImplemented`, for `~Overlap` and `~Reverts`: a page is
  `Fetch`, a document put `Write`, the last document of a feed done `Report`; other
  hashes, skips, failures and deaths stutter. A skipped document is one that is stored
  as fetched, which is what `Stored` is for; `Read` says that a feed which is reported
  was fetched in full.

Assumptions: those of the modules, by name, which TLC evaluates for its
instances. Three are more than typing. `TimingAssumption` of `CoaToken`:
the assumed lifetime is no longer than the real one, a request presents a token
for no longer than the skew, and a mint and a request together take less than a
token's life. The code's numbers (55 minutes of 60, 4 minutes of 5) satisfy it;
`NoMidRequest403` is false without it. `FeedAssumption`: a feed is named once in a
run (`handler.py` goes over a table of feeds) and two feeds have no document in
common (each writes under its own prefix). `SyncAssumption`: a vulnerability and a
MITRE object never have one id (`cve-...` against `t....` and names).

Some operators were rewritten so that they could be reasoned about: the `CASE` of
`GraphSync!After` had guards that overlap, of which TLC takes the first and a
prover any; and `Markdown` was a recursive function over the lines, now the loop of
the code. In `LocalGraph` the body of the loop over the hops, `Hop`, and what the
closure visits next, `Targets`, got names, and the statistics count `Copies` instead of
summing a bag, which the library does with a recursive function that is local to it.

In `SourceView` the loops over the sources and the documents replaced concatenated
sequences and sums by group, and the property was cut into its three parts.

In `SseStream` a fold over the characters and two recursive functions became places in
the stream, by what stands there (`LineAt`, `BlankLineAt`), and the loop of the code.

Model-checked only: liveness (`RunEnds`, `EveryQuestionEnds`, `EveryRequestEnds`,
`ChunkingEnds`), which is out of the prover's reach, and the violations. Every other
property of the runs is the subject of a theorem.

## Where the code and its texts disagree

Four disagreements have a run of their own, listed under `findings`. The
following came to light in the same models; each is a step of its module that
can be read off the definition named.

- An ingest answered with a conflict is skipped although the job that took the
  IRI may still be running or fail (`IngestConflict`); the comment at
  `installer.py:280` takes both answers for "already ingested".
- "The HTTP 202 says nothing about whether the metrics parsed. Only the job poll
  does" (`installer.py:13`), but an answer without a job in progress is reported as
  a success with no warning (`ImportOsi`, "inline"). An import job in a state that
  the installer does not know is warned about as a missing data source when its
  detail shows nothing processed yet (`ReadImportDetail`), where `_poll` says "treat
  as fatal" (`installer.py:124`).
- The live-sources service takes a minted token before `COA_TOKEN`
  (`UsesEnvToken`); `coa-token.ts:17` gives the other precedence. The proxy's
  static token is never refreshed after a 403, against its hint at
  `coa-client.ts:232`.
- `queryTimeoutMs` of the proxy is called a hard timeout of a COA query that stays
  under Quick's five minutes (`config.ts:88`, `:113`); it holds for each transport, so
  AgentCore and then REST may take eight (the run `quick_timeout`). The comment at
  `auth.ts:88` takes either an allowed client id or an allowed audience;
  `jwtVerify` enforces the audience whenever the list is set (`JwtVerify`).
- An NVD sync stores `exploited_in_wild: false` over what an earlier KEV sync added
  (`NvdStore`, `Enriched`), against "will be enriched by CISA KEV" (`nvd.ts:92`) and
  the connector list ("enriches existing CVEs", `api/sync/route.ts:85`): it is
  right only after a KEV sync that comes later.
- A feed run that dies between its puts, followed by a record that returns to its
  earlier content, leaves a document that is skipped with the withdrawn content
  (`PutFirst`, `Dies`, `Skip` with `Reverts`).
- A relationship with one known end is stored (`Kept`); the comment at
  `bedrock-extract.ts:296` says both. A chunk keeps the vertical it was first
  stored for (`WithChunk`), so the second vertical's search does not see it,
  against `bedrock-extract.ts:264`. The backend recorded with a vector is the
  configured one, not the one that made it, and dimensions differ between backends
  (`Embedders`; `embeddings.ts:13`). The seed script empties every table but the
  chunks (`seed.ts:77`), so Mode 2 goes on finding texts of the data before.
- The blast radius of Mode 1 is the nodes of the walk less one, also when the entry
  is not stored (`MockRadius`), which its summary counts right (`SummaryReaches`);
  Mode 2's counts targets of edges that are no stored nodes (`OntologyMetric`). A
  hop back along an edge returns its row twice (`traverseGraph`).
- Mode 2 says that it reaches nodes "via transitive" property
  (`local-ontology-provider.ts:143`; `:25`, `docs/TESTING_MODES.md:97`). Where no edge
  carries the property it follows all edges (`Adjacent`; `:160` says so), which is
  always the case for `prodquality` as shipped: its property is `derivedFrom`, and no
  edge is called so. The first such edge that is added may lower the count.
  `ReachIsDerived` states both cases.
- "Split into pack ontology classes, governed-metric classes" and others
  (`pack-schema.ts:199`): a class that is of the pack and a governed metric is counted
  in both (`classifyLiveClasses`), which `SchemaIsExplained` allows for.
- The schema dialog goes on showing the schema of the vertical before while it waits
  for the one of a vertical selected meanwhile, and beside an error that a later answer
  does not clear (`DataArrives`, `Displayed`). It covers the selection of verticals,
  which the keyboard still reaches.
- A caller of the proxy that hangs up while its token is verified leaves a handler that
  never ends, with its MCP server and transport (`Authorize`).
- Sign out in the console does not end the session (`console-layout.tsx:162`): it
  neither calls `/api/auth/logout` nor touches the cookie.
- Supplier and order of a root cause are said to come from walking the edges
  (`root-cause.ts:10`); without such an edge the first of the type is named
  (`rootCauseChain`).
- A governed metric that comes back as one value is returned whatever the arguments
  (`computeMetric`). The loader of Mode 2 takes a blank node's name for a parent and
  the ontology itself for a class, the other does not (`parseOntology`,
  `loadPackLevel`), and its memo is by pack but names the vertical that came first.
- A blank line of the form `\n\r\n` does not separate events
  (`indexOfDoubleNewline`).
- Closing the explainer while it plays stops its timers and nothing else (`Toggle`;
  `how-it-works.tsx:154`): it opens again in the middle with its replay button
  disabled, against "re-open shows final state" (`:132`). The flow marks the graph
  path as used when its answer is the fallback to document chunks, and says that the
  vector path found nothing (`answer-flow.tsx:8`) for an answer without sources that
  the pane shows (`GraphContributed`, `VectorContributed`); the card of the explainer
  says "Returned nothing" for that and for an error. `FlowIsHonest` has the first two
  as its exceptions. The panes keep the answers of the
  vertical before (`SelectVertical`).
- In an answer's text a rule line after a paragraph is part of it (`Paragraph`), and
  any line with a pipe after a table is a row of it (`Table`), be it a heading, an
  item or (outside the model) a fence.
- Changing the user or the password of the gate ends no session; changing the secret
  does (`verifySession`).
- A question that contains a scripted one and is a little longer gets its captured
  answer (`Matches`; `coa-provider.ts:306`). The server keeps what its first look
  at the captured file found (`Table`), a torn or missing file included. A
  fallback may have no answer to give (`FallbackAnswers`; `coa-provider.ts:397`),
  and comes without a retry for failures that are no 5xx (`TryAgain`). Zero rows
  are labelled as a synthesized answer (`Shown`; `coa-provider.ts:498`), and
  chunks that formatting empties get no note (`Format`; `coa-provider.ts:252`).
- The badge of a second page shows the old mode after a switch (`BadgeRead` is once
  per load; `docs/TESTING_MODES.md:27`), and the guard of unconfigured verticals
  goes by the mode the page knows, which is none before `GET /api/mode` answers
  (`CoaUnavailable`; `query/page.tsx:60`).

## Not modelled

Each with its reason in `PROJECT.json`. In short: the splitting of files and
rows into values (Turtle, YAML, frontmatter, inline formatting), the one-call
reads that only pass on what they get, the choice of entry nodes by keywords, the
wording of prompts and answers, what a model finds in a text, the mapping of
documents to source systems, the pages and widgets that only present, the CDK
stacks, and the static data. COA, Cognito, S3, NVD, MITRE and CISA are external:
`map` marks what is modelled from how the code uses them. Of the feed connectors the
retries inside `fetch_json` (whose `Retry-After` may outlast the function) and a list
of records that shifts between two pages are left out: a fetch succeeds or fails,
and the pages of a feed are cut from one list.

Some simplifications to know of: all clocks are one; `GraphSync` and `Extraction`
count edges as a set (`LocalGraph` as a bag); documents and contents are opaque
values, so collisions of identifiers made from S3 keys do not occur; `QueryPath`
takes a token for granted (`CoaToken` says when that is right).

## Plan

Every safety property of the runs is proved and every component of the inventory that
keeps state is modelled. What could be added, in this order:

1. `fetch_json`'s retries as steps of `FeedRefresh`, with the deadline of the function,
   and a list of records that shifts between two pages.
2. An abstract specification of the mode switch for several tabs, which would say what
   two badges may show at one time.
