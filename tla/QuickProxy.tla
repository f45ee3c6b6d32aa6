----------------------------- MODULE QuickProxy -----------------------------
(***************************************************************************)
(* tools/quick-mcp-proxy: Amazon Quick's requests to the MCP server and    *)
(* their questions to COA, several at a time in one process.               *)
(*                                                                         *)
(* A request passes authorize, the reading of its body, the captured       *)
(* answers, getCoaToken, then `query` over AgentCore and over REST. Quick  *)
(* may hang up: what it asked for goes on, a body that is being read is    *)
(* given up, and one that is not yet read never will be ("unread"). Each   *)
(* step a request waits for is charged with its full limit.                *)
(***************************************************************************)
EXTENDS ProxyAuth, Naturals

CONSTANTS
    Request,
    AgentCore,    \* COA_TRANSPORT, with a runtime and a valid region
    StaticToken,  \* COA_TOKEN is set
    CacheDir,     \* COA_CACHE_DIR is set
    KeysCap,      \* the key set of the issuer arrives or fails after this long
    MintCap,      \* and so does Cognito's answer
    QueryTimeout  \* queryTimeoutMs

ASSUME ProxyAssumption ==
    /\ AgentCore \in BOOLEAN /\ StaticToken \in BOOLEAN /\ CacheDir \in BOOLEAN
    /\ KeysCap \in Nat /\ MintCap \in Nat /\ QueryTimeout \in Nat

VARIABLES
    cfg,       \* the settings of inbound authentication
    server,    \* "starting", "refused" or "listening"
    memo,      \* cacheMemo: "unread", or what the file held
    cache,     \* tokenCache: "none", "fresh", "stale" within the skew
    inFlight,  \* a mint is under way
    pc,        \* what each request waits for
    verdict,   \* what the authorizer says, if the keys can be had
    entitled,  \* whether the request ought to be served
    gone,      \* the requests Quick hung up on
    spent,     \* limits of the steps since the request arrived
    reply

outboundVars == <<memo, cache, inFlight>>
requestVars == <<pc, verdict, entitled, gone, spent, reply>>
vars == <<cfg, server, outboundVars, requestVars>>

Reply == {"none", "health", "notFound", "unauthorized", "tooLarge", "malformed",
          "noQuestion", "cached", "live", "failed"}

Init ==
    /\ cfg \in Settings /\ server = "starting"
    /\ memo = "unread" /\ cache = "none" /\ inFlight = FALSE
    /\ pc = [r \in Request |-> "idle"]
    /\ verdict = [r \in Request |-> FALSE]
    /\ entitled = [r \in Request |-> FALSE]
    /\ gone = {}
    /\ spent = [r \in Request |-> 0]
    /\ reply = [r \in Request |-> "none"]

Start ==
    /\ server = "starting"
    /\ server' = IF RefusesToStart(cfg) THEN "refused" ELSE "listening"
    /\ UNCHANGED <<cfg, outboundVars, requestVars>>

-----------------------------------------------------------------------------
(* The HTTP handler *)

\* What is sent to a connection that closed is lost. The close event also
\* closes the transport and the MCP server of the request.
Finish(r, outcome) ==
    /\ pc' = [pc EXCEPT ![r] = "idle"]
    /\ reply' = [reply EXCEPT ![r] = IF r \in gone THEN "none" ELSE outcome]
    /\ gone' = gone \ {r}
    /\ verdict' = [verdict EXCEPT ![r] = FALSE]
    /\ entitled' = [entitled EXCEPT ![r] = FALSE]

Wait(r, step) ==
    /\ pc' = [pc EXCEPT ![r] = step]
    /\ UNCHANGED <<verdict, entitled, gone, reply>>

Charge(r, limit) == spent' = [spent EXCEPT ![r] = @ + limit]

\* /health, and every path that is not MCP_PATH, are answered at once.
ArriveElsewhere(r) ==
    /\ server = "listening" /\ pc[r] = "idle"
    /\ \E outcome \in {"health", "notFound"} : Finish(r, outcome)
    /\ spent' = [spent EXCEPT ![r] = 0]
    /\ UNCHANGED <<cfg, server, outboundVars>>

\* Whether a request is let in and whether it ought to be, for each header and
\* token it may present.
Arrivals ==
    {<<Authorized(cfg, header, claims), Entitled(cfg, header, claims)>> :
        header \in Header, claims \in Claims}

Arrive(r) ==
    /\ server = "listening" /\ pc[r] = "idle"
    /\ \E arrival \in Arrivals :
         /\ verdict' = [verdict EXCEPT ![r] = arrival[1]]
         /\ entitled' = [entitled EXCEPT ![r] = arrival[2]]
    /\ pc' = [pc EXCEPT ![r] = "auth"]
    /\ reply' = [reply EXCEPT ![r] = "none"]
    /\ spent' = [spent EXCEPT ![r] = 0]
    /\ UNCHANGED <<cfg, server, outboundVars, gone>>

\* Anything jwtVerify throws denies, a key set that cannot be had included.
\* readBody attaches its listeners after the await: to a request that was
\* destroyed meanwhile no event comes, so its promise is never settled, nor is
\* the close event seen that ends the transport.
Authorize(r) ==
    /\ pc[r] = "auth"
    /\ Charge(r, KeysCap)
    /\ \/ verdict[r] /\ Wait(r, IF r \in gone THEN "unread" ELSE "body")
       \/ Finish(r, "unauthorized")
    /\ UNCHANGED <<cfg, server, outboundVars>>

HangUp(r) ==
    /\ pc[r] # "idle" /\ r \notin gone
    /\ gone' = gone \cup {r}
    /\ UNCHANGED <<cfg, server, outboundVars, pc, verdict, entitled, spent, reply>>

\* readBody (a connection that closes is an error of the stream), JSON.parse, or
\* a tool call without a question.
RejectBody(r) ==
    /\ pc[r] = "body"
    /\ \E outcome \in {"tooLarge", "malformed", "noQuestion"} : Finish(r, outcome)
    /\ UNCHANGED <<cfg, server, outboundVars, spent>>

-----------------------------------------------------------------------------
(* coaQuery *)

\* cacheLookup: one of the questions of the file, or near one, in a namespace
\* whose name or alias may be a file name.
Lookup(r) ==
    /\ pc[r] = "body" /\ r \notin gone /\ CacheDir
    /\ memo' \in IF memo = "unread" THEN {"empty", "answers"} ELSE {memo}
    /\ memo' = "answers"
    /\ Finish(r, "cached")
    /\ UNCHANGED <<cfg, server, cache, inFlight, spent>>

FirstTransport == IF AgentCore THEN "agent" ELSE "rest"

\* getCoaToken: the static token, a fresh one, or a share in the mint. The mint
\* is started here if none is under way.
NextStep == IF StaticToken \/ cache = "fresh" THEN FirstTransport ELSE "token"

\* A miss reads the file the first time, like a hit, unless the namespace is no
\* file name.
AskCoa(r) ==
    /\ pc[r] = "body" /\ r \notin gone
    /\ \/ CacheDir /\ memo = "unread" /\ memo' \in {"empty", "answers"}
       \/ UNCHANGED memo
    /\ Wait(r, NextStep)
    /\ inFlight' = (inFlight \/ NextStep = "token")
    /\ UNCHANGED <<cfg, server, cache, spent>>

Joined == {r \in Request : pc[r] = "token"}

\* Everyone who awaits the promise is charged and goes on.
MintOk ==
    /\ inFlight
    /\ inFlight' = FALSE /\ cache' = "fresh"
    /\ pc' = [r \in Request |-> IF r \in Joined THEN FirstTransport ELSE pc[r]]
    /\ spent' = [r \in Request |-> IF r \in Joined THEN spent[r] + MintCap ELSE spent[r]]
    /\ UNCHANGED <<cfg, server, memo, verdict, entitled, gone, reply>>

\* Mutant: only the request that started the mint hears of its failure.
MintFails_StarterOnly ==
    /\ inFlight
    /\ inFlight' = FALSE
    /\ \E r \in Joined : Finish(r, "failed") /\ Charge(r, MintCap)
    /\ UNCHANGED <<cfg, server, memo, cache>>

\* Everyone who awaits the promise fails; the next question mints again.
MintFails ==
    /\ inFlight
    /\ inFlight' = FALSE
    /\ pc' = [r \in Request |-> IF r \in Joined THEN "idle" ELSE pc[r]]
    /\ reply' = [r \in Request |-> IF r \in Joined \ gone THEN "failed" ELSE reply[r]]
    /\ gone' = gone \ Joined
    /\ verdict' = [r \in Request |-> verdict[r] /\ r \notin Joined]
    /\ entitled' = [r \in Request |-> entitled[r] /\ r \notin Joined]
    /\ spent' = [r \in Request |-> IF r \in Joined THEN spent[r] + MintCap ELSE spent[r]]
    /\ UNCHANGED <<cfg, server, memo, cache>>

TokenAges ==
    /\ cache = "fresh"
    /\ cache' = "stale"
    /\ UNCHANGED <<cfg, server, memo, inFlight, requestVars>>

AgentAnswers(r) ==
    /\ pc[r] = "agent"
    /\ Charge(r, QueryTimeout)
    /\ Finish(r, "live")
    /\ UNCHANGED <<cfg, server, outboundVars>>

\* The timeout, an error, a stream without `done`, or an empty answer.
AgentFails(r) ==
    /\ pc[r] = "agent"
    /\ Charge(r, QueryTimeout)
    /\ Wait(r, "rest")
    /\ UNCHANGED <<cfg, server, outboundVars>>

\* Mutant: a REST failure is tried over AgentCore, as the console does.
RestEnds_Retry(r) ==
    /\ pc[r] = "rest"
    /\ Charge(r, QueryTimeout)
    /\ \/ \E outcome \in {"live", "failed"} : Finish(r, outcome)
       \/ spent[r] < 6 * QueryTimeout /\ Wait(r, FirstTransport)
    /\ UNCHANGED <<cfg, server, outboundVars>>

\* An answer, empty or not; or an HTTP error or the timeout of the race. The
\* fetch that lost the race goes on, and nobody reads its answer.
RestEnds(r) ==
    /\ pc[r] = "rest"
    /\ Charge(r, QueryTimeout)
    /\ \E outcome \in {"live", "failed"} : Finish(r, outcome)
    /\ UNCHANGED <<cfg, server, outboundVars>>

-----------------------------------------------------------------------------

Continue(r) ==
    \/ Authorize(r) \/ RejectBody(r) \/ Lookup(r) \/ AskCoa(r)
    \/ AgentAnswers(r) \/ AgentFails(r) \/ RestEnds(r)

Next ==
    \/ Start \/ MintOk \/ MintFails \/ TokenAges
    \/ \E r \in Request :
         ArriveElsewhere(r) \/ Arrive(r) \/ HangUp(r) \/ Continue(r)

\* Every call has a limit, in this code or in the HTTP client.
Fairness == WF_vars(MintOk \/ MintFails) /\ \A r \in Request : WF_vars(Continue(r))

Spec == Init /\ [][Next]_vars /\ Fairness

-----------------------------------------------------------------------------
(* Properties *)

Limit == KeysCap + MintCap + (IF AgentCore THEN 2 ELSE 1) * QueryTimeout

\* Under every combination of settings the server starts with, COA is asked only
\* for requests the header of auth.ts says are to be served, and a listener that
\* others can reach asks it only for verified tokens.
OnlyAdmittedReachCoa ==
    \A r \in Request : pc[r] \in {"token", "agent", "rest"} =>
        entitled[r] /\ (cfg.loopback \/ cfg.issuer)

\* A question takes no longer than its key set, one mint (its own or the one it
\* joined) and one QueryTimeout per transport, whatever the others do and
\* however often its calls fail. That it is one per transport is not what
\* config.ts says of the limit: see QueryTimeoutIsHard.
WaitIsBounded == \A r \in Request : spent[r] <= Limit

\* Every request is done with in the end, those that join a mint which fails and
\* those Quick has hung up on included, but for one: the request Quick hung up on
\* before its body was read, whose handler waits for ever.
EveryRequestEnds ==
    \A r \in Request : pc[r] # "idle" ~> pc[r] = "idle" \/ (pc[r] = "unread" /\ r \in gone)

(* What the repository says and the code does not do *)

\* "Hard timeout (ms) for a COA query": asking COA, over one transport and then
\* the other, takes no more than queryTimeoutMs after the token is had.
QueryTimeoutIsHard ==
    \A r \in Request : spent[r] <= KeysCap + MintCap + QueryTimeout
=============================================================================
