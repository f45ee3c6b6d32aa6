------------------------------- MODULE CoaToken -------------------------------
(***************************************************************************)
(* src/lib/context/coa-token.ts: the token manager of a server that talks  *)
(* to COA, with the callers that resolve a token from it. The proxy of     *)
(* tools/quick-mcp-proxy holds a copy of it (src/coa-client.ts).           *)
(*                                                                         *)
(* JavaScript runs getCoaToken up to its await without interruption, so a  *)
(* call is one step that answers, joins the mint in flight or starts one;  *)
(* Cognito's answer and the settling of the shared promise come later.     *)
(* Time is a counter, and all clocks are the same. A mint is identified by *)
(* its number, and so is the token it yields; NoToken stands for null and  *)
(* EnvironmentToken for COA_TOKEN.                                         *)
(***************************************************************************)
EXTENDS Integers

CONSTANTS
    Caller,         \* calls that the server may be serving at once
    SourcesCaller,  \* those of them made by the live-sources service
    CanMint,        \* COA_USER, COA_PASS and COA_CLIENT_ID are set
    EnvToken,       \* COA_TOKEN is set
    EnvExpiry,      \* when that token expires
    Lifetime,       \* Cognito's id tokens live this long
    Skew,           \* REFRESH_SKEW_MS
    Fallback,       \* assumed lifetime of a token without an exp claim
    MaxDelay,       \* the HTTP client gives a mint up after this long
    MaxHold,        \* a caller presents a token for at most this long
    MaxTime,        \* bound on the clock
    MaxMints        \* bound on the mints

ASSUME TokenAssumption ==
    /\ SourcesCaller \subseteq Caller
    /\ CanMint \in BOOLEAN /\ EnvToken \in BOOLEAN
    /\ EnvExpiry \in Nat
    /\ Lifetime \in Nat /\ Skew \in Nat /\ Fallback \in Nat
    /\ MaxDelay \in Nat /\ MaxHold \in Nat /\ MaxTime \in Nat
    /\ MaxMints \in Nat

\* How the code's numbers relate: 55 minutes assumed of a token that lives an
\* hour, 5 minutes of skew, and no request presents a token for longer than
\* the AgentCore timeout (4 minutes at most) after it was resolved.
ASSUME TimingAssumption ==
    /\ Fallback <= Lifetime
    /\ MaxHold <= Skew
    /\ MaxDelay + MaxHold < Lifetime

Mint == 1..MaxMints
Time == 0..MaxTime
NoToken == -1
EnvironmentToken == 0
Token == {EnvironmentToken} \cup Mint

VARIABLES
    now,
    \* the module's state
    cache,      \* the cached token, NoToken for null
    expiresAt,  \* and the expiry cached with it
    inFlight,   \* the mint whose promise callers share, NoToken for null
    \* Cognito, one entry per mint
    minted,     \* mints started so far
    status,     \* "unused", "sent", "issued", "done" or "failed"
    started,    \* when getCoaToken read the clock for it
    issued,     \* when Cognito issued the token
    \* the callers
    state,      \* "idle", "waiting" or "holding"
    waitsFor,   \* the mint a waiting caller awaits
    token,      \* the token a caller holds
    got,        \* when it got it
    refused     \* {t} if COA answered 403 to the caller's last request, with t

tokenVars  == <<cache, expiresAt, inFlight>>
mintVars   == <<minted, status, started, issued>>
callerVars == <<state, waitsFor, token, got, refused>>
vars == <<now, tokenVars, mintVars, callerVars>>

Init ==
    /\ now = 0
    /\ cache = NoToken /\ expiresAt = 0 /\ inFlight = NoToken
    /\ minted = 0
    /\ status = [m \in Mint |-> "unused"]
    /\ started = [m \in Mint |-> 0] /\ issued = [m \in Mint |-> 0]
    /\ state = [c \in Caller |-> "idle"]
    /\ waitsFor = [c \in Caller |-> NoToken]
    /\ token = [c \in Caller |-> NoToken]
    /\ got = [c \in Caller |-> 0]
    /\ refused = [c \in Caller |-> {}]

\* When a token stops being accepted.
Expiry(t) == IF t = EnvironmentToken THEN EnvExpiry ELSE issued[t] + Lifetime

-----------------------------------------------------------------------------
(* Resolving a token *)

\* CoaProvider takes COA_TOKEN first and mints second, the live-sources service
\* the other way round.
UsesEnvToken(c) == EnvToken /\ (c \in SourcesCaller => ~CanMint)
UsesManager(c)  == CanMint /\ (c \in SourcesCaller \/ ~EnvToken)

\* Mutant: the skew is added where it is to be taken away.
Fresh_SkewAdded == cache # NoToken /\ expiresAt + Skew > now

Fresh == cache # NoToken /\ expiresAt - Skew > now

Hold(c, t) ==
    /\ state' = [state EXCEPT ![c] = "holding"]
    /\ token' = [token EXCEPT ![c] = t]
    /\ got' = [got EXCEPT ![c] = now]
    /\ UNCHANGED <<waitsFor, refused>>

TakeEnvToken(c) ==
    /\ state[c] = "idle" /\ UsesEnvToken(c)
    /\ Hold(c, EnvironmentToken)
    /\ UNCHANGED <<now, tokenVars, mintVars>>

TakeCached(c) ==
    /\ state[c] = "idle" /\ UsesManager(c)
    /\ Fresh
    /\ Hold(c, cache)
    /\ UNCHANGED <<now, tokenVars, mintVars>>

Await(c, m) ==
    /\ state' = [state EXCEPT ![c] = "waiting"]
    /\ waitsFor' = [waitsFor EXCEPT ![c] = m]
    /\ UNCHANGED <<token, got, refused>>

JoinMint(c) ==
    /\ state[c] = "idle" /\ UsesManager(c)
    /\ ~Fresh /\ inFlight # NoToken
    /\ Await(c, inFlight)
    /\ UNCHANGED <<now, tokenVars, mintVars>>

\* Mutant: a mint in flight is not looked at.
StartMint_Alone(c) ==
    /\ state[c] = "idle" /\ UsesManager(c) /\ ~Fresh /\ minted < MaxMints
    /\ inFlight' = minted + 1 /\ minted' = minted + 1
    /\ status' = [status EXCEPT ![minted + 1] = "sent"]
    /\ started' = [started EXCEPT ![minted + 1] = now]
    /\ Await(c, minted + 1)
    /\ UNCHANGED <<now, cache, expiresAt, issued>>

\* Mutant: the caller awaits the promise that inFlight held before.
StartMint_OldPromise(c) ==
    /\ state[c] = "idle" /\ UsesManager(c) /\ ~Fresh /\ inFlight = NoToken
    /\ minted < MaxMints
    /\ inFlight' = minted + 1 /\ minted' = minted + 1
    /\ status' = [status EXCEPT ![minted + 1] = "sent"]
    /\ started' = [started EXCEPT ![minted + 1] = now]
    /\ Await(c, inFlight)
    /\ UNCHANGED <<now, cache, expiresAt, issued>>

StartMint(c) ==
    /\ state[c] = "idle" /\ UsesManager(c)
    /\ ~Fresh /\ inFlight = NoToken
    /\ minted < MaxMints
    /\ minted' = minted + 1
    /\ inFlight' = minted + 1
    /\ status' = [status EXCEPT ![minted + 1] = "sent"]
    /\ started' = [started EXCEPT ![minted + 1] = now]
    /\ Await(c, minted + 1)
    /\ UNCHANGED <<now, cache, expiresAt, issued>>

-----------------------------------------------------------------------------
(* The mint in flight *)

CognitoIssues(m) ==
    /\ status[m] = "sent"
    /\ status' = [status EXCEPT ![m] = "issued"]
    /\ issued' = [issued EXCEPT ![m] = now]
    /\ UNCHANGED <<now, tokenVars, minted, started, callerVars>>

Awaits(c, m) == state[c] = "waiting" /\ waitsFor[c] = m

\* Mutant: a claim that cannot be read is left at 0.
ExpiryRead_NoFallback(m) == {issued[m] + Lifetime, 0}

\* What getCoaToken takes for the expiry: the exp claim, or 55 minutes from the
\* time it was called if the claim cannot be read.
ExpiryRead(m) == {issued[m] + Lifetime, started[m] + Fallback}

\* The answer arrives: the cache is filled, inFlight cleared and every caller
\* that shares the promise goes on with the token.
MintOk(m) ==
    /\ status[m] = "issued"
    /\ status' = [status EXCEPT ![m] = "done"]
    /\ cache' = m
    /\ expiresAt' \in ExpiryRead(m)
    /\ inFlight' = NoToken
    /\ state' = [c \in Caller |-> IF Awaits(c, m) THEN "holding" ELSE state[c]]
    /\ token' = [c \in Caller |-> IF Awaits(c, m) THEN m ELSE token[c]]
    /\ got'   = [c \in Caller |-> IF Awaits(c, m) THEN now ELSE got[c]]
    /\ waitsFor' = [c \in Caller |-> IF Awaits(c, m) THEN NoToken ELSE waitsFor[c]]
    /\ UNCHANGED <<now, minted, started, issued, refused>>

\* Cognito refuses, answers without an IdToken, or the answer is lost: every
\* caller that shares the promise fails, and the next one mints again.
MintFails(m) ==
    /\ status[m] \in {"sent", "issued"}
    /\ status' = [status EXCEPT ![m] = "failed"]
    /\ inFlight' = NoToken
    /\ state' = [c \in Caller |-> IF Awaits(c, m) THEN "idle" ELSE state[c]]
    /\ waitsFor' = [c \in Caller |-> IF Awaits(c, m) THEN NoToken ELSE waitsFor[c]]
    /\ UNCHANGED <<now, cache, expiresAt, minted, started, issued, token, got, refused>>

-----------------------------------------------------------------------------
(* Presenting it *)

\* COA checks the token when the request arrives. A caller may present it again
\* (the REST call after an AgentCore failure) or be done; a 403 ends the call.
Present(c) ==
    /\ state[c] = "holding"
    /\ \/ /\ now < Expiry(token[c])
          /\ refused' = [refused EXCEPT ![c] = {}]
          /\ UNCHANGED <<state, token, got>>
       \/ /\ refused' = [refused EXCEPT ![c] = IF now < Expiry(token[c]) THEN {} ELSE {token[c]}]
          /\ state' = [state EXCEPT ![c] = "idle"]
          /\ token' = [token EXCEPT ![c] = NoToken]
          /\ got' = [got EXCEPT ![c] = 0]
    /\ UNCHANGED <<now, tokenVars, mintVars, waitsFor>>

\* Time passes no request's limit: a mint that is not answered is given up, and
\* a caller that holds a token has presented it or given up.
Tick ==
    /\ now < MaxTime
    /\ \A m \in Mint : status[m] \in {"sent", "issued"} => now < started[m] + MaxDelay
    /\ \A c \in Caller : state[c] = "holding" => now < got[c] + MaxHold
    /\ now' = now + 1
    /\ UNCHANGED <<tokenVars, mintVars, callerVars>>

Resolve(c) == TakeEnvToken(c) \/ TakeCached(c) \/ JoinMint(c) \/ StartMint(c)
Settle(m)  == MintOk(m) \/ MintFails(m)

Next ==
    \/ Tick
    \/ \E c \in Caller : Resolve(c) \/ Present(c)
    \/ \E m \in Mint : CognitoIssues(m) \/ Settle(m)

Spec == Init /\ [][Next]_vars

-----------------------------------------------------------------------------
(* Properties *)

TypeOK ==
    /\ now \in Time
    /\ cache \in {NoToken} \cup Mint
    /\ expiresAt \in Nat
    /\ inFlight \in {NoToken} \cup Mint
    /\ minted \in 0..MaxMints
    /\ status \in [Mint -> {"unused", "sent", "issued", "done", "failed"}]
    /\ started \in [Mint -> Time]
    /\ issued \in [Mint -> Time]
    /\ state \in [Caller -> {"idle", "waiting", "holding"}]
    /\ waitsFor \in [Caller -> {NoToken} \cup Mint]
    /\ token \in [Caller -> {NoToken} \cup Token]
    /\ got \in [Caller -> Time]
    /\ refused \in [Caller -> SUBSET Token]
    /\ \A c \in Caller : state[c] = "waiting" => waitsFor[c] \in Mint
    /\ \A c \in Caller : state[c] = "holding" => token[c] \in Token

\* The manager is a TokenService (the comment on getCoaToken, coalescing and
\* `finally`): calls that find the token stale share one mint, its settling
\* answers or fails every one of them, and none of a later one.
Service ==
    INSTANCE TokenService WITH
        generation <- minted,
        latest <- cache,
        waiting <- {c \in Caller : state[c] = "waiting"},
        held <- [c \in Caller |-> IF state[c] = "holding" THEN token[c] ELSE NoToken]

ImplementsService == Service!Spec

\* A token that the manager handed out is accepted for as long as a request
\* goes on presenting it: what REFRESH_SKEW_MS is there for.
NoMidRequest403 == \A c \in Caller : refused[c] \subseteq {EnvironmentToken}

\* Cognito is left alone while a token lasts: a mint after a successful one
\* starts no earlier than a token's assumed lifetime, less the skew, later.
SpacedMints ==
    \A m \in Mint : m + 1 <= minted /\ status[m] = "done"
        => started[m + 1] >= started[m] + Fallback - Skew
=============================================================================
