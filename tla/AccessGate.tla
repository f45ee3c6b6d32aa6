----------------------------- MODULE AccessGate -----------------------------
(***************************************************************************)
(* src/lib/auth.ts, src/proxy.ts and the routes of /api/auth: the login    *)
(* gate of the console as one browser meets it, while the server is        *)
(* started again with other variables.                                     *)
(*                                                                         *)
(* A session is the key it is signed with and its end: HMACs of one        *)
(* payload agree exactly when their keys do. A browser may keep a cookie   *)
(* past its maxAge.                                                        *)
(***************************************************************************)
EXTENDS Naturals

CONSTANTS
    SessionTTL,   \* DEFAULT_TTL_MS
    MaxClock      \* bound on the clock

ASSUME GateAssumption == SessionTTL \in Nat /\ MaxClock \in Nat

VARIABLES
    env,      \* DEMO_USER, DEMO_PASS, AUTH_SECRET ("unset" if empty), AUTH_LOCAL_BYPASS
    cookie,   \* the session the browser holds
    clock,
    login     \* the last login that was not logged out

gateVars == <<env, cookie, clock, login>>

Setting == {"unset", "first", "second"}
Env == [user : {"unset", "first"}, pass : Setting, secret : Setting, bypass : BOOLEAN]

NoSession == [key |-> "unset", end |-> 0]
NoLogin == [pass |-> "unset", secret |-> "unset", at |-> 0]

gateState ==
    IF env.user # "unset" /\ env.pass # "unset" /\ env.secret # "unset" THEN "gate"
    ELSE IF env.bypass THEN "bypass" ELSE "unconfigured"

checkCredentials(user, pass) ==
    /\ env.user # "unset" /\ env.pass # "unset"
    /\ user = env.user /\ pass = env.pass

issueSession == [key |-> env.secret, end |-> clock + SessionTTL]

\* Mutant: the end is signed, and not looked at.
verifySession_NoEnd(session) == session # NoSession /\ session.key = env.secret

verifySession(session) ==
    /\ session # NoSession
    /\ session.key = env.secret
    /\ session.end > clock

GateInit ==
    /\ env = [user |-> "unset", pass |-> "unset", secret |-> "unset", bypass |-> FALSE]
    /\ cookie = NoSession /\ clock = 0 /\ login = NoLogin

-----------------------------------------------------------------------------

\* The process is started again: nothing but the browser remembers a login.
Restart ==
    /\ env' \in Env
    /\ UNCHANGED <<cookie, clock, login>>

ClockTicks ==
    /\ clock < MaxClock
    /\ clock' = clock + 1
    /\ UNCHANGED <<env, cookie, login>>

\* POST /api/auth/login with credentials that are accepted. Any other answer,
\* 409 in bypass, 503, 400 or 401, sets no cookie.
SignIn ==
    /\ gateState = "gate"
    /\ \E user, pass \in Setting \ {"unset"} :
         /\ checkCredentials(user, pass)
         /\ login' = [pass |-> pass, secret |-> env.secret, at |-> clock]
    /\ cookie' = issueSession
    /\ UNCHANGED <<env, clock>>

\* POST /api/auth/logout clears the cookie, in any state the gate lets it through. The
\* console's own Sign out does not call it.
SignOut ==
    /\ gateState # "unconfigured"
    /\ cookie' = NoSession /\ login' = NoLogin
    /\ UNCHANGED <<env, clock>>

GateNext == Restart \/ ClockTicks \/ SignIn \/ SignOut

\* Paths by how the gate treats them; "asset" is what its matcher leaves out.
Path == {"health", "login", "auth", "api", "page", "asset"}

\* proxy: the request is served, or how it is answered.
Gate(path) ==
    IF path \in {"asset", "health"} \/ gateState = "bypass" THEN "served"
    ELSE IF gateState = "unconfigured" THEN "setup"
    ELSE IF path \in {"login", "auth"} \/ verifySession(cookie) THEN "served"
    ELSE IF path = "api" THEN "unauthorized" ELSE "redirected"

-----------------------------------------------------------------------------

\* What needs no login: everything in bypass, what the login page needs with a
\* gate, assets and the health check always.
Open(path) ==
    \/ path \in {"asset", "health"} \/ gateState = "bypass"
    \/ gateState = "gate" /\ path \in {"login", "auth"}

\* The gate fails closed over any sequence of restarts, logins and logouts: what
\* is not open is served exactly to who logged in no longer than SessionTTL ago,
\* under the key in force, and did not log out (the header of auth.ts).
GateAdmits ==
    \A path \in Path :
        Gate(path) = "served" <=>
            \/ Open(path)
            \/ /\ gateState = "gate" /\ login # NoLogin
               /\ login.secret = env.secret
               /\ clock < login.at + SessionTTL
=============================================================================
