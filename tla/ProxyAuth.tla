----------------------------- MODULE ProxyAuth -----------------------------
(***************************************************************************)
(* tools/quick-mcp-proxy/src/auth.ts and the settings it is given: whether *)
(* a request to the proxy is served. A list of allowed values is its being *)
(* set at all, and a token's claim its being on that list.                 *)
(***************************************************************************)

\* extractBearer finds a token, a local one or a JWT, or none.
Header == {"none", "local", "jwt"}

\* The environment: the bind address, the local-testing tokens, and the OAuth
\* settings, where `issuer` switches the others on.
Settings == [loopback : BOOLEAN, localTokens : BOOLEAN, issuer : BOOLEAN,
             audiences : BOOLEAN, clientIds : BOOLEAN, requiredScope : BOOLEAN]

\* What jwtVerify and claimsAuthorized tell apart: `genuine` is a signature of
\* the issuer's keys over claims in time, `aud`, `client` and `scope` are on the
\* proxy's lists.
Claims == [genuine : BOOLEAN, aud : BOOLEAN, client : BOOLEAN, scope : BOOLEAN,
           use : {"absent", "access", "id"}]

\* loadOAuth throws: any token the issuer mints for any client would pass.
ForAnyone(cfg) == cfg.issuer /\ ~cfg.audiences /\ ~cfg.clientIds

\* main: no reachable listener without verified JWTs.
RefusesToStart(cfg) == ForAnyone(cfg) \/ (~cfg.loopback /\ ~cfg.issuer)

\* jose: an audience is required when any is configured.
JwtVerify(cfg, claims) == claims.genuine /\ (cfg.audiences => claims.aud)

\* Mutant: the type of the token is not looked at.
ClaimsAuthorized_AnyUse(cfg, claims) ==
    /\ cfg.clientIds /\ ~claims.client => cfg.audiences
    /\ cfg.requiredScope => claims.scope

ClaimsAuthorized(cfg, claims) ==
    /\ claims.use \in {"absent", "access"}
    /\ cfg.clientIds /\ ~claims.client => cfg.audiences
    /\ cfg.requiredScope => claims.scope

\* createAuthorizer: local tokens only on loopback, and nothing configured
\* denies everything.
Authorized(cfg, header, claims) ==
    \/ header = "local" /\ cfg.loopback /\ cfg.localTokens
    \/ /\ header = "jwt" /\ cfg.issuer
       /\ JwtVerify(cfg, claims) /\ ClaimsAuthorized(cfg, claims)

\* The promise of the header of auth.ts: a verified access token meant for this
\* proxy by its audience or its client, with the scope if one is required; or a
\* local token, on a listener nobody else can reach.
Entitled(cfg, header, claims) ==
    \/ header = "local" /\ cfg.localTokens /\ cfg.loopback
    \/ /\ header = "jwt" /\ cfg.issuer
       /\ claims.genuine /\ claims.use # "id"
       /\ \/ cfg.audiences /\ claims.aud
          \/ cfg.clientIds /\ claims.client
       /\ cfg.requiredScope => claims.scope
=============================================================================
