-------------------------- MODULE QuickProxyProofs --------------------------
(***************************************************************************)
(* Who the proxy asks COA for, and how long a request waits, for any       *)
(* number of requests, every setting of the proxy and every limit.         *)
(***************************************************************************)
EXTENDS QuickProxy, TLAPS

Step == {"idle", "auth", "unread", "body", "token", "agent", "rest"}

TypeOK ==
    /\ cfg \in Settings
    /\ server \in {"starting", "refused", "listening"}
    /\ memo \in {"unread", "empty", "answers"}
    /\ cache \in {"none", "fresh", "stale"}
    /\ inFlight \in BOOLEAN
    /\ pc \in [Request -> Step]
    /\ verdict \in [Request -> BOOLEAN]
    /\ entitled \in [Request -> BOOLEAN]
    /\ gone \subseteq Request
    /\ spent \in [Request -> Nat]
    /\ reply \in [Request -> Reply]

\* Only a server whose settings pass takes requests, whom it lets in ought to be
\* served, and who is past the authorizer was let in.
Admission ==
    /\ server = "listening" => ~RefusesToStart(cfg)
    /\ \A r \in Request :
        /\ pc[r] # "idle" => server = "listening" /\ (verdict[r] => entitled[r])
        /\ pc[r] \in {"body", "token", "agent", "rest"} => verdict[r]

AgentWait == IF AgentCore THEN QueryTimeout ELSE 0

\* What a request can have been charged with when it is there.
Charged ==
    \A r \in Request :
        /\ pc[r] = "auth" => spent[r] = 0
        /\ pc[r] \in {"unread", "body", "token"} => spent[r] <= KeysCap
        /\ pc[r] = "agent" => AgentCore /\ spent[r] <= KeysCap + MintCap
        /\ pc[r] = "rest" => spent[r] <= KeysCap + MintCap + AgentWait
        /\ pc[r] = "idle" => spent[r] <= Limit

IInv == TypeOK /\ Admission /\ Charged

-----------------------------------------------------------------------------
(* The authorizer *)

\* createAuthorizer keeps the promise of the header of auth.ts under every setting
\* the server starts with: whoever it lets in is entitled. The setting that
\* loadOAuth refuses is the one under which a token for anyone would pass.
THEOREM AuthorizedAreEntitled ==
    ASSUME NEW settings \in Settings, NEW header \in Header, NEW claims \in Claims,
           ~RefusesToStart(settings), Authorized(settings, header, claims)
    PROVE  Entitled(settings, header, claims)
<1>1. CASE header = "local"
  BY <1>1 DEF Authorized, Entitled
<1>2. CASE header = "jwt"
  <2>1. settings.issuer /\ claims.genuine /\ (settings.audiences => claims.aud)
    BY <1>2 DEF Authorized, JwtVerify
  <2>2. claims.use \in {"absent", "access"} /\ (settings.requiredScope => claims.scope)
    BY <1>2 DEF Authorized, ClaimsAuthorized
  <2>3. settings.audiences \/ settings.clientIds
    BY <2>1 DEF RefusesToStart, ForAnyone
  <2>4. ~settings.audiences /\ settings.clientIds => claims.client
    BY <1>2 DEF Authorized, ClaimsAuthorized
  <2>5. (settings.audiences /\ claims.aud) \/ (settings.clientIds /\ claims.client)
    BY <2>1, <2>3, <2>4 DEF Settings, Claims
  <2>6. QED
    BY <1>2, <2>1, <2>2, <2>5 DEF Entitled
<1>3. QED
  BY <1>1, <1>2 DEF Authorized

\* A listener that others can reach has OAuth, and a token then has to be for
\* this proxy.
LEMMA StartedIsGuarded ==
    ASSUME NEW settings \in Settings, ~RefusesToStart(settings)
    PROVE  settings.loopback \/ settings.issuer
BY DEF RefusesToStart, Settings

-----------------------------------------------------------------------------
(* Steps of one request *)

\* A request is charged the limit of each of its calls at most once.
LEMMA Limits ==
    /\ KeysCap \in Nat /\ MintCap \in Nat /\ QueryTimeout \in Nat
    /\ AgentCore \in BOOLEAN /\ AgentWait \in Nat /\ Limit \in Nat
    /\ Limit = KeysCap + MintCap + AgentWait + QueryTimeout
BY ProxyAssumption DEF Limit, AgentWait

\* A request that is answered is forgotten, the others go on.
LEMMA FinishEnds ==
    ASSUME TypeOK, NEW r \in Request, NEW outcome \in Reply, Finish(r, outcome)
    PROVE  /\ pc' \in [Request -> Step] /\ pc'[r] = "idle"
           /\ verdict' \in [Request -> BOOLEAN] /\ entitled' \in [Request -> BOOLEAN]
           /\ gone' \subseteq Request /\ reply' \in [Request -> Reply]
           /\ \A q \in Request \ {r} :
                pc'[q] = pc[q] /\ verdict'[q] = verdict[q] /\ entitled'[q] = entitled[q]
BY DEF TypeOK, Finish, Step, Reply

\* A request that goes on to its next call leaves the others alone.
LEMMA WaitGoesOn ==
    ASSUME TypeOK, NEW r \in Request, NEW step \in Step, Wait(r, step)
    PROVE  /\ pc' \in [Request -> Step] /\ pc'[r] = step
           /\ \A q \in Request \ {r} : pc'[q] = pc[q]
           /\ UNCHANGED <<verdict, entitled, gone, reply>>
BY DEF TypeOK, Wait

\* A call adds its limit to what its request has waited.
LEMMA ChargeAdds ==
    ASSUME TypeOK, NEW r \in Request, NEW limit \in Nat, Charge(r, limit)
    PROVE  /\ spent' \in [Request -> Nat] /\ spent'[r] = spent[r] + limit
           /\ \A q \in Request \ {r} : spent'[q] = spent[q]
BY DEF TypeOK, Charge

\* An answer lets nobody in who was not.
LEMMA FinishAdmits ==
    ASSUME TypeOK, Admission, NEW r \in Request, NEW outcome \in Reply,
           Finish(r, outcome), UNCHANGED <<cfg, server>>
    PROVE  Admission'
<1>1. /\ pc'[r] = "idle"
      /\ \A q \in Request \ {r} :
           pc'[q] = pc[q] /\ verdict'[q] = verdict[q] /\ entitled'[q] = entitled[q]
  BY FinishEnds
<1>2. QED
  BY <1>1 DEF Admission, RefusesToStart, ForAnyone

\* Nor does a request's going on, once it was let in.
LEMMA WaitAdmits ==
    ASSUME TypeOK, Admission, NEW r \in Request, NEW step \in Step, Wait(r, step),
           pc[r] # "idle", verdict[r], UNCHANGED <<cfg, server>>
    PROVE  Admission'
<1>1. /\ pc'[r] = step /\ UNCHANGED <<verdict, entitled>>
      /\ \A q \in Request \ {r} : pc'[q] = pc[q]
  BY WaitGoesOn
<1>2. QED
  BY <1>1 DEF Admission, RefusesToStart, ForAnyone

\* Where the others are and what they are charged with is as it was.
LEMMA ChargedAlone ==
    ASSUME Charged, NEW r \in Request,
           \A q \in Request \ {r} : pc'[q] = pc[q] /\ spent'[q] = spent[q],
           /\ pc'[r] = "auth" => spent'[r] = 0
           /\ pc'[r] \in {"unread", "body", "token"} => spent'[r] <= KeysCap
           /\ pc'[r] = "agent" => AgentCore /\ spent'[r] <= KeysCap + MintCap
           /\ pc'[r] = "rest" => spent'[r] <= KeysCap + MintCap + AgentWait
           /\ pc'[r] = "idle" => spent'[r] <= Limit
    PROVE  Charged'
BY DEF Charged, AgentWait, Limit

-----------------------------------------------------------------------------
(* Every step keeps every part of IInv *)

\* IInv holds at the start.
LEMMA Initially == Init => IInv
<1> SUFFICES ASSUME Init PROVE IInv
  OBVIOUS
<1>1. TypeOK
  BY DEF Init, TypeOK, Step, Reply
<1>2. Admission
  BY DEF Init, Admission
<1>3. Charged
  BY Limits DEF Init, Charged
<1>4. QED
  BY <1>1, <1>2, <1>3 DEF IInv

\* IInv is inductive.
LEMMA Inductive == IInv /\ [Next]_vars => IInv'
<1> SUFFICES ASSUME TypeOK, Admission, Charged, [Next]_vars PROVE IInv'
  BY DEF IInv
<1>1. CASE Start
  <2>1. TypeOK'
    BY <1>1 DEF Start, TypeOK, outboundVars, requestVars
  <2>2. Admission'
    BY <1>1 DEF Start, Admission, requestVars, RefusesToStart, ForAnyone
  <2>3. Charged'
    BY <1>1 DEF Start, Charged, requestVars, AgentWait, Limit
  <2>4. QED
    BY <2>1, <2>2, <2>3 DEF IInv
<1>2. CASE MintOk
  <2>1. /\ FirstTransport \in {"agent", "rest"}
        /\ FirstTransport = "agent" => AgentCore
    BY DEF FirstTransport
  <2>2. TypeOK'
    <3>1. pc' \in [Request -> Step]
      BY <1>2, <2>1 DEF MintOk, TypeOK, Step
    <3>2. spent' \in [Request -> Nat]
      BY <1>2, Limits DEF MintOk, TypeOK
    <3>3. QED
      BY <1>2, <3>1, <3>2 DEF MintOk, TypeOK
  <2>3. Admission'
    BY <1>2, <2>1 DEF MintOk, Admission, Joined, TypeOK, RefusesToStart, ForAnyone
  <2>4. Charged'
    <3> SUFFICES ASSUME NEW r \in Request
                 PROVE  /\ pc'[r] = "auth" => spent'[r] = 0
                        /\ pc'[r] \in {"unread", "body", "token"} => spent'[r] <= KeysCap
                        /\ pc'[r] = "agent" => AgentCore /\ spent'[r] <= KeysCap + MintCap
                        /\ pc'[r] = "rest" => spent'[r] <= KeysCap + MintCap + AgentWait
                        /\ pc'[r] = "idle" => spent'[r] <= Limit
      BY DEF Charged, AgentWait, Limit
    <3>1. CASE pc[r] = "token"
      <4>1. pc'[r] = FirstTransport /\ spent'[r] = spent[r] + MintCap
        BY <1>2, <3>1 DEF MintOk, Joined
      <4>2. spent[r] <= KeysCap /\ spent[r] \in Nat
        BY <3>1 DEF Charged, TypeOK
      <4>3. QED
        BY <2>1, <4>1, <4>2, Limits
    <3>2. CASE pc[r] # "token"
      BY <1>2, <3>2 DEF MintOk, Joined, Charged
    <3>3. QED
      BY <3>1, <3>2
  <2>5. QED
    BY <2>2, <2>3, <2>4 DEF IInv
<1>3. CASE MintFails
  <2>1. TypeOK'
    <3>1. pc' \in [Request -> Step] /\ reply' \in [Request -> Reply] /\ gone' \subseteq Request
      BY <1>3 DEF MintFails, TypeOK, Step, Reply
    <3>2. spent' \in [Request -> Nat]
      BY <1>3, Limits DEF MintFails, TypeOK
    <3>3. verdict' \in [Request -> BOOLEAN] /\ entitled' \in [Request -> BOOLEAN]
      BY <1>3 DEF MintFails, TypeOK
    <3>4. QED
      BY <1>3, <3>1, <3>2, <3>3 DEF MintFails, TypeOK
  <2>2. Admission'
    BY <1>3 DEF MintFails, Admission, Joined, TypeOK, RefusesToStart, ForAnyone
  <2>3. Charged'
    <3> SUFFICES ASSUME NEW r \in Request
                 PROVE  /\ pc'[r] = "auth" => spent'[r] = 0
                        /\ pc'[r] \in {"unread", "body", "token"} => spent'[r] <= KeysCap
                        /\ pc'[r] = "agent" => AgentCore /\ spent'[r] <= KeysCap + MintCap
                        /\ pc'[r] = "rest" => spent'[r] <= KeysCap + MintCap + AgentWait
                        /\ pc'[r] = "idle" => spent'[r] <= Limit
      BY DEF Charged, AgentWait, Limit
    <3>1. CASE pc[r] = "token"
      <4>1. pc'[r] = "idle" /\ spent'[r] = spent[r] + MintCap
        BY <1>3, <3>1 DEF MintFails, Joined
      <4>2. spent[r] <= KeysCap /\ spent[r] \in Nat
        BY <3>1 DEF Charged, TypeOK
      <4>3. QED
        BY <4>1, <4>2, Limits
    <3>2. CASE pc[r] # "token"
      BY <1>3, <3>2 DEF MintFails, Joined, Charged
    <3>3. QED
      BY <3>1, <3>2
  <2>4. QED
    BY <2>1, <2>2, <2>3 DEF IInv
<1>4. CASE TokenAges
  <2>1. TypeOK'
    BY <1>4 DEF TokenAges, TypeOK, requestVars
  <2>2. Admission'
    BY <1>4 DEF TokenAges, Admission, requestVars, RefusesToStart, ForAnyone
  <2>3. Charged'
    BY <1>4 DEF TokenAges, Charged, requestVars, AgentWait, Limit
  <2>4. QED
    BY <2>1, <2>2, <2>3 DEF IInv
<1>5. ASSUME NEW r \in Request, ArriveElsewhere(r) PROVE IInv'
  <2>1. PICK outcome \in {"health", "notFound"} : Finish(r, outcome)
    BY <1>5 DEF ArriveElsewhere
  <2>2. outcome \in Reply
    BY DEF Reply
  <2>3. TypeOK'
    BY <1>5, <2>1, <2>2, FinishEnds DEF ArriveElsewhere, TypeOK, outboundVars
  <2>4. Admission'
    BY <1>5, <2>1, <2>2, FinishAdmits DEF ArriveElsewhere
  <2>5. /\ pc'[r] = "idle" /\ spent'[r] = 0
        /\ \A q \in Request \ {r} : pc'[q] = pc[q] /\ spent'[q] = spent[q]
    BY <1>5, <2>1, <2>2, FinishEnds DEF ArriveElsewhere, TypeOK
  <2>6. Charged'
    BY <2>5, Limits, ChargedAlone
  <2>7. QED
    BY <2>3, <2>4, <2>6 DEF IInv
<1>6. ASSUME NEW r \in Request, Arrive(r) PROVE IInv'
  <2>1. PICK header \in Header, claims \in Claims :
          /\ verdict' = [verdict EXCEPT ![r] = Authorized(cfg, header, claims)]
          /\ entitled' = [entitled EXCEPT ![r] = Entitled(cfg, header, claims)]
    <3>1. PICK arrival \in Arrivals :
            /\ verdict' = [verdict EXCEPT ![r] = arrival[1]]
            /\ entitled' = [entitled EXCEPT ![r] = arrival[2]]
      BY <1>6 DEF Arrive
    <3>2. PICK header \in Header, claims \in Claims :
            arrival = <<Authorized(cfg, header, claims), Entitled(cfg, header, claims)>>
      BY <3>1 DEF Arrivals
    <3>3. QED
      BY <3>1, <3>2
  <2>2. Authorized(cfg, header, claims) \in BOOLEAN /\ Entitled(cfg, header, claims) \in BOOLEAN
    BY DEF TypeOK, Settings, Claims, Authorized, JwtVerify, ClaimsAuthorized, Entitled
  <2>3. Authorized(cfg, header, claims) => Entitled(cfg, header, claims)
    BY <1>6, AuthorizedAreEntitled DEF Arrive, Admission, TypeOK
  <2>4. /\ pc'[r] = "auth" /\ spent'[r] = 0
        /\ \A q \in Request \ {r} :
             /\ pc'[q] = pc[q] /\ spent'[q] = spent[q]
             /\ verdict'[q] = verdict[q] /\ entitled'[q] = entitled[q]
    BY <1>6, <2>1 DEF Arrive, TypeOK
  <2>5. TypeOK'
    BY <1>6, <2>1, <2>2 DEF Arrive, TypeOK, outboundVars, Step, Reply
  <2>6. verdict'[r] => entitled'[r]
    BY <2>1, <2>3 DEF TypeOK
  <2>7. Admission'
    BY <1>6, <2>4, <2>6 DEF Arrive, Admission, RefusesToStart, ForAnyone
  <2>8. Charged'
    BY <2>4, ChargedAlone
  <2>9. QED
    BY <2>5, <2>7, <2>8 DEF IInv
<1>7. ASSUME NEW r \in Request, HangUp(r) PROVE IInv'
  <2>1. TypeOK'
    BY <1>7 DEF HangUp, TypeOK, outboundVars
  <2>2. Admission'
    BY <1>7 DEF HangUp, Admission, RefusesToStart, ForAnyone
  <2>3. Charged'
    BY <1>7 DEF HangUp, Charged, AgentWait, Limit
  <2>4. QED
    BY <2>1, <2>2, <2>3 DEF IInv
<1>8. ASSUME NEW r \in Request, Authorize(r) PROVE IInv'
  <2>1. /\ spent' \in [Request -> Nat] /\ spent'[r] = KeysCap
        /\ \A q \in Request \ {r} : spent'[q] = spent[q]
    BY <1>8, ChargeAdds, Limits DEF Authorize, Charged
  <2> DEFINE next == IF r \in gone THEN "unread" ELSE "body"
  <2>2. CASE verdict[r] /\ Wait(r, next)
    <3>1. next \in Step /\ next \in {"unread", "body"}
      BY DEF Step
    <3> HIDE DEF next
    <3>2. TypeOK'
      BY <1>8, <2>1, <2>2, <3>1, WaitGoesOn DEF Authorize, TypeOK, outboundVars
    <3>3. Admission'
      BY <1>8, <2>2, <3>1, WaitAdmits DEF Authorize
    <3>4. pc'[r] = next /\ \A q \in Request \ {r} : pc'[q] = pc[q]
      BY <2>2, <3>1, WaitGoesOn
    <3>5. Charged'
      BY <2>1, <3>1, <3>4, Limits, ChargedAlone
    <3>6. QED
      BY <3>2, <3>3, <3>5 DEF IInv
  <2>3. CASE Finish(r, "unauthorized")
    <3>1. "unauthorized" \in Reply
      BY DEF Reply
    <3>2. TypeOK'
      BY <1>8, <2>1, <2>3, <3>1, FinishEnds DEF Authorize, TypeOK, outboundVars
    <3>3. Admission'
      BY <1>8, <2>3, <3>1, FinishAdmits DEF Authorize
    <3>4. pc'[r] = "idle" /\ \A q \in Request \ {r} : pc'[q] = pc[q]
      BY <2>3, <3>1, FinishEnds
    <3>5. Charged'
      BY <2>1, <3>4, Limits, ChargedAlone
    <3>6. QED
      BY <3>2, <3>3, <3>5 DEF IInv
  <2>4. QED
    BY <1>8, <2>2, <2>3 DEF Authorize
<1>9. ASSUME NEW r \in Request, RejectBody(r) PROVE IInv'
  <2>1. PICK outcome \in {"tooLarge", "malformed", "noQuestion"} : Finish(r, outcome)
    BY <1>9 DEF RejectBody
  <2>2. outcome \in Reply
    BY DEF Reply
  <2>3. TypeOK'
    BY <1>9, <2>1, <2>2, FinishEnds DEF RejectBody, TypeOK, outboundVars
  <2>4. Admission'
    BY <1>9, <2>1, <2>2, FinishAdmits DEF RejectBody
  <2>5. /\ pc'[r] = "idle" /\ spent' = spent /\ spent[r] <= KeysCap /\ spent[r] \in Nat
        /\ \A q \in Request \ {r} : pc'[q] = pc[q]
    BY <1>9, <2>1, <2>2, FinishEnds DEF RejectBody, Charged, TypeOK
  <2>6. Charged'
    BY <2>5, Limits, ChargedAlone
  <2>7. QED
    BY <2>3, <2>4, <2>6 DEF IInv
<1>10. ASSUME NEW r \in Request, Lookup(r) PROVE IInv'
  <2>1. Finish(r, "cached") /\ "cached" \in Reply
    BY <1>10 DEF Lookup, Reply
  <2>2. TypeOK'
    BY <1>10, <2>1, FinishEnds DEF Lookup, TypeOK
  <2>3. Admission'
    BY <1>10, <2>1, FinishAdmits DEF Lookup
  <2>4. /\ pc'[r] = "idle" /\ spent' = spent /\ spent[r] <= KeysCap /\ spent[r] \in Nat
        /\ \A q \in Request \ {r} : pc'[q] = pc[q]
    BY <1>10, <2>1, FinishEnds DEF Lookup, Charged, TypeOK
  <2>5. Charged'
    BY <2>4, Limits, ChargedAlone
  <2>6. QED
    BY <2>2, <2>3, <2>5 DEF IInv
<1>11. ASSUME NEW r \in Request, AskCoa(r) PROVE IInv'
  <2>1. /\ Wait(r, NextStep) /\ NextStep \in {"token", "agent", "rest"} /\ NextStep \in Step
        /\ NextStep = "agent" => AgentCore
    BY <1>11 DEF AskCoa, NextStep, FirstTransport, Step
  <2>2. TypeOK'
    <3>1. memo' \in {"unread", "empty", "answers"} /\ inFlight' \in BOOLEAN
      BY <1>11 DEF AskCoa, TypeOK
    <3>2. QED
      BY <1>11, <2>1, <3>1, WaitGoesOn DEF AskCoa, TypeOK
  <2>3. Admission'
    <3>1. verdict[r]
      BY <1>11 DEF AskCoa, Admission
    <3>2. QED
      BY <1>11, <2>1, <3>1, WaitAdmits DEF AskCoa
  <2>4. /\ pc'[r] = NextStep /\ spent' = spent /\ spent[r] <= KeysCap /\ spent[r] \in Nat
        /\ \A q \in Request \ {r} : pc'[q] = pc[q]
    BY <1>11, <2>1, WaitGoesOn DEF AskCoa, Charged, TypeOK
  <2>5. Charged'
    BY <2>1, <2>4, Limits, ChargedAlone
  <2>6. QED
    BY <2>2, <2>3, <2>5 DEF IInv
<1>12. ASSUME NEW r \in Request, AgentAnswers(r) PROVE IInv'
  <2>1. Finish(r, "live") /\ "live" \in Reply
    BY <1>12 DEF AgentAnswers, Reply
  <2>2. /\ spent' \in [Request -> Nat] /\ spent'[r] = spent[r] + QueryTimeout
        /\ \A q \in Request \ {r} : spent'[q] = spent[q]
    BY <1>12, ChargeAdds, Limits DEF AgentAnswers
  <2>3. TypeOK'
    BY <1>12, <2>1, <2>2, FinishEnds DEF AgentAnswers, TypeOK, outboundVars
  <2>4. Admission'
    BY <1>12, <2>1, FinishAdmits DEF AgentAnswers
  <2>5. /\ pc'[r] = "idle" /\ AgentCore /\ spent[r] <= KeysCap + MintCap /\ spent[r] \in Nat
        /\ \A q \in Request \ {r} : pc'[q] = pc[q]
    BY <1>12, <2>1, FinishEnds DEF AgentAnswers, Charged, TypeOK
  <2>6. Charged'
    BY <2>2, <2>5, Limits, ChargedAlone DEF AgentWait
  <2>7. QED
    BY <2>3, <2>4, <2>6 DEF IInv
<1>13. ASSUME NEW r \in Request, AgentFails(r) PROVE IInv'
  <2>1. Wait(r, "rest") /\ "rest" \in Step
    BY <1>13 DEF AgentFails, Step
  <2>2. /\ spent' \in [Request -> Nat] /\ spent'[r] = spent[r] + QueryTimeout
        /\ \A q \in Request \ {r} : spent'[q] = spent[q]
    BY <1>13, ChargeAdds, Limits DEF AgentFails
  <2>3. TypeOK'
    BY <1>13, <2>1, <2>2, WaitGoesOn DEF AgentFails, TypeOK, outboundVars
  <2>4. Admission'
    <3>1. verdict[r]
      BY <1>13 DEF AgentFails, Admission
    <3>2. QED
      BY <1>13, <2>1, <3>1, WaitAdmits DEF AgentFails
  <2>5. /\ pc'[r] = "rest" /\ AgentCore /\ spent[r] <= KeysCap + MintCap /\ spent[r] \in Nat
        /\ \A q \in Request \ {r} : pc'[q] = pc[q]
    BY <1>13, <2>1, WaitGoesOn DEF AgentFails, Charged, TypeOK
  <2>6. Charged'
    BY <2>2, <2>5, Limits, ChargedAlone DEF AgentWait
  <2>7. QED
    BY <2>3, <2>4, <2>6 DEF IInv
<1>14. ASSUME NEW r \in Request, RestEnds(r) PROVE IInv'
  <2>1. PICK outcome \in {"live", "failed"} : Finish(r, outcome)
    BY <1>14 DEF RestEnds
  <2>2. outcome \in Reply
    BY DEF Reply
  <2>3. /\ spent' \in [Request -> Nat] /\ spent'[r] = spent[r] + QueryTimeout
        /\ \A q \in Request \ {r} : spent'[q] = spent[q]
    BY <1>14, ChargeAdds, Limits DEF RestEnds
  <2>4. TypeOK'
    BY <1>14, <2>1, <2>2, <2>3, FinishEnds DEF RestEnds, TypeOK, outboundVars
  <2>5. Admission'
    BY <1>14, <2>1, <2>2, FinishAdmits DEF RestEnds
  <2>6. /\ pc'[r] = "idle" /\ spent[r] <= KeysCap + MintCap + AgentWait /\ spent[r] \in Nat
        /\ \A q \in Request \ {r} : pc'[q] = pc[q]
    BY <1>14, <2>1, <2>2, FinishEnds DEF RestEnds, Charged, TypeOK
  <2>7. Charged'
    BY <2>3, <2>6, Limits, ChargedAlone
  <2>8. QED
    BY <2>4, <2>5, <2>7 DEF IInv
<1>15. CASE UNCHANGED vars
  <2>1. TypeOK'
    BY <1>15 DEF vars, outboundVars, requestVars, TypeOK
  <2>2. Admission'
    BY <1>15 DEF vars, requestVars, Admission, RefusesToStart, ForAnyone
  <2>3. Charged'
    BY <1>15 DEF vars, requestVars, Charged, AgentWait, Limit
  <2>4. QED
    BY <2>1, <2>2, <2>3 DEF IInv
<1>16. QED
  BY <1>1, <1>2, <1>3, <1>4, <1>5, <1>6, <1>7, <1>8, <1>9, <1>10, <1>11, <1>12, <1>13,
     <1>14, <1>15 DEF Next, Continue

-----------------------------------------------------------------------------
(* Theorems *)

\* IInv holds in every reachable state.
LEMMA Invariance == Spec => []IInv
<1>1. Init => IInv
  BY Initially
<1>2. IInv /\ [Next]_vars => IInv'
  BY Inductive
<1>3. QED
  BY <1>1, <1>2, PTL DEF Spec

\* Under every combination of settings the server starts with, and for any
\* number of requests at once, COA is asked only for requests that are to be
\* served, and by no stranger on an open listener without OAuth.
THEOREM OnlyEntitledAskCoa == Spec => []OnlyAdmittedReachCoa
<1>1. IInv => OnlyAdmittedReachCoa
  <2> SUFFICES ASSUME IInv, NEW r \in Request, pc[r] \in {"token", "agent", "rest"}
               PROVE  entitled[r] /\ (cfg.loopback \/ cfg.issuer)
    BY DEF OnlyAdmittedReachCoa
  <2>1. entitled[r] /\ ~RefusesToStart(cfg)
    BY DEF IInv, Admission
  <2>2. QED
    BY <2>1, StartedIsGuarded DEF IInv, TypeOK
<1>2. QED
  BY <1>1, Invariance, PTL

\* However calls end and whoever shares the mint, a request has waited at most for
\* the key set, one mint and one limit per transport.
THEOREM BoundedWait == Spec => []WaitIsBounded
<1>1. IInv => WaitIsBounded
  <2> SUFFICES ASSUME IInv, NEW r \in Request PROVE spent[r] <= Limit
    BY DEF WaitIsBounded
  <2>1. spent[r] \in Nat /\ pc[r] \in Step
    BY DEF IInv, TypeOK
  <2>2. QED
    BY <2>1, Limits DEF IInv, Charged, Step
<1>2. QED
  BY <1>1, Invariance, PTL
=============================================================================
