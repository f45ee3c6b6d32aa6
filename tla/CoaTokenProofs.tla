---------------------------- MODULE CoaTokenProofs ----------------------------
(***************************************************************************)
(* What the token manager promises for every number of callers and mints,  *)
(* every lifetime, skew and delay that TimingAssumption allows.            *)
(***************************************************************************)
EXTENDS CoaToken, TLAPS

\* The mints so far are 1..minted, and at most the last of them is under way.
Flight ==
    /\ \A m \in Mint : status[m] = "unused" <=> m > minted
    /\ \A m \in Mint : status[m] \in {"sent", "issued"} => m = inFlight
    /\ inFlight # NoToken => inFlight = minted /\ status[inFlight] \in {"sent", "issued"}
    /\ \A c \in Caller : state[c] = "waiting" => waitsFor[c] = inFlight

\* The clock readings of a mint are in order, and it does not outlive its limit.
MintTimes ==
    \A m \in Mint :
        /\ started[m] <= now
        /\ status[m] \in {"issued", "done"} => started[m] <= issued[m] /\ issued[m] <= now
        /\ status[m] \in {"sent", "issued"} => now <= started[m] + MaxDelay

\* The cache holds the last token that was minted, with an expiry that is late
\* enough to space the mints and no later than Cognito's.
CacheTimes ==
    /\ \A m \in Mint : status[m] = "done" => cache # NoToken /\ m <= cache
    /\ cache # NoToken =>
        /\ status[cache] = "done"
        /\ started[cache] + Fallback <= expiresAt
        /\ expiresAt <= issued[cache] + Lifetime

\* A caller that holds a minted token will be done with it before its end.
HeldTimes ==
    \A c \in Caller : state[c] = "holding" =>
        /\ got[c] <= now /\ now <= got[c] + MaxHold
        /\ token[c] \in Mint =>
            status[token[c]] = "done" /\ got[c] + MaxHold < issued[token[c]] + Lifetime

\* Callers that need a token at the same time share one mint (the comment on
\* getCoaToken): there are never two under way, and every waiting caller awaits
\* the one that is, so that it is answered when that mint settles.
SharedMint ==
    /\ \A m \in Mint : status[m] \in {"sent", "issued"} => m = inFlight
    /\ \A c \in Caller : state[c] = "waiting" => waitsFor[c] = inFlight

\* The promise callers share is one that has not settled.
NoStaleFlight == inFlight # NoToken => status[inFlight] \notin {"done", "failed"}

\* What the steps of TokenService are about.
Waiting == {c \in Caller : state[c] = "waiting"}
Held == [c \in Caller |-> IF state[c] = "holding" THEN token[c] ELSE NoToken]

\* A mint under way is awaited, by the call that started it at the least.
Awaited == inFlight # NoToken => Waiting # {}

IInv == TypeOK /\ Flight /\ Awaited /\ MintTimes /\ CacheTimes /\ HeldTimes /\ NoMidRequest403 /\ SpacedMints
-----------------------------------------------------------------------------
(* Every step keeps every part of IInv *)

LEMMA TypeStep == TypeOK /\ [Next]_vars => TypeOK'
<1> SUFFICES ASSUME TypeOK, [Next]_vars PROVE TypeOK'
  OBVIOUS
<1> USE TokenAssumption, TimingAssumption DEF TypeOK, Mint, Time, Token, NoToken, EnvironmentToken, tokenVars, mintVars, callerVars
<1>1. CASE Tick
  BY <1>1 DEF Tick
<1>2. ASSUME NEW c \in Caller, TakeEnvToken(c) PROVE TypeOK'
  BY <1>2 DEF TakeEnvToken, Hold
<1>3. ASSUME NEW c \in Caller, TakeCached(c) PROVE TypeOK'
  BY <1>3 DEF TakeCached, Hold, Fresh
<1>4. ASSUME NEW c \in Caller, JoinMint(c) PROVE TypeOK'
  BY <1>4 DEF JoinMint, Await
<1>5. ASSUME NEW c \in Caller, StartMint(c) PROVE TypeOK'
  <2>1. minted + 1 \in Mint /\ now \in Time
    BY <1>5 DEF StartMint
  <2>2. /\ status' \in [Mint -> {"unused", "sent", "issued", "done", "failed"}]
        /\ started' \in [Mint -> Time]
    BY <1>5, <2>1 DEF StartMint
  <2>3. /\ state' \in [Caller -> {"idle", "waiting", "holding"}]
        /\ waitsFor' \in [Caller -> {NoToken} \cup Mint]
    BY <1>5, <2>1 DEF StartMint, Await
  <2>4. /\ \A d \in Caller : state'[d] = "waiting" => waitsFor'[d] \in Mint
        /\ \A d \in Caller : state'[d] = "holding" => token'[d] \in Token
    BY <1>5, <2>1 DEF StartMint, Await
  <2>5. QED
    BY <1>5, <2>1, <2>2, <2>3, <2>4 DEF StartMint, Await
<1>6. ASSUME NEW c \in Caller, Present(c) PROVE TypeOK'
  <2>1. token[c] \in Token /\ state[c] = "holding"
    BY <1>6 DEF Present
  <2>2. refused' \in [Caller -> SUBSET Token]
    <3>1. PICK S \in SUBSET Token : refused' = [refused EXCEPT ![c] = S]
      <4>1. {} \in SUBSET Token /\ {token[c]} \in SUBSET Token
        BY <2>1
      <4>2. \/ refused' = [refused EXCEPT ![c] = {}]
            \/ refused' = [refused EXCEPT ![c] = {token[c]}]
        BY <1>6 DEF Present
      <4>3. QED
        BY <4>1, <4>2
    <3>2. QED
      BY <3>1
  <2>3. /\ state' \in [Caller -> {"idle", "waiting", "holding"}]
        /\ token' \in [Caller -> {NoToken} \cup Token]
        /\ got' \in [Caller -> Time]
    <3>1. \/ UNCHANGED <<state, token, got>>
          \/ /\ state' = [state EXCEPT ![c] = "idle"]
             /\ token' = [token EXCEPT ![c] = NoToken]
             /\ got' = [got EXCEPT ![c] = 0]
      BY <1>6 DEF Present
    <3>2. CASE UNCHANGED <<state, token, got>>
      BY <3>2
    <3>3. CASE /\ state' = [state EXCEPT ![c] = "idle"]
               /\ token' = [token EXCEPT ![c] = NoToken]
               /\ got' = [got EXCEPT ![c] = 0]
      BY <3>3
    <3>4. QED
      BY <3>1, <3>2, <3>3
  <2>4. /\ \A d \in Caller : state'[d] = "waiting" => waitsFor'[d] \in Mint
        /\ \A d \in Caller : state'[d] = "holding" => token'[d] \in Token
    BY <1>6 DEF Present
  <2>5. QED
    BY <1>6, <2>2, <2>3, <2>4 DEF Present
<1>7. ASSUME NEW m \in Mint, CognitoIssues(m) PROVE TypeOK'
  BY <1>7 DEF CognitoIssues
<1>8. ASSUME NEW m \in Mint, MintOk(m) PROVE TypeOK'
  <2>1. expiresAt' \in Nat /\ cache' \in Mint /\ inFlight' = NoToken
    BY <1>8 DEF MintOk, ExpiryRead
  <2>2. status' \in [Mint -> {"unused", "sent", "issued", "done", "failed"}]
    BY <1>8 DEF MintOk
  <2>3. /\ state' \in [Caller -> {"idle", "waiting", "holding"}]
        /\ token' \in [Caller -> {NoToken} \cup Token]
    BY <1>8 DEF MintOk
  <2>4. /\ got' \in [Caller -> Time]
        /\ waitsFor' \in [Caller -> {NoToken} \cup Mint]
    BY <1>8 DEF MintOk
  <2>5. /\ \A c \in Caller : state'[c] = "waiting" => waitsFor'[c] \in Mint
        /\ \A c \in Caller : state'[c] = "holding" => token'[c] \in Token
    BY <1>8 DEF MintOk
  <2>6. QED
    BY <1>8, <2>1, <2>2, <2>3, <2>4, <2>5 DEF MintOk
<1>9. ASSUME NEW m \in Mint, MintFails(m) PROVE TypeOK'
  BY <1>9 DEF MintFails, Awaits
<1>10. CASE UNCHANGED vars
  BY <1>10 DEF vars
<1>11. QED
  BY <1>1, <1>2, <1>3, <1>4, <1>5, <1>6, <1>7, <1>8, <1>9, <1>10 DEF Next, Resolve, Settle

LEMMA FlightStep == TypeOK /\ Flight /\ [Next]_vars => Flight'
<1> SUFFICES ASSUME TypeOK, Flight, [Next]_vars PROVE Flight'
  OBVIOUS
<1> USE TokenAssumption, TimingAssumption DEF Flight, TypeOK, Mint, NoToken, tokenVars, mintVars, callerVars
<1>1. CASE Tick
  BY <1>1 DEF Tick
<1>2. ASSUME NEW c \in Caller, TakeEnvToken(c) PROVE Flight'
  BY <1>2 DEF TakeEnvToken, Hold
<1>3. ASSUME NEW c \in Caller, TakeCached(c) PROVE Flight'
  BY <1>3 DEF TakeCached, Hold, Fresh
<1>4. ASSUME NEW c \in Caller, JoinMint(c) PROVE Flight'
  BY <1>4 DEF JoinMint, Await
<1>5. ASSUME NEW c \in Caller, StartMint(c) PROVE Flight'
  BY <1>5 DEF StartMint, Await, Fresh
<1>6. ASSUME NEW c \in Caller, Present(c) PROVE Flight'
  BY <1>6 DEF Present, Expiry
<1>7. ASSUME NEW m \in Mint, CognitoIssues(m) PROVE Flight'
  BY <1>7 DEF CognitoIssues
<1>8. ASSUME NEW m \in Mint, MintOk(m) PROVE Flight'
  BY <1>8 DEF MintOk, Awaits, ExpiryRead
<1>9. ASSUME NEW m \in Mint, MintFails(m) PROVE Flight'
  BY <1>9 DEF MintFails, Awaits
<1>10. CASE UNCHANGED vars
  BY <1>10 DEF vars
<1>11. QED
  BY <1>1, <1>2, <1>3, <1>4, <1>5, <1>6, <1>7, <1>8, <1>9, <1>10 DEF Next, Resolve, Settle

LEMMA AwaitedStep == TypeOK /\ Flight /\ Awaited /\ [Next]_vars => Awaited'
<1> SUFFICES ASSUME TypeOK, Flight, Awaited, [Next]_vars PROVE Awaited'
  OBVIOUS
<1> USE DEF Awaited, Waiting, TypeOK, tokenVars, mintVars, callerVars
<1>1. CASE Tick
  BY <1>1 DEF Tick
<1>2. ASSUME NEW c \in Caller, TakeEnvToken(c) PROVE Awaited'
  BY <1>2 DEF TakeEnvToken, Hold
<1>3. ASSUME NEW c \in Caller, TakeCached(c) PROVE Awaited'
  BY <1>3 DEF TakeCached, Hold
<1>4. ASSUME NEW c \in Caller, JoinMint(c) PROVE Awaited'
  BY <1>4 DEF JoinMint, Await
<1>5. ASSUME NEW c \in Caller, StartMint(c) PROVE Awaited'
  BY <1>5 DEF StartMint, Await
<1>6. ASSUME NEW c \in Caller, Present(c) PROVE Awaited'
  BY <1>6 DEF Present
<1>7. ASSUME NEW m \in Mint, CognitoIssues(m) PROVE Awaited'
  BY <1>7 DEF CognitoIssues
<1>8. ASSUME NEW m \in Mint, MintOk(m) PROVE Awaited'
  BY <1>8 DEF MintOk
<1>9. ASSUME NEW m \in Mint, MintFails(m) PROVE Awaited'
  BY <1>9 DEF MintFails
<1>10. CASE UNCHANGED vars
  BY <1>10 DEF vars
<1>11. QED
  BY <1>1, <1>2, <1>3, <1>4, <1>5, <1>6, <1>7, <1>8, <1>9, <1>10 DEF Next, Resolve, Settle

LEMMA MintTimesStep == TypeOK /\ Flight /\ MintTimes /\ [Next]_vars => MintTimes'
<1> SUFFICES ASSUME TypeOK, Flight, MintTimes, [Next]_vars PROVE MintTimes'
  OBVIOUS
<1> USE TokenAssumption, TimingAssumption DEF MintTimes, Flight, TypeOK, Mint, Time, NoToken, tokenVars, mintVars, callerVars
<1>1. CASE Tick
  BY <1>1 DEF Tick
<1>2. ASSUME NEW c \in Caller, TakeEnvToken(c) PROVE MintTimes'
  BY <1>2 DEF TakeEnvToken, Hold
<1>3. ASSUME NEW c \in Caller, TakeCached(c) PROVE MintTimes'
  BY <1>3 DEF TakeCached, Hold, Fresh
<1>4. ASSUME NEW c \in Caller, JoinMint(c) PROVE MintTimes'
  BY <1>4 DEF JoinMint, Await
<1>5. ASSUME NEW c \in Caller, StartMint(c) PROVE MintTimes'
  BY <1>5 DEF StartMint, Await, Fresh
<1>6. ASSUME NEW c \in Caller, Present(c) PROVE MintTimes'
  BY <1>6 DEF Present, Expiry
<1>7. ASSUME NEW m \in Mint, CognitoIssues(m) PROVE MintTimes'
  BY <1>7 DEF CognitoIssues
<1>8. ASSUME NEW m \in Mint, MintOk(m) PROVE MintTimes'
  BY <1>8 DEF MintOk, Awaits, ExpiryRead
<1>9. ASSUME NEW m \in Mint, MintFails(m) PROVE MintTimes'
  BY <1>9 DEF MintFails, Awaits
<1>10. CASE UNCHANGED vars
  BY <1>10 DEF vars
<1>11. QED
  BY <1>1, <1>2, <1>3, <1>4, <1>5, <1>6, <1>7, <1>8, <1>9, <1>10 DEF Next, Resolve, Settle

LEMMA CacheTimesStep == TypeOK /\ Flight /\ MintTimes /\ CacheTimes /\ [Next]_vars => CacheTimes'
<1> SUFFICES ASSUME TypeOK, Flight, MintTimes, CacheTimes, [Next]_vars PROVE CacheTimes'
  OBVIOUS
<1> USE TokenAssumption, TimingAssumption DEF CacheTimes, MintTimes, Flight, TypeOK, Mint, Time, NoToken, tokenVars, mintVars, callerVars
<1>1. CASE Tick
  BY <1>1 DEF Tick
<1>2. ASSUME NEW c \in Caller, TakeEnvToken(c) PROVE CacheTimes'
  BY <1>2 DEF TakeEnvToken, Hold
<1>3. ASSUME NEW c \in Caller, TakeCached(c) PROVE CacheTimes'
  BY <1>3 DEF TakeCached, Hold, Fresh
<1>4. ASSUME NEW c \in Caller, JoinMint(c) PROVE CacheTimes'
  BY <1>4 DEF JoinMint, Await
<1>5. ASSUME NEW c \in Caller, StartMint(c) PROVE CacheTimes'
  BY <1>5 DEF StartMint, Await, Fresh
<1>6. ASSUME NEW c \in Caller, Present(c) PROVE CacheTimes'
  BY <1>6 DEF Present, Expiry
<1>7. ASSUME NEW m \in Mint, CognitoIssues(m) PROVE CacheTimes'
  BY <1>7 DEF CognitoIssues
<1>8. ASSUME NEW m \in Mint, MintOk(m) PROVE CacheTimes'
  <2>1. /\ cache' = m /\ status' = [status EXCEPT ![m] = "done"]
        /\ UNCHANGED <<started, issued>>
    BY <1>8 DEF MintOk
  <2>2. \A n \in Mint : status'[n] = "done" => n <= m
    BY <1>8, <2>1 DEF MintOk
  <2>3. started[m] + Fallback <= issued[m] + Lifetime
    BY <1>8 DEF MintOk
  <2>4. started[m] + Fallback <= expiresAt' /\ expiresAt' <= issued[m] + Lifetime
    BY <1>8, <2>3 DEF MintOk, ExpiryRead
  <2>5. QED
    BY <2>1, <2>2, <2>4
<1>9. ASSUME NEW m \in Mint, MintFails(m) PROVE CacheTimes'
  BY <1>9 DEF MintFails, Awaits
<1>10. CASE UNCHANGED vars
  BY <1>10 DEF vars
<1>11. QED
  BY <1>1, <1>2, <1>3, <1>4, <1>5, <1>6, <1>7, <1>8, <1>9, <1>10 DEF Next, Resolve, Settle

LEMMA HeldTimesStep == TypeOK /\ Flight /\ MintTimes /\ CacheTimes /\ HeldTimes /\ [Next]_vars => HeldTimes'
<1> SUFFICES ASSUME TypeOK, Flight, MintTimes, CacheTimes, HeldTimes, [Next]_vars PROVE HeldTimes'
  OBVIOUS
<1> USE TokenAssumption, TimingAssumption DEF HeldTimes, CacheTimes, MintTimes, Flight, TypeOK, Mint, Time, NoToken, EnvironmentToken, Token, tokenVars, mintVars, callerVars
<1>1. CASE Tick
  <2>1. \A c \in Caller : state[c] = "holding" => now < got[c] + MaxHold
    BY <1>1 DEF Tick
  <2>2. now \in Nat /\ now' = now + 1 /\ UNCHANGED <<status, issued, state, token, got>>
    BY <1>1 DEF Tick
  <2>3. \A c \in Caller : got[c] \in Nat
    OBVIOUS
  <2>4. ASSUME NEW c \in Caller, state'[c] = "holding"
        PROVE  /\ got'[c] <= now' /\ now' <= got'[c] + MaxHold
               /\ token'[c] \in Mint => /\ status'[token'[c]] = "done"
                                        /\ got'[c] + MaxHold < issued'[token'[c]] + Lifetime
    <3>1. state[c] = "holding" /\ got'[c] = got[c] /\ token'[c] = token[c]
      BY <2>2, <2>4
    <3>2. got[c] <= now /\ now < got[c] + MaxHold
      BY <2>1, <3>1
    <3>3. got[c] <= now + 1 /\ now + 1 <= got[c] + MaxHold
      BY <2>2, <2>3, <3>2
    <3>4. QED
      BY <2>2, <3>1, <3>3
  <2>5. QED
    BY <2>4
<1>2. ASSUME NEW c \in Caller, TakeEnvToken(c) PROVE HeldTimes'
  BY <1>2 DEF TakeEnvToken, Hold
<1>3. ASSUME NEW c \in Caller, TakeCached(c) PROVE HeldTimes'
  BY <1>3 DEF TakeCached, Hold, Fresh
<1>4. ASSUME NEW c \in Caller, JoinMint(c) PROVE HeldTimes'
  BY <1>4 DEF JoinMint, Await
<1>5. ASSUME NEW c \in Caller, StartMint(c) PROVE HeldTimes'
  BY <1>5 DEF StartMint, Await, Fresh
<1>6. ASSUME NEW c \in Caller, Present(c) PROVE HeldTimes'
  BY <1>6 DEF Present, Expiry
<1>7. ASSUME NEW m \in Mint, CognitoIssues(m) PROVE HeldTimes'
  BY <1>7 DEF CognitoIssues
<1>8. ASSUME NEW m \in Mint, MintOk(m) PROVE HeldTimes'
  BY <1>8 DEF MintOk, Awaits, ExpiryRead
<1>9. ASSUME NEW m \in Mint, MintFails(m) PROVE HeldTimes'
  BY <1>9 DEF MintFails, Awaits
<1>10. CASE UNCHANGED vars
  BY <1>10 DEF vars
<1>11. QED
  BY <1>1, <1>2, <1>3, <1>4, <1>5, <1>6, <1>7, <1>8, <1>9, <1>10 DEF Next, Resolve, Settle

LEMMA AcceptedStep == TypeOK /\ HeldTimes /\ NoMidRequest403 /\ [Next]_vars => NoMidRequest403'
<1> SUFFICES ASSUME TypeOK, HeldTimes, NoMidRequest403, [Next]_vars PROVE NoMidRequest403'
  OBVIOUS
<1> USE TokenAssumption, TimingAssumption DEF NoMidRequest403, HeldTimes, TypeOK, Mint, Time, NoToken, EnvironmentToken, Token, tokenVars, mintVars, callerVars
<1>1. CASE Tick
  BY <1>1 DEF Tick
<1>2. ASSUME NEW c \in Caller, TakeEnvToken(c) PROVE NoMidRequest403'
  BY <1>2 DEF TakeEnvToken, Hold
<1>3. ASSUME NEW c \in Caller, TakeCached(c) PROVE NoMidRequest403'
  BY <1>3 DEF TakeCached, Hold, Fresh
<1>4. ASSUME NEW c \in Caller, JoinMint(c) PROVE NoMidRequest403'
  BY <1>4 DEF JoinMint, Await
<1>5. ASSUME NEW c \in Caller, StartMint(c) PROVE NoMidRequest403'
  BY <1>5 DEF StartMint, Await, Fresh
<1>6. ASSUME NEW c \in Caller, Present(c) PROVE NoMidRequest403'
  <2>1. state[c] = "holding" /\ token[c] \in Token
    BY <1>6 DEF Present
  <2>2. token[c] \in Mint => now < Expiry(token[c])
    BY <2>1 DEF Expiry
  <2>3. refused'[c] \subseteq {EnvironmentToken}
    BY <1>6, <2>1, <2>2 DEF Present
  <2>4. \A d \in Caller : d # c => refused'[d] = refused[d]
    BY <1>6 DEF Present
  <2>5. QED
    BY <2>3, <2>4
<1>7. ASSUME NEW m \in Mint, CognitoIssues(m) PROVE NoMidRequest403'
  BY <1>7 DEF CognitoIssues
<1>8. ASSUME NEW m \in Mint, MintOk(m) PROVE NoMidRequest403'
  BY <1>8 DEF MintOk, Awaits, ExpiryRead
<1>9. ASSUME NEW m \in Mint, MintFails(m) PROVE NoMidRequest403'
  BY <1>9 DEF MintFails, Awaits
<1>10. CASE UNCHANGED vars
  BY <1>10 DEF vars
<1>11. QED
  BY <1>1, <1>2, <1>3, <1>4, <1>5, <1>6, <1>7, <1>8, <1>9, <1>10 DEF Next, Resolve, Settle

LEMMA SpacedStep == TypeOK /\ Flight /\ CacheTimes /\ SpacedMints /\ [Next]_vars => SpacedMints'
<1> SUFFICES ASSUME TypeOK, Flight, CacheTimes, SpacedMints, [Next]_vars PROVE SpacedMints'
  OBVIOUS
<1> USE TokenAssumption, TimingAssumption DEF SpacedMints, CacheTimes, Flight, TypeOK, Mint, Time, NoToken, tokenVars, mintVars, callerVars
<1>1. CASE Tick
  BY <1>1 DEF Tick
<1>2. ASSUME NEW c \in Caller, TakeEnvToken(c) PROVE SpacedMints'
  BY <1>2 DEF TakeEnvToken, Hold
<1>3. ASSUME NEW c \in Caller, TakeCached(c) PROVE SpacedMints'
  BY <1>3 DEF TakeCached, Hold, Fresh
<1>4. ASSUME NEW c \in Caller, JoinMint(c) PROVE SpacedMints'
  BY <1>4 DEF JoinMint, Await
<1>5. ASSUME NEW c \in Caller, StartMint(c) PROVE SpacedMints'
  <2>1. /\ minted' = minted + 1 /\ minted + 1 \in Mint
        /\ status' = [status EXCEPT ![minted + 1] = "sent"]
        /\ started' = [started EXCEPT ![minted + 1] = now]
    BY <1>5 DEF StartMint
  <2>2. cache = NoToken \/ expiresAt - Skew <= now
    BY <1>5 DEF StartMint, Fresh
  <2>3. ASSUME minted \in Mint, status[minted] = "done"
        PROVE  now >= started[minted] + Fallback - Skew
    <3>1. cache = minted
      BY <2>3
    <3>2. started[minted] + Fallback <= expiresAt
      BY <2>3, <3>1
    <3>3. QED
      BY <2>2, <2>3, <3>1, <3>2
  <2>4. ASSUME NEW m \in Mint, m + 1 <= minted', status'[m] = "done"
        PROVE  started'[m + 1] >= started'[m] + Fallback - Skew
    <3>1. CASE m = minted
      BY <2>1, <2>3, <2>4, <3>1
    <3>2. CASE m < minted
      <4>1. m \in Mint /\ m + 1 \in Mint /\ m + 1 <= minted /\ m # minted + 1
        BY <2>1, <3>2
      <4>2. status[m] = "done"
        BY <2>1, <2>4, <4>1
      <4>3. started'[m + 1] = started[m + 1] /\ started'[m] = started[m]
        BY <2>1, <4>1
      <4>4. QED
        BY <4>1, <4>2, <4>3
    <3>3. QED
      BY <2>1, <2>4, <3>1, <3>2
  <2>5. QED
    BY <2>4
<1>6. ASSUME NEW c \in Caller, Present(c) PROVE SpacedMints'
  BY <1>6 DEF Present, Expiry
<1>7. ASSUME NEW m \in Mint, CognitoIssues(m) PROVE SpacedMints'
  BY <1>7 DEF CognitoIssues
<1>8. ASSUME NEW m \in Mint, MintOk(m) PROVE SpacedMints'
  BY <1>8 DEF MintOk, Awaits, ExpiryRead
<1>9. ASSUME NEW m \in Mint, MintFails(m) PROVE SpacedMints'
  BY <1>9 DEF MintFails, Awaits
<1>10. CASE UNCHANGED vars
  BY <1>10 DEF vars
<1>11. QED
  BY <1>1, <1>2, <1>3, <1>4, <1>5, <1>6, <1>7, <1>8, <1>9, <1>10 DEF Next, Resolve, Settle

-----------------------------------------------------------------------------

LEMMA Initially == Init => IInv
<1> SUFFICES ASSUME Init PROVE IInv
  OBVIOUS
<1> USE TokenAssumption DEF Init, Mint, Time, NoToken
<1>1. TypeOK
  BY DEF TypeOK, Token
<1>2. Flight /\ Awaited /\ MintTimes /\ CacheTimes /\ HeldTimes
  BY DEF Flight, Awaited, MintTimes, CacheTimes, HeldTimes
<1>3. NoMidRequest403 /\ SpacedMints
  BY DEF NoMidRequest403, SpacedMints
<1>4. QED
  BY <1>1, <1>2, <1>3 DEF IInv

LEMMA Invariance == Spec => []IInv
<1>1. IInv /\ [Next]_vars => IInv'
  BY TypeStep, FlightStep, AwaitedStep, MintTimesStep, CacheTimesStep, HeldTimesStep, AcceptedStep,
     SpacedStep DEF IInv
<1>2. QED
  BY <1>1, Initially, PTL DEF Spec

\* TypeOK for every number of callers and mints and every clock bound.
THEOREM Typing == Spec => []TypeOK
<1>1. IInv => TypeOK
  BY DEF IInv
<1>2. QED
  BY <1>1, Invariance, PTL

\* Concurrent callers of getCoaToken share one mint.
THEOREM MintIsShared == Spec => []SharedMint
<1>1. IInv => SharedMint
  BY DEF IInv, Flight, SharedMint
<1>2. QED
  BY <1>1, Invariance, PTL

\* inFlight never holds a promise that has settled.
THEOREM FlightIsLive == Spec => []NoStaleFlight
<1>1. IInv => NoStaleFlight
  BY DEF IInv, Flight, NoStaleFlight
<1>2. QED
  BY <1>1, Invariance, PTL

\* REFRESH_SKEW_MS does what its comment says, given TimingAssumption.
THEOREM MintedTokensAreAccepted == Spec => []NoMidRequest403
<1>1. IInv => NoMidRequest403
  BY DEF IInv
<1>2. QED
  BY <1>1, Invariance, PTL

\* The expiry that is cached, fallback included, spaces the mints.
THEOREM MintsAreSpaced == Spec => []SpacedMints
<1>1. IInv => SpacedMints
  BY DEF IInv
<1>2. QED
  BY <1>1, Invariance, PTL

-----------------------------------------------------------------------------
(* Every step is one of TokenService, or changes nothing it sees *)

LEMMA ServiceInit == Init => Service!Init
<1> SUFFICES ASSUME Init PROVE Service!Init
  OBVIOUS
<1>1. Waiting = {} /\ Held = [c \in Caller |-> NoToken]
  BY DEF Init, Waiting, Held
<1>2. QED
  BY <1>1 DEF Init, Service!Init, Waiting, Held

\* A step that leaves the manager and the callers' states and tokens alone.
LEMMA Invisible ==
    ASSUME UNCHANGED <<minted, cache, state, token>>
    PROVE  UNCHANGED Service!vars
BY DEF Service!vars

LEMMA HoldStep ==
    ASSUME TypeOK, NEW c \in Caller, state[c] = "idle",
           NEW t \in {EnvironmentToken, cache} \ {NoToken}, Hold(c, t),
           UNCHANGED <<minted, cache>>
    PROVE  Service!Answer(c)
<1>1. Waiting' = Waiting /\ c \notin Waiting
  BY DEF Hold, Waiting, TypeOK
<1>2. Held[c] = NoToken /\ Held' = [Held EXCEPT ![c] = t]
  BY DEF Hold, Held, TypeOK
<1>3. QED
  BY <1>1, <1>2 DEF Service!Answer, Service!Idle, Waiting, Held

LEMMA AwaitStep ==
    ASSUME TypeOK, NEW c \in Caller, state[c] = "idle", NEW m, Await(c, m),
           UNCHANGED cache,
           minted' = IF Waiting = {} THEN minted + 1 ELSE minted
    PROVE  Service!Join(c)
<1>1. Waiting' = Waiting \cup {c} /\ c \notin Waiting
  BY DEF Await, Waiting, TypeOK
<1>2. Held[c] = NoToken /\ Held' = Held
  BY DEF Await, Held, TypeOK
<1>3. QED
  BY <1>1, <1>2 DEF Service!Join, Service!Idle, Waiting, Held

LEMMA ServiceStep == IInv /\ [Next]_vars => [Service!Next]_Service!vars
<1> SUFFICES ASSUME TypeOK, Flight, Awaited, [Next]_vars PROVE [Service!Next]_Service!vars
  BY DEF IInv
<1>1. CASE Tick
  BY <1>1, Invisible DEF Tick, tokenVars, mintVars, callerVars
<1>2. ASSUME NEW c \in Caller, TakeEnvToken(c) PROVE Service!Next
  <2>1. Service!Answer(c)
    BY <1>2, HoldStep DEF TakeEnvToken, tokenVars, mintVars, EnvironmentToken, NoToken
  <2>2. QED
    BY <2>1 DEF Service!Next
<1>3. ASSUME NEW c \in Caller, TakeCached(c) PROVE Service!Next
  <2>1. Service!Answer(c)
    BY <1>3, HoldStep DEF TakeCached, Fresh, tokenVars, mintVars
  <2>2. QED
    BY <2>1 DEF Service!Next
<1>4. ASSUME NEW c \in Caller, JoinMint(c) PROVE Service!Next
  <2>1. Waiting # {}
    BY <1>4 DEF JoinMint, Awaited
  <2>2. Service!Join(c)
    BY <1>4, <2>1, AwaitStep DEF JoinMint, tokenVars, mintVars
  <2>3. QED
    BY <2>2 DEF Service!Next
<1>5. ASSUME NEW c \in Caller, StartMint(c) PROVE Service!Next
  <2>1. Waiting = {}
    BY <1>5 DEF StartMint, Flight, Waiting, TypeOK, Mint, NoToken
  <2>2. Service!Join(c)
    BY <1>5, <2>1, AwaitStep DEF StartMint
  <2>3. QED
    BY <2>2 DEF Service!Next
<1>6. ASSUME NEW c \in Caller, Present(c) PROVE [Service!Next]_Service!vars
  <2>1. UNCHANGED <<minted, cache>> /\ Waiting' = Waiting
    BY <1>6 DEF Present, Waiting, tokenVars, mintVars, TypeOK
  <2>2. CASE UNCHANGED <<state, token>>
    BY <2>1, <2>2, Invisible
  <2>3. CASE /\ state' = [state EXCEPT ![c] = "idle"]
             /\ token' = [token EXCEPT ![c] = NoToken]
    <3>1. Held[c] # NoToken
      BY <1>6 DEF Present, Held, TypeOK, Token, Mint, NoToken, EnvironmentToken
    <3>2. Held' = [Held EXCEPT ![c] = NoToken]
      BY <2>3 DEF Held, TypeOK
    <3>3. Service!Release(c)
      BY <2>1, <3>1, <3>2 DEF Service!Release, Held, Waiting
    <3>4. QED
      BY <3>3 DEF Service!Next
  <2>4. QED
    BY <1>6, <2>2, <2>3 DEF Present
<1>7. ASSUME NEW m \in Mint, CognitoIssues(m) PROVE UNCHANGED Service!vars
  BY <1>7, Invisible DEF CognitoIssues, tokenVars, callerVars
<1>8. ASSUME NEW m \in Mint, MintOk(m) PROVE Service!Next
  <2>1. m = inFlight /\ m = minted /\ Waiting # {} /\ UNCHANGED minted
    BY <1>8 DEF MintOk, Flight, Awaited, Mint, NoToken
  <2>2. \A c \in Caller : Awaits(c, m) <=> c \in Waiting
    BY <2>1 DEF Awaits, Flight, Waiting
  <2>3. Waiting' = {}
    BY <1>8, <2>2 DEF MintOk, Waiting
  <2>4. Held' = [c \in Caller |-> IF c \in Waiting THEN minted ELSE Held[c]]
    BY <1>8, <2>1, <2>2 DEF MintOk, Held, Waiting
  <2>5. Service!Succeed
    BY <1>8, <2>1, <2>3, <2>4 DEF MintOk, Service!Succeed, Waiting, Held
  <2>6. QED
    BY <2>5 DEF Service!Next
<1>9. ASSUME NEW m \in Mint, MintFails(m) PROVE Service!Next
  <2>1. m = inFlight /\ Waiting # {} /\ UNCHANGED <<minted, cache>>
    BY <1>9 DEF MintFails, Flight, Awaited, Mint, NoToken
  <2>2. \A c \in Caller : Awaits(c, m) <=> c \in Waiting
    BY <2>1 DEF Awaits, Flight, Waiting
  <2>3. Waiting' = {}
    BY <1>9, <2>2 DEF MintFails, Waiting
  <2>4. Held' = Held
    BY <1>9, <2>2 DEF MintFails, Held, Waiting
  <2>5. Service!Fail
    BY <2>1, <2>3, <2>4 DEF Service!Fail, Waiting, Held
  <2>6. QED
    BY <2>5 DEF Service!Next
<1>10. CASE UNCHANGED vars
  BY <1>10, Invisible DEF vars, tokenVars, mintVars, callerVars
<1>11. QED
  BY <1>1, <1>2, <1>3, <1>4, <1>5, <1>6, <1>7, <1>8, <1>9, <1>10 DEF Next, Resolve, Settle

\* The token manager implements TokenService, for any number of callers.
THEOREM Implementation == Spec => ImplementsService
<1>1. Spec => Service!Init /\ [][Service!Next]_Service!vars
  BY ServiceInit, ServiceStep, Invariance, PTL DEF Spec
<1>2. QED
  BY <1>1 DEF ImplementsService, Service!Spec
=============================================================================
