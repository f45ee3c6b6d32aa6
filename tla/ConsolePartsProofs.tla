------------------------- MODULE ConsolePartsProofs -------------------------
(***************************************************************************)
(* What parts of the console promise for any lifetime of a session, any    *)
(* verticals, any number of chunks, any subgraph, ontology and text.       *)
(***************************************************************************)
EXTENDS ConsoleParts, WellFoundedInduction, FiniteSetTheorems, TLAPS

-----------------------------------------------------------------------------
(* One part moves, the others rest *)

\* A step is one of a part, and leaves the others as they are.
LEMMA OnePartMoves ==
    ASSUME [Next]_vars
    PROVE  /\ [GateNext]_gateVars
           /\ [PagesNext]_pagesVars
           /\ [FlowNext]_flowVars
           /\ [SearchNext]_searchVars
           /\ [CauseNext]_causeVars
           /\ [MetricNext]_metricVars
           /\ [SchemaNext]_schemaVars
           /\ [TextNext]_textVars
           /\ [GraphNext]_graphVars
           /\ [StreamNext]_streamVars
           /\ [ViewNext]_viewVars
<1>1. CASE UNCHANGED vars
  BY <1>1 DEF vars
<1>2. CASE ViewStep
  BY <1>2 DEF ViewStep
<1>3. CASE GateStep
  BY <1>3 DEF GateStep
<1>4. CASE PagesStep
  BY <1>4 DEF PagesStep
<1>5. CASE ExplainStep
  BY <1>5 DEF ExplainStep
<1>6. CASE SearchStep
  BY <1>6 DEF SearchStep
<1>7. CASE CauseStep
  BY <1>7 DEF CauseStep
<1>8. CASE MetricStep
  BY <1>8 DEF MetricStep
<1>9. CASE SchemaStep
  BY <1>9 DEF SchemaStep
<1>10. CASE TextStep
  BY <1>10 DEF TextStep
<1>11. CASE GraphStep
  BY <1>11 DEF GraphStep
<1>12. CASE StreamStep
  BY <1>12 DEF StreamStep
<1>13. QED
  BY <1>1, <1>2, <1>3, <1>4, <1>5, <1>6, <1>7, <1>8, <1>9, <1>10, <1>11, <1>12 DEF Next

-----------------------------------------------------------------------------
(* The login gate *)

\* The cookie is of the last login, if there is one.
CookieIsOfLogin ==
    /\ clock \in Nat
    /\ \/ cookie = NoSession /\ login = NoLogin
       \/ /\ cookie # NoSession /\ login # NoLogin
          /\ cookie.key = login.secret /\ login.secret # "unset"
          /\ login.at \in Nat /\ cookie.end = login.at + SessionTTL

\* A cookie is given at login and dropped at logout, and nothing else writes it.
LEMMA CookieStep == CookieIsOfLogin /\ [Next]_vars => CookieIsOfLogin'
<1> SUFFICES ASSUME CookieIsOfLogin, [GateNext]_gateVars PROVE CookieIsOfLogin'
  BY OnePartMoves
<1> USE DEF CookieIsOfLogin
<1>0. NoSession' = NoSession /\ NoLogin' = NoLogin
  BY DEF NoSession, NoLogin
<1>1. CASE Restart
  BY <1>0, <1>1 DEF Restart
<1>2. CASE ClockTicks
  BY <1>0, <1>2 DEF ClockTicks
<1>3. CASE SignIn
  <2>1. PICK pass \in Setting \ {"unset"} :
          login' = [pass |-> pass, secret |-> env.secret, at |-> clock]
    BY <1>3 DEF SignIn
  <2>2. env.secret # "unset"
    BY <1>3 DEF SignIn, gateState
  <2>3. login'.secret = env.secret /\ login'.at = clock
    BY <2>1
  <2>4. cookie'.key = env.secret /\ cookie'.end = clock + SessionTTL /\ clock' = clock
    BY <1>3 DEF SignIn, issueSession
  <2>5. NoSession.key = "unset" /\ NoLogin.secret = "unset"
    BY DEF NoSession, NoLogin
  <2>6. QED
    BY <1>0, <2>2, <2>3, <2>4, <2>5
<1>4. CASE SignOut
  BY <1>0, <1>4 DEF SignOut
<1>5. CASE UNCHANGED gateVars
  BY <1>0, <1>5 DEF gateVars
<1>6. QED
  BY <1>1, <1>2, <1>3, <1>4, <1>5 DEF GateNext

\* The gate fails closed over any restarts, logins and logouts, for every
\* lifetime of a session (auth.ts, proxy.ts): what is not open is served exactly
\* to who logged in under the key in force, not too long ago, and did not log out.
THEOREM GateFailsClosed == Spec => []GateAdmits
<1>1. Init => CookieIsOfLogin
  BY DEF Init, GateInit, CookieIsOfLogin
<1>2. CookieIsOfLogin => GateAdmits
  <2> SUFFICES ASSUME CookieIsOfLogin, NEW path \in Path
               PROVE  Gate(path) = "served" <=>
                        \/ Open(path)
                        \/ /\ gateState = "gate" /\ login # NoLogin
                           /\ login.secret = env.secret
                           /\ clock < login.at + SessionTTL
    BY DEF GateAdmits
  <2>1. gateState \in {"gate", "bypass", "unconfigured"} /\ (gateState = "gate" => env.secret # "unset")
    BY DEF gateState
  <2>2. env.secret # "unset" =>
          (verifySession(cookie) <=> /\ login # NoLogin /\ login.secret = env.secret
                                     /\ clock < login.at + SessionTTL)
    BY GateAssumption DEF CookieIsOfLogin, verifySession
  <2>3. QED
    BY <2>1, <2>2 DEF Gate, Open, Path
<1>3. QED
  BY <1>1, <1>2, CookieStep, PTL DEF Spec

-----------------------------------------------------------------------------
(* The pages and the mode they go by *)

\* Until an accepted switch loads the tab again, everything it holds is of the
\* mode of the server.
InStep(t) ==
    /\ post[t] # "none" => badge[t] # "none"
    /\ post[t] # "ok" =>
        /\ badge[t] \in {"none", mode}
        /\ \A p \in Pane : /\ answered[t][p] \in {"none", "sent", "error", mode}
                          /\ shown[t][p] \in {"none", "error", mode}
        /\ fetch[t] \in {"none", "sent", "error", mode}
        /\ body[t].by \in {"none", "error", mode}

PagesType ==
    /\ mode \in Mode
    /\ badge \in [Tab -> Mode \cup {"none"}]
    /\ switching \in [Tab -> Mode \cup {"none"}]
    /\ post \in [Tab -> {"none", "sent", "rejected", "ok"}]
    /\ answered \in [Tab -> [Pane -> Mode \cup {"none", "sent", "error"}]]
    /\ shown \in [Tab -> [Pane -> Mode \cup {"none", "error"}]]
    /\ fetch \in [Tab -> Mode \cup {"none", "sent", "error"}]
    /\ body \in [Tab -> [of : Vertical \cup {"none"}, by : Mode \cup {"none", "error"}]]
    /\ vertical \in [Tab -> Vertical]
    /\ \A t \in Tab : switching[t] = "none" <=> post[t] = "none"

\* What a page that is mounted knows.
LEMMA MountTypes ==
    ASSUME PagesType, NEW t \in Tab, NEW p, Mount(t, p)
    PROVE  /\ answered' \in [Tab -> [Pane -> Mode \cup {"none", "sent", "error"}]]
           /\ shown' \in [Tab -> [Pane -> Mode \cup {"none", "error"}]]
           /\ fetch' \in [Tab -> Mode \cup {"none", "sent", "error"}]
           /\ body' \in [Tab -> [of : Vertical \cup {"none"}, by : Mode \cup {"none", "error"}]]
           /\ answered'[t] = Each("none") /\ shown'[t] = Each("none")
           /\ fetch'[t] \in {"none", "sent"} /\ body'[t] = NoBody
<1>1. Each("none") \in [Pane -> {"none"}]
  BY DEF Each
<1>2. NoBody \in [of : {"none"}, by : {"none"}]
  BY DEF NoBody
<1>3. FirstFetch(p) \in {"none", "sent"}
  BY DEF FirstFetch
<1>4. /\ answered' = [answered EXCEPT ![t] = Each("none")] /\ shown' = [shown EXCEPT ![t] = Each("none")]
      /\ fetch' = [fetch EXCEPT ![t] = FirstFetch(p)] /\ body' = [body EXCEPT ![t] = NoBody]
  BY DEF Mount
<1>5. QED
  BY <1>1, <1>2, <1>3, <1>4 DEF PagesType

\* Types of the pages and the server's mode are kept.
LEMMA PagesTypeStep == PagesType /\ [Next]_vars => PagesType'
<1> SUFFICES ASSUME PagesType, [PagesNext]_pagesVars PROVE PagesType'
  BY OnePartMoves
<1> USE DEF serverVars, badgeVars, askVars, dataVars, pageVars
<1>1. ASSUME NEW t \in Tab, Load(t) \/ Navigate(t) PROVE PagesType'
  <2>1. PICK p : Mount(t, p)
    BY <1>1 DEF Load, Navigate
  <2>2. CASE Load(t)
    <3>1. PICK v \in Vertical : vertical' = [vertical EXCEPT ![t] = v]
      BY <2>2 DEF Load
    <3>2. /\ mode' = mode /\ badge' = [badge EXCEPT ![t] = "none"]
          /\ switching' = [switching EXCEPT ![t] = "none"] /\ post' = [post EXCEPT ![t] = "none"]
      BY <2>2 DEF Load
    <3>3. QED
      BY <2>1, <3>1, <3>2, MountTypes DEF PagesType
  <2>3. CASE Navigate(t)
    <3>1. UNCHANGED <<mode, badge, switching, post, vertical>>
      BY <2>3 DEF Navigate
    <3>2. QED
      BY <2>1, <3>1, MountTypes DEF PagesType
  <2>4. QED
    BY <1>1, <2>2, <2>3
<1>2. ASSUME NEW t \in Tab, BadgeRead(t) \/ PageModeRead(t) PROVE PagesType'
  <2>1. badge' \in [Tab -> Mode \cup {"none"}]
    BY <1>2 DEF BadgeRead, PageModeRead, PagesType, Mode
  <2>2. UNCHANGED <<mode, switching, post, answered, shown, fetch, body, vertical>>
    BY <1>2 DEF BadgeRead, PageModeRead
  <2>3. QED
    BY <2>1, <2>2 DEF PagesType
<1>3. ASSUME NEW t \in Tab, (\E m \in Mode : SwitchTo(t, m)) \/ SetMode(t) \/ SwitchFails(t)
      PROVE  PagesType'
  <2>1. mode' \in Mode
    <3>1. CASE UNCHANGED mode
      BY <3>1 DEF PagesType
    <3>2. CASE mode' = switching[t] /\ post[t] = "sent"
      BY <3>2 DEF PagesType
    <3>3. QED
      BY <1>3, <3>1, <3>2 DEF SwitchTo, SetMode, SwitchFails
  <2>2. /\ switching' \in [Tab -> Mode \cup {"none"}]
        /\ post' \in [Tab -> {"none", "sent", "rejected", "ok"}]
        /\ \A u \in Tab : switching'[u] = "none" <=> post'[u] = "none"
    <3>1. CASE \E m \in Mode : SwitchTo(t, m)
      <4>1. PICK m \in Mode : /\ switching' = [switching EXCEPT ![t] = m]
                             /\ post' = [post EXCEPT ![t] = "sent"]
        BY <3>1 DEF SwitchTo
      <4>2. m # "none"
        BY DEF Mode
      <4>3. QED
        BY <4>1, <4>2 DEF PagesType
    <3>2. CASE SwitchFails(t)
      BY <3>2 DEF SwitchFails, PagesType
    <3>3. CASE SetMode(t)
      <4>1. /\ switching' = switching /\ post[t] = "sent"
            /\ post' = [post EXCEPT ![t] = "ok"] \/ post' = [post EXCEPT ![t] = "rejected"]
        BY <3>3 DEF SetMode
      <4>2. QED
        BY <4>1 DEF PagesType
    <3>4. QED
      BY <1>3, <3>1, <3>2, <3>3
  <2>3. UNCHANGED <<badge, answered, shown, fetch, body, vertical>>
    BY <1>3 DEF SwitchTo, SetMode, SwitchFails
  <2>4. QED
    BY <2>1, <2>2, <2>3 DEF PagesType
<1>4. ASSUME NEW m \in Mode, StraySetMode(m) PROVE PagesType'
  BY <1>4 DEF StraySetMode, PagesType
<1>5. ASSUME NEW t \in Tab, (\E v \in Vertical : SelectVertical(t, v)) \/ DataHandled(t) \/ DataArrives(t)
      PROVE  PagesType'
  <2>1. UNCHANGED <<mode, badge, switching, post, answered, shown>>
    BY <1>5 DEF SelectVertical, DataHandled, DataArrives
  <2>2. vertical' \in [Tab -> Vertical]
    BY <1>5 DEF SelectVertical, DataHandled, DataArrives, PagesType
  <2>3. fetch' \in [Tab -> Mode \cup {"none", "sent", "error"}]
    <3>1. FirstFetch(page[t]) \in {"none", "sent"}
      BY DEF FirstFetch
    <3>2. PICK by \in Mode \cup {"none", "sent", "error"} : fetch' = [fetch EXCEPT ![t] = by]
      <4>1. CASE \E v \in Vertical : SelectVertical(t, v)
        BY <3>1, <4>1 DEF SelectVertical
      <4>2. CASE DataHandled(t)
        BY <4>2 DEF DataHandled, PagesType
      <4>3. CASE DataArrives(t)
        BY <4>3 DEF DataArrives
      <4>4. QED
        BY <1>5, <4>1, <4>2, <4>3
    <3>3. QED
      BY <3>2 DEF PagesType
  <2>4. body' \in [Tab -> [of : Vertical \cup {"none"}, by : Mode \cup {"none", "error"}]]
    <3>1. CASE UNCHANGED body
      BY <3>1 DEF PagesType
    <3>2. CASE DataArrives(t)
      <4>1. Arrived(t) \in Mode \cup {"none", "error"} /\ vertical[t] \in Vertical
        BY DEF PagesType, Arrived
      <4>2. [of |-> vertical[t], by |-> Arrived(t)]
              \in [of : Vertical \cup {"none"}, by : Mode \cup {"none", "error"}]
        BY <4>1
      <4>3. body' = body \/ body' = [body EXCEPT ![t] = [of |-> vertical[t], by |-> Arrived(t)]]
        BY <3>2 DEF DataArrives
      <4>4. QED
        BY <4>2, <4>3 DEF PagesType
    <3>3. QED
      BY <1>5, <3>1, <3>2 DEF SelectVertical, DataHandled
  <2>5. QED
    BY <2>1, <2>2, <2>3, <2>4 DEF PagesType
<1>6. ASSUME NEW t \in Tab, Ask(t) \/ ClickExample(t) \/ BothAnswered(t) \/ AskFails(t)
      PROVE  PagesType'
  <2>1. UNCHANGED <<mode, badge, switching, post, vertical, fetch, body>>
    BY <1>6 DEF Ask, ClickExample, BothAnswered, AskFails
  <2>2. \A by \in {"none", "sent"} : Each(by) \in [Pane -> {by}]
    BY DEF Each
  <2>3. answered' \in [Tab -> [Pane -> Mode \cup {"none", "sent", "error"}]]
    <3>1. CASE UNCHANGED answered
      BY <3>1 DEF PagesType
    <3>2. CASE answered' = [answered EXCEPT ![t] = Each("none")] \/ answered' = [answered EXCEPT ![t] = Each("sent")]
      BY <2>2, <3>2 DEF PagesType
    <3>3. QED
      BY <1>6, <3>1, <3>2 DEF Ask, ClickExample, BothAnswered, AskFails
  <2>4. shown' \in [Tab -> [Pane -> Mode \cup {"none", "error"}]]
    <3>1. CASE shown' = [shown EXCEPT ![t] = Each("none")]
      BY <2>2, <3>1 DEF PagesType
    <3>2. CASE UNCHANGED shown
      BY <3>2 DEF PagesType
    <3>3. CASE BothAnswered(t)
      <4>1. answered[t] \in [Pane -> Mode \cup {"error"}]
        BY <3>3 DEF BothAnswered, PagesType
      <4>2. shown' = [shown EXCEPT ![t] = answered[t]]
        BY <3>3 DEF BothAnswered
      <4>3. QED
        BY <4>1, <4>2 DEF PagesType
    <3>4. QED
      BY <1>6, <3>1, <3>2, <3>3 DEF Ask, ClickExample, AskFails
  <2>5. QED
    BY <2>1, <2>3, <2>4 DEF PagesType
<1>7. ASSUME NEW t \in Tab, NEW p \in Pane, QueryHandled(t, p) PROVE PagesType'
  <2> DEFINE by == IF Buildable(mode) THEN mode ELSE "error"
  <2>1. /\ UNCHANGED <<mode, badge, switching, post, vertical, shown, fetch, body>>
        /\ answered' = [answered EXCEPT ![t][p] = by] /\ by \in Mode \cup {"error"}
    BY <1>7 DEF QueryHandled, PagesType
  <2>2. [answered[t] EXCEPT ![p] = by] \in [Pane -> Mode \cup {"none", "sent", "error"}]
    BY <2>1 DEF PagesType
  <2>3. answered' \in [Tab -> [Pane -> Mode \cup {"none", "sent", "error"}]]
    BY <2>1, <2>2 DEF PagesType
  <2>4. QED
    BY <2>1, <2>3 DEF PagesType
<1>8. CASE UNCHANGED pagesVars
  BY <1>8 DEF pagesVars, PagesType
<1>9. QED
  BY <1>1, <1>2, <1>3, <1>4, <1>5, <1>6, <1>7, <1>8 DEF PagesNext, Switched

\* With one tab and no lost answer, the page stays in step with the server.
LEMMA InStepStep ==
    ASSUME NEW tab, Tab = {tab}
    PROVE  PagesType /\ ~lossy /\ stray = {} /\ InStep(tab) /\ [Next]_vars
             => ~lossy' /\ stray' = {} /\ InStep(tab)'
<1> SUFFICES ASSUME PagesType, ~lossy, stray = {}, InStep(tab), [PagesNext]_pagesVars
             PROVE  ~lossy' /\ stray' = {} /\ InStep(tab)'
  BY OnePartMoves
<1> USE DEF serverVars, badgeVars, askVars, dataVars, pageVars, pagesVars
<1>1. ASSUME Load(tab) PROVE ~lossy' /\ stray' = {} /\ InStep(tab)'
  <2>1. Mount(tab, Closed(page[tab])) /\ UNCHANGED <<mode, lossy>>
    BY <1>1 DEF Load
  <2>2. badge'[tab] = "none" /\ post'[tab] = "none" /\ stray' = {}
    BY <1>1 DEF Load, PagesType
  <2>3. /\ \A p \in Pane : answered'[tab][p] = "none" /\ shown'[tab][p] = "none"
        /\ fetch'[tab] \in {"none", "sent"} /\ body'[tab].by = "none"
    BY <2>1, MountTypes DEF Each, NoBody
  <2>4. QED
    BY <2>1, <2>2, <2>3 DEF InStep
<1>2. ASSUME Navigate(tab) PROVE ~lossy' /\ stray' = {} /\ InStep(tab)'
  <2>1. PICK p : Mount(tab, p)
    BY <1>2 DEF Navigate
  <2>2. UNCHANGED <<mode, lossy, badge, post, stray>>
    BY <1>2 DEF Navigate
  <2>3. /\ \A q \in Pane : answered'[tab][q] = "none" /\ shown'[tab][q] = "none"
        /\ fetch'[tab] \in {"none", "sent"} /\ body'[tab].by = "none"
    BY <2>1, MountTypes DEF Each, NoBody
  <2>4. QED
    BY <2>2, <2>3 DEF InStep
<1>3. ASSUME BadgeRead(tab) \/ PageModeRead(tab) PROVE ~lossy' /\ stray' = {} /\ InStep(tab)'
  <2>1. UNCHANGED <<mode, lossy, post, stray, answered, shown, fetch, body>>
    BY <1>3 DEF BadgeRead, PageModeRead
  <2>2. badge'[tab] = badge[tab] \/ (badge[tab] = "none" /\ badge'[tab] = mode)
    BY <1>3 DEF BadgeRead, PageModeRead, PagesType
  <2>3. QED
    BY <2>1, <2>2 DEF InStep, PagesType, Mode
<1>4. ASSUME NEW m \in Mode, SwitchTo(tab, m) PROVE ~lossy' /\ stray' = {} /\ InStep(tab)'
  <2>1. UNCHANGED <<mode, lossy, badge, stray, answered, shown, fetch, body>>
    BY <1>4 DEF SwitchTo
  <2>2. badge[tab] # "none" /\ post[tab] = "none"
    BY <1>4 DEF SwitchTo, PagesType
  <2>3. QED
    BY <2>1, <2>2 DEF InStep
<1>5. ASSUME SetMode(tab) PROVE ~lossy' /\ stray' = {} /\ InStep(tab)'
  <2>1. UNCHANGED <<lossy, badge, stray, answered, shown, fetch, body>> /\ post[tab] = "sent"
    BY <1>5 DEF SetMode
  <2>2. post'[tab] = "ok" \/ (post'[tab] = "rejected" /\ mode' = mode)
    BY <1>5 DEF SetMode, PagesType
  <2>3. QED
    BY <2>1, <2>2 DEF InStep
<1>6. ASSUME SwitchFails(tab) PROVE ~lossy' /\ stray' = {} /\ InStep(tab)'
  <2>1. UNCHANGED <<mode, lossy, badge, stray, answered, shown, fetch, body>>
    BY <1>6 DEF SwitchFails
  <2>2. post[tab] = "rejected" /\ post'[tab] = "none"
    BY <1>6 DEF SwitchFails, PagesType
  <2>3. QED
    BY <2>1, <2>2 DEF InStep
<1>7. ASSUME (\E v \in Vertical : SelectVertical(tab, v)) \/ DataHandled(tab) \/ DataArrives(tab)
      PROVE  ~lossy' /\ stray' = {} /\ InStep(tab)'
  <2>1. UNCHANGED <<mode, lossy, badge, post, stray, answered, shown>>
    BY <1>7 DEF SelectVertical, DataHandled, DataArrives
  <2>2. /\ fetch'[tab] \in {"none", "sent", "error", mode}
        /\ body'[tab] = body[tab] \/ (fetch[tab] # "sent" /\ body'[tab].by = fetch[tab])
    <3>1. CASE \E v \in Vertical : SelectVertical(tab, v)
      BY <3>1 DEF SelectVertical, FirstFetch, PagesType
    <3>2. CASE DataHandled(tab)
      BY <3>2 DEF DataHandled, PagesType
    <3>3. CASE DataArrives(tab)
      <4>1. fetch[tab] \notin {"none", "sent"}
        BY <3>3 DEF DataArrives
      <4>2. \/ body' = body
            \/ body' = [body EXCEPT ![tab] = [of |-> vertical[tab], by |-> fetch[tab]]]
        BY <3>3, <4>1 DEF DataArrives, Arrived
      <4>3. fetch' = [fetch EXCEPT ![tab] = "none"]
        BY <3>3 DEF DataArrives
      <4>4. QED
        BY <4>1, <4>2, <4>3 DEF PagesType
    <3>4. QED
      BY <1>7, <3>1, <3>2, <3>3
  <2>3. QED
    BY <2>1, <2>2 DEF InStep
<1>8. ASSUME Ask(tab) \/ ClickExample(tab) \/ AskFails(tab)
      PROVE  ~lossy' /\ stray' = {} /\ InStep(tab)'
  <2>1. UNCHANGED <<mode, lossy, badge, post, stray, fetch, body>>
    BY <1>8 DEF Ask, ClickExample, AskFails
  <2>2. \A p \in Pane : Each("none")[p] = "none" /\ Each("sent")[p] = "sent"
    BY DEF Each
  <2>3. \/ answered'[tab] = answered[tab]
        \/ answered'[tab] = Each("none") \/ answered'[tab] = Each("sent")
    BY <1>8 DEF Ask, ClickExample, AskFails, PagesType
  <2>4. shown'[tab] = shown[tab] \/ shown'[tab] = Each("none")
    BY <1>8 DEF Ask, ClickExample, AskFails, PagesType
  <2>5. QED
    BY <2>1, <2>2, <2>3, <2>4 DEF InStep
<1>9. ASSUME NEW p \in Pane, QueryHandled(tab, p) PROVE ~lossy' /\ stray' = {} /\ InStep(tab)'
  <2> DEFINE by == IF Buildable(mode) THEN mode ELSE "error"
  <2>1. UNCHANGED <<mode, lossy, badge, post, stray, shown, fetch, body>>
    BY <1>9 DEF QueryHandled
  <2>2. answered' = [answered EXCEPT ![tab][p] = by] /\ by \in {"error", mode}
    BY <1>9 DEF QueryHandled
  <2>3. answered[tab] \in [Pane -> Mode \cup {"none", "sent", "error"}] /\ tab \in DOMAIN answered
    BY DEF PagesType
  <2>4. \A q \in Pane : answered'[tab][q] = IF q = p THEN by ELSE answered[tab][q]
    BY <2>2, <2>3
  <2>5. QED
    BY <2>1, <2>2, <2>4 DEF InStep
<1>10. ASSUME BothAnswered(tab) PROVE ~lossy' /\ stray' = {} /\ InStep(tab)'
  <2>1. UNCHANGED <<mode, lossy, badge, post, stray, fetch, body>>
    BY <1>10 DEF BothAnswered
  <2>2. \A p \in Pane : answered[tab][p] \notin {"none", "sent"}
    BY <1>10 DEF BothAnswered
  <2>3. shown'[tab] = answered[tab] /\ answered'[tab] = Each("none")
    BY <1>10 DEF BothAnswered, PagesType
  <2>4. \A p \in Pane : Each("none")[p] = "none"
    BY DEF Each
  <2>5. QED
    BY <2>1, <2>2, <2>3, <2>4 DEF InStep
<1>11. CASE UNCHANGED pagesVars
  BY <1>11 DEF InStep
<1>12. CASE \E m \in Mode : StraySetMode(m)
  BY <1>12 DEF StraySetMode
<1>13. QED
  BY <1>1, <1>2, <1>3, <1>4, <1>5, <1>6, <1>7, <1>8, <1>9, <1>10, <1>11, <1>12 DEF PagesNext, Switched

\* The dialog shows the schema of another vertical only while it waits, or
\* beside an error.
DialogInv ==
    /\ page \in [Tab -> {"query", "data", "dialog"}] /\ failed \in [Tab -> BOOLEAN]
    /\ \A t \in Tab :
         body[t].of \in {"none", vertical[t]} \/ page[t] # "dialog" \/ DialogIsBehind(t)

LEMMA DialogStep == PagesType /\ DialogInv /\ [Next]_vars => DialogInv'
<1> SUFFICES ASSUME PagesType, DialogInv, [PagesNext]_pagesVars PROVE DialogInv'
  BY OnePartMoves
<1> USE DEF serverVars, badgeVars, askVars, dataVars, pageVars, DialogInv, DialogIsBehind
<1>1. ASSUME NEW t \in Tab, Load(t) \/ Navigate(t) PROVE DialogInv'
  <2>1. PICK p : Mount(t, p) /\ page' = [page EXCEPT ![t] = p] /\ p \in {"query", "data", "dialog"}
    BY <1>1 DEF Load, Navigate, Closed
  <2>2. \A u \in Tab \ {t} : vertical'[u] = vertical[u]
    BY <1>1 DEF Load, Navigate, PagesType
  <2>3. /\ body' = [body EXCEPT ![t] = NoBody] /\ fetch' = [fetch EXCEPT ![t] = FirstFetch(p)]
        /\ failed' = [failed EXCEPT ![t] = FALSE]
    BY <2>1 DEF Mount
  <2>4. body'[t].of = "none" /\ \A u \in Tab \ {t} : body'[u] = body[u] /\ fetch'[u] = fetch[u]
    BY <2>3 DEF PagesType, NoBody
  <2>5. QED
    BY <2>1, <2>2, <2>3, <2>4
<1>2. ASSUME NEW t \in Tab, NEW v \in Vertical, SelectVertical(t, v) PROVE DialogInv'
  <2>1. page[t] = "dialog" => fetch'[t] = "sent"
    BY <1>2 DEF SelectVertical, FirstFetch, PagesType
  <2>2. /\ UNCHANGED <<page, body, failed>>
        /\ \A u \in Tab \ {t} : vertical'[u] = vertical[u] /\ fetch'[u] = fetch[u]
    BY <1>2 DEF SelectVertical, PagesType
  <2>3. QED
    BY <2>1, <2>2
<1>3. ASSUME NEW t \in Tab, DataHandled(t) PROVE DialogInv'
  <2>1. /\ UNCHANGED <<page, body, vertical, failed>> /\ fetch'[t] # "none"
        /\ \A u \in Tab \ {t} : fetch'[u] = fetch[u]
    BY <1>3 DEF DataHandled, PagesType, Mode
  <2>2. QED
    BY <2>1
<1>4. ASSUME NEW t \in Tab, DataArrives(t) PROVE DialogInv'
  <2>1. UNCHANGED <<page, vertical>> /\ \A u \in Tab \ {t} : fetch'[u] = fetch[u]
    BY <1>4 DEF DataArrives, PagesType
  <2>2. CASE failed' = [failed EXCEPT ![t] = TRUE] /\ UNCHANGED body
    BY <2>1, <2>2
  <2>3. CASE body' = [body EXCEPT ![t] = [of |-> vertical[t], by |-> Arrived(t)]] /\ UNCHANGED failed
    BY <2>1, <2>3 DEF PagesType
  <2>4. QED
    BY <1>4, <2>2, <2>3 DEF DataArrives
<1>5. CASE UNCHANGED <<page, vertical, fetch, body, failed>>
  BY <1>5
<1>6. QED
  BY <1>1, <1>2, <1>3, <1>4, <1>5 DEF PagesNext, Switched, StraySetMode, BadgeRead, PageModeRead,
     SwitchTo, SetMode, SwitchFails, Ask, ClickExample, QueryHandled, BothAnswered, AskFails, pagesVars

\* Where the proofs of the next two theorems start from: as long as nothing is
\* lost, which is settled at the start.
LEMMA OneTabInStep ==
    ASSUME NEW tab, Tab = {tab}
    PROVE  Spec => [](PagesType /\ DialogInv /\ (lossy \/ (stray = {} /\ InStep(tab))))
<1> DEFINE Told == stray = {} /\ InStep(tab)
<1>1. Init => PagesType /\ DialogInv /\ Told
  <2> SUFFICES ASSUME PagesInit PROVE PagesType /\ DialogInv /\ Told
    BY DEF Init, PagesAtRest
  <2>1. PagesType
    BY DEF PagesInit, PagesType, Mode, Each, NoBody, FirstFetch
  <2>2. Told
    BY DEF PagesInit, InStep, Each, NoBody, FirstFetch
  <2>3. DialogInv
    BY DEF PagesInit, DialogInv, NoBody
  <2>4. QED
    BY <2>1, <2>2, <2>3
<1>2. lossy /\ [Next]_vars => lossy'
  <2> SUFFICES ASSUME lossy, [PagesNext]_pagesVars PROVE lossy'
    BY OnePartMoves
  <2> USE DEF serverVars, pagesVars
  <2>1. QED
    BY DEF PagesNext, StraySetMode, Load, Navigate, BadgeRead, PageModeRead, SwitchTo, SetMode,
           Switched, SwitchFails, SelectVertical, Ask, ClickExample, QueryHandled, BothAnswered,
           AskFails, DataHandled, DataArrives
<1>3. PagesType /\ ~lossy /\ Told /\ [Next]_vars => ~lossy' /\ Told'
  BY InStepStep
<1>4. PagesType /\ (lossy \/ Told) /\ [Next]_vars => (lossy \/ Told)'
  BY <1>2, <1>3
<1>5. QED
  BY <1>1, <1>4, PagesTypeStep, DialogStep, PTL DEF Spec

\* With one tab and no lost answer, a badge that is not switching names the mode
\* of the server (fidelity-badge.tsx, provider registry), for any verticals.
THEOREM BadgeFollowsServer ==
    ASSUME NEW tab, Tab = {tab}
    PROVE  Spec => []SettledBadgeIsRight
<1>1. PagesType /\ (lossy \/ (stray = {} /\ InStep(tab))) => SettledBadgeIsRight
  <2> SUFFICES ASSUME PagesType, ~lossy, InStep(tab), Settled(tab) PROVE badge[tab] = mode
    BY DEF SettledBadgeIsRight
  <2>1. post[tab] = "none" /\ badge[tab] # "none"
    BY DEF Settled, PagesType
  <2>2. QED
    BY <2>1 DEF InStep
<1>2. QED
  BY <1>1, OneTabInStep, PTL

\* Such a tab shows nothing of another mode than its badge names, nor of another
\* vertical than it names, whatever was under way when the mode, the page or the
\* vertical changed; the schema dialog alone may be behind, while it waits or
\* beside an error (console/query/page.tsx, sources/page.tsx, the data hooks).
THEOREM PagesFollowBadge ==
    ASSUME NEW tab, Tab = {tab}
    PROVE  Spec => []PageMatchesBadge
<1>1. PagesType /\ DialogInv /\ (lossy \/ (stray = {} /\ InStep(tab))) => PageMatchesBadge
  <2> SUFFICES ASSUME PagesType, DialogInv, ~lossy, InStep(tab), Settled(tab)
               PROVE  /\ \A p \in Pane : shown[tab][p] \in {"none", "error", badge[tab]}
                      /\ Displayed(tab).by \in {"none", "error", badge[tab]}
                      /\ Displayed(tab).of \in {"none", vertical[tab]} \/ DialogIsBehind(tab)
    BY DEF PageMatchesBadge
  <2>1. post[tab] = "none" /\ badge[tab] # "none"
    BY DEF Settled, PagesType
  <2>2. badge[tab] = mode
    BY <2>1 DEF InStep
  <2>3. \A p \in Pane : shown[tab][p] \in {"none", "error", badge[tab]}
    BY <2>1, <2>2 DEF InStep
  <2>4. body[tab].by \in {"none", "error", badge[tab]}
    BY <2>1, <2>2 DEF InStep
  <2>5. NoBody.by = "none" /\ NoBody.of = "none"
    BY DEF NoBody
  <2>6. Displayed(tab).by \in {"none", "error", badge[tab]}
    BY <2>4, <2>5 DEF Displayed
  <2>7. Displayed(tab).of \in {"none", vertical[tab]} \/ DialogIsBehind(tab)
    BY <2>5 DEF Displayed, DialogInv
  <2>8. QED
    BY <2>3, <2>6, <2>7
<1>2. QED
  BY <1>1, OneTabInStep, PTL

-----------------------------------------------------------------------------
(* The flow of an answer and its explainer *)

\* The two results are there together, and say of errors what the page does; the
\* timers that are set are those of the phases to come, and the explainer that was
\* never opened has never played.
FlowInv ==
    /\ vectorRes \in Outcome \cup {"null"} /\ graphRes \in Outcome \cup {"null"}
    /\ vectorErr \in BOOLEAN /\ graphErr \in BOOLEAN
    /\ running \in BOOLEAN /\ replaying \in BOOLEAN
    /\ vectorRes = "null" <=> graphRes = "null"
    /\ running => vectorRes = "null" /\ ~vectorErr /\ ~graphErr
    /\ vectorRes # "null" => /\ vectorErr <=> vectorRes = "error"
                             /\ graphErr <=> graphRes = "error"

TimersInv ==
    /\ phase \in 0 .. Done
    /\ open \in BOOLEAN /\ autoPlayed \in BOOLEAN
    /\ playing \in BOOLEAN /\ (playing <=> phase # Done)
    /\ timers \in {{}, phase + 1 .. Done}
    /\ timers # {} => open /\ playing
    /\ ~autoPlayed => ~open /\ ~playing

\* The two results come and go together, and with them their errors.
LEMMA ResultsStep == FlowInv /\ [Next]_vars => FlowInv'
<1> SUFFICES ASSUME FlowInv, [FlowNext]_flowVars PROVE FlowInv'
  BY OnePartMoves
<1> USE DEF FlowInv, resultVars, explainerVars, flowVars, Outcome
<1>1. CASE RunQuery
  BY <1>1 DEF RunQuery
<1>2. CASE ResultsArrive
  BY <1>2 DEF ResultsArrive
<1>3. CASE RequestFails
  BY <1>3 DEF RequestFails
<1>4. CASE PickExample
  BY <1>4 DEF PickExample
<1>5. CASE Replay \/ ReplayEnds
  <2>1. UNCHANGED <<vectorRes, graphRes, vectorErr, graphErr, running>> /\ replaying' \in BOOLEAN
    BY <1>5 DEF Replay, ReplayEnds
  <2>2. QED
    BY <2>1
<1>6. CASE Toggle \/ PlayAgain \/ Advance \/ UNCHANGED flowVars
  BY <1>6 DEF Toggle, PlayAgain, Advance
<1>7. QED
  BY <1>1, <1>2, <1>3, <1>4, <1>5, <1>6 DEF FlowNext

\* Timers run while the explainer is open, and stop when it is closed.
LEMMA TimersStep == TimersInv /\ [Next]_vars => TimersInv'
<1> SUFFICES ASSUME TimersInv, [FlowNext]_flowVars PROVE TimersInv'
  BY OnePartMoves
<1> USE DEF TimersInv, Done
<1>1. CASE RunQuery \/ ResultsArrive \/ RequestFails \/ PickExample \/ Replay \/ ReplayEnds
           \/ UNCHANGED flowVars
  BY <1>1 DEF RunQuery, ResultsArrive, RequestFails, PickExample, Replay, ReplayEnds,
              resultVars, explainerVars, flowVars
<1>2. CASE Toggle
  <2>1. open' \in BOOLEAN /\ autoPlayed' = TRUE
    BY <1>2 DEF Toggle
  <2>2. CASE phase' = 0 /\ playing' = TRUE /\ timers' = 1 .. Done /\ open'
    BY <2>1, <2>2
  <2>3. CASE timers' = {} /\ UNCHANGED <<phase, playing>>
    BY <2>1, <2>3
  <2>4. QED
    BY <1>2, <2>2, <2>3 DEF Toggle, play
<1>3. CASE PlayAgain
  BY <1>3 DEF PlayAgain, play
<1>4. CASE Advance
  <2>1. PICK i \in timers :
          /\ \A j \in timers : i <= j
          /\ phase' = i
          /\ playing' = (playing /\ i # Done)
          /\ timers' = timers \ {i}
    BY <1>4 DEF Advance
  <2>2. timers = phase + 1 .. Done /\ playing /\ open' = open
    BY <1>4, <2>1 DEF Advance
  <2>3. i = phase + 1
    BY <2>1, <2>2
  <2>4. timers' = phase' + 1 .. Done
    BY <2>1, <2>2, <2>3
  <2>5. phase' \in 0 .. Done /\ open' \in BOOLEAN /\ autoPlayed' \in BOOLEAN
    BY <1>4, <2>1, <2>2, <2>3 DEF Advance
  <2>6. playing' \in BOOLEAN
    BY <2>1
  <2>7. playing' <=> phase' # Done
    <3>1. CASE phase' = Done
      <4>1. ~playing'
        BY <2>1, <3>1
      <4>2. QED
        BY <3>1, <4>1
    <3>2. CASE phase' # Done
      <4>1. playing'
        BY <2>1, <2>2, <3>2
      <4>2. QED
        BY <3>2, <4>1
    <3>3. QED
      BY <3>1, <3>2
  <2>8. timers' # {} => playing' /\ open'
    <3> SUFFICES ASSUME timers' # {} PROVE playing' /\ open'
      OBVIOUS
    <3>1. phase' # Done
      BY <2>4, <2>5
    <3>2. open'
      BY <2>1, <2>2
    <3>3. QED
      BY <2>7, <3>1, <3>2
  <2>9. autoPlayed'
    BY <1>4, <2>2 DEF Advance
  <2>10. QED
    BY <2>4, <2>5, <2>6, <2>7, <2>8, <2>9
<1>5. QED
  BY <1>1, <1>2, <1>3, <1>4 DEF FlowNext

\* What the flow, the explainer and the panes say of a path whose result is there.
LEMMA PathStates ==
    ASSUME FlowInv, ~Animating, vectorRes # "null"
    PROVE  /\ VectorState = IF vectorRes = "error" THEN "error"
                            ELSE IF vectorRes = "grounded" THEN "used" ELSE "unused"
           /\ GraphState = IF graphRes = "error" THEN "error"
                           ELSE IF graphRes \in Answers THEN "used" ELSE "unused"
           /\ vectorUsed = IF vectorRes = "grounded" THEN "used" ELSE "notUsed"
           /\ graphUsed = IF graphRes \in Answers THEN "used" ELSE "notUsed"
           /\ VectorPane = IF vectorRes = "error" THEN "error"
                           ELSE IF vectorRes \in Answers THEN "answer" ELSE "note"
           /\ GraphPane = "answer" <=> graphRes \in Answers
BY DEF FlowInv, VectorState, GraphState, statusFor, VectorContributed, GraphContributed,
       vectorUsed, graphUsed, Used, Animating, Answers, VectorPane, GraphPane

\* The marks of a flow at rest fit the panes.
LEMMA MarksFit == FlowInv => MarksFitPanes
<1> SUFFICES ASSUME FlowInv, FlowShown, ~Animating
             PROVE  /\ VectorState = "used" => VectorPane = "answer"
                    /\ VectorState = "error" <=> VectorPane = "error"
                    /\ VectorState = "unused" /\ VectorPane = "answer" <=> vectorRes = "unsourced"
                    /\ GraphState = "used" <=> GraphPane = "answer"
                    /\ legend.grounds = {} =>
                         GraphPane # "answer" /\ (VectorPane = "answer" => vectorRes = "unsourced")
                    /\ legend.grounds \cup legend.notUsed = {"vector", "graph"}
                    /\ phase = Done => (synthTone = "done" <=> FlowStep(4) = "done")
  BY DEF MarksFitPanes
<1>1. vectorRes # "null" /\ graphRes # "null" /\ ~running
  BY DEF FlowShown, Animating, FlowInv
<1>2. /\ VectorState \in {"used", "error", "unused"} /\ GraphState \in {"used", "error", "unused"}
      /\ vectorUsed = IF VectorState = "used" THEN "used" ELSE "notUsed"
      /\ graphUsed = IF GraphState = "used" THEN "used" ELSE "notUsed"
  BY <1>1, PathStates DEF Answers
<1>3. /\ VectorState = "used" => VectorPane = "answer"
      /\ VectorState = "error" <=> VectorPane = "error"
      /\ VectorState = "unused" /\ VectorPane = "answer" <=> vectorRes = "unsourced"
      /\ VectorState # "used" => (VectorPane = "answer" => vectorRes = "unsourced")
  BY <1>1, PathStates DEF Answers
<1>4. GraphState = "used" <=> GraphPane = "answer"
  BY <1>1, PathStates DEF Answers
<1>5. anyUsed = IF "used" \in {VectorState, GraphState} THEN "used" ELSE "notUsed"
  BY <1>2 DEF anyUsed
<1>6. synthTone = "done" <=> "used" \in {VectorState, GraphState}
  BY <1>1 DEF synthTone, FlowDone
<1>7. phase = Done => (FlowStep(4) = "done" <=> anyUsed # "notUsed")
  BY DEF FlowStep, Done
<1>8. /\ legend.grounds = {path \in {"vector", "graph"} :
                (IF path = "vector" THEN VectorState ELSE GraphState) = "used"}
      /\ legend.notUsed = {path \in {"vector", "graph"} :
                (IF path = "vector" THEN VectorState ELSE GraphState) \in {"error", "unused"}}
  BY DEF legend
<1>9. ASSUME legend.grounds = {} PROVE VectorState # "used" /\ GraphState # "used"
  <2>1. "vector" \notin legend.grounds /\ "graph" \notin legend.grounds
    BY <1>9
  <2>2. QED
    BY <1>8, <2>1
<1>10. legend.grounds \cup legend.notUsed = {"vector", "graph"}
  BY <1>2, <1>8
<1>11. phase = Done => (synthTone = "done" <=> FlowStep(4) = "done")
  BY <1>5, <1>6, <1>7
<1>12. legend.grounds = {} =>
         GraphPane # "answer" /\ (VectorPane = "answer" => vectorRes = "unsourced")
  BY <1>3, <1>4, <1>9
<1>13. QED
  BY <1>3, <1>4, <1>10, <1>11, <1>12

\* An explainer that was cut short stays so, and only closing it cuts it short.
LEMMA CutShortStays ==
    ASSUME TimersInv, [FlowNext]_flowVars
    PROVE  OnlyClosingCuts
<1> USE DEF TimersInv, CutShort, OnlyClosingCuts
<1>1. CASE RunQuery \/ ResultsArrive \/ RequestFails \/ PickExample \/ Replay \/ ReplayEnds
           \/ UNCHANGED flowVars
  BY <1>1 DEF RunQuery, ResultsArrive, RequestFails, PickExample, Replay, ReplayEnds,
              resultVars, explainerVars, flowVars
<1>2. CASE Toggle
  <2>1. CASE open' /\ ~autoPlayed
    <3>1. timers' = 1 .. Done
      BY <1>2, <2>1 DEF Toggle, play
    <3>2. 1 \in timers' /\ playing' = TRUE
      BY <1>2, <2>1, <3>1 DEF Toggle, play, Done
    <3>3. ~CutShort
      BY <2>1
    <3>4. QED
      BY <3>2, <3>3
  <2>2. CASE ~(open' /\ ~autoPlayed)
    <3>1. timers' = {} /\ UNCHANGED <<phase, playing>>
      BY <1>2, <2>2 DEF Toggle
    <3>2. open' = ~open /\ (CutShort' => playing)
      BY <1>2, <3>1 DEF Toggle
    <3>3. CutShort => UNCHANGED <<phase, playing, timers>>
      BY <3>1
    <3>4. CutShort' => CutShort \/ (open /\ ~open')
      <4>1. CASE timers = {}
        BY <3>2, <4>1
      <4>2. CASE timers # {}
        BY <3>2, <4>2
      <4>3. QED
        BY <4>1, <4>2
    <3>5. QED
      BY <3>3, <3>4
  <2>3. QED
    BY <2>1, <2>2
<1>3. CASE PlayAgain
  <2>1. ~playing /\ 1 \in timers'
    BY <1>3 DEF PlayAgain, play, Done
  <2>2. QED
    BY <2>1
<1>4. CASE Advance
  <2>1. PICK i \in timers : /\ \A j \in timers : i <= j
                            /\ playing' = (playing /\ i # Done) /\ timers' = timers \ {i}
    BY <1>4 DEF Advance
  <2>2. timers # {} /\ timers = phase + 1 .. Done
    BY <2>1
  <2>3. i # Done => Done \in timers'
    BY <2>1, <2>2 DEF Done
  <2>4. QED
    BY <2>1, <2>2, <2>3
<1>5. QED
  BY <1>1, <1>2, <1>3, <1>4 DEF FlowNext

\* What the page says of an answer fits the answers it shows, and the explainer
\* ends unless it is closed while it plays, which stops it for good
\* (answer-flow.tsx, how-it-works.tsx).
THEOREM FlowAndExplainerAgree == Spec => FlowIsHonest
<1>1. Init => FlowInv /\ TimersInv
  <2> SUFFICES ASSUME FlowInit PROVE FlowInv /\ TimersInv
    BY DEF Init
  <2>1. FlowInv
    BY DEF FlowInit, FlowInv
  <2>2. TimersInv
    <3>1. open = FALSE /\ autoPlayed = FALSE /\ playing = FALSE /\ timers = {} /\ phase = Done
      BY DEF FlowInit
    <3>2. phase \in 0 .. Done
      BY <3>1 DEF Done
    <3>3. playing <=> phase # Done
      BY <3>1
    <3>4. QED
      BY <3>1, <3>2, <3>3 DEF TimersInv
  <2>3. QED
    BY <2>1, <2>2
<1>2. FlowInv /\ TimersInv => MarksFitPanes /\ NothingIsOld /\ IsSettling
  <2> SUFFICES ASSUME FlowInv, TimersInv PROVE MarksFitPanes /\ NothingIsOld /\ IsSettling
    OBVIOUS
  <2>1. NothingIsOld
    BY DEF NothingIsOld, FlowInv, synthTone, Animating, VectorPane, GraphPane, Answers
  <2>2. IsSettling
    BY DEF IsSettling, TimersInv, CutShort
  <2>3. QED
    BY <2>1, <2>2, MarksFit
<1>3. TimersInv /\ [Next]_vars => [OnlyClosingCuts]_flowVars
  BY OnePartMoves, CutShortStays
<1>4. QED
  BY <1>1, <1>2, <1>3, ResultsStep, TimersStep, PTL DEF Spec, FlowIsHonest

-----------------------------------------------------------------------------
(* Local vectors *)

VectorType == vector \in [DOMAIN vector -> [by : Backend, similarity : Similarity]]

\* A chunk that has a vector keeps one, of one of the backends.
LEMMA VectorStep == VectorType /\ [Next]_vars => VectorType'
<1> SUFFICES ASSUME VectorType, [SearchNext]_searchVars PROVE VectorType'
  BY OnePartMoves
<1>1. CASE insertChunk
  <2>1. PICK c \in Chunk, by \in Embedders, s \in Similarity :
          vector' = [k \in DOMAIN vector \cup {c} |->
                        IF k = c THEN [by |-> by, similarity |-> s] ELSE vector[k]]
    BY <1>1 DEF insertChunk
  <2>2. by \in Backend
    BY DEF Embedders, Backend
  <2>3. QED
    BY <2>1, <2>2 DEF VectorType
<1>2. CASE SetBackend \/ AskVector \/ UNCHANGED searchVars
  BY <1>2 DEF SetBackend, AskVector, searchVars, VectorType
<1>3. QED
  BY <1>1, <1>2 DEF SearchNext

\* A question passes over a similar chunk only for chunks that are comparable and
\* no less similar (the comment on cosineSimilarity), for any number of chunks and
\* whatever backends embedded them.
THEOREM NoChunkTakesItsPlace == Spec => SimilarChunksWin
<1>1. Init => VectorType
  BY DEF Init, SearchInit, VectorType
<1>2. ASSUME VectorType, [SearchNext]_searchVars, hits' # hits,
             NEW h \in hits', NEW c \in DOMAIN vector \ {k.chunk : k \in hits'},
             vector[c].by = h.by, vector[c].similarity > 0
      PROVE  vector[h.chunk].by = h.by /\ vector[h.chunk].similarity >= vector[c].similarity
  <2>1. AskVector
    BY <1>2 DEF SearchNext, SetBackend, insertChunk, searchVars
  <2>2. PICK by \in Embedders : \E top \in searchChunksByVector(by) :
          hits' = {[chunk |-> d, by |-> by] : d \in top}
    BY <2>1 DEF AskVector
  <2>3. PICK top \in searchChunksByVector(by) : hits' = {[chunk |-> d, by |-> by] : d \in top}
    BY <2>2
  <2>4. h.by = by /\ h.chunk \in top
    BY <1>2, <2>3
  <2>5. c \notin top
    <3> SUFFICES ASSUME c \in top PROVE c \in {k.chunk : k \in hits'}
      BY <1>2
    <3>1. [chunk |-> c, by |-> by] \in hits'
      BY <2>3
    <3>2. [chunk |-> c, by |-> by].chunk = c
      OBVIOUS
    <3>3. QED
      BY <3>1, <3>2
  <2>6. /\ top \subseteq DOMAIN vector
        /\ \A a \in top, b \in DOMAIN vector \ top :
             cosineSimilarity(by, vector[a]) >= cosineSimilarity(by, vector[b])
    BY <2>3 DEF searchChunksByVector
  <2>7. cosineSimilarity(by, vector[h.chunk]) >= vector[c].similarity
    BY <1>2, <2>4, <2>5, <2>6 DEF cosineSimilarity
  <2>8. vector[c].similarity \in Int /\ vector[h.chunk].similarity \in Int
    BY <1>2, <2>4, <2>6 DEF VectorType, Similarity
  <2>9. QED
    BY <1>2, <2>4, <2>7, <2>8 DEF cosineSimilarity
<1>3. VectorType /\ [Next]_vars =>
        [hits' # hits =>
            \A h \in hits', c \in DOMAIN vector \ {k.chunk : k \in hits'} :
                vector[c].by = h.by /\ vector[c].similarity > 0 =>
                    /\ vector[h.chunk].by = h.by
                    /\ vector[h.chunk].similarity >= vector[c].similarity]_searchVars
  BY <1>2, OnePartMoves
<1>4. QED
  BY <1>1, <1>3, VectorStep, PTL DEF Spec, SimilarChunksWin

-----------------------------------------------------------------------------
(* The chain of a root cause *)

\* The order of the naturals is well-founded: a set of them has a least one.
Below == {p \in Nat \X Nat : p[1] < p[2]}

\* A set of positions has a first one.
LEMMA LeastOf ==
    ASSUME NEW S \in SUBSET Nat, S # {}
    PROVE  Min(S) \in S /\ \A y \in S : Min(S) <= y
<1>0. IsWellFoundedOn(Below, Nat)
  <2>1. OpToRel(<, Nat) = Below
    BY DEF OpToRel, Below
  <2>2. QED
    BY <2>1, NatLessThanWellFounded, Zenon
<1>1. PICK x \in S : \A y \in S : ~(<<y, x>> \in Below)
  BY <1>0, WFMin
<1>2. ASSUME NEW y \in S PROVE x <= y
  <2>1. x \in Nat /\ y \in Nat /\ <<y, x>> \notin Below
    BY <1>1
  <2>2. <<y, x>> \in Nat \X Nat /\ <<y, x>>[1] = y /\ <<y, x>>[2] = x
    BY <2>1
  <2>3. ~(y < x)
    BY <2>1, <2>2 DEF Below
  <2>4. QED
    BY <2>1, <2>3
<1>3. QED
  BY <1>1, <1>2 DEF Min

\* The members of the subgraph are told apart by their ids.
IdsAreUnique ==
    /\ members \in Seq(Candidates)
    /\ \A a, b \in ToSet(members) : a.id = b.id => a = b

\* The first of a set of nodes is a member of it, if any is.
LEMMA FirstOfIsOne ==
    ASSUME IdsAreUnique, NEW set
    PROVE  /\ FirstOf(set) = Nothing \/ FirstOf(set) \in set \cap ToSet(members)
           /\ set \cap ToSet(members) # {} => FirstOf(set) \in set \cap ToSet(members)
<1> DEFINE I == {i \in 1 .. Len(members) : members[i] \in set}
<1>0. members \in Seq(Candidates)
  BY DEF IdsAreUnique
<1>1. CASE I = {}
  <2>1. FirstOf(set) = Nothing
    BY <1>1 DEF FirstOf, SelectInSeq
  <2>2. set \cap ToSet(members) = {}
    BY <1>0, <1>1 DEF ToSet
  <2>3. QED
    BY <2>1, <2>2
<1>2. CASE I # {}
  <2>1. I \in SUBSET Nat
    OBVIOUS
  <2>2. Min(I) \in I
    BY <1>2, <2>1, LeastOf
  <2>3. FirstOf(set) = members[Min(I)]
    BY <1>2, <2>2 DEF FirstOf, SelectInSeq
  <2>4. members[Min(I)] \in set /\ Min(I) \in DOMAIN members
    BY <1>0, <2>2
  <2>5. QED
    BY <2>3, <2>4 DEF ToSet
<1>3. QED
  BY <1>1, <1>2

Link == LET Ids == {n.id : n \in Candidates}
        IN  [source : Ids, relation : {JoinedBy[type] : type \in DOMAIN JoinedBy}, target : Ids]

\* An edge leads to a node that it joins to the start, and to one if any is.
LEMMA FollowedIsJoined ==
    ASSUME IdsAreUnique, links \in Seq(Link), NEW start, NEW relation, NEW type, type # "none",
           NEW Beyond, Beyond = {n \in ToSet(members) :
                                   /\ n.type = type
                                   /\ \E e \in ToSet(links) : /\ e.relation = relation
                                                             /\ {n.id, start} = {e.source, e.target}},
           \A n \in ToSet(members) : n.type = type => n.id # start
    PROVE  /\ followFrom(start, relation, type) \in Beyond \cup {Nothing}
           /\ Beyond # {} => followFrom(start, relation, type) \in Beyond
<1> DEFINE other(e) == IF e.source = start THEN e.target ELSE e.source
           node(e) == FirstOf({n \in ToSet(members) : n.id = other(e)})
           leads(e) == /\ e.relation = relation
                       /\ start \in {e.source, e.target}
                       /\ node(e).type = type
           I == {i \in 1 .. Len(links) : leads(links[i])}
<1>1. CASE I = {}
  <2>1. followFrom(start, relation, type) = Nothing
    BY <1>1 DEF followFrom, SelectInSeq
  <2>2. Beyond = {}
    <3> SUFFICES ASSUME NEW n \in Beyond PROVE FALSE
      OBVIOUS
    <3>0. PICK e \in ToSet(links) : e.relation = relation /\ {n.id, start} = {e.source, e.target}
      OBVIOUS
    <3>1. PICK i \in 1 .. Len(links) : e = links[i]
      BY <3>0 DEF ToSet
    <3>2. other(links[i]) = n.id /\ start \in {links[i].source, links[i].target}
      BY <3>0, <3>1
    <3>3. node(links[i]) \in ToSet(members) /\ node(links[i]).id = n.id
      <4>1. n \in {m \in ToSet(members) : m.id = other(links[i])} \cap ToSet(members)
        BY <3>2
      <4>2. QED
        BY <3>2, <4>1, FirstOfIsOne
    <3>4. node(links[i]) = n
      BY <3>3 DEF IdsAreUnique
    <3>5. leads(links[i])
      BY <3>0, <3>1, <3>2, <3>4
    <3>6. QED
      BY <1>1, <3>5
  <2>3. QED
    BY <2>1, <2>2
<1>2. CASE I # {}
  <2>1. I \in SUBSET Nat
    OBVIOUS
  <2>2. PICK i \in I : i = Min(I)
    BY <1>2, <2>1, LeastOf
  <2>3. followFrom(start, relation, type) = node(links[i])
    <3>1. i # 0
      <4>1. i \in 1 .. Len(links)
        OBVIOUS
      <4>2. Len(links) \in Nat
        OBVIOUS
      <4> HIDE DEF I
      <4>3. QED
        BY <4>1, <4>2
    <3>2. SelectInSeq(links, leads) = i
      BY <1>2, <2>2, Zenon DEF SelectInSeq
    <3>3. followFrom(start, relation, type)
            = IF SelectInSeq(links, leads) = 0 THEN Nothing ELSE node(links[SelectInSeq(links, leads)])
      BY Zenon DEF followFrom
    <3>4. QED
      BY <3>1, <3>2, <3>3
  <2>4. i \in 1 .. Len(links) /\ leads(links[i])
    OBVIOUS
  <2>5. node(links[i]) # Nothing
    BY <2>4 DEF Nothing
  <2>6. node(links[i]) \in ToSet(members) /\ node(links[i]).id = other(links[i])
    BY <2>5, FirstOfIsOne
  <2>7. links[i] \in ToSet(links)
    BY <2>4 DEF ToSet
  <2>8. {node(links[i]).id, start} = {links[i].source, links[i].target}
    BY <2>4, <2>6
  <2>9. node(links[i]) \in Beyond
    BY <2>4, <2>6, <2>7, <2>8
  <2>10. QED
    BY <2>3, <2>9
<1>3. QED
  BY <1>1, <1>2

\* The names of four parts, without those that are not there.
LEMMA ConcatElements ==
    ASSUME NEW S, NEW a \in Seq(S), NEW b \in Seq(S)
    PROVE  a \o b \in Seq(S) /\ ToSet(a \o b) \subseteq ToSet(a) \cup ToSet(b)
BY DEF ToSet

CauseInv ==
    /\ IdsAreUnique
    /\ links \in Seq(Link)

Present(n) == IF n = Nothing THEN <<>> ELSE <<n>>

\* The chain is made of the nodes that were found.
LEMMA ChainElements ==
    ASSUME NEW a, NEW b, NEW c, NEW d
    PROVE  ToSet(Present(a) \o Present(b) \o Present(c) \o Present(d)) \subseteq {a, b, c, d} \ {Nothing}
<1> DEFINE S == {a, b, c, d}
<1>1. ASSUME NEW n \in S PROVE Present(n) \in Seq(S) /\ ToSet(Present(n)) \subseteq {n} \ {Nothing}
  <2>1. CASE n = Nothing
    BY <2>1 DEF ToSet, Present
  <2>2. CASE n # Nothing
    <3>1. Present(n) = <<n>>
      BY <2>2 DEF Present
    <3>2. <<n>> \in Seq(S) /\ ToSet(<<n>>) = {n}
      BY DEF ToSet
    <3>3. QED
      BY <2>2, <3>1, <3>2
  <2>3. QED
    BY <2>1, <2>2
<1>2. a \in S /\ b \in S /\ c \in S /\ d \in S
  OBVIOUS
<1> HIDE DEF S
<1> DEFINE ab == Present(a) \o Present(b)
           abc == ab \o Present(c)
<1>4. ab \in Seq(S) /\ ToSet(ab) \subseteq {a, b} \ {Nothing}
  <2>1. /\ Present(a) \in Seq(S) /\ ToSet(Present(a)) \subseteq {a} \ {Nothing}
        /\ Present(b) \in Seq(S) /\ ToSet(Present(b)) \subseteq {b} \ {Nothing}
    BY <1>1, <1>2
  <2>2. ab \in Seq(S) /\ ToSet(ab) \subseteq ToSet(Present(a)) \cup ToSet(Present(b))
    BY <2>1, ConcatElements, Zenon DEF ab
  <2>3. QED
    BY <2>1, <2>2
<1> HIDE DEF ab
<1>5. abc \in Seq(S) /\ ToSet(abc) \subseteq {a, b, c} \ {Nothing}
  <2>1. Present(c) \in Seq(S) /\ ToSet(Present(c)) \subseteq {c} \ {Nothing}
    BY <1>1, <1>2
  <2>2. abc \in Seq(S) /\ ToSet(abc) \subseteq ToSet(ab) \cup ToSet(Present(c))
    BY <1>4, <2>1, ConcatElements, Zenon
  <2>3. QED
    BY <1>4, <2>1, <2>2
<1> HIDE DEF abc
<1>7. Present(d) \in Seq(S) /\ ToSet(Present(d)) \subseteq {d} \ {Nothing}
  BY <1>1, <1>2
<1>8. ToSet(abc \o Present(d)) \subseteq ToSet(abc) \cup ToSet(Present(d))
  BY <1>5, <1>7, ConcatElements, Zenon
<1>9. QED
  BY <1>5, <1>7, <1>8 DEF abc, ab

\* The chain names a lot for its signals, and beside it what is joined to it.
LEMMA ChainIsJoined == CauseInv => NoDecoys
<1> SUFFICES ASSUME CauseInv PROVE NoDecoys
  OBVIOUS
<1> USE DEF CauseInv
<1> DEFINE Best(type) == {n \in ToSet(members) :
             /\ n.type = type /\ n.signals # {}
             /\ \A m \in ToSet(members) : m.type = type => failureScore(m) <= failureScore(n)}
           OfType(type) == {n \in ToSet(members) : n.type = type}
           Beyond(type, lot) == {n \in ToSet(members) :
                              /\ n.type = type
                              /\ \E e \in ToSet(links) :
                                   /\ e.relation = JoinedBy[type]
                                   /\ {n.id, lot.id} = {e.source, e.target}}
           Beside == {"Supplier", "PurchaseOrder", "RootCause"}
<1>1. worstLot # Nothing => worstLot \in Best("ComponentLot")
  BY FirstOfIsOne DEF worstLot, bestOfType
<1>2. ASSUME NEW type \in Beside
      PROVE  /\ bestOfType(type) \in OfType(type) \cup {Nothing}
             /\ firstOfType(type) \in OfType(type) \cup {Nothing}
  <2>1. bestOfType(type) \in Best(type) \cup {Nothing}
    BY FirstOfIsOne DEF bestOfType
  <2>2. firstOfType(type) \in OfType(type) \cup {Nothing}
    BY FirstOfIsOne DEF firstOfType
  <2>3. QED
    BY <2>1, <2>2
<1>3. ASSUME NEW type \in Beside, worstLot # Nothing
      PROVE  /\ linkedToLot(type) \in Beyond(type, worstLot) \cup {Nothing}
             /\ Beyond(type, worstLot) # {} => linkedToLot(type) \in Beyond(type, worstLot)
  <2>1. worstLot \in ToSet(members) /\ worstLot.type = "ComponentLot"
    BY <1>1, <1>3
  <2>3. \A n \in ToSet(members) : n.type = type => n.id # worstLot.id
    BY <2>1 DEF IdsAreUnique
  <2>4. type # "none"
    OBVIOUS
  <2>5. linkedToLot(type) = followFrom(worstLot.id, JoinedBy[type], type)
    BY <1>3 DEF linkedToLot
  <2>6. /\ followFrom(worstLot.id, JoinedBy[type], type) \in Beyond(type, worstLot) \cup {Nothing}
        /\ Beyond(type, worstLot) # {} =>
             followFrom(worstLot.id, JoinedBy[type], type) \in Beyond(type, worstLot)
    BY <2>3, <2>4, FollowedIsJoined, Zenon
  <2>7. QED
    BY <2>5, <2>6, Zenon
<1>4. Nothing.type \notin Beside \cup {"ComponentLot"}
  BY DEF Nothing
<1> DEFINE among(type) == Else(bestOfType(type), firstOfType(type))
           supplier == Else(linkedToLot("Supplier"), among("Supplier"))
           po == Else(linkedToLot("PurchaseOrder"), firstOfType("PurchaseOrder"))
           rootCause == Else(linkedToLot("RootCause"), among("RootCause"))
           Right(n, type) == /\ n \in OfType(type) \cup {Nothing}
                             /\ worstLot # Nothing /\ Beyond(type, worstLot) # {} =>
                                  n \in Beyond(type, worstLot)
<1>5. ToSet(rootCauseChain) \subseteq {supplier, po, worstLot, rootCause} \ {Nothing}
  <2>1. rootCauseChain = Present(supplier) \o Present(po) \o Present(worstLot) \o Present(rootCause)
    BY Zenon DEF rootCauseChain, Present
  <2> HIDE DEF supplier, po, rootCause
  <2>2. QED
    BY <2>1, ChainElements, Zenon
<1>6. Right(supplier, "Supplier") /\ Right(po, "PurchaseOrder") /\ Right(rootCause, "RootCause")
  <2>1. ASSUME NEW type \in Beside,
               NEW other \in OfType(type) \cup {Nothing}
        PROVE  Right(Else(linkedToLot(type), other), type)
    <3>1. CASE worstLot = Nothing
      BY <3>1 DEF linkedToLot, Else
    <3>2. CASE worstLot # Nothing
      <4>1. Nothing \notin Beyond(type, worstLot)
        BY <1>4
      <4>2. Beyond(type, worstLot) \subseteq OfType(type)
        OBVIOUS
      <4> HIDE DEF Beyond, OfType
      <4>3. QED
        BY <1>3, <3>2, <4>1, <4>2 DEF Else
    <3>3. QED
      BY <3>1, <3>2
  <2>2. \A type \in Beside : among(type) \in OfType(type) \cup {Nothing}
    BY <1>2 DEF Else
  <2>3. QED
    BY <1>2, <2>1, <2>2
<1> HIDE DEF supplier, po, rootCause
<1>7. ASSUME NEW n \in ToSet(rootCauseChain)
      PROVE  \/ n = worstLot /\ n.type = "ComponentLot"
             \/ n # Nothing /\ n.type \in Beside /\ Right(n, n.type)
  <2>1. n # Nothing /\ n \in {supplier, po, worstLot, rootCause}
    BY <1>5
  <2>2. CASE n = worstLot
    BY <1>1, <2>1, <2>2
  <2>3. \A type \in Beside : Right(n, type) => n.type = type
    BY <2>1
  <2>4. CASE n \in {supplier, po, rootCause}
    <3>1. \E type \in Beside : Right(n, type)
      BY <1>6, <2>4
    <3> HIDE DEF Right
    <3>2. QED
      BY <2>1, <2>3, <3>1
  <2>5. QED
    BY <2>1, <2>2, <2>4
<1>8. ASSUME NEW lot \in ToSet(rootCauseChain), lot.type = "ComponentLot"
      PROVE  lot = worstLot /\ lot # Nothing
  BY <1>5, <1>7, <1>8
<1>9. ASSUME NEW lot \in ToSet(rootCauseChain), lot.type = "ComponentLot",
             NEW n \in ToSet(rootCauseChain) \ {lot}, Beyond(n.type, lot) # {}
      PROVE  n \in Beyond(n.type, lot)
  <2>1. lot = worstLot /\ worstLot # Nothing
    BY <1>8, <1>9
  <2>2. Right(n, n.type)
    BY <1>7, <1>9, <2>1
  <2> HIDE DEF Beyond
  <2>3. QED
    BY <1>9, <2>1, <2>2
<1>10. ASSUME NEW lot \in ToSet(rootCauseChain), lot.type = "ComponentLot"
       PROVE  /\ lot.signals # {}
              /\ \A n \in ToSet(members) :
                   n.type = "ComponentLot" => failureScore(n) <= failureScore(lot)
  BY <1>1, <1>8, <1>10
<1>11. QED
  BY <1>9, <1>10 DEF NoDecoys

\* What the subgraph collects keeps its ids apart.
LEMMA CauseInvStep == CauseInv /\ [Next]_vars => CauseInv'
<1> SUFFICES ASSUME CauseInv, [CauseNext]_causeVars PROVE CauseInv'
  BY OnePartMoves
<1>0. Candidates' = Candidates /\ Link' = Link
  BY DEF Candidates, Candidate, Link, JoinedBy
<1>1. CASE AddMember
  <2>1. PICK n \in Candidates : /\ n.id \notin {m.id : m \in ToSet(members)}
                                /\ members' = Append(members, n)
    BY <1>1 DEF AddMember
  <2>2. members \in Seq(Candidates) /\ links' = links
    BY <1>1 DEF AddMember, CauseInv, IdsAreUnique
  <2>3. ToSet(members)' = ToSet(members) \cup {n}
    BY <2>1, <2>2 DEF ToSet
  <2>4. \A a, b \in ToSet(members)' : a.id = b.id => a = b
    BY <2>1, <2>3 DEF CauseInv, IdsAreUnique
  <2>5. QED
    BY <1>0, <2>1, <2>2, <2>4 DEF CauseInv, IdsAreUnique
<1>2. CASE AddLink
  <2>1. PICK a, b \in ToSet(members) :
          /\ a.type = "ComponentLot" /\ b.type \in DOMAIN JoinedBy
          /\ \E e \in {[source |-> a.id, relation |-> JoinedBy[b.type], target |-> b.id],
                       [source |-> b.id, relation |-> JoinedBy[b.type], target |-> a.id]} :
               links' = Append(links, e)
    BY <1>2 DEF AddLink
  <2>2. a \in Candidates /\ b \in Candidates
    BY DEF CauseInv, IdsAreUnique, ToSet
  <2>3. \E e \in Link : links' = Append(links, e)
    BY <2>1, <2>2 DEF Link
  <2>4. members' = members
    BY <1>2 DEF AddLink
  <2>5. ToSet(members)' = ToSet(members)
    BY <2>4 DEF ToSet
  <2>6. QED
    BY <1>0, <2>3, <2>4, <2>5 DEF CauseInv, IdsAreUnique
<1>3. CASE UNCHANGED causeVars
  <2>1. ToSet(members)' = ToSet(members)
    BY <1>3 DEF ToSet, causeVars
  <2>2. QED
    BY <1>0, <1>3, <2>1 DEF CauseInv, IdsAreUnique, causeVars
<1>4. QED
  BY <1>1, <1>2, <1>3 DEF CauseNext

\* The chain of a root cause names no decoy (root-cause.ts), for a subgraph of any
\* size and in whatever order it lists its nodes and edges.
THEOREM ChainNamesNoDecoys == Spec => []NoDecoys
<1>1. Init => CauseInv
  BY DEF Init, CauseInit, CauseInv, IdsAreUnique, ToSet
<1>2. QED
  BY <1>1, CauseInvStep, ChainIsJoined, PTL DEF Spec

-----------------------------------------------------------------------------
(* The rows of a metric *)

\* The rows have the columns and the cells of a grouped query, the arguments are
\* some of the keys.
Cell == {"7", "8", "x"}

MetricInv ==
    /\ result \in [tier : {1, 2}, rows : Seq(UNION {[columns -> Cell] : columns \in ColumnSets}),
                   scalar : {NaN, 9}]
    /\ DOMAIN args \subseteq Key
    /\ \A key \in DOMAIN args : args[key] \in Want

\* Rows are appended with the columns of one query, arguments with its keys.
LEMMA MetricStepInv == MetricInv /\ [Next]_vars => MetricInv'
<1> SUFFICES ASSUME MetricInv, [MetricNext]_metricVars PROVE MetricInv'
  BY OnePartMoves
<1> DEFINE Row == UNION {[columns -> Cell] : columns \in ColumnSets}
<1>0. Row' = Row /\ Key' = Key /\ Want' = Want /\ NaN' = NaN
  BY DEF ColumnSets, Cell, Key, Want, NaN
<1>1. CASE AppendRow
  <2>0. PICK columns \in IF result.rows = <<>> THEN ColumnSets ELSE {DOMAIN result.rows[1]} :
          \E row \in [columns -> Cell] : result' = [result EXCEPT !.rows = Append(@, row)]
    BY <1>1 DEF AppendRow, Cell
  <2>1. PICK row \in [columns -> Cell] : result' = [result EXCEPT !.rows = Append(@, row)]
    BY <2>0
  <2>2. columns \in ColumnSets
    <3>1. CASE result.rows = <<>>
      BY <2>1, <3>1
    <3>2. CASE result.rows # <<>>
      <4>1. result.rows[1] \in Row
        BY <3>2 DEF MetricInv
      <4>2. PICK other \in ColumnSets : result.rows[1] \in [other -> Cell]
        BY <4>1
      <4>3. QED
        BY <2>1, <3>2, <4>2
    <3>3. QED
      BY <3>1, <3>2
  <2>3. row \in Row
    BY <2>1, <2>2
  <2>4. result.rows \in Seq(Row) /\ Append(result.rows, row) \in Seq(Row)
    BY <2>3 DEF MetricInv
  <2> HIDE DEF Row
  <2>5. result' \in [tier : {1, 2}, rows : Seq(Row), scalar : {NaN, 9}]
    BY <2>1, <2>4 DEF MetricInv, Row
  <2>6. args' = args
    BY <1>1 DEF AppendRow
  <2>7. QED
    BY <1>0, <2>5, <2>6 DEF MetricInv, Row
<1>2. CASE SetArg
  <2>1. PICK key \in Key \ DOMAIN args, want \in Want :
          args' = [k \in DOMAIN args \cup {key} |-> IF k = key THEN want ELSE args[k]]
    BY <1>2 DEF SetArg
  <2>2. result' = result
    BY <1>2 DEF SetArg
  <2>3. DOMAIN args' \subseteq Key /\ \A k \in DOMAIN args' : args'[k] \in Want
    BY <2>1 DEF MetricInv
  <2>4. QED
    BY <1>0, <2>2, <2>3 DEF MetricInv
<1>3. CASE UNCHANGED metricVars
  BY <1>0, <1>3 DEF MetricInv, metricVars
<1>4. QED
  BY <1>1, <1>2, <1>3 DEF MetricNext

\* The rows that are left are those that agree with the arguments.
LEMMA LeftRowsAgree == MetricInv => filterRows(result.rows) = Agreeing
<1> SUFFICES ASSUME MetricInv, NEW i \in DOMAIN result.rows, NEW key \in DOMAIN args,
                    args[key] # "empty"
             PROVE  Matches(result.rows[i], key, args[key]) <=>
                      \A column \in {key, snake(key)} \cap DOMAIN result.rows[i] :
                         result.rows[i][column] \in {args[key], Unprefixed(args[key])}
  BY DEF filterRows, Agreeing
<1>1. PICK columns \in ColumnSets : result.rows[i] \in [columns -> Cell]
  BY DEF MetricInv
<1>2. key \in {"unitId", "kind"} /\ args[key] \in {"7", "unit-7"}
  BY DEF MetricInv, Key, Want
<1>3. "unitId" \notin columns /\ "kind" \notin columns
  BY <1>1 DEF ColumnSets
<1>4. {key, snake(key)} \cap columns = IF snake(key) \in columns THEN {snake(key)} ELSE {}
  BY <1>2, <1>3 DEF snake
<1>5. DOMAIN result.rows[i] = columns
  BY <1>1
<1>6. CASE snake(key) \in columns
  <2> DEFINE cell == result.rows[i][snake(key)]
  <2>1. cell \in {"7", "8", "x"}
    BY <1>1, <1>6 DEF Cell
  <2>2. Matches(result.rows[i], key, args[key]) <=>
          cell = args[key] \/ (num(cell) # NaN /\ Unprefixed(args[key]) = cell)
    BY <1>2, <1>3, <1>5, <1>6 DEF Matches
  <2>3. Unprefixed(args[key]) = "7"
    BY <1>2 DEF Unprefixed
  <2>4. num("7") # NaN
    BY DEF num, NaN
  <2>5. QED
    BY <1>2, <1>4, <1>5, <1>6, <2>1, <2>2, <2>3, <2>4
<1>7. CASE snake(key) \notin columns
  BY <1>2, <1>3, <1>4, <1>5, <1>7 DEF Matches
<1>8. QED
  BY <1>6, <1>7

\* A number of a row is that of the only row the arguments leave.
LEMMA MetricInvShows == MetricInv => MetricIsUnambiguous
<1> SUFFICES ASSUME MetricInv, computeMetric # NaN
             PROVE  /\ result.tier = 1
                    /\ result.scalar = NaN =>
                         \E i \in Agreeing :
                            /\ Agreeing = {i}
                            /\ \E column \in DOMAIN result.rows[i] :
                                  num(result.rows[i][column]) = computeMetric
  BY DEF MetricIsUnambiguous
<1>1. result.tier = 1
  BY DEF computeMetric, Throws
<1>2. ASSUME result.scalar = NaN
      PROVE  \E i \in Agreeing :
               /\ Agreeing = {i}
               /\ \E column \in DOMAIN result.rows[i] : num(result.rows[i][column]) = computeMetric
  <2>1. computeMetric = reduceMetricRows(Metric, result.rows, Agreeing)
    BY <1>2, LeftRowsAgree DEF computeMetric
  <2>2. Cardinality(Agreeing) = 1
    BY <2>1 DEF reduceMetricRows
  <2>3. IsFiniteSet(Agreeing)
    <3>1. Agreeing \subseteq 1 .. Len(result.rows) /\ Len(result.rows) \in Nat
      BY DEF Agreeing, MetricInv
    <3>2. IsFiniteSet(1 .. Len(result.rows))
      <4>1. 1 \in Int /\ Len(result.rows) \in Int
        BY <3>1
      <4>2. QED
        BY <4>1, FS_Interval
    <3>3. QED
      BY <3>1, <3>2, FS_Subset
  <2>4. PICK i : Agreeing = {i}
    BY <2>2, <2>3, FS_Singleton
  <2>5. (CHOOSE j \in Agreeing : TRUE) = i
    BY <2>4
  <2> DEFINE row == result.rows[CHOOSE j \in Agreeing : TRUE]
             numeric == {column \in DOMAIN row : num(row[column]) # NaN}
  <2>6. computeMetric = IF "value" \in numeric THEN num(row["value"])
                        ELSE IF Metric \in numeric THEN num(row[Metric])
                        ELSE IF Cardinality(numeric) = 1
                        THEN num(row[CHOOSE column \in numeric : TRUE]) ELSE NaN
    BY <2>1, <2>2, Zenon DEF reduceMetricRows
  <2> HIDE DEF row
  <2>7. \E column \in numeric : num(row[column]) = computeMetric
    <3>1. CASE "value" \in numeric \/ Metric \in numeric
      BY <2>6, <3>1
    <3>2. CASE ~("value" \in numeric \/ Metric \in numeric)
      <4>1. Cardinality(numeric) = 1 /\ computeMetric = num(row[CHOOSE column \in numeric : TRUE])
        BY <2>6, <3>2
      <4>2. numeric # {}
        BY <4>1, FS_EmptySet
      <4>3. (CHOOSE column \in numeric : TRUE) \in numeric
        BY <4>2
      <4>4. QED
        BY <4>1, <4>3
    <3>3. QED
      BY <3>1, <3>2
  <2>8. QED
    BY <2>4, <2>5, <2>7 DEF row
<1>3. QED
  BY <1>1, <1>2

\* A number computed from rows is of the one row that agrees with all arguments
\* (coa-rows.ts, computeMetric), for a result of any length.
THEOREM MetricStandsForOneRow == Spec => []MetricIsUnambiguous
<1>1. Init => MetricInv
  <2> SUFFICES ASSUME MetricInit \/ MetricAtRest PROVE MetricInv
    BY DEF Init
  <2>1. result \in [tier : {1, 2}, rows : {<<>>}, scalar : {NaN, 9}] /\ args = <<>>
    BY DEF MetricInit, MetricAtRest
  <2>2. result.rows = <<>> /\ DOMAIN args = {}
    BY <2>1
  <2>3. <<>> \in Seq(UNION {[columns -> Cell] : columns \in ColumnSets})
    OBVIOUS
  <2>4. QED
    BY <2>1, <2>2, <2>3 DEF MetricInv
<1>2. QED
  BY <1>1, MetricStepInv, MetricInvShows, PTL DEF Spec

-----------------------------------------------------------------------------
(* The schema of a pack *)

SchemaInv == quads \in Seq(Quad) /\ live \in Seq(LiveRow)

\* Statements and live rows are appended, never changed.
LEMMA SchemaInvStep == SchemaInv /\ [Next]_vars => SchemaInv'
<1> SUFFICES ASSUME SchemaInv, [SchemaNext]_schemaVars PROVE SchemaInv'
  BY OnePartMoves
<1>1. CASE WriteOntology
  BY <1>1 DEF WriteOntology, SchemaInv
<1>2. CASE LoadPack \/ UNCHANGED schemaVars
  BY <1>2 DEF LoadPack, schemaVars, SchemaInv
<1>3. CASE Register
  BY <1>3 DEF Register, SchemaInv
<1>4. QED
  BY <1>1, <1>2, <1>3 DEF SchemaNext

\* What the file can declare, and what the live rows can name.
LEMMA Declared ==
    ASSUME SchemaInv
    PROVE  /\ Subjects("Class") \subseteq {"Line", "Feeder", "GovernedMetric", "packs/"}
           /\ Subjects("Ontology") \subseteq {"packs/"}
           /\ Subjects("ObjectProperty") \subseteq {"feeds"}
           /\ {row.id : row \in ToSet(live)} \subseteq {"Line", "Bus", "load", "GovernedMetric"}
<1>1. ToSet(quads) \subseteq Quad /\ ToSet(live) \subseteq LiveRow
  BY DEF SchemaInv, ToSet
<1>2. \A q \in Quad :
        /\ q.p = "type" /\ q.o = "Class" => q.s \in {"Line", "Feeder", "GovernedMetric", "packs/"}
        /\ q.p = "type" /\ q.o = "Ontology" => q.s \in {"packs/"}
        /\ q.p = "type" /\ q.o = "ObjectProperty" => q.s \in {"feeds"}
  BY DEF Quad
<1>3. \A row \in LiveRow : row.id \in {"Line", "Bus", "load", "GovernedMetric"}
  BY DEF LiveRow
<1>4. QED
  BY <1>1, <1>2, <1>3 DEF Subjects

\* Two sets with nothing in common are counted one after the other.
LEMMA DisjointUnion ==
    ASSUME NEW S, IsFiniteSet(S), NEW T, IsFiniteSet(T), S \cap T = {}
    PROVE  /\ IsFiniteSet(S \cup T)
           /\ Cardinality(S \cup T) = Cardinality(S) + Cardinality(T)
<1>1. Cardinality(S \cap T) = 0
  BY FS_EmptySet
<1>2. Cardinality(S) \in Nat /\ Cardinality(T) \in Nat
  BY FS_CardinalityType
<1>3. IsFiniteSet(S \cup T) /\ Cardinality(S \cup T) = Cardinality(S) + Cardinality(T) - Cardinality(S \cap T)
  BY FS_Union
<1>4. QED
  BY <1>1, <1>2, <1>3

\* Records that are told apart by their id are as many as their ids.
LEMMA CountedById ==
    ASSUME NEW S, NEW T, IsFiniteSet(T), T = {x.id : x \in S},
           \A x, y \in S : x.id = y.id => x = y
    PROVE  IsFiniteSet(S) /\ Cardinality(S) = Cardinality(T)
<1> DEFINE f == [x \in S |-> x.id]
<1>1. f \in Injection(S, T) /\ f \in Surjection(S, T)
  BY DEF Injection, IsInjective, Surjection
<1>2. QED
  BY <1>1, FS_Injection

\* A set of numbers up to a bound has a largest.
LEMMA LargestOf ==
    ASSUME NEW n \in Nat, NEW S \in SUBSET (1 .. n), S # {}
    PROVE  Max(S) \in S
<1> DEFINE D == {n - i : i \in S}
<1>1. D \in SUBSET Nat /\ D # {}
  <2>1. \A i \in S : i \in Nat /\ n - i \in Nat
    OBVIOUS
  <2>2. QED
    BY <2>1
<1>2. Min(D) \in D /\ \A d \in D : Min(D) <= d
  BY <1>1, LeastOf
<1>3. PICK x \in S : Min(D) = n - x
  BY <1>2
<1>4. ASSUME NEW y \in S PROVE x >= y
  <2>1. n - x <= n - y
    BY <1>2, <1>3
  <2>2. QED
    BY <2>1
<1>5. QED
  BY <1>3, <1>4 DEF Max

\* Where an annotation has one value, the first and the last are this one.
LEMMA OneValue ==
    ASSUME SchemaInv, Plain, NEW s, NEW p, p # "type"
    PROVE  FirstValue(s, p) = LastValue(s, p)
<1> DEFINE I == {i \in 1 .. Len(quads) : quads[i].s = s /\ quads[i].p = p}
           J == {i \in 1 .. Len(quads) : /\ quads[i].s = s /\ quads[i].p = p
                                         /\ p = "subClassOf" => quads[i].o # "_:b"}
<1>0. Len(quads) \in Nat /\ DOMAIN quads = 1 .. Len(quads)
  BY DEF SchemaInv
<1>1. I = J
  BY <1>0 DEF Plain, ToSet
<1>2. CASE I = {}
  <2>1. FirstValue(s, p) = "none"
    BY <1>1, <1>2 DEF FirstValue, SelectInSeq
  <2>2. LastValue(s, p) = "none"
    BY <1>2 DEF LastValue, SelectLastInSeq
  <2>3. QED
    BY <2>1, <2>2
<1>3. CASE I # {}
  <2>1. Min(J) \in J
    <3>1. J \in SUBSET Nat /\ J # {}
      BY <1>0, <1>1, <1>3
    <3>2. QED
      BY <3>1, LeastOf
  <2>2. Max(I) \in I
    <3>1. I \in SUBSET (1 .. Len(quads))
      OBVIOUS
    <3>2. QED
      BY <1>0, <1>3, <3>1, LargestOf
  <2>3. FirstValue(s, p) = quads[Min(J)].o
    <3>1. \A i \in J : i # 0
      BY <1>0
    <3>2. J # {} /\ Min(J) # 0
      <4> HIDE DEF J
      <4>1. QED
        BY <2>1, <3>1
    <3>3. QED
      BY <3>2 DEF FirstValue, SelectInSeq
  <2>4. LastValue(s, p) = quads[Max(I)].o
    <3>1. I # {} /\ Max(I) # 0
      BY <1>0, <1>3, <2>2
    <3>2. QED
      BY <3>1 DEF LastValue, SelectLastInSeq
  <2>5. Min(J) \in I
    BY <1>1, <2>1
  <2>6. ASSUME NEW i \in I, NEW j \in I PROVE quads[i].o = quads[j].o
    BY <1>0 DEF Plain
  <2>7. quads[Min(J)].o = quads[Max(I)].o
    <3> HIDE DEF I, J
    <3>1. QED
      BY <2>2, <2>5, <2>6
  <2>8. QED
    BY <2>3, <2>4, <2>7
<1>4. QED
  BY <1>2, <1>3

\* A class of the page is of the file, named by its IRI, and the ontology is none.
LEMMA ClassesOfPack ==
    ASSUME SchemaInv
    PROVE  PackClasses = {[id |-> iri, subClassOf |-> FirstValue(iri, "subClassOf")] :
                            iri \in Subjects("Class") \ {"packs/"}}
<1>1. {iri \in Subjects("Class") \ Subjects("Ontology") : localName(iri) # "empty"}
        = Subjects("Class") \ {"packs/"}
  BY Declared DEF localName
<1>2. \A iri \in Subjects("Class") \ {"packs/"} : localName(iri) = iri
  BY DEF localName
<1>3. QED
  BY <1>1, <1>2 DEF PackClasses

\* The classes of the page, the live ones, and those of the metric vocabulary.
PackIds == {c.id : c \in PackClasses}
LiveIds == {row.id : row \in ToSet(live)}
MetricIds == {id \in LiveIds : "GovernedMetric" \in {id, LiveClass(id).subClassOf}}

\* The three groups cover the live classes, and only the first two overlap.
LEMMA LiveGroupsAddUp ==
    ASSUME SchemaInv
    PROVE  Cardinality(PackIds \cap LiveIds) + Cardinality(MetricIds)
             + Cardinality(LiveIds \ (PackIds \cup MetricIds))
             = Cardinality(LiveIds) + Cardinality((PackIds \cap LiveIds) \cap MetricIds)
<1> DEFINE present == PackIds \cap LiveIds
           other == LiveIds \ (PackIds \cup MetricIds)
<1>1. IsFiniteSet(LiveIds)
  <2>1. IsFiniteSet({"Line"} \cup {"Bus"} \cup {"load"} \cup {"GovernedMetric"})
    <3>1. IsFiniteSet({"Line"})
      BY FS_Singleton
    <3>2. IsFiniteSet({"Line"} \cup {"Bus"})
      BY <3>1, FS_AddElement
    <3>3. IsFiniteSet({"Line"} \cup {"Bus"} \cup {"load"})
      BY <3>2, FS_AddElement
    <3>4. QED
      BY <3>3, FS_AddElement
  <2>2. LiveIds \in SUBSET ({"Line"} \cup {"Bus"} \cup {"load"} \cup {"GovernedMetric"})
    BY Declared DEF LiveIds
  <2>3. QED
    BY <2>1, <2>2, FS_Subset
<1>2. IsFiniteSet(present) /\ IsFiniteSet(MetricIds) /\ IsFiniteSet(other)
  <2>1. present \in SUBSET LiveIds /\ MetricIds \in SUBSET LiveIds /\ other \in SUBSET LiveIds
    BY DEF MetricIds
  <2>2. QED
    BY <1>1, <2>1, FS_Subset
<1> DEFINE both == present \cap MetricIds
<1>3. /\ IsFiniteSet(present \cup MetricIds)
      /\ Cardinality(present \cup MetricIds)
           = Cardinality(present) + Cardinality(MetricIds) - Cardinality(both)
  BY <1>2, FS_Union
<1>4. Cardinality((present \cup MetricIds) \cup other)
        = Cardinality(present \cup MetricIds) + Cardinality(other)
  <2>1. (present \cup MetricIds) \cap other = {}
    OBVIOUS
  <2>2. QED
    BY <1>2, <1>3, <2>1, DisjointUnion
<1>5. LiveIds = (present \cup MetricIds) \cup other
  BY DEF MetricIds
<1>6. /\ Cardinality(present) \in Nat /\ Cardinality(MetricIds) \in Nat
      /\ Cardinality(other) \in Nat /\ Cardinality(LiveIds) \in Nat
  BY <1>1, <1>2, FS_CardinalityType
<1>7. IsFiniteSet(both) /\ Cardinality(both) \in Nat
  <2>1. both \in SUBSET MetricIds
    OBVIOUS
  <2>2. IsFiniteSet(both)
    BY <1>2, <2>1, FS_Subset
  <2>3. QED
    BY <2>2, FS_CardinalityType
<1>8. Cardinality(LiveIds)
        = Cardinality(present) + Cardinality(MetricIds) - Cardinality(both) + Cardinality(other)
  BY <1>3, <1>4, <1>5
<1> HIDE DEF present, other, both
<1>9. Cardinality(present) + Cardinality(MetricIds) + Cardinality(other)
        = Cardinality(LiveIds) + Cardinality(both)
  BY <1>6, <1>7, <1>8
<1>10. QED
  BY <1>9 DEF present, other, both

\* For every ontology file and every answer of describe_schema, the three groups
\* the page adds up exceed the live classes by those that are of the pack and of
\* the metric vocabulary, and both loaders read the same where every annotation
\* has one value (classifyLiveClasses, loadPackLevel, parseOntology).
THEOREM SchemaAddsUp == Spec => []SchemaIsExplained
<1>1. Init => SchemaInv
  BY DEF Init, SchemaInit, SchemaInv
<1>2. SchemaInv => SchemaIsExplained
  <2> SUFFICES ASSUME SchemaInv PROVE SchemaIsExplained
    OBVIOUS
  <2> DEFINE split == classifyLiveClasses
  <2>1. PackIds = Subjects("Class") \ {"packs/"} /\ PackIds \subseteq {"Line", "Feeder", "GovernedMetric"}
    <3> DEFINE class(iri) == [id |-> iri, subClassOf |-> FirstValue(iri, "subClassOf")]
    <3>1. PackClasses = {class(iri) : iri \in Subjects("Class") \ {"packs/"}}
      BY ClassesOfPack
    <3>2. \A iri : class(iri).id = iri
      OBVIOUS
    <3> HIDE DEF class
    <3>3. PackIds = Subjects("Class") \ {"packs/"}
      BY <3>1, <3>2 DEF PackIds
    <3>4. QED
      BY <3>3, Declared
  <2>2. /\ split.unique = LiveIds /\ split.metric = MetricIds
        /\ split.present = PackIds \cap LiveIds /\ split.missing = PackIds \ LiveIds
        /\ split.other = LiveIds \ (PackIds \cup MetricIds)
    BY DEF classifyLiveClasses, loadPackLevel, PackIds, LiveIds, MetricIds
  <2>3. Cardinality(PackIds \cap LiveIds) + Cardinality(MetricIds)
          + Cardinality(LiveIds \ (PackIds \cup MetricIds))
          = Cardinality(LiveIds) + Cardinality((PackIds \cap LiveIds) \cap MetricIds)
    BY LiveGroupsAddUp
  <2>4. Cardinality(PackIds \cap LiveIds) + Cardinality(PackIds \ LiveIds) = Cardinality(PackClasses)
    <3>1. IsFiniteSet({"Line"} \cup {"Feeder"} \cup {"GovernedMetric"})
      <4>1. IsFiniteSet({"Line"} \cup {"Feeder"})
        BY FS_Singleton, FS_AddElement
      <4>2. QED
        BY <4>1, FS_AddElement
    <3>2. IsFiniteSet(PackIds) /\ IsFiniteSet(PackIds \cap LiveIds) /\ IsFiniteSet(PackIds \ LiveIds)
      <4> DEFINE named == {"Line"} \cup {"Feeder"} \cup {"GovernedMetric"}
      <4>1. /\ PackIds \in SUBSET named
            /\ PackIds \cap LiveIds \in SUBSET named
            /\ PackIds \ LiveIds \in SUBSET named
        BY <2>1
      <4>2. QED
        BY <3>1, <4>1, FS_Subset
    <3>3. Cardinality(PackClasses) = Cardinality(PackIds)
      <4>1. \A x, y \in PackClasses : x.id = y.id => x = y
        BY ClassesOfPack
      <4>2. QED
        BY <3>2, <4>1, CountedById DEF PackIds
    <3>4. PackIds = (PackIds \cap LiveIds) \cup (PackIds \ LiveIds)
          /\ (PackIds \cap LiveIds) \cap (PackIds \ LiveIds) = {}
      OBVIOUS
    <3>5. Cardinality((PackIds \cap LiveIds) \cup (PackIds \ LiveIds))
            = Cardinality(PackIds \cap LiveIds) + Cardinality(PackIds \ LiveIds)
      BY <3>2, <3>4, DisjointUnion
    <3>6. QED
      BY <3>3, <3>4, <3>5
  <2>5. ASSUME Plain
        PROVE  /\ loadPackLevel.classes = {c \in parseOntology.classes : c.id # "empty"}
               /\ loadPackLevel.relationships = parseOntology.properties
    <3>1. \A s : /\ FirstValue(s, "subClassOf") = LastValue(s, "subClassOf")
                 /\ FirstValue(s, "domain") = LastValue(s, "domain")
      BY <2>5, OneValue
    <3>2. parseOntology.classes
            = {[id |-> localName(iri), subClassOf |-> LastValue(iri, "subClassOf")] :
                 iri \in Subjects("Class")}
      BY DEF parseOntology
    <3>3. {c \in parseOntology.classes : c.id # "empty"}
            = {[id |-> iri, subClassOf |-> LastValue(iri, "subClassOf")] :
                 iri \in Subjects("Class") \ {"packs/"}}
      <4>1. \A iri \in Subjects("Class") : /\ iri # "packs/" => localName(iri) = iri /\ iri # "empty"
                                           /\ iri = "packs/" => localName(iri) = "empty"
        BY Declared DEF localName
      <4>2. QED
        BY <3>2, <4>1
    <3>4. loadPackLevel.classes = PackClasses
      BY DEF loadPackLevel
    <3>5. loadPackLevel.classes = {c \in parseOntology.classes : c.id # "empty"}
      BY <3>1, <3>3, <3>4, ClassesOfPack
    <3>6. loadPackLevel.relationships = parseOntology.properties
      BY <3>1 DEF loadPackLevel, parseOntology
    <3>7. QED
      BY <3>5, <3>6
  <2>6. loadPackLevel.classes = PackClasses
    BY DEF loadPackLevel
  <2>7. QED
    BY <2>2, <2>3, <2>4, <2>5, <2>6 DEF SchemaIsExplained
<1>3. QED
  BY <1>1, <1>2, SchemaInvStep, PTL DEF Spec

-----------------------------------------------------------------------------
(* The text of an answer *)

BlockName == {"code", "table", "heading", "rule", "list", "spacer", "paragraph"}

BlockType == [name : BlockName, lines : SUBSET Nat, next : Nat]

\* The loop stands outside code, and what it has made so far is right.
TextInv ==
    /\ text \in Seq(LineKind) /\ cursor \in Nat \ {0} /\ blocks \in Seq(BlockType)
    /\ cursor <= Len(text) => ~InCode(cursor)
    /\ LinesAreShownOnce

\* A run of lines ends where its first stranger is, or with the text.
LEMMA EndOfRunIs ==
    ASSUME text \in Seq(LineKind), NEW i \in 1 .. Len(text) + 1,
           NEW run \in SUBSET (1 .. Len(text))
    PROVE  /\ EndOfRun(i, run) \in i .. Len(text) + 1
           /\ EndOfRun(i, run) \notin run
           /\ \A k \in i .. EndOfRun(i, run) - 1 : k \in run
<1> DEFINE S == {k \in i .. Len(text) + 1 : k \notin run}
<1>0. Len(text) \in Nat
  OBVIOUS
<1>1. S \in SUBSET Nat /\ Len(text) + 1 \in S
  BY <1>0
<1>2. Min(S) \in S /\ \A k \in S : Min(S) <= k
  BY <1>1, LeastOf
<1>3. \A k \in i .. Min(S) - 1 : k \in run
  BY <1>0, <1>2
<1>4. \E j \in i .. Len(text) + 1 : j \notin run /\ i .. j - 1 \subseteq run
  BY <1>2, <1>3
<1>5. QED
  BY <1>4 DEF EndOfRun

\* The fences before a line are counted.
LEMMA FencesAreFinite ==
    ASSUME NEW i \in Nat
    PROVE  IsFiniteSet({k \in 1 .. i - 1 : Kind(k) = "fence"}) /\ Fences(i) \in Nat
<1> DEFINE S == {k \in 1 .. i - 1 : Kind(k) = "fence"}
<1>1. IsFiniteSet(1 .. i - 1) /\ S \subseteq 1 .. i - 1
  BY FS_Interval
<1>2. IsFiniteSet(S)
  BY <1>1, FS_Subset
<1>3. QED
  BY <1>2, FS_CardinalityType DEF Fences

\* Lines that are no fences do not change what is code.
LEMMA NoFenceBetween ==
    ASSUME NEW i \in Nat, NEW j \in Nat, i <= j,
           \A k \in i .. j - 1 : Kind(k) # "fence"
    PROVE  Fences(j) = Fences(i)
<1>1. {k \in 1 .. j - 1 : Kind(k) = "fence"} = {k \in 1 .. i - 1 : Kind(k) = "fence"}
  OBVIOUS
<1>2. QED
  BY <1>1 DEF Fences

\* A fence changes it.
LEMMA FenceCounts ==
    ASSUME NEW i \in Nat \ {0}, Kind(i) = "fence"
    PROVE  Fences(i + 1) = Fences(i) + 1
<1> DEFINE S == {k \in 1 .. i - 1 : Kind(k) = "fence"}
<1>1. {k \in 1 .. (i + 1) - 1 : Kind(k) = "fence"} = S \cup {i}
  OBVIOUS
<1>2. IsFiniteSet(S) /\ i \notin S
  BY FencesAreFinite
<1>3. Cardinality(S \cup {i}) = Cardinality(S) + 1
  BY <1>2, FS_AddElement
<1>4. QED
  BY <1>1, <1>3 DEF Fences

\* What a pass that starts outside code at a line must make of the lines it takes.
Takes(block, i) ==
    /\ block \in BlockType
    /\ block.next > i /\ (block.next <= Len(text) => ~InCode(block.next))
    /\ \A k \in block.lines :
         /\ i <= k /\ k < block.next /\ k <= Len(text)
         /\ block.name = "code" <=> InCode(k)
         /\ block.name = "paragraph" => Kind(k) \in {"plain", "row", "separator", "rule"}
    /\ \A k \in i .. block.next - 1 : k <= Len(text) => LeftOut(k) \/ k \in block.lines

\* Lines from i up to next of which none is a fence, shown but for some that may be
\* left out.
NoCode(name, lines, i, next) ==
    /\ name \in BlockName \ {"code"}
    /\ next \in i + 1 .. Len(text) + 1
    /\ lines \subseteq i .. next - 1
    /\ \A k \in i .. next - 1 :
         /\ Kind(k) # "fence"
         /\ k \in lines /\ name = "paragraph" =>
              Kind(k) \in {"plain", "row", "separator", "rule"}
         /\ k \notin lines => \/ Kind(k) \in {"blank", "rule"}
                              \/ Kind(k) = "separator" /\ Piped(k - 1)

\* A pass whose lines are no fences stays outside code.
LEMMA PlainPass ==
    ASSUME text \in Seq(LineKind), NEW i \in 1 .. Len(text), ~InCode(i),
           NEW name, NEW lines, NEW next, NoCode(name, lines, i, next)
    PROVE  Takes(Block(name, lines, next), i)
<1>0. Len(text) \in Nat /\ i \in Nat /\ next \in Nat /\ next > i /\ next <= Len(text) + 1
  BY DEF NoCode, BlockName
<1>1. ASSUME NEW k \in i .. next PROVE ~InCode(k)
  <2>1. Fences(k) = Fences(i)
    BY <1>0, NoFenceBetween DEF NoCode, BlockName
  <2>2. QED
    BY <2>1 DEF InCode
<1>2. Block(name, lines, next) = [name |-> name, lines |-> lines, next |-> next]
  BY DEF Block
<1>3. Block(name, lines, next) \in BlockType
  <2>1. lines \in SUBSET Nat
    BY <1>0 DEF NoCode, BlockName
  <2>2. QED
    BY <1>0, <1>2, <2>1 DEF BlockType, BlockName, NoCode
<1>4. ASSUME NEW k \in lines
      PROVE  /\ i <= k /\ k < next /\ k <= Len(text) /\ ~InCode(k) /\ name # "code"
             /\ name = "paragraph" => Kind(k) \in {"plain", "row", "separator", "rule"}
  BY <1>0, <1>1 DEF NoCode, BlockName
<1>5. ASSUME NEW k \in i .. next - 1 PROVE LeftOut(k) \/ k \in lines
  BY <1>0, <1>1 DEF NoCode, LeftOut
<1>6. ~InCode(next)
  BY <1>0, <1>1
<1>7. QED
  BY <1>0, <1>2, <1>3, <1>4, <1>5, <1>6 DEF Takes

\* Code is what is between a fence and the next, or the end of the text.
LEMMA CodePass ==
    ASSUME text \in Seq(LineKind), NEW i \in 1 .. Len(text), ~InCode(i),
           Kind(i) = "fence"
    PROVE  Takes(CodeBlock(i), i)
<1> DEFINE run == {j \in DOMAIN text : Kind(j) # "fence"}
           close == EndOfRun(i + 1, run)
<1>0. Len(text) \in Nat /\ DOMAIN text = 1 .. Len(text)
  OBVIOUS
<1>1. /\ close \in i + 1 .. Len(text) + 1 /\ close \notin run
      /\ \A k \in i + 1 .. close - 1 : k \in run
  <2>1. i + 1 \in 1 .. Len(text) + 1 /\ run \in SUBSET (1 .. Len(text))
    BY <1>0
  <2>2. QED
    BY <2>1, EndOfRunIs
<1>2. CodeBlock(i) = [name |-> "code", lines |-> i + 1 .. close - 1, next |-> close + 1]
  BY DEF CodeBlock, Block
<1>3. close <= Len(text) => Kind(close) = "fence"
  BY <1>0, <1>1
<1>4. \A k \in i + 1 .. close - 1 : Kind(k) # "fence"
  BY <1>1
<1> HIDE DEF close, run
<1>5. ASSUME NEW k \in i + 1 .. close PROVE Fences(k) = Fences(i) + 1
  <2>1. Fences(k) = Fences(i + 1)
    BY <1>0, <1>1, <1>4, NoFenceBetween
  <2>2. QED
    BY <2>1, FenceCounts
<1>6. Fences(i) \in Nat
  <2>1. i \in Nat
    BY <1>0
  <2>2. QED
    BY <2>1, FencesAreFinite
<1>7. \A k \in i + 1 .. close : InCode(k)
  BY <1>5, <1>6 DEF InCode
<1>8. close <= Len(text) => ~InCode(close + 1)
  <2>1. SUFFICES ASSUME close <= Len(text) PROVE ~InCode(close + 1)
    OBVIOUS
  <2>2. Fences(close + 1) = Fences(i) + 2
    BY <1>0, <1>1, <1>3, <1>5, <1>6, <2>1, FenceCounts
  <2>3. QED
    BY <1>6, <2>2 DEF InCode
<1>9. CodeBlock(i) \in BlockType
  <2>1. i + 1 .. close - 1 \in SUBSET Nat /\ close + 1 \in Nat
    BY <1>0, <1>1
  <2>2. QED
    BY <1>2, <2>1 DEF BlockType, BlockName
<1>10. \A k \in i .. close : k <= Len(text) => LeftOut(k) \/ k \in i + 1 .. close - 1
  BY <1>0, <1>1, <1>3 DEF LeftOut
<1>11. QED
  BY <1>0, <1>1, <1>2, <1>7, <1>8, <1>9, <1>10 DEF Takes

\* A table takes its header, its separator and the lines with a pipe that follow.
LEMMA TablePass ==
    ASSUME text \in Seq(LineKind), NEW i \in 1 .. Len(text), ~InCode(i), TableStarts(i)
    PROVE  Takes(Table(i), i)
<1> DEFINE run == {j \in DOMAIN text : Piped(j)}
           next == EndOfRun(i + 2, run)
           lines == {i} \cup (i + 2 .. next - 1)
<1>0. Len(text) \in Nat /\ DOMAIN text = 1 .. Len(text)
  OBVIOUS
<1>1. Kind(i + 1) = "separator" /\ i + 1 \in 1 .. Len(text) /\ Piped(i)
  BY <1>0 DEF TableStarts, Kind
<1>2. /\ next \in i + 2 .. Len(text) + 1
      /\ \A k \in i + 2 .. next - 1 : k \in run
  <2>1. i + 2 \in 1 .. Len(text) + 1 /\ run \in SUBSET (1 .. Len(text))
    BY <1>0, <1>1
  <2>2. QED
    BY <2>1, EndOfRunIs
<1>3. Table(i) = Block("table", lines, next)
  BY DEF Table
<1>4. \A k \in i + 2 .. next - 1 : Piped(k)
  BY <1>2
<1> HIDE DEF next, run
<1>5. \A k \in i .. next - 1 : k = i \/ k = i + 1 \/ k \in i + 2 .. next - 1
  BY <1>2
<1>6. \A k \in i .. next - 1 : Kind(k) # "fence"
  BY <1>1, <1>4, <1>5 DEF Piped
<1>7. lines \in SUBSET (i .. next - 1)
  BY <1>2
<1>8. \A k \in i .. next - 1 : k \notin lines => Kind(k) = "separator" /\ Piped(k - 1)
  BY <1>1, <1>5
<1>9. next \in i + 1 .. Len(text) + 1
  BY <1>0, <1>2
<1> HIDE DEF lines
<1>10. NoCode("table", lines, i, next)
  BY <1>6, <1>7, <1>8, <1>9 DEF NoCode, BlockName
<1>11. QED
  BY <1>3, <1>10, PlainPass

\* A list takes the lines of its kind.
LEMMA ListPass ==
    ASSUME text \in Seq(LineKind), NEW i \in 1 .. Len(text), ~InCode(i),
           NEW kinds, Kind(i) \in kinds, "fence" \notin kinds
    PROVE  Takes(List(i, kinds), i)
<1> DEFINE run == {j \in DOMAIN text : Kind(j) \in kinds}
           next == EndOfRun(i, run)
<1>0. Len(text) \in Nat /\ DOMAIN text = 1 .. Len(text)
  OBVIOUS
<1>1. /\ next \in i .. Len(text) + 1 /\ next \notin run
      /\ \A k \in i .. next - 1 : k \in run
  <2>1. i \in 1 .. Len(text) + 1 /\ run \in SUBSET (1 .. Len(text))
    BY <1>0
  <2>2. QED
    BY <2>1, EndOfRunIs
<1>2. i \in run
  BY <1>0
<1>3. List(i, kinds) = Block("list", i .. next - 1, next)
  BY DEF List
<1>4. \A k \in i .. next - 1 : Kind(k) # "fence"
  BY <1>1
<1> HIDE DEF next, run
<1>5. next \in i + 1 .. Len(text) + 1
  BY <1>0, <1>1, <1>2
<1>6. NoCode("list", i .. next - 1, i, next)
  BY <1>4, <1>5 DEF NoCode, BlockName
<1>7. QED
  BY <1>3, <1>6, PlainPass

\* A paragraph goes on up to a line that starts something else.
LEMMA ParagraphPass ==
    ASSUME text \in Seq(LineKind), NEW i \in 1 .. Len(text), ~InCode(i),
           Kind(i) \in {"plain", "row", "separator"}
    PROVE  Takes(Paragraph(i), i)
<1> DEFINE others == {"blank", "fence"} \cup Headings \cup Items \cup Numbers
           run == {j \in DOMAIN text : Kind(j) \notin others /\ ~TableStarts(j)}
           next == EndOfRun(i + 1, run)
<1>0. Len(text) \in Nat /\ DOMAIN text = 1 .. Len(text)
  OBVIOUS
<1>1. /\ next \in i + 1 .. Len(text) + 1
      /\ \A k \in i + 1 .. next - 1 : k \in run
  <2>1. i + 1 \in 1 .. Len(text) + 1 /\ run \in SUBSET (1 .. Len(text))
    BY <1>0
  <2>2. QED
    BY <2>1, EndOfRunIs
<1>2. Paragraph(i) = Block("paragraph", i .. next - 1, next)
  BY DEF Paragraph
<1>3. \A k \in run : Kind(k) \in {"plain", "row", "separator", "rule"}
  BY <1>0 DEF Kind, LineKind, Headings, Items, Numbers
<1> HIDE DEF next, run
<1>4. \A k \in i .. next - 1 : Kind(k) \in {"plain", "row", "separator", "rule"}
  <2>1. \A k \in i .. next - 1 : k = i \/ k \in i + 1 .. next - 1
    BY <1>1
  <2>2. QED
    BY <1>1, <1>3, <2>1
<1>5. NoCode("paragraph", i .. next - 1, i, next)
  BY <1>1, <1>4 DEF NoCode, BlockName
<1>6. QED
  BY <1>2, <1>5, PlainPass

\* Whatever a line is, the pass that starts there takes lines as it should.
LEMMA PassTakes ==
    ASSUME text \in Seq(LineKind), NEW i \in 1 .. Len(text), ~InCode(i)
    PROVE  Takes(BlockAt(i), i)
<1>0. Len(text) \in Nat /\ i + 1 \in i + 1 .. Len(text) + 1 /\ Kind(i) \in LineKind
  BY DEF Kind
<1> i .. (i + 1) - 1 = {i}
  BY <1>0
<1>1. TableStarts(i) => Kind(i) \in {"separator", "row", "pipedHeading", "pipedItem", "pipedNumber"}
  BY DEF TableStarts, Piped
<1>2. CASE Kind(i) = "fence"
  <2>1. BlockAt(i) = CodeBlock(i)
    BY <1>1, <1>2 DEF BlockAt, Headings, Items, Numbers
  <2>2. QED
    BY <1>2, <2>1, CodePass
<1>3. CASE TableStarts(i)
  <2>1. BlockAt(i) = Table(i)
    BY <1>1, <1>3 DEF BlockAt, Headings, Items, Numbers
  <2>2. QED
    BY <1>3, <2>1, TablePass
<1>4. CASE Kind(i) \in Headings /\ ~TableStarts(i)
  <2>1. BlockAt(i) = Block("heading", {i}, i + 1)
    BY <1>4 DEF BlockAt, Headings, Items, Numbers
  <2>2. NoCode("heading", {i}, i, i + 1)
    BY <1>0, <1>4 DEF NoCode, BlockName, Headings
  <2>3. QED
    BY <2>1, <2>2, PlainPass
<1>5. CASE Kind(i) = "rule"
  <2>1. BlockAt(i) = Block("rule", {}, i + 1)
    BY <1>1, <1>5 DEF BlockAt, Headings, Items, Numbers
  <2>2. NoCode("rule", {}, i, i + 1)
    BY <1>0, <1>5 DEF NoCode, BlockName
  <2>3. QED
    BY <2>1, <2>2, PlainPass
<1>6. CASE Kind(i) = "blank"
  <2>1. BlockAt(i) = Block("spacer", {}, i + 1)
    BY <1>1, <1>6 DEF BlockAt, Headings, Items, Numbers
  <2>2. NoCode("spacer", {}, i, i + 1)
    BY <1>0, <1>6 DEF NoCode, BlockName
  <2>3. QED
    BY <2>1, <2>2, PlainPass
<1>7. CASE Kind(i) \in Items /\ ~TableStarts(i)
  <2>1. BlockAt(i) = List(i, Items)
    BY <1>7 DEF BlockAt, Headings, Items, Numbers
  <2>2. "fence" \notin Items
    BY DEF Items
  <2>3. QED
    BY <1>7, <2>1, <2>2, ListPass
<1>8. CASE Kind(i) \in Numbers /\ ~TableStarts(i)
  <2>1. BlockAt(i) = List(i, Numbers)
    BY <1>8 DEF BlockAt, Headings, Items, Numbers
  <2>2. "fence" \notin Numbers
    BY DEF Numbers
  <2>3. QED
    BY <1>8, <2>1, <2>2, ListPass
<1>9. CASE Kind(i) \in {"plain", "row", "separator"} /\ ~TableStarts(i)
  <2>1. BlockAt(i) = Paragraph(i)
    BY <1>9 DEF BlockAt, Headings, Items, Numbers
  <2>2. QED
    BY <1>9, <2>1, ParagraphPass
<1>10. QED
  BY <1>0, <1>2, <1>3, <1>4, <1>5, <1>6, <1>7, <1>8, <1>9 DEF LineKind, Headings, Items, Numbers

\* While the text is read no line has been passed; a pass adds its lines after
\* those of the passes before it.
LEMMA TextInvStep == TextInv /\ [Next]_vars => TextInv'
<1> SUFFICES ASSUME TextInv, [TextNext]_textVars PROVE TextInv'
  BY OnePartMoves
<1>0. Len(text) \in Nat /\ Len(blocks) \in Nat /\ DOMAIN blocks = 1 .. Len(blocks)
  BY DEF TextInv
<1>1. CASE UNCHANGED textVars
  <2>1. text' = text /\ cursor' = cursor /\ blocks' = blocks
    BY <1>1 DEF textVars
  <2>2. \A i : InCode(i)' = InCode(i) /\ LeftOut(i)' = LeftOut(i) /\ Kind(i)' = Kind(i)
    BY <2>1 DEF Kind, Piped, InCode, Fences, LeftOut
  <2>3. LinesAreShownOnce'
    BY <2>1, <2>2 DEF TextInv, LinesAreShownOnce
  <2>4. ~InCode(cursor)' <=> ~InCode(cursor)
    BY <2>1 DEF InCode, Fences, Kind
  <2>5. QED
    BY <2>1, <2>3, <2>4 DEF TextInv
<1>2. CASE AppendLine
  <2>1. text' \in Seq(LineKind) /\ cursor' = 1 /\ blocks' = blocks
    BY <1>2 DEF AppendLine, TextInv
  <2>2. blocks = <<>>
    BY <1>0, <1>2 DEF AppendLine, TextInv, LinesAreShownOnce
  <2>3. Fences(1)' = 0
    <3>1. {k \in 1 .. 1 - 1 : (Kind(k) = "fence")'} = {}
      OBVIOUS
    <3>2. QED
      BY <3>1, FS_EmptySet DEF Fences
  <2>4. ~InCode(cursor)'
    BY <2>1, <2>3 DEF InCode
  <2>5. LinesAreShownOnce'
    BY <2>1, <2>2 DEF LinesAreShownOnce, ToSet
  <2>6. QED
    BY <2>1, <2>2, <2>4, <2>5 DEF TextInv
<1>3. CASE NextBlock
  <2> DEFINE block == BlockAt(cursor)
  <2>1. Takes(block, cursor)
    BY <1>0, <1>3, PassTakes DEF NextBlock, TextInv
  <2>2. text' = text /\ cursor' = block.next /\ blocks' = Append(blocks, block)
    BY <1>3 DEF NextBlock
  <2> HIDE DEF block
  <2>3. block \in BlockType /\ cursor \in Nat /\ cursor' \in Nat /\ cursor < cursor'
    BY <2>1, <2>2 DEF Takes, BlockType, TextInv
  <2>4. /\ blocks' \in Seq(BlockType) /\ Len(blocks') = Len(blocks) + 1
        /\ \A b \in 1 .. Len(blocks) : blocks'[b] = blocks[b]
        /\ blocks'[Len(blocks) + 1] = block
    BY <1>0, <2>2, <2>3 DEF TextInv
  <2>5. ToSet(blocks') = ToSet(blocks) \cup {block}
    BY <1>0, <2>4 DEF ToSet
  <2>6. /\ \A i : Kind(i)' = Kind(i) /\ Piped(i)' = Piped(i)
        /\ \A i : InCode(i)' = InCode(i) /\ LeftOut(i)' = LeftOut(i)
    BY <2>2 DEF Kind, Piped, InCode, Fences, LeftOut
  <2>7. LinesAreShownOnce'
    <3>1. ASSUME NEW a \in DOMAIN blocks', NEW b \in DOMAIN blocks', a < b,
                 NEW i \in blocks'[a].lines, NEW j \in blocks'[b].lines
          PROVE  i < j
      <4>0. DOMAIN blocks' = 1 .. Len(blocks) + 1
        BY <1>0, <2>4
      <4>1. a \in 1 .. Len(blocks) /\ blocks'[a] = blocks[a] /\ blocks[a] \in ToSet(blocks)
        BY <1>0, <2>4, <3>1, <4>0 DEF ToSet
      <4>2. i \in Nat /\ i < cursor
        BY <4>1 DEF TextInv, LinesAreShownOnce
      <4>3. CASE b = Len(blocks) + 1
        <5>1. j \in Nat /\ cursor <= j
          BY <2>1, <2>4, <3>1, <4>3 DEF Takes, BlockType
        <5>2. QED
          BY <2>3, <4>2, <5>1
      <4>4. CASE b # Len(blocks) + 1
        <5>1. b \in 1 .. Len(blocks) /\ blocks'[b] = blocks[b]
          BY <1>0, <2>4, <4>0, <4>4
        <5>2. QED
          BY <1>0, <3>1, <4>1, <5>1 DEF TextInv, LinesAreShownOnce
      <4>5. QED
        BY <4>3, <4>4
    <3>2. ASSUME NEW i \in 1 .. Len(text), i < cursor'
          PROVE  LeftOut(i) \/ \E b \in ToSet(blocks') : i \in b.lines
      <4>1. CASE i < cursor
        BY <2>5, <4>1 DEF TextInv, LinesAreShownOnce
      <4>2. CASE cursor <= i
        <5>1. i \in cursor .. block.next - 1
          BY <1>0, <2>2, <2>3, <3>2, <4>2
        <5>2. LeftOut(i) \/ i \in block.lines
          BY <1>0, <2>1, <5>1 DEF Takes
        <5>3. QED
          BY <2>5, <5>2
      <4>3. QED
        BY <2>3, <4>1, <4>2
    <3>3. ASSUME NEW b \in ToSet(blocks'), NEW i \in b.lines
          PROVE  /\ i \in 1 .. Len(text) /\ i < cursor'
                 /\ b.name = "code" <=> InCode(i)
                 /\ b.name = "paragraph" => Kind(i) \in {"plain", "row", "separator", "rule"}
      <4>1. CASE b \in ToSet(blocks)
        BY <1>0, <2>3, <4>1 DEF TextInv, LinesAreShownOnce
      <4>2. CASE b = block
        <5>1. i \in Nat /\ cursor > 0
          BY <2>3, <4>2 DEF BlockType, TextInv
        <5>2. QED
          BY <1>0, <2>1, <2>2, <2>3, <4>2, <5>1 DEF Takes
      <4>3. QED
        BY <2>5, <4>1, <4>2
    <3>4. Len(blocks') < cursor'
      BY <1>0, <2>3, <2>4 DEF TextInv, LinesAreShownOnce
    <3>5. QED
      BY <2>2, <2>6, <3>1, <3>2, <3>3, <3>4 DEF LinesAreShownOnce
  <2>8. cursor' <= Len(text)' => ~InCode(cursor)'
    BY <2>1, <2>2, <2>6 DEF Takes, InCode, Fences, Kind
  <2>9. QED
    BY <2>2, <2>3, <2>4, <2>7, <2>8 DEF TextInv
<1>4. QED
  BY <1>1, <1>2, <1>3 DEF TextNext

\* Every line of an answer that the loop went through is in one block, in its place,
\* or is one that may be left out; code is what stands between fences, and the loop
\* ends. For every text (the loop of Markdown).
THEOREM EachLineIsShownOnce == Spec => []LinesAreShownOnce
<1>1. Init => TextInv
  <2> SUFFICES ASSUME Init PROVE TextInv
    OBVIOUS
  <2>1. text = <<>> /\ cursor = 1 /\ blocks = <<>>
    BY DEF Init, TextInit
  <2>2. QED
    BY <2>1 DEF TextInv, LinesAreShownOnce, ToSet
<1>2. TextInv => LinesAreShownOnce
  BY DEF TextInv
<1>3. QED
  BY <1>1, <1>2, TextInvStep, PTL DEF Spec

-----------------------------------------------------------------------------
(* The local graph *)

\* A set of numbers that has zero, and with a number the next, has all of them.
LEMMA Induction ==
    ASSUME NEW S, 0 \in S, \A k \in Nat : k \in S => k + 1 \in S
    PROVE  \A k \in Nat : k \in S
<1> SUFFICES ASSUME Nat \ S # {} PROVE FALSE
  OBVIOUS
<1>1. Nat \ S \in SUBSET Nat
  OBVIOUS
<1>2. /\ Min(Nat \ S) \in Nat \ S
      /\ \A y \in Nat \ S : Min(Nat \ S) <= y
  BY <1>1, LeastOf
<1>3. PICK m \in Nat \ S : \A y \in Nat \ S : m <= y
  BY <1>2
<1>4. m - 1 \in Nat /\ ~(m <= m - 1) /\ (m - 1) + 1 = m
  BY <1>3
<1>5. m - 1 \in S
  BY <1>3, <1>4
<1>6. QED
  BY <1>3, <1>4, <1>5

\* The rows are a bag of edges; the ids of their ends need not be stored.
GraphInv ==
    /\ nodes \subseteq Id /\ IsFiniteSet(nodes)
    /\ DOMAIN rows \subseteq Edge /\ IsFiniteSet(DOMAIN rows)
    /\ \A e \in DOMAIN rows : rows[e] \in Nat \ {0}

\* The steps of a walk, one after the other.
IsTrack(start, n, w) ==
    /\ Walk(start, n) = w[n] /\ w[0] = AtStart(start)
    /\ \A k \in 1 .. n : w[k] = Hop(w[k - 1])

\* The loop over the hops can be followed step by step.
LEMMA WalkUnfolds ==
    ASSUME NEW start, NEW n \in Nat
    PROVE  \E w : IsTrack(start, n, w)
<1> DEFINE IsWalk(m, w) ==
             w = [hop \in 0 .. m |-> IF hop = 0 THEN AtStart(start) ELSE Hop(w[hop - 1])]
           S == {m \in Nat : \E w : IsWalk(m, w)}
<1>1. 0 \in S
  <2> DEFINE w == [hop \in 0 .. 0 |-> AtStart(start)]
  <2>1. IsWalk(0, w)
    OBVIOUS
  <2> HIDE DEF w, IsWalk
  <2>2. QED
    BY <2>1
<1>2. ASSUME NEW m \in Nat, m \in S PROVE m + 1 \in S
  <2>1. PICK w : IsWalk(m, w)
    BY <1>2
  <2> DEFINE v == [hop \in 0 .. m + 1 |-> IF hop <= m THEN w[hop] ELSE Hop(w[m])]
  <2>2. \A hop \in 0 .. m : w[hop] = IF hop = 0 THEN AtStart(start) ELSE Hop(w[hop - 1])
    BY <2>1
  <2>3. ASSUME NEW hop \in 0 .. m + 1
        PROVE  v[hop] = IF hop = 0 THEN AtStart(start) ELSE Hop(v[hop - 1])
    <3>1. CASE hop <= m
      <4>1. v[hop] = w[hop] /\ (hop # 0 => v[hop - 1] = w[hop - 1]) /\ hop \in 0 .. m
        BY <3>1
      <4> HIDE DEF v, IsWalk
      <4>2. QED
        BY <2>2, <4>1
    <3>2. CASE ~(hop <= m)
      <4>1. hop = m + 1 /\ hop # 0 /\ v[hop] = Hop(w[m]) /\ v[hop - 1] = w[m]
        BY <3>2
      <4> HIDE DEF v, IsWalk
      <4>2. QED
        BY <4>1
    <3>3. QED
      BY <3>1, <3>2
  <2>4. v = [hop \in 0 .. m + 1 |-> v[hop]]
    OBVIOUS
  <2> HIDE DEF v
  <2>5. IsWalk(m + 1, v)
    BY <2>3, <2>4
  <2> HIDE DEF IsWalk
  <2>6. QED
    BY <2>5
<1> HIDE DEF S
<1>3. n \in S
  BY <1>1, <1>2, Induction
<1>4. PICK v : IsWalk(n, v)
  BY <1>3 DEF S
<1> DEFINE w == CHOOSE w : IsWalk(n, w)
<1>5. IsWalk(n, w)
  <2> HIDE DEF IsWalk
  <2>1. QED
    BY <1>4
<1>6. Walk(start, n) = w[n]
  BY DEF Walk
<1> HIDE DEF w
<1>7. \A hop \in 0 .. n : w[hop] = IF hop = 0 THEN AtStart(start) ELSE Hop(w[hop - 1])
  BY <1>5
<1>8. IsTrack(start, n, w)
  BY <1>6, <1>7 DEF IsTrack
<1>9. QED
  BY <1>8

\* Nothing is within less than no hop, and only the start within none.
LEMMA WithinNone ==
    ASSUME NEW start, NEW m
    PROVE  ~Within(start, m, 0 - 1) /\ (Within(start, m, 0) <=> start = m)
BY DEF Within

\* What is within some hops is within more.
LEMMA WithinMore ==
    ASSUME NEW k \in Nat, NEW start, NEW m, Within(start, m, k)
    PROVE  Within(start, m, k + 1)
<1>1. CASE start = m
  BY <1>1 DEF Within
<1>2. CASE start # m
  <2>1. 1 .. k \subseteq 1 .. k + 1
    OBVIOUS
  <2>2. QED
    BY <1>2, <2>1 DEF Within
<1>3. QED
  BY <1>1, <1>2

\* A path of some edges, with one more.
LEMMA WithinNext ==
    ASSUME NEW k \in Nat, NEW start \in Id, NEW m \in Id, NEW node \in Id,
           Within(start, m, k), Joined(m, node)
    PROVE  Within(start, node, k + 1)
<1>1. CASE start = m
  <2> DEFINE middle == [i \in 1 .. 1 - 1 |-> start]
             path == [i \in 0 .. 1 |-> IF i = 0 THEN start
                                       ELSE IF i = 1 THEN node ELSE middle[i]]
  <2>1. middle \in [1 .. 1 - 1 -> Id] /\ 1 \in 1 .. k + 1
    OBVIOUS
  <2>2. \A i \in 1 .. 1 : i = 1 /\ path[i - 1] = start /\ path[i] = node
    OBVIOUS
  <2>3. \A i \in 1 .. 1 : Joined(path[i - 1], path[i])
    BY <1>1, <2>2
  <2>4. QED
    BY <2>1, <2>3 DEF Within
<1>2. CASE start # m
  <2>0. PICK j \in 1 .. k : \E middle \in [1 .. j - 1 -> Id] :
             LET path == [i \in 0 .. j |-> IF i = 0 THEN start
                                           ELSE IF i = j THEN m ELSE middle[i]]
             IN \A i \in 1 .. j : Joined(path[i - 1], path[i])
    BY <1>2 DEF Within
  <2>1. PICK middle \in [1 .. j - 1 -> Id] :
             LET path == [i \in 0 .. j |-> IF i = 0 THEN start
                                           ELSE IF i = j THEN m ELSE middle[i]]
             IN \A i \in 1 .. j : Joined(path[i - 1], path[i])
    BY <2>0
  <2> DEFINE path == [i \in 0 .. j |-> IF i = 0 THEN start
                                       ELSE IF i = j THEN m ELSE middle[i]]
             further == [i \in 1 .. (j + 1) - 1 |-> IF i = j THEN m ELSE middle[i]]
             longer == [i \in 0 .. j + 1 |-> IF i = 0 THEN start
                                             ELSE IF i = j + 1 THEN node ELSE further[i]]
  <2>2. further \in [1 .. (j + 1) - 1 -> Id] /\ j + 1 \in 1 .. k + 1
    OBVIOUS
  <2>3. \A i \in 0 .. j : longer[i] = path[i]
    OBVIOUS
  <2>4. longer[j + 1] = node /\ longer[j] = m
    OBVIOUS
  <2>5. \A i \in 1 .. j : Joined(path[i - 1], path[i])
    BY <2>1
  <2>6. ASSUME NEW i \in 1 .. j + 1 PROVE Joined(longer[i - 1], longer[i])
    <3>1. CASE i = j + 1
      <4>1. i - 1 = j
        BY <3>1
      <4> HIDE DEF longer
      <4>2. QED
        BY <3>1, <2>4, <4>1
    <3>2. CASE i # j + 1
      <4>1. i \in 1 .. j /\ i - 1 \in 0 .. j /\ i \in 0 .. j
        BY <3>2
      <4> HIDE DEF longer, path
      <4>2. QED
        BY <2>3, <2>5, <4>1
    <3>3. QED
      BY <3>1, <3>2
  <2> HIDE DEF further
  <2>7. QED
    BY <2>2, <2>6 DEF Within
<1>3. QED
  BY <1>1, <1>2

\* The last edge of a path taken away.
LEMMA WithinLast ==
    ASSUME NEW k \in Nat, NEW start \in Id, NEW node \in Id, Within(start, node, k + 1)
    PROVE  \/ Within(start, node, k)
           \/ \E m \in Id : Within(start, m, k) /\ Joined(m, node)
<1>1. CASE start = node
  BY <1>1 DEF Within
<1>2. CASE start # node
  <2>0. PICK j \in 1 .. k + 1 : \E middle \in [1 .. j - 1 -> Id] :
             LET path == [i \in 0 .. j |-> IF i = 0 THEN start
                                           ELSE IF i = j THEN node ELSE middle[i]]
             IN \A i \in 1 .. j : Joined(path[i - 1], path[i])
    BY <1>2 DEF Within
  <2>1. PICK middle \in [1 .. j - 1 -> Id] :
             LET path == [i \in 0 .. j |-> IF i = 0 THEN start
                                           ELSE IF i = j THEN node ELSE middle[i]]
             IN \A i \in 1 .. j : Joined(path[i - 1], path[i])
    BY <2>0
  <2> DEFINE path == [i \in 0 .. j |-> IF i = 0 THEN start
                                       ELSE IF i = j THEN node ELSE middle[i]]
  <2>2. \A i \in 1 .. j : Joined(path[i - 1], path[i])
    BY <2>1
  <2>3. CASE j <= k
    <3>1. j \in 1 .. k
      BY <2>3
    <3>2. QED
      BY <2>2, <3>1 DEF Within
  <2>4. CASE j = k + 1 /\ k = 0
    <3>1. path[0] = start /\ path[1] = node /\ 1 \in 1 .. j
      BY <2>4
    <3>2. Joined(start, node)
      <4> HIDE DEF path
      <4>1. path[1 - 1] = start
        BY <3>1
      <4>2. QED
        BY <2>2, <3>1, <4>1
    <3>3. Within(start, start, k)
      BY DEF Within
    <3>4. QED
      BY <3>2, <3>3
  <2>5. CASE j = k + 1 /\ k # 0
    <3> DEFINE m == middle[k]
               shorter == [i \in 1 .. k - 1 |-> middle[i]]
               before == [i \in 0 .. k |-> IF i = 0 THEN start
                                           ELSE IF i = k THEN m ELSE shorter[i]]
    <3>1. m \in Id /\ shorter \in [1 .. k - 1 -> Id] /\ k \in 1 .. k
      BY <2>5
    <3>2. \A i \in 0 .. k : before[i] = path[i]
      BY <2>5
    <3>3. path[k] = m /\ path[k + 1] = node /\ k + 1 \in 1 .. j /\ (k + 1) - 1 = k
      BY <2>5
    <3>4. ASSUME NEW i \in 1 .. k PROVE Joined(before[i - 1], before[i])
      <4>1. i \in 1 .. j /\ i - 1 \in 0 .. k /\ i \in 0 .. k
        BY <2>5
      <4> HIDE DEF before, path
      <4>2. QED
        BY <2>2, <3>2, <4>1
    <3>5. Joined(m, node)
      <4> HIDE DEF path, m
      <4>1. QED
        BY <2>2, <3>3
    <3> HIDE DEF m, shorter
    <3>6. Within(start, m, k)
      BY <3>1, <3>4 DEF Within
    <3>7. QED
      BY <3>1, <3>5, <3>6
  <2>6. QED
    BY <2>3, <2>4, <2>5
<1>3. QED
  BY <1>1, <1>2

\* The other end of an edge that touches the frontier, which holds the one end.
LEMMA NeighborIs ==
    ASSUME NEW e \in Edge, NEW frontier, Ends(e) \cap frontier # {}
    PROVE  \E x \in frontier : Ends(e) = {x, Neighbor(e, frontier)}
<1>1. Ends(e) = {e.source, e.target}
  BY DEF Ends
<1>2. CASE e.source \in frontier
  BY <1>1, <1>2 DEF Neighbor
<1>3. CASE e.source \notin frontier
  <2>1. e.target \in frontier /\ Neighbor(e, frontier) = e.source
    BY <1>1, <1>3 DEF Neighbor
  <2>2. QED
    BY <1>1, <2>1
<1>4. QED
  BY <1>2, <1>3

\* The start, and the ends of the rows.
Linked(start) == {start} \cup UNION {Ends(e) : e \in DOMAIN rows}

\* What a walk left for the next layer.
Inner(w) == w.visited \ w.frontier

\* The rows with an end that was left.
Met(w) == {e \in DOMAIN rows : Ends(e) \cap Inner(w) # {}}

\* What a walk of so many hops has visited: the frontier is its last layer, within it
\* are the nodes of fewer hops, and no edge leads out from there.
Around(start, w, k) ==
    /\ start \in w.visited /\ w.visited \subseteq Linked(start) \cap Id
    /\ w.frontier \subseteq w.visited
    /\ \A m \in Id : m \in w.visited <=> Within(start, m, k)
    /\ \A m \in Id : m \in Inner(w) <=> Within(start, m, k - 1)
    /\ \A e \in Met(w) : Ends(e) \subseteq w.visited
    /\ w.frontier = {} \/ Cardinality(w.visited) >= k + 1

\* An edge is there once for every hop that touched it, which its second end does
\* unless that was left too.
Counted(w) ==
    /\ DOMAIN w.edges = Met(w)
    /\ \A e \in Met(w) :
         /\ w.edges[e] \in {rows[e], 2 * rows[e]}
         /\ Ends(e) \cap w.frontier # {} => w.edges[e] = rows[e]

\* At the start there is the start alone, and no row was left.
LEMMA StartsAround ==
    ASSUME NEW start \in Id
    PROVE  Around(start, AtStart(start), 0) /\ Counted(AtStart(start))
<1> DEFINE w == AtStart(start)
<1>1. w.visited = {start} /\ w.frontier = {start} /\ DOMAIN w.edges = {}
  BY DEF AtStart, EmptyBag, SetToBag
<1> HIDE DEF w
<1>2. Cardinality(w.visited) >= 0 + 1
  <2>1. Cardinality(w.visited) = 1
    BY <1>1, FS_Singleton
  <2>2. QED
    BY <2>1
<1>3. Inner(w) = {} /\ Met(w) = {}
  BY <1>1 DEF Inner, Met
<1>4. \A m : ~Within(start, m, 0 - 1) /\ (Within(start, m, 0) <=> start = m)
  BY WithinNone
<1>5. Around(start, w, 0)
  BY <1>1, <1>2, <1>3, <1>4 DEF Around, Linked
<1>6. Counted(w)
  BY <1>1, <1>3 DEF Counted
<1>7. QED
  BY <1>5, <1>6 DEF w

\* The nodes that may be visited are finitely many.
LEMMA LinkedIsFinite ==
    ASSUME GraphInv, NEW start
    PROVE  IsFiniteSet(Linked(start))
<1> DEFINE ends == {Ends(e) : e \in DOMAIN rows}
<1>1. IsFiniteSet(ends)
  <2> DEFINE f == [e \in DOMAIN rows |-> Ends(e)]
  <2>1. f \in Surjection(DOMAIN rows, ends)
    BY DEF Surjection
  <2>2. QED
    BY <2>1, FS_Surjection DEF GraphInv
<1>2. \A s \in ends : IsFiniteSet(s)
  <2>1. \A e \in DOMAIN rows : IsFiniteSet(Ends(e))
    <3>1. \A a, b : IsFiniteSet({a} \cup {b})
      BY FS_Singleton, FS_Union
    <3>2. \A e : Ends(e) = {e.source} \cup {e.target}
      BY DEF Ends
    <3>3. QED
      BY <3>1, <3>2
  <2>2. QED
    BY <2>1
<1>3. IsFiniteSet(UNION ends)
  BY <1>1, <1>2, FS_UNION
<1>4. QED
  BY <1>3, FS_Singleton, FS_Union DEF Linked

\* A hop goes around the next layer.
LEMMA HopGoesAround ==
    ASSUME GraphInv, NEW start \in Id, NEW w, NEW k \in Nat, Around(start, w, k)
    PROVE  Around(start, Hop(w), k + 1)
<1> DEFINE touched == {e \in DOMAIN rows : Ends(e) \cap w.frontier # {}}
           next == {Neighbor(e, w.frontier) : e \in touched}
           v == Hop(w)
<1>1. v.visited = w.visited \cup next /\ v.frontier = next \ w.visited
  BY DEF Hop
<1> HIDE DEF v
<1>2. Inner(v) = w.visited
  BY <1>1 DEF Inner
<1>3. \A e \in DOMAIN rows : e \in Edge /\ Ends(e) \subseteq Id /\ Ends(e) \subseteq Linked(start)
  BY DEF GraphInv, Edge, Ends, Linked
<1>4. \A e \in touched : \E x \in w.frontier : Ends(e) = {x, Neighbor(e, w.frontier)}
  BY <1>3, NeighborIs
<1>5. \A m \in next : \E e \in touched, x \in w.frontier : Ends(e) = {x, m}
  BY <1>4
<1>6. next \subseteq Linked(start) \cap Id
  BY <1>3, <1>5
<1>7. ASSUME NEW e \in Met(v) PROVE Ends(e) \subseteq v.visited
  <2>1. CASE Ends(e) \cap Inner(w) # {}
    BY <1>1, <2>1 DEF Around, Met
  <2>2. CASE Ends(e) \cap Inner(w) = {}
    <3>1. e \in touched
      BY <1>2, <2>2 DEF Met, Inner
    <3>2. Neighbor(e, w.frontier) \in next
      BY <3>1
    <3>3. QED
      BY <1>1, <1>4, <3>1, <3>2 DEF Around
  <2>3. QED
    BY <2>1, <2>2
<1> HIDE DEF touched, next
<1>8. ASSUME NEW m \in Id, m \in v.visited PROVE Within(start, m, k + 1)
  <2>1. CASE m \in w.visited
    BY <2>1, WithinMore DEF Around
  <2>2. CASE m \in next
    <3>1. PICK e \in touched, x \in w.frontier : Ends(e) = {x, m}
      BY <1>5, <2>2
    <3>2. Joined(x, m) /\ x \in Id /\ Within(start, x, k)
      BY <3>1 DEF Joined, touched, Around
    <3>3. QED
      BY <3>2, WithinNext
  <2>3. QED
    BY <1>1, <1>8, <2>1, <2>2
<1>9. ASSUME NEW m \in Id, Within(start, m, k + 1) PROVE m \in v.visited
  <2>1. CASE Within(start, m, k)
    BY <1>1, <2>1 DEF Around
  <2>2. CASE \E x \in Id : Within(start, x, k) /\ Joined(x, m)
    <3>1. PICK x \in Id : Within(start, x, k) /\ Joined(x, m)
      BY <2>2
    <3>2. PICK e \in DOMAIN rows : Ends(e) = {x, m}
      BY <3>1 DEF Joined
    <3>3. x \in w.visited
      BY <3>1 DEF Around
    <3>4. e \in Met(v)
      BY <1>2, <3>2, <3>3 DEF Met
    <3>5. QED
      BY <1>7, <3>2, <3>4
  <2>3. QED
    BY <1>9, <2>1, <2>2, WithinLast
<1>10. v.frontier = {} \/ Cardinality(v.visited) >= (k + 1) + 1
  <2>1. SUFFICES ASSUME v.frontier # {} PROVE Cardinality(v.visited) >= (k + 1) + 1
    OBVIOUS
  <2>2. PICK m \in next : m \notin w.visited
    BY <1>1, <2>1
  <2>3. w.frontier # {}
    BY <1>5, <2>2
  <2>4. IsFiniteSet(v.visited) /\ IsFiniteSet(w.visited)
    BY <1>1, <1>6, LinkedIsFinite, FS_Subset DEF Around
  <2>5. w.visited \subseteq v.visited /\ w.visited # v.visited
    BY <1>1, <2>2
  <2>6. Cardinality(w.visited) \in Nat /\ Cardinality(v.visited) \in Nat
    BY <2>4, FS_CardinalityType
  <2>7. Cardinality(w.visited) < Cardinality(v.visited)
    <3>1. w.visited \in SUBSET v.visited
      BY <2>5
    <3>2. /\ Cardinality(w.visited) <= Cardinality(v.visited)
          /\ Cardinality(v.visited) # Cardinality(w.visited)
      BY <2>4, <2>5, <3>1, FS_Subset
    <3>3. QED
      BY <2>6, <3>2
  <2>8. Cardinality(w.visited) >= k + 1
    BY <2>3 DEF Around
  <2>9. QED
    BY <2>6, <2>7, <2>8
<1>11. (k + 1) - 1 = k
  OBVIOUS
<1>12. Around(start, v, k + 1)
  BY <1>1, <1>2, <1>6, <1>7, <1>8, <1>9, <1>10, <1>11 DEF Around
<1>13. QED
  BY <1>12 DEF v

\* A hop counts the rows that touch the frontier once more.
LEMMA HopCounts ==
    ASSUME GraphInv, NEW start \in Id, NEW w, NEW k \in Nat, Around(start, w, k), Counted(w)
    PROVE  Counted(Hop(w))
<1> DEFINE touched == {e \in DOMAIN rows : Ends(e) \cap w.frontier # {}}
           next == {Neighbor(e, w.frontier) : e \in touched}
           v == Hop(w)
<1>1. /\ v.visited = w.visited \cup next /\ v.frontier = next \ w.visited
      /\ v.edges = w.edges (+) [e \in touched |-> rows[e]]
  BY DEF Hop
<1> HIDE DEF v
<1>2. Inner(v) = w.visited
  BY <1>1 DEF Inner
<1>3. Met(v) = Met(w) \cup touched
  BY <1>2 DEF Met, Inner, Around
<1>4. DOMAIN v.edges = Met(v)
  BY <1>1, <1>3 DEF Counted, (+)
<1>5. \A e \in Met(v) :
        v.edges[e] = (IF e \in Met(w) THEN w.edges[e] ELSE 0)
                       + (IF e \in touched THEN rows[e] ELSE 0)
  BY <1>1, <1>3 DEF Counted, (+)
<1> HIDE DEF next
<1>6. ASSUME NEW e \in Met(v)
      PROVE  /\ v.edges[e] \in {rows[e], 2 * rows[e]}
             /\ Ends(e) \cap v.frontier # {} => v.edges[e] = rows[e]
  <2>0. rows[e] \in Nat
    BY DEF GraphInv, Met
  <2>1. CASE e \in Met(w) /\ e \in touched
    <3>1. w.edges[e] = rows[e]
      BY <2>1 DEF Counted
    <3>2. Ends(e) \cap v.frontier = {}
      BY <1>1, <2>1 DEF Around
    <3>3. QED
      BY <1>5, <2>0, <2>1, <3>1, <3>2
  <2>2. CASE e \in Met(w) /\ e \notin touched
    <3>1. v.edges[e] = w.edges[e]
      BY <1>5, <2>0, <2>2 DEF Counted
    <3>2. Ends(e) \cap v.frontier = {}
      BY <1>1, <2>2 DEF Around
    <3>3. QED
      BY <2>2, <3>1, <3>2 DEF Counted
  <2>3. CASE e \notin Met(w)
    <3>1. v.edges[e] = rows[e]
      BY <1>3, <1>5, <2>0, <2>3
    <3>2. QED
      BY <3>1
  <2>4. QED
    BY <2>1, <2>2, <2>3
<1>7. QED
  BY <1>4, <1>6 DEF Counted, v

\* After any number of hops.
LEMMA WalkGoesAround ==
    ASSUME GraphInv, NEW start \in Id, NEW n \in Nat
    PROVE  Around(start, Walk(start, n), n) /\ Counted(Walk(start, n))
<1>0. PICK w : IsTrack(start, n, w)
  BY WalkUnfolds
<1>1. /\ Walk(start, n) = w[n] /\ w[0] = AtStart(start)
      /\ \A k \in 1 .. n : w[k] = Hop(w[k - 1])
  BY <1>0 DEF IsTrack
<1> DEFINE S == {k \in Nat : k <= n => Around(start, w[k], k) /\ Counted(w[k])}
<1>2. 0 \in S
  BY <1>1, StartsAround
<1>3. ASSUME NEW k \in Nat, k \in S PROVE k + 1 \in S
  <2>1. SUFFICES ASSUME k + 1 <= n PROVE Around(start, w[k + 1], k + 1) /\ Counted(w[k + 1])
    OBVIOUS
  <2>2. k + 1 \in 1 .. n /\ (k + 1) - 1 = k /\ k <= n
    BY <2>1
  <2>3. w[k + 1] = Hop(w[k])
    BY <1>1, <2>2
  <2>4. Around(start, w[k], k) /\ Counted(w[k])
    BY <1>3, <2>2
  <2>5. QED
    BY <2>3, <2>4, HopGoesAround, HopCounts
<1> HIDE DEF S
<1>4. n \in S
  BY <1>2, <1>3, Induction
<1>5. QED
  BY <1>1, <1>4 DEF S

\* What the closure must have visited once it has visited some nodes: what is in every
\* set that it can stop with.
Closure(start, visited) ==
    {n \in Id : \A s \in SUBSET Id :
        visited \subseteq s /\ Targets(start, s) \subseteq s => n \in s}

\* The more is visited the more is next, and the start never is.
LEMMA TargetsGrow ==
    ASSUME GraphInv, NEW start, NEW u, NEW v
    PROVE  /\ u \subseteq v => Targets(start, u) \subseteq Targets(start, v)
           /\ Targets(start, u) \subseteq {e.target : e \in Adjacent} \cap Id
           /\ start \notin Targets(start, u)
<1>1. Adjacent \subseteq Edge
  BY DEF Adjacent, Matching, GraphInv
<1>2. \A e \in Edge : e.target \in Id
  BY DEF Edge
<1>3. QED
  BY <1>1, <1>2 DEF Targets

\* A closed set is its closure, and what is next belongs to the closure.
LEMMA ClosureSteps ==
    ASSUME GraphInv, NEW start, NEW v \in SUBSET Id
    PROVE  /\ Targets(start, v) \subseteq v => Closure(start, v) = v
           /\ v \cup Targets(start, v) \in SUBSET Id
           /\ Closure(start, v \cup Targets(start, v)) = Closure(start, v)
<1>1. Targets(start, v) \subseteq v => Closure(start, v) = v
  BY DEF Closure
<1>2. v \cup Targets(start, v) \in SUBSET Id
  BY TargetsGrow
<1>3. \A s \in SUBSET Id : Targets(start, s) \subseteq s =>
        (v \cup Targets(start, v) \subseteq s <=> v \subseteq s)
  BY TargetsGrow
<1>4. QED
  BY <1>1, <1>2, <1>3 DEF Closure

\* What Mode 2 derives from a node is what is in every set that the edges of the
\* closure do not leave.
LEMMA DerivedIsClosure ==
    ASSUME GraphInv, NEW start \in Id
    PROVE  Closure(start, {}) = Derived(start, Adjacent)
<1>0. Adjacent \subseteq Edge /\ \A e \in Edge : e.target \in Id
  BY DEF Adjacent, Matching, GraphInv, Edge
<1>1. ASSUME NEW s \in SUBSET Id, start \in s,
             \A e \in Adjacent : e.source \in s => e.target \in s
      PROVE  Targets(start, s) \subseteq s
  BY <1>1 DEF Targets
<1>2. ASSUME NEW s \in SUBSET Id, Targets(start, s) \subseteq s
      PROVE  \A e \in Adjacent : e.source \in s \cup {start} => e.target \in s \cup {start}
  BY <1>2 DEF Targets
<1>3. start \notin Closure(start, {})
  <2>1. Targets(start, Id \ {start}) \subseteq Id \ {start}
    BY TargetsGrow
  <2>2. QED
    BY <2>1 DEF Closure
<1>4. ASSUME NEW n \in Closure(start, {}) PROVE n \in Derived(start, Adjacent)
  BY <1>1, <1>3 DEF Closure, Derived
<1>5. ASSUME NEW n \in Derived(start, Adjacent) PROVE n \in Closure(start, {})
  <2>1. n \in Id /\ n # start
    BY DEF Derived
  <2>2. ASSUME NEW s \in SUBSET Id, Targets(start, s) \subseteq s PROVE n \in s
    <3>1. s \cup {start} \in SUBSET Id
      OBVIOUS
    <3>2. n \in s \cup {start}
      BY <1>2, <2>2, <3>1 DEF Derived
    <3>3. QED
      BY <2>1, <3>2
  <2>3. QED
    BY <2>1, <2>2 DEF Closure
<1>6. QED
  BY <1>4, <1>5

\* A function that closes a set step by step.
Closes(start, f) ==
    f = [v \in SUBSET Id |-> IF Targets(start, v) \subseteq v THEN v
                             ELSE f[v \cup Targets(start, v)]]

\* There is one.
LEMMA SomeCloses ==
    ASSUME GraphInv, NEW start
    PROVE  \E f : Closes(start, f)
<1> DEFINE f == [v \in SUBSET Id |-> Closure(start, v)]
<1>1. \A v \in SUBSET Id :
        f[v] = IF Targets(start, v) \subseteq v THEN v ELSE f[v \cup Targets(start, v)]
  BY ClosureSteps
<1>2. f = [v \in SUBSET Id |-> f[v]]
  OBVIOUS
<1> HIDE DEF f
<1>3. Closes(start, f)
  BY <1>1, <1>2 DEF Closes
<1>4. QED
  BY <1>3

\* All of them find the closure: each step visits one more of the targets, which are
\* finitely many.
LEMMA AllClose ==
    ASSUME GraphInv, NEW start, NEW f, Closes(start, f), NEW v0 \in SUBSET Id
    PROVE  f[v0] = Closure(start, v0)
<1> DEFINE T == {e.target : e \in Adjacent}
           S == {k \in Nat : \A v \in SUBSET Id :
                                Cardinality(T \ v) <= k => f[v] = Closure(start, v)}
<1>1. IsFiniteSet(T)
  <2> DEFINE g == [e \in Adjacent |-> e.target]
  <2>1. g \in Surjection(Adjacent, T)
    BY DEF Surjection
  <2>2. IsFiniteSet(Adjacent)
    BY FS_Subset DEF GraphInv, Adjacent, Matching
  <2>3. QED
    BY <2>1, <2>2, FS_Surjection
<1>2. \A v : Targets(start, v) \subseteq T
  BY TargetsGrow
<1> HIDE DEF T
<1>3. \A v \in SUBSET Id :
        f[v] = IF Targets(start, v) \subseteq v THEN v ELSE f[v \cup Targets(start, v)]
  BY DEF Closes
<1>4. \A v : IsFiniteSet(T \ v) /\ Cardinality(T \ v) \in Nat
  BY <1>1, FS_Difference, FS_CardinalityType
<1>5. ASSUME NEW v \in SUBSET Id, Targets(start, v) \subseteq v
      PROVE  f[v] = Closure(start, v)
  BY <1>3, <1>5, ClosureSteps
<1>6. 0 \in S
  <2>1. ASSUME NEW v \in SUBSET Id, Cardinality(T \ v) <= 0 PROVE f[v] = Closure(start, v)
    <3>1. Cardinality(T \ v) = 0
      BY <1>4, <2>1
    <3>2. T \ v = {}
      BY <1>4, <3>1, FS_EmptySet
    <3>3. QED
      BY <1>2, <1>5, <3>2
  <2>2. QED
    BY <2>1
<1>7. ASSUME NEW k \in Nat, k \in S PROVE k + 1 \in S
  <2>1. ASSUME NEW v \in SUBSET Id, Cardinality(T \ v) <= k + 1
        PROVE  f[v] = Closure(start, v)
    <3>1. CASE Targets(start, v) \subseteq v
      BY <1>5, <3>1
    <3>2. CASE ~(Targets(start, v) \subseteq v)
      <4> DEFINE u == v \cup Targets(start, v)
      <4>1. u \in SUBSET Id /\ Closure(start, u) = Closure(start, v) /\ f[v] = f[u]
        BY <1>3, <3>2, ClosureSteps
      <4>2. T \ u \in SUBSET (T \ v) /\ T \ u # T \ v
        BY <1>2, <3>2
      <4>3. /\ Cardinality(T \ u) <= Cardinality(T \ v)
            /\ Cardinality(T \ v) # Cardinality(T \ u)
        BY <1>4, <4>2, FS_Subset
      <4> HIDE DEF u
      <4>4. Cardinality(T \ u) <= k
        BY <1>4, <2>1, <4>3
      <4>5. f[u] = Closure(start, u)
        BY <1>7, <4>1, <4>4
      <4>6. QED
        BY <4>1, <4>5
    <3>3. QED
      BY <3>1, <3>2
  <2>2. QED
    BY <2>1
<1> HIDE DEF S
<1>8. Cardinality(T \ v0) \in S
  BY <1>4, <1>6, <1>7, Induction
<1>9. QED
  BY <1>4, <1>8 DEF S

\* The closure of Mode 2 finds what is derived.
LEMMA ClosureFinds ==
    ASSUME GraphInv, NEW start \in Id
    PROVE  transitiveClosure(start) = Derived(start, Adjacent)
<1> DEFINE f == CHOOSE f : Closes(start, f)
<1>1. Closes(start, f)
  BY SomeCloses
<1>2. transitiveClosure(start) = f[{}]
  BY DEF transitiveClosure, Closes
<1> HIDE DEF f
<1>3. f[{}] = Closure(start, {})
  BY <1>1, AllClose
<1>4. QED
  BY <1>2, <1>3, DerivedIsClosure

\* What Mode 2 reaches, in the words of the property.
LEMMA ReachFinds ==
    ASSUME GraphInv, NEW start \in Id
    PROVE  ReachIsDerived(start)
<1>1. OntologyMetric("blast_radius_score", start) = Cardinality(Derived(start, Adjacent))
  BY ClosureFinds DEF OntologyMetric
<1>2. Matching # {} => Adjacent = Matching
  BY DEF Adjacent
<1>3. Matching = {} => Adjacent = DOMAIN rows
  BY DEF Adjacent
<1>4. QED
  BY <1>1, <1>2, <1>3 DEF ReachIsDerived, Matching

\* What the walks and the closures from a node find.
LEMMA WalksFind ==
    ASSUME GraphInv, GraphAssumption, NEW start \in Id
    PROVE  FoundFrom(start)
<1> DEFINE derived == Derived(start, DOMAIN rows)
           stored == {n \in nodes : Within(start, n, Hops)}
           all == {start} \cup UNION {Ends(e) : e \in DOMAIN rows}
<1>0. Hops \in Nat /\ nodes \subseteq Id /\ \A e \in DOMAIN rows : Ends(e) \subseteq Id
  BY DEF GraphAssumption, GraphInv, Edge, Ends
<1>1. ASSUME NEW hops \in Nat
      PROVE  /\ traverseGraph(start, hops).nodes = {n \in nodes : Within(start, n, hops)}
             /\ DOMAIN traverseGraph(start, hops).edges
                  = {e \in DOMAIN rows : \E n \in Ends(e) : Within(start, n, hops - 1)}
             /\ \A e \in DOMAIN traverseGraph(start, hops).edges :
                  traverseGraph(start, hops).edges[e] \in {rows[e], 2 * rows[e]}
  <2> DEFINE w == Walk(start, hops)
  <2>1. Around(start, w, hops) /\ Counted(w)
    BY WalkGoesAround
  <2>2. /\ traverseGraph(start, hops).nodes = w.visited \cap nodes
        /\ traverseGraph(start, hops).edges = w.edges
    BY DEF traverseGraph
  <2> HIDE DEF w
  <2>3. w.visited \cap nodes = {n \in nodes : Within(start, n, hops)}
    BY <1>0, <2>1 DEF Around
  <2>4. Met(w) = {e \in DOMAIN rows : \E n \in Ends(e) : Within(start, n, hops - 1)}
    BY <1>0, <2>1 DEF Around, Met
  <2>5. QED
    BY <2>1, <2>2, <2>3, <2>4 DEF Counted
<1>2. traverseGraph(start, Hops).nodes = stored
  BY <1>0, <1>1
<1>3. Subgraph({start}).nodes = stored
  BY <1>2 DEF Subgraph
<1>4. IsFiniteSet(stored) /\ Cardinality(stored) \in Nat
  BY FS_Subset, FS_CardinalityType DEF GraphInv
<1>5. Cardinality(stored \ {start})
        = IF start \in stored THEN Cardinality(stored) - 1 ELSE Cardinality(stored)
  BY <1>4, FS_RemoveElement
<1>6. start \in nodes => start \in stored
  BY <1>0 DEF Within
<1>7. ReachIsDerived(start)
  BY ReachFinds
<1>8. Cardinality(all) <= Hops + 1 => derived \cap nodes \subseteq stored
  <2> DEFINE w == Walk(start, Hops)
  <2>1. Around(start, w, Hops)
    BY <1>0, WalkGoesAround
  <2> HIDE DEF w
  <2>2. \A e : e.source \in Ends(e) /\ e.target \in Ends(e)
    BY DEF Ends
  <2>3. ASSUME NEW s \in SUBSET Id, start \in s,
               \A e \in DOMAIN rows : Ends(e) \cap s # {} => Ends(e) \subseteq s
        PROVE  derived \subseteq s
    BY <2>2, <2>3 DEF Derived
  <2>4. CASE w.frontier = {}
    <3>1. Inner(w) = w.visited
      BY <2>4 DEF Inner
    <3>2. derived \subseteq w.visited
      BY <2>1, <2>3, <3>1 DEF Around, Met
    <3>3. QED
      BY <1>0, <2>1, <3>2 DEF Around
  <2>5. CASE w.frontier # {} /\ Cardinality(all) <= Hops + 1
    <3>1. all = Linked(start)
      BY DEF Linked
    <3>2. IsFiniteSet(all) /\ w.visited \in SUBSET all /\ Cardinality(w.visited) >= Hops + 1
      BY <2>1, <2>5, <3>1, LinkedIsFinite DEF Around
    <3>3. Cardinality(w.visited) \in Nat /\ Cardinality(all) \in Nat
      BY <3>2, FS_Subset, FS_CardinalityType
    <3>4. w.visited = all
      <4>1. Cardinality(w.visited) <= Cardinality(all)
        BY <3>2, FS_Subset
      <4>2. Cardinality(w.visited) = Cardinality(all)
        BY <1>0, <2>5, <3>2, <3>3, <4>1
      <4>3. QED
        BY <3>2, <4>2, FS_Subset
    <3>5. derived \subseteq all
      <4>1. \A e \in DOMAIN rows : Ends(e) \subseteq all
        OBVIOUS
      <4>2. all \in SUBSET Id /\ start \in all
        BY <1>0
      <4> HIDE DEF all, derived
      <4>3. QED
        BY <2>3, <4>1, <4>2
    <3>6. QED
      BY <1>0, <2>1, <3>4, <3>5 DEF Around
  <2>6. QED
    BY <2>4, <2>5
<1> HIDE DEF stored, derived, all
<1>9. SummaryReaches({start}) = Cardinality(stored \ {start})
  <2>1. SummaryReaches({start})
          = Cardinality(stored) - (IF {start} \cap stored = {} THEN 0 ELSE 1)
    BY <1>3 DEF SummaryReaches
  <2>2. {start} \cap stored = {} <=> start \notin stored
    OBVIOUS
  <2>3. QED
    BY <1>4, <1>5, <2>1, <2>2
<1>10. start \in nodes => MockRadius(start, Hops) = SummaryReaches({start})
  <2>1. SUFFICES ASSUME start \in stored
                 PROVE  MockRadius(start, Hops) = Cardinality(stored) - 1
    BY <1>5, <1>6, <1>9
  <2>2. Cardinality(stored) # 0
    BY <1>4, <2>1, FS_EmptySet
  <2>3. QED
    BY <1>2, <2>2 DEF MockRadius
<1>11. ASSUME NEW hops \in 0 .. Hops PROVE hops \in Nat
  BY <1>0
<1>12. QED
  BY <1>1, <1>3, <1>7, <1>8, <1>9, <1>10, <1>11 DEF stored, derived, all, FoundFrom

\* The subgraphs of all nodes show every row.
LEMMA AllAreShown ==
    ASSUME GraphInv, GraphAssumption, Hops > 0
    PROVE  Subgraph(Id).edges = DOMAIN rows
<1> DEFINE walk(start) == traverseGraph(start, Hops)
           near(start) == {e \in DOMAIN rows : \E n \in Ends(e) : Within(start, n, Hops - 1)}
<1>1. Hops \in 0 .. Hops /\ Hops - 1 >= 0
  BY DEF GraphAssumption
<1>2. \A start \in Id : DOMAIN walk(start).edges = near(start)
  BY <1>1, WalksFind DEF FoundFrom
<1>3. Subgraph(Id).edges = UNION {DOMAIN walk(start).edges : start \in Id}
  BY DEF Subgraph
<1> HIDE DEF walk
<1>4. \A e \in DOMAIN rows : e.source \in Id /\ e \in near(e.source)
  BY <1>1 DEF GraphInv, Edge, Ends, Within
<1> HIDE DEF near
<1>5. \A start \in Id : near(start) \subseteq DOMAIN rows
  BY DEF near
<1>6. QED
  BY <1>2, <1>3, <1>4, <1>5

\* The rows of some edges are as many as the edges when each is there once.
LEMMA CopiesCount ==
    ASSUME GraphInv, NEW S \in SUBSET DOMAIN rows
    PROVE  Cardinality(Copies(S)) = Cardinality(S) <=> \A e \in S : rows[e] = 1
<1> DEFINE first == {<<e, 1>> : e \in S}
<1>1. IsFiniteSet(S) /\ \A e \in S : rows[e] \in Nat \ {0}
  BY FS_Subset DEF GraphInv
<1>2. IsFiniteSet(Copies(S))
  <2> DEFINE parts == {{e} \X (1 .. rows[e]) : e \in S}
  <2>1. IsFiniteSet(parts)
    <3> DEFINE f == [e \in S |-> {e} \X (1 .. rows[e])]
    <3>1. f \in Surjection(S, parts)
      BY DEF Surjection
    <3>2. QED
      BY <1>1, <3>1, FS_Surjection
  <2>2. ASSUME NEW e \in S PROVE IsFiniteSet({e} \X (1 .. rows[e]))
    <3>1. 1 \in Int /\ rows[e] \in Int
      BY <1>1
    <3>2. IsFiniteSet({e}) /\ IsFiniteSet(1 .. rows[e])
      BY <3>1, FS_Singleton, FS_Interval
    <3>3. QED
      BY <3>2, FS_Product
  <2>3. \A p \in parts : IsFiniteSet(p)
    BY <2>2
  <2> HIDE DEF parts
  <2>4. IsFiniteSet(UNION parts)
    BY <2>1, <2>3, FS_UNION
  <2>5. QED
    BY <2>4 DEF Copies, parts
<1>3. Cardinality(first) = Cardinality(S)
  <2> DEFINE f == [e \in S |-> <<e, 1>>]
  <2>1. f \in Bijection(S, first)
    <3>1. f \in [S -> first] /\ \A c \in first : \E e \in S : f[e] = c
      OBVIOUS
    <3>2. \A d, e \in S : f[d] = f[e] => d = e
      <4>1. \A e \in S : f[e] = <<e, 1>>
        OBVIOUS
      <4> HIDE DEF f
      <4>2. QED
        BY <4>1
    <3> HIDE DEF f, first
    <3>3. QED
      BY <3>1, <3>2 DEF Bijection, Injection, IsInjective, Surjection
  <2>2. ExistsBijection(S, first)
    BY <2>1 DEF ExistsBijection
  <2>3. QED
    BY <1>1, <2>2, FS_Bijection
<1>4. first \in SUBSET Copies(S)
  BY <1>1 DEF Copies
<1>5. Cardinality(Copies(S)) = Cardinality(S) <=> first = Copies(S)
  BY <1>2, <1>3, <1>4, FS_Subset
<1>6. first = Copies(S) => \A e \in S : rows[e] = 1
  <2>1. SUFFICES ASSUME first = Copies(S), NEW e \in S, rows[e] # 1 PROVE FALSE
    OBVIOUS
  <2>2. 2 \in 1 .. rows[e]
    BY <1>1, <2>1
  <2>3. <<e, 2>> \in Copies(S)
    BY <2>2 DEF Copies
  <2>4. <<e, 2>> \notin first
    OBVIOUS
  <2>5. QED
    BY <2>1, <2>3, <2>4
<1>7. (\A e \in S : rows[e] = 1) => first = Copies(S)
  <2>1. SUFFICES ASSUME \A e \in S : rows[e] = 1, NEW c \in Copies(S) PROVE c \in first
    BY <1>4
  <2>2. PICK e \in S : c \in {e} \X (1 .. rows[e])
    BY DEF Copies
  <2>3. 1 .. rows[e] = {1}
    BY <2>1
  <2>4. QED
    BY <2>2, <2>3
<1>8. QED
  BY <1>5, <1>6, <1>7

\* What the statistics count is what the subgraphs show and its copies.
LEMMA StatisticsCount ==
    ASSUME GraphInv, GraphAssumption
    PROVE  StatisticsCountCopies
<1> SUFFICES ASSUME Hops > 0 PROVE StatisticsCountCopies
  BY DEF StatisticsCountCopies
<1>1. Subgraph(Id).edges = DOMAIN rows
  BY AllAreShown
<1> DEFINE ofRelation(r) == {e \in DOMAIN rows : e.relation = r}
<1>2. Cardinality(Copies(DOMAIN rows)) = Cardinality(DOMAIN rows)
        <=> \A e \in DOMAIN rows : rows[e] = 1
  BY CopiesCount
<1>3. \A r : Cardinality(Copies(ofRelation(r))) = Cardinality(ofRelation(r))
               <=> \A e \in ofRelation(r) : rows[e] = 1
  BY CopiesCount
<1>4. QED
  BY <1>1, <1>2, <1>3 DEF StatisticsCountCopies, getGraphStats

\* Inserts and the seed script keep it.
LEMMA GraphInvStep == GraphInv /\ [Next]_vars => GraphInv'
<1> SUFFICES ASSUME GraphInv, [GraphNext]_graphVars PROVE GraphInv'
  BY OnePartMoves
<1>1. CASE UNCHANGED graphVars
  BY <1>1 DEF GraphInv, graphVars
<1>2. CASE upsertNode
  <2>1. PICK id \in Id : nodes' = nodes \cup {id}
    BY <1>2 DEF upsertNode
  <2>2. nodes' \subseteq Id /\ rows' = rows
    BY <1>2, <2>1 DEF upsertNode, GraphInv
  <2>3. IsFiniteSet(nodes')
    BY <2>1, FS_AddElement DEF GraphInv
  <2>4. QED
    BY <2>2, <2>3 DEF GraphInv
<1>3. CASE insertEdge
  <2>1. PICK edge \in Edge : rows' = rows (+) SetToBag({edge})
    BY <1>3 DEF insertEdge
  <2>2. /\ DOMAIN rows' = DOMAIN rows \cup {edge}
        /\ \A e \in DOMAIN rows \cup {edge} :
             rows'[e] = (IF e \in DOMAIN rows THEN rows[e] ELSE 0)
                          + (IF e \in {edge} THEN 1 ELSE 0)
    BY <2>1 DEF (+), SetToBag
  <2>3. \A e \in DOMAIN rows' : rows'[e] \in Nat \ {0}
    BY <2>2 DEF GraphInv
  <2>4. IsFiniteSet(DOMAIN rows')
    BY <2>2, FS_AddElement DEF GraphInv
  <2>5. nodes' = nodes
    BY <1>3 DEF insertEdge
  <2>6. QED
    BY <2>2, <2>3, <2>4, <2>5 DEF GraphInv
<1>4. CASE Seeding
  <2>1. nodes' = {} /\ DOMAIN rows' = {}
    BY <1>4 DEF Seeding, EmptyBag, SetToBag
  <2>2. QED
    BY <2>1, FS_EmptySet DEF GraphInv
<1>5. QED
  BY <1>1, <1>2, <1>3, <1>4 DEF GraphNext

\* A walk returns what is within its hops, however many, with the rows nearer than
\* that; the radius and the summary of Mode 1 count it, Mode 2 derives what the
\* transitive property says, and the statistics count the copies of a row as well. For
\* any ids, relations and rows (traverseGraph, summarizeSubgraph, transitiveClosure,
\* getGraphStats).
THEOREM WalksFindWhatIsNear == Spec => []AnswersAreReachable
<1>1. Init => GraphInv
  <2> SUFFICES ASSUME Init PROVE GraphInv
    OBVIOUS
  <2>1. nodes = {} /\ DOMAIN rows = {}
    BY DEF Init, GraphInit, EmptyBag, SetToBag
  <2>2. QED
    BY <2>1, FS_EmptySet DEF GraphInv
<1>2. GraphInv => AnswersAreReachable
  <2> SUFFICES ASSUME GraphInv PROVE AnswersAreReachable
    OBVIOUS
  <2>1. QED
    BY GraphAssumption, WalksFind, StatisticsCount DEF AnswersAreReachable
<1>3. QED
  BY <1>1, <1>2, GraphInvStep, PTL DEF Spec

-----------------------------------------------------------------------------
(* The stream of an answer *)

Char == {"D", "/", "E", "x", "n", "r"}

Terminal == {DoneFrame, ErrorFrame}

\* Line ends are all alike and whole.
Uniform(s) ==
    \A i \in 1 .. Len(s) :
      IF newline = <<"n">> THEN s[i] # "r"
      ELSE /\ s[i] = "n" => i > 1 /\ s[i - 1] = "r"
           /\ s[i] = "r" => i < Len(s) /\ s[i + 1] = "n"

\* The buffer is what arrived from k on, where a line starts, and no terminal line
\* came before.
ReadFrom(k) ==
    /\ k = 1 \/ sent[k - 1] = "n"
    /\ buffer = SubSeq(sent, k, arrived)
    /\ \A i \in 1 .. k - 1, t \in Terminal : ~LineAt(sent, i, t)

StreamInv ==
    /\ newline \in Newline /\ sent \in Seq(Char) /\ Uniform(sent)
    /\ arrived \in 0 .. Len(sent)
    /\ outcome = "reading" => \E k \in 1 .. arrived + 1 : ReadFrom(k)
    /\ StreamIsCutFree

\* A part of a sequence, character by character.
LEMMA PartIs ==
    ASSUME NEW s \in Seq(Char), NEW k \in 1 .. Len(s) + 1, NEW n \in k - 1 .. Len(s)
    PROVE  /\ SubSeq(s, k, n) \in Seq(Char) /\ Len(SubSeq(s, k, n)) = n - k + 1
           /\ \A i \in 1 .. n - k + 1 : SubSeq(s, k, n)[i] = s[k + i - 1]
OBVIOUS

\* Sequences of the same characters.
LEMMA SameCharacters ==
    ASSUME NEW p \in Seq(Char), NEW q \in Seq(Char), Len(p) = Len(q),
           \A i \in 1 .. Len(p) : p[i] = q[i]
    PROVE  p = q
OBVIOUS

\* Two parts joined, character by character.
LEMMA JoinedParts ==
    ASSUME NEW p \in Seq(Char), NEW q \in Seq(Char)
    PROVE  /\ p \o q \in Seq(Char) /\ Len(p \o q) = Len(p) + Len(q)
           /\ \A i \in 1 .. Len(p) + Len(q) :
                (p \o q)[i] = IF i <= Len(p) THEN p[i] ELSE q[i - Len(p)]
OBVIOUS

\* A part of a part.
LEMMA PartOfPart ==
    ASSUME NEW s \in Seq(Char), NEW k \in 1 .. Len(s) + 1, NEW n \in k - 1 .. Len(s),
           NEW a \in 1 .. (n - k + 1) + 1, NEW b \in a - 1 .. n - k + 1
    PROVE  SubSeq(SubSeq(s, k, n), a, b) = SubSeq(s, k + a - 1, k + b - 1)
<1> DEFINE p1 == SubSeq(s, k, n)
           p2 == SubSeq(p1, a, b)
           p3 == SubSeq(s, k + a - 1, k + b - 1)
<1>1. /\ p1 \in Seq(Char) /\ Len(p1) = n - k + 1
      /\ \A i \in 1 .. n - k + 1 : p1[i] = s[k + i - 1]
  BY PartIs
<1> HIDE DEF p1
<1>2. /\ p2 \in Seq(Char) /\ Len(p2) = b - a + 1
      /\ \A i \in 1 .. b - a + 1 : p2[i] = p1[a + i - 1]
  <2>1. a \in 1 .. Len(p1) + 1 /\ b \in a - 1 .. Len(p1)
    BY <1>1
  <2>2. QED
    BY <1>1, <2>1, PartIs
<1>3. /\ p3 \in Seq(Char) /\ Len(p3) = b - a + 1
      /\ \A i \in 1 .. b - a + 1 : p3[i] = s[k + a - 1 + i - 1]
  <2>1. k + a - 1 \in 1 .. Len(s) + 1 /\ k + b - 1 \in (k + a - 1) - 1 .. Len(s)
    OBVIOUS
  <2>2. (k + b - 1) - (k + a - 1) + 1 = b - a + 1
    OBVIOUS
  <2>3. QED
    BY <2>1, <2>2, PartIs
<1> HIDE DEF p2, p3
<1>4. \A i \in 1 .. b - a + 1 : p2[i] = p3[i]
  <2>1. SUFFICES ASSUME NEW i \in 1 .. b - a + 1 PROVE p2[i] = p3[i]
    OBVIOUS
  <2> DEFINE j == a + i - 1
  <2>2. j \in 1 .. n - k + 1 /\ k + j - 1 = k + a - 1 + i - 1
    OBVIOUS
  <2>3. p2[i] = p1[j] /\ p3[i] = s[k + a - 1 + i - 1]
    BY <1>2, <1>3
  <2> HIDE DEF j
  <2>4. p1[j] = s[k + j - 1]
    BY <1>1, <2>2
  <2>5. QED
    BY <2>2, <2>3, <2>4
<1>5. p2 = p3
  BY <1>2, <1>3, <1>4, SameCharacters
<1>6. QED
  BY <1>5 DEF p1, p2, p3

\* A terminal line at a place, character by character.
LEMMA TerminalAt ==
    ASSUME NEW s \in Seq(Char), NEW i \in Nat \ {0}
    PROVE  /\ LineAt(s, i, ErrorFrame) <=>
                /\ i = 1 \/ s[i - 1] = "n"
                /\ i <= Len(s) /\ s[i] = "E"
                /\ i + 1 > Len(s) \/ s[i + 1] \in {"n", "r"}
           /\ LineAt(s, i, DoneFrame) <=>
                /\ i = 1 \/ s[i - 1] = "n"
                /\ i + 1 <= Len(s) /\ s[i] = "D" /\ s[i + 1] = "/"
                /\ i + 2 > Len(s) \/ s[i + 2] \in {"n", "r"}
<1>1. LineAt(s, i, ErrorFrame) <=>
        /\ i = 1 \/ s[i - 1] = "n"
        /\ i <= Len(s) /\ s[i] = "E"
        /\ i + 1 > Len(s) \/ s[i + 1] \in {"n", "r"}
  <2>1. Len(ErrorFrame) = 1 /\ ErrorFrame[1] = "E" /\ 1 .. 1 = {1} /\ i + 1 - 1 = i
    BY DEF ErrorFrame
  <2>2. StartsAt(s, i, ErrorFrame) <=> i <= Len(s) /\ s[i] = "E"
    BY <2>1 DEF StartsAt
  <2>3. QED
    BY <2>1, <2>2 DEF LineAt
<1>2. LineAt(s, i, DoneFrame) <=>
        /\ i = 1 \/ s[i - 1] = "n"
        /\ i + 1 <= Len(s) /\ s[i] = "D" /\ s[i + 1] = "/"
        /\ i + 2 > Len(s) \/ s[i + 2] \in {"n", "r"}
  <2>1. Len(DoneFrame) = 2 /\ DoneFrame[1] = "D" /\ DoneFrame[2] = "/" /\ 1 .. 2 = {1, 2}
    BY DEF DoneFrame
  <2>2. i + 1 - 1 = i /\ i + 2 - 1 = i + 1
    OBVIOUS
  <2>3. StartsAt(s, i, DoneFrame) <=> i + 1 <= Len(s) /\ s[i] = "D" /\ s[i + 1] = "/"
    BY <2>1, <2>2 DEF StartsAt
  <2>4. QED
    BY <2>1, <2>3 DEF LineAt
<1>3. QED
  BY <1>1, <1>2

\* A blank line at a place, character by character.
LEMMA BlankAt ==
    ASSUME NEW s \in Seq(Char), NEW i \in Nat \ {0}
    PROVE  BlankLineAt(s, i) <=>
             \/ i + 1 <= Len(s) /\ s[i] = "n" /\ s[i + 1] = "n"
             \/ /\ i + 3 <= Len(s) /\ s[i] = "r" /\ s[i + 1] = "n"
                /\ s[i + 2] = "r" /\ s[i + 3] = "n"
<1> DEFINE lf == <<"n", "n">>
           crlf == <<"r", "n", "r", "n">>
<1>1. /\ Len(lf) = 2 /\ lf[1] = "n" /\ lf[2] = "n" /\ 1 .. 2 = {1, 2}
      /\ Len(crlf) = 4 /\ crlf[1] = "r" /\ crlf[2] = "n" /\ crlf[3] = "r" /\ crlf[4] = "n"
      /\ 1 .. 4 = {1, 2, 3, 4}
  OBVIOUS
<1>2. i + 1 - 1 = i /\ i + 2 - 1 = i + 1 /\ i + 3 - 1 = i + 2 /\ i + 4 - 1 = i + 3
  OBVIOUS
<1>3. BlankLineAt(s, i) <=> StartsAt(s, i, lf) \/ StartsAt(s, i, crlf)
  BY DEF BlankLineAt, BlankLines
<1> HIDE DEF lf, crlf
<1>4. StartsAt(s, i, lf) <=> i + 1 <= Len(s) /\ s[i] = "n" /\ s[i + 1] = "n"
  BY <1>1, <1>2 DEF StartsAt
<1>5. StartsAt(s, i, crlf) <=> /\ i + 3 <= Len(s) /\ s[i] = "r" /\ s[i + 1] = "n"
                               /\ s[i + 2] = "r" /\ s[i + 3] = "n"
  BY <1>1, <1>2 DEF StartsAt
<1>6. QED
  BY <1>3, <1>4, <1>5

\* The terminal lines of a part that starts and ends where a line does.
LEMMA LineInPart ==
    ASSUME NEW s \in Seq(Char), NEW k \in 1 .. Len(s) + 1, NEW n \in k - 1 .. Len(s),
           k = 1 \/ s[k - 1] = "n", n = Len(s) \/ s[n + 1] \in {"n", "r"},
           NEW i \in 1 .. n - k + 1, NEW t \in Terminal
    PROVE  LineAt(SubSeq(s, k, n), i, t) <=> LineAt(s, k + i - 1, t)
<1> DEFINE p == SubSeq(s, k, n)
<1>1. /\ p \in Seq(Char) /\ Len(p) = n - k + 1
      /\ \A j \in 1 .. n - k + 1 : p[j] = s[k + j - 1]
  BY PartIs
<1> HIDE DEF p
<1>2. /\ i \in Nat \ {0} /\ k + i - 1 \in Nat \ {0} /\ p[i] = s[k + i - 1]
      /\ i # 1 => p[i - 1] = s[k + i - 2]
      /\ i + 1 <= n - k + 1 => p[i + 1] = s[k + i]
      /\ i + 2 <= n - k + 1 => p[i + 2] = s[k + i + 1]
  BY <1>1
<1>3. /\ (k + i - 1) - 1 = k + i - 2 /\ (k + i - 1) + 1 = k + i /\ (k + i - 1) + 2 = k + i + 1
      /\ i = 1 => k + i - 2 = k - 1
      /\ k + i - 1 = 1 => i = 1 /\ k = 1
  OBVIOUS
<1>4. CASE t = ErrorFrame
  <2>1. LineAt(p, i, ErrorFrame) <=>
          /\ i = 1 \/ p[i - 1] = "n"
          /\ p[i] = "E"
          /\ i + 1 > n - k + 1 \/ p[i + 1] \in {"n", "r"}
    BY <1>1, <1>2, TerminalAt
  <2>2. LineAt(s, k + i - 1, ErrorFrame) <=>
          /\ k + i - 1 = 1 \/ s[k + i - 2] = "n"
          /\ s[k + i - 1] = "E"
          /\ k + i > Len(s) \/ s[k + i] \in {"n", "r"}
    BY <1>2, <1>3, TerminalAt
  <2>3. i + 1 > n - k + 1 => k + i = n + 1
    OBVIOUS
  <2>4. (i = 1 \/ p[i - 1] = "n") <=> (k + i - 1 = 1 \/ s[k + i - 2] = "n")
    BY <1>2, <1>3
  <2>5. (i + 1 > n - k + 1 \/ p[i + 1] \in {"n", "r"})
          <=> (k + i > Len(s) \/ s[k + i] \in {"n", "r"})
    BY <1>2, <2>3
  <2>6. QED
    BY <1>2, <1>4, <2>1, <2>2, <2>4, <2>5 DEF p
<1>5. CASE t = DoneFrame
  <2>1. LineAt(p, i, DoneFrame) <=>
          /\ i = 1 \/ p[i - 1] = "n"
          /\ i + 1 <= n - k + 1 /\ p[i] = "D" /\ p[i + 1] = "/"
          /\ i + 2 > n - k + 1 \/ p[i + 2] \in {"n", "r"}
    BY <1>1, <1>2, TerminalAt
  <2>2. LineAt(s, k + i - 1, DoneFrame) <=>
          /\ k + i - 1 = 1 \/ s[k + i - 2] = "n"
          /\ k + i <= Len(s) /\ s[k + i - 1] = "D" /\ s[k + i] = "/"
          /\ k + i + 1 > Len(s) \/ s[k + i + 1] \in {"n", "r"}
    BY <1>2, <1>3, TerminalAt
  <2>3. i + 1 > n - k + 1 => k + i = n + 1
    OBVIOUS
  <2>4. (i = 1 \/ p[i - 1] = "n") <=> (k + i - 1 = 1 \/ s[k + i - 2] = "n")
    BY <1>2, <1>3
  <2>5. CASE i + 1 > n - k + 1
    <3>1. ~(k + i <= Len(s) /\ s[k + i] = "/")
      BY <2>3, <2>5
    <3>2. QED
      BY <1>5, <2>1, <2>2, <2>5, <3>1 DEF p
  <2>6. CASE i + 1 <= n - k + 1
    <3>1. k + i <= Len(s) /\ p[i + 1] = s[k + i]
      BY <1>2, <2>6
    <3>2. i + 2 > n - k + 1 => k + i + 1 = n + 1
      BY <2>6
    <3>3. (i + 2 > n - k + 1 \/ p[i + 2] \in {"n", "r"})
            <=> (k + i + 1 > Len(s) \/ s[k + i + 1] \in {"n", "r"})
      BY <1>2, <3>2
    <3>4. QED
      BY <1>2, <1>5, <2>1, <2>2, <2>4, <2>6, <3>1, <3>3 DEF p
  <2>7. QED
    BY <2>5, <2>6
<1>6. QED
  BY <1>4, <1>5 DEF Terminal

\* The first event of a buffer ends at the first blank line.
LEMMA FirstEventEnds ==
    ASSUME NEW s \in Seq(Char)
    PROVE  LET end == indexOfDoubleNewline(s)
           IN \/ end = 0 /\ \A i \in 1 .. Len(s) : ~BlankLineAt(s, i)
              \/ /\ end \in 1 .. Len(s) /\ BlankLineAt(s, end)
                 /\ \A i \in 1 .. end - 1 : ~BlankLineAt(s, i)
<1> DEFINE at == {i \in DOMAIN s : BlankLineAt(s, i)}
           end == indexOfDoubleNewline(s)
<1>1. DOMAIN s = 1 .. Len(s) /\ at \in SUBSET Nat
  OBVIOUS
<1>2. CASE at = {}
  <2>1. end = 0
    BY <1>2 DEF indexOfDoubleNewline
  <2>2. QED
    BY <1>1, <1>2, <2>1
<1>3. CASE at # {}
  <2>1. end = Min(at)
    BY <1>3 DEF indexOfDoubleNewline
  <2>2. Min(at) \in at /\ \A i \in at : Min(at) <= i
    BY <1>1, <1>3, LeastOf
  <2> HIDE DEF end
  <2>3. end \in 1 .. Len(s) /\ BlankLineAt(s, end)
    BY <1>1, <2>1, <2>2
  <2>4. \A i \in 1 .. end - 1 : ~BlankLineAt(s, i)
    <3>1. SUFFICES ASSUME NEW i \in 1 .. end - 1, BlankLineAt(s, i) PROVE FALSE
      OBVIOUS
    <3>2. i \in 1 .. Len(s) /\ ~(end <= i)
      BY <2>3
    <3>3. QED
      BY <1>1, <2>1, <2>2, <3>1, <3>2
  <2>5. QED
    BY <2>3, <2>4 DEF end
<1>4. QED
  BY <1>2, <1>3

\* A line end is dropped, of either kind.
LEMMA DropsOne ==
    ASSUME NEW s \in Seq(Char)
    PROVE  /\ 1 <= Len(s) /\ s[1] = "n" => DropNewline(s) = SubSeq(s, 2, Len(s))
           /\ 2 <= Len(s) /\ s[1] = "r" /\ s[2] = "n" => DropNewline(s) = SubSeq(s, 3, Len(s))
<1>1. StartsAt(s, 1, <<"n">>) <=> 1 <= Len(s) /\ s[1] = "n"
  <2>1. Len(<<"n">>) = 1 /\ <<"n">>[1] = "n" /\ 1 .. 1 = {1}
    OBVIOUS
  <2>2. QED
    BY <2>1 DEF StartsAt
<1>2. StartsAt(s, 1, <<"r", "n">>) <=> 2 <= Len(s) /\ s[1] = "r" /\ s[2] = "n"
  <2> DEFINE t == <<"r", "n">>
  <2>1. Len(t) = 2 /\ t[1] = "r" /\ t[2] = "n" /\ 1 .. 2 = {1, 2}
    OBVIOUS
  <2> HIDE DEF t
  <2>2. StartsAt(s, 1, t) <=> 2 <= Len(s) /\ s[1] = "r" /\ s[2] = "n"
    BY <2>1 DEF StartsAt
  <2>3. QED
    BY <2>2 DEF t
<1>3. QED
  BY <1>1, <1>2 DEF DropNewline

\* The blank line found at i in the part of s from k to n ends before next.
GoesOnAt(s, k, n, i, next) ==
    /\ next <= n + 1 /\ s[next - 1] = "n"
    /\ \A j \in k + i - 1 .. next - 1 : s[j] \in {"n", "r"}
    /\ LineAt(s, next - (IF next = k + i + 1 THEN 1 ELSE 2), <<>>)
    /\ DropNewline(DropNewline(SubSeq(s, k + i - 1, n))) = SubSeq(s, next, n)

\* The blank line before what is left of the buffer is dropped, whole and alone.
LEMMA BlankIsDropped ==
    ASSUME NEW s \in Seq(Char), NEW k \in 1 .. Len(s) + 1, NEW n \in k - 1 .. Len(s),
           NEW i \in 1 .. n - k + 1, BlankLineAt(SubSeq(s, k, n), i)
    PROVE  \E next \in {k + i + 1, k + i + 3} : GoesOnAt(s, k, n, i, next)
<1> DEFINE p == SubSeq(s, k, n)
           q == SubSeq(s, k + i - 1, n)
<1>1. /\ p \in Seq(Char) /\ Len(p) = n - k + 1
      /\ \A j \in 1 .. n - k + 1 : p[j] = s[k + j - 1]
  BY PartIs
<1>2. /\ q \in Seq(Char) /\ Len(q) = n - k - i + 2
      /\ \A j \in 1 .. n - k - i + 2 : q[j] = s[k + i - 1 + j - 1]
  <2>1. k + i - 1 \in 1 .. Len(s) + 1 /\ n \in (k + i - 1) - 1 .. Len(s)
    OBVIOUS
  <2>2. n - (k + i - 1) + 1 = n - k - i + 2
    OBVIOUS
  <2>3. QED
    BY <2>1, <2>2, PartIs
<1>3. \A a \in 1 .. Len(q) + 1 : SubSeq(q, a, Len(q)) = SubSeq(s, k + i - 1 + a - 1, n)
  <2>1. SUFFICES ASSUME NEW a \in 1 .. Len(q) + 1
                 PROVE  SubSeq(q, a, Len(q)) = SubSeq(s, k + i - 1 + a - 1, n)
    OBVIOUS
  <2>2. /\ k + i - 1 \in 1 .. Len(s) + 1 /\ n \in (k + i - 1) - 1 .. Len(s)
        /\ Len(q) = n - (k + i - 1) + 1 /\ Len(q) \in a - 1 .. n - (k + i - 1) + 1
        /\ a \in 1 .. (n - (k + i - 1) + 1) + 1 /\ (k + i - 1) + Len(q) - 1 = n
    BY <1>2, <2>1
  <2>3. SubSeq(q, a, Len(q)) = SubSeq(s, k + i - 1 + a - 1, k + i - 1 + Len(q) - 1)
    BY <2>2, PartOfPart
  <2>4. QED
    BY <2>2, <2>3
<1> HIDE DEF p, q
<1>4. BlankLineAt(p, i) /\ i \in Nat \ {0}
  BY DEF p
<1>5. CASE i + 1 <= Len(p) /\ p[i] = "n" /\ p[i + 1] = "n"
  <2> DEFINE next == k + i + 1
             r == SubSeq(s, k + i, n)
  <2>1. s[k + i - 1] = "n" /\ s[k + i] = "n" /\ k + i <= n
    BY <1>1, <1>5
  <2>2. q[1] = "n" /\ 1 <= Len(q)
    BY <1>2, <2>1
  <2>3. DropNewline(q) = SubSeq(q, 2, Len(q))
    BY <1>2, <2>2, DropsOne
  <2>4. DropNewline(q) = r
    BY <1>2, <1>3, <2>1, <2>3
  <2>5. /\ r \in Seq(Char) /\ Len(r) = n - k - i + 1
        /\ \A j \in 1 .. n - k - i + 1 : r[j] = s[k + i + j - 1]
    <3>1. k + i \in 1 .. Len(s) + 1 /\ n \in (k + i) - 1 .. Len(s)
      OBVIOUS
    <3>2. n - (k + i) + 1 = n - k - i + 1
      OBVIOUS
    <3>3. QED
      BY <3>1, <3>2, PartIs
  <2>6. SubSeq(r, 2, Len(r)) = SubSeq(s, next, n)
    <3>1. /\ k + i \in 1 .. Len(s) + 1 /\ n \in (k + i) - 1 .. Len(s)
          /\ 2 \in 1 .. (n - (k + i) + 1) + 1 /\ Len(r) \in 2 - 1 .. n - (k + i) + 1
          /\ (k + i) + 2 - 1 = next /\ (k + i) + Len(r) - 1 = n
      BY <2>1, <2>5
    <3>2. SubSeq(r, 2, Len(r)) = SubSeq(s, (k + i) + 2 - 1, (k + i) + Len(r) - 1)
      BY <3>1, PartOfPart
    <3>3. QED
      BY <3>1, <3>2
  <2>7. r[1] = "n" /\ 1 <= Len(r)
    BY <2>1, <2>5
  <2> HIDE DEF r
  <2>8. DropNewline(r) = SubSeq(s, next, n)
    BY <2>5, <2>6, <2>7, DropsOne
  <2>9. LineAt(s, next - 1, <<>>)
    <3>1. StartsAt(s, next - 1, <<>>)
      BY <2>1 DEF StartsAt
    <3>2. QED
      BY <2>1, <3>1 DEF LineAt
  <2>10. next <= n + 1 /\ s[next - 1] = "n" /\ \A j \in k + i - 1 .. next - 1 : s[j] \in {"n", "r"}
    BY <2>1
  <2>11. QED
    BY <2>4, <2>8, <2>9, <2>10 DEF q, GoesOnAt
<1>6. CASE /\ i + 3 <= Len(p) /\ p[i] = "r" /\ p[i + 1] = "n"
           /\ p[i + 2] = "r" /\ p[i + 3] = "n"
  <2> DEFINE next == k + i + 3
             r == SubSeq(s, k + i + 1, n)
  <2>1. /\ s[k + i - 1] = "r" /\ s[k + i] = "n" /\ s[k + i + 1] = "r" /\ s[k + i + 2] = "n"
        /\ k + i + 2 <= n
    <3>1. {i, i + 1, i + 2, i + 3} \subseteq 1 .. n - k + 1 /\ k + i + 2 <= n
      BY <1>1, <1>6
    <3>2. /\ k + (i + 1) - 1 = k + i /\ k + (i + 2) - 1 = k + i + 1
          /\ k + (i + 3) - 1 = k + i + 2
      OBVIOUS
    <3>3. /\ p[i] = s[k + i - 1] /\ p[i + 1] = s[k + (i + 1) - 1]
          /\ p[i + 2] = s[k + (i + 2) - 1] /\ p[i + 3] = s[k + (i + 3) - 1]
      BY <1>1, <3>1
    <3>4. QED
      BY <1>6, <3>1, <3>2, <3>3
  <2>2. q[1] = "r" /\ q[2] = "n" /\ 2 <= Len(q)
    BY <1>2, <2>1
  <2>3. DropNewline(q) = SubSeq(q, 3, Len(q))
    BY <1>2, <2>2, DropsOne
  <2>4. DropNewline(q) = r
    BY <1>2, <1>3, <2>1, <2>3
  <2>5. /\ r \in Seq(Char) /\ Len(r) = n - k - i
        /\ \A j \in 1 .. n - k - i : r[j] = s[k + i + 1 + j - 1]
    <3>1. k + i + 1 \in 1 .. Len(s) + 1 /\ n \in (k + i + 1) - 1 .. Len(s)
      BY <2>1
    <3>2. n - (k + i + 1) + 1 = n - k - i
      OBVIOUS
    <3>3. QED
      BY <3>1, <3>2, PartIs
  <2>6. SubSeq(r, 3, Len(r)) = SubSeq(s, next, n)
    <3>1. /\ k + i + 1 \in 1 .. Len(s) + 1 /\ n \in (k + i + 1) - 1 .. Len(s)
          /\ 3 \in 1 .. (n - (k + i + 1) + 1) + 1 /\ Len(r) \in 3 - 1 .. n - (k + i + 1) + 1
          /\ (k + i + 1) + 3 - 1 = next /\ (k + i + 1) + Len(r) - 1 = n
      BY <2>1, <2>5
    <3>2. SubSeq(r, 3, Len(r)) = SubSeq(s, (k + i + 1) + 3 - 1, (k + i + 1) + Len(r) - 1)
      BY <3>1, PartOfPart
    <3>3. QED
      BY <3>1, <3>2
  <2>7. r[1] = "r" /\ r[2] = "n" /\ 2 <= Len(r)
    BY <2>1, <2>5
  <2> HIDE DEF r
  <2>8. DropNewline(r) = SubSeq(s, next, n)
    BY <2>5, <2>6, <2>7, DropsOne
  <2>9. LineAt(s, next - 2, <<>>)
    <3>1. StartsAt(s, next - 2, <<>>)
      BY <2>1 DEF StartsAt
    <3>2. QED
      BY <2>1, <3>1 DEF LineAt
  <2>10. next <= n + 1 /\ s[next - 1] = "n" /\ \A j \in k + i - 1 .. next - 1 : s[j] \in {"n", "r"}
    BY <2>1
  <2>11. QED
    BY <2>4, <2>8, <2>9, <2>10 DEF q, GoesOnAt
<1>7. QED
  BY <1>1, <1>4, <1>5, <1>6, BlankAt

\* Where no blank line was found in a part of the stream, no line is empty.
LEMMA NoEmptyLine ==
    ASSUME NEW s \in Seq(Char), newline \in Newline, Uniform(s),
           NEW k \in 1 .. Len(s) + 1, NEW n \in k - 1 .. Len(s), k = 1 \/ s[k - 1] = "n",
           NEW b \in k + 1 .. n, s[b] = "r" => b < n,
           \A i \in 1 .. b - k : ~BlankLineAt(SubSeq(s, k, n), i)
    PROVE  ~LineAt(s, b, <<>>)
<1> SUFFICES ASSUME LineAt(s, b, <<>>) PROVE FALSE
  OBVIOUS
<1> DEFINE p == SubSeq(s, k, n)
<1>1. /\ p \in Seq(Char) /\ Len(p) = n - k + 1
      /\ \A j \in 1 .. n - k + 1 : p[j] = s[k + j - 1]
  BY PartIs
<1>2. \A i \in 1 .. b - k : ~BlankLineAt(p, i)
  OBVIOUS
<1> HIDE DEF p
<1>3. s[b - 1] = "n" /\ s[b] \in {"n", "r"}
  <2>1. Len(<<>>) = 0 /\ b + 0 = b /\ b # 1 /\ ~(b > Len(s))
    OBVIOUS
  <2>2. QED
    BY <2>1 DEF LineAt
<1>4. b \in 1 .. Len(s) /\ b - 1 \in 1 .. Len(s)
  OBVIOUS
<1>5. CASE newline = <<"n">>
  <2>1. s[b] = "n"
    BY <1>3, <1>4, <1>5 DEF Uniform
  <2>2. /\ b - k \in 1 .. n - k + 1 /\ b - k + 1 \in 1 .. n - k + 1
        /\ k + (b - k) - 1 = b - 1 /\ k + (b - k + 1) - 1 = b
    OBVIOUS
  <2>3. p[b - k] = "n" /\ p[b - k + 1] = "n"
    BY <1>1, <1>3, <2>1, <2>2
  <2>4. b - k \in Nat \ {0} /\ b - k + 1 <= Len(p) /\ b - k \in 1 .. b - k
    BY <1>1, <2>2
  <2>5. BlankLineAt(p, b - k)
    BY <1>1, <2>3, <2>4, BlankAt
  <2>6. QED
    BY <1>2, <2>4, <2>5
<1>6. CASE newline = <<"r", "n">>
  <2>0. newline # <<"n">>
    BY <1>6
  <2>1. \A i \in 1 .. Len(s) : /\ s[i] = "n" => i > 1 /\ s[i - 1] = "r"
                               /\ s[i] = "r" => i < Len(s) /\ s[i + 1] = "n"
    BY <2>0 DEF Uniform
  <2>2. b - 1 > 1 /\ s[(b - 1) - 1] = "r"
    BY <1>3, <1>4, <2>1
  <2>3. s[b] = "r" /\ s[b + 1] = "n" /\ b < n
    BY <1>3, <1>4, <2>1
  <2>4. b - 1 # k
    BY <2>2
  <2> DEFINE i == b - k - 1
  <2>5. /\ i \in 1 .. n - k + 1 /\ i + 1 \in 1 .. n - k + 1 /\ i + 2 \in 1 .. n - k + 1
        /\ i + 3 \in 1 .. n - k + 1 /\ i \in Nat \ {0} /\ i \in 1 .. b - k
    BY <2>3, <2>4
  <2>6. k + i - 1 = (b - 1) - 1 /\ k + (i + 1) - 1 = b - 1 /\ k + (i + 2) - 1 = b /\ k + (i + 3) - 1 = b + 1
    OBVIOUS
  <2> HIDE DEF i
  <2>7. p[i] = "r" /\ p[i + 1] = "n" /\ p[i + 2] = "r" /\ p[i + 3] = "n"
    BY <1>1, <1>3, <2>2, <2>3, <2>5, <2>6
  <2>8. i + 3 <= Len(p)
    BY <1>1, <2>5
  <2>9. BlankLineAt(p, i)
    BY <1>1, <2>5, <2>7, <2>8, BlankAt
  <2>10. QED
    BY <1>2, <2>5, <2>9
<1>7. QED
  BY <1>5, <1>6 DEF Newline

\* An error decides, if no `done` frame stands before its event.
LEMMA ErrorDecides ==
    ASSUME NEW s \in Seq(Char), NEW k \in Nat, NEW e \in Nat, NEW j \in k .. e - 1,
           j \in DOMAIN s, LineAt(s, j, ErrorFrame),
           \A i \in 1 .. k - 1 : ~LineAt(s, i, DoneFrame),
           \A b \in k + 1 .. e - 1 : ~LineAt(s, b, <<>>)
    PROVE  Verdict(s) = "failed"
<1> SUFFICES ASSUME NEW i \in DOMAIN s, LineAt(s, i, DoneFrame),
                    NEW b \in i + 1 .. j - 1, LineAt(s, b, <<>>)
             PROVE  FALSE
  BY DEF Verdict
<1>1. i \in Nat /\ i >= 1
  OBVIOUS
<1>2. i >= k
  BY <1>1
<1>3. b \in k + 1 .. e - 1
  BY <1>1, <1>2
<1>4. QED
  BY <1>3

\* What the lines of an event decide is what its place in the stream says.
LEMMA EventIs ==
    ASSUME NEW s \in Seq(Char), NEW k \in 1 .. Len(s) + 1, NEW n \in k - 1 .. Len(s),
           k = 1 \/ s[k - 1] = "n", n = Len(s) \/ s[n + 1] \in {"n", "r"}
    PROVE  \A t \in Terminal :
             (\E i \in DOMAIN SubSeq(s, k, n) : LineAt(SubSeq(s, k, n), i, t))
               <=> \E i \in k .. n : LineAt(s, i, t)
<1> DEFINE p == SubSeq(s, k, n)
<1> TAKE t \in Terminal
<1>1. p \in Seq(Char) /\ DOMAIN p = 1 .. n - k + 1
  BY PartIs
<1>2. \A i \in 1 .. n - k + 1 : LineAt(p, i, t) <=> LineAt(s, k + i - 1, t)
  BY LineInPart
<1> HIDE DEF p
<1>3. ASSUME NEW i \in DOMAIN p, LineAt(p, i, t) PROVE \E j \in k .. n : LineAt(s, j, t)
  <2>0. i \in 1 .. n - k + 1
    BY <1>1
  <2>1. k + i - 1 \in k .. n
    BY <2>0
  <2>2. LineAt(s, k + i - 1, t)
    BY <1>2, <1>3, <2>0
  <2>3. QED
    BY <2>1, <2>2
<1>4. ASSUME NEW j \in k .. n, LineAt(s, j, t) PROVE \E i \in DOMAIN p : LineAt(p, i, t)
  <2> DEFINE i == j - k + 1
  <2>1. i \in 1 .. n - k + 1 /\ k + i - 1 = j
    OBVIOUS
  <2> HIDE DEF i
  <2>2. i \in DOMAIN p /\ LineAt(p, i, t)
    BY <1>1, <1>2, <1>4, <2>1
  <2>3. QED
    BY <2>2
<1>5. QED
  BY <1>3, <1>4 DEF p

\* What is appended to a stream changes no line before.
LEMMA LinesStay ==
    ASSUME NEW s \in Seq(Char), NEW piece \in Seq(Char), NEW k \in 1 .. Len(s) + 1,
           k = 1 \/ s[k - 1] = "n", NEW i \in 1 .. k - 1, NEW t \in Terminal
    PROVE  LineAt(s \o piece, i, t) <=> LineAt(s, i, t)
<1> DEFINE v == s \o piece
<1>1. /\ v \in Seq(Char) /\ Len(v) >= Len(s)
      /\ \A j \in 1 .. Len(s) : v[j] = s[j]
  OBVIOUS
<1> HIDE DEF v
<1>2. /\ i \in 1 .. Len(s) /\ i \in Nat \ {0} /\ k # 1 /\ k - 1 \in 1 .. Len(s)
      /\ v[i] = s[i] /\ i # 1 => v[i - 1] = s[i - 1]
      /\ v[k - 1] = "n" /\ s[k - 1] = "n"
  BY <1>1
<1>3. i # k - 1 => /\ i + 1 \in 1 .. k - 1 /\ v[i + 1] = s[i + 1]
                   /\ i + 1 <= Len(s) /\ i + 1 <= Len(v)
  BY <1>1
<1>4. i # k - 1 /\ i + 1 # k - 1 => v[i + 2] = s[i + 2] /\ i + 2 <= Len(s) /\ i + 2 <= Len(v)
  BY <1>1
<1>5. LineAt(v, i, ErrorFrame) <=> LineAt(s, i, ErrorFrame)
  <2>1. CASE i = k - 1
    <3>1. v[i] # "E" /\ s[i] # "E"
      BY <1>2, <2>1
    <3>2. QED
      BY <1>1, <1>2, <3>1, TerminalAt
  <2>2. CASE i # k - 1
    BY <1>1, <1>2, <1>3, <2>2, TerminalAt
  <2>3. QED
    BY <2>1, <2>2
<1>6. LineAt(v, i, DoneFrame) <=> LineAt(s, i, DoneFrame)
  <2>1. CASE i = k - 1
    <3>1. v[i] # "D" /\ s[i] # "D"
      BY <1>2, <2>1
    <3>2. QED
      BY <1>1, <1>2, <3>1, TerminalAt
  <2>2. CASE i # k - 1 /\ i + 1 = k - 1
    <3>1. v[i + 1] # "/" /\ s[i + 1] # "/"
      BY <1>2, <2>2
    <3>2. QED
      BY <1>1, <1>2, <3>1, TerminalAt
  <2>3. CASE i # k - 1 /\ i + 1 # k - 1
    BY <1>1, <1>2, <1>3, <1>4, <2>3, TerminalAt
  <2>4. QED
    BY <2>1, <2>2, <2>3
<1>7. QED
  BY <1>5, <1>6 DEF v, Terminal

\* A piece of a line, or its end, leaves what was read as it was.
LEMMA SendKeeps == StreamInv /\ Send => StreamInv'
<1> SUFFICES ASSUME StreamInv, Send PROVE StreamInv'
  OBVIOUS
<1>1. PICK piece \in Pieces \cup {newline} : sent' = sent \o piece
  BY DEF Send
<1>2. outcome = "reading" /\ outcome' = "reading" /\ UNCHANGED <<newline, arrived, buffer>>
  BY DEF Send
<1>3. newline \in Newline /\ sent \in Seq(Char) /\ arrived \in 0 .. Len(sent)
  BY DEF StreamInv
<1>4. piece \in Seq(Char)
  <2>1. <<"D", "/">> \in Seq(Char) /\ <<"D">> \in Seq(Char) /\ <<"E">> \in Seq(Char)
    BY DEF Char
  <2>2. <<"x">> \in Seq(Char) /\ <<"n">> \in Seq(Char) /\ <<"r", "n">> \in Seq(Char)
    BY DEF Char
  <2>3. QED
    BY <1>3, <2>1, <2>2 DEF Pieces, Newline, DoneFrame, ErrorFrame
<1>5. /\ sent' \in Seq(Char) /\ Len(sent') = Len(sent) + Len(piece)
      /\ \A i \in 1 .. Len(sent) : sent'[i] = sent[i]
      /\ \A i \in 1 .. Len(piece) : sent'[Len(sent) + i] = piece[i]
  BY <1>1, <1>3, <1>4
<1>6. Uniform(sent)'
  <2> DEFINE n == Len(sent)
  <2>0. n \in Nat /\ Uniform(sent)
    BY <1>3 DEF StreamInv
  <2>1. CASE piece \in Pieces
    <3>1. Len(piece) \in Nat /\ \A i \in 1 .. Len(piece) : piece[i] \notin {"r", "n"}
      BY <2>1 DEF Pieces, DoneFrame, ErrorFrame
    <3> HIDE DEF n
    <3>2. ASSUME NEW i \in 1 .. Len(sent)', ~(i <= n)
          PROVE  sent'[i] \notin {"r", "n"}
      <4> DEFINE j == i - n
      <4>1. j \in 1 .. Len(piece) /\ i = n + j
        BY <1>5, <2>0, <3>1, <3>2 DEF n
      <4> HIDE DEF j
      <4>2. QED
        BY <1>5, <3>1, <4>1 DEF n
    <3>3. ASSUME NEW i \in 1 .. Len(sent)', i <= n
          PROVE  IF newline = <<"n">> THEN sent'[i] # "r"
                 ELSE /\ sent'[i] = "n" => i > 1 /\ sent'[i - 1] = "r"
                      /\ sent'[i] = "r" => i < Len(sent') /\ sent'[i + 1] = "n"
      <4>1. i \in 1 .. Len(sent) /\ sent'[i] = sent[i]
        BY <1>5, <2>0, <3>3 DEF n
      <4>2. i > 1 => sent'[i - 1] = sent[i - 1]
        BY <1>5, <4>1
      <4>3. i < Len(sent) => sent'[i + 1] = sent[i + 1] /\ i < Len(sent')
        BY <1>5, <3>1, <4>1
      <4>4. QED
        BY <2>0, <4>1, <4>2, <4>3 DEF Uniform
    <3>4. QED
      BY <1>2, <3>2, <3>3 DEF Uniform
  <2>2. CASE piece = newline /\ newline = <<"n">>
    <3>1. Len(piece) = 1 /\ piece[1] = "n"
      BY <2>2
    <3>2. \A i \in 1 .. n : sent[i] # "r"
      BY <2>0, <2>2 DEF Uniform
    <3>3. \A i \in 1 .. n + 1 : sent'[i] # "r"
      BY <1>5, <3>1, <3>2
    <3>4. QED
      BY <1>2, <1>5, <2>2, <3>1, <3>3 DEF Uniform
  <2>3. CASE piece = newline /\ newline = <<"r", "n">>
    <3>1. Len(piece) = 2 /\ piece[1] = "r" /\ piece[2] = "n" /\ newline # <<"n">>
      BY <2>3
    <3>2. Len(sent') = n + 2 /\ sent'[n + 1] = "r" /\ sent'[n + 2] = "n"
      BY <1>5, <3>1
    <3>3. \A i \in 1 .. n : /\ sent[i] = "n" => i > 1 /\ sent[i - 1] = "r"
                            /\ sent[i] = "r" => i < n /\ sent[i + 1] = "n"
      BY <2>0, <3>1 DEF Uniform
    <3>4. \A i \in 1 .. n : sent'[i] = sent[i]
      BY <1>5
    <3> HIDE DEF n
    <3>5. ASSUME NEW i \in 1 .. n + 2
          PROVE  /\ sent'[i] = "n" => i > 1 /\ sent'[i - 1] = "r"
                 /\ sent'[i] = "r" => i < n + 2 /\ sent'[i + 1] = "n"
      <4>1. CASE i \in 1 .. n
        <5>1. i > 1 => i - 1 \in 1 .. n
          BY <2>0, <4>1
        <5>2. i < n => i + 1 \in 1 .. n
          BY <2>0, <4>1
        <5>3. i < n + 2
          BY <2>0, <4>1
        <5>4. QED
          BY <3>3, <3>4, <4>1, <5>1, <5>2, <5>3
      <4>2. CASE i = n + 1
        BY <2>0, <3>2, <4>2
      <4>3. CASE i = n + 2
        BY <2>0, <3>2, <4>3
      <4>4. QED
        BY <2>0, <4>1, <4>2, <4>3
    <3>6. QED
      BY <1>2, <3>1, <3>2, <3>5 DEF Uniform
  <2>4. QED
    BY <1>1, <1>3, <2>1, <2>2, <2>3 DEF Newline
<1>7. PICK k \in 1 .. arrived + 1 : ReadFrom(k)
  BY <1>2 DEF StreamInv
<1>8. ReadFrom(k)'
  <2>1. k \in 1 .. Len(sent) + 1 /\ arrived \in k - 1 .. Len(sent) /\ arrived \in k - 1 .. Len(sent')
    BY <1>3, <1>4, <1>5
  <2>2. k = 1 \/ sent[k - 1] = "n"
    BY <1>7 DEF ReadFrom
  <2>3. k = 1 \/ sent'[k - 1] = "n"
    BY <1>5, <2>1, <2>2
  <2>4. SubSeq(sent', k, arrived) = SubSeq(sent, k, arrived)
    <3> DEFINE p == SubSeq(sent, k, arrived)
               q == SubSeq(sent', k, arrived)
    <3>1. /\ p \in Seq(Char) /\ Len(p) = arrived - k + 1
          /\ \A i \in 1 .. arrived - k + 1 : p[i] = sent[k + i - 1]
      BY <1>3, <2>1, PartIs
    <3>2. /\ q \in Seq(Char) /\ Len(q) = arrived - k + 1
          /\ \A i \in 1 .. arrived - k + 1 : q[i] = sent'[k + i - 1]
      <4>1. k \in 1 .. Len(sent') + 1
        BY <1>4, <1>5, <2>1
      <4>2. QED
        BY <1>5, <2>1, <4>1, PartIs
    <3>3. \A i \in 1 .. arrived - k + 1 : k + i - 1 \in 1 .. Len(sent)
      BY <2>1
    <3> HIDE DEF p, q
    <3>4. \A i \in 1 .. Len(p) : p[i] = q[i]
      BY <1>5, <3>1, <3>2, <3>3
    <3>5. p = q
      BY <3>1, <3>2, <3>4, SameCharacters
    <3>6. QED
      BY <3>5 DEF p, q
  <2>5. \A i \in 1 .. k - 1, t \in Terminal : ~LineAt(sent', i, t)
    BY <1>1, <1>3, <1>4, <1>7, <2>1, <2>2, LinesStay DEF ReadFrom
  <2>6. QED
    BY <1>2, <1>7, <2>3, <2>4, <2>5 DEF ReadFrom, Terminal, DoneFrame, ErrorFrame
<1>9. arrived' \in 0 .. Len(sent')
  BY <1>2, <1>3, <1>4, <1>5
<1>10. StreamIsCutFree'
  BY <1>2 DEF StreamIsCutFree
<1>11. QED
  BY <1>2, <1>3, <1>5, <1>6, <1>8, <1>9, <1>10 DEF StreamInv, Newline

\* What arrives is appended.
LEMMA ReadKeeps == StreamInv /\ Read => StreamInv'
<1> SUFFICES ASSUME StreamInv, Read PROVE StreamInv'
  OBVIOUS
<1>1. PICK n \in arrived + 1 .. Len(sent) :
        arrived' = n /\ buffer' = buffer \o SubSeq(sent, arrived + 1, n)
  BY DEF Read
<1>2. outcome = "reading" /\ outcome' = "reading" /\ UNCHANGED <<newline, sent>>
  BY DEF Read, Awaiting
<1>3. sent \in Seq(Char) /\ arrived \in 0 .. Len(sent) /\ n \in 0 .. Len(sent)
  BY DEF StreamInv
<1>4. PICK k \in 1 .. arrived + 1 : ReadFrom(k)
  BY <1>2 DEF StreamInv
<1>5. SubSeq(sent, k, arrived) \o SubSeq(sent, arrived + 1, n) = SubSeq(sent, k, n)
  <2> DEFINE p == SubSeq(sent, k, arrived)
             q == SubSeq(sent, arrived + 1, n)
             r == SubSeq(sent, k, n)
  <2>1. /\ p \in Seq(Char) /\ Len(p) = arrived - k + 1
        /\ \A i \in 1 .. arrived - k + 1 : p[i] = sent[k + i - 1]
    <3>1. k \in 1 .. Len(sent) + 1 /\ arrived \in k - 1 .. Len(sent)
      BY <1>3
    <3>2. QED
      BY <1>3, <3>1, PartIs
  <2>2. /\ q \in Seq(Char) /\ Len(q) = n - (arrived + 1) + 1
        /\ \A i \in 1 .. n - (arrived + 1) + 1 : q[i] = sent[(arrived + 1) + i - 1]
    <3>1. arrived + 1 \in 1 .. Len(sent) + 1 /\ n \in (arrived + 1) - 1 .. Len(sent)
      BY <1>3
    <3>2. QED
      BY <1>3, <3>1, PartIs
  <2>3. /\ r \in Seq(Char) /\ Len(r) = n - k + 1
        /\ \A i \in 1 .. n - k + 1 : r[i] = sent[k + i - 1]
    <3>1. k \in 1 .. Len(sent) + 1 /\ n \in k - 1 .. Len(sent)
      BY <1>3
    <3>2. QED
      BY <1>3, <3>1, PartIs
  <2> HIDE DEF p, q, r
  <2>4. /\ p \o q \in Seq(Char) /\ Len(p \o q) = n - k + 1
        /\ \A i \in 1 .. n - k + 1 :
             (p \o q)[i] = IF i <= arrived - k + 1 THEN p[i] ELSE q[i - (arrived - k + 1)]
    <3>1. Len(p) + Len(q) = n - k + 1
      BY <1>3, <2>1, <2>2
    <3>2. QED
      BY <2>1, <2>2, <3>1, JoinedParts
  <2>5. ASSUME NEW i \in 1 .. n - k + 1 PROVE (p \o q)[i] = r[i]
    <3>1. CASE i <= arrived - k + 1
      BY <1>3, <2>1, <2>3, <2>4, <3>1
    <3>2. CASE ~(i <= arrived - k + 1)
      <4> DEFINE j == i - (arrived - k + 1)
      <4>1. j \in 1 .. n - (arrived + 1) + 1 /\ (arrived + 1) + j - 1 = k + i - 1
        BY <1>3, <3>2
      <4>2. (p \o q)[i] = q[j]
        BY <2>4, <3>2
      <4> HIDE DEF j
      <4>3. q[j] = sent[k + i - 1]
        BY <2>2, <4>1
      <4>4. QED
        BY <2>3, <4>2, <4>3
    <3>3. QED
      BY <3>1, <3>2
  <2>6. p \o q = r
    BY <2>3, <2>4, <2>5, SameCharacters
  <2>7. QED
    BY <2>6 DEF p, q, r
<1>6. ReadFrom(k)'
  BY <1>1, <1>2, <1>4, <1>5 DEF ReadFrom, LineAt, StartsAt, Terminal, DoneFrame, ErrorFrame
<1>7. k \in 1 .. arrived' + 1 /\ arrived' \in 0 .. Len(sent)
  BY <1>1, <1>3
<1>8. StreamIsCutFree'
  BY <1>2 DEF StreamIsCutFree
<1>9. Uniform(sent)'
  BY <1>2 DEF StreamInv, Uniform
<1>10. QED
  BY <1>2, <1>3, <1>6, <1>7, <1>8, <1>9 DEF StreamInv, Newline

\* An event that does not decide leaves the buffer at the line after it; one that does
\* decides for the whole stream.
LEMMA TakeEventKeeps == StreamInv /\ TakeEvent => StreamInv'
<1> SUFFICES ASSUME StreamInv, TakeEvent PROVE StreamInv'
  OBVIOUS
<1> DEFINE end == indexOfDoubleNewline(buffer)
           rest == SubSeq(buffer, end, Len(buffer))
<1>1. /\ outcome = "reading" /\ end # 0
      /\ outcome' = Decision(SubSeq(buffer, 1, end - 1))
      /\ buffer' = DropNewline(DropNewline(rest))
      /\ UNCHANGED <<newline, sent, arrived>>
  BY DEF TakeEvent
<1>2. newline \in Newline /\ sent \in Seq(Char) /\ Uniform(sent) /\ arrived \in 0 .. Len(sent)
  BY DEF StreamInv
<1>3. PICK k \in 1 .. arrived + 1 : ReadFrom(k)
  BY <1>1 DEF StreamInv
<1>4. /\ k \in 1 .. Len(sent) + 1 /\ arrived \in k - 1 .. Len(sent)
      /\ k = 1 \/ sent[k - 1] = "n"
      /\ buffer = SubSeq(sent, k, arrived)
      /\ \A i \in 1 .. k - 1, t \in Terminal : ~LineAt(sent, i, t)
  BY <1>2, <1>3 DEF ReadFrom
<1>5. /\ buffer \in Seq(Char) /\ Len(buffer) = arrived - k + 1
      /\ \A i \in 1 .. arrived - k + 1 : buffer[i] = sent[k + i - 1]
  BY <1>2, <1>4, PartIs
<1>6. /\ end \in 1 .. arrived - k + 1 /\ BlankLineAt(buffer, end)
      /\ \A i \in 1 .. end - 1 : ~BlankLineAt(buffer, i)
  BY <1>1, <1>5, FirstEventEnds
<1> HIDE DEF end
<1> DEFINE e == k + end - 1
<1>7. PICK next \in {k + end + 1, k + end + 3} :
        /\ next <= arrived + 1 /\ sent[next - 1] = "n"
        /\ \A j \in e .. next - 1 : sent[j] \in {"n", "r"}
        /\ LineAt(sent, next - (IF next = k + end + 1 THEN 1 ELSE 2), <<>>)
        /\ DropNewline(DropNewline(SubSeq(sent, e, arrived))) = SubSeq(sent, next, arrived)
  <2>1. BlankLineAt(SubSeq(sent, k, arrived), end)
    BY <1>4, <1>6
  <2> HIDE DEF rest
  <2>2. /\ sent \in Seq(Char) /\ k \in 1 .. Len(sent) + 1
        /\ arrived \in k - 1 .. Len(sent) /\ end \in 1 .. arrived - k + 1
    BY <1>2, <1>4, <1>6
  <2>3. \E next \in {k + end + 1, k + end + 3} : GoesOnAt(sent, k, arrived, end, next)
    BY <2>1, <2>2, BlankIsDropped
  <2>4. QED
    BY <2>3 DEF GoesOnAt
<1>8. rest = SubSeq(sent, e, arrived) /\ SubSeq(buffer, 1, end - 1) = SubSeq(sent, k, e - 1)
  <2>1. /\ end \in 1 .. (arrived - k + 1) + 1 /\ Len(buffer) \in end - 1 .. arrived - k + 1
        /\ k + Len(buffer) - 1 = arrived
    BY <1>2, <1>5, <1>6
  <2>2. rest = SubSeq(sent, e, arrived)
    BY <1>2, <1>4, <2>1, PartOfPart
  <2>3. /\ 1 \in 1 .. (arrived - k + 1) + 1 /\ end - 1 \in 1 - 1 .. arrived - k + 1
        /\ k + 1 - 1 = k /\ k + (end - 1) - 1 = e - 1
    BY <1>2, <1>6
  <2>4. SubSeq(buffer, 1, end - 1) = SubSeq(sent, k + 1 - 1, k + (end - 1) - 1)
    BY <1>2, <1>4, <2>3, PartOfPart
  <2>5. QED
    BY <2>2, <2>3, <2>4
<1>9. buffer' = SubSeq(sent, next, arrived) /\ outcome' = Decision(SubSeq(sent, k, e - 1))
  BY <1>1, <1>7, <1>8
<1> HIDE DEF rest
<1>10. e \in k .. arrived /\ e < next /\ e \in Nat /\ next \in 1 .. arrived + 1
  BY <1>2, <1>6, <1>7
<1> DEFINE empty == next - (IF next = k + end + 1 THEN 1 ELSE 2)
<1>11. empty \in e + 1 .. next - 1 /\ LineAt(sent, empty, <<>>)
  BY <1>6, <1>7
<1> HIDE DEF empty, e
<1>12. \A j \in e .. next - 1, t \in Terminal : ~LineAt(sent, j, t)
  <2> SUFFICES ASSUME NEW j \in e .. next - 1, NEW t \in Terminal, LineAt(sent, j, t) PROVE FALSE
    OBVIOUS
  <2>1. sent[j] \in {"n", "r"} /\ j \in Nat \ {0}
    BY <1>7, <1>10 DEF e
  <2>2. sent[j] \in {"E", "D"}
    BY <1>2, <2>1, TerminalAt DEF Terminal
  <2>3. QED
    BY <2>1, <2>2
<1>13. \A b \in k + 1 .. e - 1 : ~LineAt(sent, b, <<>>)
  <2> SUFFICES ASSUME NEW b \in k + 1 .. e - 1 PROVE ~LineAt(sent, b, <<>>)
    OBVIOUS
  <2>1. b \in k + 1 .. arrived /\ b < arrived
    BY <1>2, <1>10
  <2>2. \A i \in 1 .. b - k : i \in 1 .. end - 1
    BY <1>6 DEF e
  <2>3. \A i \in 1 .. b - k : ~BlankLineAt(SubSeq(sent, k, arrived), i)
    BY <1>4, <1>6, <2>2
  <2>4. QED
    BY <1>2, <1>4, <2>1, <2>3, NoEmptyLine
<1>14. \A t \in Terminal :
         (\E i \in DOMAIN SubSeq(sent, k, e - 1) : LineAt(SubSeq(sent, k, e - 1), i, t))
           <=> \E i \in k .. e - 1 : LineAt(sent, i, t)
  <2>1. e - 1 \in k - 1 .. Len(sent) /\ (e - 1) + 1 = e
    BY <1>2, <1>10
  <2>2. sent[(e - 1) + 1] \in {"n", "r"}
    BY <1>7, <1>10, <2>1 DEF e
  <2>3. QED
    BY <1>2, <1>4, <2>1, <2>2, EventIs
<1>15. ErrorFrame \in Terminal /\ DoneFrame \in Terminal
  BY DEF Terminal
<1>16. CASE \E j \in k .. e - 1 : LineAt(sent, j, ErrorFrame)
  <2>1. outcome' = "failed"
    BY <1>9, <1>14, <1>15, <1>16 DEF Decision
  <2>2. PICK j \in k .. e - 1 : LineAt(sent, j, ErrorFrame)
    BY <1>16
  <2>3. j \in DOMAIN sent
    BY <1>2, <1>10
  <2>4. \A i \in 1 .. k - 1 : ~LineAt(sent, i, DoneFrame)
    BY <1>4, <1>15
  <2>5. k \in Nat
    BY <1>2
  <2>6. Verdict(sent) = "failed"
    BY <1>2, <1>10, <1>13, <2>2, <2>3, <2>4, <2>5, ErrorDecides
  <2>7. StreamIsCutFree'
    BY <1>1, <2>1, <2>6 DEF StreamIsCutFree, Verdict, LineAt, StartsAt, DoneFrame, ErrorFrame
  <2>8. QED
    BY <1>1, <1>2, <2>1, <2>7 DEF StreamInv, Newline, Uniform
<1>17. CASE /\ ~\E j \in k .. e - 1 : LineAt(sent, j, ErrorFrame)
            /\ \E i \in k .. e - 1 : LineAt(sent, i, DoneFrame)
  <2>1. outcome' = "done"
    BY <1>9, <1>14, <1>15, <1>17 DEF Decision
  <2>2. PICK i \in k .. e - 1 : LineAt(sent, i, DoneFrame)
    BY <1>17
  <2>3. i \in DOMAIN sent
    BY <1>2, <1>10
  <2>4. ASSUME NEW j \in DOMAIN sent, LineAt(sent, j, ErrorFrame)
        PROVE  \E b \in i + 1 .. j - 1 : LineAt(sent, b, <<>>)
    <3>1. j \in Nat /\ j >= 1
      BY <1>2
    <3>2. j >= next
      <4>1. ~(j \in 1 .. k - 1) /\ ~(j \in k .. e - 1) /\ ~(j \in e .. next - 1)
        BY <1>4, <1>12, <1>15, <1>17, <2>4
      <4>2. QED
        BY <1>10, <3>1, <4>1
    <3>3. empty \in i + 1 .. j - 1
      BY <1>10, <1>11, <3>1, <3>2
    <3>4. QED
      BY <1>11, <3>3
  <2>5. Verdict(sent) = "done"
    BY <2>2, <2>3, <2>4 DEF Verdict
  <2>6. StreamIsCutFree'
    BY <1>1, <2>1, <2>5 DEF StreamIsCutFree, Verdict, LineAt, StartsAt, DoneFrame, ErrorFrame
  <2>7. QED
    BY <1>1, <1>2, <2>1, <2>6 DEF StreamInv, Newline, Uniform
<1>18. CASE /\ ~\E j \in k .. e - 1 : LineAt(sent, j, ErrorFrame)
            /\ ~\E i \in k .. e - 1 : LineAt(sent, i, DoneFrame)
  <2>1. outcome' = "reading"
    BY <1>9, <1>14, <1>15, <1>18 DEF Decision
  <2>2. \A i \in 1 .. next - 1, t \in Terminal : ~LineAt(sent, i, t)
    <3> SUFFICES ASSUME NEW i \in 1 .. next - 1, NEW t \in Terminal PROVE ~LineAt(sent, i, t)
      OBVIOUS
    <3>1. i \in 1 .. k - 1 \/ i \in k .. e - 1 \/ i \in e .. next - 1
      BY <1>10
    <3>2. QED
      BY <1>4, <1>12, <1>18, <3>1 DEF Terminal
  <2>3. ReadFrom(next)'
    BY <1>1, <1>7, <1>9, <2>2 DEF ReadFrom, LineAt, StartsAt, Terminal, DoneFrame, ErrorFrame
  <2>4. StreamIsCutFree'
    BY <2>1 DEF StreamIsCutFree
  <2>5. QED
    BY <1>1, <1>2, <1>10, <2>3, <2>4 DEF StreamInv, Newline, Uniform
<1>19. QED
  BY <1>16, <1>17, <1>18

\* At the end of the stream the buffer is its last event.
LEMMA StreamEndsKeeps == StreamInv /\ StreamEnds => StreamInv'
<1> SUFFICES ASSUME StreamInv, StreamEnds PROVE StreamInv'
  OBVIOUS
<1>1. /\ outcome = "reading" /\ indexOfDoubleNewline(buffer) = 0 /\ arrived = Len(sent)
      /\ outcome' = IF Decision(buffer) = "done" THEN "done" ELSE "failed"
      /\ UNCHANGED <<newline, sent, arrived, buffer>>
  BY DEF StreamEnds, Awaiting
<1>2. newline \in Newline /\ sent \in Seq(Char) /\ Uniform(sent) /\ arrived \in 0 .. Len(sent)
  BY DEF StreamInv
<1>3. PICK k \in 1 .. arrived + 1 : ReadFrom(k)
  BY <1>1 DEF StreamInv
<1>4. /\ k \in 1 .. Len(sent) + 1 /\ arrived \in k - 1 .. Len(sent)
      /\ k = 1 \/ sent[k - 1] = "n"
      /\ buffer = SubSeq(sent, k, arrived)
      /\ \A i \in 1 .. k - 1, t \in Terminal : ~LineAt(sent, i, t)
  BY <1>2, <1>3 DEF ReadFrom
<1>5. /\ buffer \in Seq(Char) /\ Len(buffer) = arrived - k + 1
  BY <1>2, <1>4, PartIs
<1>6. \A i \in 1 .. arrived - k + 1 : ~BlankLineAt(buffer, i)
  BY <1>1, <1>5, FirstEventEnds
<1>7. \A b \in k + 1 .. arrived : ~LineAt(sent, b, <<>>)
  <2> SUFFICES ASSUME NEW b \in k + 1 .. arrived PROVE ~LineAt(sent, b, <<>>)
    OBVIOUS
  <2>1. b \in 1 .. Len(sent)
    BY <1>2
  <2>2. sent[b] = "r" => b < arrived
    BY <1>1, <1>2, <2>1 DEF Uniform, Newline
  <2>3. \A i \in 1 .. b - k : i \in 1 .. arrived - k + 1
    BY <1>2
  <2>4. \A i \in 1 .. b - k : ~BlankLineAt(SubSeq(sent, k, arrived), i)
    BY <1>4, <1>6, <2>3
  <2>5. QED
    BY <1>2, <1>4, <2>2, <2>4, NoEmptyLine
<1>8. \A t \in Terminal :
        (\E i \in DOMAIN buffer : LineAt(buffer, i, t)) <=> \E i \in k .. arrived : LineAt(sent, i, t)
  BY <1>1, <1>2, <1>4, EventIs
<1>9. ErrorFrame \in Terminal /\ DoneFrame \in Terminal
  BY DEF Terminal
<1>10. ASSUME NEW j \in DOMAIN sent, NEW t \in Terminal, LineAt(sent, j, t)
       PROVE  j \in k .. arrived
  <2>1. j \in 1 .. arrived /\ ~(j \in 1 .. k - 1)
    BY <1>1, <1>2, <1>4, <1>10
  <2>2. QED
    BY <1>4, <2>1
<1>11. (outcome' = Verdict(sent))
  <2>1. CASE \E j \in k .. arrived : LineAt(sent, j, ErrorFrame)
    <3>1. Decision(buffer) = "failed"
      BY <1>8, <1>9, <2>1 DEF Decision
    <3>2. PICK j \in k .. arrived : LineAt(sent, j, ErrorFrame)
      BY <2>1
    <3>3. j \in DOMAIN sent /\ k \in Nat /\ arrived + 1 \in Nat /\ (arrived + 1) - 1 = arrived
      BY <1>2, <1>4
    <3>4. Verdict(sent) = "failed"
      BY <1>2, <1>4, <1>7, <1>9, <3>2, <3>3, ErrorDecides
    <3>5. QED
      BY <1>1, <3>1, <3>4
  <2>2. CASE /\ ~\E j \in k .. arrived : LineAt(sent, j, ErrorFrame)
             /\ \E i \in k .. arrived : LineAt(sent, i, DoneFrame)
    <3>1. Decision(buffer) = "done"
      BY <1>8, <1>9, <2>2 DEF Decision
    <3>2. PICK i \in k .. arrived : LineAt(sent, i, DoneFrame)
      BY <2>2
    <3>3. i \in DOMAIN sent
      BY <1>2, <1>4
    <3>4. \A j \in DOMAIN sent : ~LineAt(sent, j, ErrorFrame)
      BY <1>9, <1>10, <2>2
    <3>5. Verdict(sent) = "done"
      BY <3>2, <3>3, <3>4 DEF Verdict
    <3>6. QED
      BY <1>1, <3>1, <3>5
  <2>3. CASE /\ ~\E j \in k .. arrived : LineAt(sent, j, ErrorFrame)
             /\ ~\E i \in k .. arrived : LineAt(sent, i, DoneFrame)
    <3>1. Decision(buffer) = "reading"
      BY <1>8, <1>9, <2>3 DEF Decision
    <3>2. \A i \in DOMAIN sent : ~LineAt(sent, i, DoneFrame)
      BY <1>9, <1>10, <2>3
    <3>3. Verdict(sent) = "failed"
      BY <3>2 DEF Verdict
    <3>4. QED
      BY <1>1, <3>1, <3>3
  <2>4. QED
    BY <2>1, <2>2, <2>3
<1>12. StreamIsCutFree'
  BY <1>1, <1>11 DEF StreamIsCutFree, Verdict, LineAt, StartsAt, DoneFrame, ErrorFrame
<1>13. QED
  BY <1>1, <1>2, <1>12 DEF StreamInv, Newline, Uniform

\* Every step keeps it: once there is an outcome none is taken.
LEMMA StreamInvStep == StreamInv /\ [Next]_vars => StreamInv'
<1> SUFFICES ASSUME StreamInv, [StreamNext]_streamVars PROVE StreamInv'
  BY OnePartMoves
<1>1. CASE UNCHANGED streamVars
  <2>1. UNCHANGED <<newline, sent, arrived, buffer, outcome>>
    BY <1>1 DEF streamVars
  <2>2. ASSUME NEW k \in Int PROVE ReadFrom(k) => ReadFrom(k)'
    BY <2>1 DEF ReadFrom, LineAt, StartsAt, Terminal, DoneFrame, ErrorFrame
  <2>3. StreamIsCutFree'
    <3>1. StreamIsCutFree
      BY DEF StreamInv
    <3>2. QED
      BY <2>1, <3>1 DEF StreamIsCutFree, Verdict, LineAt, StartsAt, DoneFrame, ErrorFrame
  <2>4. outcome = "reading" => \E k \in 1 .. arrived + 1 : ReadFrom(k)'
    BY <2>2 DEF StreamInv
  <2>5. arrived' \in 0 .. Len(sent') /\ sent' \in Seq(Char) /\ Uniform(sent)'
    BY <2>1 DEF StreamInv, Uniform
  <2>6. QED
    BY <2>1, <2>3, <2>4, <2>5 DEF StreamInv, Newline
<1>2. CASE StreamBreaks
  <2>1. UNCHANGED <<newline, sent, arrived>> /\ outcome' = "broken"
    BY <1>2 DEF StreamBreaks
  <2>2. QED
    BY <2>1 DEF StreamInv, Newline, Uniform, StreamIsCutFree
<1>3. QED
  BY <1>1, <1>2, SendKeeps, ReadKeeps, TakeEventKeeps, StreamEndsKeeps DEF StreamNext

\* However the network cuts a stream, of any length and with either line end, the
\* outcome is what the stream as a whole says (consumeStream).
THEOREM CutsDoNotMatter == Spec => []StreamIsCutFree
<1>1. Init => StreamInv
  <2> SUFFICES ASSUME Init PROVE StreamInv
    OBVIOUS
  <2>1. /\ newline \in Newline /\ sent = <<>> /\ arrived = 0 /\ buffer = <<>>
        /\ outcome = "reading"
    BY DEF Init, StreamAtRest, StreamInit
  <2>2. sent \in Seq(Char) /\ Len(sent) = 0 /\ SubSeq(sent, 1, 0) = <<>> /\ 1 .. 1 - 1 = {}
    BY <2>1
  <2>3. ReadFrom(1)
    BY <2>1, <2>2 DEF ReadFrom
  <2>4. Uniform(sent)
    BY <2>2 DEF Uniform
  <2>5. QED
    BY <2>1, <2>2, <2>3, <2>4 DEF StreamInv, StreamIsCutFree
<1>2. StreamInv => StreamIsCutFree
  BY DEF StreamInv
<1>3. QED
  BY <1>1, <1>2, StreamInvStep, PTL DEF Spec

-----------------------------------------------------------------------------
(* What the pages show of the sources *)

EventKind == {"seed-ingested", "source-registered", "source-scanned", "source-updated"}

\* Events of these sources, as they are once they were found to have a date.
Dated(S) == [of : S, kind : EventKind, at : Nat]

Before(events, a, b) ==
    events[a].at > events[b].at \/ (events[a].at = events[b].at /\ a < b)

Place(events, k) == 1 + Cardinality({j \in DOMAIN events : Before(events, j, k)})

OneAt(events, p) == CHOOSE k \in DOMAIN events : Place(events, k) = p

\* The smaller one of two.
LEMMA MinOfTwo ==
    ASSUME NEW m \in Nat, NEW n \in Nat
    PROVE  Min({m, n}) = IF m < n THEN m ELSE n
<1> DEFINE x == IF m < n THEN m ELSE n
<1>1. x \in {m, n} /\ \A y \in {m, n} : x <= y
  OBVIOUS
<1>2. \A z \in {m, n} : (\A y \in {m, n} : z <= y) => z = x
  BY <1>1
<1> HIDE DEF x
<1>3. Min({m, n}) = x
  BY <1>1, <1>2 DEF Min
<1>4. QED
  BY <1>3 DEF x

\* Events have their places by their order.
LEMMA PlacesAreApart ==
    ASSUME NEW S, NEW events \in Seq(Dated(S))
    PROVE  /\ \A k \in DOMAIN events : Place(events, k) \in DOMAIN events
           /\ \A a, b \in DOMAIN events :
                Before(events, a, b) => Place(events, a) < Place(events, b)
<1> DEFINE n == Len(events)
           Ahead(k) == {j \in DOMAIN events : Before(events, j, k)}
<1>0. /\ DOMAIN events = 1 .. n /\ n \in Nat
      /\ \A k \in 1 .. n : events[k].at \in Nat
      /\ IsFiniteSet(1 .. n) /\ Cardinality(1 .. n) = n
  <2>1. DOMAIN events = 1 .. n /\ n \in Nat /\ \A k \in 1 .. n : events[k] \in Dated(S)
    OBVIOUS
  <2> HIDE DEF n
  <2>2. IsFiniteSet(1 .. n) /\ Cardinality(1 .. n) = n
    BY <2>1, FS_Interval
  <2>3. QED
    BY <2>1, <2>2 DEF Dated
<1>1. \A k \in 1 .. n : ~Before(events, k, k)
  BY <1>0 DEF Before
<1>2. ASSUME NEW k \in 1 .. n
      PROVE  IsFiniteSet(Ahead(k)) /\ Cardinality(Ahead(k)) \in Nat /\ Cardinality(Ahead(k)) < n
  <2>1. Ahead(k) \in SUBSET (1 .. n) /\ Ahead(k) # 1 .. n
    BY <1>0, <1>1
  <2> HIDE DEF Ahead
  <2>2. QED
    BY <1>0, <2>1, FS_Subset, FS_CardinalityType
<1>3. ASSUME NEW a \in 1 .. n, NEW b \in 1 .. n, Before(events, a, b)
      PROVE  Cardinality(Ahead(a)) < Cardinality(Ahead(b))
  <2>1. Ahead(a) \in SUBSET Ahead(b)
    BY <1>0, <1>3 DEF Before
  <2>2. a \in Ahead(b) /\ a \notin Ahead(a)
    BY <1>0, <1>1, <1>3
  <2> HIDE DEF Ahead
  <2>3. QED
    BY <1>2, <2>1, <2>2, FS_Subset
<1>4. \A k : Place(events, k) = 1 + Cardinality(Ahead(k))
  BY DEF Place
<1> HIDE DEF Ahead
<1>5. QED
  BY <1>0, <1>2, <1>3, <1>4

\* Every place is taken, by one event.
LEMMA PlacesAreTaken ==
    ASSUME NEW S, NEW events \in Seq(Dated(S))
    PROVE  /\ \A p \in DOMAIN events :
                OneAt(events, p) \in DOMAIN events /\ Place(events, OneAt(events, p)) = p
           /\ \A k \in DOMAIN events : OneAt(events, Place(events, k)) = k
<1> DEFINE D == DOMAIN events
           place == [k \in D |-> Place(events, k)]
<1>0. /\ D = 1 .. Len(events) /\ IsFiniteSet(D) /\ D \subseteq Nat
      /\ \A k \in D : events[k].at \in Nat /\ place[k] \in Nat
  <2>1. D = 1 .. Len(events) /\ Len(events) \in Nat /\ \A k \in D : events[k] \in Dated(S)
    OBVIOUS
  <2>2. IsFiniteSet(D) /\ D \subseteq Nat
    BY <2>1, FS_Interval
  <2>3. \A k \in D : place[k] \in Nat
    BY <2>1, PlacesAreApart
  <2> HIDE DEF D, place
  <2>4. QED
    BY <2>1, <2>2, <2>3 DEF Dated
<1>1. ASSUME NEW a \in D, NEW b \in D, place[a] = place[b] PROVE a = b
  <2>1. Before(events, a, b) \/ Before(events, b, a) \/ a = b
    BY <1>0 DEF Before
  <2>2. ~(Place(events, a) < Place(events, b)) /\ ~(Place(events, b) < Place(events, a))
    BY <1>0, <1>1
  <2>3. QED
    BY <2>1, <2>2, PlacesAreApart
<1>2. place \in Injection(D, D)
  BY <1>1, PlacesAreApart DEF Injection, IsInjective
<1>3. place \in Surjection(D, D)
  BY <1>0, <1>2, FS_Injection
<1>4. \A p \in D : \E k \in D : Place(events, k) = p
  BY <1>3 DEF Surjection
<1>5. \A p \in D : OneAt(events, p) \in D /\ Place(events, OneAt(events, p)) = p
  BY <1>4, Zenon DEF OneAt
<1>6. ASSUME NEW k \in D PROVE OneAt(events, Place(events, k)) = k
  <2>1. Place(events, k) \in D
    BY PlacesAreApart
  <2>2. QED
    BY <1>1, <1>5, <2>1
<1>7. QED
  BY <1>5, <1>6

\* What Newest returns: events it was given, in their order, and those it leaves out
\* are no newer.
LEMMA NewestIs ==
    ASSUME NEW S, NEW events \in Seq(Dated(S)), NEW limit \in Nat
    PROVE  LET out == Newest(events, limit)
           IN  /\ out \in Seq(Dated(S))
               /\ Len(out) = IF limit < Len(events) THEN limit ELSE Len(events)
               /\ \A a, b \in DOMAIN out : a < b => out[a].at >= out[b].at
               /\ \A p \in DOMAIN out : \E k \in DOMAIN events : out[p] = events[k]
               /\ \A k \in DOMAIN events :
                    \/ \E p \in DOMAIN out : out[p] = events[k]
                    \/ /\ Len(out) = limit
                       /\ \A p \in DOMAIN out : out[p].at >= events[k].at
<1> DEFINE n == Len(events)
           m == IF limit < n THEN limit ELSE n
           out == [p \in 1 .. m |-> events[OneAt(events, p)]]
<1>0. /\ DOMAIN events = 1 .. n /\ n \in Nat /\ m \in Nat /\ m <= n
      /\ \A k \in 1 .. n : events[k] \in Dated(S) /\ events[k].at \in Nat
  <2>1. \A k \in 1 .. n : events[k] \in Dated(S)
    OBVIOUS
  <2>2. QED
    BY <2>1 DEF Dated
<1>1. Newest(events, limit) = out
  <2>1. Min({limit, n}) = m
    BY MinOfTwo
  <2>2. QED
    BY <2>1 DEF Newest, OneAt, Place, Before
<1>2. /\ out \in Seq(Dated(S)) /\ Len(out) = m /\ DOMAIN out = 1 .. m
      /\ \A p \in 1 .. m : p \in 1 .. n /\ out[p] = events[OneAt(events, p)]
                           /\ OneAt(events, p) \in 1 .. n
  <2>1. \A p \in 1 .. m : p \in 1 .. n /\ OneAt(events, p) \in 1 .. n
    <3>1. \A p \in 1 .. n : OneAt(events, p) \in 1 .. n
      BY <1>0, PlacesAreTaken
    <3> HIDE DEF m, n
    <3>2. QED
      BY <1>0, <3>1
  <2>2. QED
    BY <1>0, <2>1, SMTT(30)
<1>3. ASSUME NEW a \in 1 .. n, NEW b \in 1 .. n, a < b
      PROVE  events[OneAt(events, a)].at >= events[OneAt(events, b)].at
  <2> DEFINE x == OneAt(events, a)
             y == OneAt(events, b)
  <2>1. x \in 1 .. n /\ y \in 1 .. n /\ Place(events, x) = a /\ Place(events, y) = b
    BY <1>0, PlacesAreTaken
  <2>2. ~(Place(events, y) < Place(events, x))
    BY <1>3, <2>1
  <2> HIDE DEF x, y
  <2>3. ~Before(events, y, x)
    BY <1>0, <2>1, <2>2, PlacesAreApart
  <2>4. events[x].at >= events[y].at
    BY <1>0, <2>1, <2>3 DEF Before
  <2>5. QED
    BY <2>4 DEF x, y
<1>4. ASSUME NEW k \in 1 .. n
      PROVE  \/ \E p \in 1 .. m : out[p] = events[k]
             \/ m = limit /\ \A p \in 1 .. m : out[p].at >= events[k].at
  <2> DEFINE q == Place(events, k)
  <2>1. q \in 1 .. n /\ OneAt(events, q) = k
    BY <1>0, PlacesAreApart, PlacesAreTaken
  <2> HIDE DEF q
  <2>2. CASE q \in 1 .. m
    BY <1>2, <2>1, <2>2
  <2>3. CASE q \notin 1 .. m
    <3>1. m = limit /\ \A p \in 1 .. m : p < q
      <4>1. m # n => m = limit
        OBVIOUS
      <4> HIDE DEF m, n
      <4>2. q \in Nat /\ 1 <= q /\ q <= n /\ ~(q <= m)
        BY <1>0, <2>1, <2>3
      <4>3. m # n /\ \A p \in 1 .. m : p < q
        BY <1>0, <4>2
      <4>4. QED
        BY <4>1, <4>3
    <3>2. \A p \in 1 .. m : out[p].at >= events[k].at
      BY <1>2, <1>3, <2>1, <3>1
    <3>3. QED
      BY <3>1, <3>2
  <2>4. QED
    BY <2>2, <2>3
<1> HIDE DEF out, m
<1>5. \A a, b \in 1 .. m : a < b => out[a].at >= out[b].at
  BY <1>2, <1>3
<1>6. QED
  BY <1>0, <1>1, <1>2, <1>4, <1>5 DEF m

\* One unit for each thing that is counted.
Units(count, T) == {u \in T \X Nat : 1 <= u[2] /\ u[2] <= count[u[1]]}

\* Units are counted key by key.
LEMMA UnitsAddUp ==
    ASSUME NEW S, IsFiniteSet(S), NEW count \in [S -> Nat], NEW T \in SUBSET S
    PROVE  /\ IsFiniteSet(Units(count, T)) /\ Cardinality(Units(count, T)) \in Nat
           /\ T = {} => Cardinality(Units(count, T)) = 0
           /\ \A x \in T : Cardinality(Units(count, T))
                             = count[x] + Cardinality(Units(count, T \ {x}))
<1> DEFINE Of(x) == {x} \X (1 .. count[x])
<1>1. ASSUME NEW x \in S PROVE IsFiniteSet(Of(x)) /\ Cardinality(Of(x)) = count[x]
  <2>1. /\ IsFiniteSet({x}) /\ Cardinality({x}) = 1
        /\ IsFiniteSet(1 .. count[x]) /\ Cardinality(1 .. count[x]) = count[x]
    <3>1. count[x] \in Nat
      OBVIOUS
    <3> DEFINE c == count[x]
    <3> HIDE DEF c
    <3>2. c \in Nat => IsFiniteSet(1 .. c) /\ Cardinality(1 .. c) = c
      BY FS_Interval
    <3>3. QED
      BY <3>1, <3>2, FS_Singleton DEF c
  <2>2. IsFiniteSet(Of(x)) /\ Cardinality(Of(x)) = 1 * count[x]
    BY <2>1, FS_Product
  <2>3. count[x] \in Nat
    OBVIOUS
  <2>4. QED
    BY <2>2, <2>3
<1>2. ASSUME NEW U \in SUBSET S PROVE IsFiniteSet(Units(count, U))
  <2> DEFINE g == [x \in U |-> Of(x)]
             R == {Of(x) : x \in U}
  <2>1. g \in Surjection(U, R)
    BY DEF Surjection
  <2>2. IsFiniteSet(U)
    BY FS_Subset
  <2>3. IsFiniteSet(R)
    BY <2>1, <2>2, FS_Surjection
  <2>4. \A X \in R : IsFiniteSet(X)
    BY <1>1
  <2>5. Units(count, U) = UNION R
    BY DEF Units
  <2> HIDE DEF R
  <2>6. QED
    BY <2>3, <2>4, <2>5, FS_UNION
<1>3. ASSUME NEW x \in T
      PROVE  Cardinality(Units(count, T)) = count[x] + Cardinality(Units(count, T \ {x}))
  <2>1. Units(count, T) = Of(x) \cup Units(count, T \ {x})
    BY DEF Units
  <2>2. Of(x) \cap Units(count, T \ {x}) = {}
    BY DEF Units
  <2>3. IsFiniteSet(Of(x)) /\ IsFiniteSet(Units(count, T \ {x})) /\ Cardinality(Of(x)) = count[x]
    BY <1>1, <1>2
  <2> HIDE DEF Of
  <2>4. Cardinality(Units(count, T))
          = Cardinality(Of(x)) + Cardinality(Units(count, T \ {x})) - Cardinality({})
    <3> DEFINE A == Of(x)
               B == Units(count, T \ {x})
    <3> HIDE DEF A, B
    <3>1. IsFiniteSet(A) /\ IsFiniteSet(B)
            => Cardinality(A \cup B) = Cardinality(A) + Cardinality(B) - Cardinality(A \cap B)
      BY FS_Union
    <3>2. QED
      BY <2>1, <2>2, <2>3, <3>1 DEF A, B
  <2>5. /\ Cardinality({}) = 0
        /\ Cardinality(Of(x)) \in Nat /\ Cardinality(Units(count, T \ {x})) \in Nat
    BY <2>3, FS_EmptySet, FS_CardinalityType
  <2>6. QED
    BY <2>3, <2>4, <2>5
<1>4. T = {} => Cardinality(Units(count, T)) = 0
  <2>1. T = {} => Units(count, T) = {}
    BY DEF Units
  <2>2. QED
    BY <2>1, FS_EmptySet
<1>5. QED
  BY <1>2, <1>3, <1>4, FS_CardinalityType

\* Counts that agree have the same units.
LEMMA SameUnits ==
    ASSUME NEW T, NEW f, NEW g, \A x \in T : f[x] = g[x]
    PROVE  Units(f, T) = Units(g, T)
BY DEF Units

\* A function that adds up counts, one key after the other.
Adds(count, h) ==
    h = [T \in SUBSET DOMAIN count |->
           IF T = {} THEN 0
           ELSE LET x == CHOOSE x \in T : TRUE IN count[x] + h[T \ {x}]]

\* There is one, and what it comes to is the number of units.
LEMMA InAllIs ==
    ASSUME NEW S, IsFiniteSet(S), NEW count \in [S -> Nat]
    PROVE  InAll(count) = Cardinality(Units(count, S))
<1> DEFINE f == [T \in SUBSET S |-> Cardinality(Units(count, T))]
           h == CHOOSE h : Adds(count, h)
<1>1. DOMAIN count = S
  OBVIOUS
<1>2. ASSUME NEW T \in SUBSET S, T # {}
      PROVE  (CHOOSE x \in T : TRUE) \in T
  BY <1>2
<1>3. Adds(count, f)
  <2>1. \A T \in SUBSET S : f[T] = IF T = {} THEN 0
                                   ELSE LET x == CHOOSE x \in T : TRUE
                                        IN count[x] + f[T \ {x}]
    <3> SUFFICES ASSUME NEW T \in SUBSET S
                 PROVE  f[T] = IF T = {} THEN 0
                               ELSE LET x == CHOOSE x \in T : TRUE
                                    IN count[x] + f[T \ {x}]
      OBVIOUS
    <3>1. CASE T = {}
      BY <3>1, UnitsAddUp
    <3>2. CASE T # {}
      <4> DEFINE c == CHOOSE x \in T : TRUE
      <4>1. c \in T
        BY <1>2, <3>2
      <4> HIDE DEF c
      <4>2. f[T] = count[c] + f[T \ {c}]
        BY <4>1, UnitsAddUp
      <4>3. QED
        BY <3>2, <4>2 DEF c
    <3>3. QED
      BY <3>1, <3>2
  <2>2. f = [T \in SUBSET S |-> f[T]]
    OBVIOUS
  <2> HIDE DEF f
  <2>3. QED
    BY <1>1, <2>1, <2>2 DEF Adds
<1> HIDE DEF f
<1>4. Adds(count, h)
  BY <1>3
<1>5. InAll(count) = h[S]
  BY <1>1 DEF InAll, MapThenSumSet, MapThenFoldSet, Adds
<1> HIDE DEF h
<1>6. \A T \in SUBSET S : h[T] = IF T = {} THEN 0
                                 ELSE LET x == CHOOSE x \in T : TRUE IN count[x] + h[T \ {x}]
  BY <1>1, <1>4 DEF Adds
<1> DEFINE N == {k \in Nat : \A T \in SUBSET S :
                     Cardinality(T) = k => h[T] = Cardinality(Units(count, T))}
<1>7. \A T \in SUBSET S : IsFiniteSet(T) /\ Cardinality(T) \in Nat
  BY FS_Subset, FS_CardinalityType
<1>8. 0 \in N
  <2>1. ASSUME NEW T \in SUBSET S, Cardinality(T) = 0 PROVE h[T] = Cardinality(Units(count, T))
    <3>1. T = {}
      BY <1>7, <2>1, FS_EmptySet
    <3>2. QED
      BY <1>6, <3>1, UnitsAddUp
  <2>2. QED
    BY <2>1
<1>9. ASSUME NEW k \in Nat, k \in N PROVE k + 1 \in N
  <2>1. ASSUME NEW T \in SUBSET S, Cardinality(T) = k + 1
        PROVE  h[T] = Cardinality(Units(count, T))
    <3> DEFINE c == CHOOSE x \in T : TRUE
    <3>1. T # {}
      BY <2>1, FS_EmptySet
    <3>2. c \in T
      BY <1>2, <3>1
    <3>3. h[T] = count[c] + h[T \ {c}]
      BY <1>6, <3>1
    <3> HIDE DEF c
    <3>4. Cardinality(T \ {c}) = k
      <4>1. Cardinality(T \ {c}) = Cardinality(T) - 1
        BY <1>7, <3>2, FS_RemoveElement
      <4>2. QED
        BY <2>1, <4>1
    <3>5. h[T \ {c}] = Cardinality(Units(count, T \ {c}))
      BY <1>9, <3>4
    <3>6. QED
      BY <3>2, <3>3, <3>5, UnitsAddUp
  <2>2. QED
    BY <2>1
<1> HIDE DEF N
<1>10. Cardinality(S) \in N
  BY <1>7, <1>8, <1>9, Induction
<1>11. QED
  BY <1>5, <1>10 DEF N

\* An event among others.
Among(e, events) == \E p \in DOMAIN events : events[p] = e

\* One event more, or none.
LEMMA PushIs ==
    ASSUME NEW S, NEW events \in Seq(S), NEW e, NEW c \in BOOLEAN, c => e \in S
    PROVE  /\ Push(events, e, c) \in Seq(S)
           /\ \A x : Among(x, Push(events, e, c)) <=> Among(x, events) \/ (c /\ x = e)
<1>1. CASE c
  <2>1. Push(events, e, c) = Append(events, e) /\ e \in S
    BY <1>1 DEF Push
  <2>2. /\ Append(events, e) \in Seq(S) /\ Len(events) \in Nat
        /\ DOMAIN Append(events, e) = 1 .. Len(events) + 1 /\ DOMAIN events = 1 .. Len(events)
        /\ \A p \in 1 .. Len(events) : Append(events, e)[p] = events[p]
        /\ Append(events, e)[Len(events) + 1] = e
    BY <2>1
  <2>3. \A x : Among(x, Append(events, e)) <=> Among(x, events) \/ x = e
    <3> SUFFICES ASSUME NEW x
                 PROVE  Among(x, Append(events, e)) <=> Among(x, events) \/ x = e
      OBVIOUS
    <3>1. \A p \in 1 .. Len(events) + 1 : p \in 1 .. Len(events) \/ p = Len(events) + 1
      BY <2>2
    <3>2. Len(events) + 1 \in 1 .. Len(events) + 1
          /\ \A p \in 1 .. Len(events) : p \in 1 .. Len(events) + 1
      BY <2>2
    <3>3. QED
      BY <2>2, <3>1, <3>2, Zenon DEF Among
  <2>4. QED
    BY <1>1, <2>1, <2>2, <2>3
<1>2. CASE ~c
  BY <1>2 DEF Push
<1>3. QED
  BY <1>1, <1>2

\* What a detail and its item come to.
Summary == [createdAt : Nat \cup {Absent}, updatedAt : Nat \cup {Absent},
            lastScanAt : Nat \cup {Absent}]

\* The events a source has.
IsOf(e, k, s) ==
    \/ s.createdAt # Absent /\ e = Event(k, "source-registered", s.createdAt)
    \/ s.lastScanAt # Absent /\ e = Event(k, "source-scanned", s.lastScanAt)
    \/ s.updatedAt # Absent /\ s.updatedAt # s.createdAt
       /\ e = Event(k, "source-updated", s.updatedAt)

\* A pass over a source adds its events.
LEMMA WithSourceIs ==
    ASSUME NEW S, NEW events \in Seq(Dated(S)), NEW k \in S, NEW s \in Summary
    PROVE  /\ WithSource(events, k, s) \in Seq(Dated(S))
           /\ \A e : Among(e, WithSource(events, k, s)) <=> Among(e, events) \/ IsOf(e, k, s)
<1> DEFINE e1 == Event(k, "source-registered", s.createdAt)
           e2 == Event(k, "source-scanned", s.lastScanAt)
           e3 == Event(k, "source-updated", s.updatedAt)
           c1 == s.createdAt # Absent
           c2 == s.lastScanAt # Absent
           c3 == s.updatedAt # Absent /\ s.updatedAt # s.createdAt
           one == Push(events, e1, c1)
           two == Push(one, e2, c2)
           three == Push(two, e3, c3)
<1>1. WithSource(events, k, s) = three
  BY DEF WithSource
<1>2. /\ c1 => e1 \in Dated(S)
      /\ c2 => e2 \in Dated(S)
      /\ c3 => e3 \in Dated(S)
  BY DEF Summary, Dated, Event, EventKind
<1>3. \A e : IsOf(e, k, s) <=> (c1 /\ e = e1) \/ (c2 /\ e = e2) \/ (c3 /\ e = e3)
  BY DEF IsOf
<1>4. c1 \in BOOLEAN /\ c2 \in BOOLEAN /\ c3 \in BOOLEAN
  OBVIOUS
<1> HIDE DEF e1, e2, e3, c1, c2, c3
<1>5. one \in Seq(Dated(S)) /\ \A e : Among(e, one) <=> Among(e, events) \/ (c1 /\ e = e1)
  BY <1>2, <1>4, PushIs
<1> HIDE DEF one
<1>6. two \in Seq(Dated(S)) /\ \A e : Among(e, two) <=> Among(e, one) \/ (c2 /\ e = e2)
  BY <1>2, <1>4, <1>5, PushIs
<1> HIDE DEF two
<1>7. three \in Seq(Dated(S)) /\ \A e : Among(e, three) <=> Among(e, two) \/ (c3 /\ e = e3)
  BY <1>2, <1>4, <1>6, PushIs
<1> HIDE DEF three
<1>8. QED
  BY <1>1, <1>3, <1>5, <1>6, <1>7

\* The loop over the sources, pass by pass.
Passes(summaries, n, w) ==
    w = [k \in 0 .. n |-> IF k = 0 THEN <<>> ELSE WithSource(w[k - 1], k, summaries[k])]

\* It has an end.
LEMMA PassesEnd ==
    ASSUME NEW n \in Nat, NEW summaries
    PROVE  \E w : Passes(summaries, n, w)
<1> DEFINE N == {m \in Nat : \E w : Passes(summaries, m, w)}
<1>1. 0 \in N
  <2>1. Passes(summaries, 0, [k \in 0 .. 0 |-> <<>>])
    BY DEF Passes
  <2>2. QED
    BY <2>1
<1>2. ASSUME NEW m \in Nat, m \in N PROVE m + 1 \in N
  <2>1. PICK w : Passes(summaries, m, w)
    BY <1>2
  <2> DEFINE next == WithSource(w[m], m + 1, summaries[m + 1])
             v == [k \in 0 .. m + 1 |-> IF k <= m THEN w[k] ELSE next]
  <2>2. \A k \in 0 .. m : w[k] = IF k = 0 THEN <<>> ELSE WithSource(w[k - 1], k, summaries[k])
    BY <2>1 DEF Passes
  <2>3. ASSUME NEW k \in 0 .. m + 1
        PROVE  v[k] = IF k = 0 THEN <<>> ELSE WithSource(v[k - 1], k, summaries[k])
    <3>1. CASE k <= m
      <4>1. v[k] = w[k] /\ (k # 0 => v[k - 1] = w[k - 1]) /\ k \in 0 .. m
        BY <3>1
      <4> HIDE DEF v
      <4>2. QED
        BY <2>2, <4>1
    <3>2. CASE ~(k <= m)
      <4>1. k = m + 1 /\ k # 0 /\ v[k] = next /\ v[k - 1] = w[m]
        BY <3>2
      <4> HIDE DEF v
      <4>2. QED
        BY <4>1
    <3>3. QED
      BY <3>1, <3>2
  <2>4. v = [k \in 0 .. m + 1 |-> v[k]]
    OBVIOUS
  <2> HIDE DEF v
  <2>5. Passes(summaries, m + 1, v)
    BY <2>3, <2>4 DEF Passes
  <2>6. QED
    BY <2>5
<1> HIDE DEF N
<1>3. n \in N
  BY <1>1, <1>2, Induction
<1>4. QED
  BY <1>3 DEF N

\* It collects the events of all of them.
LEMMA LiveEventsAre ==
    ASSUME NEW n \in Nat, NEW summaries \in [1 .. n -> Summary], Len(summaries) = n
    PROVE  /\ LiveEvents(summaries) \in Seq(Dated(1 .. n))
           /\ \A e : Among(e, LiveEvents(summaries))
                       <=> \E k \in 1 .. n : IsOf(e, k, summaries[k])
<1> DEFINE w == CHOOSE w : Passes(summaries, n, w)
           Of(e, m) == \E k \in 1 .. m : IsOf(e, k, summaries[k])
           Good(m) == /\ w[m] \in Seq(Dated(1 .. n))
                      /\ \A e : Among(e, w[m]) <=> Of(e, m)
           N == {m \in Nat : m <= n => Good(m)}
<1>1. Passes(summaries, n, w)
  BY PassesEnd
<1>2. LiveEvents(summaries) = w[n]
  BY DEF LiveEvents, Passes
<1> HIDE DEF w
<1>3. \A k \in 0 .. n : w[k] = IF k = 0 THEN <<>> ELSE WithSource(w[k - 1], k, summaries[k])
  BY <1>1 DEF Passes
<1>4. 0 \in N
  <2>1. w[0] = <<>>
    BY <1>3
  <2>2. w[0] \in Seq(Dated(1 .. n)) /\ \A e : ~Among(e, w[0]) /\ ~Of(e, 0)
    BY <2>1 DEF Among
  <2> HIDE DEF Of
  <2>3. QED
    BY <2>1, <2>2
<1>5. ASSUME NEW m \in Nat, m \in N PROVE m + 1 \in N
  <2> SUFFICES ASSUME m + 1 <= n PROVE Good(m + 1)
    OBVIOUS
  <2>1. m + 1 \in 1 .. n /\ m + 1 \in 0 .. n /\ m <= n
    OBVIOUS
  <2>2. Good(m)
    BY <1>5, <2>1
  <2>3. w[m + 1] = WithSource(w[m], m + 1, summaries[m + 1])
    <3>1. m + 1 # 0 /\ (m + 1) - 1 = m
      OBVIOUS
    <3>2. QED
      BY <1>3, <2>1, <3>1
  <2>4. summaries[m + 1] \in Summary
    BY <2>1
  <2>5. /\ w[m + 1] \in Seq(Dated(1 .. n))
        /\ \A e : Among(e, w[m + 1]) <=> Among(e, w[m]) \/ IsOf(e, m + 1, summaries[m + 1])
    <3> DEFINE S == 1 .. n
               k == m + 1
               s == summaries[m + 1]
    <3>1. w[m] \in Seq(Dated(S)) /\ k \in S /\ s \in Summary /\ w[m + 1] = WithSource(w[m], k, s)
      BY <2>1, <2>2, <2>3, <2>4
    <3> HIDE DEF S, k, s, Of
    <3>2. /\ WithSource(w[m], k, s) \in Seq(Dated(S))
          /\ \A e : Among(e, WithSource(w[m], k, s)) <=> Among(e, w[m]) \/ IsOf(e, k, s)
      BY <3>1, WithSourceIs
    <3>3. QED
      BY <3>1, <3>2 DEF S, k, s
  <2>6. \A e : Of(e, m + 1) <=> Of(e, m) \/ IsOf(e, m + 1, summaries[m + 1])
    <3>1. \A k : k \in 1 .. m + 1 <=> k \in 1 .. m \/ k = m + 1
      OBVIOUS
    <3>2. QED
      BY <3>1, Zenon
  <2> HIDE DEF Of
  <2>7. QED
    BY <2>2, <2>5, <2>6
<1> HIDE DEF N
<1>6. n \in N
  BY <1>4, <1>5, Induction
<1>7. QED
  BY <1>2, <1>6 DEF N

\* What a loop over the documents has counted by group.
DocsIn(groups) == [g \in DOMAIN groups |-> groups[g].docs]
ChunksIn(groups) == [g \in DOMAIN groups |-> groups[g].chunks]

Group == [docs : Nat, chunks : Nat, latestIngested : Nat \cup {Absent}]

\* Counts that differ at one key have as many units more as were added there.
LEMMA OneKeyMore ==
    ASSUME NEW S, IsFiniteSet(S), NEW f \in [S -> Nat], NEW x, NEW T, T = S \cup {x},
           NEW h \in [T -> Nat], NEW a \in Nat,
           \A y \in S \ {x} : h[y] = f[y],
           h[x] = (IF x \in S THEN f[x] ELSE 0) + a
    PROVE  Cardinality(Units(h, T)) = Cardinality(Units(f, S)) + a
<1> DEFINE R == S \ {x}
<1>1. IsFiniteSet(T)
  BY FS_AddElement
<1>2. Cardinality(Units(h, T)) = h[x] + Cardinality(Units(h, R))
  <2>1. x \in T /\ T \ {x} = R
    OBVIOUS
  <2> HIDE DEF R
  <2>2. T \in SUBSET T
    OBVIOUS
  <2>3. QED
    BY <1>1, <2>1, <2>2, UnitsAddUp
<1>3. Units(h, R) = Units(f, R)
  BY SameUnits
<1>4. Cardinality(Units(f, R)) \in Nat
  BY UnitsAddUp
<1>5. CASE x \in S
  <2>1. Cardinality(Units(f, S)) = f[x] + Cardinality(Units(f, R))
    BY <1>5, UnitsAddUp
  <2>2. f[x] \in Nat /\ h[x] = f[x] + a
    BY <1>5
  <2> HIDE DEF R
  <2>3. Cardinality(Units(h, T)) = (f[x] + a) + Cardinality(Units(f, R))
    BY <1>2, <1>3, <2>2
  <2>4. QED
    BY <1>4, <2>1, <2>2, <2>3
<1>6. CASE x \notin S
  <2>1. R = S /\ h[x] = a
    BY <1>6
  <2> HIDE DEF R
  <2>2. Cardinality(Units(h, T)) = a + Cardinality(Units(f, S))
    BY <1>2, <1>3, <2>1
  <2>3. QED
    BY <1>4, <2>1, <2>2
<1>7. QED
  BY <1>5, <1>6

\* What holds of the groups, the total and the events after k documents.
GroupsAgree(seen, k) ==
    LET labels == DOMAIN seen.groups
    IN  /\ IsFiniteSet(labels) /\ seen.groups \in [labels -> Group] /\ seen.chunks \in Nat
        /\ Cardinality(Units(DocsIn(seen.groups), labels)) = k
        /\ Cardinality(Units(ChunksIn(seen.groups), labels)) = seen.chunks
        /\ seen.events \in Seq(Dated(labels))
        /\ \A e : Among(e, seen.events) => e.at <= seen.groups[e.of].latestIngested
        /\ \A g \in labels : \/ seen.groups[g].latestIngested = Absent
                             \/ \E e : /\ Among(e, seen.events)
                                       /\ e.at = seen.groups[g].latestIngested

\* An event that is among some of these is one of them.
LEMMA AmongDated ==
    ASSUME NEW S, NEW events \in Seq(Dated(S)), NEW e, Among(e, events)
    PROVE  e \in Dated(S) /\ e.of \in S /\ e.at \in Nat
<1>1. \A p \in DOMAIN events : events[p] \in Dated(S)
  OBVIOUS
<1>2. QED
  BY <1>1 DEF Among, Dated

\* More sources, the same events.
LEMMA DatedGrows ==
    ASSUME NEW S, NEW T, S \subseteq T, NEW events \in Seq(Dated(S))
    PROVE  events \in Seq(Dated(T))
<1>1. \A p \in 1 .. Len(events) : events[p] \in Dated(S)
  OBVIOUS
<1>2. Dated(S) \subseteq Dated(T)
  BY DEF Dated
<1>3. QED
  BY <1>1, <1>2

\* A pass over a document keeps it.
LEMMA WithDocumentIs ==
    ASSUME NEW k \in Nat, NEW seen, GroupsAgree(seen, k), NEW d \in SeedDocument
    PROVE  GroupsAgree(WithDocument(seen, d), k + 1)
<1> DEFINE x == Label(d)
           S == DOMAIN seen.groups
           T == S \cup {x}
           old == IF x \in S THEN seen.groups[x] ELSE NoGroup
           counted == [docs |-> old.docs + 1, chunks |-> old.chunks + Chunks(d),
                       latestIngested |-> IF d.ingested > old.latestIngested THEN d.ingested
                                          ELSE old.latestIngested]
           groups == [label \in T |-> IF label = x THEN counted ELSE seen.groups[label]]
           e0 == Event(x, "seed-ingested", d.ingested)
           events == Push(seen.events, e0, d.ingested # Absent)
           out == WithDocument(seen, d)
<1>1. out.groups = groups /\ out.chunks = seen.chunks + Chunks(d) /\ out.events = events
  BY DEF WithDocument
<1>2. d.ingested \in Nat \cup {Absent} /\ Chunks(d) \in Nat
  <2>1. MaxStamp \in Nat
    BY SourceViewAssumption
  <2>2. d.ingested \in {Absent} \cup 1 .. MaxStamp /\ d.chunks \in {Absent, 1}
    BY DEF SeedDocument
  <2>3. QED
    BY <2>1, <2>2 DEF Chunks, Absent
<1>3. /\ IsFiniteSet(S) /\ seen.groups \in [S -> Group] /\ seen.chunks \in Nat
      /\ Cardinality(Units(DocsIn(seen.groups), S)) = k
      /\ Cardinality(Units(ChunksIn(seen.groups), S)) = seen.chunks
      /\ seen.events \in Seq(Dated(S))
      /\ \A e : Among(e, seen.events) => e.at <= seen.groups[e.of].latestIngested
      /\ \A g \in S : \/ seen.groups[g].latestIngested = Absent
                      \/ \E e : /\ Among(e, seen.events)
                                /\ e.at = seen.groups[g].latestIngested
  BY DEF GroupsAgree
<1> HIDE DEF x, S, out
<1>4. old \in Group
  BY <1>3 DEF NoGroup, Group
<1> HIDE DEF old
<1>5. /\ counted \in Group
      /\ counted.docs = old.docs + 1 /\ counted.chunks = old.chunks + Chunks(d)
      /\ counted.latestIngested \in {d.ingested, old.latestIngested}
      /\ counted.latestIngested >= d.ingested
      /\ counted.latestIngested >= old.latestIngested
  BY <1>2, <1>4 DEF Group, Absent
<1> HIDE DEF counted
<1>6. /\ DOMAIN groups = T /\ groups \in [T -> Group] /\ groups[x] = counted
      /\ \A y \in S \ {x} : groups[y] = seen.groups[y]
  BY <1>3, <1>5
<1>7. IsFiniteSet(T)
  BY <1>3, FS_AddElement
<1> HIDE DEF groups
<1>8. Cardinality(Units(DocsIn(groups), T)) = k + 1
  <2> DEFINE f == DocsIn(seen.groups)
             h == DocsIn(groups)
             a == 1
  <2>1. f \in [S -> Nat] /\ h \in [T -> Nat] /\ a \in Nat
    BY <1>3, <1>6 DEF DocsIn, Group
  <2>2. (\A y \in S \ {x} : h[y] = f[y]) /\ h[x] = counted.docs
    BY <1>3, <1>6 DEF DocsIn
  <2>3. h[x] = (IF x \in S THEN f[x] ELSE 0) + a
    BY <1>3, <1>5, <2>2 DEF DocsIn, old, NoGroup
  <2> HIDE DEF f, h, a
  <2>4. Cardinality(Units(h, T)) = Cardinality(Units(f, S)) + a
    <3>1. IsFiniteSet(S) /\ T = S \cup {x}
      BY <1>3
    <3>2. \A y \in S \ {x} : h[y] = f[y]
      BY <2>2
    <3> HIDE DEF T
    <3>3. QED
      BY <2>1, <2>3, <3>1, <3>2, OneKeyMore
  <2>5. QED
    BY <1>3, <2>4 DEF f, h, a
<1>9. Cardinality(Units(ChunksIn(groups), T)) = seen.chunks + Chunks(d)
  <2> DEFINE f == ChunksIn(seen.groups)
             h == ChunksIn(groups)
             a == Chunks(d)
  <2>1. f \in [S -> Nat] /\ h \in [T -> Nat] /\ a \in Nat
    BY <1>2, <1>3, <1>6 DEF ChunksIn, Group
  <2>2. (\A y \in S \ {x} : h[y] = f[y]) /\ h[x] = counted.chunks
    BY <1>3, <1>6 DEF ChunksIn
  <2>3. h[x] = (IF x \in S THEN f[x] ELSE 0) + a
    BY <1>3, <1>5, <2>2 DEF ChunksIn, old, NoGroup
  <2> HIDE DEF f, h, a
  <2>4. Cardinality(Units(h, T)) = Cardinality(Units(f, S)) + a
    <3>1. IsFiniteSet(S) /\ T = S \cup {x}
      BY <1>3
    <3>2. \A y \in S \ {x} : h[y] = f[y]
      BY <2>2
    <3> HIDE DEF T
    <3>3. QED
      BY <2>1, <2>3, <3>1, <3>2, OneKeyMore
  <2>5. QED
    BY <1>3, <2>4 DEF f, h, a
<1>10. /\ events \in Seq(Dated(T))
       /\ \A e : Among(e, events) <=> Among(e, seen.events) \/ (d.ingested # Absent /\ e = e0)
  <2> DEFINE c == d.ingested # Absent
  <2>1. seen.events \in Seq(Dated(T))
    BY <1>3, DatedGrows
  <2>2. c => e0 \in Dated(T)
    BY <1>2 DEF Dated, Event, EventKind
  <2>3. c \in BOOLEAN
    OBVIOUS
  <2> HIDE DEF c, e0, T
  <2>4. /\ Push(seen.events, e0, c) \in Seq(Dated(T))
        /\ \A e : Among(e, Push(seen.events, e0, c)) <=> Among(e, seen.events) \/ (c /\ e = e0)
    BY <2>1, <2>2, <2>3, PushIs
  <2>5. QED
    BY <2>4 DEF c
<1>11. e0.at = d.ingested /\ e0.of = x
  BY DEF Event
<1> HIDE DEF events, e0
<1>12. ASSUME NEW e, Among(e, events) PROVE e.at <= groups[e.of].latestIngested
  <2>1. CASE Among(e, seen.events)
    <3>1. e.of \in S /\ e.at \in Nat /\ e.at <= seen.groups[e.of].latestIngested
      BY <1>3, <2>1, AmongDated
    <3>2. CASE e.of = x
      <4>1. old = seen.groups[x]
        BY <3>1, <3>2 DEF old
      <4>2. e.at <= old.latestIngested
        BY <3>1, <3>2, <4>1
      <4>3. QED
        BY <1>4, <1>5, <1>6, <3>1, <3>2, <4>2 DEF Group, Absent
    <3>3. CASE e.of # x
      BY <1>6, <3>1, <3>3
    <3>4. QED
      BY <3>2, <3>3
  <2>2. CASE d.ingested # Absent /\ e = e0
    BY <1>2, <1>5, <1>6, <1>11, <2>2
  <2>3. QED
    BY <1>10, <1>12, <2>1, <2>2
<1>13. ASSUME NEW g \in T, groups[g].latestIngested # Absent
       PROVE  \E e : Among(e, events) /\ e.at = groups[g].latestIngested
  <2>1. CASE g # x
    <3>1. g \in S /\ groups[g] = seen.groups[g]
      BY <1>6, <2>1
    <3>2. PICK e : Among(e, seen.events) /\ e.at = seen.groups[g].latestIngested
      BY <1>3, <1>13, <3>1
    <3>3. QED
      BY <1>10, <3>1, <3>2
  <2>2. CASE g = x /\ counted.latestIngested = d.ingested
    <3>1. d.ingested # Absent /\ groups[g].latestIngested = d.ingested
      BY <1>6, <1>13, <2>2
    <3>2. QED
      BY <1>10, <1>11, <3>1
  <2>3. CASE g = x /\ counted.latestIngested = old.latestIngested
    <3>1. old.latestIngested # Absent /\ groups[g].latestIngested = old.latestIngested
      BY <1>6, <1>13, <2>3
    <3>2. x \in S /\ old = seen.groups[x]
      BY <3>1 DEF old, NoGroup
    <3>3. PICK e : Among(e, seen.events) /\ e.at = seen.groups[x].latestIngested
      BY <1>3, <3>1, <3>2
    <3>4. QED
      BY <1>10, <3>1, <3>2, <3>3
  <2>4. QED
    BY <1>5, <2>1, <2>2, <2>3
<1>14. seen.chunks + Chunks(d) \in Nat
  BY <1>2, <1>3
<1> HIDE DEF T
<1>15. QED
  <2>1. DOMAIN out.groups = T
    BY <1>1, <1>6
  <2>2. IsFiniteSet(T) /\ out.groups \in [T -> Group] /\ out.chunks \in Nat
    BY <1>1, <1>6, <1>7, <1>14
  <2>3. Cardinality(Units(DocsIn(out.groups), T)) = k + 1
    BY <1>1, <1>8
  <2>4. Cardinality(Units(ChunksIn(out.groups), T)) = out.chunks
    BY <1>1, <1>9
  <2>5. out.events \in Seq(Dated(T))
    BY <1>1, <1>10
  <2>6. \A e : Among(e, out.events) => e.at <= out.groups[e.of].latestIngested
    BY <1>1, <1>12
  <2>7. \A g \in T : \/ out.groups[g].latestIngested = Absent
                     \/ \E e : /\ Among(e, out.events)
                               /\ e.at = out.groups[g].latestIngested
    BY <1>1, <1>13
  <2>8. GroupsAgree(out, k + 1)
    BY <2>1, <2>2, <2>3, <2>4, <2>5, <2>6, <2>7, Zenon DEF GroupsAgree
  <2>9. QED
    BY <2>8 DEF out

\* The loop over the documents, pass by pass.
PassesSeed(n, w) ==
    w = [k \in 0 .. n |->
           IF k = 0 THEN [groups |-> <<>>, chunks |-> 0, events |-> <<>>]
           ELSE WithDocument(w[k - 1], documents[k])]

\* It has an end.
LEMMA PassesSeedEnd ==
    ASSUME NEW n \in Nat
    PROVE  \E w : PassesSeed(n, w)
<1> DEFINE N == {m \in Nat : \E w : PassesSeed(m, w)}
           none == [groups |-> <<>>, chunks |-> 0, events |-> <<>>]
<1>1. 0 \in N
  <2>1. PassesSeed(0, [k \in 0 .. 0 |-> none])
    BY DEF PassesSeed
  <2>2. QED
    BY <2>1
<1>2. ASSUME NEW m \in Nat, m \in N PROVE m + 1 \in N
  <2>1. PICK w : PassesSeed(m, w)
    BY <1>2
  <2> DEFINE next == WithDocument(w[m], documents[m + 1])
             v == [k \in 0 .. m + 1 |-> IF k <= m THEN w[k] ELSE next]
  <2>2. \A k \in 0 .. m : w[k] = IF k = 0 THEN none ELSE WithDocument(w[k - 1], documents[k])
    BY <2>1 DEF PassesSeed
  <2> HIDE DEF none
  <2>3. ASSUME NEW k \in 0 .. m + 1
        PROVE  v[k] = IF k = 0 THEN none ELSE WithDocument(v[k - 1], documents[k])
    <3>1. CASE k <= m
      <4>1. v[k] = w[k] /\ (k # 0 => v[k - 1] = w[k - 1]) /\ k \in 0 .. m
        BY <3>1
      <4> HIDE DEF v
      <4>2. QED
        BY <2>2, <4>1
    <3>2. CASE ~(k <= m)
      <4>1. k = m + 1 /\ k # 0 /\ v[k] = next /\ v[k - 1] = w[m]
        BY <3>2
      <4> HIDE DEF v
      <4>2. QED
        BY <4>1
    <3>3. QED
      BY <3>1, <3>2
  <2>4. v = [k \in 0 .. m + 1 |-> v[k]]
    OBVIOUS
  <2> HIDE DEF v
  <2>5. PassesSeed(m + 1, v)
    BY <2>3, <2>4 DEF PassesSeed, none
  <2>6. QED
    BY <2>5
<1> HIDE DEF N
<1>3. n \in N
  BY <1>1, <1>2, Induction
<1>4. QED
  BY <1>3 DEF N

\* It has counted all documents.
LEMMA SeenIs ==
    ASSUME documents \in Seq(SeedDocument)
    PROVE  GroupsAgree(Seen, Len(documents))
<1> DEFINE n == Len(documents)
           none == [groups |-> <<>>, chunks |-> 0, events |-> <<>>]
           w == CHOOSE w : PassesSeed(n, w)
           N == {m \in Nat : m <= n => GroupsAgree(w[m], m)}
<1>0. n \in Nat /\ \A k \in 1 .. n : documents[k] \in SeedDocument
  OBVIOUS
<1>1. PassesSeed(n, w)
  BY <1>0, PassesSeedEnd
<1>2. Seen = w[n]
  BY DEF Seen, PassesSeed
<1> HIDE DEF w
<1>3. \A k \in 0 .. n : w[k] = IF k = 0 THEN none ELSE WithDocument(w[k - 1], documents[k])
  BY <1>1 DEF PassesSeed
<1>4. GroupsAgree(none, 0)
  <2>1. DOMAIN none.groups = {} /\ none.groups \in [{} -> Group] /\ IsFiniteSet({})
    BY FS_EmptySet
  <2>2. \A count : Units(count, {}) = {}
    BY DEF Units
  <2>3. none.events = <<>> /\ none.chunks = 0
    OBVIOUS
  <2>4. \A e : ~Among(e, <<>>)
    BY DEF Among
  <2> HIDE DEF none
  <2>5. Cardinality({}) = 0
    BY FS_EmptySet
  <2>6. none.events \in Seq(Dated({})) /\ none.chunks \in Nat
    BY <2>3
  <2>7. \A g \in {} : \/ none.groups[g].latestIngested = Absent
                     \/ \E e : /\ Among(e, none.events)
                               /\ e.at = none.groups[g].latestIngested
    OBVIOUS
  <2>8. /\ Cardinality(Units(DocsIn(none.groups), {})) = 0
        /\ Cardinality(Units(ChunksIn(none.groups), {})) = none.chunks
    BY <2>2, <2>3, <2>5
  <2>9. \A e : Among(e, none.events) => e.at <= none.groups[e.of].latestIngested
    BY <2>3, <2>4
  <2>10. QED
    BY <2>1, <2>6, <2>7, <2>8, <2>9, Zenon DEF GroupsAgree
<1> HIDE DEF none, n
<1>5. 0 \in N
  BY <1>0, <1>3, <1>4
<1>6. ASSUME NEW m \in Nat, m \in N PROVE m + 1 \in N
  <2> SUFFICES ASSUME m + 1 <= n PROVE GroupsAgree(w[m + 1], m + 1)
    OBVIOUS
  <2>1. /\ m + 1 \in 1 .. n /\ m + 1 \in 0 .. n /\ m <= n
        /\ m + 1 # 0 /\ (m + 1) - 1 = m
    BY <1>0
  <2>2. GroupsAgree(w[m], m) /\ documents[m + 1] \in SeedDocument
    BY <1>0, <1>6, <2>1
  <2>3. w[m + 1] = WithDocument(w[m], documents[m + 1])
    BY <1>3, <2>1
  <2>4. QED
    BY <2>2, <2>3, WithDocumentIs
<1> HIDE DEF N
<1>7. n \in N
  BY <1>0, <1>5, <1>6, Induction
<1>8. QED
  BY <1>0, <1>2, <1>7 DEF N, n

\* What is shown of dated events is in order.
LEMMA NewestAreListed ==
    ASSUME NEW S, NEW all \in Seq(Dated(S)), NEW response,
           response.events = Newest(all, EventLimit), ListedNames(response) = S
    PROVE  EventsAreListed(response)
<1> DEFINE events == Newest(all, EventLimit)
<1>1. EventLimit \in Nat
  BY SourceViewAssumption
<1>2. /\ events \in Seq(Dated(S))
      /\ \A a, b \in DOMAIN events : a < b => events[a].at >= events[b].at
  BY <1>1, NewestIs
<1> HIDE DEF events
<1>3. \A k \in DOMAIN events : events[k] \in Dated(S)
  BY <1>2
<1>4. \A k \in DOMAIN events : events[k].of \in S
  BY <1>3 DEF Dated
<1>5. response.events = events
  BY DEF events
<1>6. QED
  BY <1>2, <1>4, <1>5 DEF EventsAreListed

\* An event that there is, is shown or older than what is.
LEMMA AmongIsTold ==
    ASSUME NEW S, NEW all \in Seq(Dated(S)), NEW e, Among(e, all)
    PROVE  LET events == Newest(all, EventLimit)
           IN  \/ \E p \in DOMAIN events : events[p] = e
               \/ Len(events) = EventLimit /\ \A p \in DOMAIN events : events[p].at >= e.at
<1>1. PICK k \in DOMAIN all : all[k] = e
  BY DEF Among
<1>2. EventLimit \in Nat
  BY SourceViewAssumption
<1> DEFINE events == Newest(all, EventLimit)
<1>3. \/ \E p \in DOMAIN events : events[p] = all[k]
      \/ Len(events) = EventLimit /\ \A p \in DOMAIN events : events[p].at >= all[k].at
  BY <1>2, NewestIs
<1>4. QED
  BY <1>1, <1>3

\* The beginning is as new as anything.
LEMMA FirstIsNewest ==
    ASSUME NEW S, NEW all \in Seq(Dated(S))
    PROVE  LET events == Newest(all, EventLimit)
           IN  /\ events # <<>> => /\ Among(events[1], all)
                                   /\ \A e : Among(e, all) => events[1].at >= e.at
               /\ events = <<>> => \A e : ~Among(e, all)
<1> DEFINE events == Newest(all, EventLimit)
<1>0. EventLimit \in Nat /\ EventLimit >= 1
  BY SourceViewAssumption
<1>1. /\ events \in Seq(Dated(S))
      /\ Len(events) = IF EventLimit < Len(all) THEN EventLimit ELSE Len(all)
      /\ \A a, b \in DOMAIN events : a < b => events[a].at >= events[b].at
      /\ \A p \in DOMAIN events : \E k \in DOMAIN all : events[p] = all[k]
  BY <1>0, NewestIs
<1>2. \A e : Among(e, all) =>
        \/ \E p \in DOMAIN events : events[p] = e
        \/ \A p \in DOMAIN events : events[p].at >= e.at
  BY AmongIsTold
<1> HIDE DEF events
<1>3. ASSUME events # <<>>
      PROVE  Among(events[1], all) /\ \A e : Among(e, all) => events[1].at >= e.at
  <2>1. 1 \in DOMAIN events /\ \A p \in DOMAIN events : events[p] \in Dated(S) /\ (p = 1 \/ 1 < p)
    BY <1>1, <1>3
  <2>2. \A p \in DOMAIN events : events[1].at >= events[p].at
    <3>1. events[1].at \in Nat
      BY <2>1 DEF Dated
    <3>2. QED
      BY <1>1, <2>1, <3>1
  <2>3. Among(events[1], all)
    BY <1>1, <2>1 DEF Among
  <2>4. QED
    BY <1>2, <2>1, <2>2, <2>3
<1>4. ASSUME events = <<>> PROVE \A e : ~Among(e, all)
  <2>1. Len(all) \in Nat /\ DOMAIN all = 1 .. Len(all)
    OBVIOUS
  <2>2. Len(events) = 0
    BY <1>4
  <2>3. Len(all) = 0
    BY <1>0, <1>1, <2>1, <2>2
  <2>4. DOMAIN all = {}
    BY <2>1, <2>3
  <2>5. QED
    BY <2>4 DEF Among
<1>5. QED
  BY <1>3, <1>4 DEF events

\* The seed and what is registered are of the shapes the model gives them.
ViewInv == documents \in Seq(SeedDocument) /\ sources \in Seq(Record)

\* The answer of Modes 1 and 2 adds up.
LEMMA SeedAddsUp ==
    ASSUME ViewInv
    PROVE  EventsAreListed(getSeedSources) /\ GroupsAddUp(getSeedSources)
<1> DEFINE response == getSeedSources
           seen == Seen
           groups == seen.groups
           S == DOMAIN groups
           events == response.events
           latest == {groups[g].latestIngested : g \in S}
<1>1. GroupsAgree(seen, Len(documents))
  BY SeenIs DEF ViewInv
<1>2. /\ response.groups = groups /\ response.chunks = seen.chunks
      /\ response.documents = Len(documents) /\ events = Newest(seen.events, EventLimit)
      /\ response.origin = "demo-seed"
  BY DEF getSeedSources
<1> HIDE DEF response, seen
<1>3. /\ IsFiniteSet(S) /\ groups \in [S -> Group]
      /\ Cardinality(Units(DocsIn(groups), S)) = Len(documents)
      /\ Cardinality(Units(ChunksIn(groups), S)) = seen.chunks
      /\ seen.events \in Seq(Dated(S))
      /\ \A e : Among(e, seen.events) => e.at <= groups[e.of].latestIngested
      /\ \A g \in S : \/ groups[g].latestIngested = Absent
                      \/ \E e : Among(e, seen.events) /\ e.at = groups[g].latestIngested
  BY <1>1 DEF GroupsAgree
<1>4. ListedNames(response) = S
  BY <1>2 DEF ListedNames
<1>5. EventsAreListed(response)
  BY <1>2, <1>3, <1>4, NewestAreListed
<1> HIDE DEF groups, S, events
<1>6. /\ InAll(DocsIn(groups)) = Len(documents)
      /\ InAll(ChunksIn(groups)) = seen.chunks
  <2>1. DocsIn(groups) \in [S -> Nat] /\ ChunksIn(groups) \in [S -> Nat]
    BY <1>3 DEF DocsIn, ChunksIn, Group, S
  <2>2. QED
    BY <1>3, <2>1, InAllIs
<1>7. \A g \in S : groups[g].latestIngested \in Nat \cup {Absent}
  BY <1>3 DEF Group
<1>8. ASSUME events # <<>> PROVE events[1].at = Max(latest)
  <2> DEFINE t == events[1].at
  <2>1. Among(events[1], seen.events) /\ \A e : Among(e, seen.events) => t >= e.at
    BY <1>2, <1>3, <1>8, FirstIsNewest
  <2>2. t \in Nat /\ events[1].of \in S
    BY <1>3, <2>1, AmongDated
  <2>3. ASSUME NEW y \in latest PROVE y \in Nat \cup {Absent} /\ y <= t
    <3>1. PICK g \in S : y = groups[g].latestIngested
      BY <2>3
    <3>2. y = Absent \/ \E e : Among(e, seen.events) /\ e.at = y
      BY <1>3, <3>1
    <3>3. QED
      BY <1>7, <2>1, <2>2, <3>1, <3>2 DEF Absent
  <2>4. t \in latest
    <3> DEFINE y == groups[events[1].of].latestIngested
    <3>1. y \in latest /\ t <= y
      BY <1>3, <2>1, <2>2
    <3>2. y \in Nat \cup {Absent} /\ y <= t
      BY <2>3, <3>1
    <3> HIDE DEF y, latest
    <3>3. y = t
      BY <2>2, <3>1, <3>2 DEF Absent
    <3>4. QED
      BY <3>1, <3>3
  <2> HIDE DEF t, latest
  <2>5. \A x \in latest : (\A y \in latest : x >= y) => x = t
    BY <2>2, <2>3, <2>4 DEF Absent
  <2>6. \A y \in latest : t >= y
    BY <2>2, <2>3 DEF Absent
  <2>7. Max(latest) = t
    BY <2>4, <2>5, <2>6 DEF Max
  <2>8. QED
    BY <2>7 DEF t
<1>9. ASSUME events = <<>> PROVE latest \subseteq {Absent}
  <2>1. \A e : ~Among(e, seen.events)
    BY <1>2, <1>3, <1>9, FirstIsNewest
  <2>2. QED
    BY <1>3, <2>1
<1>10. GroupsAddUp(response)
  BY <1>2, <1>6, <1>8, <1>9 DEF GroupsAddUp, DocsIn, ChunksIn, events, S
<1>11. QED
  BY <1>5, <1>10 DEF response

\* The answer of Live COA tells of every source.
LEMMA LiveIsTold ==
    ASSUME ViewInv
    PROVE  EventsAreListed(liveResponse) /\ SourcesAreTold(liveResponse)
<1> DEFINE response == liveResponse
           n == Len(sources)
           summaries == [k \in 1 .. n |-> sanitizeSource(sources[k])]
           all == LiveEvents(summaries)
           events == Newest(all, EventLimit)
<1>1. n \in Nat /\ \A k \in 1 .. n : sources[k] \in Record
  BY DEF ViewInv
<1>2. \A r \in Record : sanitizeSource(r) \in Summary
  <2> SUFFICES ASSUME NEW r \in Record PROVE sanitizeSource(r) \in Summary
    OBVIOUS
  <2>1. /\ r.detail.created \in Int /\ r.detail.updated \in Int /\ r.lastScan \in Int
        /\ r.item.created \in Int /\ r.item.updated \in Int
    BY DEF Record, Absent
  <2>2. \A a, b \in Int : OrElse(a, b) \in Int
    BY DEF OrElse
  <2>3. \A a \in Int : toIso(a) \in Nat \cup {Absent}
    BY DEF toIso
  <2>4. QED
    BY <2>1, <2>2, <2>3 DEF sanitizeSource, Summary
<1>3. summaries \in [1 .. n -> Summary] /\ Len(summaries) = n /\ DOMAIN summaries = 1 .. n
  <2>1. \A k \in 1 .. n : sanitizeSource(sources[k]) \in Summary
    BY <1>1, <1>2
  <2>2. summaries \in [1 .. n -> Summary] /\ DOMAIN summaries = 1 .. n
    BY <2>1
  <2> HIDE DEF n
  <2>3. Len(summaries) = n
    BY <1>1
  <2>4. QED
    BY <2>2, <2>3
<1>4. /\ response.sources = summaries /\ response.events = events
      /\ response.origin = "coa-live"
  BY DEF liveResponse
<1> HIDE DEF response, summaries, n
<1>5. /\ all \in Seq(Dated(1 .. n))
      /\ \A e : Among(e, all) <=> \E k \in 1 .. n : IsOf(e, k, summaries[k])
  BY <1>1, <1>3, LiveEventsAre
<1>6. ListedNames(response) = 1 .. n
  BY <1>3, <1>4 DEF ListedNames
<1> HIDE DEF all
<1>7. EventsAreListed(response)
  BY <1>4, <1>5, <1>6, NewestAreListed
<1>8. ASSUME NEW k \in 1 .. n, NEW kind, NEW at, IsOf(Event(k, kind, at), k, summaries[k])
      PROVE  IsTold(events, k, kind, at)
  <2> DEFINE e == Event(k, kind, at)
  <2>1. Among(e, all)
    BY <1>5, <1>8
  <2>2. e.at = at
    BY DEF Event
  <2> HIDE DEF e
  <2>3. \/ \E p \in DOMAIN events : events[p] = e
        \/ Len(events) = EventLimit /\ \A p \in DOMAIN events : events[p].at >= e.at
    BY <1>5, <2>1, AmongIsTold
  <2>4. CASE \E p \in DOMAIN events : events[p] = e
    BY <2>4 DEF IsTold, ToSet, e
  <2>5. CASE Len(events) = EventLimit /\ \A p \in DOMAIN events : events[p].at >= e.at
    <3>1. EventLimit \in Nat /\ EventLimit >= 1
      BY SourceViewAssumption
    <3>2. events \in Seq(Dated(1 .. n))
      BY <1>5, <3>1, NewestIs
    <3> HIDE DEF events
    <3>3. EventLimit \in DOMAIN events
      BY <2>5, <3>1, <3>2
    <3>4. QED
      BY <2>2, <2>5, <3>3 DEF IsTold
  <2>6. QED
    BY <2>3, <2>4, <2>5
<1> HIDE DEF events
<1>9. ASSUME NEW k \in 1 .. n
      PROVE  LET s == summaries[k]
             IN /\ \/ s.createdAt = Absent
                   \/ IsTold(events, k, "source-registered", s.createdAt)
                /\ \/ s.lastScanAt = Absent
                   \/ IsTold(events, k, "source-scanned", s.lastScanAt)
                /\ \/ s.updatedAt \in {Absent, s.createdAt}
                   \/ IsTold(events, k, "source-updated", s.updatedAt)
  <2> DEFINE s == summaries[k]
  <2>1. s.createdAt # Absent => IsOf(Event(k, "source-registered", s.createdAt), k, s)
    BY DEF IsOf
  <2>2. s.lastScanAt # Absent => IsOf(Event(k, "source-scanned", s.lastScanAt), k, s)
    BY DEF IsOf
  <2>3. s.updatedAt \notin {Absent, s.createdAt}
          => IsOf(Event(k, "source-updated", s.updatedAt), k, s)
    BY DEF IsOf
  <2>4. QED
    BY <1>8, <2>1, <2>2, <2>3
<1>10. SourcesAreTold(response)
  BY <1>3, <1>4, <1>9 DEF SourcesAreTold
<1>11. QED
  BY <1>7, <1>10 DEF response

\* A step keeps the shapes.
LEMMA ViewInvStep ==
    ASSUME ViewInv, [Next]_vars
    PROVE  ViewInv'
<1>0. [ViewNext]_viewVars
  BY OnePartMoves
<1>1. CASE WriteDocument
  BY <1>1 DEF WriteDocument, ViewInv
<1>2. CASE RegisterSource
  BY <1>2 DEF RegisterSource, ViewInv
<1>3. CASE UNCHANGED viewVars
  BY <1>3 DEF viewVars, ViewInv
<1>4. QED
  BY <1>0, <1>1, <1>2, <1>3 DEF ViewNext

\* What /api/sources answers adds up on any documents and any sources, for any limit
\* of the events but none at all (getSeedSources, liveSourceEvents).
THEOREM PagesAgreeOnSources == Spec => []SourcesAddUp
<1>1. Init => ViewInv
  BY DEF Init, ViewInit, ViewInv
<1>2. ViewInv => SourcesAddUp
  <2> SUFFICES ASSUME ViewInv, NEW m \in {"mock", "coa"}, NEW configured \in BOOLEAN
               PROVE  LET response == getVerticalSources(m, configured)
                      IN /\ EventsAreListed(response)
                         /\ response.origin = "demo-seed" => GroupsAddUp(response)
                         /\ response.origin = "coa-live" => SourcesAreTold(response)
    BY DEF SourcesAddUp
  <2> DEFINE none == [origin |-> "coa-not-configured", events |-> <<>>]
  <2>1. getVerticalSources(m, configured) \in {getSeedSources, liveResponse, none}
    BY DEF getVerticalSources
  <2>2. /\ getSeedSources.origin = "demo-seed" /\ liveResponse.origin = "coa-live"
        /\ none.origin = "coa-not-configured"
    BY DEF getSeedSources, liveResponse
  <2>3. EventsAreListed(none)
    <3>1. none.events = <<>> /\ ListedNames(none) = {}
      BY DEF ListedNames
    <3>2. <<>> \in Seq(Dated({})) /\ EventLimit \in Nat
      BY SourceViewAssumption
    <3>3. Newest(<<>>, EventLimit) = <<>>
      <4>1. Newest(<<>>, EventLimit) \in Seq(Dated({}))
        BY <3>2, NewestIs
      <4>2. Len(Newest(<<>>, EventLimit)) = 0
        <5>1. Len(Newest(<<>>, EventLimit)) = IF EventLimit < Len(<<>>) THEN EventLimit ELSE Len(<<>>)
          BY <3>2, NewestIs
        <5>2. QED
          BY <3>2, <5>1
      <4>3. QED
        BY <4>1, <4>2
    <3> HIDE DEF none
    <3>4. QED
      BY <3>1, <3>2, <3>3, NewestAreListed
  <2> HIDE DEF none
  <2>4. QED
    BY <2>1, <2>2, <2>3, SeedAddsUp, LiveIsTold
<1>3. QED
  BY <1>1, <1>2, ViewInvStep, PTL DEF Spec

=============================================================================
