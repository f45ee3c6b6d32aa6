----------------------------- MODULE Playground -----------------------------
(***************************************************************************)
(* The mode switch: one mode for the whole server process, the badge and   *)
(* the pages of every browser tab that read it when they were loaded, the  *)
(* two requests a tab sends for one question, each resolved by the         *)
(* provider of the mode at the time it is handled, and what a page that    *)
(* shows data of a vertical fetches for it.                                *)
(*                                                                         *)
(* How a provider answers is the subject of QueryPath.                     *)
(***************************************************************************)
EXTENDS Naturals, FiniteSets

CONSTANTS
    Tab,         \* loaded pages, of one or more users
    Vertical,
    Configured,  \* verticals whose COA_NAMESPACE_<V> is set
    MaxStray     \* bound: requests of pages that are gone at one time

ASSUME PlaygroundAssumption == Configured \subseteq Vertical /\ MaxStray \in Nat

Mode == {"mock", "ontology", "coa"}
Pane == {"vector", "graph"}

VARIABLES
    ready,      \* COA_BASE_URL is set
    mode,       \* getMode()
    lossy,      \* answers may be lost, and pages left while they switch
    badge,      \* what the badge of a tab shows
    page,       \* "query", "data": a page that shows what it fetches, or
                \* "dialog": the schema dialog, open over the Sources page
    pageMode,   \* the mode the page goes by
    vertical,   \* the vertical it shows
    switching,  \* the mode it asked for
    post,       \* where that request is
    stray,      \* modes asked for by pages that are gone
    answered,   \* who answered the two requests of a question
    shown,      \* who answered what the panes show
    fetch,      \* the mode a data page's request was answered in
    body,       \* the vertical and the mode of the answer it keeps
    failed      \* the dialog has an error, which it shows until it is closed

serverVars == <<ready, mode, lossy>>
badgeVars == <<badge, switching, post, stray>>
askVars == <<answered, shown>>
dataVars == <<fetch, body, failed>>
pageVars == <<page, pageMode, vertical, askVars, dataVars>>
pagesVars == <<serverVars, badgeVars, pageVars>>

Each(value) == [p \in Pane |-> value]
NoBody == [of |-> "none", by |-> "none"]
FirstFetch(p) == IF p = "query" THEN "none" ELSE "sent"

\* The page before any answer of the server.
PagesInit ==
    /\ ready \in BOOLEAN /\ mode \in Mode /\ lossy \in BOOLEAN
    /\ badge = [t \in Tab |-> "none"]
    /\ page \in [Tab -> {"query", "data"}]
    /\ pageMode = [t \in Tab |-> "none"]
    /\ vertical \in [Tab -> Vertical]
    /\ switching = [t \in Tab |-> "none"]
    /\ post = [t \in Tab |-> "none"]
    /\ stray = {}
    /\ answered = [t \in Tab |-> Each("none")]
    /\ shown = [t \in Tab |-> Each("none")]
    /\ fetch = [t \in Tab |-> FirstFetch(page[t])]
    /\ body = [t \in Tab |-> NoBody]
    /\ failed = [t \in Tab |-> FALSE]

\* buildProvider does not throw.
Buildable(m) == m = "coa" => ready

-----------------------------------------------------------------------------
(* Loading a page *)

\* Page p is mounted: it knows nothing, and asks for its data.
Mount(t, p) ==
    /\ pageMode' = [pageMode EXCEPT ![t] = "none"]
    /\ answered' = [answered EXCEPT ![t] = Each("none")]
    /\ shown' = [shown EXCEPT ![t] = Each("none")]
    /\ fetch' = [fetch EXCEPT ![t] = FirstFetch(p)]
    /\ body' = [body EXCEPT ![t] = NoBody]
    /\ failed' = [failed EXCEPT ![t] = FALSE]

\* The page without the dialog.
Closed(p) == IF p = "dialog" THEN "data" ELSE p

\* The user loads the page again, which does not take back a request that was
\* sent; the vertical is back at its default.
Load(t) ==
    /\ post[t] = "sent" => lossy /\ Cardinality(stray) < MaxStray
    /\ page' = [page EXCEPT ![t] = Closed(@)]
    /\ Mount(t, Closed(page[t]))
    /\ badge' = [badge EXCEPT ![t] = "none"]
    /\ switching' = [switching EXCEPT ![t] = "none"]
    /\ post' = [post EXCEPT ![t] = "none"]
    /\ stray' = IF post[t] = "sent" THEN stray \cup {switching[t]} ELSE stray
    /\ \E v \in Vertical : vertical' = [vertical EXCEPT ![t] = v]
    /\ UNCHANGED serverVars

\* The user goes to another page of the console: the badge, in its frame, stays,
\* and nobody waits for the answers of the page before. Sources has a button for
\* the dialog; the list behind it is still there when it is closed, which the
\* model fetches again.
Navigate(t) ==
    /\ \E p \in {"query", "data", "dialog"} \ {page[t]} :
         /\ p = "dialog" => page[t] = "data"
         /\ page' = [page EXCEPT ![t] = p] /\ Mount(t, p)
    /\ UNCHANGED <<serverVars, badgeVars, vertical>>

\* GET /api/mode of the badge; without an answer it shows the mock mode.
BadgeRead(t) ==
    /\ badge[t] = "none"
    /\ \/ badge' = [badge EXCEPT ![t] = mode]
       \/ lossy /\ badge' = [badge EXCEPT ![t] = "mock"]
    /\ UNCHANGED <<serverVars, switching, post, stray, pageVars>>

\* GET /api/mode of the page.
PageModeRead(t) ==
    /\ pageMode[t] = "none"
    /\ pageMode' = [pageMode EXCEPT ![t] = mode]
    /\ UNCHANGED <<serverVars, badgeVars, page, vertical, askVars, dataVars>>

-----------------------------------------------------------------------------
(* Switching the mode *)

SwitchTo(t, m) ==
    /\ badge[t] # "none" /\ switching[t] = "none"
    /\ m # badge[t]
    /\ switching' = [switching EXCEPT ![t] = m]
    /\ post' = [post EXCEPT ![t] = "sent"]
    /\ UNCHANGED <<serverVars, badge, stray, pageVars>>

\* The provider is built first; a failure leaves the mode as it is.
SetMode(t) ==
    /\ post[t] = "sent"
    /\ IF Buildable(switching[t])
       THEN mode' = switching[t] /\ post' = [post EXCEPT ![t] = "ok"]
       ELSE post' = [post EXCEPT ![t] = "rejected"] /\ UNCHANGED mode
    /\ UNCHANGED <<ready, lossy, badge, switching, stray, pageVars>>

\* A request whose page is gone is handled.
StraySetMode(m) ==
    /\ m \in stray
    /\ stray' = stray \ {m}
    /\ mode' = IF Buildable(m) THEN m ELSE mode
    /\ UNCHANGED <<ready, lossy, badge, switching, post, pageVars>>

\* The page is loaded again.
Switched(t) == post[t] = "ok" /\ Load(t)

\* Mutant: the badge shows what was asked for.
SwitchFails_Optimistic(t) ==
    /\ post[t] = "rejected"
    /\ badge' = [badge EXCEPT ![t] = switching[t]]
    /\ switching' = [switching EXCEPT ![t] = "none"]
    /\ post' = [post EXCEPT ![t] = "none"]
    /\ UNCHANGED <<serverVars, stray, pageVars>>

\* The tab shows an error: the switch was rejected, or no answer came.
SwitchFails(t) ==
    /\ post[t] = "rejected" \/ (lossy /\ post[t] \in {"sent", "ok"})
    /\ switching' = [switching EXCEPT ![t] = "none"]
    /\ post' = [post EXCEPT ![t] = "none"]
    /\ UNCHANGED <<serverVars, badge, stray, pageVars>>

-----------------------------------------------------------------------------
(* Asking *)

\* What was fetched for the vertical before is not waited for, and the panes keep
\* their answers.
SelectVertical(t, v) ==
    /\ v # vertical[t]
    /\ vertical' = [vertical EXCEPT ![t] = v]
    /\ fetch' = [fetch EXCEPT ![t] = FirstFetch(page[t])]
    /\ UNCHANGED <<serverVars, badgeVars, page, pageMode, askVars, body, failed>>

Asking(t) == \E p \in Pane : answered[t][p] # "none"

\* What the page knows of a vertical that Live COA cannot answer for.
CoaUnavailable(t) == pageMode[t] = "coa" /\ vertical[t] \notin Configured

Ask(t) ==
    /\ page[t] = "query" /\ ~Asking(t) /\ ~CoaUnavailable(t)
    /\ answered' = [answered EXCEPT ![t] = Each("sent")]
    /\ shown' = [shown EXCEPT ![t] = Each("none")]
    /\ UNCHANGED <<serverVars, badgeVars, page, pageMode, vertical, dataVars>>

\* An example is chosen, which empties the panes, also while a question runs.
ClickExample(t) ==
    /\ shown' = [shown EXCEPT ![t] = Each("none")]
    /\ UNCHANGED <<serverVars, badgeVars, page, pageMode, vertical, answered, dataVars>>

\* POST /api/query: the provider of the mode now, or an error.
QueryHandled(t, p) ==
    /\ answered[t][p] = "sent"
    /\ answered' = [answered EXCEPT ![t][p] = IF Buildable(mode) THEN mode ELSE "error"]
    /\ UNCHANGED <<serverVars, badgeVars, page, pageMode, vertical, shown, dataVars>>

\* Both answers are there.
BothAnswered(t) ==
    /\ \A p \in Pane : answered[t][p] \notin {"none", "sent"}
    /\ shown' = [shown EXCEPT ![t] = answered[t]]
    /\ answered' = [answered EXCEPT ![t] = Each("none")]
    /\ UNCHANGED <<serverVars, badgeVars, page, pageMode, vertical, dataVars>>

\* One of the two is lost: the page shows an error and no answer.
AskFails(t) ==
    /\ lossy /\ Asking(t)
    /\ answered' = [answered EXCEPT ![t] = Each("none")]
    /\ UNCHANGED <<serverVars, badgeVars, page, pageMode, vertical, shown, dataVars>>

-----------------------------------------------------------------------------
(* Data pages *)

\* GET /api/sources, /api/schema: every answer names its mode, or is an error.
DataHandled(t) ==
    /\ fetch[t] = "sent"
    /\ \E by \in {mode, "error"} : fetch' = [fetch EXCEPT ![t] = by]
    /\ UNCHANGED <<serverVars, badgeVars, page, pageMode, vertical, askVars, body, failed>>

\* What became of the request: a lost answer is an error too.
Arrived(t) == IF fetch[t] = "sent" THEN "error" ELSE fetch[t]

\* A page keeps the answer under the vertical it was fetched for; the dialog
\* keeps the last schema beside an error.
DataArrives(t) ==
    /\ \/ fetch[t] \notin {"none", "sent"}
       \/ lossy /\ fetch[t] = "sent"
    /\ IF page[t] = "dialog" /\ Arrived(t) = "error"
       THEN failed' = [failed EXCEPT ![t] = TRUE] /\ UNCHANGED body
       ELSE /\ body' = [body EXCEPT ![t] = [of |-> vertical[t], by |-> Arrived(t)]]
            /\ UNCHANGED failed
    /\ fetch' = [fetch EXCEPT ![t] = "none"]
    /\ UNCHANGED <<serverVars, badgeVars, page, pageMode, vertical, askVars>>

\* Mutant: what is kept is shown.
Displayed_Unkeyed(t) == body[t]

\* What is kept is shown for its vertical only, by the pages: their parts are
\* mounted again for another one. The dialog is not, and shows what it has.
Displayed(t) == IF page[t] = "dialog" \/ body[t].of = vertical[t] THEN body[t] ELSE NoBody

-----------------------------------------------------------------------------

PagesNext ==
    \/ \E m \in Mode : StraySetMode(m)
    \/ \E t \in Tab :
        \/ Load(t) \/ Navigate(t) \/ BadgeRead(t) \/ PageModeRead(t)
        \/ \E m \in Mode : SwitchTo(t, m)
        \/ SetMode(t) \/ Switched(t) \/ SwitchFails(t)
        \/ \E v \in Vertical : SelectVertical(t, v)
        \/ Ask(t) \/ ClickExample(t)
        \/ \E p \in Pane : QueryHandled(t, p)
        \/ BothAnswered(t) \/ AskFails(t)
        \/ DataHandled(t) \/ DataArrives(t)

-----------------------------------------------------------------------------
(* Properties *)

Settled(t) == badge[t] # "none" /\ switching[t] = "none"

\* A tab that is not switching shows the mode of the server: a rejected switch
\* changes neither, an accepted one both. (With one tab, as long as no
\* answer is lost.)
SettledBadgeIsRight == ~lossy => \A t \in Tab : Settled(t) => badge[t] = mode

\* The dialog is still waiting for the schema of its vertical, or shows an error.
DialogIsBehind(t) == page[t] = "dialog" /\ (fetch[t] # "none" \/ failed[t])

\* What such a tab shows comes from the provider the badge names, whatever was
\* running when the mode or the page changed, and what a page or the dialog
\* shows is of the vertical the tab names: the dialog may show the schema of
\* another, but only while it waits for the right one, which it does not say,
\* or beside an error. (With one tab, as long as no answer is lost.)
PageMatchesBadge ==
    ~lossy => \A t \in Tab : Settled(t) =>
        /\ \A p \in Pane : shown[t][p] \in {"none", "error", badge[t]}
        /\ Displayed(t).by \in {"none", "error", badge[t]}
        /\ Displayed(t).of \in {"none", vertical[t]} \/ DialogIsBehind(t)
=============================================================================
