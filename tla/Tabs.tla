-------------------------------- MODULE Tabs --------------------------------
(***************************************************************************)
(* The tab bar: the webview's copy of the server's sessions                *)
(* (src/stores/sessionStore.ts), kept up to date by replies to the calls   *)
(* it makes and by two broadcasts (src/hooks/useIpcSetup.ts), while the    *)
(* user, exiting shells and a phone attached to the server all change it.  *)
(* A session is its id and the number of its panes.  The server handles    *)
(* calls, and its replies arrive, in order; broadcasts arrive beside them. *)
(* Which tab's leaf has the focus stands for the focused pane.             *)
(***************************************************************************)
EXTENDS Naturals, Sequences, SequencesExt, FiniteSetsExt

CONSTANTS MaxSessions,  \* bound: sessions ever created, 1..MaxSessions
          MaxPanes,     \* bound: panes of a session
          MaxOps,       \* bound: what the user, the shells and the phone do
          RemoteTab,    \* the id of a tab that shows another host's session
          None

VARIABLES
  server,        \* the server's sessions, in order
  born,          \* how many it has created
  calls,         \* the webview's calls the server has not handled yet
  replies,       \* what it answered, not delivered yet
  broadcasts,    \* session-list-changed and session-updated, not delivered yet
  tabs, active, focus,
  ops,
  latest,        \* history: the ids of the last list answered
  overtaken      \* history: a list was applied that was no longer the last answered

serverVars == <<server, born>>
viewVars == <<tabs, active, focus>>
history == <<latest, overtaken>>
vars == <<serverVars, calls, replies, broadcasts, viewVars, ops, history>>

Locals == 1..MaxSessions
Session == [id : Locals \cup {RemoteTab}, panes : 1..MaxPanes]
ListChanged == [kind |-> "list"]
Updated(x) == [kind |-> "session", session |-> x]

Ids(l) == {l[i].id : i \in DOMAIN l}
Find(l, id) == l[CHOOSE i \in DOMAIN l : l[i].id = id]
Without(l, ids) ==
  LET kept[n \in 0..Len(l)] ==
        IF n = 0 THEN <<>>
        ELSE IF l[n].id \in ids THEN kept[n - 1] ELSE Append(kept[n - 1], l[n])
  IN kept[Len(l)]
Replace(l, x) == [i \in DOMAIN l |-> IF l[i].id = x.id THEN x ELSE l[i]]
LastId(l) == IF l = <<>> THEN None ELSE Last(l).id

TypeOK ==
  /\ server \in Seq(Session) /\ born \in 0..MaxSessions
  /\ tabs \in Seq(Session)
  /\ active \in Locals \cup {RemoteTab, None} /\ focus \in Locals \cup {RemoteTab, None}
  /\ ops \in 0..MaxOps /\ overtaken \in BOOLEAN

Init ==
  /\ \E n \in 0..2 : /\ born = n
                     /\ server = [i \in 1..n |-> [id |-> i, panes |-> 1]]
  /\ calls = <<[op |-> "list", why |-> "init"]>>
  /\ replies = <<>> /\ broadcasts = <<>>
  /\ tabs = <<>> /\ active = None /\ focus = None
  /\ ops = 0 /\ latest = {} /\ overtaken = FALSE

-----------------------------------------------------------------------------
(* The store.                                                                *)

Call(c) == calls' = Append(calls, c)

(* addSession: appended and activated without looking whether it is there.    *)
AddSession(x) == tabs' = Append(tabs, x) /\ active' = x.id

(* setSession: replaced where it is, appended and activated when unknown.     *)
SetSession(x) ==
  IF x.id \in Ids(tabs) THEN tabs' = Replace(tabs, x) /\ UNCHANGED active
                        ELSE AddSession(x)

RemoveSessionsKeepsActive(ids) == tabs' = Without(tabs, ids) /\ UNCHANGED active

(* removeSession, once for each: the last tab takes over from the active one. *)
RemoveSessions(ids) ==
  /\ tabs' = Without(tabs, ids)
  /\ active' = IF active \in ids THEN LastId(tabs') ELSE active

-----------------------------------------------------------------------------
(* What the user does.  The budget also bounds what the others do.            *)

Operate == ops < MaxOps /\ ops' = ops + 1 /\ UNCHANGED history

(* Mod+T, the palette, a worktree without a tab, or the new-tab popup, whose  *)
(* layouts are splits made one after the other.                              *)
NewTab(layout) ==
  /\ Operate
  /\ Call([op |-> "create", layout |-> layout])
  /\ UNCHANGED <<serverVars, replies, broadcasts, viewVars>>

SwitchTab(id) ==
  /\ Operate
  /\ id \in Ids(tabs)
  /\ active' = id /\ focus' = id
  /\ UNCHANGED <<serverVars, calls, replies, broadcasts, tabs>>

(* A notification's click: the tab is switched to when the server has.        *)
ClickNotification(id) ==
  /\ Operate
  /\ id \in Ids(tabs) \ {RemoteTab}
  /\ Call([op |-> "attach", id |-> id, why |-> "switch", list |-> <<>>])
  /\ UNCHANGED <<serverVars, replies, broadcasts, viewVars>>

CloseCall(id, quiet) == [op |-> "close", id |-> id, quiet |-> quiet]

(* The cross, Mod+Q, the last pane's menu.  The tab goes at once; the focus   *)
(* follows the server's answer, or the new active tab if it was a remote one. *)
CloseTab(id) ==
  /\ Operate
  /\ id \in Ids(tabs)
  /\ RemoveSessions({id})
  /\ IF id = RemoteTab
       THEN focus' = active' /\ UNCHANGED calls
       ELSE Call(CloseCall(id, FALSE)) /\ UNCHANGED focus
  /\ UNCHANGED <<serverVars, replies, broadcasts>>

Closes(ids) == SetToSeq({CloseCall(id, TRUE) : id \in ids \ {RemoteTab}})

(* Close others, close to the right: whose answers are ignored.               *)
CloseMany(ids) ==
  /\ Operate
  /\ ids # {}
  /\ RemoveSessions(ids)
  /\ calls' = calls \o Closes(ids)
  /\ UNCHANGED <<serverVars, replies, broadcasts, focus>>

(* A worktree was deleted: the tabs in it go, and the focus to the active one. *)
CloseInWorktree(ids) ==
  /\ Operate
  /\ ids # {} /\ ids \subseteq Ids(tabs)
  /\ RemoveSessions(ids)
  /\ focus' = IF active' \in Ids(tabs') THEN active' ELSE focus
  /\ calls' = calls \o Closes(ids)
  /\ UNCHANGED <<serverVars, replies, broadcasts>>

(* Dragged, or Mod+Shift+arrow: the server is not told.                       *)
ReorderTabs(from, to) ==
  /\ Operate
  /\ from # to
  /\ tabs' = InsertAt(RemoveAt(tabs, from), to, tabs[from])
  /\ UNCHANGED <<serverVars, calls, replies, broadcasts, active, focus>>

SplitPane ==
  /\ Operate
  /\ active \in Locals \cap Ids(tabs)
  /\ Call([op |-> "split", id |-> active, why |-> "menu"])
  /\ UNCHANGED <<serverVars, replies, broadcasts, viewVars>>

(* The pane's menu closes one of several; or the shell of a pane of the active *)
(* tab has exited.  A shell that exits in another tab is left alone.           *)
ClosePane(why) ==
  /\ Operate
  /\ active \in Locals \cap Ids(tabs)
  /\ why = "menu" => Find(tabs, active).panes > 1
  /\ Call([op |-> "closePane", id |-> active, why |-> why])
  /\ UNCHANGED <<serverVars, replies, broadcasts, viewVars>>

(* SessionPicker: a tab on another host's session.                            *)
OpenRemoteTab ==
  /\ Operate
  /\ RemoteTab \notin Ids(tabs)
  /\ AddSession([id |-> RemoteTab, panes |-> 1])
  /\ focus' = RemoteTab
  /\ UNCHANGED <<serverVars, calls, replies, broadcasts>>

-----------------------------------------------------------------------------
(* The server, for the webview's calls and for the phone's.                   *)

Broadcast(b) == broadcasts' = Append(broadcasts, b)

Create ==
  /\ born < MaxSessions
  /\ born' = born + 1
  /\ server' = Append(server, [id |-> born', panes |-> 1])
  /\ Broadcast(ListChanged)

Close(id) ==
  /\ server' = Without(server, {id})
  /\ Broadcast(ListChanged)
  /\ UNCHANGED born

SetPanes(id, n) ==
  LET x == [id |-> id, panes |-> n] IN
    /\ server' = Replace(server, x)
    /\ Broadcast(Updated(x))
    /\ UNCHANGED born

Answer(c, x) == replies' = Append(replies, [call |-> c, ok |-> TRUE, answer |-> x])
Fail(c) ==
  /\ replies' = Append(replies, [call |-> c, ok |-> FALSE, answer |-> None])
  /\ UNCHANGED <<serverVars, broadcasts>>

ServeList(c) ==
  /\ c.op = "list"
  /\ Answer(c, server)
  /\ UNCHANGED <<serverVars, broadcasts>>

ServeCreate(c) ==
  /\ c.op = "create"
  /\ \/ Create /\ Answer(c, Last(server'))
     \/ Fail(c)

ServeClose(c) ==
  /\ c.op = "close"
  /\ IF c.id \in Ids(server)
       THEN Close(c.id) /\ Answer(c, LastId(server'))
       ELSE Fail(c)

ServeAttach(c) ==
  /\ c.op = "attach"
  /\ IF c.id \in Ids(server)
       THEN Answer(c, Find(server, c.id)) /\ UNCHANGED <<serverVars, broadcasts>>
       ELSE Fail(c)

ServePanes(c) ==
  /\ c.op \in {"split", "closePane"}
  /\ LET n == IF c.id \in Ids(server) THEN Find(server, c.id).panes ELSE 0
         m == IF c.op = "split" THEN n + 1 ELSE n - 1
     IN IF n > 0 /\ m \in 1..MaxPanes
          THEN SetPanes(c.id, m) /\ Answer(c, [id |-> c.id, panes |-> m])
          ELSE Fail(c)

Serve ==
  /\ calls # <<>>
  /\ calls' = Tail(calls)
  /\ LET c == Head(calls) IN
       /\ ServeList(c) \/ ServeCreate(c) \/ ServeClose(c) \/ ServeAttach(c) \/ ServePanes(c)
       /\ latest' = IF c.op = "list" THEN Ids(server) ELSE latest
  /\ UNCHANGED <<viewVars, ops, overtaken>>

PhoneCreates ==
  /\ Operate /\ Create
  /\ UNCHANGED <<calls, replies, viewVars>>

PhoneCloses(id) ==
  /\ Operate /\ id \in Ids(server) /\ Close(id)
  /\ UNCHANGED <<calls, replies, viewVars>>

PhoneResizes(id, n) ==
  /\ Operate /\ id \in Ids(server) /\ Find(server, id).panes # n
  /\ SetPanes(id, n)
  /\ UNCHANGED <<calls, replies, viewVars>>

-----------------------------------------------------------------------------
(* What the webview does with what arrives.                                   *)

OnBroadcast ==
  /\ broadcasts # <<>>
  /\ broadcasts' = Tail(broadcasts)
  /\ IF Head(broadcasts) = ListChanged
       THEN Call([op |-> "list", why |-> "refresh"]) /\ UNCHANGED <<tabs, active>>
       ELSE SetSession(Head(broadcasts).session) /\ UNCHANGED calls
  /\ UNCHANGED <<serverVars, replies, focus, ops, history>>

(* initSessions: some session of the list (the last one used, the server's    *)
(* active one or the first) is attached to; the list waits for the answer.    *)
(* Also the refresh when the active tab is not in the list (a remote tab      *)
(* never is): a session the tab bar does not know, or the first.              *)
AttachFrom(list, target, why) ==
  /\ Call([op |-> "attach", id |-> target, why |-> why, list |-> list])
  /\ UNCHANGED viewVars

OnInitList(r) ==
  /\ r.call.op = "list" /\ r.call.why = "init"
  /\ IF r.answer = <<>> THEN UNCHANGED <<calls, viewVars>>
     ELSE \E id \in Ids(r.answer) : AttachFrom(r.answer, id, "init")

RefreshTarget(list) ==
  LET new == Without(list, Ids(tabs))
  IN IF new # <<>> THEN Head(new).id ELSE Head(list).id

OnRefreshKeepsGone(r) ==
  /\ r.call.op = "list" /\ r.call.why = "refresh"
  /\ tabs' = r.answer \o Without(tabs, Ids(r.answer))
  /\ UNCHANGED <<calls, active, focus>>

OnRefresh(r) ==
  /\ r.call.op = "list" /\ r.call.why = "refresh"
  /\ IF active \notin Ids(r.answer) /\ r.answer # <<>>
       THEN AttachFrom(r.answer, RefreshTarget(r.answer), "refresh")
       ELSE tabs' = r.answer /\ UNCHANGED <<calls, active, focus>>

BringsAList(c) == c.op = "attach" /\ c.why # "switch"

OnAttach(r) ==
  /\ BringsAList(r.call)
  /\ tabs' = IF r.ok THEN Replace(r.call.list, r.answer) ELSE r.call.list
  /\ active' = r.call.id
  /\ focus' = IF r.ok THEN r.call.id
              ELSE IF r.call.why = "init" THEN Head(r.call.list).id ELSE focus
  /\ UNCHANGED calls

OnSwitched(r) ==
  /\ r.call.op = "attach" /\ r.call.why = "switch"
  /\ IF r.ok THEN active' = r.call.id /\ focus' = r.call.id ELSE UNCHANGED <<active, focus>>
  /\ UNCHANGED <<tabs, calls>>

(* The layout's splits follow; their answer updates the tab if it is there.   *)
OnCreated(r) ==
  /\ r.call.op = "create"
  /\ IF ~r.ok THEN UNCHANGED <<viewVars, calls>>
     ELSE /\ AddSession(r.answer)
          /\ IF r.call.layout
               THEN /\ Call([op |-> "split", id |-> r.answer.id, why |-> "layout"])
                    /\ UNCHANGED focus
               ELSE focus' = r.answer.id /\ UNCHANGED calls

OnClosed(r) ==
  /\ r.call.op = "close"
  /\ focus' = IF r.ok /\ ~r.call.quiet /\ r.answer # None
                THEN r.answer ELSE focus
  /\ UNCHANGED <<tabs, active, calls>>

OnSplit(r) ==
  /\ r.call.op = "split"
  /\ CASE ~r.ok -> UNCHANGED <<tabs, active, focus>>
       [] r.ok /\ r.call.why = "menu" -> SetSession(r.answer) /\ UNCHANGED focus
       [] OTHER -> /\ tabs' = Replace(tabs, r.answer)
                   /\ focus' = r.answer.id /\ UNCHANGED active
  /\ UNCHANGED calls

(* A dead shell's tab goes with its last pane.                                *)
OnPaneClosed(r) ==
  /\ r.call.op = "closePane"
  /\ IF r.ok THEN SetSession(r.answer) /\ focus' = r.answer.id /\ UNCHANGED calls
     ELSE IF r.call.why = "exit" /\ r.call.id \in Ids(tabs)
       THEN /\ RemoveSessions({r.call.id})
            /\ Call(CloseCall(r.call.id, FALSE)) /\ UNCHANGED focus
       ELSE UNCHANGED <<viewVars, calls>>

OnReply ==
  /\ replies # <<>>
  /\ replies' = Tail(replies)
  /\ LET r == Head(replies) IN
       /\ \/ OnInitList(r) \/ OnRefresh(r) \/ OnAttach(r) \/ OnSwitched(r)
          \/ OnCreated(r) \/ OnClosed(r) \/ OnSplit(r) \/ OnPaneClosed(r)
       /\ overtaken' = (overtaken \/ (BringsAList(r.call) /\ Ids(r.call.list) # latest))
  /\ UNCHANGED <<serverVars, broadcasts, ops, latest>>

-----------------------------------------------------------------------------
UserActs ==
  \/ \E l \in BOOLEAN : NewTab(l)
  \/ \E id \in Ids(tabs) : SwitchTab(id) \/ ClickNotification(id) \/ CloseTab(id)
  \/ \E i \in DOMAIN tabs : \/ CloseMany(Ids(tabs) \ {tabs[i].id})
                            \/ CloseMany(Ids(SubSeq(tabs, i + 1, Len(tabs))))
  \/ \E ids \in SUBSET Ids(tabs) : CloseInWorktree(ids)
  \/ \E i, j \in DOMAIN tabs : ReorderTabs(i, j)
  \/ SplitPane \/ ClosePane("menu") \/ OpenRemoteTab

Next ==
  \/ UserActs \/ ClosePane("exit")
  \/ Serve
  \/ PhoneCreates
  \/ \E id \in Ids(server) : PhoneCloses(id) \/ \E n \in 1..MaxPanes : PhoneResizes(id, n)
  \/ OnBroadcast \/ OnReply

Spec == Init /\ [][Next]_vars

-----------------------------------------------------------------------------
Settled == calls = <<>> /\ replies = <<>> /\ broadcasts = <<>>
LocalTabs == Without(tabs, {RemoteTab})
ShowsServer == Ids(LocalTabs) = Ids(server) /\ Len(LocalTabs) = Len(server)

(* Whatever the user, the shells and the phone do at once, when nothing is on *)
(* its way any more each session of the server has one tab and no closed one  *)
(* is left, unless a list waited for an attach while a newer one was applied  *)
(* (useIpcSetup.ts 206-244; sessionStore.ts 141-222).                         *)
CatchUpUnlessOvertaken == Settled /\ ~overtaken => ShowsServer

(* No mixture of closed, reopened and unknown sessions leaves tabs of which   *)
(* none is shown (sessionStore.ts 166-176; useIpcSetup.ts 222-240).           *)
ATabIsShown == Settled /\ tabs # <<>> /\ ~overtaken => active \in Ids(tabs)
=============================================================================
