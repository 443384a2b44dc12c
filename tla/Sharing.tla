------------------------------- MODULE Sharing -------------------------------
(***************************************************************************)
(* Sharing this computer by account (remoteStore.ts, ShareDialog.tsx, the   *)
(* badge of the tab bar, the settings' switch).  The window asks the server *)
(* to start and to stop hosting; a start first needs a valid access token,  *)
(* which may be refreshed over the network, a stop does not, so a stop may  *)
(* overtake a start.  The server takes requests one at a time and reports   *)
(* its own changes as events: registered, lost the signaling server, a      *)
(* client came or left, the token expired.  What the dialog shows is put    *)
(* together from both.  The server is not hosting at the start.             *)
(***************************************************************************)
EXTENDS Naturals, Sequences, FiniteSets, SequencesExt

CONSTANTS Room,        \* the connections of clients, each with a fresh code
          MaxShCalls,  \* bound on the calls the window makes
          MaxShDrops   \* bound on the losses of the signaling server

VARIABLES shStatus,   \* hostStatus
          shToast,    \* [shown, timers]: the toast and the timers that clear it
          shLogin,    \* [in, wanted]: isAuthenticated, pendingHostAfterLogin
          shEnabled,  \* shareAliveEnabled
          shDialog,   \* [open, mode]
          shListed,   \* connectedClients
          shCalls,    \* per call: [op, at]
          shSent,     \* requests on their way to the server
          shHost,     \* the hosting task: "off", "up", "retrying"
          shRooms,    \* client_map of the task
          shOrphans,  \* clients in the maps of tasks that have ended, still served
          shJoining,  \* rooms that negotiate, with the task they belong to
          shEvents,   \* events on their way to the window
          shDrops,
          shRefused,  \* the last stop did not reach the server
          shMissed    \* history: clients that the last stop did not reach

shVars == <<shStatus, shToast, shLogin, shEnabled, shDialog, shListed, shCalls, shSent,
            shHost, shRooms, shOrphans, shJoining, shEvents, shDrops, shRefused, shMissed>>
shServer == <<shHost, shRooms, shOrphans, shJoining, shDrops, shMissed>>

Statuses == {"disconnected", "connecting", "reconnecting", "waiting", "connected", "failed"}
Reports == (Statuses \ {"waiting"}) \cup {"account_waiting", "needs_reauth"}
Status(s) == [is |-> s, room |-> <<>>]
About(s, r) == [is |-> s, room |-> <<r>>]

normalizeStatus(s) == IF s = "account_waiting" THEN "waiting" ELSE s
isActive == shStatus \in {"connecting", "reconnecting", "waiting", "connected"}

\* The calls: one that needs a token waits for it, a stop is sent at once.
Fits == Len(shCalls) < MaxShCalls
Calls(op) == shCalls' = Append(shCalls, [op |-> op, at |-> "token"])
Lands(i, at) == shCalls' = [shCalls EXCEPT ![i].at = at]

\* startAccountHosting before its await.
Starting == /\ shStatus' = "connecting"
            /\ Calls("start")
StartHosting(open) == /\ Starting
                      /\ shDialog' = [open |-> open, mode |-> "host"]

\* The click of the badge, of Start Sharing, of Try Again: shares, or signs in
\* first and remembers why, or opens the dialog.  A dialog covers the badges.
BadgeShares == /\ shLogin.in /\ shStatus \in {"disconnected", "failed"}
               /\ Fits /\ StartHosting(shDialog.open)
               /\ UNCHANGED shLogin
BadgeSignsIn == /\ ~shLogin.in
                /\ shLogin' = [shLogin EXCEPT !.wanted = TRUE]
                /\ UNCHANGED <<shStatus, shCalls, shDialog>>
BadgeOpens == /\ shLogin.in /\ shStatus \notin {"disconnected", "failed"}
              /\ shDialog' = [open |-> TRUE, mode |-> "host"]
              /\ UNCHANGED <<shStatus, shCalls, shLogin>>
BadgeClick == /\ ~shDialog.open
              /\ BadgeShares \/ BadgeSignsIn \/ BadgeOpens
              /\ UNCHANGED <<shToast, shEnabled, shListed, shSent, shServer, shEvents, shRefused>>

isVisible == shDialog.open /\ shDialog.mode = "host"
DialogStart == /\ isVisible /\ Fits
               /\ (shStatus = "disconnected" /\ shLogin.in) \/ shStatus = "failed"
               /\ StartHosting(FALSE)
               /\ UNCHANGED <<shLogin, shToast, shEnabled, shListed, shSent, shServer, shEvents,
                              shRefused>>
DialogSignsIn == /\ isVisible /\ shStatus = "disconnected" /\ ~shLogin.in
                 /\ shLogin' = [shLogin EXCEPT !.wanted = TRUE]
                 /\ UNCHANGED <<shStatus, shToast, shEnabled, shDialog, shListed, shCalls, shSent,
                                shServer, shEvents, shRefused>>
\* The link of a failure puts the dialog away together with the failure.
DialogLink == /\ isVisible /\ shStatus = "failed"
              /\ shStatus' = "disconnected"
              /\ shDialog' = [shDialog EXCEPT !.open = FALSE]
              /\ UNCHANGED <<shToast, shLogin, shEnabled, shListed, shCalls, shSent, shServer,
                             shEvents, shRefused>>
CloseDialog == /\ isVisible
               /\ shDialog' = [shDialog EXCEPT !.open = FALSE]
               /\ UNCHANGED <<shStatus, shToast, shLogin, shEnabled, shListed, shCalls, shSent,
                              shServer, shEvents, shRefused>>

\* The badge of the other direction opens the client's dialog in its place.
ConnectClick == /\ shLogin.in /\ ~shDialog.open
                /\ shDialog' = [open |-> TRUE, mode |-> "client"]
                /\ UNCHANGED <<shStatus, shToast, shLogin, shEnabled, shListed, shCalls, shSent,
                               shServer, shEvents, shRefused>>

\* The sign-in ends; the effect of ShareDialog shares if that was the reason.
SignedIn == /\ ~shLogin.in
            /\ shLogin' = [in |-> TRUE, wanted |-> FALSE]
            /\ IF shLogin.wanted
               THEN Fits /\ StartHosting(FALSE)
               ELSE UNCHANGED <<shStatus, shCalls, shDialog>>
            /\ UNCHANGED <<shToast, shEnabled, shListed, shSent, shServer, shEvents, shRefused>>

\* stopHosting: the window forgets at once, then the request is sent, or there
\* is no connection to send it on.
StopHosting ==
    /\ Fits
    /\ shStatus' = "disconnected"
    /\ shToast' = [shToast EXCEPT !.shown = FALSE]
    /\ shListed' = {}
    /\ \/ /\ shCalls' = Append(shCalls, [op |-> "stop", at |-> "sent"])
          /\ shSent' = Append(shSent, Len(shCalls'))
          /\ shRefused' = FALSE
       \/ /\ shCalls' = Append(shCalls, [op |-> "stop", at |-> "failed"])
          /\ shRefused' = TRUE
          /\ UNCHANGED shSent
DialogStop == /\ isVisible /\ isActive
              /\ StopHosting
              /\ shDialog' = [shDialog EXCEPT !.open = FALSE]
              /\ UNCHANGED <<shLogin, shEnabled, shServer, shEvents>>

\* handleShareAliveToggle.
ToggleOn == /\ ~shDialog.open /\ shLogin.in /\ ~shEnabled /\ Fits
            /\ shEnabled' = TRUE
            /\ StartHosting(shDialog.open)
            /\ UNCHANGED <<shToast, shLogin, shListed, shSent, shServer, shEvents, shRefused>>
ToggleOff == /\ ~shDialog.open /\ shLogin.in /\ shEnabled
             /\ shEnabled' = FALSE
             /\ StopHosting
             /\ UNCHANGED <<shLogin, shDialog, shServer, shEvents>>

\* The token of a start is there, or cannot be had.
Token(i) == /\ shCalls[i].op \in {"start", "reauth"} /\ shCalls[i].at = "token"
            /\ \/ Lands(i, "sent") /\ shSent' = Append(shSent, i)
               \/ Lands(i, "failed") /\ UNCHANGED shSent
            /\ UNCHANGED <<shStatus, shToast, shLogin, shEnabled, shDialog, shListed, shServer,
                           shEvents, shRefused>>

\* The answers as the window takes them.
Answered(i, op, at) == shCalls[i].op = op /\ shCalls[i].at = at /\ Lands(i, "done")
StartOk(i) == /\ Answered(i, "start", "ok")
              /\ shStatus' = "waiting"
              /\ shToast' = [shown |-> TRUE, timers |-> shToast.timers + 1]
              /\ UNCHANGED <<shLogin, shEnabled>>
StartFails(i) == /\ Answered(i, "start", "failed")
                 /\ shStatus' = "failed"
                 /\ UNCHANGED <<shToast, shLogin, shEnabled>>
ReauthOk(i) == /\ Answered(i, "reauth", "ok")
               /\ shStatus' = "waiting"
               /\ UNCHANGED <<shToast, shLogin, shEnabled>>
\* No fresh token: the switch goes off and the user is signed out.
ReauthFails(i) == /\ Answered(i, "reauth", "failed")
                  /\ shStatus' = "disconnected"
                  /\ shEnabled' = FALSE
                  /\ shLogin' = [shLogin EXCEPT !.in = FALSE]
                  /\ UNCHANGED shToast
StopAnswered(i) == /\ \/ Answered(i, "stop", "ok")
                      \/ Answered(i, "stop", "failed")
                   /\ UNCHANGED <<shStatus, shToast, shLogin, shEnabled>>
Answer(i) == /\ \/ StartOk(i) \/ StartFails(i) \/ ReauthOk(i) \/ ReauthFails(i) \/ StopAnswered(i)
             /\ UNCHANGED <<shDialog, shListed, shSent, shServer, shEvents, shRefused>>

\* The three seconds of a toast; any timer clears whichever toast is shown.
ToastTimer == /\ shToast.timers > 0
              /\ shToast' = [shown |-> FALSE, timers |-> shToast.timers - 1]
              /\ UNCHANGED <<shStatus, shLogin, shEnabled, shDialog, shListed, shCalls, shSent,
                             shServer, shEvents, shRefused>>

\* The server.  Stopping ends the task and closes the clients of its map; a
\* negotiation it has begun goes on by itself, and so does a client of an
\* earlier task: no one has its map any more.
Orphaned == {[j EXCEPT !.current = FALSE] : j \in shJoining}
StopReports == IF shHost = "up" THEN <<Status("disconnected")>> ELSE <<>>
ServerStops(i) == /\ shCalls[i].op = "stop"
                  /\ shHost' = "off"
                  /\ Lands(i, "ok")
                  /\ shEvents' = shEvents \o StopReports
                  /\ shMissed' = shOrphans \ shListed
ServerStarts(i) == /\ shCalls[i].op # "stop" /\ UNCHANGED shMissed
                   /\ \/ /\ shHost' = "up"
                         /\ Lands(i, "ok")
                         /\ shEvents' = shEvents \o StopReports \o <<Status("account_waiting")>>
                      \/ /\ shHost' = "off"
                         /\ Lands(i, "failed")
                         /\ shEvents' = shEvents \o StopReports
ServerTakes == /\ shSent # <<>>
               /\ ServerStops(shSent[1]) \/ ServerStarts(shSent[1])
               /\ shSent' = SubSeq(shSent, 2, Len(shSent))
               /\ shRooms' = {}
               /\ shJoining' = Orphaned
               /\ UNCHANGED <<shStatus, shToast, shLogin, shEnabled, shDialog, shListed, shOrphans,
                              shDrops, shRefused>>

shWindow == <<shStatus, shToast, shLogin, shEnabled, shDialog, shListed, shCalls, shSent, shRefused>>

\* The signaling server is lost: the loop ends and forgets its map, but the
\* clients keep their channels, and whoever answers on them.
SignalingLost == /\ shHost = "up" /\ shDrops < MaxShDrops
                 /\ shHost' = "retrying"
                 /\ shRooms' = {} /\ shOrphans' = shOrphans \cup shRooms
                 /\ shJoining' = Orphaned
                 /\ shDrops' = shDrops + 1
                 /\ shEvents' = shEvents \o <<Status("disconnected"), Status("reconnecting")>>
                 /\ UNCHANGED <<shMissed, shWindow>>
Registered == /\ shHost = "retrying"
              /\ shHost' = "up"
              /\ shEvents' = Append(shEvents, Status("account_waiting"))
              /\ UNCHANGED <<shRooms, shOrphans, shJoining, shDrops, shMissed, shWindow>>
TokenExpired == /\ shHost = "retrying"
                /\ shHost' = "off"
                /\ shEvents' = Append(shEvents, Status("needs_reauth"))
                /\ UNCHANGED <<shRooms, shOrphans, shJoining, shDrops, shMissed, shWindow>>

\* A client negotiates, is connected, leaves.
Requested(r) == /\ shHost = "up"
                /\ \A j \in shJoining : j.room # r
                /\ shJoining' = shJoining \cup {[room |-> r, current |-> TRUE, open |-> FALSE]}
                /\ UNCHANGED <<shHost, shRooms, shOrphans, shDrops, shEvents, shMissed, shWindow>>
\* It joins the map of its task; one that has ended may have clients or not.
Joined(j) == /\ j \in shJoining /\ ~j.open
             /\ shJoining' = (shJoining \ {j}) \cup {[j EXCEPT !.open = TRUE]}
             /\ IF j.current
                THEN shRooms' = shRooms \cup {j.room} /\ UNCHANGED shOrphans
                ELSE shOrphans' = shOrphans \cup {j.room} /\ UNCHANGED shRooms
             /\ \E first \in IF j.current THEN {shRooms = {}} ELSE {TRUE, shOrphans = {}} :
                  shEvents' = shEvents \o (IF first THEN <<Status("connected")>> ELSE <<>>)
                                       \o <<About("joined", j.room)>>
             /\ UNCHANGED <<shHost, shDrops, shMissed, shWindow>>
ClientLeft(r) == /\ r \in shRooms
                 /\ shRooms' = shRooms \ {r}
                 /\ shEvents' = Append(shEvents, About("left", r))
                      \o (IF shRooms' = {} THEN <<Status("account_waiting")>> ELSE <<>>)
                 /\ UNCHANGED <<shHost, shOrphans, shJoining, shDrops, shMissed, shWindow>>
\* No loop hears of the end of a client that was left behind.
OrphanLeft(r) == /\ r \in shOrphans
                 /\ shOrphans' = shOrphans \ {r}
                 /\ UNCHANGED <<shHost, shRooms, shJoining, shDrops, shEvents, shMissed, shWindow>>

\* The listeners of the window, in the order of the events.
ShowsStatus(e) == /\ e.is \in Reports \ {"needs_reauth"}
                  /\ shStatus' = normalizeStatus(e.is)
                  /\ UNCHANGED <<shCalls, shListed>>
AsksAgain(e) == /\ e.is = "needs_reauth" /\ Fits
                /\ Calls("reauth")
                /\ UNCHANGED <<shStatus, shListed>>
ListsClient(e) == /\ e.is = "joined"
                  /\ shListed' = shListed \cup {e.room[1]}
                  /\ UNCHANGED <<shStatus, shCalls>>
UnlistsAll(e) == /\ e.is = "left"
                 /\ shListed' = {}
                 /\ UNCHANGED <<shStatus, shCalls>>
UnlistsClient(e) == /\ e.is = "left"
                    /\ shListed' = shListed \ {e.room[1]}
                    /\ UNCHANGED <<shStatus, shCalls>>
Event == /\ shEvents # <<>>
         /\ LET e == shEvents[1] IN
            ShowsStatus(e) \/ AsksAgain(e) \/ ListsClient(e) \/ UnlistsClient(e)
         /\ shEvents' = SubSeq(shEvents, 2, Len(shEvents))
         /\ UNCHANGED <<shToast, shLogin, shEnabled, shDialog, shSent, shServer, shRefused>>

\* The window's start: the switch may be on from before, and shares if signed in.
ShInit ==
    \E in, on \in BOOLEAN :
      /\ shLogin = [in |-> in, wanted |-> FALSE]
      /\ shEnabled = (in /\ on)
      /\ IF in /\ on
         THEN /\ shStatus = "connecting"
              /\ shCalls = <<[op |-> "start", at |-> "token"]>>
         ELSE shStatus = "disconnected" /\ shCalls = <<>>
      /\ shDialog = [open |-> FALSE, mode |-> "host"]
      /\ shToast = [shown |-> FALSE, timers |-> 0]
      /\ shListed = {} /\ shSent = <<>> /\ shEvents = <<>>
      /\ shHost = "off" /\ shRooms = {} /\ shOrphans = {} /\ shJoining = {} /\ shDrops = 0
      /\ shRefused = FALSE /\ shMissed = {}

ShNext == \/ BadgeClick \/ DialogStart \/ DialogSignsIn \/ DialogLink \/ CloseDialog \/ ConnectClick
          \/ SignedIn \/ DialogStop \/ ToggleOn \/ ToggleOff \/ ToastTimer
          \/ \E i \in DOMAIN shCalls : Token(i) \/ Answer(i)
          \/ ServerTakes \/ SignalingLost \/ Registered \/ TokenExpired
          \/ \E r \in Room : Requested(r) \/ ClientLeft(r) \/ OrphanLeft(r)
          \/ \E j \in shJoining : Joined(j)
          \/ Event

ShSpec == ShInit /\ [][ShNext]_shVars

(***************************************************************************)
(* Properties                                                              *)
(***************************************************************************)
\* The variables hold values of their types.
ShTypeOK ==
    /\ shStatus \in Statuses /\ shEnabled \in BOOLEAN /\ shRefused \in BOOLEAN
    /\ shToast \in [shown : BOOLEAN, timers : Nat]
    /\ shLogin \in [in : BOOLEAN, wanted : BOOLEAN]
    /\ shDialog \in [open : BOOLEAN, mode : {"host", "client"}]
    /\ \A S \in {shListed, shRooms, shOrphans, shMissed} : S \subseteq Room
    /\ shCalls \in Seq([op : {"start", "reauth", "stop"},
                        at : {"token", "sent", "ok", "failed", "done"}])
    /\ shSent \in Seq(DOMAIN shCalls)
    /\ shHost \in {"off", "up", "retrying"}
    /\ shJoining \subseteq [room : Room, current : BOOLEAN, open : BOOLEAN]
    /\ shEvents \in Seq([is : Reports \cup {"joined", "left"}, room : {<<>>} \cup {<<r>> : r \in Room}])
    /\ shDrops \in 0 .. MaxShDrops

\* Nobody watches unseen: once every event has been taken, a client of any of
\* the host's maps, whose channel is answered on, is one the dialog lists,
\* except while a stop is on its way, after one that could not be sent, and for
\* a client of an earlier task that a stop did not reach (connected,
\* disconnected and stopHosting change the list from three sides; a task that
\* ends leaves its map behind, server_host.rs 886-905, 1026-1029, 1142-1190).
\* A channel is answered on for up to 200 ms before its client is in the map,
\* and for up to a second after it is gone.
NobodyWatchesUnseen ==
    \/ shEvents # <<>> \/ shRefused
    \/ \E i \in DOMAIN shCalls : shCalls[i].op = "stop" /\ shCalls[i].at = "sent"
    \/ shRooms \cup shOrphans \subseteq shListed \cup shMissed
=============================================================================
