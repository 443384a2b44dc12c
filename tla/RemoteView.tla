----------------------------- MODULE RemoteView -----------------------------
(***************************************************************************)
(* Devices a user views from here (src/stores/remoteStore.ts, client side; *)
(* components/Modals/ConnectDialog; commands/remote.rs): connections, the  *)
(* sessions their hosts list, the tabs opened for them and the map from    *)
(* panes to devices.  Each device has one session of one pane and is named *)
(* for both.                                                               *)
(***************************************************************************)
EXTENDS Naturals, Sequences, FiniteSets

CONSTANTS Devices, None,
          MaxEvents, \* bound: events on their way
          MaxOps     \* bound: links made, events sent and clicks

VARIABLES
  dialing,   \* devices a task of the backend is connecting to
  link,      \* devices the backend has a slot for: their channel is open
  wire,      \* remote-* events on their way
  calls,     \* devices a connect_to_device_account call is under way for
  ending,    \* devices a disconnect_remote call is under way for
  conns,     \* connections: each device's status
  listed,    \* devices whose connection lists the session
  tabs,      \* how many tabs show each session
  mapped,    \* devices paneToDevice and sessionToDevice lead to
  active,    \* connectedDeviceId
  view, viewing, pendingView, \* the dialog
  ops,
  forgot     \* history: devices whose listed session vanished under an open tab

store == <<conns, listed, tabs, mapped, active>>
dialog == <<view, viewing, pendingView>>
vars == <<dialing, link, wire, calls, ending, store, dialog, ops, forgot>>

Status == {"connecting", "connected", "failed"}
Event == [about : {"status"}, device : Devices, status : Status \cup {"disconnected"}]
           \cup [about : {"list"}, device : Devices, lists : BOOLEAN]
           \cup [about : {"output", "layout"}, device : Devices]

TypeOK ==
  /\ dialing \subseteq Devices /\ link \subseteq Devices /\ wire \in Seq(Event)
  /\ calls \subseteq Devices /\ ending \subseteq Devices
  /\ conns \in [Devices -> Status \cup {None}] /\ listed \subseteq Devices
  /\ tabs \in [Devices -> Nat] /\ mapped \subseteq Devices
  /\ {active, viewing, pendingView} \subseteq Devices \cup {None}
  /\ view \in {"closed", "devices", "sessions"}

Init ==
  /\ dialing = {} /\ link = {} /\ wire = <<>> /\ calls = {} /\ ending = {}
  /\ conns = [d \in Devices |-> None] /\ listed = {} /\ mapped = {}
  /\ tabs = [d \in Devices |-> 0] /\ active = None
  /\ view = "closed" /\ viewing = None /\ pendingView = None
  /\ ops = 0 /\ forgot = {}

Act == ops < MaxOps /\ ops' = ops + 1
Emit(e) == Len(wire) < MaxEvents /\ wire' = Append(wire, e)
Says(d, s) == [about |-> "status", device |-> d, status |-> s]

-----------------------------------------------------------------------------
(* The backend, once connect_to_device_account has spawned its task: the      *)
(* device's channel opens and talks, and the task then enters its slot; or    *)
(* the task fails, and may say nothing of it (a signaling server that closes).*)
LinkUp(d) ==
  /\ d \in dialing /\ dialing' = dialing \ {d} /\ link' = link \cup {d}
  /\ Emit(Says(d, "connected"))
  /\ UNCHANGED <<calls, ending, store, dialog, ops, forgot>>

DialFails(d) ==
  /\ d \in dialing /\ dialing' = dialing \ {d}
  /\ Emit(Says(d, "failed")) \/ UNCHANGED wire
  /\ UNCHANGED <<link, calls, ending, store, dialog, ops, forgot>>

LinkTalks(d) ==
  /\ d \in link \cup dialing /\ Act
  /\ \E e \in Event : e.device = d /\ e.about # "status" /\ Emit(e)
  /\ UNCHANGED <<dialing, link, calls, ending, store, dialog, forgot>>

(* A link that is lost keeps its slot, and may come back.                     *)
LinkStumbles(d) ==
  /\ d \in link /\ \E s \in {"failed", "connected"} : Emit(Says(d, s))
  /\ UNCHANGED <<dialing, link, calls, ending, store, dialog, ops, forgot>>

-----------------------------------------------------------------------------
(* The device list's effect and the dialog's own follow each change of the    *)
(* connections.                                                               *)
Follow ==
  IF view = "devices" /\ pendingView # None
    THEN CASE conns'[pendingView] = "connected" ->
                view' = "sessions" /\ viewing' = pendingView /\ pendingView' = None
           [] conns'[pendingView] = "failed" -> pendingView' = None /\ UNCHANGED <<view, viewing>>
           [] OTHER -> UNCHANGED dialog
    ELSE UNCHANGED dialog

(* connectToDevice; a connection that was there loses its sessions.           *)
ConnectToDevice(d) ==
  /\ view = "devices" /\ conns[d] \notin {"connected", "connecting"} /\ Act
  /\ conns' = [conns EXCEPT ![d] = "connecting"]
  /\ listed' = listed \ {d} /\ active' = d
  /\ forgot' = IF tabs[d] > 0 THEN forgot \cup {d} ELSE forgot
  /\ calls' = calls \cup {d} /\ pendingView' = d
  /\ UNCHANGED <<dialing, link, wire, ending, tabs, mapped, view, viewing>>

(* connect_to_device_account: without a token it fails; else it forgets the   *)
(* device's old slot, says so and leaves the rest to a task.                  *)
ConnectFails(d) ==
  /\ d \in calls /\ calls' = calls \ {d}
  /\ conns' = IF conns[d] # None THEN [conns EXCEPT ![d] = "failed"] ELSE conns
  /\ Follow
  /\ UNCHANGED <<dialing, link, wire, ending, listed, tabs, mapped, active, ops, forgot>>

ConnectServed(d) ==
  /\ d \in calls /\ calls' = calls \ {d}
  /\ link' = link \ {d} /\ dialing' = dialing \cup {d}
  /\ Emit(Says(d, "connecting"))
  /\ UNCHANGED <<ending, store, dialog, ops, forgot>>

DropKeepsTabs(S) ==
  /\ conns' = [d \in Devices |-> IF d \in S THEN None ELSE conns[d]]
  /\ listed' = listed \ S /\ mapped' = mapped \ S
  /\ UNCHANGED tabs

(* The devices' tabs, terminals and mappings go with their connections.       *)
Drop(S) ==
  /\ conns' = [d \in Devices |-> IF d \in S THEN None ELSE conns[d]]
  /\ tabs' = [d \in Devices |-> IF d \in S /\ d \in listed THEN 0 ELSE tabs[d]]
  /\ listed' = listed \ S /\ mapped' = mapped \ S

(* disconnect(deviceId), and disconnect() for all connections.                *)
Disconnect(S) ==
  /\ S # {} /\ \A d \in S : conns[d] # None
  /\ Cardinality(S) = 1 \/ \A d \in Devices : conns[d] # None => d \in S
  /\ Act /\ Drop(S)
  /\ active' = IF Cardinality(S) = 1 /\ active \notin S THEN active ELSE None
  /\ ending' = ending \cup S
  /\ IF view = "sessions" /\ viewing \in S
       THEN view' = "devices" /\ viewing' = None /\ UNCHANGED pendingView
       ELSE UNCHANGED dialog
  /\ UNCHANGED <<dialing, link, wire, calls, forgot>>

(* disconnect_remote of a device says "disconnected" always, of all of them   *)
(* for those with a slot; a task that is still connecting goes on.            *)
DisconnectServed(d) ==
  /\ d \in ending /\ ending' = ending \ {d} /\ link' = link \ {d}
  /\ Emit(Says(d, "disconnected")) \/ (d \notin link /\ UNCHANGED wire)
  /\ UNCHANGED <<dialing, calls, store, dialog, ops, forgot>>

-----------------------------------------------------------------------------
Heard(about) == wire # <<>> /\ Head(wire).about = about /\ wire' = Tail(wire)

OnStatus ==
  /\ Heard("status")
  /\ LET d == Head(wire).device
         s == Head(wire).status
     IN IF s \in {"disconnected", "failed"}
          THEN Drop({d})
          ELSE /\ conns' = [conns EXCEPT ![d] = s]
               /\ UNCHANGED <<listed, tabs, mapped>>
  /\ Follow
  /\ UNCHANGED <<dialing, link, calls, ending, active, ops, forgot>>

(* A list is kept for a device that has a connection, and mapped anyway.      *)
OnSessionList ==
  /\ Heard("list")
  /\ LET d == Head(wire).device
         lists == Head(wire).lists
     IN /\ listed' = CASE conns[d] = None -> listed
                       [] lists -> listed \cup {d}
                       [] OTHER -> listed \ {d}
        /\ mapped' = IF lists THEN mapped \cup {d} ELSE mapped
        /\ forgot' = IF ~lists /\ tabs[d] > 0 THEN forgot \cup {d} ELSE forgot
  /\ UNCHANGED <<dialing, link, calls, ending, conns, tabs, active, dialog, ops>>

(* Output and layouts map their panes too.                                    *)
OnPane ==
  /\ Heard("output") \/ Heard("layout")
  /\ mapped' = mapped \cup {Head(wire).device}
  /\ UNCHANGED <<dialing, link, calls, ending, conns, listed, tabs, active, dialog, ops, forgot>>

-----------------------------------------------------------------------------
OpenDialog ==
  /\ view = "closed" /\ Act /\ view' = "devices" /\ viewing' = None /\ pendingView' = None
  /\ UNCHANGED <<dialing, link, wire, calls, ending, store, forgot>>

CloseDialog ==
  /\ view # "closed" /\ view' = "closed" /\ pendingView' = None
  /\ UNCHANGED <<dialing, link, wire, calls, ending, store, viewing, ops, forgot>>

ViewSessions(d) ==
  /\ view = "devices" /\ conns[d] = "connected"
  /\ view' = "sessions" /\ viewing' = d /\ pendingView' = None
  /\ UNCHANGED <<dialing, link, wire, calls, ending, store, ops, forgot>>

BackToDevices ==
  /\ view = "sessions" /\ conns[viewing] = "connected"
  /\ view' = "devices" /\ viewing' = None
  /\ UNCHANGED <<dialing, link, wire, calls, ending, store, pendingView, ops, forgot>>

(* The session picker adds a tab, whether there is one or not.                *)
PickSession ==
  /\ view = "sessions" /\ conns[viewing] = "connected" /\ viewing \in listed /\ Act
  /\ tabs' = [tabs EXCEPT ![viewing] = @ + 1]
  /\ active' = viewing /\ view' = "closed"
  /\ UNCHANGED <<dialing, link, wire, calls, ending, conns, listed, mapped, viewing, pendingView, forgot>>

(* handleClose of its last pane disconnects the device the pane is mapped to; *)
(* handleCloseTab only takes the tab away.                                    *)
CloseTab(d) ==
  /\ tabs[d] > 0 /\ tabs' = [tabs EXCEPT ![d] = 0]
  /\ UNCHANGED <<dialing, link, wire, calls, ending, conns, listed, mapped, active, dialog, ops, forgot>>

Next ==
  \/ \E d \in Devices :
       \/ LinkUp(d) \/ DialFails(d) \/ LinkTalks(d) \/ LinkStumbles(d)
       \/ ConnectToDevice(d) \/ ConnectFails(d) \/ ConnectServed(d)
       \/ DisconnectServed(d) \/ ViewSessions(d) \/ CloseTab(d)
  \/ \E S \in SUBSET Devices : Disconnect(S)
  \/ OnStatus \/ OnSessionList \/ OnPane
  \/ OpenDialog \/ CloseDialog \/ BackToDevices \/ PickSession

Spec == Init /\ [][Next]_vars

-----------------------------------------------------------------------------
(* A tab shows a session of a device that has a connection, however clicks,   *)
(* drops, late events and reconnects are mixed, unless its host no longer     *)
(* listed the session or the device was connected anew while the tab was      *)
(* open: a tab without one can neither be typed in nor disconnected           *)
(* (remoteStore.ts 252-264, 523-541).                                         *)
NoGhostTabs == \A d \in Devices : tabs[d] > 0 => conns[d] # None \/ d \in forgot
=============================================================================
