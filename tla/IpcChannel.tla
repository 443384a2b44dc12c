----------------------------- MODULE IpcChannel -----------------------------
(***************************************************************************)
(* The desktop app's connection to racemo-server: the commands that share  *)
(* one IpcClient behind a mutex (src-tauri/src/commands/mod.rs), its       *)
(* request channel, writer task, reader task and FIFO of pending replies   *)
(* (src-tauri/src/ipc/client.rs), and the server's request loop            *)
(* (src-tauri/src/ipc/server.rs).  A frame is who sent it and what kind of *)
(* message it is; flow control is PtyPipeline's, sessions are              *)
(* SessionServer's.                                                        *)
(***************************************************************************)
EXTENDS Naturals, Sequences, SequencesExt, TLAPS

CONSTANTS Calls,          \* the command invocations, each made at most once
          ChanCap,        \* capacity of the request channel (256)
          MaxEvents,      \* bound: messages the server broadcasts
          MaxReconnects   \* bound: times the app reconnects

ASSUME ChannelAssumption == ChanCap \in Nat \ {0}
ASSUME BoundsAssumption == MaxEvents \in Nat /\ MaxReconnects \in Nat

Nobody == "nobody"

ASSUME NobodyAssumption == Nobody \notin Calls

VARIABLES
  ipc,          \* who holds the IpcState mutex: a call, or Nobody
  client,       \* the Option<IpcClient> inside it is Some
  pc,           \* call -> "new" | "sending" | "waiting" | "clearing" | "done" | "failed"
  op,           \* call -> "request" | "fire" | "shutdown", once it is known
  reply,        \* call -> the call whose reply its oneshot got, or Nobody
  chan,         \* calls whose IpcRequest is in the request channel
  writer, reader,  \* BOOLEAN: the client's tasks are running
  pending,      \* calls whose oneshot is in the FIFO
  up, down,     \* the frames in the socket, each way
  link,         \* BOOLEAN: the server still holds its end of the socket
  setup,        \* setup_ipc: "idle" | "dropping" | "connecting" | "installing"
  events, reconnects,
  stray         \* history: a message nobody waits for was answered

callVars == <<pc, op, reply>>
taskVars == <<writer, reader, pending>>
socketVars == <<up, down, link>>
setupVars == <<setup, reconnects>>
vars == <<ipc, client, callVars, chan, taskVars, socketVars, setupVars, events, stray>>

Kinds == {"request", "fire", "shutdown"}
Event == [kind |-> "event"]
Reply(c) == [kind |-> "reply", to |-> c]
Frame == {Event} \cup {Reply(c) : c \in Calls}

TypeOK ==
  /\ ipc \in Calls \cup {Nobody}
  /\ client \in BOOLEAN
  /\ pc \in [Calls -> {"new", "sending", "waiting", "clearing", "done", "failed"}]
  /\ op \in [Calls -> Kinds \cup {"unknown"}]
  /\ reply \in [Calls -> Calls \cup {Nobody}]
  /\ chan \in Seq(Calls) /\ Len(chan) <= ChanCap
  /\ writer \in BOOLEAN /\ reader \in BOOLEAN
  /\ pending \in Seq(Calls)
  /\ up \in Seq(Calls)
  /\ down \in Seq(Frame)
  /\ link \in BOOLEAN
  /\ setup \in {"idle", "dropping", "connecting", "installing"}
  /\ events \in 0..MaxEvents /\ reconnects \in 0..MaxReconnects
  /\ stray \in BOOLEAN

Init ==
  /\ ipc = Nobody /\ client = TRUE
  /\ pc = [c \in Calls |-> "new"]
  /\ op = [c \in Calls |-> "unknown"]
  /\ reply = [c \in Calls |-> Nobody]
  /\ chan = <<>> /\ pending = <<>> /\ up = <<>> /\ down = <<>>
  /\ writer = TRUE /\ reader = TRUE /\ link = TRUE
  /\ setup = "idle"
  /\ events = 0 /\ reconnects = 0
  /\ stray = FALSE

-----------------------------------------------------------------------------
(* A Tauri command.                                                          *)

(* ipc(): lock the state, forget a client whose writer task is gone, and keep *)
(* the lock for as long as the client is used.                               *)
Acquire(c) ==
  /\ pc[c] = "new" /\ ipc = Nobody
  /\ client' = (client /\ writer)
  /\ \E k \in {"request", "fire"} : op' = [op EXCEPT ![c] = k]
  /\ IF client'
       THEN ipc' = c /\ pc' = [pc EXCEPT ![c] = "sending"]
       ELSE ipc' = Nobody /\ pc' = [pc EXCEPT ![c] = "failed"]
  /\ UNCHANGED <<reply, chan, taskVars, socketVars, setupVars, events, stray>>

(* stop_server, or Quit: the same without the check.  Quit is done with that;  *)
(* stop_server goes on to clear the state, whatever became of its request.   *)
AcquireToStop(c) ==
  /\ pc[c] = "new" /\ ipc = Nobody
  /\ op' = [op EXCEPT ![c] = "shutdown"]
  /\ IF client
       THEN ipc' = c /\ pc' = [pc EXCEPT ![c] = "sending"]
       ELSE ipc' = Nobody /\ \E o \in {"done", "clearing"} : pc' = [pc EXCEPT ![c] = o]
  /\ UNCHANGED <<client, reply, chan, taskVars, socketVars, setupVars, events, stray>>

(* The mutex is given back.                                                  *)
Finish(c, outcome) ==
  /\ \/ pc' = [pc EXCEPT ![c] = outcome]
     \/ op[c] = "shutdown" /\ pc' = [pc EXCEPT ![c] = "clearing"]
  /\ ipc' = Nobody

SendOverfull(c) ==
  /\ pc[c] = "sending" /\ writer
  /\ chan' = Append(chan, c)
  /\ IF op[c] = "fire"
       THEN Finish(c, "done")
       ELSE pc' = [pc EXCEPT ![c] = "waiting"] /\ UNCHANGED ipc
  /\ UNCHANGED <<client, op, reply, taskVars, socketVars, setupVars, events, stray>>

SendUnlocked(c) ==
  /\ pc[c] = "sending" /\ writer
  /\ Len(chan) < ChanCap
  /\ chan' = Append(chan, c)
  /\ pc' = [pc EXCEPT ![c] = IF op[c] = "fire" THEN "done" ELSE "waiting"]
  /\ ipc' = Nobody
  /\ UNCHANGED <<client, op, reply, taskVars, socketVars, setupVars, events, stray>>

(* request() waits for its oneshot with the lock held; send() is done.       *)
Send(c) ==
  /\ pc[c] = "sending" /\ writer
  /\ Len(chan) < ChanCap
  /\ chan' = Append(chan, c)
  /\ IF op[c] = "fire"
       THEN Finish(c, "done")
       ELSE pc' = [pc EXCEPT ![c] = "waiting"] /\ UNCHANGED ipc
  /\ UNCHANGED <<client, op, reply, taskVars, socketVars, setupVars, events, stray>>

SendFails(c) ==
  /\ pc[c] = "sending" /\ ~writer
  /\ Finish(c, "failed")
  /\ UNCHANGED <<client, op, reply, chan, taskVars, socketVars, setupVars, events, stray>>

Return(c) ==
  /\ pc[c] = "waiting" /\ reply[c] # Nobody
  /\ Finish(c, "done")
  /\ UNCHANGED <<client, op, reply, chan, taskVars, socketVars, setupVars, events, stray>>

(* The oneshot was dropped unanswered: nobody holds its sender any more.     *)
ReplyDropped(c) ==
  /\ pc[c] = "waiting" /\ reply[c] = Nobody
  /\ ~Contains(chan, c) /\ ~Contains(pending, c)
  /\ Finish(c, "failed")
  /\ UNCHANGED <<client, op, reply, chan, taskVars, socketVars, setupVars, events, stray>>

(* stop_server locks the state once more: whatever is in it now is dropped,   *)
(* a client set up in the meantime too.                                      *)
ClearClient(c) ==
  /\ pc[c] = "clearing" /\ ipc = Nobody
  /\ client' = FALSE
  /\ pc' = [pc EXCEPT ![c] = "done"]
  /\ UNCHANGED <<ipc, op, reply, chan, taskVars, socketVars, setupVars, events, stray>>

-----------------------------------------------------------------------------
(* The client's tasks.                                                       *)

WriterRuns ==
  /\ writer /\ link /\ chan # <<>>
  /\ LET c == Head(chan) IN
       /\ pending' = IF op[c] = "fire" THEN pending ELSE Append(pending, c)
       /\ up' = Append(up, c)
  /\ chan' = Tail(chan)
  /\ UNCHANGED <<ipc, client, callVars, writer, reader, down, link, setupVars, events, stray>>

(* The writer task ends on a failed write, or once the IpcClient is dropped    *)
(* and the channel empty.  Each task owns a share of the FIFO: it goes, with  *)
(* the oneshots in it, when both have ended.                                  *)
WriterEnds ==
  /\ writer
  /\ \/ /\ ~link /\ chan # <<>>
        /\ LET c == Head(chan) IN
             pending' = IF ~reader THEN <<>>
                        ELSE IF op[c] = "fire" THEN pending ELSE Append(pending, c)
     \/ /\ chan = <<>> /\ ~client /\ setup # "installing"
        /\ pending' = IF reader THEN pending ELSE <<>>
  /\ writer' = FALSE
  /\ chan' = <<>>
  /\ UNCHANGED <<ipc, client, callVars, reader, socketVars, setupVars, events, stray>>

ReaderTakesEvents ==
  /\ reader /\ down # <<>>
  /\ down' = Tail(down)
  /\ IF pending = <<>>
       THEN UNCHANGED <<reply, pending>>
       ELSE /\ LET m == Head(down)
                   other == CHOOSE c \in Calls : c # Head(pending)
               IN reply' = [reply EXCEPT ![Head(pending)] =
                              IF m = Event THEN other ELSE m.to]
            /\ pending' = Tail(pending)
  /\ UNCHANGED <<ipc, client, pc, op, chan, writer, reader, up, link, setupVars,
                 events, stray>>

(* A broadcast becomes a Tauri event.  Anything else goes to the oldest       *)
(* oneshot, whoever it was meant for, or nowhere if none is pending.          *)
ReaderTakes ==
  /\ reader /\ down # <<>>
  /\ down' = Tail(down)
  /\ IF Head(down) = Event \/ pending = <<>>
       THEN UNCHANGED <<reply, pending>>
       ELSE /\ reply' = [reply EXCEPT ![Head(pending)] = Head(down).to]
            /\ pending' = Tail(pending)
  /\ UNCHANGED <<ipc, client, pc, op, chan, writer, reader, up, link, setupVars,
                 events, stray>>

(* End of file: the webview is told (ipc-disconnected), the calls that wait   *)
(* are not.                                                                  *)
ReaderEnds ==
  /\ reader /\ ~link /\ down = <<>>
  /\ reader' = FALSE
  /\ pending' = IF writer THEN pending ELSE <<>>
  /\ UNCHANGED <<ipc, client, callVars, chan, writer, socketVars, setupVars, events, stray>>

-----------------------------------------------------------------------------
(* The server's end of the connection.                                       *)

ServerHandlesSkippingOk ==
  /\ link /\ up # <<>>
  /\ LET c == Head(up) IN
       CASE op[c] = "request" ->
              /\ down' \in {down, Append(down, Reply(c))}
              /\ up' = Tail(up) /\ UNCHANGED <<link, stray>>
         [] op[c] = "fire" ->
              /\ up' = Tail(up) /\ UNCHANGED <<down, link, stray>>
         [] op[c] = "shutdown" ->
              /\ link' = FALSE /\ up' = <<>> /\ UNCHANGED <<down, stray>>
  /\ UNCHANGED <<ipc, client, callVars, chan, taskVars, setupVars, events>>

(* A request is always answered.  A fire-and-forget message is answered only  *)
(* when it failed: its PTY is gone.  Shutdown exits the process.              *)
ServerHandles ==
  /\ link /\ up # <<>>
  /\ LET c == Head(up) IN
       \/ /\ op[c] = "request"
          /\ down' = Append(down, Reply(c))
          /\ up' = Tail(up) /\ UNCHANGED <<link, stray>>
       \/ /\ op[c] = "fire"
          /\ up' = Tail(up) /\ UNCHANGED <<down, link, stray>>
       \/ /\ op[c] = "fire"
          /\ down' = Append(down, Reply(c))
          /\ stray' = TRUE
          /\ up' = Tail(up) /\ UNCHANGED link
       \/ /\ op[c] = "shutdown"
          /\ link' = FALSE /\ up' = <<>> /\ UNCHANGED <<down, stray>>
  /\ UNCHANGED <<ipc, client, callVars, chan, taskVars, setupVars, events>>

ServerBroadcasts ==
  /\ link /\ events < MaxEvents
  /\ events' = events + 1
  /\ down' = Append(down, Event)
  /\ UNCHANGED <<ipc, client, callVars, chan, taskVars, up, link, setupVars, stray>>

(* The server dies, or gives the connection up.  What it wrote still arrives. *)
ServerGone ==
  /\ link
  /\ link' = FALSE /\ up' = <<>>
  /\ UNCHANGED <<ipc, client, callVars, chan, taskVars, down, setupVars, events, stray>>

-----------------------------------------------------------------------------
(* setup_ipc, run again when the webview learns of the disconnection.         *)

SetupStarts ==
  /\ setup = "idle" /\ ~reader /\ reconnects < MaxReconnects
  /\ setup' = "dropping"
  /\ reconnects' = reconnects + 1
  /\ UNCHANGED <<ipc, client, callVars, chan, taskVars, socketVars, events, stray>>

SetupDropsClient ==
  /\ setup = "dropping" /\ ipc = Nobody
  /\ client' = FALSE
  /\ setup' = "connecting"
  /\ UNCHANGED <<ipc, callVars, chan, taskVars, socketVars, reconnects, events, stray>>

(* To the server that is still there, or to one spawned now.  The channel,    *)
(* the FIFO and the tasks of the new connection are new.                      *)
SetupConnects ==
  /\ setup = "connecting"
  /\ setup' = "installing"
  /\ chan' = <<>> /\ pending' = <<>> /\ up' = <<>> /\ down' = <<>>
  /\ writer' = TRUE /\ reader' = TRUE /\ link' = TRUE
  /\ UNCHANGED <<ipc, client, callVars, reconnects, events, stray>>

SetupGivesUp ==
  /\ setup = "connecting"
  /\ setup' = "idle"
  /\ UNCHANGED <<ipc, client, callVars, chan, taskVars, socketVars, reconnects, events,
                 stray>>

SetupInstalls ==
  /\ setup = "installing" /\ ipc = Nobody
  /\ client' = TRUE
  /\ setup' = "idle"
  /\ UNCHANGED <<ipc, callVars, chan, taskVars, socketVars, reconnects, events, stray>>

-----------------------------------------------------------------------------
CallStep(c) ==
  Send(c) \/ SendFails(c) \/ Return(c) \/ ReplyDropped(c) \/ ClearClient(c)

ClientTasks == WriterRuns \/ WriterEnds \/ ReaderTakes \/ ReaderEnds

Setup == SetupDropsClient \/ SetupConnects \/ SetupGivesUp \/ SetupInstalls

Next ==
  \/ \E c \in Calls : Acquire(c) \/ AcquireToStop(c) \/ CallStep(c)
  \/ ClientTasks
  \/ ServerHandles \/ ServerBroadcasts \/ ServerGone
  \/ SetupStarts \/ Setup

Spec == Init /\ [][Next]_vars

(* Every task that can run does, on both sides.  Nobody has to call, and the  *)
(* server need not fail.                                                     *)
Fairness ==
  /\ \A c \in Calls : WF_vars(CallStep(c))
  /\ WF_vars(WriterRuns) /\ WF_vars(WriterEnds)
  /\ WF_vars(ReaderTakes) /\ WF_vars(ReaderEnds)
  /\ WF_vars(ServerHandles)
  /\ WF_vars(SetupStarts) /\ WF_vars(Setup)

FairSpec == Spec /\ Fairness

-----------------------------------------------------------------------------
(* The FIFO never has to tell two replies apart: a command keeps the mutex    *)
(* until it is answered, so at most one oneshot is ever pending, however many *)
(* commands the webview has issued (mod.rs 35-47, client.rs 218-232).         *)
OneReplyAwaited ==
  /\ \A c \in Calls : pc[c] = "waiting" => ipc = c
  /\ Len(pending) <= 1

(* As long as no fire-and-forget message has failed, a reply reaches the call *)
(* it answers: broadcasts, lost connections and reconnections never shift the *)
(* FIFO (client.rs 47-49, 73-195; server.rs 1027-1030).                       *)
OwnReply == ~stray => \A c \in Calls : reply[c] \in {Nobody, c}

(* While the connection lasts, whoever waits for a reply gets one             *)
(* (server.rs 1568-1625).                                                     *)
RequestsReturn ==
  \A c \in Calls : pc[c] = "waiting" ~> (pc[c] # "waiting" \/ ~link)

(* util.rs 325-331: stop_server sends Shutdown, then kills the child process  *)
(* and what is left of it; so the first step has to come to an end.           *)
StopReturns ==
  \A c \in Calls : (op[c] = "shutdown" /\ pc[c] = "waiting") ~> pc[c] # "waiting"

(***************************************************************************)
(* Theorems.  Replies carry no identifier, yet they reach the calls they   *)
(* answer: the mutex, the channel, the FIFO and the socket hold at most    *)
(* one message that awaits a reply.                                        *)
(***************************************************************************)
(* The mutex is held from before a message is sent until its answer.         *)
Held ==
  \A c \in Calls :
    /\ pc[c] \in {"sending", "waiting"} => ipc = c
    /\ pc[c] = "waiting" => op[c] # "fire"

Awaits(c) == pc[c] = "waiting" /\ reply[c] = Nobody

(* At most one queued message awaits a reply.                                *)
Queued ==
  /\ \A c \in Calls : pc[c] \in {"new", "sending"} => reply[c] = Nobody
  /\ \A i \in 1..Len(chan) :
       /\ pc[chan[i]] \notin {"new", "sending"}
       /\ op[chan[i]] # "fire" => Awaits(chan[i])
  /\ \A i, j \in 1..Len(chan) :
       op[chan[i]] # "fire" /\ op[chan[j]] # "fire" => i = j

(* When a oneshot is pending, nothing queued awaits a reply too.             *)
Awaited ==
  /\ Len(pending) <= 1
  /\ Len(pending) = 1 =>
       /\ Awaits(pending[1])
       /\ \A i \in 1..Len(chan) : op[chan[i]] = "fire"

(* A reader task that has ended has read everything from a socket that was    *)
(* closed.                                                                   *)
Sockets ==
  /\ ~link => up = <<>>
  /\ ~reader => ~link /\ down = <<>>
  /\ \A i \in 1..Len(up) : pc[up[i]] \notin {"new", "sending"}

IsPending(c) == Len(pending) = 1 /\ pending[1] = c

(* In the socket, either way, is at most one request or reply, and it is the  *)
(* pending call's.                                                           *)
OnTheWay ==
  /\ \A i \in 1..Len(up) : op[up[i]] # "fire" => IsPending(up[i])
  /\ \A i \in 1..Len(down) : down[i] # Event => IsPending(down[i].to)
  /\ \A i, j \in 1..Len(up) : op[up[i]] # "fire" /\ op[up[j]] # "fire" => i = j
  /\ \A i, j \in 1..Len(down) : down[i] # Event /\ down[j] # Event => i = j
  /\ \A i \in 1..Len(up), j \in 1..Len(down) : op[up[i]] # "fire" => down[j] = Event

Frames == ~stray => OnTheWay

IInv == TypeOK /\ Held /\ Queued /\ Awaited /\ Sockets /\ Frames /\ OwnReply

-----------------------------------------------------------------------------
(* What the frames of the socket are.                                        *)
LEMMA FrameKinds ==
  /\ \A c \in Calls : Reply(c) # Event /\ Reply(c).to = c
  /\ \A m \in Frame : m # Event => m.to \in Calls
  /\ Event \in Frame /\ \A c \in Calls : Reply(c) \in Frame
<1>1. ASSUME NEW c \in Calls PROVE Reply(c) # Event /\ Reply(c).to = c
  <2>1. Reply(c).kind = "reply" /\ Event.kind = "event"
    BY DEF Reply, Event
  <2>. QED
    BY <2>1 DEF Reply
<1>. QED
  BY <1>1 DEF Frame

LEMMA NoCalls == <<>> \in Seq(Calls) /\ <<>> \in Seq(Frame) /\ Len(<<>>) = 0
  OBVIOUS

(* Taking from the front of a queue, and adding to its end.                  *)
LEMMA Taken ==
  ASSUME NEW S, NEW s \in Seq(S), s # <<>>
  PROVE  /\ s[1] \in S /\ Head(s) = s[1] /\ Tail(s) \in Seq(S)
         /\ Len(s) \in Nat /\ Len(s) >= 1 /\ Len(Tail(s)) = Len(s) - 1
         /\ \A i \in 1..Len(Tail(s)) : i + 1 \in 1..Len(s) /\ Tail(s)[i] = s[i + 1]
  OBVIOUS

LEMMA Added ==
  ASSUME NEW S, NEW s \in Seq(S), NEW e \in S
  PROVE  /\ Append(s, e) \in Seq(S)
         /\ Len(s) \in Nat /\ Len(Append(s, e)) = Len(s) + 1
         /\ Append(s, e)[Len(s) + 1] = e
         /\ \A i \in 1..Len(s) : Append(s, e)[i] = s[i]
  OBVIOUS

LEMMA NoneOrOne == \A n \in Nat : n <= 1 /\ n # 1 => n = 0
  OBVIOUS

LEMMA TypeStep ==
  ASSUME TypeOK, [Next]_vars
  PROVE  TypeOK'
<1>. USE ChannelAssumption, BoundsAssumption
         DEF callVars, taskVars, socketVars, setupVars
<1>1. ASSUME NEW c \in Calls, Acquire(c) PROVE TypeOK'
  BY <1>1 DEF Acquire, TypeOK, Kinds
<1>2. ASSUME NEW c \in Calls, AcquireToStop(c) PROVE TypeOK'
  BY <1>2 DEF AcquireToStop, TypeOK, Kinds
<1>3. ASSUME NEW c \in Calls, Send(c) PROVE TypeOK'
  <2>1. Append(chan, c) \in Seq(Calls) /\ Len(Append(chan, c)) = Len(chan) + 1 /\ Len(chan) \in Nat
    BY DEF TypeOK
  <2>2. pc' \in [Calls -> {"new", "sending", "waiting", "clearing", "done", "failed"}]
    BY <1>3 DEF Send, Finish, TypeOK
  <2>3. ipc' \in Calls \cup {Nobody}
    BY <1>3 DEF Send, Finish, TypeOK
  <2>. QED
    BY <1>3, <2>1, <2>2, <2>3 DEF Send, TypeOK
<1>4. ASSUME NEW c \in Calls, SendFails(c) PROVE TypeOK'
  BY <1>4 DEF SendFails, Finish, TypeOK
<1>5. ASSUME NEW c \in Calls, Return(c) PROVE TypeOK'
  BY <1>5 DEF Return, Finish, TypeOK
<1>6. ASSUME NEW c \in Calls, ReplyDropped(c) PROVE TypeOK'
  BY <1>6 DEF ReplyDropped, Finish, TypeOK
<1>20. ASSUME NEW c \in Calls, ClearClient(c) PROVE TypeOK'
  BY <1>20 DEF ClearClient, TypeOK
<1>7. CASE WriterRuns
  <2>1. Head(chan) \in Calls /\ Tail(chan) \in Seq(Calls) /\ Len(Tail(chan)) <= ChanCap
    BY <1>7 DEF WriterRuns, TypeOK
  <2>2. pending' \in Seq(Calls) /\ up' \in Seq(Calls)
    BY <1>7, <2>1 DEF WriterRuns, TypeOK
  <2>. QED
    BY <1>7, <2>1, <2>2 DEF WriterRuns, TypeOK
<1>8. CASE WriterEnds
  <2>1. chan # <<>> => Head(chan) \in Calls
    BY DEF TypeOK
  <2>2. pending' \in {<<>>, pending} \/ (chan # <<>> /\ pending' = Append(pending, Head(chan)))
    BY <1>8 DEF WriterEnds
  <2>4. pending' \in Seq(Calls)
    <3>1. pending \in Seq(Calls)
      BY DEF TypeOK
    <3>2. chan # <<>> => Append(pending, Head(chan)) \in Seq(Calls)
      BY <2>1, <3>1, Added
    <3>. QED
      BY <2>2, <3>1, <3>2, NoCalls
  <2>3. chan' \in Seq(Calls) /\ Len(chan') <= ChanCap
    BY <1>8, NoCalls DEF WriterEnds
  <2>. QED
    BY <1>8, <2>3, <2>4 DEF WriterEnds, TypeOK
<1>9. CASE ReaderTakes
  <2>1. Head(down) \in Frame /\ Tail(down) \in Seq(Frame)
    BY <1>9 DEF ReaderTakes, TypeOK
  <2>2. Head(down) # Event => Head(down).to \in Calls
    BY <2>1, FrameKinds
  <2>3. pending' \in Seq(Calls)
    <3>1. pending' = pending \/ (pending # <<>> /\ pending' = Tail(pending))
      BY <1>9 DEF ReaderTakes
    <3>2. pending \in Seq(Calls)
      BY DEF TypeOK
    <3>3. pending # <<>> => Tail(pending) \in Seq(Calls)
      BY <3>2, Taken
    <3>. QED
      BY <3>1, <3>2, <3>3
  <2>4. reply' \in [Calls -> Calls \cup {Nobody}]
    BY <1>9, <2>2 DEF ReaderTakes, TypeOK
  <2>. QED
    BY <1>9, <2>1, <2>3, <2>4 DEF ReaderTakes, TypeOK
<1>10. CASE ReaderEnds
  BY <1>10, NoCalls DEF ReaderEnds, TypeOK
<1>11. CASE ServerHandles
  <2>1. Head(up) \in Calls /\ Tail(up) \in Seq(Calls)
    BY <1>11 DEF ServerHandles, TypeOK
  <2>2. Append(down, Reply(Head(up))) \in Seq(Frame)
    BY <2>1, FrameKinds DEF TypeOK
  <2>3. /\ up' = Tail(up) \/ up' = <<>>
        /\ down' = down \/ down' = Append(down, Reply(Head(up)))
        /\ link' \in BOOLEAN /\ stray' \in BOOLEAN
        /\ UNCHANGED <<ipc, client, callVars, chan, taskVars, setupVars, events>>
    BY <1>11 DEF ServerHandles, TypeOK
  <2>. QED
    BY <2>1, <2>2, <2>3, NoCalls DEF TypeOK
<1>12. CASE ServerBroadcasts
  BY <1>12, FrameKinds DEF ServerBroadcasts, TypeOK
<1>13. CASE ServerGone
  BY <1>13, NoCalls DEF ServerGone, TypeOK
<1>14. CASE SetupStarts
  BY <1>14 DEF SetupStarts, TypeOK
<1>15. CASE SetupDropsClient
  BY <1>15 DEF SetupDropsClient, TypeOK
<1>16. CASE SetupConnects
  BY <1>16, NoCalls DEF SetupConnects, TypeOK
<1>17. CASE SetupGivesUp
  BY <1>17 DEF SetupGivesUp, TypeOK
<1>18. CASE SetupInstalls
  BY <1>18 DEF SetupInstalls, TypeOK
<1>19. CASE UNCHANGED vars
  BY <1>19 DEF vars, TypeOK
<1>. QED
  BY <1>1, <1>2, <1>3, <1>4, <1>5, <1>6, <1>7, <1>8, <1>9, <1>10, <1>11, <1>12, <1>13,
     <1>14, <1>15, <1>16, <1>17, <1>18, <1>19, <1>20
     DEF Next, CallStep, ClientTasks, Setup

(* The mutex is taken with nobody on the way, and given back by who holds it. *)
LEMMA HeldStep ==
  ASSUME TypeOK, Held, [Next]_vars
  PROVE  Held'
<1>. USE NobodyAssumption DEF callVars, taskVars, socketVars, setupVars
<1>1. ASSUME NEW c \in Calls, Acquire(c) PROVE Held'
  BY <1>1 DEF Acquire, TypeOK, Held
<1>2. ASSUME NEW c \in Calls, AcquireToStop(c) PROVE Held'
  BY <1>2 DEF AcquireToStop, TypeOK, Held
<1>3. ASSUME NEW c \in Calls, Send(c) PROVE Held'
  BY <1>3 DEF Send, Finish, TypeOK, Held
<1>4. ASSUME NEW c \in Calls, SendFails(c) PROVE Held'
  BY <1>4 DEF SendFails, Finish, TypeOK, Held
<1>5. ASSUME NEW c \in Calls, Return(c) PROVE Held'
  BY <1>5 DEF Return, Finish, TypeOK, Held
<1>6. ASSUME NEW c \in Calls, ReplyDropped(c) PROVE Held'
  BY <1>6 DEF ReplyDropped, Finish, TypeOK, Held
<1>8. ASSUME NEW c \in Calls, ClearClient(c) PROVE Held'
  BY <1>8 DEF ClearClient, TypeOK, Held
<1>7. ASSUME UNCHANGED <<ipc, pc, op>> PROVE Held'
  BY <1>7 DEF Held
<1>. QED
  BY <1>1, <1>2, <1>3, <1>4, <1>5, <1>6, <1>7, <1>8
     DEF Next, CallStep, ClientTasks, Setup, vars, WriterRuns, WriterEnds, ReaderTakes,
         ReaderEnds, ServerHandles, ServerBroadcasts, ServerGone, SetupStarts,
         SetupDropsClient, SetupConnects, SetupGivesUp, SetupInstalls

(* What is queued, and the pending call, are past sending; the pending call   *)
(* waits with the mutex held, so nothing else that awaits a reply can be      *)
(* queued beside it.                                                         *)
LEMMA QueueStep ==
  ASSUME TypeOK, Held, Queued, Awaited, [Next]_vars
  PROVE  Queued' /\ Awaited'
<1>. USE NobodyAssumption DEF callVars, taskVars, socketVars, setupVars
<1>1. /\ chan \in Seq(Calls) /\ pending \in Seq(Calls)
      /\ Len(chan) \in Nat /\ Len(pending) \in Nat
      /\ \A i \in 1..Len(chan) : chan[i] \in Calls
      /\ Len(pending) = 1 => pending[1] \in Calls
  BY DEF TypeOK
<1>2. /\ pc \in [Calls -> {"new", "sending", "waiting", "clearing", "done", "failed"}]
      /\ op \in [Calls -> Kinds \cup {"unknown"}]
      /\ reply \in [Calls -> Calls \cup {Nobody}]
  BY DEF TypeOK
<1>3. ASSUME NEW c \in Calls, UNCHANGED <<chan, pending, reply>>,
             \A i \in 1..Len(chan) : chan[i] # c, Len(pending) = 1 => pending[1] # c,
             \A d \in Calls \ {c} : pc'[d] = pc[d] /\ op'[d] = op[d],
             pc'[c] \in {"new", "sending"} => reply[c] = Nobody
      PROVE  Queued' /\ Awaited'
  <2>1. \A i \in 1..Len(chan) :
          pc'[chan[i]] = pc[chan[i]] /\ op'[chan[i]] = op[chan[i]] /\ chan'[i] = chan[i]
    BY <1>1, <1>3
  <2>2. \A d \in Calls : pc'[d] \in {"new", "sending"} => reply'[d] = Nobody
    BY <1>3 DEF Queued
  <2>3. Queued'
    BY <1>3, <2>1, <2>2 DEF Queued, Awaits
  <2>4. Len(pending) = 1 => pc'[pending[1]] = pc[pending[1]]
    BY <1>1, <1>3
  <2>5. Awaited'
    BY <1>3, <2>1, <2>4 DEF Awaited, Awaits
  <2>. QED
    BY <2>3, <2>5
<1>4. ASSUME NEW c \in Calls, pc[c] \in {"new", "sending"}
      PROVE  /\ \A i \in 1..Len(chan) : chan[i] # c
             /\ Len(pending) = 1 => pending[1] # c
             /\ reply[c] = Nobody
  BY <1>4 DEF Queued, Awaited, Awaits
<1>5. ASSUME NEW c \in Calls, Acquire(c) PROVE Queued' /\ Awaited'
  BY <1>2, <1>3, <1>4, <1>5 DEF Acquire
<1>6. ASSUME NEW c \in Calls, AcquireToStop(c) PROVE Queued' /\ Awaited'
  BY <1>2, <1>3, <1>4, <1>6 DEF AcquireToStop
<1>7. ASSUME NEW c \in Calls, SendFails(c) PROVE Queued' /\ Awaited'
  BY <1>2, <1>3, <1>4, <1>7 DEF SendFails, Finish
<1>8. ASSUME NEW c \in Calls, Return(c) PROVE Queued' /\ Awaited'
  <2>1. pc[c] = "waiting" /\ op[c] # "fire" /\ ~Awaits(c)
    BY <1>8 DEF Return, Held, Awaits
  <2>2. (\A i \in 1..Len(chan) : chan[i] # c) /\ (Len(pending) = 1 => pending[1] # c)
    BY <2>1 DEF Queued, Awaited
  <2>. QED
    BY <1>2, <1>3, <1>8, <2>2 DEF Return, Finish
<1>9. ASSUME NEW c \in Calls, ReplyDropped(c) PROVE Queued' /\ Awaited'
  <2>1. (\A i \in 1..Len(chan) : chan[i] # c) /\ (Len(pending) = 1 => pending[1] # c)
    BY <1>9 DEF ReplyDropped, Contains
  <2>. QED
    BY <1>2, <1>3, <1>9, <2>1 DEF ReplyDropped, Finish
<1>17. ASSUME NEW c \in Calls, ClearClient(c) PROVE Queued' /\ Awaited'
  <2>1. (\A i \in 1..Len(chan) : chan[i] # c \/ op[c] = "fire") /\ (Len(pending) = 1 => pending[1] # c)
    BY <1>17 DEF ClearClient, Queued, Awaited, Awaits
  <2>2. /\ UNCHANGED <<op, reply, chan, pending>> /\ pc'[c] = "done"
        /\ \A d \in Calls \ {c} : pc'[d] = pc[d]
    BY <1>2, <1>17 DEF ClearClient
  <2>3. \A d \in Calls : pc'[d] \in {"new", "sending"} => pc[d] = pc'[d]
    BY <2>2
  <2>4. Queued'
    BY <1>1, <2>1, <2>2, <2>3 DEF Queued, Awaits
  <2>5. Len(pending) = 1 => pc'[pending[1]] = pc[pending[1]]
    BY <1>1, <2>1, <2>2
  <2>. QED
    BY <2>2, <2>4, <2>5 DEF Awaited, Awaits
<1>10. ASSUME NEW c \in Calls, Send(c) PROVE Queued' /\ Awaited'
  <2>1. /\ chan' = Append(chan, c) /\ UNCHANGED <<op, reply, pending>>
        /\ pc' = [pc EXCEPT ![c] = IF op[c] = "fire" THEN "done" ELSE "waiting"]
        /\ pc[c] = "sending" /\ ipc = c
    BY <1>10 DEF Send, Finish, Held
  <2>2. /\ \A i \in 1..Len(chan) : chan[i] # c
        /\ Len(pending) = 1 => pending[1] # c
        /\ reply[c] = Nobody
    BY <1>4, <2>1
  <2>3. /\ Len(chan') = Len(chan) + 1 /\ chan'[Len(chan) + 1] = c
        /\ \A i \in 1..Len(chan) : chan'[i] = chan[i]
    BY <1>1, <2>1, Added
  <2>4. /\ Len(pending) # 1
        /\ \A i \in 1..Len(chan) : op[chan[i]] = "fire"
    BY <1>1, <2>1, <2>2 DEF Held, Queued, Awaited, Awaits
  <2>5. \A i \in 1..Len(chan') :
          \/ i = Len(chan) + 1 /\ chan'[i] = c
          \/ i \in 1..Len(chan) /\ chan'[i] = chan[i] /\ chan[i] \in Calls /\ chan[i] # c
    BY <1>1, <2>2, <2>3
  <2>6. pc'[c] \notin {"new", "sending"} /\ (op[c] # "fire" => pc'[c] = "waiting")
    BY <1>2, <2>1
  <2>7. \A d \in Calls \ {c} : pc'[d] = pc[d]
    BY <1>2, <2>1
  <2>8. Queued'
    <3>1. \A d \in Calls : pc'[d] \in {"new", "sending"} => reply'[d] = Nobody
      BY <2>1, <2>6, <2>7 DEF Queued
    <3>2. ASSUME NEW i \in 1..Len(chan')
          PROVE  /\ pc'[chan'[i]] \notin {"new", "sending"}
                 /\ op'[chan'[i]] # "fire" => pc'[chan'[i]] = "waiting" /\ reply'[chan'[i]] = Nobody
      <4>1. CASE chan'[i] = c
        BY <2>1, <2>2, <2>6, <4>1
      <4>2. CASE i \in 1..Len(chan) /\ chan'[i] = chan[i] /\ chan[i] \in Calls /\ chan[i] # c
        BY <2>1, <2>4, <2>7, <4>2 DEF Queued
      <4>. QED
        BY <2>5, <4>1, <4>2
    <3>3. \A i, j \in 1..Len(chan') : op'[chan'[i]] # "fire" /\ op'[chan'[j]] # "fire" => i = j
      BY <2>1, <2>4, <2>5
    <3>. QED
      BY <3>1, <3>2, <3>3 DEF Queued, Awaits
  <2>9. Awaited'
    BY <2>1, <2>4 DEF Awaited
  <2>. QED
    BY <2>8, <2>9
<1>11. CASE WriterRuns
  <2>1. /\ chan # <<>> /\ chan' = Tail(chan) /\ UNCHANGED <<pc, op, reply>>
        /\ pending' = IF op[Head(chan)] = "fire" THEN pending ELSE Append(pending, Head(chan))
    BY <1>11 DEF WriterRuns
  <2>2. /\ Head(chan) = chan[1] /\ 1 \in 1..Len(chan) /\ Len(chan') = Len(chan) - 1
        /\ \A i \in 1..Len(chan') : i + 1 \in 1..Len(chan) /\ chan'[i] = chan[i + 1]
    BY <1>1, <2>1, Taken
  <2>3. Queued'
    BY <1>1, <2>1, <2>2 DEF Queued, Awaits
  <2>4. CASE op[chan[1]] = "fire"
    BY <2>1, <2>2, <2>3, <2>4 DEF Awaited, Awaits
  <2>5. CASE op[chan[1]] # "fire"
    <3>1. Len(pending) = 0 /\ Awaits(chan[1]) /\ chan[1] \in Calls
      <4>1. Len(pending) # 1
        BY <2>2, <2>5 DEF Awaited
      <4>2. Awaits(chan[1])
        BY <2>2, <2>5 DEF Queued
      <4>3. Len(pending) \in Nat /\ Len(pending) <= 1
        BY <1>1 DEF Awaited
      <4>4. Len(pending) = 0
        BY <4>1, <4>3, NoneOrOne
      <4>. QED
        BY <1>1, <2>2, <2>5, <4>2, <4>4
    <3>2. Len(pending') = 1 /\ pending'[1] = chan[1]
      BY <1>1, <2>1, <2>2, <2>5, <3>1, Added
    <3>3. \A i \in 1..Len(chan') : op[chan'[i]] = "fire"
      <4>1. ASSUME NEW i \in 1..Len(chan') PROVE op[chan'[i]] = "fire"
        <5>1. i + 1 \in 1..Len(chan) /\ chan'[i] = chan[i + 1] /\ i + 1 # 1
          BY <2>2
        <5>. QED
          BY <5>1, <2>2, <2>5 DEF Queued
      <4>. QED
        BY <4>1
    <3>. QED
      BY <2>1, <2>3, <3>1, <3>2, <3>3 DEF Awaited, Awaits
  <2>. QED
    BY <2>4, <2>5
<1>12. CASE WriterEnds
  <2>1. /\ chan' = <<>> /\ UNCHANGED <<pc, op, reply>>
        /\ \/ pending' \in {<<>>, pending}
           \/ chan # <<>> /\ op[Head(chan)] # "fire" /\ pending' = Append(pending, Head(chan))
    BY <1>12 DEF WriterEnds
  <2>2. Len(chan') = 0
    BY <2>1
  <2>3. Queued'
    BY <2>1, <2>2 DEF Queued
  <2>4. CASE pending' = <<>>
    BY <2>2, <2>3, <2>4 DEF Awaited
  <2>5. CASE pending' = pending
    BY <2>1, <2>2, <2>3, <2>5 DEF Awaited, Awaits
  <2>6. CASE chan # <<>> /\ op[Head(chan)] # "fire" /\ pending' = Append(pending, Head(chan))
    <3>1. Head(chan) = chan[1] /\ 1 \in 1..Len(chan)
      BY <1>1, <2>6, Taken
    <3>2. Len(pending) = 0 /\ Awaits(chan[1]) /\ chan[1] \in Calls
      <4>1. Len(pending) # 1
        BY <2>6, <3>1 DEF Awaited
      <4>2. Awaits(chan[1])
        BY <2>6, <3>1 DEF Queued
      <4>3. Len(pending) \in Nat /\ Len(pending) <= 1
        BY <1>1 DEF Awaited
      <4>4. Len(pending) = 0
        BY <4>1, <4>3, NoneOrOne
      <4>. QED
        BY <1>1, <2>6, <3>1, <4>2, <4>4
    <3>3. Len(pending') = 1 /\ pending'[1] = chan[1]
      BY <1>1, <2>6, <3>1, <3>2, Added
    <3>. QED
      BY <2>1, <2>2, <2>3, <3>2, <3>3 DEF Awaited, Awaits
  <2>. QED
    BY <2>1, <2>4, <2>5, <2>6
<1>13. CASE ReaderTakes
  <2>1. UNCHANGED <<chan, pc, op>>
    BY <1>13 DEF ReaderTakes
  <2>2. CASE UNCHANGED <<reply, pending>>
    BY <2>1, <2>2 DEF Queued, Awaited, Awaits
  <2>3. CASE pending # <<>> /\ pending' = Tail(pending)
              /\ reply' = [reply EXCEPT ![Head(pending)] = Head(down).to]
    <3>1. Len(pending) = 1 /\ Head(pending) = pending[1] /\ Len(pending') = 0
      <4>1. Head(pending) = pending[1] /\ Len(pending) >= 1 /\ Len(pending') = Len(pending) - 1
        BY <1>1, <2>3, Taken
      <4>. QED
        BY <1>1, <4>1 DEF Awaited
    <3>2. Awaits(pending[1]) /\ \A i \in 1..Len(chan) : op[chan[i]] = "fire"
      BY <3>1 DEF Awaited
    <3>3. \A d \in Calls : d # pending[1] => reply'[d] = reply[d]
      BY <1>2, <2>3, <3>1
    <3>4. Queued'
      BY <1>1, <2>1, <3>2, <3>3 DEF Queued, Awaits
    <3>. QED
      BY <3>1, <3>4 DEF Awaited
  <2>. QED
    BY <1>13, <2>2, <2>3 DEF ReaderTakes
<1>14. CASE ReaderEnds
  <2>1. UNCHANGED <<chan, pc, op, reply>> /\ pending' \in {pending, <<>>}
    BY <1>14 DEF ReaderEnds
  <2>2. CASE pending' = pending
    BY <2>1, <2>2 DEF Queued, Awaited, Awaits
  <2>3. CASE pending' = <<>>
    BY <2>1, <2>3 DEF Queued, Awaited, Awaits
  <2>. QED
    BY <2>1, <2>2, <2>3
<1>15. CASE SetupConnects
  <2>1. Len(chan') = 0 /\ Len(pending') = 0 /\ UNCHANGED <<pc, op, reply>>
    BY <1>15 DEF SetupConnects
  <2>. QED
    BY <2>1 DEF Queued, Awaited
<1>16. ASSUME UNCHANGED <<pc, op, reply, chan, pending>> PROVE Queued' /\ Awaited'
  BY <1>16 DEF Queued, Awaited, Awaits
<1>. QED
  BY <1>5, <1>6, <1>7, <1>8, <1>9, <1>10, <1>11, <1>12, <1>13, <1>14, <1>15, <1>16,
     <1>17
     DEF Next, CallStep, ClientTasks, Setup, vars, ServerHandles, ServerBroadcasts,
         ServerGone, SetupStarts, SetupDropsClient, SetupGivesUp, SetupInstalls

(* Every call in the socket has been sent, and a closed socket holds no       *)
(* request.                                                                  *)
LEMMA SocketStep ==
  ASSUME TypeOK, Queued, Sockets, [Next]_vars
  PROVE  Sockets'
<1>. USE DEF callVars, taskVars, socketVars, setupVars
<1>1. /\ chan \in Seq(Calls) /\ up \in Seq(Calls)
      /\ Len(chan) \in Nat /\ Len(up) \in Nat
      /\ \A i \in 1..Len(up) : up[i] \in Calls
      /\ pc \in [Calls -> {"new", "sending", "waiting", "clearing", "done", "failed"}]
  BY DEF TypeOK
<1>2. ASSUME UNCHANGED <<link, reader, up, down>>,
             \A c \in Calls : pc[c] \notin {"new", "sending"} => pc'[c] \notin {"new", "sending"}
      PROVE  Sockets'
  BY <1>1, <1>2 DEF Sockets
<1>3. ASSUME NEW c \in Calls, Acquire(c) \/ AcquireToStop(c) \/ CallStep(c) PROVE Sockets'
  BY <1>1, <1>2, <1>3 DEF Acquire, AcquireToStop, CallStep, Send, SendFails, Return,
                          ReplyDropped, ClearClient, Finish
<1>4. CASE WriterRuns
  <2>1. /\ link /\ chan # <<>> /\ up' = Append(up, Head(chan))
        /\ UNCHANGED <<pc, link, reader, down>>
    BY <1>4 DEF WriterRuns
  <2>2. Head(chan) = chan[1] /\ 1 \in 1..Len(chan) /\ chan[1] \in Calls
    BY <1>1, <2>1, Taken
  <2>3. pc[chan[1]] \notin {"new", "sending"}
    BY <2>2 DEF Queued
  <2>4. /\ Len(up') = Len(up) + 1 /\ up'[Len(up) + 1] = chan[1]
        /\ \A i \in 1..Len(up) : up'[i] = up[i]
    BY <1>1, <2>1, <2>2, Added
  <2>5. \A i \in 1..Len(up') : i \in 1..Len(up) \/ i = Len(up) + 1
    BY <1>1, <2>4
  <2>. QED
    BY <2>1, <2>3, <2>4, <2>5 DEF Sockets
<1>5. CASE ServerHandles
  <2>1. /\ up # <<>> /\ link /\ UNCHANGED <<pc, reader>>
        /\ \/ up' = Tail(up) /\ link' = link
           \/ up' = <<>>
    BY <1>5 DEF ServerHandles
  <2>2. /\ \A i \in 1..Len(Tail(up)) : i + 1 \in 1..Len(up) /\ Tail(up)[i] = up[i + 1]
        /\ reader
    BY <1>1, <2>1, Taken DEF Sockets
  <2>3. CASE up' = <<>>
    BY <2>1, <2>2, <2>3 DEF Sockets
  <2>4. CASE up' = Tail(up) /\ link' = link
    BY <2>1, <2>2, <2>4 DEF Sockets
  <2>. QED
    BY <2>1, <2>3, <2>4
<1>6. CASE ServerGone \/ SetupConnects
  BY <1>6 DEF ServerGone, SetupConnects, Sockets
<1>7. CASE ServerBroadcasts \/ ReaderTakes \/ ReaderEnds
  BY <1>7 DEF ServerBroadcasts, ReaderTakes, ReaderEnds, Sockets
<1>8. ASSUME UNCHANGED <<pc, link, reader, up, down>> PROVE Sockets'
  BY <1>8 DEF Sockets
<1>. QED
  BY <1>3, <1>4, <1>5, <1>6, <1>7, <1>8
     DEF Next, ClientTasks, Setup, vars, WriterEnds, SetupStarts, SetupDropsClient,
         SetupGivesUp, SetupInstalls

(* A request enters the socket when nothing else is awaited; it leaves when   *)
(* its reply enters the other way, and the oneshot leaves with that reply.    *)
LEMMA FrameStep ==
  ASSUME TypeOK, Held, Queued, Awaited, Sockets, OnTheWay, [Next]_vars, ~stray'
  PROVE  OnTheWay'
<1>. USE DEF callVars, taskVars, socketVars, setupVars
<1>1. /\ chan \in Seq(Calls) /\ pending \in Seq(Calls) /\ up \in Seq(Calls) /\ down \in Seq(Frame)
      /\ Len(chan) \in Nat /\ Len(pending) \in Nat /\ Len(up) \in Nat /\ Len(down) \in Nat
      /\ Len(pending) <= 1
      /\ \A i \in 1..Len(up) : up[i] \in Calls
      /\ op \in [Calls -> Kinds \cup {"unknown"}]
  BY DEF TypeOK, Awaited
<1>2. ASSUME NEW c \in Calls, pc[c] \in {"new", "sending"} PROVE \A i \in 1..Len(up) : up[i] # c
  BY <1>2 DEF Sockets
<1>3. ASSUME NEW c \in Calls, Acquire(c) \/ AcquireToStop(c) PROVE OnTheWay'
  <2>1. UNCHANGED <<up, down, pending>> /\ \A d \in Calls \ {c} : op'[d] = op[d]
    BY <1>1, <1>3 DEF Acquire, AcquireToStop
  <2>2. \A i \in 1..Len(up) : op'[up[i]] = op[up[i]]
    BY <1>1, <1>2, <1>3, <2>1 DEF Acquire, AcquireToStop
  <2>. QED
    BY <2>1, <2>2 DEF OnTheWay, IsPending
<1>4. ASSUME NEW c \in Calls, CallStep(c) PROVE OnTheWay'
  BY <1>4 DEF CallStep, Send, SendFails, Return, ReplyDropped, ClearClient, Finish, OnTheWay,
              IsPending
<1>5. ASSUME Len(pending) = 0
      PROVE  /\ \A i \in 1..Len(up) : op[up[i]] = "fire"
             /\ \A i \in 1..Len(down) : down[i] = Event
  BY <1>5 DEF OnTheWay, IsPending
<1>6. ASSUME chan # <<>>, op[Head(chan)] # "fire"
      PROVE  Len(pending) = 0 /\ chan[1] = Head(chan) /\ chan[1] \in Calls
  <2>1. Head(chan) = chan[1] /\ 1 \in 1..Len(chan) /\ chan[1] \in Calls
    BY <1>1, <1>6, Taken
  <2>2. Len(pending) # 1
    BY <1>6, <2>1 DEF Awaited
  <2>3. Len(pending) \in Nat /\ Len(pending) <= 1
    BY <1>1
  <2>4. Len(pending) = 0
    BY <2>2, <2>3, NoneOrOne
  <2>. QED
    BY <2>1, <2>4
<1>7. CASE WriterRuns
  <2>1. /\ chan # <<>> /\ up' = Append(up, Head(chan)) /\ UNCHANGED <<op, down>>
        /\ pending' = IF op[Head(chan)] = "fire" THEN pending ELSE Append(pending, Head(chan))
    BY <1>7 DEF WriterRuns
  <2>2. Head(chan) = chan[1] /\ chan[1] \in Calls
    BY <1>1, <2>1, Taken
  <2>3. /\ Len(up') = Len(up) + 1 /\ up'[Len(up) + 1] = chan[1]
        /\ \A i \in 1..Len(up) : up'[i] = up[i]
    BY <1>1, <2>1, <2>2, Added
  <2>4. \A i \in 1..Len(up') :
          \/ i \in 1..Len(up) /\ up'[i] = up[i]
          \/ i = Len(up) + 1 /\ up'[i] = chan[1]
    BY <1>1, <2>3
  <2>5. CASE op[chan[1]] = "fire"
    BY <2>1, <2>2, <2>4, <2>5 DEF OnTheWay, IsPending
  <2>6. CASE op[chan[1]] # "fire"
    <3>1. Len(pending) = 0
      BY <1>6, <2>1, <2>2, <2>6
    <3>2. Len(pending') = 1 /\ pending'[1] = chan[1]
      BY <1>1, <2>1, <2>2, <2>6, <3>1, Added
    <3>3. /\ \A i \in 1..Len(up) : op[up[i]] = "fire"
          /\ \A i \in 1..Len(down) : down[i] = Event
      BY <1>5, <3>1
    <3>. QED
      BY <2>1, <2>4, <3>2, <3>3 DEF OnTheWay, IsPending
  <2>. QED
    BY <2>5, <2>6
<1>8. CASE WriterEnds
  <2>1. UNCHANGED <<op, up, down>>
    BY <1>8 DEF WriterEnds
  <2>2. CASE UNCHANGED pending
    BY <2>1, <2>2 DEF OnTheWay, IsPending
  <2>3. CASE ~reader
    BY <2>1, <2>3 DEF OnTheWay, Sockets
  <2>4. CASE chan # <<>> /\ op[Head(chan)] # "fire"
    BY <1>5, <1>6, <2>1, <2>4 DEF OnTheWay
  <2>. QED
    BY <1>8, <2>2, <2>3, <2>4 DEF WriterEnds
<1>9. CASE ReaderTakes
  <2>1. down # <<>> /\ down' = Tail(down) /\ UNCHANGED <<op, up>>
    BY <1>9 DEF ReaderTakes
  <2>2. /\ Head(down) = down[1] /\ 1 \in 1..Len(down) /\ Len(down') = Len(down) - 1
        /\ \A i \in 1..Len(down') : i + 1 \in 1..Len(down) /\ down'[i] = down[i + 1]
    BY <1>1, <2>1, Taken
  <2>3. CASE down[1] = Event
    <3>1. UNCHANGED pending
      BY <1>9, <2>2, <2>3 DEF ReaderTakes
    <3>. QED
      BY <2>1, <2>2, <3>1 DEF OnTheWay, IsPending
  <2>4. CASE down[1] # Event
    <3>1. \A i \in 1..Len(down') : down'[i] = Event
      <4>1. ASSUME NEW i \in 1..Len(down') PROVE down'[i] = Event
        <5>1. i + 1 \in 1..Len(down) /\ down'[i] = down[i + 1] /\ i + 1 # 1
          BY <2>2
        <5>. QED
          BY <2>2, <2>4, <5>1 DEF OnTheWay
      <4>. QED
        BY <4>1
    <3>2. \A i \in 1..Len(up) : op[up[i]] = "fire"
      BY <2>2, <2>4 DEF OnTheWay
    <3>. QED
      BY <2>1, <3>1, <3>2 DEF OnTheWay
  <2>. QED
    BY <2>3, <2>4
<1>10. CASE ReaderEnds
  BY <1>10 DEF ReaderEnds, Sockets, OnTheWay
<1>11. CASE ServerHandles
  <2>1. up # <<>> /\ UNCHANGED <<op, pending>>
    BY <1>11 DEF ServerHandles
  <2>2. /\ Head(up) = up[1] /\ up[1] \in Calls /\ 1 \in 1..Len(up) /\ Len(Tail(up)) = Len(up) - 1
        /\ \A i \in 1..Len(Tail(up)) : i + 1 \in 1..Len(up) /\ Tail(up)[i] = up[i + 1]
    BY <1>1, <2>1, Taken
  <2>3. CASE op[up[1]] = "request" /\ up' = Tail(up) /\ down' = Append(down, Reply(up[1]))
    <3>1. /\ Len(down') = Len(down) + 1 /\ down'[Len(down) + 1] = Reply(up[1])
          /\ \A i \in 1..Len(down) : down'[i] = down[i]
      BY <1>1, <2>2, <2>3, Added, FrameKinds
    <3>2. \A i \in 1..Len(down') :
            \/ i \in 1..Len(down) /\ down'[i] = down[i]
            \/ i = Len(down) + 1 /\ down'[i] = Reply(up[1])
      BY <1>1, <3>1
    <3>3. IsPending(up[1]) /\ \A i \in 1..Len(down) : down[i] = Event
      BY <2>2, <2>3 DEF OnTheWay
    <3>4. \A i \in 1..Len(up') : op[up'[i]] = "fire"
      <4>1. ASSUME NEW i \in 1..Len(up') PROVE op[up'[i]] = "fire"
        <5>1. i + 1 \in 1..Len(up) /\ up'[i] = up[i + 1] /\ i + 1 # 1
          BY <2>2, <2>3
        <5>. QED
          BY <2>2, <2>3, <5>1 DEF OnTheWay
      <4>. QED
        BY <4>1
    <3>5. Reply(up[1]).to = up[1]
      BY <2>2, FrameKinds
    <3>. QED
      BY <2>1, <3>2, <3>3, <3>4, <3>5 DEF OnTheWay, IsPending
  <2>4. CASE up' = Tail(up) /\ down' = down
    BY <2>1, <2>2, <2>4 DEF OnTheWay, IsPending
  <2>5. CASE up' = <<>> /\ down' = down
    BY <2>1, <2>5 DEF OnTheWay, IsPending
  <2>. QED
    BY <1>11, <2>2, <2>3, <2>4, <2>5 DEF ServerHandles
<1>12. CASE ServerBroadcasts
  <2>1. down' = Append(down, Event) /\ UNCHANGED <<op, up, pending>>
    BY <1>12 DEF ServerBroadcasts
  <2>2. /\ Len(down') = Len(down) + 1 /\ down'[Len(down) + 1] = Event
        /\ \A i \in 1..Len(down) : down'[i] = down[i]
    BY <1>1, <2>1, Added, FrameKinds
  <2>3. \A i \in 1..Len(down') : (i \in 1..Len(down) /\ down'[i] = down[i]) \/ down'[i] = Event
    BY <1>1, <2>2
  <2>. QED
    BY <2>1, <2>3 DEF OnTheWay, IsPending
<1>13. CASE ServerGone
  BY <1>13 DEF ServerGone, OnTheWay, IsPending
<1>14. CASE SetupConnects
  BY <1>14 DEF SetupConnects, OnTheWay
<1>15. ASSUME UNCHANGED <<op, pending, up, down>> PROVE OnTheWay'
  BY <1>15 DEF OnTheWay, IsPending
<1>. QED
  BY <1>3, <1>4, <1>7, <1>8, <1>9, <1>10, <1>11, <1>12, <1>13, <1>14, <1>15
     DEF Next, ClientTasks, Setup, vars, SetupStarts, SetupDropsClient, SetupGivesUp,
         SetupInstalls

(* The reply that is read is the pending call's.                             *)
LEMMA OwnReplyStep ==
  ASSUME TypeOK, OnTheWay, OwnReply, ~stray, [Next]_vars
  PROVE  OwnReply'
<1>. USE DEF callVars, taskVars, socketVars, setupVars
<1>1. CASE ReaderTakes
  <2>1. CASE UNCHANGED reply
    BY <2>1 DEF OwnReply
  <2>2. CASE Head(down) # Event /\ pending # <<>>
    <3>1. /\ down # <<>> /\ down \in Seq(Frame) /\ pending \in Seq(Calls)
          /\ reply' = [reply EXCEPT ![Head(pending)] = Head(down).to]
          /\ reply \in [Calls -> Calls \cup {Nobody}]
      BY <1>1, <2>2 DEF ReaderTakes, TypeOK
    <3>2. /\ Head(down) = down[1] /\ 1 \in 1..Len(down)
          /\ Head(pending) = pending[1]
      BY <2>2, <3>1, Taken
    <3>3. pending[1] = down[1].to
      BY <2>2, <3>2 DEF OnTheWay, IsPending
    <3>. QED
      BY <3>1, <3>2, <3>3 DEF OwnReply
  <2>. QED
    BY <1>1, <2>1, <2>2 DEF ReaderTakes
<1>2. ASSUME UNCHANGED reply PROVE OwnReply'
  BY <1>2 DEF OwnReply
<1>. QED
  BY <1>1, <1>2
     DEF Next, CallStep, ClientTasks, Setup, vars, Acquire, AcquireToStop, Send, SendFails,
         Return, ReplyDropped, ClearClient, WriterRuns, WriterEnds, ReaderEnds, ServerHandles,
         ServerBroadcasts, ServerGone, SetupStarts, SetupDropsClient, SetupConnects,
         SetupGivesUp, SetupInstalls

-----------------------------------------------------------------------------
LEMMA InitIInv == Init => IInv
<1>. SUFFICES ASSUME Init PROVE IInv
  OBVIOUS
<1>1. TypeOK
  <2>1. <<>> \in Seq(Calls) /\ <<>> \in Seq(Frame) /\ Len(<<>>) <= ChanCap
    BY NoCalls, ChannelAssumption
  <2>2. 0 \in 0..MaxEvents /\ 0 \in 0..MaxReconnects
    BY BoundsAssumption
  <2>. QED
    BY <2>1, <2>2 DEF Init, TypeOK
<1>2. Held /\ Queued /\ Awaited /\ Sockets /\ Frames /\ OwnReply
  BY DEF Init, Held, Queued, Awaited, Sockets, Frames, OnTheWay, OwnReply
<1>. QED
  BY <1>1, <1>2 DEF IInv

LEMMA StepIInv == IInv /\ [Next]_vars => IInv'
<1>. SUFFICES ASSUME IInv, [Next]_vars PROVE IInv'
  OBVIOUS
<1>1. TypeOK' /\ Held' /\ Queued' /\ Awaited' /\ Sockets'
  BY TypeStep, HeldStep, QueueStep, SocketStep DEF IInv
<1>2. stray => stray'
  BY DEF Next, CallStep, ClientTasks, Setup, vars, Acquire, AcquireToStop, Send, SendFails,
         Return, ReplyDropped, ClearClient, WriterRuns, WriterEnds, ReaderTakes, ReaderEnds,
         ServerHandles, ServerBroadcasts, ServerGone, SetupStarts, SetupDropsClient,
         SetupConnects, SetupGivesUp, SetupInstalls
<1>3. Frames'
  BY <1>2, FrameStep DEF IInv, Frames
<1>4. OwnReply'
  <2>1. CASE stray
    BY <1>2, <2>1 DEF OwnReply
  <2>2. CASE ~stray
    BY <2>2, OwnReplyStep DEF IInv, Frames
  <2>. QED
    BY <2>1, <2>2
<1>. QED
  BY <1>1, <1>3, <1>4 DEF IInv

(* The invariant of the connection holds, the frames and the types with it.  *)
THEOREM Inductive == Spec => []IInv
  BY InitIInv, StepIInv, PTL DEF Spec

(* The types of the connection's state, and the bound of the request channel  *)
(* (client.rs 218-232).                                                      *)
THEOREM TypeCorrect == Spec => []TypeOK
<1>1. IInv => TypeOK
  BY DEF IInv
<1>. QED
  BY <1>1, Inductive, PTL

(* However many commands share the connection, and whatever fails, the FIFO   *)
(* of oneshots never has more than one entry, and only the call that holds    *)
(* the mutex waits (mod.rs 35-47, client.rs 218-232).                         *)
THEOREM OneReplyIsAwaited == Spec => []OneReplyAwaited
<1>1. IInv => OneReplyAwaited
  BY DEF IInv, Held, Awaited, OneReplyAwaited
<1>. QED
  BY <1>1, Inductive, PTL

(* A reply reaches the call it answers unless a message nobody waits for was  *)
(* answered, for any number of calls, any capacity and any number of          *)
(* reconnections (client.rs 47-49, 73-195; server.rs 1027-1030).              *)
THEOREM RepliesAreOwn == Spec => []OwnReply
<1>1. IInv => OwnReply
  BY DEF IInv
<1>. QED
  BY <1>1, Inductive, PTL
=============================================================================
