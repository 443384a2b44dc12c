---------------------------- MODULE RemoteOutput ----------------------------
(***************************************************************************)
(* One pane of another host, shown here: the host sends its output live    *)
(* and its history once per connection (src-tauri/src/remote), the webview *)
(* holds what arrives before the pane is opened                            *)
(* (src/lib/remotePtyOutputBuffer.ts), masks it when privacy is on         *)
(* (lib/secretDetector.ts) and shows it (lib/remoteTerminalRegistry.ts,    *)
(* RemoteTerminalPane.tsx).  Chunks are numbered as the PTY printed them;   *)
(* all are of the main screen, a history of its own holds the other one's. *)
(***************************************************************************)
EXTENDS Naturals, Sequences, SequencesExt

CONSTANTS MaxChunks,  \* bound: chunks the PTY prints
          MaxLinks,   \* bound: connections
          MaxToggles, \* bound: changes of the privacy setting
          HistoryRoom,    \* chunks that fit in the host's history of the pane
          BridgeRoom,     \* chunks the host's broadcast keeps for a slow receiver
          TailRoom        \* chunks that fit in the masker's tail buffer

VARIABLES
  printed,      \* chunks printed: the host's history ends with this one
  aired,        \* chunks of them that were broadcast
  bridge,       \* bridge_rx: what the account host's loop has not received yet
  stage, links, \* of the connection: "down" | "open" | "relayed" | "left"
  asked,        \* a history request is on its way
  historySent,  \* the host has sent the pane's history on this connection
  replay,       \* history chunks the host has not put on the channel yet
  channel,      \* the data channel and the webview's event queue
  shownTerm,    \* the pane has a terminal
  opened,       \* and is mounted
  sizing,       \* tryFit: the container has no size yet
  early,        \* pending: what came before the terminal
  held,         \* the masker's tail
  display,      \* what was written to the terminal
  privacy, toggles,
  dropped,      \* history: chunks gone with a masker
  outdated,     \* history: chunks of this connection that the host had no room for
  unrelayed     \* history: chunks of it that the loop did not send to this client

hostVars == <<printed, aired, bridge, stage, links, asked, historySent, replay,
              outdated, unrelayed>>
viewVars == <<shownTerm, opened, sizing, early, held, display, privacy, toggles, dropped>>
vars == <<hostVars, channel, viewVars>>

Printed == 1..MaxChunks

(* The data channel is open.  The host answers on it, whatever its loop does;  *)
(* live output goes to those in the loop's client_map.                       *)
linked == stage # "down"

TypeOK ==
  /\ printed \in 0..MaxChunks /\ aired \in 0..printed /\ links \in 0..MaxLinks /\ toggles \in 0..MaxToggles
  /\ stage \in {"down", "open", "relayed", "left"}
  /\ {asked, historySent, shownTerm, opened, sizing, privacy} \subseteq BOOLEAN
  /\ \A s \in {bridge, replay, channel, early, held, display} : s \in Seq(Printed)
  /\ \A S \in {dropped, outdated, unrelayed} : S \subseteq Printed

Init ==
  /\ printed = 0 /\ aired = 0 /\ bridge = <<>> /\ outdated = {} /\ unrelayed = {}
  /\ stage = "down" /\ links = 0 /\ asked = FALSE /\ historySent = FALSE
  /\ replay = <<>> /\ channel = <<>>
  /\ shownTerm = FALSE /\ opened = FALSE /\ sizing = FALSE
  /\ early = <<>> /\ held = <<>> /\ display = <<>>
  /\ privacy \in BOOLEAN /\ toggles = 0 /\ dropped = {}

-----------------------------------------------------------------------------
(* What this connection goes without, if there is one.                        *)
Without(lost, cs) == IF linked THEN lost \cup cs ELSE lost

(* The host.  Output goes into the pane's history, then it is broadcast; a    *)
(* receiver that lags behind finds the oldest of it gone.                     *)
PtyPrints ==
  /\ printed < MaxChunks /\ printed' = printed + 1
  /\ UNCHANGED <<aired, bridge, stage, links, asked, historySent, replay, outdated,
                 unrelayed, channel, viewVars>>

Broadcast ==
  /\ aired < printed /\ aired' = aired + 1
  /\ IF Len(bridge) < BridgeRoom
       THEN /\ bridge' = Append(bridge, aired') /\ UNCHANGED outdated
       ELSE /\ bridge' = Append(Tail(bridge), aired')
            /\ outdated' = Without(outdated, {Head(bridge)})
  /\ UNCHANGED <<printed, stage, links, asked, historySent, replay, unrelayed, channel, viewVars>>

(* broadcast_to_all_clients: to every client of the map by then.              *)
BridgeReceives ==
  /\ bridge # <<>> /\ bridge' = Tail(bridge)
  /\ IF stage = "relayed"
       THEN channel' = Append(channel, Head(bridge)) /\ UNCHANGED unrelayed
       ELSE unrelayed' = Without(unrelayed, {Head(bridge)}) /\ UNCHANGED channel
  /\ UNCHANGED <<printed, aired, stage, links, asked, historySent, replay, outdated,
                 viewVars>>

ChannelOpensAgain ==
  /\ ~linked /\ links < MaxLinks
  /\ stage' = "open" /\ links' = links + 1
  /\ UNCHANGED <<printed, aired, bridge, asked, historySent, replay, outdated,
                 unrelayed, channel, viewVars>>

(* The data channel opens; the negotiation looks every 200 ms, and then puts  *)
(* the client into the map.                                                  *)
ChannelOpens ==
  /\ ~linked /\ links < MaxLinks
  /\ stage' = "open" /\ links' = links + 1 /\ historySent' = FALSE
  /\ UNCHANGED <<printed, aired, bridge, asked, replay, outdated, unrelayed, channel,
                 viewVars>>

ClientJoins ==
  /\ stage = "open" /\ stage' = "relayed"
  /\ UNCHANGED <<printed, aired, bridge, links, asked, historySent, replay, outdated,
                 unrelayed, channel, viewVars>>

(* The map loses the client before its channel is closed.                     *)
ClientLeaves ==
  /\ stage = "relayed" /\ stage' = "left"
  /\ UNCHANGED <<printed, aired, bridge, links, asked, historySent, replay, outdated,
                 unrelayed, channel, viewVars>>

(* The signaling server is lost: the loop ends, and its map and its receiver  *)
(* with it, but the channel stays open; the next loop starts from nothing.    *)
(* What is printed until then is nobody's, or in the history of who comes.    *)
LoopRestarts ==
  /\ stage' = IF linked THEN "left" ELSE "down"
  /\ bridge' = <<>> /\ unrelayed' = Without(unrelayed, Range(bridge))
  /\ UNCHANGED <<printed, aired, links, asked, historySent, replay, outdated, channel, viewVars>>

(* The first request of a connection is answered with all that was printed.   *)
Forgotten == IF printed > HistoryRoom THEN printed - HistoryRoom ELSE 0
ServeHistory ==
  /\ linked /\ asked /\ asked' = FALSE
  /\ historySent' = TRUE
  /\ IF historySent THEN UNCHANGED <<replay, outdated, unrelayed>>
     ELSE /\ replay' = [i \in 1..(printed - Forgotten) |-> Forgotten + i]
          /\ outdated' = 1..Forgotten /\ unrelayed' = {}
  /\ UNCHANGED <<printed, aired, bridge, stage, links, channel, viewVars>>

(* The history is sent by a task of its own, among the live output.           *)
SendHistory ==
  /\ replay # <<>>
  /\ replay' = Tail(replay) /\ channel' = Append(channel, Head(replay))
  /\ UNCHANGED <<printed, aired, bridge, stage, links, asked, historySent, outdated,
                 unrelayed, viewVars>>

-----------------------------------------------------------------------------
(* push: what exceeds the tail goes out.                                      *)
Pushed(cs) ==
  LET all == held \o cs
      n == IF Len(all) > TailRoom THEN Len(all) - TailRoom ELSE 0
  IN [out |-> SubSeq(all, 1, n), rest |-> SubSeq(all, n + 1, Len(all))]

(* Without privacy the pane's masker is dropped with what it holds.           *)
Emit(cs) ==
  IF privacy
    THEN /\ display' = display \o Pushed(cs).out
         /\ held' = Pushed(cs).rest
         /\ UNCHANGED dropped
    ELSE /\ display' = display \o cs
         /\ held' = <<>> /\ dropped' = dropped \cup Range(held)

OnRemoteOutput ==
  /\ channel # <<>> /\ channel' = Tail(channel)
  /\ IF shownTerm THEN Emit(<<Head(channel)>>) /\ UNCHANGED early
                  ELSE /\ early' = Append(early, Head(channel))
                       /\ UNCHANGED <<display, held, dropped>>
  /\ UNCHANGED <<hostVars, shownTerm, opened, sizing, privacy, toggles>>

(* flushRemotePtyOutputBuffer: what came early, then the masker's tail; the   *)
(* tail stays when nothing came early.                                        *)
FlushEarly ==
  IF early = <<>> THEN UNCHANGED <<display, held, dropped>>
  ELSE /\ display' = IF privacy THEN display \o held \o early ELSE display \o early
       /\ held' = <<>>
       /\ dropped' = IF privacy THEN dropped ELSE dropped \cup Range(held)

(* The effect asks for the history at each mount, once the container has a    *)
(* size (tryFit); it looks again in the next frames.                          *)
OpenPane ==
  /\ ~opened /\ (linked \/ shownTerm) /\ opened' = TRUE
  /\ shownTerm' = TRUE
  /\ FlushEarly /\ early' = <<>>
  /\ \/ asked' = linked /\ sizing' = FALSE
     \/ sizing' = TRUE /\ UNCHANGED asked
  /\ UNCHANGED <<printed, aired, bridge, stage, links, historySent, replay, outdated,
                 unrelayed, channel, privacy, toggles>>

TryFit ==
  /\ opened /\ sizing /\ sizing' = FALSE
  /\ asked' = linked
  /\ UNCHANGED <<printed, aired, bridge, stage, links, historySent, replay, outdated,
                 unrelayed, channel, shownTerm, opened, early, held, display, privacy, toggles,
                 dropped>>

LeavePane ==
  /\ opened /\ opened' = FALSE
  /\ UNCHANGED <<hostVars, channel, shownTerm, sizing, early, held, display, privacy, toggles, dropped>>

DisposeTerminal == shownTerm' = FALSE /\ opened' = FALSE /\ sizing' = FALSE /\ display' = <<>>
ClearBuffers == early' = <<>> /\ held' = <<>> /\ dropped' = {}

(* The connection ends: the pane's terminal and buffers go; events that were  *)
(* already queued may still come.                                             *)
LinkDown ==
  /\ linked /\ stage' = "down"
  /\ asked' = FALSE /\ replay' = <<>> /\ outdated' = {} /\ unrelayed' = {}
  /\ channel' \in {channel, <<>>}
  /\ DisposeTerminal /\ ClearBuffers
  /\ UNCHANGED <<printed, aired, bridge, links, historySent, privacy, toggles>>

TogglePrivacy ==
  /\ toggles < MaxToggles /\ toggles' = toggles + 1
  /\ privacy' = ~privacy
  /\ UNCHANGED <<hostVars, channel, shownTerm, opened, sizing, early, held, display, dropped>>

Next ==
  \/ PtyPrints \/ Broadcast \/ BridgeReceives \/ LoopRestarts
  \/ ChannelOpens \/ ClientJoins \/ ClientLeaves \/ LinkDown \/ ServeHistory \/ SendHistory
  \/ OnRemoteOutput \/ OpenPane \/ TryFit \/ LeavePane \/ TogglePrivacy

Spec == Init /\ [][Next]_vars

-----------------------------------------------------------------------------
(* Live output and history travel apart, and opening, leaving, masking and    *)
(* reconnecting come at any moment: from the first answer to a history        *)
(* request on, everything the PTY has printed is shown, held or on its way,   *)
(* but for the tails that went with a masker, for what the host had no room   *)
(* to keep, and for what it relayed while this client, its channel open, was  *)
(* not yet or no longer in the loop's map (server_host.rs 346-416, 507-516,   *)
(* 650-755, 1036-1046, remotePtyOutputBuffer.ts 65-140,                       *)
(* RemoteTerminalPane.tsx 105-280).                                           *)
NothingIsMissing ==
  linked /\ historySent =>
    1..aired \subseteq outdated \cup unrelayed \cup dropped \cup
                      Range(bridge \o replay \o channel \o early \o held \o display)
=============================================================================
