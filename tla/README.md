# Racemo: TLA+ models, model checking and proofs

Racemo is a terminal workspace: a React user interface in a Tauri shell, a
background process (`racemo-server`) that owns the shells, and a remote mode over
WebRTC. This directory holds TLA+ models of its core logic, the TLC
configurations that check them, and proofs checked by TLAPS. Paths below are
relative to `src-tauri/src/` unless they start with `src/`.

## 1. The system

```
 webview (React, xterm.js)                        remote device
   |  Tauri commands / events                        | WebRTC data channel
 Tauri shell -- IpcState mutex -- IpcClient          | (managed signaling relay,
   |  local socket, length-prefixed JSON frames      |  not in the repository)
 racemo-server: connections | ServerState | flow control | remote hosting
   |  one reader thread per PTY
 shells
```

| component | state | operations | interacts with | what is hard | what makes it correct |
|---|---|---|---|---|---|
| Flow control (`ipc/flow.rs`) | per connection and PTY the unacknowledged bytes; the paused PTYs | register, unregister, reset, broadcast, sent, ack, closed, wait | called by reader threads, connection tasks, session requests | threads blocked on a condition variable; two thresholds; connections that vanish | paused exactly as the watermarks say; nobody who left holds a reader |
| PTY output pipeline (`ipc/server.rs` 426-536, 1428-1704; `src/lib/ptyOutputBuffer.ts`) | reader position, broadcast backlog, connection loops and tasks, bytes on the way, acks on the way | read, send, charge, forward, ack, reset, replay, end | flow control, sessions, webview | charge after send; acks overtaking charges; lagging receivers; abort of a half-finished task; reload | debts can be paid back, reading ahead is bounded, readers resume |
| Desktop IPC (`ipc/client.rs`, `commands/mod.rs`, `commands/util.rs`) | mutex, request channel, two tasks, FIFO of oneshots | request, send, events, reconnect, shutdown | webview, server | replies without ids; one mutex held across a reply; tasks that end apart | own reply, everyone returns |
| Sessions and persistence (`ipc/server.rs`, `session.rs`, `layout.rs`, `persistence.rs`) | sessions, pane trees, PTYs, cwd map, dirty flag, pending sessions, state file | create, attach, close, rename, split, close pane, respawn, list and restore, save tick, shutdown | flow control, reader threads, disk | crash and restart, failed spawns and saves, threads updating the cwd map without the state mutex | panes and PTYs correspond, sessions survive, none is doubled or comes back |
| PTY sizes (`ipc/server.rs`) | host and remote sizes | resize, hand over, restore | remote hosting | several parties resizing one PTY | the host's size comes back when the last remote leaves |
| Stream parsers (`ipc/osc7.rs`, `osc133.rs`, `alt_screen.rs`) | parser state | feed bytes | reader thread | sequences split between reads | the result does not depend on the split |
| Account hosting (`remote/server_host.rs`) | client map, negotiations, subscriptions, sent histories, status | signaling messages, negotiate, bridge, disconnect, stop | signaling, sessions, PTY sizes | many tasks on shared maps, duplicate and late disconnections, abort on stop | limit respected, no ghost clients, one announcement each |
| Pairing hosting (`remote/host.rs`, `pairing.rs`) | one client | as above | as above | as above | one client at a time |
| Remote client (`remote/client.rs`, `commands/remote.rs`) | pending requests, chunk buffers | request, chunk, time-out, close | data channel | late chunks, lost wake-ups | an answer reaches its request, buffers are freed |
| Presence, signaling (`remote/presence.rs`, `signaling.rs`) | connection, devices | connect, back off, update | relay | reconnects with stale state | the device list converges |
| File watcher (`ipc/file_watcher.rs`) | watched directories and file | set, clear | editor panel | watch that could not be placed | what is recorded is watched |
| Tab bar (`src/stores/sessionStore.ts`, `src/hooks/useIpcSetup.ts`) | a copy of the server's sessions, the active tab, the focus | open, close, switch, reorder, split, refresh, remote changes | IPC replies and broadcasts | replies and broadcasts are not ordered among each other; ids arrive before their sessions | the copy converges to the server's |
| Local panes (`src/lib/ptyOutputBuffer.ts`, `terminalRegistry.ts`, `webglAtlasFix.ts`, `useTerminalSetup.ts`) | buffers, terminals, decoders, renderers, sizes | receive, mount, unmount, flush, dispose, lose and load WebGL, fit | server, xterm.js, the GPU | output before the terminal is there, ids used again, lost contexts, shared textures, resizes answered late | every chunk shown once and acknowledged once, renderers current, one size |
| Marks, history, alerts, AI help (`commandTracker.ts`, `historyStore.ts`, `silenceDetector.ts`, `ErrorAiPopup.tsx`, `aiHistoryStore.ts`) | running command, lists and files, timers, tasks | OSC 133 marks, Enter, star, delete, output, focus, run, stop | shells, backend | marks that never come, calls that fail, timers outliving what they watch | only what succeeded is kept, stars are the file's, alerts for unseen output only |
| Typing (`src/lib/ime`, `TerminalInputBar.tsx`, `useAutocomplete.ts`, `completionEngine.ts`) | composition, held letters, draft and images, one shared popup | keys, composition events, send, drop, complete | xterm.js, backend | events in an order that differs by platform; answers to an older line | what is typed arrives once and in order |
| Git panels (`gitStore.ts`, `gitOutputStore.ts`, `CommitForm.tsx`, `PullConflictDialog.tsx`, `WorktreePanel.tsx`, `useDiffData.ts`, `MergeEditor`, `GitCommitLog`, `gitGraph.ts`) | snapshots, generation counters, dialogs, patches, graph lanes | refresh, commit, pull, push, discard, undo, merge, reset, select | git through the backend | the panel moves while a command runs; the dialog goes while its handler waits | nothing older is shown, nothing is discarded unasked |
| Files (`ExplorerView.tsx`, `panelEditorStore.ts`, `editorStore.ts`, `fileSearchStore.ts`, `BrowserViewer.tsx`) | trees, tabs, results, native webviews | list, open, save, reload, search, navigate | backend, operating system | tabs found again by index, listeners that are late, webviews created after their tab closed | the tree, tabs, results and page that belong together |
| Remote view and sharing (`remoteStore.ts`, `remotePtyOutputBuffer.ts`, `secretDetector.ts`, `authStore.ts`) | connections, remote tabs, held output, hosting status, device-code flows | connect, list, open, drop, start, stop, log in, cancel | server, signaling, the other host | links that drop in the middle of history, a stop overtaking a start, several pollers | nothing missing from the far side, viewers are listed, no ghost tabs |
| Prompts and logs (`promptStore.ts`, `prompts_state.rs`, the log panels) | a list and its copy on the phone; rows and their details | edit, push, request, change from the phone; list, open, hover | presence connection, files | debounced snapshots, retried pushes, cached rows | the phone converges, details belong to their row |
| Updater, system notifications, settings, themes, rendering | files and services | thin wrappers | - | mostly I/O | - |

`PROJECT.json` lists every component with its status, and 40 hazards with the lines
where they bite and the properties that would catch them.

## 2. Modules

| module | models | kind |
|---|---|---|
| `FlowControl` | the credit ledger with unconstrained callers | specification (bounded for TLC as `BoundedFlowSpec`), and the abstract specification of the pipeline's use of it |
| `PtyPipeline` | readers, channel, connections and webview around the ledger (`EXTENDS FlowControl`) | composition |
| `PtyPipeline_proofs` | - | proofs about the ledger and the pipeline, refinement and payable debts included |
| `IpcChannel` | the desktop application's connection and both its ends | specification, with proofs |
| `SessionServer` | sessions, PTYs, state file, crash and restart | specification, with proofs |
| `AckLedger` | what the server expects of the webview: each chunk received is due at once or waits for its terminal, and is acknowledged once; only what waits for a terminal that is gone may be given up | abstract specification |
| `PaneOutput` | one local pane's output in the webview | specification, with the proofs that it implements `AckLedger` and shows its chunks in order |
| `Tabs` | the tab bar as a copy of the server's sessions | specification |
| `WebglLoader`, `GlyphAtlas`, `PaneSize` | a pane's WebGL renderer; the shared glyph textures; its size | specifications |
| `ShellMarks`, `CommandHistory`, `Silence`, `AiHelp` | commands followed by their marks; history lists and files; alerts; explained failures | specifications |
| `MacIme`, `WinIme`, `InputBar`, `Autocomplete` | input methods, the input bar, completion | specifications |
| `Typing` | the four of them side by side: whatever puts text into a terminal | composition |
| `Typing_proofs` | - | proofs about the four |
| `GitView`, `GitOutput`, `PullConflict`, `PullRequest` | the Git panel, its output view, refused pulls, pull requests | specifications |
| `Worktrees`, `DiffDiscard`, `MergeEditor` | worktree dialogs, discarded hunks and undo, the merge editor | specifications |
| `ConflictParser`, `GitGraph` | parsing conflict markers; lanes of the commit graph | algorithms, one step per line or commit |
| `CommitLog`, `Explorer`, `EditorTabs`, `FileSearch`, `BrowserViews` | history window, file tree, editor tabs, search, embedded browser | specifications |
| `RemoteView`, `RemoteOutput`, `Sharing`, `Login` | viewing other devices, one remote pane, sharing this one, signing in | specifications |
| `PromptSync`, `LogPanels`, `HookLog` | prompts on the phone, AI log panels, the hook log | specifications |
| `MCTerminal`, `MCWorkspace`, `MCRemote` | the webview's parts side by side (`MCTerminal` extends `Typing`) | composition, model checking, and the proofs about the parts |

The three composites instantiate the webview's parts under one specification each.
The parts are pieces of state with handlers of their own, so a behaviour chooses one part
at `Init` (`part`) and leaves the others idle: the run explores the *sum* of the parts'
state spaces, each complete for its bounds, not their product. Every property of a
composite is a conjunction of `part = "x" => X!Property`, and says of each part what the
part's own module says of it.

Operators named after another one, with a suffix that says what is wrong
(`DebitUnsaturated`, `SendUnlocked`, ...), are part of no specification: each stands
for a plausible bug, and put in place of the operator it is named after it makes
one checked property fail (section 3 lists them).

### FlowControl
`conns` and `paused` are the two maps of `FlowInner`. A method holds the mutex
throughout, so it is one action; a call for an unknown connection is a disjunct
that changes nothing, as its early return does. `wait_capacity` is the guard
`MayRead`: it re-checks on every notification and every 500 ms, so a missed
wake-up cannot matter. Counters are naturals: they are `usize`, and the code
never adds more than was read.

### PtyPipeline
One action per step between two locks, sends or awaits. In particular the reader
*sends* a chunk (`ReadChunk`) and *charges* it (`CountChunk`) separately; a
connection *subscribes* (`Accept`) before it *registers* (`Register`); a replay
is written before it is counted; a failed broadcast task unregisters (`EndTask`)
in a step of its own, which the request loop's end may precede or follow, since an
abort only takes effect at an await. A lagging receiver skips its oldest message
as tokio's channel does. The webview acknowledges in batches (`Consume`), because
`flushAcks` adds up a macrotask's chunks; a reload drops any part of what is on the
way and asks for a reset. Output is counted, not interpreted, and the history is all
that was read (the size limit on it only shortens replays).

`lagged` and `lostCredit` are history variables: which connections skipped
messages, and which have been charged for bytes they can never acknowledge.

### IpcChannel
A call locks `ipc`, queues its message, and, if it is a request, waits with the lock
held. The writer task moves the oneshot to `pending` and the message to the socket;
the reader task hands anything that is not an event to the head of `pending`. Both
tasks share ownership of the FIFO, so its oneshots are dropped (and their calls
fail) only when both have ended: `WriterEnds` and `ReaderEnds` say so. The server
answers requests, answers fire-and-forget messages only when they failed, and exits
on Shutdown. `setup_ipc` runs again after a disconnection in four steps, two of
which need the mutex; `stop_server` forgets the connection once its request returned (`ClearClient`). `op` is nondeterministic per call; a call is made at most
once, `ChanCap` is the channel's capacity (256 in the code).

### SessionServer
The `ServerState` mutex makes a request one action, saving included, except for
`ListSessions`, whose restores are separate steps so that a crash may fall between
them (no other request is served meanwhile: `Serving`). A pane tree is its sequence
of leaves from left to right; splits insert next to the target, as `layout.rs` does,
and closing removes. Reader threads store the directory (`ReportCwd`) and the flag
(`MarkDirty`) in two steps without the mutex, even for a PTY just killed
(`draining`). A save replaces the file, or removes it, or fails (`faults`); an
unreadable file starts the server blank. `Crash` keeps only the file. Ids are UUIDs:
a fresh one is one not in use. `overwrote` records the one situation (finding 5)
that `SessionsSurvive` excuses, so that the property still covers all others.

### The webview
JavaScript runs one handler at a time up to its next `await`, so that is what an action
is: from a click, an event, a timer or an answer to the next wait. A handler that awaits
keeps, in a record of its own, exactly the values its closure keeps (the index of a tab,
the directory of the panel, the generation of a refresh), and its answer is applied to
whatever the state has become by then. Answers to different calls arrive in any order
unless the code queues them. What the backend, Git, a shell, an input method or another
device can answer is any of the answers the code distinguishes, an error among them.

- **`PaneOutput`** chunks are numbered; a chunk may end inside a character ("split") and
  decodes to nothing yet. `Mount`, `Unmount`, `OnExit` and `PaneClosed` interleave with
  arrivals; buffered chunks are dropped beyond the cap but acknowledged all the same.
  `AcksLedger` maps what is queued for acknowledgement to `AckLedger`'s `due`, and what was
  written to a terminal with a callback to its `waiting`.
- **`Tabs`** has the server's sessions and the webview's. Replies come in the order of the
  calls; broadcasts come beside them. `CatchUpUnlessOvertaken` says that when nothing is
  under way the two agree, unless a list was applied that was no longer the last one answered
  (`overtaken`: the user's own change overtook a broadcast).
- **`WebglLoader`, `GlyphAtlas`, `PaneSize`**: a terminal has an identity apart from its
  pane's id, since ids are used again; a texture page is a content and a version; a size
  is a number, 0 for a container that is hidden. `SizesAgree` is about sizes that were told
  since the last change of the font (`untold`) and not led astray (`astray`: a failed call, a fit that
  proposed none, a `tryFit` that outlived its pane).
- **`MacIme`, `WinIme`, `InputBar`, `Autocomplete`**: letters are numbered in the order
  typed, so "once and in order" is visible in what was sent. Where the overlay of a composition is drawn is
  in `MacIme` too: it moves with what is sent and is corrected by the first echo. A pane of `Autocomplete`
  is one mount of it; a line is a sequence over the three kinds of character that completion tells apart.
- **`ShellMarks`, `Silence`, `AiHelp`**: commands are numbered; time is
  counted in ticks of the timers' unit up to `MaxTime`. While a component is unmounted nobody reads the
  marks its terminal parses, and each cleanup clears what the tracker knew (`RemoveCommandState`): `untracked`
  has the commands that ran, or were entered, before the next prompt told it again.
- **`CommandHistory`** a command is a pair of its words and the way they are written (case and spaces), since
  some operations go by the words and others by the exact text; lists are loaded while calls
  that change the files are under way, and each load keeps what it has read so far.
- **`GitView`** abstracts a repository to the number of changes it has been through; a
  reading carries the number it saw, so "older" can be said. `Explorer` does the same for
  directories. `GitOutput` has one record per run, `PullConflict`, `PullRequest` and
  `CommitLog` one per handler that waits.
- **`DiffDiscard`** a hunk is a number and its index in a diff its rank among those
  left; saves of the list are issued in order and written in order.
- **`GitGraph`** places one commit per step and picks its parents, so that every history of
  `GraphSize` commits is met; the loop over the further parents is a recursive function
  (`Branches`), and a line has to stay within the width the panel draws (`MaxLanes`);
  **`ConflictParser`** reads one line per step of any file cut
  anywhere. A run of marker characters stands for one line of that marker.
- **`EditorTabs`** a text is a file and a version of it, so text in the wrong tab shows.
- **`RemoteOutput`** numbers chunks as the PTY printed them, from the host's history (`HistoryRoom`) and its
  broadcast (`BridgeRoom`) over the data channel to the masker's tail and the terminal. An open channel is
  answered on from its first moment, but live output goes to the clients of the loop's map only (`stage`): a client is put
  there later (`ClientJoins`), may be taken out before its channel closes (`ClientLeaves`), and loses its
  place when the loop restarts without the signaling server (`LoopRestarts`).
  **`RemoteView`** has one session of one pane per device; a call to connect returns before its task has a link
  (`dialing`), and a lost link keeps its slot and may talk again.
  **`Sharing`** has both ends of the server's requests; the clients of a task that has ended keep their
  channels (`shOrphans`), and a stop closes those of the current task only (`shMissed` has the others).
  **`BrowserViews`** sets the address at every page that loads and at a navigation's end (`Readdressed`), which
  leaves a pick as it is.
  **`Login`** gives each flow its poller; **`PromptSync`** follows a snapshot from the
  store to the phone; **`LogPanels`** runs five alike panels by a record of what differs.

## 3. Runs

| run | instance | properties | result |
|---|---|---|---|
| `MCFlowControl` | `BoundedFlowSpec`: 2 connections, 2 PTYs, watermarks 2 and 3, counters up to 4 | `FlowTypeOK`, `PausedIsJustified`, `BehindIsPaused`, `Hysteresis` | pass, 1,948 states |
| `MCPtyPipeline` | 2 connections, 1 PTY, chunk 1, channel of 3, 4 bytes of output | `TypeOK`, `DebtIsPayable`, `ReadAheadIsBounded`, `OnlyServedConnsOwe` | pass, 1.33 million states |
| `MCPtyPipelineReplay` | 1 connection, 3 bytes, 1 attach, 1 reload, fairness | `DebtIsPayable`, `LedgerSpec`, `ReadersResume` | pass, 181,831 states |
| `MCIpcChannel` | 3 calls, channel of 1, 1 event, 1 reconnection, fairness | `TypeOK`, `OneReplyAwaited`, `OwnReply`, `RequestsReturn` | pass, 91,189 states |
| `MCIpcChannelStop` | the same, fairness | `StopReturns` | violated (finding 1) |
| `MCSessionServer` | 2 sessions, 2 panes, 2 PTYs, 1 disk fault | `TypeOK`, `PanesHavePtys`, `DistinctSessions`, `SessionsSurvive`, `ActiveIsKnown` | pass, 533,344 states |
| `MCSessionServerCwd` | 1 session, 2 panes, 2 PTYs, 2 directories, fairness | `CwdIsSaved` | pass, 129,114 states |
| `MCPaneOutput` | 4 chunks, cap of 2, 2 terminals | `TypeOK`, `ShownInOrder`, `AcksLedger` | pass, 148 thousand states |
| `MCTerminal` | 12 parts, bounds in the .cfg | `TypeOK`, `TabsFollowTheServer`, `RenderersAreCurrent`, `InputArrivesOnce`, `TheUserIsToldTheTruth` | pass, 1,722,812 states |
| `MCWorkspace` | 13 parts, bounds in the .cfg | `TypeOK`, `GitViewNeverGoesBack`, `GitActionsEndWell`, `WorkIsKept`, `HistoryIsDrawnTrue`, `FilesAreCurrent` | pass, 1.67 million states |
| `MCRemote` | 8 parts, bounds in the .cfg | `TypeOK`, `TheFarSideIsCurrent`, `WhoIsThereIsKnown`, `DetailsMatchTheirRow`, `BrowserShowsItsPage` | pass, 3,042,737 states |
| `MCEditorTabs` | 2 files, 1 version of text, 4 gestures | `EditsSurvive` | violated (finding 2) |

**Bounds.** The ledger only adds, subtracts and compares, so watermarks 2 and 3
already separate below, between and at; two connections are what "some" and "every"
need to differ, and the proofs drop these bounds. In the pipeline four bytes cross
both watermarks and fill the channel, two connections let one hold the reader for
the other; a replay of more than the high watermark is possible with one attach.
Three calls let one wait, one queue and one arrive; one reconnection gives an old and
a new connection. With two PTYs a split, a respawn and a failed restore collide, and ids
freed by a kill are used again only after the old reader ended.
In the webview's parts two of a kind (sessions, panes, directories, files, devices, rows)
are what a mix-up takes, and the number of gestures is what one mix-up needs plus one:
an action under way, another that moves what it refers to, and the answer. Caches have
room for one entry less than there are keys (`LogCacheSize`, `MAX_ENTRIES`, `Cap`), and the host's history
and broadcast for fewer chunks than are printed (`HistoryRoom`, `BridgeRoom`), so that
they overflow; two loads of the history (`MaxChLoads`) overlap, of two ways to write the same words (`ChStyle`); `GraphSize` 4 with up to 3 parents contains merges, octopus merges, crossings and
parents beyond the end of the list. Every unbounded quantity carries a named bound
(`Max...`).

**Symmetry** is used in `MCSessionServer`, over session, pane and PTY ids, and in `MCRemote`, over the rooms of
`Sharing`'s clients; no action or property orders them, and neither run checks liveness.

**Deadlock** checking is off where the system may come to rest: a bounded PTY that
printed everything, calls that have all been made, gestures that are used up.
`MCSessionServer*` and `MCFlowControl` keep it on.

**Fairness.** Threads and tasks that can take a step eventually do (the operating
system's and tokio's schedulers); xterm.js calls back for every write, so a webview
consumes; the 5 s timer ticks. No fairness is assumed of anything a user, a shell, a
network or a failure does: nobody has to connect, call, attach, type, disconnect or
exit, and no save has to fail or succeed. Only weak fairness is assumed, and only
in `MCPtyPipelineReplay`, `MCIpcChannel`, `MCIpcChannelStop` and `MCSessionServerCwd`. What must
eventually hold in the webview is stated without it, as an invariant over settled states:
once no answer, broadcast or timer is outstanding, the copy is the original
(`CatchUpUnlessOvertaken`, `SizesAgree`, `TreeIsCurrent`, `PhoneIsCurrent`, `TasksAreSettled`).
That something outstanding arrives is the backend's and the event loop's doing.

**Bugs the properties detect.** Each of these operators, put in place of the one it is
named after, makes the property fail in the run.

| run | property | module | operator | bug |
|---|---|---|---|---|
| `MCFlowControl` | `FlowTypeOK` | `FlowControl` | `Debit` | `DebitUnsaturated` |
| `MCPtyPipeline` | `TypeOK` | `FlowControl` | `Debit` | `DebitUnsaturated` |
| `MCFlowControl` | `PausedIsJustified` | `FlowControl` | `UnregisterConn` | `UnregisterConnForgetsReeval` |
| `MCFlowControl` | `BehindIsPaused` | `FlowControl` | `OnBroadcast` | `OnBroadcastOffByOne` |
| `MCFlowControl` | `Hysteresis` | `FlowControl` | `OnAck` | `OnAckAsksOneConn` |
| `MCPtyPipeline` | `DebtIsPayable` | `PtyPipeline` | `HandleAck` | `HandleAckOfLivePty` |
| `MCPtyPipeline` | `ReadAheadIsBounded` | `PtyPipeline` | `WaitCapacity` | `WaitCapacityUnguarded` |
| `MCPtyPipeline` | `OnlyServedConnsOwe` | `PtyPipeline` | `LoopEnds` | `LoopEndsStillRegistered` |
| `MCPtyPipelineReplay` | `DebtIsPayable` | `PtyPipeline` | `ReplayCount` | `ReplayCountTwice` |
| `MCPtyPipelineReplay` | `LedgerSpec` | `PtyPipeline` | `KillPty` | `KillPtyKeepsDebts` |
| `MCPtyPipelineReplay` | `ReadersResume` | `PtyPipeline` | `EndTask` | `EndTaskStillRegistered` |
| `MCIpcChannel` | `TypeOK` | `IpcChannel` | `Send` | `SendOverfull` |
| `MCIpcChannel` | `OneReplyAwaited` | `IpcChannel` | `Send` | `SendUnlocked` |
| `MCIpcChannel` | `OwnReply` | `IpcChannel` | `ReaderTakes` | `ReaderTakesEvents` |
| `MCIpcChannel` | `RequestsReturn` | `IpcChannel` | `ServerHandles` | `ServerHandlesSkippingOk` |
| `MCSessionServer` | `TypeOK` | `SessionServer` | `ClosePane` | `ClosePaneEvenLast` |
| `MCSessionServer` | `PanesHavePtys` | `SessionServer` | `RespawnPty` | `RespawnKeepsOldPty` |
| `MCSessionServer` | `DistinctSessions` | `SessionServer` | `ListSessions` | `ListSessionsKeepsPending` |
| `MCSessionServer` | `SessionsSurvive` | `SessionServer` | `Persist` | `PersistForgettingPending` |
| `MCSessionServer` | `ActiveIsKnown` | `SessionServer` | `CloseSession` | `CloseSessionKeepsActive` |
| `MCSessionServerCwd` | `CwdIsSaved` | `SessionServer` | `SavedLeaf` | `SavedLeafOfNodeFirst` |
| `MCPaneOutput` | `TypeOK` | `PaneOutput` | `Capped` | `CappedNever` |
| `MCPaneOutput` | `ShownInOrder` | `PaneOutput` | `Flush` | `FlushKeeps` |
| `MCPaneOutput` | `AcksLedger` | `PaneOutput` | `QueueAck` | `QueueAckOfFlush` |
| `MCTerminal` | `TypeOK` | `AiHelp` | `Add` | `AddUncapped` |
| `MCTerminal` | `TabsFollowTheServer` | `Tabs` | `OnRefresh` | `OnRefreshKeepsGone` |
| `MCTerminal` | `RenderersAreCurrent` | `PaneSize` | `Sync` | `SyncByTerm` |
| `MCTerminal` | `InputArrivesOnce` | `MacIme` | `HeldFirst` | `HeldLast` |
| `MCTerminal` | `TheUserIsToldTheTruth` | `CommandHistory` | `LiveEntry` | `LiveEntryPlain` |
| `MCTerminal` | `RenderersAreCurrent` | `GlyphAtlas` | `Invalidated` | `InvalidatedNone` |
| `MCTerminal` | `RenderersAreCurrent` | `WebglLoader` | `Load` | `LoadAnyEntry` |
| `MCTerminal` | `InputArrivesOnce` | `WinIme` | `Emptied` | `Kept` |
| `MCTerminal` | `InputArrivesOnce` | `InputBar` | `WhenNew` | `WheneverPending` |
| `MCTerminal` | `InputArrivesOnce` | `Autocomplete` | `FillLocal` | `FillLocalKeeps` |
| `MCTerminal` | `TheUserIsToldTheTruth` | `ShellMarks` | `End` | `EndKeepsText` |
| `MCTerminal` | `TheUserIsToldTheTruth` | `Silence` | `Deserves` | `DeservesIfSilent` |
| `MCTerminal` | `TheUserIsToldTheTruth` | `AiHelp` | `Settle` | `SettleNothing` |
| `MCWorkspace` | `TypeOK` | `EditorTabs` | `closeTab` | `closeTabUnclamped` |
| `MCWorkspace` | `GitViewNeverGoesBack` | `GitView` | `Outdated` | `NeverOutdated` |
| `MCWorkspace` | `GitActionsEndWell` | `PullConflict` | `AllResolvedBy` | `AllResolvedBefore` |
| `MCWorkspace` | `WorkIsKept` | `DiffDiscard` | `NextSave` | `LatestFirst` |
| `MCWorkspace` | `HistoryIsDrawnTrue` | `CommitLog` | `AskRefs` | `AskRefsOnce` |
| `MCWorkspace` | `FilesAreCurrent` | `Explorer` | `ShownIfFresh` | `ShownAnyway` |
| `MCWorkspace` | `GitActionsEndWell` | `GitOutput` | `Ends` | `EndsQuietly` |
| `MCWorkspace` | `GitActionsEndWell` | `PullRequest` | `OffersLater` | `OffersAtOnce` |
| `MCWorkspace` | `WorkIsKept` | `Worktrees` | `Unconfirm` | `StayConfirmed` |
| `MCWorkspace` | `WorkIsKept` | `MergeEditor` | `AllResolved` | `SomeResolved` |
| `MCWorkspace` | `WorkIsKept` | `ConflictParser` | `Into` | `IntoTheOther` |
| `MCWorkspace` | `HistoryIsDrawnTrue` | `GitGraph` | `OwnLane` | `OwnLaneShared` |
| `MCWorkspace` | `HistoryIsDrawnTrue` | `CommitLog` | `ShowDetail` | `TakeDetail` |
| `MCWorkspace` | `FilesAreCurrent` | `FileSearch` | `IsCurrent` | `IsRegistered` |
| `MCWorkspace` | `FilesAreCurrent` | `EditorTabs` | `openTab` | `openTabUnchecked` |
| `MCRemote` | `TypeOK` | `LogPanels` | `Remember` | `RememberAll` |
| `MCRemote` | `TheFarSideIsCurrent` | `RemoteOutput` | `ChannelOpens` | `ChannelOpensAgain` |
| `MCRemote` | `WhoIsThereIsKnown` | `Login` | `PollersAfterStart` | `PollersIfNone` |
| `MCRemote` | `DetailsMatchTheirRow` | `LogPanels` | `Opened` | `OpenedKeepsShown` |
| `MCRemote` | `BrowserShowsItsPage` | `BrowserViews` | `ShownAgain` | `ShownLate` |
| `MCRemote` | `WhoIsThereIsKnown` | `RemoteView` | `Drop` | `DropKeepsTabs` |
| `MCRemote` | `TheFarSideIsCurrent` | `PromptSync` | `PushAgain` | `NotAgain` |
| `MCRemote` | `WhoIsThereIsKnown` | `Sharing` | `UnlistsClient` | `UnlistsAll` |
| `MCRemote` | `DetailsMatchTheirRow` | `HookLog` | `HandleTipEnter` | `TipEnterLate` |
| `MCRemote` | `BrowserShowsItsPage` | `BrowserViews` | `Placed` | `PlacedAlone` |
| `MCRemote` | `BrowserShowsItsPage` | `BrowserViews` | `Typed` | `TypedKeepsPick` |

## 4. Findings

Shown by a run:

1. **Shutdown never returns to its caller** (`StopReturns`; `ipc/client.rs` 196,
   `ipc/server.rs` 904-908, `commands/util.rs` 325-340), and with the mutex held neither
   does any later command.
2. **A reload after the window got the focus destroys what was typed meanwhile, or lands in
   another tab** (`EditsSurvive`; `src/components/Editor/EditorWindow/EditorWindow.tsx` 90-94,
   `src/stores/panelEditorStore.ts` 140-147).

Seen while modelling. The models contain these behaviours; the properties are stated so
that they exempt exactly them, and no run of its own is kept for each. Paths are relative to
`src-tauri/src/` or, with a `.ts` or `.tsx` ending, found below `src/`.

*Server.* The broadcast channel can overflow in spite of flow control: it counts messages,
the watermark counts bytes (`ipc/server.rs` 1380-1382). After an overflow the skipped
messages stay charged and the reader may stay paused (`ipc/server.rs` 1540, `ipc/flow.rs` 5-6);
`DebtIsPayable` and `ReadersResume` exempt connections with lost credit. A failed
fire-and-forget message shifts the replies (`ipc/server.rs` 1617, `ipc/client.rs` 47, 192);
`OwnReply` holds until a stray reply. Saving before the first `ListSessions` drops pending
sessions from the file (`ipc/server.rs` 730-735); `SessionsSurvive` holds until then.

*Terminals.* A command that failed stays in the history when the component of its terminal was mounted again before it
was entered, or its effect ran anew: the cleanup forgets that the shell marks its commands
(useTerminalSetup.ts 561, commandTracker.ts 95-99), so Enter saves the command at once (terminalRegistry.ts 261-276), against
commandTracker.ts 48 ("If exit code is non-zero, store error and skip history"); `HistoryHoldsSuccesses` exempts
the commands the cleared tracker lost (`untracked`). After a change made elsewhere the tabs may not catch up when a change of the
user's own overtakes it (useIpcSetup.ts 213-214). The history of a restored PTY that arrives
after the mount is cleared 80 ms after the first resize (useTerminalSetup.ts 449-451). Two WebGL addons may be
loaded on one terminal (terminalRegistry.ts 295-324); `OnPaneClosed` of `WebglLoader` lets a pane be closed in a few states more than
the code does, which can only add behaviours. A failed `resize_pty` is never tried
again, and a change of the font refits without one. Completions during the grace period are
missed (silenceDetector.ts 36). Turning the interception off in the middle of a composition sends it twice
(useTerminalSetup.ts 406-420); a second legacy consonant replaces the first, and one held behind a held
syllable stays behind when the interception is switched off (mac.ts 256, 324); a prompt marked between a
send and its echo lets the correction by the echo meet an anchor that never moved, so that the overlay may lie
left of the first column (mac.ts 90-106, 128-160); a
composition ignored after a wheel event is still sent (windows.ts 211-219). Overlapping sends
of the input bar mix their texts and images (TerminalInputBar.tsx 440-510). Tab within 60 ms of a key doubles the
completion's suffix (useAutocomplete.ts 27), and the answer to one pane dismisses another's popup
(98-100). A reload leaves AI tasks "running" (aiHistoryStore.ts 62-67); a popup that goes while it
awaits its listeners leaks them (ErrorAiPopup.tsx 93-136). Deleting an entry of the history
goes by words in memory and by the exact text in the file (historyStore.ts 91-104,
commands/history.rs 311-327); a rollback duplicates an entry (historyStore.ts 109-112); the search shows seconds as
milliseconds (HistorySearch.tsx 82-84).

*Git and files.* Right after a change of directory the panel shows the other one's files, and a
repository slower than the ticks of the timer is never shown (gitStore.ts 116-119);
`loadCommitLog` checks no generation (252-263). Runs of the output view interleave on one index.
The worktree dialog's `isProcessing` is never cleared after a success (WorktreeActionModal.tsx 387); two
adds can run at a time (AddWorktreeModal.tsx 30). Discards that overlap use a stale list, and a
failed undo drops the patch (useDiffData.ts 264-269). A late answer marks the files of another
repository's dialog, and an older `close()` closes the newer dialog (PullConflictDialog.tsx
40-85). A pull request's form left open while the panel moves is sent to the new
repository with the old base and title (CommitForm.tsx 97-149). The merge editor's poll undoes
choices (MergeEditor.tsx 143-157), stages a file with malformed markers on opening
(102-118), and takes paths from the root shown (46-51). diff3's base lines become part of
"current" (conflictParser.ts 34-59). The dot of a root commit is not joined to its child
(gitGraph.ts 24-48). Actions on the rows of an old log run in the new directory (GitCommitLog.tsx 68-74). The tree
shows old rows under a new root's path (ExplorerView.tsx 290-310, 368-372). `markSaved` counts text
typed during the write as saved, and one autosave timer serves all tabs. Abandoned searches
block the backend's workers (commands/util.rs 1703-1757); ArrowDown before the first result gives index
-1 (FileSearchPanel.tsx 67-85).

*Remote and others.* What the host prints after it has answered a history request and before the client is in the
loop's map (remote/server_host.rs 650-755), or after the map has lost it, is never sent on that connection: a lost signaling server ends
the loop and its map but no channel (886-905, 1010-1029, 1142-1148); `NothingIsMissing` exempts it (`unrelayed`). The
clients of such a task are still served after a later stop, which closes those of its own map only
(1167-1181), and are no longer listed; `NobodyWatchesUnseen` exempts them (`shMissed`). A host that has no room
left for what was printed is exempted too (`outdated`). Output of a remote pane is shown twice when its history and live output
overlap (remote/server_host.rs 346-416, remotePtyOutputBuffer.ts 92-113); switching privacy off drops the held tail. A share
wished for in a cancelled login happens at the next one, an older poller's time-out ends a newer flow, and
a cancel during a poll still logs in (authStore.ts 115-118). A stop is overtaken by a start
that waits for its token, and a failed stop leaves the host shared (remoteStore.ts 211-221,
434-453); negotiations go on after a stop (remote/server_host.rs 721-755). A change of prompts
before hydration is pushed alone and then replaced. Messages of one session appear under another's title in
the Gemini panel (GeminiLogPanel.tsx 256-268); caches are never refreshed. A webview created after its tab was
closed lies over the others (webviewHelpers.ts 57-83), and one whose tab was switched under a dialog stays hidden
(BrowserViewer.tsx 131-152); Enter goes to a picked suggestion though the
address meanwhile says something else: the bar was focused again and its list replaced, a navigation began or ended, or
a page has loaded (89, 228-256, 313-317); `EnterGoesWhereItSays` exempts these (`aside`).

## 5. Proofs

All proofs are checked by TLAPS from the named assumptions on constants only, which TLC
evaluates in the runs: for any sets of connections, PTYs, calls, sessions, panes, files, directories
and devices, any watermarks 0 < low <= high, and any values of the bounds. Of the
server's modules these are `WatermarkAssumption`, `PipelineAssumption`, `BytesAssumption` (byte counts are
positive), `MessageAssumption` (no message a bounded instance can make is too long),
`ChannelAssumption`, `BoundsAssumption`, `NobodyAssumption`, `DirsAssumption` and `BoundAssumption`; of the
webview's, beside natural bounds (`CapAssumption`, `SizeAssumption`, `TaskAssumption`, `InputAssumption`, ...), only
that a value standing for "none" is not one of the others (`CompletionAssumption`, `TabAssumption`, `CwdAssumption`, `DirAssumption`, `CommitAssumption`,
`RowAssumption`, `CommandAssumption`, `DeviceAssumption`, `PromptAssumption`) and that text is no
conflict marker (`ParserAssumption`). Every inductive invariant below was first checked by
TLC on the instance of the run.

*FlowControl* (in `PtyPipeline_proofs`). `FlowTypeOK` is inductive: the subtle case is the saturating
subtraction (`DebitType`). `PausedIsJustified` and `BehindIsPaused` are each inductive
only with types and with each other, so they are proved as one invariant `LedgerInv`. Two
lemmas carry the argument: `ReleaseStep` (an operation that only lowers debts and
re-evaluates a set of PTYs keeps it, if every PTY whose debts fell is in that set:
this is why `unregister_conn` must collect its PTYs before it removes the connection)
and `ChargeStep` (one that raises debts of one PTY and pauses it at the high
watermark keeps it). `Hysteresis` follows step by step.

*PtyPipeline.* `ImplementsLedger` shows `Spec => LedgerSpec`: each action is one ledger
operation with arguments the ledger admits, or leaves it alone. What needs proof is that
byte counts stay inside `Bytes` and that a connection registers once, which is
`PipelineTypeOK`. Through it the ledger's invariants are carried over (`FlowInv`), so that in the pipeline
too readers are paused exactly as the watermarks say (`PipelinePausesJustly`).
`OnlyServedConnsOwe` is inductive: after either end of a connection nothing
registers it again. `ReadAheadIsBounded` needs the strengthening `ReadsBelowHigh`:
while no attach was made and the reader is past its check, every debt, with the chunk
it carries, is still within bound, because only this reader can raise debts for its PTY.

`DebtsCanBePaid` is about sums: the bytes a connection is charged for are within those still in the
channel, at the client and in acks on the way, which are recursive functions over
sequences of any length. A sum is characterised by its partial sums (`IsSum`), and what an
induction over the length would show, that two functions with the same steps agree, is shown by the
least place where they would not (`LeastNumber`, from the well-foundedness of the naturals).
`AllSolvent` relates debt and sums for each connection and PTY; `ReplayBusy` is needed with
it, that a replay written and not yet counted belongs to a loop that is still attaching.

*IpcChannel.* Replies carry no identifier, so `OwnReply` is about positions in three queues
and a FIFO. The invariant `IInv` says that a message that awaits a reply is in one place only:
in the request channel (`Queued`), or pending (`Awaited`), and then at most once in the
socket, as a request on its way up or as a reply on its way down (`OnTheWay`). `Held`, that
who sends or waits has the mutex, gives uniqueness when a message is sent; `Sockets`, that a reader
task ends only when its socket is closed and read empty, is why dropping the FIFO
orphans no reply. `OnTheWay` is kept only while no fire-and-forget message was
answered (`~stray`): that is where `OwnReply` needs its premise. `OneReplyAwaited`
needs no premise. The only assumptions are a channel of at least one message, natural bounds,
and that `Nobody` is no call.

*PaneOutput.* `AcknowledgesOnce` shows `Spec => AcksLedger`: each step of the webview receives
one chunk, which is due at once or waits for the terminal there is, makes one due that was parsed, acknowledges
what is due, or gives up what waits for a terminal that is no longer the pane's. That nothing due is forgotten is so checked; that xterm calls
back and the acknowledging timer fires is not claimed: it is the environment's progress. The invariant `Once` says that a chunk is in one of four places only:
on the wire (`WireOnce`), being parsed and to be acknowledged then (`ParsingOnce`), about to be
acknowledged, or acknowledged (`AcksOnce`), and in each once; without it a chunk parsed or flushed could be
owed again. Chunks that were held are written with no acknowledgement to come, which is
why mounting changes nothing (`WritesBehind`). `ShowsInOrder` needs `InOrder`: what is
held in the three places together is in order as it stands, all of it is earlier than what is on the wire
(`WireIsLater`), and without a terminal nothing has been shown while with one nothing is
pending (`OneHolder`), so that a flush puts its chunks behind those written before. Both assume natural
bounds only (`CapAssumption`).

*SessionServer.* Every invariant of the runs is proved. `Inv` has four parts. `Types` gives
every session a pane, which a restore needs to put it back. `Distinct` says that the ids of the sessions
served, pending, being restored and saved are each once, were created, and that
only one of the two waiting lists is in use: that is why a restore never meets
its own id. `ActiveThere` says where the active session is, and, once sessions are served beside pending ones,
that it is among the served: a save writes only those, so the file's active session would
otherwise dangle. `Kept` says that, with a working disk and no overwriting save, nothing is
served while something is pending; the file is then always a copy of what the memory
knows, which `SessionsSurvive` alone does not carry over a save. `Persists` and
`PersistsWell` say once what a save may do; `Handled`, `Relays` and `Aside` take care of the actions that
save, that keep the ids, and that touch neither. `PanesHavePtys` needs only the types: as
`Matched` it is stated over sessions that are `Strangers` and leaves that are `Alone`, and one lemma
per change of a sequence (`LeafInserted`, `LeafRemoved`, `LeafRespawned`, `SessionEdited`,
`SessionAppended`, `SessionRemoved`) says which PTYs come and go. It assumes that the home directory is
one of the directories and that the bound on disk faults is natural.

*The composites.* A step of `MCTerminal`, `MCWorkspace` or `MCRemote` is a step of the part
chosen at `Init` and leaves the others alone (`PartsStep`), so each invariant is a
conjunction over the parts, and each part has lemmas of its own about its actions.

*MCRemote.* All its invariants are proved. Details of a log's row (`DetailsMatch`): a read that is still wanted is
one of the title shown (`LiveReadsAreOfTheTitle`); a tip is shown while the pointer is on its row or on it, or a
timer to hide it runs, and while the pointer is on another row that row's timer will replace it (`WhyATipIsShown`). Who is there (`WhoIsThere`): `ShareInv` says that a room is negotiated once,
that a client in a map, of the task or of one that has ended, has joined and its leaving is not yet reported (`JoinedOnce`), and
that the list has every one of them or will when its event is taken, unless a stop is on its way or the last
one missed it (`WatchersListed`); a tab's device is connected (`TabsAreListed`), and a code on show has its poller
(`CodesArePolled`). The far side (`FarSide`): what the phone shows follows a snapshot from
the store through the debounce timer, the calls on their way and the backend's buffer to the phone, with one
conjunct per place, each of which says that the latest snapshot is there if in none of the places before
(`TimerIsLatest`, `LastUpdateIsLatest`, `BufferIsLatest`, `PhoneHasBuffer`); once the history was
asked for, every chunk broadcast is in one of the places between the host and the terminal (`AllIsThere`), or among those
the host had no room for (`outdated`) or did not relay to this client (`unrelayed`).
The browser (`ItsPage`): the mounted viewer is the active tab's (`MountedIsActive`), every hidden page is the
mounted viewer's or was lost to a change of tabs (`HiddenAreLost`, `HidingIsUndone`), and what is picked
is what the address says unless one of the two changed without the other (`PickedIsShown`).

*MCTerminal.* `DrawnTrue`: an uploaded texture is behind its page and never ahead of it (`UploadsAreBehind`), so that
a redraw after the last change of the pages shows them; an addon loaded is the one
registered (`AddonsAreHere`); and the sizes: what was told last is the size the PTY will have when the calls are
served (`ToldOf`), what is announced last is the size it has (`LastAnnounced`), and a terminal
that no announcement will change already has it (`Follows`). `TruthTold`: in a shell that reports
exit codes a command the tracker has not lost is pending only between its two marks and neither failed nor in the history
before it ended (`MarksInv`); a tab's output after its grace period is unseen unless the tab is in front
(`LateIsUnseen`); a task that helps is the popup's, was killed, or was left while it listened (`HelpIsLookedAfter`);
and the stars: where list and file differ an answer on its way will tell (`OnItsWay`), and of several the last
one tells the truth (`LastTellsTheFile`).

`TabsCatchUp` is about three queues (calls, replies, broadcasts) between two lists. A list that the webview has
applied is the server's when it was the last one answered (`LastListIs`) and nobody has told, or is being told,
that it is another one (`TabsQuiet`); every broadcast of a single session is of one the server has, or a list
follows it (`NewsBacked`), and so is every answer (`AnswersBacked`): that is why an update that
arrives late brings no closed tab back for good. The first list asked for is the first answer
(`FirstAsks`, `FirstAnswers`), so a start does not undo what came later. `TabsAre` then says that, once no list is
on its way, the tabs are the server's sessions but for those whose closing is still to be handled,
and that the active tab is one of them.

*Typing.* A step of the four parts is a step of one of them, and `TypingRuns` shows that what runs in
`MCTerminal` is what the theorems of `Typing_proofs` are about. `InputAlwaysArrives` has the four reasons why
text arrives once and in order. The input bar (`BarInv`): an image is in one place only,
attached, on its way from the pane, or settled (`EachInOnePlace`), and what is taken from the pane is no longer
kept there. The completion (`CompletionInv`): a popup that Enter takes from was navigated with its own items
(`PickedIn`). The input methods (`WinInv`, `MacInv`): what was sent, then what the events under way will
send, then what is being composed are the letters typed, each once and in order (`InOrder`), as
long as nothing was lost in the ways section 4 names; on macOS what is held belongs to a live session, and an
update is told only between a start and an end that were handled. Sequences of events are flattened by a
recursive function whose two equations are proved from the well-foundedness of the naturals, as for the sums
above. `TypingTyped` (types) needs, of the overlay, an invariant of its own: `OverlayInv` says that the anchor is never right of
the cursor, or of where the first echo will put it. Its proof showed that a mark of a prompt between a send
and its echo leaves the anchor left of the first column, which the model now has.

*MCWorkspace.* `NothingGoesBack` is an action property: a snapshot is shown only if none with a later generation
was. `ViewInv` counts refreshes, keeps every reading in the past of its repository, and says that
the reading of the current generation is newer than what is cached and shown (`LastIsNewest`).
`ActionsEndWell` and `FilesAreAlwaysCurrent` (one tab per file; results of the search that is typed;
a tree that is current unless a listing due or under way will make it so: `FreshListings`) have the invariants
of their parts. `HistoryAlwaysTrue` has the two algorithms and the window: in the commit
graph a lane a row leaves open crosses every row since, in its own column, and waits for its commit
(`ParentsAreReached`); a row's lanes are as many as the lines that end in it (`RowsFit`); the answer to the
last request decides what the window shows (`DetailIsTheLast`, `RefsAreTheLast`). `WorkAlwaysKept` has the
conflict parser: reading a line leaves the place in the source where the pieces say (`ParserStands`), and every
line of text is as often among the pieces and buffers as in what was read (`TextsAreKept`), so none is
lost and none doubled; the merge editor, which writes what has no conflict left (`WriteInv`); the saves of
discarded patches, of which the last under way is of the list on show (`SavesInv`); and hard resets, which only
the warning confirms (`ResetInv`).

*Model-checked only.* Every liveness property (`RequestsReturn`, `ReadersResume`, `CwdIsSaved`,
`StopReturns`): fairness and `ENABLED` are beyond the prover. Of the safety properties, `TypeOK` of `MCTerminal` and of
`MCWorkspace`: the types the theorems above rest on are proved with them (those of typing as `TypingTyped`, of the
tabs in `TabTypes`, and so on), but some parts type more than any theorem needs.
Where a model was changed so that it could be reasoned about, the change lost nothing: an order of
entries nobody observes became a set (`CommandHistory`, `BrowserViews`), a fold and the filtering of a list
became recursive functions (`Branches` in `GitGraph`, `Without` in `Tabs`).

## 6. Not modelled

Of the modelled parts: the contents and order of output on the server, the limit on history,
split geometry, names and shells; Unix-only process
killing; the cwd poller on Windows; a replay whose write fails in `CreateSession`
(the loop goes on to its next failure); a state file with an outdated version (it is
deleted, and starts the server blank as an unreadable one does). In the webview: rendering,
wording, translations, themes, key bindings and menus that only call a modelled handler.

Of the system: the stream parsers and the pane tree (small and sequential; unit tests reach
them); the file watcher; hosting by pairing code and the internals of hosting by account (the window's view of
the latter is `Sharing`); the remote client's chunked answers; signaling, presence beyond prompts and WebRTC
(external services and a library); the Git backend (git and the parsing of its output: the panels' models take
any answer git can give); the updater, settings, notifications, keyboard hook and log readers (thin wrappers
over files and services). `PROJECT.json` gives each its reason.

## 7. Plan

Done: all modules of section 2, and proofs of every safety property of the runs but the two named at the
end of section 5.

Left, in this order:

1. Proofs: the types of `MCTerminal` and `MCWorkspace`, part by part.
2. `AccountHosting` with PTY sizes of several clients, then pairing: the client limit, no
   ghost client, one announcement per disconnection, host sizes restored.
3. `ApiChunks` (2 requests, 3 chunks, one time-out), `FileWatcher`, presence's reconnections.
4. The pane tree, OSC 7, OSC 133 and the alternate screen against reference definitions over
   bounded inputs (independence of how the output is split).
