---------------------------- MODULE SessionServer ----------------------------
(***************************************************************************)
(* racemo-server's sessions (src-tauri/src/ipc/server.rs, session.rs,      *)
(* persistence.rs): the sessions and their panes, the PTYs behind them, the *)
(* state file they are saved to, and the crashes and restarts in between.  *)
(*                                                                         *)
(* A session's pane tree is the sequence of its leaves from left to right: *)
(* split puts the new leaf next to its target, close removes one.          *)
(* Directions, ratios, names and last commands only matter in that changing *)
(* them saves the state.  The ServerState mutex is held for a whole         *)
(* request, so a request is one action, but for ListSessions, whose        *)
(* restores a crash may cut short.                                         *)
(***************************************************************************)
EXTENDS Naturals, Sequences, SequencesExt, TLC, TLAPS

CONSTANTS SessionIds, PaneIds, PtyIds,  \* UUIDs: a new one is never in use
          Dirs, Home,                   \* working directories; $HOME is one
          MaxDiskFaults                 \* bound: saves and loads the disk refuses

ASSUME DirsAssumption == Home \in Dirs
ASSUME BoundAssumption == MaxDiskFaults \in Nat

None == "none"

VARIABLES
  up,        \* the process runs
  sessions,  \* Vec<Session>
  ptys,      \* the PtyHandles
  cwd,       \* cwd_map: pty -> directory or None
  dirty,     \* cwd_dirty
  active,    \* active_session_id, or None
  pending,   \* pending_sessions, as they were saved
  restoring, \* what a ListSessions in progress has still to restore
  reporting, \* PTYs whose reader stored a directory and not yet the flag
  draining,  \* killed PTYs whose reader threads have not ended
  disk,      \* the state file: its sessions (none: no file) and active session
  faults,    \* how many saves and loads failed
  born,      \* history: the sessions ever created
  closed,    \* history: those a client closed
  lost,      \* history: those dropped because restoring them failed
  leaked,    \* history: PTYs spawned for a split or a restore that failed
  dead,      \* history: PTYs killed for a respawn that failed
  overwrote  \* history: sessions were written while others were pending

readers == <<reporting, draining>>
waiting == <<pending, restoring>>
file == <<disk, faults, overwrote>>
fates == <<born, closed, lost>>
strays == <<leaked, dead>>
vars == <<up, sessions, ptys, cwd, dirty, active, waiting, readers, file, fates,
          strays>>

Leaf == [pane : PaneIds, pty : PtyIds, dir : Dirs \cup {None}]
Session == [id : SessionIds, leaves : Seq(Leaf)]
SavedSession == [id : SessionIds, leaves : Seq(Dirs \cup {None})]

Ids(q) == {s.id : s \in ToSet(q)}
PtysOf(s) == {l.pty : l \in ToSet(s.leaves)}
PanesOf(s) == {l.pane : l \in ToSet(s.leaves)}
Owned == UNION {PtysOf(s) : s \in ToSet(sessions)}
UsedPanes == UNION {PanesOf(s) : s \in ToSet(sessions)}

NoFile == [sessions |-> <<>>, active |-> None]

(* Types; a session always has a pane, on disk too (session.rs 59-68).        *)
TypeOK ==
  /\ up \in BOOLEAN
  /\ sessions \in Seq(Session)
  /\ pending \in Seq(SavedSession) /\ restoring \in Seq(SavedSession)
  /\ disk \in [sessions : Seq(SavedSession), active : SessionIds \cup {None}]
  /\ \A s \in ToSet(sessions) : s.leaves # <<>>
  /\ \A s \in ToSet(disk.sessions \o pending \o restoring) : s.leaves # <<>>
  /\ ptys \subseteq PtyIds
  /\ cwd \in [PtyIds -> Dirs \cup {None}]
  /\ dirty \in BOOLEAN
  /\ active \in SessionIds \cup {None}
  /\ reporting \cup draining \cup leaked \cup dead \subseteq PtyIds
  /\ faults \in 0..MaxDiskFaults
  /\ closed \cup lost \subseteq born /\ born \subseteq SessionIds
  /\ overwrote \in BOOLEAN

Init ==
  /\ up = FALSE
  /\ sessions = <<>> /\ ptys = {} /\ cwd = [p \in PtyIds |-> None]
  /\ dirty = FALSE /\ active = None
  /\ pending = <<>> /\ restoring = <<>> /\ reporting = {} /\ draining = {}
  /\ disk = NoFile /\ faults = 0 /\ overwrote = FALSE
  /\ born = {} /\ closed = {} /\ lost = {} /\ leaked = {} /\ dead = {}

(* Mutant: the directory saved is the one of the last restart.                *)
SavedLeafOfNodeFirst(l, dirs) == IF l.dir # None THEN l.dir ELSE dirs[l.pty]

-----------------------------------------------------------------------------
(* pane_node_to_saved: the PTY's directory, or the leaf's if it has none.     *)
SavedLeaf(l, dirs) == IF dirs[l.pty] # None THEN dirs[l.pty] ELSE l.dir

Saved(ss, dirs) ==
  [i \in DOMAIN ss |->
     [id |-> ss[i].id,
      leaves |-> [j \in DOMAIN ss[i].leaves |-> SavedLeaf(ss[i].leaves[j], dirs)]]]

Written(ss, act, dirs) == [sessions |-> Saved(ss, dirs), active |-> act]

(* What a save comes to: the file is replaced atomically, or nothing happens.  *)
Save(content) ==
  \/ /\ disk' = content
     /\ overwrote' = (overwrote \/ (content # NoFile /\ pending # <<>>))
     /\ UNCHANGED faults
  \/ /\ faults < MaxDiskFaults
     /\ faults' = faults + 1
     /\ UNCHANGED <<disk, overwrote>>

(* Mutant: the check for sessions that wait to be restored is missing.        *)
PersistForgettingPending(ss, act, dirs) ==
  Save(IF ss = <<>> THEN NoFile ELSE Written(ss, act, dirs))

(* persist(): keep the file while nothing is restored yet, remove it when the *)
(* last session is closed, replace it otherwise.  A failure is only logged.   *)
Persist(ss, act, dirs) ==
  \/ /\ ss = <<>> /\ pending # <<>>
     /\ UNCHANGED file
  \/ /\ ss = <<>> /\ pending = <<>>
     /\ Save(NoFile)
  \/ /\ ss # <<>>
     /\ Save(Written(ss, act, dirs))

Serving == up /\ restoring = <<>>

FreshPty == PtyIds \ (ptys \cup Owned \cup draining \cup leaked \cup dead)
FreshPane == PaneIds \ UsedPanes

StartDir(d) == IF d = None THEN Home ELSE d

Spawn(p, d) ==
  /\ ptys' = ptys \cup {p}
  /\ cwd' = [cwd EXCEPT ![p] = StartDir(d)]

(* kill_pty.  The reader thread goes on until it meets the end of its input.   *)
Kill(ps) ==
  /\ ptys' = ptys \ ps
  /\ cwd' = [p \in PtyIds |-> IF p \in ps THEN None ELSE cwd[p]]
  /\ draining' = draining \cup (ps \cap ptys)

NewLeaf(k, p) == [pane |-> k, pty |-> p, dir |-> None]

CreateSession ==
  /\ Serving
  /\ \E s \in SessionIds \ born, k \in FreshPane, p \in FreshPty, d \in Dirs :
       /\ Spawn(p, d)
       /\ active' = s
       /\ sessions' = Append(sessions,
            [id |-> s, leaves |-> <<NewLeaf(k, p)>>])
       /\ born' = born \cup {s}
       /\ Persist(sessions', s, cwd')
  /\ UNCHANGED <<up, dirty, waiting, readers, closed, lost, strays>>

(* Mutant: the closed session stays the active one.                          *)
CloseSessionKeepsActive(s) ==
  /\ Serving
  /\ \E i \in DOMAIN sessions :
       /\ sessions[i].id = s
       /\ Kill(PtysOf(sessions[i]))
       /\ sessions' = RemoveAt(sessions, i)
  /\ closed' = closed \cup {s}
  /\ Persist(sessions', active, cwd')
  /\ UNCHANGED <<up, dirty, active, waiting, reporting, born, lost, strays>>

AttachSession(s) ==
  /\ Serving /\ s \in Ids(sessions)
  /\ active' = s
  /\ Persist(sessions, s, cwd)
  /\ UNCHANGED <<up, sessions, ptys, cwd, dirty, waiting, readers, fates, strays>>

CloseSession(s) ==
  /\ Serving
  /\ \E i \in DOMAIN sessions :
       /\ sessions[i].id = s
       /\ Kill(PtysOf(sessions[i]))
       /\ sessions' = RemoveAt(sessions, i)
  /\ active' = IF sessions' = <<>> THEN None ELSE Last(sessions').id
  /\ closed' = closed \cup {s}
  /\ Persist(sessions', active', cwd')
  /\ UNCHANGED <<up, dirty, waiting, reporting, born, lost, strays>>

(* RenameSession, SetPaneLastCommand, ResizePane: what they change is not      *)
(* modelled, that they save is.                                              *)
EditSession(s) ==
  /\ Serving /\ s \in Ids(sessions)
  /\ Persist(sessions, active, cwd)
  /\ UNCHANGED <<up, sessions, ptys, cwd, dirty, active, waiting, readers, fates,
                 strays>>

(* The new PTY starts in the directory of the pane that is split.            *)
SplitPane ==
  /\ Serving
  /\ \E i \in DOMAIN sessions, k \in FreshPane, p \in FreshPty :
       \E j \in DOMAIN sessions[i].leaves, before \in BOOLEAN :
         /\ Spawn(p, cwd[sessions[i].leaves[j].pty])
         /\ sessions' = [sessions EXCEPT ![i].leaves =
              InsertAt(@, IF before THEN j ELSE j + 1, NewLeaf(k, p))]
         /\ Persist(sessions', active, cwd')
  /\ UNCHANGED <<up, dirty, active, waiting, readers, fates, strays>>

(* The PTY is spawned before the session and the pane are looked up: an error *)
(* leaves it running.                                                        *)
SplitUnknownPane ==
  /\ Serving
  /\ \E p \in FreshPty : Spawn(p, None) /\ leaked' = leaked \cup {p}
  /\ UNCHANGED <<up, sessions, dirty, active, waiting, readers, file, fates, dead>>

(* Mutant: the last pane can be closed.                                      *)
ClosePaneEvenLast ==
  /\ Serving
  /\ \E i \in DOMAIN sessions : \E j \in DOMAIN sessions[i].leaves :
       /\ sessions' = [sessions EXCEPT ![i].leaves = RemoveAt(@, j)]
       /\ Persist(sessions', active, cwd)
       /\ Kill({sessions[i].leaves[j].pty})
  /\ UNCHANGED <<up, dirty, active, waiting, reporting, fates, strays>>

(* The last pane is never closed.  The state is saved before the kill.        *)
ClosePane ==
  /\ Serving
  /\ \E i \in DOMAIN sessions : \E j \in DOMAIN sessions[i].leaves :
       /\ Len(sessions[i].leaves) > 1
       /\ sessions' = [sessions EXCEPT ![i].leaves = RemoveAt(@, j)]
       /\ Persist(sessions', active, cwd)
       /\ Kill({sessions[i].leaves[j].pty})
  /\ UNCHANGED <<up, dirty, active, waiting, reporting, fates, strays>>

(* Mutant: the old PTY is not killed.                                        *)
RespawnKeepsOldPty ==
  /\ Serving
  /\ \E i \in DOMAIN sessions, p \in FreshPty :
       \E j \in DOMAIN sessions[i].leaves :
         /\ Spawn(p, cwd[sessions[i].leaves[j].pty])
         /\ sessions' = [sessions EXCEPT ![i].leaves[j].pty = p]
         /\ Persist(sessions', active, cwd')
  /\ UNCHANGED <<up, dirty, active, waiting, readers, fates, strays>>

(* The old PTY is killed, then a new one spawned in its directory.            *)
RespawnPty ==
  /\ Serving
  /\ \E i \in DOMAIN sessions, p \in FreshPty :
       \E j \in DOMAIN sessions[i].leaves :
         LET old == sessions[i].leaves[j].pty IN
           /\ ptys' = (ptys \ {old}) \cup {p}
           /\ cwd' = [cwd EXCEPT ![old] = None, ![p] = StartDir(cwd[old])]
           /\ draining' = draining \cup ({old} \cap ptys)
           /\ sessions' = [sessions EXCEPT ![i].leaves[j].pty = p]
           /\ Persist(sessions', active, cwd')
  /\ UNCHANGED <<up, dirty, active, waiting, reporting, fates, strays>>

(* The spawn failed: the pane keeps the id of the PTY just killed.            *)
RespawnFails ==
  /\ Serving
  /\ \E p \in Owned : Kill({p}) /\ dead' = dead \cup {p}
  /\ UNCHANGED <<up, sessions, dirty, active, waiting, reporting, file, fates, leaked>>

(* Mutant: the pending sessions are copied, not taken.                        *)
ListSessionsKeepsPending ==
  /\ Serving /\ pending # <<>>
  /\ restoring' = pending
  /\ UNCHANGED <<up, sessions, ptys, cwd, dirty, active, pending, readers, file,
                 fates, strays>>

-----------------------------------------------------------------------------
(* ListSessions: what was pending is restored now, one session after another. *)
ListSessions ==
  /\ Serving /\ pending # <<>>
  /\ restoring' = pending
  /\ pending' = <<>>
  /\ UNCHANGED <<up, sessions, ptys, cwd, dirty, active, readers, file, fates, strays>>

(* The leaves get new pane ids and PTYs, in their order.  (The check for a     *)
(* session of the same id never applies: DistinctSessions.)                  *)
RestoreSession ==
  /\ up /\ restoring # <<>>
  /\ restoring' = Tail(restoring)
  /\ LET s == Head(restoring)
         n == Len(s.leaves)
     IN /\ s.id \notin Ids(sessions)
        /\ \E k \in [1..n -> FreshPane], p \in [1..n -> FreshPty] :
             /\ IsInjective(k) /\ IsInjective(p)
             /\ sessions' = Append(sessions,
                  [id |-> s.id,
                   leaves |-> [i \in 1..n |->
                     [pane |-> k[i], pty |-> p[i], dir |-> s.leaves[i]]]])
             /\ ptys' = ptys \cup ToSet(p)
             /\ cwd' = [q \in PtyIds |->
                  IF q \in ToSet(p)
                    THEN StartDir(s.leaves[CHOOSE i \in 1..n : p[i] = q])
                    ELSE cwd[q]]
  /\ UNCHANGED <<up, dirty, active, pending, readers, file, fates, strays>>

(* A leaf cannot be spawned (its directory is gone): the session is given up,  *)
(* and the PTYs of the leaves before it run on.                              *)
RestoreFails ==
  /\ up /\ restoring # <<>>
  /\ restoring' = Tail(restoring)
  /\ LET s == Head(restoring) IN
       /\ s.id \notin Ids(sessions)
       /\ lost' = lost \cup {s.id}
       /\ \E n \in 0..(Len(s.leaves) - 1) : \E p \in [1..n -> FreshPty] :
            /\ IsInjective(p)
            /\ ptys' = ptys \cup ToSet(p)
            /\ leaked' = leaked \cup ToSet(p)
            /\ cwd' = [q \in PtyIds |->
                 IF q \in ToSet(p)
                   THEN StartDir(s.leaves[CHOOSE i \in 1..n : p[i] = q])
                   ELSE cwd[q]]
  /\ UNCHANGED <<up, sessions, dirty, active, pending, readers, file, born, closed,
                 dead>>

-----------------------------------------------------------------------------
(* The reader thread of p parsed an OSC 7 sequence: it stores the directory,   *)
(* then the flag, without the ServerState mutex, even when p was just killed. *)
ReportCwd(p) ==
  /\ up /\ p \in ptys \cup draining
  /\ \E d \in Dirs : cwd' = [cwd EXCEPT ![p] = d]
  /\ reporting' = reporting \cup {p}
  /\ UNCHANGED <<up, sessions, ptys, dirty, active, waiting, draining, file, fates,
                 strays>>

MarkDirty(p) ==
  /\ up /\ p \in reporting
  /\ dirty' = TRUE
  /\ reporting' = reporting \ {p}
  /\ UNCHANGED <<up, sessions, ptys, cwd, active, waiting, draining, file, fates,
                 strays>>

ReaderEnds(p) ==
  /\ up /\ p \in draining \ reporting
  /\ draining' = draining \ {p}
  /\ UNCHANGED <<up, sessions, ptys, cwd, dirty, active, waiting, reporting, file,
                 fates, strays>>

(* The 5 s task takes the flag first and reads the directories after, so a     *)
(* report in between is saved now and once more later.                       *)
PersistTick ==
  /\ Serving /\ sessions # <<>> /\ dirty
  /\ dirty' = FALSE
  /\ Persist(sessions, active, cwd)
  /\ UNCHANGED <<up, sessions, ptys, cwd, active, waiting, readers, fates, strays>>

-----------------------------------------------------------------------------
Start ==
  /\ ~up
  /\ up' = TRUE
  /\ pending' = disk.sessions
  /\ active' = disk.active
  /\ UNCHANGED <<sessions, ptys, cwd, dirty, restoring, readers, file, fates, strays>>

(* The file cannot be read: the server starts as if there were none.          *)
StartBlank ==
  /\ ~up /\ faults < MaxDiskFaults
  /\ up' = TRUE
  /\ faults' = faults + 1
  /\ UNCHANGED <<sessions, ptys, cwd, dirty, active, waiting, readers, disk,
                 overwrote, fates, strays>>

Down ==
  /\ up' = FALSE
  /\ sessions' = <<>> /\ ptys' = {} /\ cwd' = [p \in PtyIds |-> None]
  /\ dirty' = FALSE /\ active' = None
  /\ pending' = <<>> /\ restoring' = <<>> /\ reporting' = {} /\ draining' = {}
  /\ leaked' = {} /\ dead' = {}
  /\ UNCHANGED fates

Crash ==
  /\ up
  /\ Down
  /\ UNCHANGED file

Shutdown ==
  /\ Serving
  /\ Persist(sessions, active, cwd)
  /\ Down

Handler ==
  \/ CreateSession \/ SplitPane \/ SplitUnknownPane \/ ClosePane
  \/ RespawnPty \/ RespawnFails
  \/ \E s \in SessionIds : AttachSession(s) \/ CloseSession(s) \/ EditSession(s)
  \/ ListSessions

Restore == RestoreSession \/ RestoreFails

Reader(p) == ReportCwd(p) \/ MarkDirty(p) \/ ReaderEnds(p)

Next ==
  \/ Handler \/ Restore \/ PersistTick
  \/ \E p \in PtyIds : Reader(p)
  \/ Start \/ StartBlank \/ Crash \/ Shutdown

Spec == Init /\ [][Next]_vars

(* The timer ticks, the reader threads run and a request in progress ends.    *)
FairSpec ==
  /\ Spec
  /\ WF_vars(PersistTick) /\ WF_vars(Restore)
  /\ \A p \in PtyIds : WF_vars(MarkDirty(p))

-----------------------------------------------------------------------------
(* Panes and PTYs correspond: no two panes, of whatever sessions, share a PTY *)
(* or an id, every pane's PTY runs unless a respawn failed, and no PTY runs   *)
(* without a pane but those of splits and restores that failed                *)
(* (server.rs 276-603, 703-727, 822-830, 1080-1318).                          *)
PanesHavePtys ==
  /\ \A s, t \in DOMAIN sessions :
       \A i \in DOMAIN sessions[s].leaves, j \in DOMAIN sessions[t].leaves :
         LET l == sessions[s].leaves[i]  m == sessions[t].leaves[j] IN
           l.pane = m.pane \/ l.pty = m.pty => s = t /\ i = j
  /\ Owned \subseteq ptys \cup dead
  /\ ptys \subseteq Owned \cup leaked

(* A session is at most once among those served and those still to restore,   *)
(* so restoring one never meets a session of its id (server.rs 792-820).       *)
DistinctSessions ==
  /\ IsInjective([i \in DOMAIN sessions |-> sessions[i].id])
  /\ LET rest == restoring \o pending
     IN IsInjective([i \in DOMAIN rest |-> rest[i].id])
  /\ Ids(sessions) \cap Ids(restoring \o pending) = {}

(* Whatever crashes and restarts come in between, as long as the disk works    *)
(* and no save overwrote pending sessions: a session that a client created is  *)
(* on disk and known to a running server until a client closes it or restoring *)
(* it fails, and one that was closed never comes back                         *)
(* (server.rs 729-757, 776-820, 1080-1104).                                   *)
SessionsSurvive ==
  LET known == Ids(sessions) \cup Ids(restoring \o pending) IN
    faults = 0 /\ ~overwrote =>
      /\ born \ (closed \cup lost) \subseteq Ids(disk.sessions)
      /\ up => born \ (closed \cup lost) \subseteq known
      /\ closed \cap (known \cup Ids(disk.sessions)) = {}

(* The active session, which a restarted webview asks for and a restarted      *)
(* server starts from, is one that the server or the file has, unless          *)
(* restoring it failed (server.rs 731-757, 778-790, 1010-1104).                *)
ActiveIsKnown ==
  /\ active \in {None} \cup Ids(sessions) \cup Ids(restoring \o pending) \cup lost
  /\ disk.active \in {None} \cup Ids(disk.sessions) \cup lost

(* The directory a shell changed to reaches the state file, with no request   *)
(* to save it (server.rs 447-452, 1391-1405).                                 *)
CwdIsSaved ==
  \A p \in PtyIds, d \in Dirs :
    (p \in Owned \cap ptys /\ cwd[p] = d) ~>
      \/ p \notin Owned \cap ptys \/ cwd[p] # d
      \/ \E i \in DOMAIN sessions : \E j \in DOMAIN sessions[i].leaves :
           /\ sessions[i].leaves[j].pty = p
           /\ \E t \in ToSet(disk.sessions) :
                /\ t.id = sessions[i].id /\ j \in DOMAIN t.leaves
                /\ StartDir(t.leaves[j]) = d
      \/ faults > 0 \/ overwrote

(* For TLC: ids are random UUIDs, only whether two of them are equal matters. *)
Symmetry == Permutations(PaneIds) \cup Permutations(PtyIds)
              \cup Permutations(SessionIds)

-----------------------------------------------------------------------------
(***************************************************************************)
(* Proofs.  Inv: the types (Types); the ids of the sessions served, pending *)
(* and being restored are apart and were born (Distinct); the active       *)
(* session is one of them (ActiveThere); and, with a working disk and no    *)
(* overwriting save, nothing is served before what was pending, so the file *)
(* and the memory know the same sessions (Kept).  Matched, that panes and  *)
(* PTYs correspond, is inductive with the types alone.                     *)
(***************************************************************************)
(* The ids in a sequence of sessions, by their places, and that none is twice.*)
Apart(q) == \A i, j \in 1..Len(q) : q[i].id = q[j].id => i = j

(* The empty sequence is one of any type.                                     *)
LEMMA EmptySeq == ASSUME NEW S PROVE <<>> \in Seq(S) /\ Len(<<>>) = 0
  OBVIOUS

(* What joining two sequences makes.                                          *)
LEMMA Joined ==
  ASSUME NEW S, NEW s \in Seq(S), NEW t \in Seq(S)
  PROVE  /\ s \o t \in Seq(S) /\ Len(s) \in Nat /\ Len(t) \in Nat
         /\ Len(s \o t) = Len(s) + Len(t)
  OBVIOUS

(* The ids, and the elements, of a sequence are those at its places.          *)
LEMMA IdsAre ==
  ASSUME NEW S, NEW q \in Seq(S)
  PROVE  /\ Len(q) \in Nat /\ DOMAIN q = 1..Len(q)
         /\ \A i \in 1..Len(q) : q[i].id \in Ids(q) /\ q[i] \in S
         /\ \A x \in Ids(q) : \E i \in 1..Len(q) : q[i].id = x
         /\ ToSet(q) = {q[i] : i \in 1..Len(q)}
<1>1. Len(q) \in Nat /\ DOMAIN q = 1..Len(q) /\ \A i \in 1..Len(q) : q[i] \in S
  OBVIOUS
<1>2. ToSet(q) = {q[i] : i \in 1..Len(q)}
  BY <1>1 DEF ToSet
<1>. QED
  BY <1>1, <1>2 DEF Ids

(* No session has no id.                                                      *)
LEMMA EmptyIds == Ids(<<>>) = {} /\ Apart(<<>>)
<1>1. Ids(<<>>) = {}
  BY DEF Ids, ToSet
<1>. QED
  BY <1>1 DEF Apart

(* A change that keeps every id keeps the ids.                                *)
LEMMA SameIds ==
  ASSUME NEW S, NEW T, NEW q \in Seq(S), NEW r \in Seq(T), Len(r) = Len(q),
         \A i \in 1..Len(q) : r[i].id = q[i].id
  PROVE  Ids(r) = Ids(q) /\ (Apart(q) => Apart(r))
<1>1. Ids(r) = Ids(q)
  <2>1. \A x \in Ids(r) : x \in Ids(q)
    BY IdsAre
  <2>2. \A x \in Ids(q) : x \in Ids(r)
    BY IdsAre
  <2>. QED
    BY <2>1, <2>2
<1>2. Apart(q) => Apart(r)
  BY DEF Apart
<1>. QED
  BY <1>1, <1>2

(* A session of a new id, appended, adds its id and keeps them apart.         *)
LEMMA AppendIds ==
  ASSUME NEW S, NEW q \in Seq(S), NEW e \in S
  PROVE  /\ Append(q, e) \in Seq(S) /\ Append(q, e) # <<>>
         /\ Ids(Append(q, e)) = Ids(q) \cup {e.id}
         /\ Apart(q) /\ e.id \notin Ids(q) => Apart(Append(q, e))
<1>. DEFINE r == Append(q, e)
<1>1. /\ r \in Seq(S) /\ Len(q) \in Nat /\ Len(r) = Len(q) + 1 /\ r[Len(q) + 1] = e /\ r # <<>>
      /\ \A i \in 1..Len(q) : i \in 1..Len(r) /\ r[i] = q[i]
      /\ \A i \in 1..Len(r) : i \in 1..Len(q) \/ i = Len(q) + 1
      /\ Len(q) + 1 \in 1..Len(r)
  OBVIOUS
<1>. HIDE DEF r
<1>2. Ids(r) = Ids(q) \cup {e.id}
  <2>1. \A x \in Ids(r) : x \in Ids(q) \cup {e.id}
    <3>. SUFFICES ASSUME NEW x \in Ids(r) PROVE x \in Ids(q) \cup {e.id}
      OBVIOUS
    <3>1. PICK i \in 1..Len(r) : r[i].id = x
      BY <1>1, IdsAre
    <3>. QED
      BY <1>1, <3>1, IdsAre
  <2>2. \A x \in Ids(q) : x \in Ids(r)
    <3>. SUFFICES ASSUME NEW x \in Ids(q) PROVE x \in Ids(r)
      OBVIOUS
    <3>1. PICK i \in 1..Len(q) : q[i].id = x
      BY IdsAre
    <3>. QED
      BY <1>1, <3>1, IdsAre
  <2>3. e.id \in Ids(r)
    BY <1>1, IdsAre
  <2>. QED
    BY <2>1, <2>2, <2>3
<1>3. ASSUME Apart(q), e.id \notin Ids(q) PROVE Apart(r)
  <2>1. \A i \in 1..Len(q) : q[i].id # e.id
    BY <1>3, IdsAre
  <2>. QED
    BY <1>1, <1>3, <2>1 DEF Apart
<1>. QED
  BY <1>1, <1>2, <1>3 DEF r

(* The first session, taken off, takes its id along.                          *)
LEMMA TailIds ==
  ASSUME NEW S, NEW q \in Seq(S), q # <<>>
  PROVE  /\ Tail(q) \in Seq(S) /\ Head(q) \in S /\ Head(q).id \in Ids(q)
         /\ Ids(q) = Ids(Tail(q)) \cup {Head(q).id}
         /\ Apart(q) => Apart(Tail(q)) /\ Head(q).id \notin Ids(Tail(q))
<1>. DEFINE r == Tail(q)
<1>1. /\ r \in Seq(S) /\ Len(q) \in Nat /\ Len(r) = Len(q) - 1 /\ Head(q) = q[1] /\ 1 \in 1..Len(q)
      /\ \A i \in 1..Len(r) : i + 1 \in 1..Len(q) /\ r[i] = q[i + 1] /\ i + 1 # 1
      /\ \A i \in 1..Len(q) : i = 1 \/ i - 1 \in 1..Len(r)
  OBVIOUS
<1>. HIDE DEF r
<1>a. \A i \in 1..Len(q) : i = 1 \/ (i - 1 \in 1..Len(r) /\ r[i - 1] = q[i])
  <2>. SUFFICES ASSUME NEW i \in 1..Len(q), i # 1 PROVE i - 1 \in 1..Len(r) /\ r[i - 1] = q[i]
    OBVIOUS
  <2>1. i - 1 \in 1..Len(r) /\ (i - 1) + 1 = i
    BY <1>1
  <2>. QED
    BY <1>1, <2>1
<1>2. \A x \in Ids(r) : x \in Ids(q)
  <2>. SUFFICES ASSUME NEW x \in Ids(r) PROVE x \in Ids(q)
    OBVIOUS
  <2>1. PICK i \in 1..Len(r) : r[i].id = x
    BY <1>1, IdsAre
  <2>2. i + 1 \in 1..Len(q) /\ q[i + 1].id = x
    BY <1>1, <2>1
  <2>3. \A j \in 1..Len(q) : q[j].id \in Ids(q)
    BY IdsAre
  <2>. QED
    BY <2>2, <2>3
<1>3. \A x \in Ids(q) : x \in Ids(r) \cup {Head(q).id}
  <2>. SUFFICES ASSUME NEW x \in Ids(q) PROVE x \in Ids(r) \cup {Head(q).id}
    OBVIOUS
  <2>1. PICK i \in 1..Len(q) : q[i].id = x
    BY IdsAre
  <2>. QED
    BY <1>1, <1>a, <2>1, IdsAre
<1>4. Head(q).id \in Ids(q) /\ Head(q) \in S
  BY <1>1, IdsAre
<1>5. ASSUME Apart(q) PROVE Apart(r) /\ Head(q).id \notin Ids(r)
  <2>1. \A i \in 1..Len(r), j \in 1..Len(r) : r[i].id = r[j].id => i = j
    <3>. SUFFICES ASSUME NEW i \in 1..Len(r), NEW j \in 1..Len(r), r[i].id = r[j].id PROVE i = j
      OBVIOUS
    <3>1. i + 1 = j + 1
      BY <1>1, <1>5 DEF Apart
    <3>. QED
      BY <3>1
  <2>2. ASSUME Head(q).id \in Ids(r) PROVE FALSE
    <3>a. \A x \in Ids(r) : \E i \in 1..Len(r) : r[i].id = x
      BY <1>1, IdsAre
    <3>1. PICK i \in 1..Len(r) : r[i].id = Head(q).id
      BY <2>2, <3>a
    <3>2. i + 1 \in 1..Len(q) /\ q[i + 1].id = q[1].id /\ i + 1 # 1
      BY <1>1, <3>1
    <3>. QED
      BY <1>1, <1>5, <3>2 DEF Apart
  <2>. QED
    BY <2>1, <2>2 DEF Apart
<1>. QED
  BY <1>1, <1>2, <1>3, <1>4, <1>5 DEF r

(* What RemoveAt leaves.                                                      *)
LEMMA Removed ==
  ASSUME NEW S, NEW q \in Seq(S), NEW k \in 1..Len(q)
  PROVE  /\ RemoveAt(q, k) \in Seq(S) /\ Len(RemoveAt(q, k)) = Len(q) - 1 /\ Len(q) \in Nat
         /\ \A i \in 1..Len(RemoveAt(q, k)) :
              RemoveAt(q, k)[i] = IF i < k THEN q[i] ELSE q[i + 1]
<1>1. Len(q) \in Nat /\ k \in Nat /\ k >= 1 /\ k <= Len(q)
  OBVIOUS
<1>. DEFINE a == SubSeq(q, 1, k - 1)
            b == SubSeq(q, k + 1, Len(q))
<1>2. /\ a \in Seq(S) /\ Len(a) = k - 1 /\ \A i \in 1..(k - 1) : a[i] = q[i]
  BY <1>1
<1>3. /\ b \in Seq(S) /\ Len(b) = Len(q) - k /\ \A i \in 1..(Len(q) - k) : b[i] = q[i + k]
  BY <1>1
<1>4. RemoveAt(q, k) = a \o b
  BY DEF RemoveAt
<1>. HIDE DEF a, b
<1>5. a \o b \in Seq(S) /\ Len(a \o b) = Len(q) - 1
  <2>1. a \o b \in Seq(S) /\ Len(a \o b) = Len(a) + Len(b)
    BY <1>2, <1>3, Joined, Zenon
  <2>. QED
    BY <1>1, <1>2, <1>3, <2>1
<1>6. ASSUME NEW i \in 1..Len(a \o b) PROVE (a \o b)[i] = IF i < k THEN q[i] ELSE q[i + 1]
  <2>1. CASE i < k
    <3>1. i \in 1..(k - 1)
      BY <1>1, <1>5, <2>1
    <3>2. (a \o b)[i] = a[i]
      BY <1>1, <1>2, <1>3, <3>1
    <3>. QED
      BY <1>2, <2>1, <3>1, <3>2
  <2>2. CASE ~(i < k)
    <3>1. i - (k - 1) \in 1..(Len(q) - k) /\ (i - (k - 1)) + k = i + 1
      BY <1>1, <1>5, <2>2
    <3>2. (a \o b)[i] = b[i - (k - 1)]
      BY <1>1, <1>2, <1>3, <1>5, <2>2
    <3>. QED
      BY <1>3, <2>2, <3>1, <3>2
  <2>. QED
    BY <2>1, <2>2
<1>. QED
  BY <1>1, <1>4, <1>5, <1>6

(* What InsertAt makes: typed, and never empty.                               *)
LEMMA Inserted ==
  ASSUME NEW S, NEW q \in Seq(S), NEW k \in 1..(Len(q) + 1), NEW e \in S
  PROVE  InsertAt(q, k, e) \in Seq(S) /\ InsertAt(q, k, e) # <<>>
<1>1. Len(q) \in Nat /\ k \in Nat /\ k >= 1 /\ k <= Len(q) + 1
  OBVIOUS
<1>. DEFINE a == SubSeq(q, 1, k - 1)
            b == SubSeq(q, k, Len(q))
            c == <<e>>
<1>2. a \in Seq(S) /\ Len(a) = k - 1
  BY <1>1
<1>3. b \in Seq(S) /\ Len(b) \in Nat
  BY <1>1
<1>4. c \in Seq(S) /\ Len(c) = 1
  OBVIOUS
<1>5. InsertAt(q, k, e) = a \o c \o b
  BY DEF InsertAt
<1>. HIDE DEF a, b, c
<1>6. a \o c \in Seq(S) /\ Len(a \o c) = Len(a) + Len(c)
  BY <1>2, <1>4, Joined, Zenon
<1>7. a \o c \o b \in Seq(S) /\ Len(a \o c \o b) = Len(a \o c) + Len(b)
  BY <1>3, <1>6, Joined, Zenon
<1>8. Len(a \o c \o b) > 0
  BY <1>1, <1>2, <1>3, <1>4, <1>6, <1>7
<1>. QED
  BY <1>5, <1>7, <1>8

(* RemoveAt takes away the id of the session it removes and no other.         *)
LEMMA RemoveIds ==
  ASSUME NEW S, NEW q \in Seq(S), NEW k \in 1..Len(q)
  PROVE  /\ Ids(q) = Ids(RemoveAt(q, k)) \cup {q[k].id}
         /\ Apart(q) => Apart(RemoveAt(q, k)) /\ q[k].id \notin Ids(RemoveAt(q, k))
<1>. DEFINE r == RemoveAt(q, k)
<1>1. /\ r \in Seq(S) /\ Len(r) = Len(q) - 1 /\ Len(q) \in Nat
      /\ \A i \in 1..Len(r) : r[i] = IF i < k THEN q[i] ELSE q[i + 1]
  BY Removed
<1>. HIDE DEF r
<1>. DEFINE At(i) == IF i < k THEN i ELSE i + 1
<1>2. \A i \in 1..Len(r) : At(i) \in 1..Len(q) /\ r[i] = q[At(i)]
  BY <1>1
<1>3. \A i, j \in 1..Len(r) : At(i) = At(j) => i = j
  BY <1>1
<1>6. \A i \in 1..Len(r) : At(i) # k
  BY <1>1
<1>7. \A i \in 1..Len(q) : i = k \/ \E j \in 1..Len(r) : At(j) = i
  <2>. SUFFICES ASSUME NEW i \in 1..Len(q), i # k PROVE \E j \in 1..Len(r) : At(j) = i
    OBVIOUS
  <2>1. CASE i < k
    <3>1. i \in 1..Len(r) /\ At(i) = i
      BY <1>1, <2>1
    <3>. QED
      BY <3>1
  <2>2. CASE i > k
    <3>1. i - 1 \in 1..Len(r) /\ At(i - 1) = i
      BY <1>1, <2>2
    <3>. QED
      BY <3>1
  <2>. QED
    BY <2>1, <2>2
<1>. HIDE DEF At
<1>4. \A x \in Ids(r) : x \in Ids(q)
  <2>. SUFFICES ASSUME NEW x \in Ids(r) PROVE x \in Ids(q)
    OBVIOUS
  <2>1. PICK i \in 1..Len(r) : r[i].id = x
    BY <1>1, IdsAre
  <2>. QED
    BY <1>2, <2>1, IdsAre
<1>5. Apart(q) => Apart(r)
  BY <1>2, <1>3 DEF Apart
<1>8. \A x \in Ids(q) : x \in Ids(r) \cup {q[k].id}
  <2>. SUFFICES ASSUME NEW x \in Ids(q), x # q[k].id PROVE x \in Ids(r)
    OBVIOUS
  <2>1. PICK i \in 1..Len(q) : q[i].id = x
    BY IdsAre
  <2>2. PICK j \in 1..Len(r) : At(j) = i
    BY <1>7, <2>1
  <2>. QED
    BY <1>1, <1>2, <2>1, <2>2, IdsAre
<1>9. Apart(q) => q[k].id \notin Ids(r)
  <2>. SUFFICES ASSUME Apart(q), q[k].id \in Ids(r) PROVE FALSE
    OBVIOUS
  <2>1. \A x \in Ids(r) : \E i \in 1..Len(r) : r[i].id = x
    BY <1>1, IdsAre
  <2>2. PICK i \in 1..Len(r) : r[i].id = q[k].id
    BY <2>1
  <2>. QED
    BY <1>2, <1>6, <2>2 DEF Apart
<1>10. q[k].id \in Ids(q)
  BY IdsAre
<1>. QED
  BY <1>4, <1>5, <1>8, <1>9, <1>10 DEF r
-----------------------------------------------------------------------------
(* Sessions, as served and as saved, that have a pane.                        *)
FullSession == {s \in Session : s.leaves # <<>>}
FullSaved == {s \in SavedSession : s.leaves # <<>>}
MaybeDir == Dirs \cup {None}
MaybeId == SessionIds \cup {None}

(* The types, with every session having a pane.                               *)
Types ==
  /\ up \in BOOLEAN
  /\ sessions \in Seq(FullSession)
  /\ pending \in Seq(FullSaved) /\ restoring \in Seq(FullSaved)
  /\ disk \in [sessions : Seq(FullSaved), active : MaybeId]
  /\ ptys \subseteq PtyIds
  /\ cwd \in [PtyIds -> MaybeDir]
  /\ dirty \in BOOLEAN
  /\ active \in MaybeId
  /\ reporting \subseteq PtyIds /\ draining \subseteq PtyIds
  /\ leaked \subseteq PtyIds /\ dead \subseteq PtyIds
  /\ faults \in 0..MaxDiskFaults
  /\ closed \subseteq born /\ lost \subseteq born /\ born \subseteq SessionIds
  /\ overwrote \in BOOLEAN

(* A session with other leaves.                                              *)
LEMMA Relaid ==
  ASSUME NEW s \in FullSession, NEW x \in Seq(Leaf), x # <<>>
  PROVE  [s EXCEPT !.leaves = x] \in FullSession /\ [s EXCEPT !.leaves = x].id = s.id
  BY DEF FullSession, Session

(* Other leaves for one of the sessions keep the ids of all.                  *)
LEMMA Edited ==
  ASSUME NEW ss \in Seq(FullSession), NEW k \in 1..Len(ss), NEW x \in Seq(Leaf), x # <<>>
  PROVE  /\ [ss EXCEPT ![k].leaves = x] \in Seq(FullSession)
         /\ [ss EXCEPT ![k].leaves = x] # <<>>
         /\ Ids([ss EXCEPT ![k].leaves = x]) = Ids(ss)
         /\ Apart(ss) => Apart([ss EXCEPT ![k].leaves = x])
<1>. DEFINE e == [ss[k] EXCEPT !.leaves = x]
            r == [ss EXCEPT ![k] = e]
<1>1. ss[k] \in FullSession /\ Len(ss) \in Nat
  OBVIOUS
<1>2. e \in FullSession /\ e.id = ss[k].id
  BY <1>1, Relaid
<1>3. [ss EXCEPT ![k].leaves = x] = r
  OBVIOUS
<1>. HIDE DEF e
<1>4. /\ r \in Seq(FullSession) /\ Len(r) = Len(ss) /\ \A i \in 1..Len(ss) : r[i] = IF i = k THEN e ELSE ss[i]
  BY <1>1, <1>2
<1>. HIDE DEF r
<1>5. \A i \in 1..Len(ss) : r[i].id = ss[i].id
  BY <1>2, <1>4
<1>6. Ids(r) = Ids(ss) /\ (Apart(ss) => Apart(r))
  BY <1>4, <1>5, SameIds
<1>7. r # <<>>
  BY <1>1, <1>4
<1>. QED
  BY <1>3, <1>4, <1>6, <1>7

(* A session as it is saved: typed, with a pane, under its id.                *)
LEMMA SavedOnce ==
  ASSUME NEW s \in FullSession, NEW dirs \in [PtyIds -> MaybeDir]
  PROVE  LET w == [id |-> s.id, leaves |-> [j \in DOMAIN s.leaves |-> SavedLeaf(s.leaves[j], dirs)]]
         IN  w \in FullSaved /\ w.id = s.id
<1>1. s.leaves \in Seq(Leaf) /\ s.leaves # <<>> /\ s.id \in SessionIds
  BY DEF FullSession, Session
<1>. DEFINE x == [j \in DOMAIN s.leaves |-> SavedLeaf(s.leaves[j], dirs)]
<1>2. \A j \in DOMAIN s.leaves : SavedLeaf(s.leaves[j], dirs) \in MaybeDir
  <2>. SUFFICES ASSUME NEW j \in DOMAIN s.leaves PROVE SavedLeaf(s.leaves[j], dirs) \in MaybeDir
    OBVIOUS
  <2>1. s.leaves[j] \in Leaf
    BY <1>1
  <2>2. s.leaves[j].pty \in PtyIds /\ s.leaves[j].dir \in MaybeDir
    BY <2>1 DEF Leaf, MaybeDir
  <2>. QED
    BY <2>2 DEF SavedLeaf
<1>3. DOMAIN s.leaves = 1..Len(s.leaves) /\ Len(s.leaves) \in Nat /\ Len(s.leaves) # 0
  BY <1>1
<1>4. x \in [1..Len(s.leaves) -> MaybeDir]
  BY <1>2, <1>3
<1>5. x \in Seq(MaybeDir) /\ Len(x) = Len(s.leaves)
  BY <1>3, <1>4
<1>. HIDE DEF x
<1>6. x # <<>>
  BY <1>3, <1>5
<1>7. [id |-> s.id, leaves |-> x] \in FullSaved /\ [id |-> s.id, leaves |-> x].id = s.id
  BY <1>1, <1>5, <1>6 DEF FullSaved, SavedSession, MaybeDir
<1>. QED
  BY <1>7 DEF x

(* The file gets the sessions under their ids, in their order.                *)
LEMMA SavedAll ==
  ASSUME NEW ss \in Seq(FullSession), NEW dirs \in [PtyIds -> MaybeDir]
  PROVE  /\ Saved(ss, dirs) \in Seq(FullSaved)
         /\ Ids(Saved(ss, dirs)) = Ids(ss) /\ (Apart(ss) => Apart(Saved(ss, dirs)))
<1>. DEFINE W(s) == [id |-> s.id, leaves |-> [j \in DOMAIN s.leaves |-> SavedLeaf(s.leaves[j], dirs)]]
            r == [i \in DOMAIN ss |-> W(ss[i])]
<1>1. \A s \in FullSession : W(s) \in FullSaved /\ W(s).id = s.id
  BY SavedOnce
<1>2. Saved(ss, dirs) = r
  BY DEF Saved
<1>. HIDE DEF W
<1>3. DOMAIN ss = 1..Len(ss) /\ Len(ss) \in Nat /\ \A i \in 1..Len(ss) : ss[i] \in FullSession
  OBVIOUS
<1>4. r \in [1..Len(ss) -> FullSaved]
  BY <1>1, <1>3
<1>5. r \in Seq(FullSaved) /\ Len(r) = Len(ss)
  BY <1>3, <1>4
<1>6. \A i \in 1..Len(ss) : r[i].id = ss[i].id
  BY <1>1, <1>3
<1>. HIDE DEF r
<1>7. Ids(r) = Ids(ss) /\ (Apart(ss) => Apart(r))
  BY <1>5, <1>6, SameIds
<1>. QED
  BY <1>2, <1>5, <1>7

(* What persist() may do to the file.                                         *)
LEMMA Persists ==
  ASSUME Types, NEW ss \in Seq(FullSession), NEW act \in MaybeId, NEW dirs \in [PtyIds -> MaybeDir],
         Persist(ss, act, dirs)
  PROVE  /\ disk' \in [sessions : Seq(FullSaved), active : MaybeId]
         /\ faults' \in 0..MaxDiskFaults /\ overwrote' \in BOOLEAN
         /\ \/ disk' = disk
            \/ ss = <<>> /\ pending = <<>> /\ disk' = NoFile
            \/ ss # <<>> /\ disk' = Written(ss, act, dirs)
<1>1. NoFile \in [sessions : Seq(FullSaved), active : MaybeId]
  BY EmptySeq DEF NoFile, MaybeId
<1>2. Written(ss, act, dirs) \in [sessions : Seq(FullSaved), active : MaybeId]
  BY SavedAll DEF Written
<1>3. \A c : Save(c) => /\ disk' \in {c, disk} /\ faults' \in 0..MaxDiskFaults /\ overwrote' \in BOOLEAN
  <2>. SUFFICES ASSUME NEW c, Save(c)
                PROVE  disk' \in {c, disk} /\ faults' \in 0..MaxDiskFaults /\ overwrote' \in BOOLEAN
    OBVIOUS
  <2>1. disk' \in {c, disk}
    BY DEF Save
  <2>2. faults' \in 0..MaxDiskFaults
    BY BoundAssumption DEF Save, Types
  <2>3. overwrote' \in BOOLEAN
    BY Zenon DEF Save, Types
  <2>. QED
    BY <2>1, <2>2, <2>3
<1>4. \/ UNCHANGED file
      \/ ss = <<>> /\ pending = <<>> /\ Save(NoFile)
      \/ ss # <<>> /\ Save(Written(ss, act, dirs))
  BY DEF Persist
<1>5. UNCHANGED file => disk' = disk /\ faults' \in 0..MaxDiskFaults /\ overwrote' \in BOOLEAN
  BY DEF file, Types
<1>6. disk \in [sessions : Seq(FullSaved), active : MaybeId]
  BY DEF Types
<1>. QED
  BY <1>1, <1>2, <1>3, <1>4, <1>5, <1>6

(* ... when the disk works and no pending session is overwritten.             *)
LEMMA PersistsWell ==
  ASSUME Types, NEW ss \in Seq(FullSession), NEW act, NEW dirs \in [PtyIds -> MaybeDir],
         Persist(ss, act, dirs), faults' = 0, ~overwrote'
  PROVE  /\ faults = 0 /\ ~overwrote
         /\ \/ ss = <<>> /\ pending # <<>> /\ disk' = disk
            \/ ss = <<>> /\ pending = <<>> /\ disk' = NoFile
            \/ ss # <<>> /\ pending = <<>> /\ disk' = Written(ss, act, dirs)
<1>1. ASSUME ss # <<>> PROVE Written(ss, act, dirs) # NoFile
  <2>1. Len(ss) \in Nat /\ Len(ss) # 0 /\ DOMAIN ss = 1..Len(ss)
    BY <1>1
  <2>2. 1 \in DOMAIN Saved(ss, dirs)
    BY <2>1 DEF Saved
  <2>3. Saved(ss, dirs) # <<>>
    BY <2>2
  <2>. QED
    BY <2>3 DEF Written, NoFile
<1>2. ASSUME NEW c, Save(c)
      PROVE  disk' = c /\ faults = 0 /\ ~overwrote /\ (c # NoFile => pending = <<>>)
  <2>1. faults \in Nat
    BY BoundAssumption DEF Types
  <2>2. ~(faults < MaxDiskFaults /\ faults' = faults + 1 /\ UNCHANGED <<disk, overwrote>>)
    BY <2>1
  <2>3. /\ disk' = c /\ UNCHANGED faults
        /\ overwrote' = (overwrote \/ (c # NoFile /\ pending # <<>>))
    BY <1>2, <2>2 DEF Save
  <2>4. ~overwrote /\ (c # NoFile => pending = <<>>)
    BY <2>3, Zenon
  <2>. QED
    BY <2>3, <2>4
<1>3. CASE ss = <<>> /\ pending # <<>> /\ UNCHANGED file
  BY <1>3 DEF file
<1>4. CASE ss = <<>> /\ pending = <<>> /\ Save(NoFile)
  BY <1>2, <1>4
<1>5. CASE ss # <<>> /\ Save(Written(ss, act, dirs))
  BY <1>1, <1>2, <1>5
<1>. QED
  BY <1>3, <1>4, <1>5 DEF Persist

-----------------------------------------------------------------------------
(* A PTY starts in a directory.                                               *)
LEMMA StartDirs == \A d \in MaybeDir : StartDir(d) \in MaybeDir /\ StartDir(d) \in Dirs
  BY DirsAssumption DEF StartDir, MaybeDir

(* A new pane's leaf is one.                                                  *)
LEMMA NewLeaves ==
  \A k \in PaneIds, p \in PtyIds : NewLeaf(k, p) \in Leaf
  BY DEF NewLeaf, Leaf

(* A session of one new pane.                                                 *)
LEMMA NewSessions ==
  ASSUME NEW s \in SessionIds, NEW k \in PaneIds, NEW p \in PtyIds
  PROVE  LET n == [id |-> s, leaves |-> <<NewLeaf(k, p)>>] IN n \in FullSession /\ n.id = s
<1>1. NewLeaf(k, p) \in Leaf
  BY NewLeaves
<1>. DEFINE x == <<NewLeaf(k, p)>>
<1>2. x \in Seq(Leaf) /\ x # <<>>
  BY <1>1
<1>. HIDE DEF x
<1>3. [id |-> s, leaves |-> x] \in FullSession /\ [id |-> s, leaves |-> x].id = s
  BY <1>2 DEF FullSession, Session
<1>. QED
  BY <1>3 DEF x

(* A restored session: its leaves in their order, with new panes and PTYs.    *)
LEMMA Restored ==
  ASSUME NEW s \in FullSaved, NEW k \in [1..Len(s.leaves) -> PaneIds], NEW p \in [1..Len(s.leaves) -> PtyIds]
  PROVE  LET n == [id |-> s.id, leaves |-> [i \in 1..Len(s.leaves) |->
                     [pane |-> k[i], pty |-> p[i], dir |-> s.leaves[i]]]]
         IN  n \in FullSession /\ n.id = s.id
<1>1. s.id \in SessionIds /\ s.leaves \in Seq(MaybeDir) /\ s.leaves # <<>>
  BY DEF FullSaved, SavedSession, MaybeDir
<1>2. Len(s.leaves) \in Nat /\ Len(s.leaves) # 0 /\ \A i \in 1..Len(s.leaves) : s.leaves[i] \in MaybeDir
  BY <1>1
<1>. DEFINE x == [i \in 1..Len(s.leaves) |-> [pane |-> k[i], pty |-> p[i], dir |-> s.leaves[i]]]
<1>3. \A i \in 1..Len(s.leaves) : [pane |-> k[i], pty |-> p[i], dir |-> s.leaves[i]] \in Leaf
  BY <1>2 DEF Leaf, MaybeDir
<1>4. x \in [1..Len(s.leaves) -> Leaf]
  BY <1>3
<1>5. x \in Seq(Leaf) /\ Len(x) = Len(s.leaves)
  BY <1>2, <1>4
<1>. HIDE DEF x
<1>6. x # <<>>
  BY <1>2, <1>5
<1>7. [id |-> s.id, leaves |-> x] \in FullSession /\ [id |-> s.id, leaves |-> x].id = s.id
  BY <1>1, <1>5, <1>6 DEF FullSession, Session
<1>. QED
  BY <1>7 DEF x

(* The panes' PTYs, and those that are free.                                  *)
LEMMA Ptys ==
  ASSUME Types
  PROVE  /\ FreshPty \subseteq PtyIds /\ FreshPane \subseteq PaneIds /\ Owned \subseteq PtyIds
         /\ \A i \in 1..Len(sessions) :
              /\ sessions[i] \in FullSession /\ sessions[i].leaves \in Seq(Leaf) /\ sessions[i].leaves # <<>>
              /\ PtysOf(sessions[i]) \subseteq PtyIds
              /\ \A j \in 1..Len(sessions[i].leaves) :
                   sessions[i].leaves[j] \in Leaf /\ sessions[i].leaves[j].pty \in PtyIds
         /\ DOMAIN sessions = 1..Len(sessions)
         /\ \A i \in 1..Len(sessions) : DOMAIN sessions[i].leaves = 1..Len(sessions[i].leaves)
<1>1. FreshPty \subseteq PtyIds /\ FreshPane \subseteq PaneIds
  BY DEF FreshPty, FreshPane
<1>2. sessions \in Seq(FullSession)
  BY DEF Types
<1>3. DOMAIN sessions = 1..Len(sessions) /\ \A i \in 1..Len(sessions) : sessions[i] \in FullSession
  BY <1>2
<1>4. ASSUME NEW s \in FullSession
      PROVE  /\ s.leaves \in Seq(Leaf) /\ s.leaves # <<>> /\ DOMAIN s.leaves = 1..Len(s.leaves)
             /\ \A j \in 1..Len(s.leaves) : s.leaves[j] \in Leaf /\ s.leaves[j].pty \in PtyIds
             /\ PtysOf(s) \subseteq PtyIds
  <2>1. s.leaves \in Seq(Leaf) /\ s.leaves # <<>>
    BY DEF FullSession, Session
  <2>2. DOMAIN s.leaves = 1..Len(s.leaves) /\ \A j \in 1..Len(s.leaves) : s.leaves[j] \in Leaf
    BY <2>1
  <2>3. \A j \in 1..Len(s.leaves) : s.leaves[j].pty \in PtyIds
    BY <2>2 DEF Leaf
  <2>4. PtysOf(s) \subseteq PtyIds
    BY <2>2, <2>3 DEF PtysOf, ToSet
  <2>. QED
    BY <2>1, <2>2, <2>3, <2>4
<1>5. Owned \subseteq PtyIds
  BY <1>3, <1>4 DEF Owned, ToSet
<1>. QED
  BY <1>1, <1>3, <1>4, <1>5

(* kill_pty keeps the types.                                                  *)
LEMMA Kills ==
  ASSUME Types, NEW ps, Kill(ps)
  PROVE  ptys' \subseteq PtyIds /\ cwd' \in [PtyIds -> MaybeDir] /\ draining' \subseteq PtyIds
<1>1. None \in MaybeDir
  BY DEF MaybeDir
<1>. QED
  BY <1>1 DEF Kill, Types

(* spawn_pty keeps the types.                                                 *)
LEMMA Spawns ==
  ASSUME Types, NEW p \in PtyIds, NEW d \in MaybeDir, Spawn(p, d)
  PROVE  ptys' \subseteq PtyIds /\ cwd' \in [PtyIds -> MaybeDir]
  BY StartDirs DEF Spawn, Types

-----------------------------------------------------------------------------
(* No session is twice where it could be served or restored, nor one in both *)
(* places; while a ListSessions restores, nothing else is pending.           *)
Distinct ==
  /\ Apart(sessions) /\ Apart(pending) /\ Apart(restoring) /\ Apart(disk.sessions)
  /\ Ids(sessions) \cap Ids(pending) = {} /\ Ids(sessions) \cap Ids(restoring) = {}
  /\ Ids(sessions) \subseteq born /\ Ids(pending) \subseteq born
  /\ Ids(restoring) \subseteq born /\ Ids(disk.sessions) \subseteq born
  /\ restoring = <<>> \/ pending = <<>>
  /\ ~up => sessions = <<>> /\ pending = <<>> /\ restoring = <<>>

(* While sessions are served and others pending, the active one is served:   *)
(* a save writes the served ones only.                                       *)
ActiveThere ==
  /\ active \in {None} \cup Ids(sessions) \cup Ids(restoring) \cup Ids(pending) \cup lost
  /\ sessions # <<>> /\ pending # <<>> => active \in {None} \cup Ids(sessions) \cup lost
  /\ disk.active \in {None} \cup Ids(disk.sessions) \cup lost

(* As long as the disk works and no save overwrote pending sessions, nothing *)
(* is served before what was pending is.                                     *)
Kept ==
  faults = 0 /\ ~overwrote =>
    /\ born \ (closed \cup lost) \subseteq Ids(disk.sessions)
    /\ up => born \ (closed \cup lost) \subseteq Ids(sessions) \cup Ids(restoring) \cup Ids(pending)
    /\ closed \cap (Ids(sessions) \cup Ids(restoring) \cup Ids(pending) \cup Ids(disk.sessions)) = {}
    /\ pending # <<>> => sessions = <<>>

(* The inductive invariant.                                                   *)
Inv == Types /\ Distinct /\ ActiveThere /\ Kept

(* A request that saves what it changed.                                      *)
LEMMA Handled ==
  ASSUME Inv, Types', Serving, UNCHANGED <<up, pending, restoring, lost>>,
         NEW dirs \in [PtyIds -> MaybeDir], Persist(sessions', active', dirs),
         Apart(sessions'), Ids(sessions') \subseteq born', born \subseteq born',
         Ids(sessions') \cap Ids(pending) = {},
         active' \in {None} \cup Ids(sessions') \cup Ids(pending) \cup lost,
         sessions' # <<>> => active' \in {None} \cup Ids(sessions') \cup lost,
         sessions # <<>> \/ sessions' # <<>>,
         Ids(sessions) \cup (born' \ born) \subseteq Ids(sessions') \cup closed',
         closed' \cap Ids(sessions') \subseteq closed \cap Ids(sessions), closed \subseteq closed'
  PROVE  Inv'
<1>1. /\ Types /\ Distinct /\ ActiveThere /\ Kept /\ up /\ restoring = <<>>
      /\ sessions' \in Seq(FullSession) /\ active' \in MaybeId
  BY DEF Inv, Serving, Types
<1>2. \/ disk' = disk
      \/ disk' = NoFile
      \/ sessions' # <<>> /\ disk' = Written(sessions', active', dirs)
  BY <1>1, Persists
<1>3. /\ Apart(disk'.sessions) /\ Ids(disk'.sessions) \subseteq born'
      /\ disk'.active \in {None} \cup Ids(disk'.sessions) \cup lost
  <2>1. CASE disk' = disk
    BY <1>1, <2>1 DEF Distinct, ActiveThere
  <2>2. CASE disk' = NoFile
    BY <2>2, EmptyIds DEF NoFile
  <2>3. CASE sessions' # <<>> /\ disk' = Written(sessions', active', dirs)
    <3>1. disk'.sessions = Saved(sessions', dirs) /\ disk'.active = active'
      BY <2>3 DEF Written
    <3>. QED
      BY <1>1, <2>3, <3>1, SavedAll
  <2>. QED
    BY <1>2, <2>1, <2>2, <2>3
<1>4. Ids(restoring) = {} /\ Apart(restoring)
  BY <1>1, EmptyIds
<1>5. Distinct'
  BY <1>1, <1>3, <1>4 DEF Distinct
<1>6. ActiveThere'
  BY <1>1, <1>3, <1>4 DEF ActiveThere
<1>7. ASSUME faults' = 0, ~overwrote'
      PROVE  /\ pending = <<>> /\ Ids(disk'.sessions) = Ids(sessions')
             /\ born' \ (closed' \cup lost) \subseteq Ids(sessions') /\ closed' \cap Ids(sessions') = {}
  <2>1. /\ faults = 0 /\ ~overwrote
        /\ \/ sessions' = <<>> /\ pending # <<>> /\ disk' = disk
           \/ sessions' = <<>> /\ pending = <<>> /\ disk' = NoFile
           \/ sessions' # <<>> /\ pending = <<>> /\ disk' = Written(sessions', active', dirs)
    BY <1>1, <1>7, PersistsWell
  <2>2. pending = <<>>
    BY <1>1, <2>1 DEF Kept
  <2>3. Ids(disk'.sessions) = Ids(sessions')
    <3>1. CASE sessions' = <<>> /\ disk' = NoFile
      BY <3>1 DEF NoFile
    <3>2. CASE sessions' # <<>> /\ disk' = Written(sessions', active', dirs)
      <4>1. disk'.sessions = Saved(sessions', dirs)
        BY <3>2 DEF Written
      <4>. QED
        BY <1>1, <4>1, SavedAll
    <3>. QED
      BY <2>1, <2>2, <3>1, <3>2
  <2>4. Ids(pending) = {}
    BY <2>2, EmptyIds
  <2>5. born \ (closed \cup lost) \subseteq Ids(sessions) /\ closed \cap Ids(sessions) = {}
    BY <1>1, <1>4, <2>1, <2>4 DEF Kept
  <2>. QED
    BY <2>2, <2>3, <2>5
<1>8. Kept'
  <2>. SUFFICES ASSUME faults' = 0, ~overwrote'
                PROVE  /\ born' \ (closed' \cup lost) \subseteq Ids(disk'.sessions) /\ pending = <<>>
                       /\ born' \ (closed' \cup lost) \subseteq Ids(sessions')
                       /\ closed' \cap Ids(sessions') = {} /\ Ids(disk'.sessions) = Ids(sessions')
                       /\ Ids(restoring) = {} /\ Ids(pending) = {}
    BY DEF Kept
  <2>. QED
    BY <1>4, <1>7, EmptyIds
<1>. QED
  BY <1>1, <1>5, <1>6, <1>8 DEF Inv

(* Steps that leave alone what the invariant relates.                         *)
LEMMA Aside ==
  ASSUME Inv, Types', UNCHANGED <<up, sessions, pending, restoring, active, disk, faults, overwrote, born, closed, lost>>
  PROVE  Inv'
  BY DEF Inv, Distinct, ActiveThere, Kept

(* What a request finds before it changes anything.                           *)
LEMMA Before ==
  ASSUME Inv, Serving
  PROVE  /\ Types /\ Distinct /\ Apart(sessions) /\ Ids(sessions) \subseteq born
         /\ Ids(sessions) \cap Ids(pending) = {} /\ Ids(pending) \subseteq born
         /\ active \in {None} \cup Ids(sessions) \cup Ids(pending) \cup lost
         /\ sessions # <<>> => active \in {None} \cup Ids(sessions) \cup lost
         /\ sessions \in Seq(FullSession) /\ cwd \in [PtyIds -> MaybeDir]
         /\ None \in MaybeId /\ active \in MaybeId /\ MaybeId = SessionIds \cup {None}
<1>1. restoring = <<>> /\ Ids(restoring) = {}
  BY EmptyIds DEF Serving
<1>2. Types /\ Distinct /\ ActiveThere
  BY DEF Inv
<1>3. pending = <<>> => Ids(pending) = {}
  BY EmptyIds
<1>4. active \in {None} \cup Ids(sessions) \cup Ids(pending) \cup lost
  BY <1>1, <1>2 DEF ActiveThere
<1>5. sessions # <<>> => active \in {None} \cup Ids(sessions) \cup lost
  BY <1>2, <1>3, <1>4 DEF ActiveThere
<1>6. /\ Apart(sessions) /\ Ids(sessions) \subseteq born
      /\ Ids(sessions) \cap Ids(pending) = {} /\ Ids(pending) \subseteq born
  BY <1>2 DEF Distinct
<1>. QED
  BY <1>2, <1>4, <1>5, <1>6 DEF Types, MaybeId

(* CreateSession: a session of a new id, which becomes the active one.        *)
LEMMA CreateStep == ASSUME Inv, CreateSession PROVE Inv'
<1>1. Serving
  BY DEF CreateSession
<1>2. PICK s \in SessionIds \ born, k \in FreshPane, p \in FreshPty, d \in Dirs :
        /\ Spawn(p, d) /\ active' = s
        /\ sessions' = Append(sessions, [id |-> s, leaves |-> <<NewLeaf(k, p)>>])
        /\ born' = born \cup {s} /\ Persist(sessions', s, cwd')
  BY DEF CreateSession
<1>3. UNCHANGED <<up, dirty, pending, restoring, reporting, draining, closed, lost, leaked, dead>>
  BY DEF CreateSession, waiting, readers, strays
<1>4. k \in PaneIds /\ p \in PtyIds /\ d \in MaybeDir
  BY <1>1, Before, Ptys DEF MaybeDir
<1>. DEFINE n == [id |-> s, leaves |-> <<NewLeaf(k, p)>>]
<1>5. n \in FullSession /\ n.id = s
  BY <1>4, NewSessions
<1>6. sessions' = Append(sessions, n)
  BY <1>2
<1>. HIDE DEF n
<1>7. /\ sessions' \in Seq(FullSession) /\ Ids(sessions') = Ids(sessions) \cup {s} /\ Apart(sessions')
  BY <1>1, <1>2, <1>5, <1>6, Before, AppendIds
<1>8. ptys' \subseteq PtyIds /\ cwd' \in [PtyIds -> MaybeDir]
  BY <1>1, <1>2, <1>4, Before, Spawns
<1>9. s \in MaybeId /\ s \in SessionIds /\ active' \in MaybeId
  BY <1>2 DEF MaybeId
<1>10. disk' \in [sessions : Seq(FullSaved), active : MaybeId] /\ faults' \in 0..MaxDiskFaults /\ overwrote' \in BOOLEAN
  BY <1>1, <1>2, <1>7, <1>8, <1>9, Before, Persists
<1>11. Types'
  BY <1>1, <1>2, <1>3, <1>7, <1>8, <1>9, <1>10, Before DEF Types
<1>12. Persist(sessions', active', cwd')
  BY <1>2
<1>13. /\ Ids(sessions') \subseteq born' /\ born \subseteq born' /\ Ids(sessions') \cap Ids(pending) = {}
       /\ active' \in Ids(sessions') /\ sessions' # <<>>
       /\ Ids(sessions) \cup (born' \ born) \subseteq Ids(sessions')
       /\ closed' \cap Ids(sessions') \subseteq closed \cap Ids(sessions) /\ closed' = closed
  <2>1. closed \subseteq born
    BY <1>1, Before DEF Types
  <2>. QED
    BY <1>1, <1>2, <1>3, <1>7, <2>1, Before, EmptyIds
<1>. QED
  BY <1>1, <1>3, <1>7, <1>8, <1>11, <1>12, <1>13, Handled

(* A request that keeps the sessions, whatever it does to their panes.        *)
LEMMA Relays ==
  ASSUME Inv, Types', Serving, UNCHANGED <<up, pending, restoring, born, closed, lost>>,
         NEW dirs \in [PtyIds -> MaybeDir], Persist(sessions', active', dirs),
         Apart(sessions'), Ids(sessions') = Ids(sessions), sessions # <<>>,
         active' \in {active} \cup Ids(sessions)
  PROVE  Inv'
<1>1. /\ Ids(sessions') \subseteq born' /\ born \subseteq born'
      /\ Ids(sessions') \cap Ids(pending) = {}
      /\ active' \in {None} \cup Ids(sessions') \cup lost
  BY Before
<1>. QED
  BY <1>1, Handled

(* AttachSession and the requests that save without changing a session.       *)
LEMMA AttachStep == ASSUME Inv, NEW s \in SessionIds, AttachSession(s) \/ EditSession(s) PROVE Inv'
<1>1. Serving /\ s \in Ids(sessions) /\ active' \in {active, s} /\ Persist(sessions, active', cwd)
  BY DEF AttachSession, EditSession
<1>2. UNCHANGED <<up, sessions, ptys, cwd, dirty, pending, restoring, reporting, draining, born, closed, lost, leaked, dead>>
  BY DEF AttachSession, EditSession, waiting, readers, fates, strays
<1>3. sessions # <<>>
  BY <1>1, EmptyIds
<1>4. active' \in MaybeId
  BY <1>1, Before
<1>5. disk' \in [sessions : Seq(FullSaved), active : MaybeId] /\ faults' \in 0..MaxDiskFaults /\ overwrote' \in BOOLEAN
  BY <1>1, <1>4, Before, Persists
<1>6. Types'
  BY <1>1, <1>2, <1>4, <1>5, Before DEF Types
<1>7. Persist(sessions', active', cwd) /\ Apart(sessions') /\ Ids(sessions') = Ids(sessions)
  BY <1>1, <1>2, Before
<1>. QED
  BY <1>1, <1>2, <1>3, <1>6, <1>7, Before, Relays

(* SplitPane: the leaves grow, the ids stay.                                  *)
LEMMA SplitStep == ASSUME Inv, SplitPane PROVE Inv'
<1>1. Serving
  BY DEF SplitPane
<1>2. PICK i \in DOMAIN sessions, k \in FreshPane, p \in FreshPty :
        \E j \in DOMAIN sessions[i].leaves, before \in BOOLEAN :
          /\ Spawn(p, cwd[sessions[i].leaves[j].pty])
          /\ sessions' = [sessions EXCEPT ![i].leaves =
               InsertAt(@, IF before THEN j ELSE j + 1, NewLeaf(k, p))]
          /\ Persist(sessions', active, cwd')
  BY DEF SplitPane
<1>3. PICK j \in DOMAIN sessions[i].leaves, before \in BOOLEAN :
          /\ Spawn(p, cwd[sessions[i].leaves[j].pty])
          /\ sessions' = [sessions EXCEPT ![i].leaves =
               InsertAt(@, IF before THEN j ELSE j + 1, NewLeaf(k, p))]
          /\ Persist(sessions', active, cwd')
  BY <1>2
<1>4. UNCHANGED <<up, dirty, active, pending, restoring, reporting, draining, born, closed, lost, leaked, dead>>
  BY DEF SplitPane, waiting, readers, fates, strays
<1>5. /\ i \in 1..Len(sessions) /\ j \in 1..Len(sessions[i].leaves) /\ sessions[i].leaves \in Seq(Leaf)
      /\ k \in PaneIds /\ p \in PtyIds /\ sessions[i].leaves[j].pty \in PtyIds
  BY <1>1, Before, Ptys
<1>6. cwd[sessions[i].leaves[j].pty] \in MaybeDir
  BY <1>1, <1>5, Before
<1>7. ptys' \subseteq PtyIds /\ cwd' \in [PtyIds -> MaybeDir]
  BY <1>1, <1>3, <1>5, <1>6, Before, Spawns
<1>. DEFINE x == InsertAt(sessions[i].leaves, IF before THEN j ELSE j + 1, NewLeaf(k, p))
<1>8. x \in Seq(Leaf) /\ x # <<>>
  <2>1. (IF before THEN j ELSE j + 1) \in 1..(Len(sessions[i].leaves) + 1)
    BY <1>5
  <2>. QED
    BY <1>5, <2>1, NewLeaves, Inserted
<1>9. sessions' = [sessions EXCEPT ![i].leaves = x]
  BY <1>3
<1>. HIDE DEF x
<1>10. sessions' \in Seq(FullSession) /\ sessions' # <<>> /\ Ids(sessions') = Ids(sessions) /\ Apart(sessions')
  BY <1>1, <1>5, <1>8, <1>9, Before, Edited
<1>11. disk' \in [sessions : Seq(FullSaved), active : MaybeId] /\ faults' \in 0..MaxDiskFaults /\ overwrote' \in BOOLEAN
  BY <1>1, <1>3, <1>7, <1>10, Before, Persists
<1>12. Types'
  BY <1>1, <1>4, <1>7, <1>10, <1>11, Before DEF Types
<1>13. sessions # <<>>
  BY <1>5, EmptySeq
<1>14. Persist(sessions', active', cwd')
  BY <1>3, <1>4
<1>. QED
  BY <1>1, <1>4, <1>7, <1>10, <1>12, <1>13, <1>14, Relays

(* ClosePane: a pane is left, the ids stay.                                   *)
LEMMA ClosePaneStep == ASSUME Inv, ClosePane PROVE Inv'
<1>1. Serving
  BY DEF ClosePane
<1>2. PICK i \in DOMAIN sessions : \E j \in DOMAIN sessions[i].leaves :
        /\ Len(sessions[i].leaves) > 1
        /\ sessions' = [sessions EXCEPT ![i].leaves = RemoveAt(@, j)]
        /\ Persist(sessions', active, cwd) /\ Kill({sessions[i].leaves[j].pty})
  BY DEF ClosePane
<1>3. PICK j \in DOMAIN sessions[i].leaves :
        /\ Len(sessions[i].leaves) > 1
        /\ sessions' = [sessions EXCEPT ![i].leaves = RemoveAt(@, j)]
        /\ Persist(sessions', active, cwd) /\ Kill({sessions[i].leaves[j].pty})
  BY <1>2
<1>4. UNCHANGED <<up, dirty, active, pending, restoring, reporting, born, closed, lost, leaked, dead>>
  BY DEF ClosePane, waiting, fates, strays
<1>5. i \in 1..Len(sessions) /\ j \in 1..Len(sessions[i].leaves) /\ sessions[i].leaves \in Seq(Leaf)
  BY <1>1, Before, Ptys
<1>6. ptys' \subseteq PtyIds /\ cwd' \in [PtyIds -> MaybeDir] /\ draining' \subseteq PtyIds
  BY <1>1, <1>3, Before, Kills
<1>. DEFINE x == RemoveAt(sessions[i].leaves, j)
<1>7. x \in Seq(Leaf) /\ x # <<>>
  <2>1. x \in Seq(Leaf) /\ Len(x) = Len(sessions[i].leaves) - 1 /\ Len(sessions[i].leaves) \in Nat
    BY <1>5, Removed
  <2>2. Len(x) > 0
    BY <1>3, <2>1
  <2>. QED
    BY <2>1, <2>2, EmptySeq
<1>8. sessions' = [sessions EXCEPT ![i].leaves = x]
  BY <1>3
<1>. HIDE DEF x
<1>9. sessions' \in Seq(FullSession) /\ sessions' # <<>> /\ Ids(sessions') = Ids(sessions) /\ Apart(sessions')
  BY <1>1, <1>5, <1>7, <1>8, Before, Edited
<1>10. disk' \in [sessions : Seq(FullSaved), active : MaybeId] /\ faults' \in 0..MaxDiskFaults /\ overwrote' \in BOOLEAN
  BY <1>1, <1>3, <1>9, Before, Persists
<1>11. Types'
  BY <1>1, <1>4, <1>6, <1>9, <1>10, Before DEF Types
<1>12. sessions # <<>>
  BY <1>5, EmptySeq
<1>13. Persist(sessions', active', cwd)
  BY <1>3, <1>4
<1>. QED
  BY <1>1, <1>4, <1>9, <1>11, <1>12, <1>13, Before, Relays

(* RespawnPty: a leaf has another PTY, the ids stay.                          *)
LEMMA RespawnStep == ASSUME Inv, RespawnPty PROVE Inv'
<1>1. Serving
  BY DEF RespawnPty
<1>2. PICK i \in DOMAIN sessions, p \in FreshPty : \E j \in DOMAIN sessions[i].leaves :
        LET old == sessions[i].leaves[j].pty IN
          /\ ptys' = (ptys \ {old}) \cup {p}
          /\ cwd' = [cwd EXCEPT ![old] = None, ![p] = StartDir(cwd[old])]
          /\ draining' = draining \cup ({old} \cap ptys)
          /\ sessions' = [sessions EXCEPT ![i].leaves[j].pty = p]
          /\ Persist(sessions', active, cwd')
  BY DEF RespawnPty
<1>3. PICK j \in DOMAIN sessions[i].leaves :
        LET old == sessions[i].leaves[j].pty IN
          /\ ptys' = (ptys \ {old}) \cup {p}
          /\ cwd' = [cwd EXCEPT ![old] = None, ![p] = StartDir(cwd[old])]
          /\ draining' = draining \cup ({old} \cap ptys)
          /\ sessions' = [sessions EXCEPT ![i].leaves[j].pty = p]
          /\ Persist(sessions', active, cwd')
  BY <1>2
<1>4. UNCHANGED <<up, dirty, active, pending, restoring, reporting, born, closed, lost, leaked, dead>>
  BY DEF RespawnPty, waiting, fates, strays
<1>5. /\ i \in 1..Len(sessions) /\ j \in 1..Len(sessions[i].leaves) /\ sessions[i].leaves \in Seq(Leaf)
      /\ p \in PtyIds /\ sessions[i].leaves[j] \in Leaf /\ sessions[i].leaves[j].pty \in PtyIds
      /\ sessions[i].leaves # <<>>
  BY <1>1, Before, Ptys
<1>6. ptys' \subseteq PtyIds /\ cwd' \in [PtyIds -> MaybeDir] /\ draining' \subseteq PtyIds
  <2>1. StartDir(cwd[sessions[i].leaves[j].pty]) \in MaybeDir /\ None \in MaybeDir
    BY <1>1, <1>5, Before, StartDirs DEF MaybeDir
  <2>. QED
    BY <1>1, <1>3, <1>5, <2>1, Before DEF Types
<1>. DEFINE x == [sessions[i].leaves EXCEPT ![j].pty = p]
<1>7. x \in Seq(Leaf) /\ x # <<>>
  <2>1. [sessions[i].leaves[j] EXCEPT !.pty = p] \in Leaf
    BY <1>5 DEF Leaf
  <2>2. x \in Seq(Leaf) /\ Len(x) = Len(sessions[i].leaves)
    BY <1>5, <2>1
  <2>. QED
    BY <1>5, <2>2
<1>8. sessions' = [sessions EXCEPT ![i].leaves = x]
  BY <1>3
<1>. HIDE DEF x
<1>9. sessions' \in Seq(FullSession) /\ sessions' # <<>> /\ Ids(sessions') = Ids(sessions) /\ Apart(sessions')
  BY <1>1, <1>5, <1>7, <1>8, Before, Edited
<1>a. Persist(sessions', active, cwd')
  BY <1>3
<1>10. disk' \in [sessions : Seq(FullSaved), active : MaybeId] /\ faults' \in 0..MaxDiskFaults /\ overwrote' \in BOOLEAN
  BY <1>1, <1>a, <1>6, <1>9, Before, Persists
<1>11. Types'
  BY <1>1, <1>4, <1>6, <1>9, <1>10, Before DEF Types
<1>12. sessions # <<>>
  BY <1>5, EmptySeq
<1>13. Persist(sessions', active', cwd')
  BY <1>a, <1>4
<1>. QED
  BY <1>1, <1>4, <1>6, <1>9, <1>11, <1>12, <1>13, Relays

(* CloseSession: the id goes, and the active session is the last one left.    *)
LEMMA CloseStep == ASSUME Inv, NEW s \in SessionIds, CloseSession(s) PROVE Inv'
<1>1. Serving
  BY DEF CloseSession
<1>2. PICK i \in DOMAIN sessions :
        sessions[i].id = s /\ Kill(PtysOf(sessions[i])) /\ sessions' = RemoveAt(sessions, i)
  BY DEF CloseSession
<1>3. /\ active' = IF sessions' = <<>> THEN None ELSE Last(sessions').id
      /\ closed' = closed \cup {s} /\ Persist(sessions', active', cwd')
      /\ UNCHANGED <<up, dirty, pending, restoring, reporting, born, lost, leaked, dead>>
  BY DEF CloseSession, waiting, strays
<1>4. i \in 1..Len(sessions)
  BY <1>1, Before, Ptys
<1>5. ptys' \subseteq PtyIds /\ cwd' \in [PtyIds -> MaybeDir] /\ draining' \subseteq PtyIds
  BY <1>1, <1>2, Before, Kills
<1>6. /\ sessions' \in Seq(FullSession) /\ Ids(sessions') \subseteq Ids(sessions) /\ Apart(sessions')
      /\ s \in Ids(sessions)
  BY <1>1, <1>2, <1>4, Before, Removed, RemoveIds, IdsAre
<1>a. Ids(sessions) = Ids(sessions') \cup {s} /\ s \notin Ids(sessions')
  BY <1>1, <1>2, <1>4, Before, RemoveIds
<1>7. sessions' # <<>> => active' \in Ids(sessions') /\ active' \in SessionIds
  <2>. SUFFICES ASSUME sessions' # <<>> PROVE active' \in Ids(sessions') /\ active' \in SessionIds
    OBVIOUS
  <2>1. Len(sessions') \in 1..Len(sessions') /\ active' = sessions'[Len(sessions')].id
    BY <1>3, <1>6 DEF Last
  <2>2. sessions'[Len(sessions')].id \in Ids(sessions') /\ sessions'[Len(sessions')] \in FullSession
    BY <1>6, <2>1, IdsAre
  <2>. QED
    BY <2>1, <2>2 DEF FullSession, Session
<1>8. active' \in MaybeId /\ (sessions' = <<>> => active' = None)
  BY <1>3, <1>7 DEF MaybeId
<1>9. disk' \in [sessions : Seq(FullSaved), active : MaybeId] /\ faults' \in 0..MaxDiskFaults /\ overwrote' \in BOOLEAN
  BY <1>1, <1>3, <1>5, <1>6, <1>8, Before, Persists
<1>10. closed' \subseteq born'
  BY <1>1, <1>3, <1>6, Before DEF Types
<1>11. Types'
  BY <1>1, <1>3, <1>5, <1>6, <1>8, <1>9, <1>10, Before DEF Types
<1>12. /\ Ids(sessions') \subseteq born' /\ born \subseteq born' /\ Ids(sessions') \cap Ids(pending) = {}
       /\ active' \in {None} \cup Ids(sessions') /\ sessions # <<>>
       /\ Ids(sessions) \cup (born' \ born) \subseteq Ids(sessions') \cup closed'
       /\ closed' \cap Ids(sessions') \subseteq closed \cap Ids(sessions) /\ closed \subseteq closed'
  BY <1>1, <1>3, <1>6, <1>7, <1>8, <1>a, Before, EmptyIds
<1>. QED
  BY <1>1, <1>3, <1>5, <1>6, <1>11, <1>12, Handled

(* The periodic save.                                                         *)
LEMMA TickStep == ASSUME Inv, PersistTick PROVE Inv'
<1>1. Serving /\ sessions # <<>> /\ dirty' = FALSE /\ Persist(sessions, active, cwd)
  BY DEF PersistTick
<1>2. UNCHANGED <<up, sessions, ptys, cwd, active, pending, restoring, reporting, draining, born, closed, lost, leaked, dead>>
  BY DEF PersistTick, waiting, readers, fates, strays
<1>3. disk' \in [sessions : Seq(FullSaved), active : MaybeId] /\ faults' \in 0..MaxDiskFaults /\ overwrote' \in BOOLEAN
  BY <1>1, Before, Persists
<1>4. Types'
  BY <1>1, <1>2, <1>3, Before DEF Types
<1>5. Persist(sessions', active', cwd) /\ Apart(sessions') /\ Ids(sessions') = Ids(sessions)
  BY <1>1, <1>2, Before
<1>. QED
  BY <1>1, <1>2, <1>4, <1>5, Before, Relays

(* Steps that touch neither the sessions nor the file.                        *)
LEMMA AsideStep ==
  ASSUME Inv, SplitUnknownPane \/ RespawnFails \/ \E p \in PtyIds : Reader(p)
  PROVE  Inv'
<1>0. Types /\ None \in MaybeDir /\ Dirs \subseteq MaybeDir
  BY DEF Inv, MaybeDir
<1>1. CASE SplitUnknownPane
  <2>1. Serving
    BY <1>1 DEF SplitUnknownPane
  <2>2. PICK p \in FreshPty : Spawn(p, None) /\ leaked' = leaked \cup {p}
    BY <1>1 DEF SplitUnknownPane
  <2>3. UNCHANGED <<up, sessions, dirty, active, pending, restoring, reporting, draining, disk, faults, overwrote, born, closed, lost, dead>>
    BY <1>1 DEF SplitUnknownPane, waiting, readers, file, fates
  <2>4. p \in PtyIds
    BY <1>0, <2>2, Ptys
  <2>5. ptys' \subseteq PtyIds /\ cwd' \in [PtyIds -> MaybeDir]
    BY <1>0, <2>2, <2>4, Spawns
  <2>6. Types'
    BY <1>0, <2>2, <2>3, <2>4, <2>5 DEF Types
  <2>. QED
    BY <2>3, <2>6, Aside
<1>2. CASE RespawnFails
  <2>1. PICK p \in Owned : Kill({p}) /\ dead' = dead \cup {p}
    BY <1>2 DEF RespawnFails
  <2>2. UNCHANGED <<up, sessions, dirty, active, pending, restoring, reporting, disk, faults, overwrote, born, closed, lost, leaked>>
    BY <1>2 DEF RespawnFails, waiting, file, fates
  <2>3. p \in PtyIds
    BY <1>0, <2>1, Ptys
  <2>4. ptys' \subseteq PtyIds /\ cwd' \in [PtyIds -> MaybeDir] /\ draining' \subseteq PtyIds
    BY <1>0, <2>1, Kills
  <2>5. Types'
    BY <1>0, <2>1, <2>2, <2>3, <2>4 DEF Types
  <2>. QED
    BY <2>2, <2>5, Aside
<1>3. ASSUME NEW p \in PtyIds, Reader(p) PROVE Inv'
  <2>1. UNCHANGED <<up, sessions, ptys, active, pending, restoring, disk, faults, overwrote, born, closed, lost, leaked, dead>>
    BY <1>3 DEF Reader, ReportCwd, MarkDirty, ReaderEnds, waiting, file, fates, strays
  <2>2. cwd' \in [PtyIds -> MaybeDir]
    BY <1>0, <1>3 DEF Reader, ReportCwd, MarkDirty, ReaderEnds, Types
  <2>3. reporting' \subseteq PtyIds /\ draining' \subseteq PtyIds
    BY <1>0, <1>3 DEF Reader, ReportCwd, MarkDirty, ReaderEnds, Types
  <2>4. dirty' \in BOOLEAN
    BY <1>0, <1>3 DEF Reader, ReportCwd, MarkDirty, ReaderEnds, Types
  <2>5. Types'
    BY <1>0, <2>1, <2>2, <2>3, <2>4 DEF Types
  <2>. QED
    BY <2>1, <2>5, Aside
<1>. QED
  BY <1>1, <1>2, <1>3

(* ListSessions: what was pending is restored next.                           *)
LEMMA ListStep == ASSUME Inv, ListSessions PROVE Inv'
<1>1. Serving /\ pending # <<>> /\ restoring' = pending /\ pending' = <<>>
  BY DEF ListSessions
<1>2. UNCHANGED <<up, sessions, ptys, cwd, dirty, active, reporting, draining, disk, faults, overwrote, born, closed, lost, leaked, dead>>
  BY DEF ListSessions, readers, file, fates, strays
<1>3. Types'
  BY <1>1, <1>2, EmptySeq DEF Inv, Types
<1>4. restoring = <<>> /\ Ids(<<>>) = {} /\ Apart(<<>>) /\ up
  BY <1>1, EmptyIds DEF Serving
<1>5. Distinct'
  BY <1>1, <1>2, <1>4 DEF Inv, Distinct
<1>6. ActiveThere'
  BY <1>1, <1>2, <1>4 DEF Inv, ActiveThere
<1>7. Kept'
  BY <1>1, <1>2, <1>4 DEF Inv, Kept
<1>. QED
  BY <1>3, <1>5, <1>6, <1>7 DEF Inv

(* A session restored goes from those to restore to those served.             *)
LEMMA RestoreStep == ASSUME Inv, RestoreSession PROVE Inv'
<1>1. Types /\ Distinct /\ ActiveThere /\ Kept
  BY DEF Inv
<1>. DEFINE s == Head(restoring)
            n == Len(s.leaves)
<1>2. up /\ restoring # <<>> /\ restoring' = Tail(restoring)
  BY DEF RestoreSession
<1>3. PICK k \in [1..n -> FreshPane], p \in [1..n -> FreshPty] :
             /\ IsInjective(k) /\ IsInjective(p)
             /\ sessions' = Append(sessions,
                  [id |-> s.id,
                   leaves |-> [i \in 1..n |->
                     [pane |-> k[i], pty |-> p[i], dir |-> s.leaves[i]]]])
             /\ ptys' = ptys \cup ToSet(p)
             /\ cwd' = [q \in PtyIds |->
                  IF q \in ToSet(p)
                    THEN StartDir(s.leaves[CHOOSE i \in 1..n : p[i] = q])
                    ELSE cwd[q]]
  BY DEF RestoreSession
<1>4. UNCHANGED <<up, dirty, active, pending, reporting, draining, disk, faults, overwrote, born, closed, lost, leaked, dead>>
  BY DEF RestoreSession, readers, file, fates, strays
<1>5. /\ restoring' \in Seq(FullSaved) /\ s \in FullSaved
      /\ Ids(restoring) = Ids(restoring') \cup {s.id} /\ Apart(restoring') /\ s.id \notin Ids(restoring')
  BY <1>1, <1>2, TailIds DEF Types, Distinct
<1>6. s.leaves \in Seq(MaybeDir) /\ n \in Nat /\ \A i \in 1..n : s.leaves[i] \in MaybeDir
  BY <1>5 DEF FullSaved, SavedSession, MaybeDir
<1>7. k \in [1..n -> PaneIds] /\ p \in [1..n -> PtyIds] /\ ToSet(p) \subseteq PtyIds
      /\ \A q \in ToSet(p) : \E i \in 1..n : p[i] = q
  BY <1>1, <1>3, Ptys DEF ToSet
<1>8. ptys' \subseteq PtyIds
  BY <1>1, <1>3, <1>7 DEF Types
<1>9. cwd' \in [PtyIds -> MaybeDir]
  <2>1. \A q \in ToSet(p) : (CHOOSE i \in 1..n : p[i] = q) \in 1..n
    BY <1>7
  <2>2. \A q \in ToSet(p) : StartDir(s.leaves[CHOOSE i \in 1..n : p[i] = q]) \in MaybeDir
    BY <1>6, <2>1, StartDirs
  <2>3. \A q \in PtyIds : cwd[q] \in MaybeDir
    BY <1>1 DEF Types
  <2>. QED
    BY <1>3, <2>2, <2>3
<1>. DEFINE new == [id |-> s.id, leaves |-> [i \in 1..n |-> [pane |-> k[i], pty |-> p[i], dir |-> s.leaves[i]]]]
<1>10. new \in FullSession /\ new.id = s.id
  BY <1>5, <1>7, Restored
<1>11. sessions' = Append(sessions, new)
  BY <1>3
<1>. HIDE DEF new, n
<1>12. s.id \notin Ids(sessions) /\ s.id \in born /\ s.id \notin Ids(pending)
  <2>1. pending = <<>> /\ Ids(<<>>) = {}
    BY <1>1, <1>2, EmptyIds DEF Distinct
  <2>. QED
    BY <1>1, <1>5, <2>1 DEF Distinct
<1>13. sessions' \in Seq(FullSession) /\ Ids(sessions') = Ids(sessions) \cup {s.id} /\ Apart(sessions')
  BY <1>1, <1>10, <1>11, <1>12, AppendIds DEF Types, Distinct
<1>14. Types'
  BY <1>1, <1>4, <1>5, <1>8, <1>9, <1>13 DEF Types
<1>15. Distinct'
  BY <1>1, <1>2, <1>4, <1>5, <1>12, <1>13 DEF Distinct
<1>16. ActiveThere'
  BY <1>1, <1>2, <1>4, <1>5, <1>13 DEF ActiveThere, Distinct
<1>17. Kept'
  BY <1>1, <1>2, <1>4, <1>5, <1>13 DEF Kept, Distinct
<1>. QED
  BY <1>14, <1>15, <1>16, <1>17 DEF Inv

(* A session given up is lost.                                                *)
LEMMA RestoreFailsStep == ASSUME Inv, RestoreFails PROVE Inv'
<1>1. Types /\ Distinct /\ ActiveThere /\ Kept
  BY DEF Inv
<1>. DEFINE s == Head(restoring)
<1>2. up /\ restoring # <<>> /\ restoring' = Tail(restoring) /\ lost' = lost \cup {s.id}
  BY DEF RestoreFails
<1>3. PICK n \in 0..(Len(s.leaves) - 1) : \E p \in [1..n -> FreshPty] :
            /\ IsInjective(p)
            /\ ptys' = ptys \cup ToSet(p)
            /\ leaked' = leaked \cup ToSet(p)
            /\ cwd' = [q \in PtyIds |->
                 IF q \in ToSet(p)
                   THEN StartDir(s.leaves[CHOOSE i \in 1..n : p[i] = q])
                   ELSE cwd[q]]
  BY DEF RestoreFails
<1>4. PICK p \in [1..n -> FreshPty] :
            /\ ptys' = ptys \cup ToSet(p)
            /\ leaked' = leaked \cup ToSet(p)
            /\ cwd' = [q \in PtyIds |->
                 IF q \in ToSet(p)
                   THEN StartDir(s.leaves[CHOOSE i \in 1..n : p[i] = q])
                   ELSE cwd[q]]
  BY <1>3
<1>5. UNCHANGED <<up, sessions, dirty, active, pending, reporting, draining, disk, faults, overwrote, born, closed, dead>>
  BY DEF RestoreFails, readers, file
<1>6. /\ restoring' \in Seq(FullSaved) /\ s \in FullSaved
      /\ Ids(restoring) = Ids(restoring') \cup {s.id} /\ Apart(restoring')
  BY <1>1, <1>2, TailIds DEF Types, Distinct
<1>7. \A i \in 1..n : s.leaves[i] \in MaybeDir
  <2>1. s.leaves \in Seq(MaybeDir)
    BY <1>6 DEF FullSaved, SavedSession, MaybeDir
  <2>2. Len(s.leaves) \in Nat /\ \A i \in 1..Len(s.leaves) : s.leaves[i] \in MaybeDir
    BY <2>1
  <2>3. 1..n \subseteq 1..Len(s.leaves)
    BY <2>2
  <2>. QED
    BY <2>2, <2>3
<1>8. ToSet(p) \subseteq PtyIds /\ \A q \in ToSet(p) : \E i \in 1..n : p[i] = q
  BY <1>1, Ptys DEF ToSet
<1>9. ptys' \subseteq PtyIds /\ leaked' \subseteq PtyIds
  BY <1>1, <1>4, <1>8 DEF Types
<1>10. cwd' \in [PtyIds -> MaybeDir]
  <2>1. \A q \in ToSet(p) : (CHOOSE i \in 1..n : p[i] = q) \in 1..n
    BY <1>8
  <2>2. \A q \in ToSet(p) : StartDir(s.leaves[CHOOSE i \in 1..n : p[i] = q]) \in MaybeDir
    BY <1>7, <2>1, StartDirs
  <2>3. \A q \in PtyIds : cwd[q] \in MaybeDir
    BY <1>1 DEF Types
  <2>. QED
    BY <1>4, <2>2, <2>3
<1>11. s.id \in born
  BY <1>1, <1>6 DEF Distinct
<1>12. Types'
  BY <1>1, <1>2, <1>5, <1>6, <1>9, <1>10, <1>11 DEF Types
<1>13. Distinct'
  BY <1>1, <1>2, <1>5, <1>6 DEF Distinct
<1>14. ActiveThere'
  BY <1>1, <1>2, <1>5, <1>6 DEF ActiveThere
<1>15. Kept'
  BY <1>1, <1>2, <1>5, <1>6 DEF Kept
<1>. QED
  BY <1>12, <1>13, <1>14, <1>15 DEF Inv

(* A start takes what is on disk as pending, or nothing when it fails.        *)
LEMMA StartStep == ASSUME Inv, Start \/ StartBlank PROVE Inv'
<1>1. Types /\ Distinct /\ ActiveThere /\ Kept
  BY DEF Inv
<1>2. ~up /\ up' = TRUE /\ sessions = <<>> /\ pending = <<>> /\ restoring = <<>>
  BY <1>1 DEF Start, StartBlank, Distinct
<1>3. UNCHANGED <<sessions, ptys, cwd, dirty, restoring, reporting, draining, disk, overwrote, born, closed, lost, leaked, dead>>
  BY DEF Start, StartBlank, waiting, readers, file, fates, strays
<1>4. Ids(<<>>) = {}
  BY EmptyIds
<1>5. CASE Start
  <2>1. pending' = disk.sessions /\ active' = disk.active /\ UNCHANGED faults
    BY <1>5 DEF Start, file
  <2>2. Types'
    BY <1>1, <1>2, <1>3, <2>1 DEF Types
  <2>3. Distinct'
    BY <1>1, <1>2, <1>3, <1>4, <2>1 DEF Distinct
  <2>4. ActiveThere'
    BY <1>1, <1>2, <1>3, <2>1 DEF ActiveThere
  <2>5. Kept'
    BY <1>1, <1>2, <1>3, <1>4, <2>1 DEF Kept
  <2>. QED
    BY <2>2, <2>3, <2>4, <2>5 DEF Inv
<1>6. CASE StartBlank
  <2>1. faults < MaxDiskFaults /\ faults' = faults + 1 /\ UNCHANGED <<pending, active>>
    BY <1>6 DEF StartBlank, waiting
  <2>2. faults' \in 0..MaxDiskFaults
    BY <1>1, <2>1, BoundAssumption DEF Types
  <2>3. Types'
    BY <1>1, <1>2, <1>3, <2>1, <2>2 DEF Types
  <2>4. Distinct'
    BY <1>1, <1>2, <1>3, <2>1 DEF Distinct
  <2>5. ActiveThere'
    BY <1>1, <1>2, <1>3, <2>1 DEF ActiveThere
  <2>6. Kept'
    <3>1. faults' # 0
      BY <1>1, <2>1 DEF Types
    <3>. QED
      BY <3>1 DEF Kept
  <2>. QED
    BY <2>3, <2>4, <2>5, <2>6 DEF Inv
<1>. QED
  BY <1>5, <1>6

(* A crash forgets all but the file, a shutdown saves once more.              *)
LEMMA DownStep == ASSUME Inv, Crash \/ Shutdown PROVE Inv'
<1>1. Types /\ Distinct /\ ActiveThere /\ Kept
  BY DEF Inv
<1>2. /\ up' = FALSE /\ sessions' = <<>> /\ ptys' = {} /\ cwd' = [p \in PtyIds |-> None]
      /\ dirty' = FALSE /\ active' = None /\ pending' = <<>> /\ restoring' = <<>>
      /\ reporting' = {} /\ draining' = {} /\ leaked' = {} /\ dead' = {}
      /\ UNCHANGED <<born, closed, lost>>
  BY DEF Crash, Shutdown, Down, fates
<1>3. /\ disk' \in [sessions : Seq(FullSaved), active : MaybeId]
      /\ faults' \in 0..MaxDiskFaults /\ overwrote' \in BOOLEAN
      /\ Apart(disk'.sessions) /\ Ids(disk'.sessions) \subseteq born
      /\ disk'.active \in {None} \cup Ids(disk'.sessions) \cup lost
  <2>1. CASE Crash
    BY <1>1, <2>1 DEF Crash, file, Types, Distinct, ActiveThere
  <2>2. CASE Shutdown
    <3>1. Serving /\ Persist(sessions, active, cwd)
      BY <2>2 DEF Shutdown
    <3>2. /\ disk' \in [sessions : Seq(FullSaved), active : MaybeId]
          /\ faults' \in 0..MaxDiskFaults /\ overwrote' \in BOOLEAN
          /\ \/ disk' = disk
             \/ disk' = NoFile
             \/ sessions # <<>> /\ disk' = Written(sessions, active, cwd)
      BY <1>1, <3>1, Before, Persists
    <3>3. CASE disk' = disk
      BY <1>1, <3>2, <3>3 DEF Distinct, ActiveThere
    <3>4. CASE disk' = NoFile
      BY <3>2, <3>4, EmptyIds DEF NoFile
    <3>5. CASE sessions # <<>> /\ disk' = Written(sessions, active, cwd)
      <4>1. disk'.sessions = Saved(sessions, cwd) /\ disk'.active = active
        BY <3>5 DEF Written
      <4>. QED
        BY <3>1, <3>2, <3>5, <4>1, Before, SavedAll
    <3>. QED
      BY <3>2, <3>3, <3>4, <3>5
  <2>. QED
    BY <2>1, <2>2
<1>4. None \in MaybeDir /\ None \in MaybeId
  BY DEF MaybeDir, MaybeId
<1>5. Types'
  BY <1>1, <1>2, <1>3, <1>4, EmptySeq DEF Types
<1>6. Ids(<<>>) = {} /\ Apart(<<>>)
  BY EmptyIds
<1>7. Distinct'
  BY <1>2, <1>3, <1>6 DEF Distinct
<1>8. ActiveThere'
  BY <1>2, <1>3 DEF ActiveThere
<1>9. ASSUME faults' = 0, ~overwrote'
      PROVE  /\ born \ (closed \cup lost) \subseteq Ids(disk'.sessions)
             /\ closed \cap Ids(disk'.sessions) = {}
  <2>1. CASE Crash
    BY <1>1, <1>9, <2>1 DEF Crash, file, Kept
  <2>2. CASE Shutdown
    <3>1. Serving /\ Persist(sessions, active, cwd) /\ up /\ restoring = <<>>
      BY <2>2 DEF Shutdown, Serving
    <3>2. /\ faults = 0 /\ ~overwrote
          /\ \/ sessions = <<>> /\ pending # <<>> /\ disk' = disk
             \/ sessions = <<>> /\ pending = <<>> /\ disk' = NoFile
             \/ sessions # <<>> /\ pending = <<>> /\ disk' = Written(sessions, active, cwd)
      BY <1>1, <1>9, <3>1, Before, PersistsWell
    <3>3. CASE disk' = disk
      BY <1>1, <3>2, <3>3 DEF Kept
    <3>4. CASE pending = <<>> /\ Ids(disk'.sessions) = Ids(sessions)
      BY <1>1, <1>6, <3>1, <3>2, <3>4 DEF Kept
    <3>5. CASE sessions = <<>> /\ pending = <<>> /\ disk' = NoFile
      BY <3>4, <3>5 DEF NoFile
    <3>6. CASE sessions # <<>> /\ pending = <<>> /\ disk' = Written(sessions, active, cwd)
      <4>1. disk'.sessions = Saved(sessions, cwd)
        BY <3>6 DEF Written
      <4>. QED
        BY <3>1, <3>4, <3>6, <4>1, Before, SavedAll
    <3>. QED
      BY <3>2, <3>3, <3>5, <3>6
  <2>. QED
    BY <2>1, <2>2
<1>10. Kept'
  BY <1>2, <1>6, <1>9 DEF Kept
<1>. QED
  BY <1>5, <1>7, <1>8, <1>10 DEF Inv

-----------------------------------------------------------------------------
(* The invariant holds of the empty state.                                    *)
LEMMA Initially == Init => Inv
<1>. SUFFICES ASSUME Init PROVE Inv
  OBVIOUS
<1>1. None \in MaybeDir /\ None \in MaybeId /\ 0 \in 0..MaxDiskFaults
  BY BoundAssumption DEF MaybeDir, MaybeId
<1>2. disk \in [sessions : Seq(FullSaved), active : MaybeId] /\ disk.sessions = <<>> /\ disk.active = None
  BY <1>1, EmptySeq DEF Init, NoFile
<1>3. Types
  BY <1>1, <1>2, EmptySeq DEF Init, Types
<1>4. Ids(<<>>) = {} /\ Apart(<<>>)
  BY EmptyIds
<1>5. Distinct /\ ActiveThere /\ Kept
  BY <1>2, <1>4 DEF Init, Distinct, ActiveThere, Kept
<1>. QED
  BY <1>3, <1>5 DEF Inv

(* Every step keeps the invariant.                                            *)
LEMMA Steps == Inv /\ [Next]_vars => Inv'
<1>. SUFFICES ASSUME Inv, [Next]_vars PROVE Inv'
  OBVIOUS
<1>1. CASE UNCHANGED vars
  <2>1. Types'
    BY <1>1 DEF vars, waiting, readers, file, fates, strays, Inv, Types
  <2>. QED
    BY <1>1, <2>1, Aside DEF vars, waiting, file, fates
<1>2. CASE Handler
  BY <1>2, CreateStep, SplitStep, AsideStep, ClosePaneStep, RespawnStep, AttachStep, CloseStep, ListStep DEF Handler
<1>3. CASE Restore
  BY <1>3, RestoreStep, RestoreFailsStep DEF Restore
<1>4. CASE ~Handler /\ ~Restore /\ ~UNCHANGED vars
  BY <1>4, TickStep, AsideStep, StartStep, DownStep DEF Next
<1>. QED
  BY <1>1, <1>2, <1>3, <1>4

(* The invariant holds throughout.                                            *)
LEMMA Always == Spec => []Inv
  BY Initially, Steps, PTL DEF Spec

(* The typed sequences of the invariant are those of TypeOK.                  *)
LEMMA TypesMeanTypeOK == Types => TypeOK
<1>. SUFFICES ASSUME Types PROVE TypeOK
  OBVIOUS
<1>1. ASSUME NEW S, NEW T, NEW q \in Seq(T), T \subseteq S PROVE q \in Seq(S)
  <2>1. Len(q) \in Nat /\ q \in [1..Len(q) -> T]
    OBVIOUS
  <2>2. q \in [1..Len(q) -> S]
    BY <1>1, <2>1
  <2>. QED
    BY <2>1, <2>2
<1>2. FullSession \subseteq Session /\ FullSaved \subseteq SavedSession
  BY DEF FullSession, FullSaved
<1>3. /\ sessions \in Seq(FullSession) /\ pending \in Seq(FullSaved) /\ restoring \in Seq(FullSaved)
      /\ disk.sessions \in Seq(FullSaved) /\ disk \in [sessions : Seq(FullSaved), active : MaybeId]
  BY DEF Types
<1>4. /\ sessions \in Seq(Session) /\ pending \in Seq(SavedSession) /\ restoring \in Seq(SavedSession)
      /\ disk.sessions \in Seq(SavedSession)
  BY <1>1, <1>2, <1>3
<1>5. disk \in [sessions : Seq(SavedSession), active : SessionIds \cup {None}]
  BY <1>3, <1>4 DEF MaybeId
<1>6. \A s \in ToSet(sessions) : s.leaves # <<>>
  BY <1>3, IdsAre DEF FullSession
<1>7. disk.sessions \o pending \o restoring \in Seq(FullSaved)
  <2>1. disk.sessions \o pending \in Seq(FullSaved)
    BY <1>3, Joined, Zenon
  <2>. QED
    BY <1>3, <2>1, Joined, Zenon
<1>8. \A s \in ToSet(disk.sessions \o pending \o restoring) : s.leaves # <<>>
  <2>. DEFINE all == disk.sessions \o pending \o restoring
  <2>1. all \in Seq(FullSaved)
    BY <1>7
  <2>. HIDE DEF all
  <2>2. \A s \in ToSet(all) : s.leaves # <<>>
    BY <2>1, IdsAre DEF FullSaved
  <2>. QED
    BY <2>2 DEF all
<1>. QED
  BY <1>4, <1>5, <1>6, <1>8 DEF Types, TypeOK, MaybeDir, MaybeId

(* What is pending and restored at once is one of the two.                    *)
LEMMA Waiting ==
  ASSUME Inv
  PROVE  /\ restoring \o pending \in {restoring, pending}
         /\ Ids(restoring \o pending) = Ids(restoring) \cup Ids(pending)
<1>1. restoring \in Seq(FullSaved) /\ pending \in Seq(FullSaved) /\ (restoring = <<>> \/ pending = <<>>)
  BY DEF Inv, Types, Distinct
<1>2. CASE restoring = <<>>
  <2>1. restoring \o pending = pending
    BY <1>1, <1>2
  <2>. QED
    BY <1>2, <2>1, EmptyIds
<1>3. CASE pending = <<>>
  <2>1. restoring \o pending = restoring
    BY <1>1, <1>3
  <2>. QED
    BY <1>3, <2>1, EmptyIds
<1>. QED
  BY <1>1, <1>2, <1>3

(* The server's state is well typed and every session, served, saved or to be  *)
(* restored, has a pane, for any sessions, panes, PTYs and disk faults         *)
(* (session.rs 59-68, server.rs 1205-1234).                                    *)
THEOREM TypeCorrect == Spec => []TypeOK
<1>1. Inv => TypeOK
  BY TypesMeanTypeOK DEF Inv
<1>. QED
  BY <1>1, Always, PTL

(* Through any requests, crashes and restarts no session is twice among those *)
(* served and those to restore, so that the check for an existing id in        *)
(* ListSessions never skips one (server.rs 792-820).                          *)
THEOREM SessionsAreDistinct == Spec => []DistinctSessions
<1>1. Inv => DistinctSessions
  <2>. SUFFICES ASSUME Inv PROVE DistinctSessions
    OBVIOUS
  <2>1. ASSUME NEW S, NEW q \in Seq(S), Apart(q) PROVE IsInjective([i \in DOMAIN q |-> q[i].id])
    BY <2>1, IdsAre DEF Apart, IsInjective
  <2>2. /\ sessions \in Seq(FullSession) /\ pending \in Seq(FullSaved) /\ restoring \in Seq(FullSaved)
        /\ Apart(sessions) /\ Apart(pending) /\ Apart(restoring)
    BY DEF Inv, Types, Distinct
  <2>3. IsInjective([i \in DOMAIN sessions |-> sessions[i].id])
    BY <2>1, <2>2
  <2>. DEFINE rest == restoring \o pending
  <2>4. rest \in Seq(FullSaved) /\ Apart(rest)
    BY <2>2, Waiting
  <2>. HIDE DEF rest
  <2>5. IsInjective([i \in DOMAIN rest |-> rest[i].id])
    BY <2>1, <2>4
  <2>6. Ids(sessions) \cap Ids(restoring \o pending) = {}
    BY Waiting DEF Inv, Distinct
  <2>. QED
    BY <2>3, <2>5, <2>6 DEF DistinctSessions, rest
<1>. QED
  BY <1>1, Always, PTL

(* The active session, in memory and on disk, is always one the server or the  *)
(* file has, or one that restoring lost (server.rs 731-757, 1010-1104).       *)
THEOREM ActiveStaysKnown == Spec => []ActiveIsKnown
<1>1. Inv => ActiveIsKnown
  BY Waiting DEF Inv, ActiveThere, ActiveIsKnown
<1>. QED
  BY <1>1, Always, PTL

(* While the disk works and no save overwrites pending sessions, any number of *)
(* crashes and restarts neither loses a session a client created nor brings    *)
(* back one it closed (server.rs 729-757, 776-820, 1080-1104).                *)
THEOREM NoSessionIsLost == Spec => []SessionsSurvive
<1>1. Inv => SessionsSurvive
  BY Waiting DEF Inv, Kept, SessionsSurvive
<1>. QED
  BY <1>1, Always, PTL

-----------------------------------------------------------------------------
(* The PTYs and the panes in a sequence of leaves, and in one of sessions.    *)
PtysIn(x) == {l.pty : l \in ToSet(x)}
PanesIn(x) == {l.pane : l \in ToSet(x)}
AllPtys(q) == UNION {PtysOf(s) : s \in ToSet(q)}
AllPanes(q) == UNION {PanesOf(s) : s \in ToSet(q)}

(* No two leaves share a pane or a PTY: of one session, of several.           *)
Alone(x) ==
  \A i, j \in 1..Len(x) : x[i].pane = x[j].pane \/ x[i].pty = x[j].pty => i = j
Strangers(q) ==
  /\ \A s \in 1..Len(q) : Alone(q[s].leaves)
  /\ \A s, t \in 1..Len(q) : s # t => /\ PtysOf(q[s]) \cap PtysOf(q[t]) = {}
                                      /\ PanesOf(q[s]) \cap PanesOf(q[t]) = {}

(* What is in these sets is at some place of the sequence.                    *)
LEMMA LeavesAre ==
  ASSUME NEW x \in Seq(Leaf)
  PROVE  /\ Len(x) \in Nat /\ DOMAIN x = 1..Len(x)
         /\ \A i \in 1..Len(x) : x[i] \in Leaf /\ x[i].pty \in PtysIn(x) /\ x[i].pane \in PanesIn(x)
         /\ \A p \in PtysIn(x) : \E i \in 1..Len(x) : x[i].pty = p
         /\ \A k \in PanesIn(x) : \E i \in 1..Len(x) : x[i].pane = k
<1>1. Len(x) \in Nat /\ DOMAIN x = 1..Len(x) /\ \A i \in 1..Len(x) : x[i] \in Leaf
  OBVIOUS
<1>2. ToSet(x) = {x[i] : i \in 1..Len(x)}
  BY <1>1 DEF ToSet
<1>. QED
  BY <1>1, <1>2 DEF PtysIn, PanesIn

(* A PTY of one of the sessions is at some place of the sequence.             *)
LEMMA PtysAre ==
  ASSUME NEW q \in Seq(FullSession)
  PROVE  /\ Len(q) \in Nat /\ DOMAIN q = 1..Len(q)
         /\ \A s \in 1..Len(q) :
              /\ q[s] \in FullSession /\ q[s].leaves \in Seq(Leaf)
              /\ PtysOf(q[s]) = PtysIn(q[s].leaves) /\ PanesOf(q[s]) = PanesIn(q[s].leaves)
              /\ PtysOf(q[s]) \subseteq AllPtys(q) /\ PanesOf(q[s]) \subseteq AllPanes(q)
         /\ \A p \in AllPtys(q) : \E s \in 1..Len(q) : p \in PtysOf(q[s])
         /\ \A k \in AllPanes(q) : \E s \in 1..Len(q) : k \in PanesOf(q[s])
<1>1. Len(q) \in Nat /\ DOMAIN q = 1..Len(q) /\ \A s \in 1..Len(q) : q[s] \in FullSession
  OBVIOUS
<1>2. ToSet(q) = {q[s] : s \in 1..Len(q)}
  BY <1>1 DEF ToSet
<1>3. \A s \in 1..Len(q) : q[s].leaves \in Seq(Leaf)
  BY <1>1 DEF FullSession, Session
<1>4. \A s \in 1..Len(q) : PtysOf(q[s]) = PtysIn(q[s].leaves) /\ PanesOf(q[s]) = PanesIn(q[s].leaves)
  BY DEF PtysOf, PanesOf, PtysIn, PanesIn
<1>5. /\ \A s \in 1..Len(q) : PtysOf(q[s]) \subseteq AllPtys(q)
      /\ \A p \in AllPtys(q) : \E s \in 1..Len(q) : p \in PtysOf(q[s])
  BY <1>2 DEF AllPtys
<1>6. /\ \A s \in 1..Len(q) : PanesOf(q[s]) \subseteq AllPanes(q)
      /\ \A k \in AllPanes(q) : \E s \in 1..Len(q) : k \in PanesOf(q[s])
  BY <1>2 DEF AllPanes
<1>. QED
  BY <1>1, <1>3, <1>4, <1>5, <1>6

(* The property, in these terms.                                              *)
LEMMA PanesMeanStrangers ==
  ASSUME Types
  PROVE  PanesHavePtys <=> /\ Strangers(sessions)
                           /\ AllPtys(sessions) \subseteq ptys \cup dead
                           /\ ptys \subseteq AllPtys(sessions) \cup leaked
<1>1. sessions \in Seq(FullSession) /\ Owned = AllPtys(sessions)
  BY DEF Types, Owned, AllPtys
<1>. DEFINE Places == \A s, t \in DOMAIN sessions :
       \A i \in DOMAIN sessions[s].leaves, j \in DOMAIN sessions[t].leaves :
         LET l == sessions[s].leaves[i]  m == sessions[t].leaves[j] IN
           l.pane = m.pane \/ l.pty = m.pty => s = t /\ i = j
<1>a. /\ DOMAIN sessions = 1..Len(sessions)
      /\ \A s \in 1..Len(sessions) : DOMAIN sessions[s].leaves = 1..Len(sessions[s].leaves)
  BY <1>1, PtysAre, LeavesAre
<1>2. ASSUME Places PROVE Strangers(sessions)
  <2>1. \A s \in 1..Len(sessions) : Alone(sessions[s].leaves)
    BY <1>1, <1>2, PtysAre, LeavesAre DEF Alone
  <2>2. ASSUME NEW s \in 1..Len(sessions), NEW t \in 1..Len(sessions), s # t,
               NEW p \in PtysOf(sessions[s]) \cap PtysOf(sessions[t]) PROVE FALSE
    <3>1. p \in PtysIn(sessions[s].leaves) /\ p \in PtysIn(sessions[t].leaves)
      BY <1>1, <2>2, PtysAre
    <3>2. PICK i \in 1..Len(sessions[s].leaves) : sessions[s].leaves[i].pty = p
      BY <1>1, <3>1, PtysAre, LeavesAre
    <3>3. PICK j \in 1..Len(sessions[t].leaves) : sessions[t].leaves[j].pty = p
      BY <1>1, <3>1, PtysAre, LeavesAre
    <3>4. /\ s \in DOMAIN sessions /\ t \in DOMAIN sessions
          /\ i \in DOMAIN sessions[s].leaves /\ j \in DOMAIN sessions[t].leaves
      BY <1>a
    <3>. QED
      BY <1>2, <2>2, <3>2, <3>3, <3>4
  <2>3. ASSUME NEW s \in 1..Len(sessions), NEW t \in 1..Len(sessions), s # t,
               NEW k \in PanesOf(sessions[s]) \cap PanesOf(sessions[t]) PROVE FALSE
    <3>1. k \in PanesIn(sessions[s].leaves) /\ k \in PanesIn(sessions[t].leaves)
      BY <1>1, <2>3, PtysAre
    <3>2. PICK i \in 1..Len(sessions[s].leaves) : sessions[s].leaves[i].pane = k
      BY <1>1, <3>1, PtysAre, LeavesAre
    <3>3. PICK j \in 1..Len(sessions[t].leaves) : sessions[t].leaves[j].pane = k
      BY <1>1, <3>1, PtysAre, LeavesAre
    <3>4. /\ s \in DOMAIN sessions /\ t \in DOMAIN sessions
          /\ i \in DOMAIN sessions[s].leaves /\ j \in DOMAIN sessions[t].leaves
      BY <1>a
    <3>. QED
      BY <1>2, <2>3, <3>2, <3>3, <3>4
  <2>. QED
    BY <2>1, <2>2, <2>3 DEF Strangers
<1>3. ASSUME Strangers(sessions) PROVE Places
  <2>. SUFFICES ASSUME NEW s \in DOMAIN sessions, NEW t \in DOMAIN sessions,
                       NEW i \in DOMAIN sessions[s].leaves, NEW j \in DOMAIN sessions[t].leaves,
                       \/ sessions[s].leaves[i].pane = sessions[t].leaves[j].pane
                       \/ sessions[s].leaves[i].pty = sessions[t].leaves[j].pty
                PROVE  s = t /\ i = j
    BY Zenon
  <2>0. /\ s \in 1..Len(sessions) /\ t \in 1..Len(sessions)
        /\ i \in 1..Len(sessions[s].leaves) /\ j \in 1..Len(sessions[t].leaves)
    BY <1>a
  <2>1. /\ sessions[s].leaves[i].pty \in PtysOf(sessions[s]) /\ sessions[t].leaves[j].pty \in PtysOf(sessions[t])
        /\ sessions[s].leaves[i].pane \in PanesOf(sessions[s]) /\ sessions[t].leaves[j].pane \in PanesOf(sessions[t])
    BY <1>1, <2>0, PtysAre, LeavesAre
  <2>2. s = t
    BY <1>3, <2>0, <2>1 DEF Strangers
  <2>3. Alone(sessions[s].leaves)
    BY <1>3, <2>0 DEF Strangers
  <2>. QED
    BY <2>0, <2>2, <2>3 DEF Alone
<1>4. PanesHavePtys <=> Places /\ Owned \subseteq ptys \cup dead /\ ptys \subseteq Owned \cup leaked
  BY DEF PanesHavePtys
<1>. HIDE DEF Places
<1>. QED
  BY <1>1, <1>2, <1>3, <1>4

-----------------------------------------------------------------------------
(* A pane taken out takes its PTY along.                                      *)
LEMMA LeafRemoved ==
  ASSUME NEW x \in Seq(Leaf), NEW k \in 1..Len(x), Alone(x)
  PROVE  /\ Alone(RemoveAt(x, k))
         /\ PtysIn(RemoveAt(x, k)) = PtysIn(x) \ {x[k].pty}
         /\ PanesIn(RemoveAt(x, k)) \subseteq PanesIn(x)
<1>. DEFINE r == RemoveAt(x, k)
            At(i) == IF i < k THEN i ELSE i + 1
<1>1. /\ r \in Seq(Leaf) /\ Len(r) = Len(x) - 1 /\ Len(x) \in Nat
      /\ \A i \in 1..Len(r) : r[i] = IF i < k THEN x[i] ELSE x[i + 1]
  BY Removed
<1>. HIDE DEF r
<1>2. \A i \in 1..Len(r) : At(i) \in 1..Len(x) /\ r[i] = x[At(i)] /\ At(i) # k
  BY <1>1
<1>3. \A i, j \in 1..Len(r) : At(i) = At(j) => i = j
  BY <1>1
<1>4. \A i \in 1..Len(x) : i = k \/ \E j \in 1..Len(r) : At(j) = i
  <2>. SUFFICES ASSUME NEW i \in 1..Len(x), i # k PROVE \E j \in 1..Len(r) : At(j) = i
    OBVIOUS
  <2>1. CASE i < k
    <3>1. i \in 1..Len(r) /\ At(i) = i
      BY <1>1, <2>1
    <3>. QED
      BY <3>1
  <2>2. CASE i > k
    <3>1. i - 1 \in 1..Len(r) /\ At(i - 1) = i
      BY <1>1, <2>2
    <3>. QED
      BY <3>1
  <2>. QED
    BY <2>1, <2>2
<1>. HIDE DEF At
<1>5. Alone(r)
  BY <1>2, <1>3 DEF Alone
<1>6. ASSUME NEW p \in PtysIn(r) PROVE p \in PtysIn(x) /\ p # x[k].pty
  <2>1. PICK i \in 1..Len(r) : r[i].pty = p
    BY <1>1, LeavesAre
  <2>. QED
    BY <1>2, <2>1, LeavesAre DEF Alone
<1>7. ASSUME NEW p \in PtysIn(x), p # x[k].pty PROVE p \in PtysIn(r)
  <2>1. PICK i \in 1..Len(x) : x[i].pty = p
    BY LeavesAre
  <2>2. PICK j \in 1..Len(r) : At(j) = i
    BY <1>4, <1>7, <2>1
  <2>. QED
    BY <1>1, <1>2, <2>1, <2>2, LeavesAre
<1>8. ASSUME NEW y \in PanesIn(r) PROVE y \in PanesIn(x)
  <2>1. PICK i \in 1..Len(r) : r[i].pane = y
    BY <1>1, LeavesAre
  <2>. QED
    BY <1>2, <2>1, LeavesAre
<1>. QED
  BY <1>5, <1>6, <1>7, <1>8 DEF r

(* What is where in two sequences joined.                                     *)
LEMMA JoinedAt ==
  ASSUME NEW S, NEW s \in Seq(S), NEW t \in Seq(S), NEW i \in 1..(Len(s) + Len(t))
  PROVE  (s \o t)[i] = IF i <= Len(s) THEN s[i] ELSE t[i - Len(s)]
  OBVIOUS

(* Where InsertAt puts what.                                                  *)
LEMMA InsertedAt ==
  ASSUME NEW q \in Seq(Leaf), NEW k \in 1..(Len(q) + 1), NEW e \in Leaf
  PROVE  /\ InsertAt(q, k, e) \in Seq(Leaf) /\ Len(InsertAt(q, k, e)) = Len(q) + 1 /\ Len(q) \in Nat
         /\ \A i \in 1..(Len(q) + 1) :
              /\ i < k => InsertAt(q, k, e)[i] = q[i]
              /\ i = k => InsertAt(q, k, e)[i] = e
              /\ i > k => InsertAt(q, k, e)[i] = q[i - 1]
<1>1. Len(q) \in Nat /\ k \in Nat /\ k >= 1 /\ k <= Len(q) + 1
  OBVIOUS
<1>. DEFINE a == SubSeq(q, 1, k - 1)
            b == SubSeq(q, k, Len(q))
            c == <<e>>
<1>2. a \in Seq(Leaf) /\ Len(a) = k - 1 /\ \A i \in 1..(k - 1) : a[i] = q[i]
  BY <1>1
<1>3. b \in Seq(Leaf) /\ Len(b) = Len(q) - k + 1 /\ \A i \in 1..(Len(q) - k + 1) : b[i] = q[i + k - 1]
  BY <1>1
<1>4. c \in Seq(Leaf) /\ Len(c) = 1 /\ c[1] = e
  OBVIOUS
<1>5. InsertAt(q, k, e) = a \o c \o b
  BY DEF InsertAt
<1>. HIDE DEF a, b, c
<1>. DEFINE d == a \o c
<1>6. d \in Seq(Leaf) /\ Len(d) = k
  <2>1. d \in Seq(Leaf) /\ Len(d) = Len(a) + Len(c)
    BY <1>2, <1>4, Joined, Zenon
  <2>. QED
    BY <1>1, <1>2, <1>4, <2>1
<1>7. \A i \in 1..k : d[i] = IF i < k THEN q[i] ELSE e
  <2>1. \A i \in 1..(Len(a) + Len(c)) : d[i] = IF i <= Len(a) THEN a[i] ELSE c[i - Len(a)]
    BY <1>2, <1>4, JoinedAt
  <2>. SUFFICES ASSUME NEW i \in 1..k PROVE d[i] = IF i < k THEN q[i] ELSE e
    OBVIOUS
  <2>2. d[i] = IF i <= Len(a) THEN a[i] ELSE c[i - Len(a)]
    <3>. HIDE DEF d
    <3>1. i \in 1..(Len(a) + Len(c))
      BY <1>1, <1>2, <1>4
    <3>. QED
      BY <2>1, <3>1
  <2>3. CASE i < k
    BY <1>1, <1>2, <2>2, <2>3
  <2>4. CASE i = k
    <3>1. ~(i <= Len(a)) /\ i - Len(a) = 1 /\ ~(i < k)
      BY <1>1, <1>2, <2>4
    <3>. QED
      BY <1>4, <2>2, <3>1
  <2>5. i < k \/ i = k
    BY <1>1
  <2>. QED
    BY <2>3, <2>4, <2>5
<1>. HIDE DEF d
<1>8. d \o b \in Seq(Leaf) /\ Len(d \o b) = Len(q) + 1
  <2>1. d \o b \in Seq(Leaf) /\ Len(d \o b) = Len(d) + Len(b)
    BY <1>3, <1>6, Joined, Zenon
  <2>. QED
    BY <1>1, <1>3, <1>6, <2>1
<1>9. ASSUME NEW i \in 1..(Len(q) + 1)
      PROVE  /\ i < k => (d \o b)[i] = q[i]
             /\ i = k => (d \o b)[i] = e
             /\ i > k => (d \o b)[i] = q[i - 1]
  <2>1. CASE i <= k
    <3>1. i \in 1..k /\ (d \o b)[i] = d[i]
      BY <1>1, <1>3, <1>6, <2>1
    <3>. QED
      BY <1>1, <1>7, <2>1, <3>1
  <2>2. CASE i > k
    <3>1. i - k \in 1..(Len(q) - k + 1) /\ (i - k) + k - 1 = i - 1
      BY <1>1, <2>2
    <3>2. (d \o b)[i] = b[i - k]
      BY <1>1, <1>3, <1>6, <2>2
    <3>. QED
      BY <1>1, <1>3, <2>2, <3>1, <3>2
  <2>3. i <= k \/ i > k
    BY <1>1
  <2>. QED
    BY <2>1, <2>2, <2>3
<1>. QED
  BY <1>1, <1>5, <1>8, <1>9 DEF d

(* A new pane brings its PTY.                                                 *)
LEMMA LeafInserted ==
  ASSUME NEW x \in Seq(Leaf), NEW k \in 1..(Len(x) + 1), NEW e \in Leaf, Alone(x),
         e.pty \notin PtysIn(x), e.pane \notin PanesIn(x)
  PROVE  /\ Alone(InsertAt(x, k, e))
         /\ PtysIn(InsertAt(x, k, e)) = PtysIn(x) \cup {e.pty}
         /\ PanesIn(InsertAt(x, k, e)) = PanesIn(x) \cup {e.pane}
<1>. DEFINE r == InsertAt(x, k, e)
            At(i) == IF i < k THEN i ELSE i - 1
<1>1. /\ r \in Seq(Leaf) /\ Len(r) = Len(x) + 1 /\ Len(x) \in Nat
      /\ \A i \in 1..(Len(x) + 1) :
           /\ i < k => r[i] = x[i]
           /\ i = k => r[i] = e
           /\ i > k => r[i] = x[i - 1]
  <2>1. x \in Seq(Leaf) /\ e \in Leaf /\ k \in 1..(Len(x) + 1)
    OBVIOUS
  <2>2. r = InsertAt(x, k, e)
    OBVIOUS
  <2>. HIDE DEF r, At
  <2>3. r \in Seq(Leaf) /\ Len(r) = Len(x) + 1 /\ Len(x) \in Nat
    BY ONLY <2>1, <2>2, InsertedAt
  <2>4. ASSUME NEW i \in 1..(Len(x) + 1)
        PROVE  (i < k => r[i] = x[i]) /\ (i = k => r[i] = e) /\ (i > k => r[i] = x[i - 1])
    <3>1. i \in 1..(Len(x) + 1)
      OBVIOUS
    <3>. QED
      BY ONLY <2>1, <2>2, <3>1, InsertedAt
  <2>. QED
    BY <2>3, <2>4
<1>. HIDE DEF r
<1>2. \A i \in 1..Len(r) : i = k \/ (At(i) \in 1..Len(x) /\ r[i] = x[At(i)])
  BY <1>1
<1>3. \A i, j \in 1..Len(r) : i # k /\ j # k /\ At(i) = At(j) => i = j
  BY <1>1
<1>4. k \in 1..Len(r) /\ r[k] = e
  BY <1>1
<1>5. \A i \in 1..Len(x) : \E j \in 1..Len(r) : r[j] = x[i]
  <2>. SUFFICES ASSUME NEW i \in 1..Len(x) PROVE \E j \in 1..Len(r) : r[j] = x[i]
    OBVIOUS
  <2>1. CASE i < k
    <3>1. i \in 1..Len(r) /\ r[i] = x[i]
      BY <1>1, <2>1
    <3>. QED
      BY <3>1
  <2>2. CASE i >= k
    <3>1. i + 1 \in 1..(Len(x) + 1) /\ ~(i + 1 < k) /\ i + 1 # k /\ (i + 1) - 1 = i
      BY <1>1, <2>2
    <3>2. i + 1 \in 1..Len(r) /\ r[i + 1] = x[i]
      BY <1>1, <3>1
    <3>. QED
      BY <3>2
  <2>. QED
    BY <1>1, <2>1, <2>2
<1>. HIDE DEF At
<1>6. \A i \in 1..Len(r) : i # k => r[i].pty # e.pty /\ r[i].pane # e.pane
  BY <1>2, LeavesAre
<1>7. Alone(r)
  <2>. SUFFICES ASSUME NEW i \in 1..Len(r), NEW j \in 1..Len(r),
                       r[i].pane = r[j].pane \/ r[i].pty = r[j].pty, i # j
                PROVE  FALSE
    BY DEF Alone
  <2>1. i # k /\ j # k
    BY <1>4, <1>6
  <2>. QED
    BY <1>2, <1>3, <2>1 DEF Alone
<1>8. ASSUME NEW p \in PtysIn(r) PROVE p \in PtysIn(x) \cup {e.pty}
  <2>1. PICK i \in 1..Len(r) : r[i].pty = p
    BY <1>1, LeavesAre
  <2>. QED
    BY <1>2, <1>4, <2>1, LeavesAre
<1>9. ASSUME NEW p \in PtysIn(x) PROVE p \in PtysIn(r)
  <2>1. PICK i \in 1..Len(x) : x[i].pty = p
    BY LeavesAre
  <2>2. PICK j \in 1..Len(r) : r[j] = x[i]
    BY <1>5
  <2>. QED
    BY <1>1, <2>1, <2>2, LeavesAre
<1>10. ASSUME NEW y \in PanesIn(r) PROVE y \in PanesIn(x) \cup {e.pane}
  <2>1. PICK i \in 1..Len(r) : r[i].pane = y
    BY <1>1, LeavesAre
  <2>. QED
    BY <1>2, <1>4, <2>1, LeavesAre
<1>11. ASSUME NEW y \in PanesIn(x) PROVE y \in PanesIn(r)
  <2>1. PICK i \in 1..Len(x) : x[i].pane = y
    BY LeavesAre
  <2>2. PICK j \in 1..Len(r) : r[j] = x[i]
    BY <1>5
  <2>. QED
    BY <1>1, <2>1, <2>2, LeavesAre
<1>12. e.pty \in PtysIn(r) /\ e.pane \in PanesIn(r)
  BY <1>1, <1>4, LeavesAre
<1>. QED
  BY <1>7, <1>8, <1>9, <1>10, <1>11, <1>12 DEF r

(* Another PTY for a pane takes the place of the old one.                     *)
LEMMA LeafRespawned ==
  ASSUME NEW x \in Seq(Leaf), NEW k \in 1..Len(x), NEW p \in PtyIds, Alone(x), p \notin PtysIn(x),
         NEW r \in Seq(Leaf), Len(r) = Len(x),
         \A i \in 1..Len(x) : r[i].pane = x[i].pane,
         \A i \in 1..Len(x) : i # k => r[i].pty = x[i].pty, r[k].pty = p
  PROVE  /\ Alone(r)
         /\ PtysIn(r) = (PtysIn(x) \ {x[k].pty}) \cup {p}
         /\ PanesIn(r) = PanesIn(x)
<1>1. \A i \in 1..Len(x) : x[i].pty # p
  BY LeavesAre
<1>2. Alone(r)
  BY <1>1 DEF Alone
<1>3. ASSUME NEW o \in PtysIn(r), o # p PROVE o \in PtysIn(x) /\ o # x[k].pty
  <2>1. PICK i \in 1..Len(x) : r[i].pty = o
    BY LeavesAre
  <2>. QED
    BY <1>3, <2>1, LeavesAre DEF Alone
<1>4. ASSUME NEW o \in PtysIn(x), o # x[k].pty PROVE o \in PtysIn(r)
  <2>1. PICK i \in 1..Len(x) : x[i].pty = o
    BY LeavesAre
  <2>. QED
    BY <1>4, <2>1, LeavesAre
<1>5. ASSUME NEW y \in PanesIn(r) PROVE y \in PanesIn(x)
  <2>1. PICK i \in 1..Len(x) : r[i].pane = y
    BY LeavesAre
  <2>. QED
    BY <2>1, LeavesAre
<1>6. ASSUME NEW y \in PanesIn(x) PROVE y \in PanesIn(r)
  <2>1. PICK i \in 1..Len(x) : x[i].pane = y
    BY LeavesAre
  <2>. QED
    BY <2>1, LeavesAre
<1>7. p \in PtysIn(r)
  BY LeavesAre
<1>. QED
  BY <1>2, <1>3, <1>4, <1>5, <1>6, <1>7

-----------------------------------------------------------------------------
(* Other leaves for a session, of PTYs and panes that no other session has.   *)
LEMMA SessionEdited ==
  ASSUME NEW q \in Seq(FullSession), NEW k \in 1..Len(q), NEW x \in Seq(Leaf), x # <<>>,
         Strangers(q), Alone(x),
         PtysIn(x) \cap AllPtys(q) \subseteq PtysOf(q[k]), PanesIn(x) \cap AllPanes(q) \subseteq PanesOf(q[k])
  PROVE  /\ Strangers([q EXCEPT ![k].leaves = x])
         /\ AllPtys([q EXCEPT ![k].leaves = x]) = (AllPtys(q) \ PtysOf(q[k])) \cup PtysIn(x)
<1>. DEFINE r == [q EXCEPT ![k].leaves = x]
<1>1. r \in Seq(FullSession)
  BY Edited
<1>2. Len(r) = Len(q) /\ Len(q) \in Nat /\ r[k].leaves = x /\ \A s \in 1..Len(q) : s # k => r[s] = q[s]
  <2>1. q[k] \in FullSession
    OBVIOUS
  <2>. QED
    BY <2>1 DEF FullSession, Session
<1>. HIDE DEF r
<1>3. /\ PtysOf(r[k]) = PtysIn(x) /\ PanesOf(r[k]) = PanesIn(x)
      /\ \A s \in 1..Len(q) : s # k => PtysOf(r[s]) = PtysOf(q[s]) /\ PanesOf(r[s]) = PanesOf(q[s])
  BY <1>1, <1>2, PtysAre
<1>4. \A s \in 1..Len(q) : s # k => /\ PtysOf(q[s]) \cap PtysIn(x) = {}
                                   /\ PanesOf(q[s]) \cap PanesIn(x) = {}
  BY PtysAre DEF Strangers
<1>5. Strangers(r)
  <2>1. \A s \in 1..Len(r) : Alone(r[s].leaves)
    BY <1>2 DEF Strangers
  <2>2. \A s, t \in 1..Len(r) : s # t => /\ PtysOf(r[s]) \cap PtysOf(r[t]) = {}
                                        /\ PanesOf(r[s]) \cap PanesOf(r[t]) = {}
    <3>. SUFFICES ASSUME NEW s \in 1..Len(q), NEW t \in 1..Len(q), s # t
                  PROVE  PtysOf(r[s]) \cap PtysOf(r[t]) = {} /\ PanesOf(r[s]) \cap PanesOf(r[t]) = {}
      BY <1>2
    <3>1. CASE s = k
      BY <1>3, <1>4, <3>1
    <3>2. CASE t = k
      BY <1>3, <1>4, <3>2
    <3>3. CASE s # k /\ t # k
      BY <1>3, <3>3 DEF Strangers
    <3>. QED
      BY <3>1, <3>2, <3>3
  <2>. QED
    BY <2>1, <2>2 DEF Strangers
<1>6. ASSUME NEW p \in AllPtys(r) PROVE p \in (AllPtys(q) \ PtysOf(q[k])) \cup PtysIn(x)
  <2>1. PICK s \in 1..Len(r) : p \in PtysOf(r[s])
    BY <1>1, PtysAre
  <2>2. CASE s = k
    BY <1>3, <2>1, <2>2
  <2>3. CASE s # k
    BY <1>2, <1>3, <2>1, <2>3, PtysAre DEF Strangers
  <2>. QED
    BY <2>2, <2>3
<1>7. ASSUME NEW p \in AllPtys(q), p \notin PtysOf(q[k]) PROVE p \in AllPtys(r)
  <2>1. PICK s \in 1..Len(q) : p \in PtysOf(q[s])
    BY PtysAre
  <2>. QED
    BY <1>1, <1>2, <1>3, <1>7, <2>1, PtysAre
<1>8. PtysIn(x) \subseteq AllPtys(r)
  BY <1>1, <1>2, <1>3, PtysAre
<1>. QED
  BY <1>5, <1>6, <1>7, <1>8 DEF r

(* A session of its own panes and PTYs joins the others.                      *)
LEMMA SessionAppended ==
  ASSUME NEW q \in Seq(FullSession), NEW e \in FullSession, Strangers(q), Alone(e.leaves),
         PtysOf(e) \cap AllPtys(q) = {}, PanesOf(e) \cap AllPanes(q) = {}
  PROVE  /\ Strangers(Append(q, e))
         /\ AllPtys(Append(q, e)) = AllPtys(q) \cup PtysOf(e)
<1>. DEFINE r == Append(q, e)
<1>1. /\ r \in Seq(FullSession) /\ Len(q) \in Nat /\ Len(r) = Len(q) + 1 /\ r[Len(q) + 1] = e
      /\ \A i \in 1..Len(q) : i \in 1..Len(r) /\ r[i] = q[i]
      /\ \A i \in 1..Len(r) : i \in 1..Len(q) \/ i = Len(q) + 1
      /\ Len(q) + 1 \in 1..Len(r)
  OBVIOUS
<1>. HIDE DEF r
<1>2. \A s \in 1..Len(q) : PtysOf(q[s]) \cap PtysOf(e) = {} /\ PanesOf(q[s]) \cap PanesOf(e) = {}
  BY PtysAre
<1>3. Strangers(r)
  <2>1. \A s \in 1..Len(r) : Alone(r[s].leaves)
    BY <1>1 DEF Strangers
  <2>2. \A s, t \in 1..Len(r) : s # t => /\ PtysOf(r[s]) \cap PtysOf(r[t]) = {}
                                        /\ PanesOf(r[s]) \cap PanesOf(r[t]) = {}
    <3>. SUFFICES ASSUME NEW s \in 1..Len(r), NEW t \in 1..Len(r), s # t
                  PROVE  PtysOf(r[s]) \cap PtysOf(r[t]) = {} /\ PanesOf(r[s]) \cap PanesOf(r[t]) = {}
      OBVIOUS
    <3>1. CASE s \in 1..Len(q) /\ t \in 1..Len(q)
      BY <1>1, <3>1 DEF Strangers
    <3>2. CASE s = Len(q) + 1 /\ t \in 1..Len(q)
      BY <1>1, <1>2, <3>2
    <3>3. CASE t = Len(q) + 1 /\ s \in 1..Len(q)
      BY <1>1, <1>2, <3>3
    <3>. QED
      BY <1>1, <3>1, <3>2, <3>3
  <2>. QED
    BY <2>1, <2>2 DEF Strangers
<1>4. ASSUME NEW p \in AllPtys(r) PROVE p \in AllPtys(q) \cup PtysOf(e)
  <2>1. PICK s \in 1..Len(r) : p \in PtysOf(r[s])
    BY <1>1, PtysAre
  <2>. QED
    BY <1>1, <2>1, PtysAre
<1>5. ASSUME NEW p \in AllPtys(q) PROVE p \in AllPtys(r)
  <2>1. PICK s \in 1..Len(q) : p \in PtysOf(q[s])
    BY PtysAre
  <2>. QED
    BY <1>1, <2>1, PtysAre
<1>6. PtysOf(e) \subseteq AllPtys(r)
  BY <1>1, PtysAre
<1>. QED
  BY <1>3, <1>4, <1>5, <1>6 DEF r

(* A session that goes takes its PTYs along.                                  *)
LEMMA SessionRemoved ==
  ASSUME NEW q \in Seq(FullSession), NEW k \in 1..Len(q), Strangers(q)
  PROVE  /\ Strangers(RemoveAt(q, k))
         /\ AllPtys(RemoveAt(q, k)) = AllPtys(q) \ PtysOf(q[k])
<1>. DEFINE r == RemoveAt(q, k)
            At(i) == IF i < k THEN i ELSE i + 1
<1>1. /\ r \in Seq(FullSession) /\ Len(r) = Len(q) - 1 /\ Len(q) \in Nat
      /\ \A i \in 1..Len(r) : r[i] = IF i < k THEN q[i] ELSE q[i + 1]
  BY Removed
<1>. HIDE DEF r
<1>2. \A i \in 1..Len(r) : At(i) \in 1..Len(q) /\ r[i] = q[At(i)] /\ At(i) # k
  BY <1>1
<1>3. \A i, j \in 1..Len(r) : At(i) = At(j) => i = j
  BY <1>1
<1>4. \A i \in 1..Len(q) : i = k \/ \E j \in 1..Len(r) : At(j) = i
  <2>. SUFFICES ASSUME NEW i \in 1..Len(q), i # k PROVE \E j \in 1..Len(r) : At(j) = i
    OBVIOUS
  <2>1. CASE i < k
    <3>1. i \in 1..Len(r) /\ At(i) = i
      BY <1>1, <2>1
    <3>. QED
      BY <3>1
  <2>2. CASE i > k
    <3>1. i - 1 \in 1..Len(r) /\ At(i - 1) = i
      BY <1>1, <2>2
    <3>. QED
      BY <3>1
  <2>. QED
    BY <2>1, <2>2
<1>. HIDE DEF At
<1>5. Strangers(r)
  BY <1>2, <1>3 DEF Strangers
<1>6. ASSUME NEW p \in AllPtys(r) PROVE p \in AllPtys(q) /\ p \notin PtysOf(q[k])
  <2>1. PICK s \in 1..Len(r) : p \in PtysOf(r[s])
    BY <1>1, PtysAre
  <2>. QED
    BY <1>2, <2>1, PtysAre DEF Strangers
<1>7. ASSUME NEW p \in AllPtys(q), p \notin PtysOf(q[k]) PROVE p \in AllPtys(r)
  <2>1. PICK s \in 1..Len(q) : p \in PtysOf(q[s])
    BY PtysAre
  <2>2. PICK j \in 1..Len(r) : At(j) = s
    BY <1>4, <1>7, <2>1
  <2>. QED
    BY <1>1, <1>2, <2>1, <2>2, PtysAre
<1>. QED
  BY <1>5, <1>6, <1>7 DEF r

-----------------------------------------------------------------------------
(* Panes and PTYs correspond.                                                 *)
Matched ==
  /\ Strangers(sessions)
  /\ AllPtys(sessions) \subseteq ptys \cup dead
  /\ ptys \subseteq AllPtys(sessions) \cup leaked

(* What is fresh is no pane's.                                                *)
LEMMA Fresh ==
  /\ \A p \in FreshPty : p \in PtyIds /\ p \notin AllPtys(sessions) /\ p \notin dead
  /\ \A k \in FreshPane : k \in PaneIds /\ k \notin AllPanes(sessions)
  BY DEF FreshPty, FreshPane, Owned, UsedPanes, AllPtys, AllPanes

(* The leaves of a new session, and of a restored one.                        *)
LEMMA OneLeaf ==
  ASSUME NEW s \in SessionIds, NEW k \in PaneIds, NEW p \in PtyIds,
         NEW e, e = [id |-> s, leaves |-> <<NewLeaf(k, p)>>]
  PROVE  Alone(e.leaves) /\ PtysOf(e) = {p} /\ PanesOf(e) = {k}
<1>. DEFINE x == <<NewLeaf(k, p)>>
<1>1. x \in Seq(Leaf) /\ Len(x) = 1 /\ x[1].pty = p /\ x[1].pane = k
  BY NewLeaves DEF NewLeaf
<1>2. e.leaves = x
  OBVIOUS
<1>. HIDE DEF x
<1>3. Alone(x)
  BY <1>1 DEF Alone
<1>4. PtysIn(x) = {p} /\ PanesIn(x) = {k}
  <2>1. \A o \in PtysIn(x) : o = p
    BY <1>1, LeavesAre
  <2>2. \A y \in PanesIn(x) : y = k
    BY <1>1, LeavesAre
  <2>3. p \in PtysIn(x) /\ k \in PanesIn(x)
    BY <1>1, LeavesAre
  <2>. QED
    BY <2>1, <2>2, <2>3
<1>5. PtysOf(e) = PtysIn(x) /\ PanesOf(e) = PanesIn(x)
  BY <1>2 DEF PtysOf, PanesOf, PtysIn, PanesIn
<1>. QED
  BY <1>2, <1>3, <1>4, <1>5

(* Leaves of new panes and PTYs share none.                                   *)
LEMMA NewLeavesOf ==
  ASSUME NEW x \in Seq(Leaf), NEW k \in [1..Len(x) -> PaneIds], NEW p \in [1..Len(x) -> PtyIds],
         IsInjective(k), IsInjective(p),
         \A i \in 1..Len(x) : x[i].pane = k[i] /\ x[i].pty = p[i]
  PROVE  Alone(x) /\ PtysIn(x) = ToSet(p) /\ PanesIn(x) = ToSet(k)
<1>1. DOMAIN k = 1..Len(x) /\ DOMAIN p = 1..Len(x)
  OBVIOUS
<1>2. Alone(x)
  BY <1>1 DEF Alone, IsInjective
<1>3. ToSet(k) = {k[i] : i \in 1..Len(x)} /\ ToSet(p) = {p[i] : i \in 1..Len(x)}
  BY <1>1 DEF ToSet
<1>4. PtysIn(x) = ToSet(p)
  BY <1>3, LeavesAre
<1>5. PanesIn(x) = ToSet(k)
  BY <1>3, LeavesAre
<1>. QED
  BY <1>2, <1>4, <1>5

(* CreateSession: a new pane, a new PTY.                                      *)
LEMMA CreateMatches == ASSUME Types, Matched, CreateSession PROVE Matched'
<1>1. PICK s \in SessionIds \ born, k \in FreshPane, p \in FreshPty, d \in Dirs :
        /\ Spawn(p, d) /\ sessions' = Append(sessions, [id |-> s, leaves |-> <<NewLeaf(k, p)>>])
  BY DEF CreateSession
<1>2. ptys' = ptys \cup {p} /\ UNCHANGED <<leaked, dead>>
  BY <1>1 DEF CreateSession, strays, Spawn
<1>3. /\ k \in PaneIds /\ p \in PtyIds /\ p \notin AllPtys(sessions) /\ k \notin AllPanes(sessions)
      /\ sessions \in Seq(FullSession)
  BY Fresh DEF Types
<1>. DEFINE e == [id |-> s, leaves |-> <<NewLeaf(k, p)>>]
<1>4. e \in FullSession /\ Alone(e.leaves) /\ PtysOf(e) = {p} /\ PanesOf(e) = {k}
  BY <1>3, NewSessions, OneLeaf
<1>5. sessions' = Append(sessions, e)
  BY <1>1
<1>. HIDE DEF e
<1>6. Strangers(sessions') /\ AllPtys(sessions') = AllPtys(sessions) \cup {p}
  BY <1>3, <1>4, <1>5, SessionAppended DEF Matched
<1>. QED
  BY <1>2, <1>6 DEF Matched

(* SplitPane: a new pane, a new PTY.                                          *)
LEMMA SplitMatches == ASSUME Types, Matched, SplitPane PROVE Matched'
<1>1. PICK i \in DOMAIN sessions, k \in FreshPane, p \in FreshPty :
        \E j \in DOMAIN sessions[i].leaves, before \in BOOLEAN :
          /\ Spawn(p, cwd[sessions[i].leaves[j].pty])
          /\ sessions' = [sessions EXCEPT ![i].leaves =
               InsertAt(@, IF before THEN j ELSE j + 1, NewLeaf(k, p))]
          /\ Persist(sessions', active, cwd')
  BY DEF SplitPane
<1>2. PICK j \in DOMAIN sessions[i].leaves, before \in BOOLEAN :
          /\ Spawn(p, cwd[sessions[i].leaves[j].pty])
          /\ sessions' = [sessions EXCEPT ![i].leaves =
               InsertAt(@, IF before THEN j ELSE j + 1, NewLeaf(k, p))]
          /\ Persist(sessions', active, cwd')
  BY <1>1
<1>3. ptys' = ptys \cup {p} /\ UNCHANGED <<leaked, dead>>
  BY <1>2 DEF SplitPane, strays, Spawn
<1>4. /\ k \in PaneIds /\ p \in PtyIds /\ p \notin AllPtys(sessions) /\ k \notin AllPanes(sessions)
      /\ sessions \in Seq(FullSession) /\ i \in 1..Len(sessions)
  BY Fresh DEF Types
<1>. DEFINE x == sessions[i].leaves
            a == IF before THEN j ELSE j + 1
            e == NewLeaf(k, p)
            y == InsertAt(x, a, e)
<1>5. /\ x \in Seq(Leaf) /\ PtysIn(x) = PtysOf(sessions[i]) /\ PanesIn(x) = PanesOf(sessions[i])
      /\ PtysIn(x) \subseteq AllPtys(sessions) /\ PanesIn(x) \subseteq AllPanes(sessions) /\ Alone(x)
  BY <1>4, PtysAre DEF Matched, Strangers
<1>6. a \in 1..(Len(x) + 1)
  BY <1>5
<1>7. e \in Leaf /\ e.pty = p /\ e.pane = k
  BY <1>4, NewLeaves DEF NewLeaf
<1>8. sessions' = [sessions EXCEPT ![i].leaves = y]
  BY <1>2
<1>. HIDE DEF x, a, e
<1>9. Alone(y) /\ PtysIn(y) = PtysIn(x) \cup {p} /\ PanesIn(y) = PanesIn(x) \cup {k}
  BY <1>4, <1>5, <1>6, <1>7, LeafInserted
<1>10. y \in Seq(Leaf) /\ y # <<>>
  BY <1>5, <1>6, <1>7, Inserted
<1>. HIDE DEF y
<1>11. /\ Strangers(sessions')
       /\ AllPtys(sessions') = (AllPtys(sessions) \ PtysOf(sessions[i])) \cup PtysIn(y)
  <2>1. /\ PtysIn(y) \cap AllPtys(sessions) \subseteq PtysOf(sessions[i])
        /\ PanesIn(y) \cap AllPanes(sessions) \subseteq PanesOf(sessions[i])
    BY <1>4, <1>5, <1>9
  <2>2. Strangers(sessions) /\ Alone(y) /\ y \in Seq(Leaf) /\ y # <<>>
    BY <1>9, <1>10 DEF Matched
  <2>. QED
    BY <1>4, <1>8, <2>1, <2>2, SessionEdited
<1>. QED
  BY <1>3, <1>5, <1>9, <1>11 DEF Matched

(* ClosePane: the pane goes with its PTY.                                     *)
LEMMA ClosePaneMatches == ASSUME Types, Matched, ClosePane PROVE Matched'
<1>1. PICK i \in DOMAIN sessions : \E j \in DOMAIN sessions[i].leaves :
        /\ Len(sessions[i].leaves) > 1
        /\ sessions' = [sessions EXCEPT ![i].leaves = RemoveAt(@, j)]
        /\ Kill({sessions[i].leaves[j].pty})
  BY DEF ClosePane
<1>. DEFINE x == sessions[i].leaves
<1>2. PICK j \in DOMAIN x :
        /\ Len(x) > 1 /\ sessions' = [sessions EXCEPT ![i].leaves = RemoveAt(x, j)]
        /\ Kill({x[j].pty})
  BY <1>1
<1>3. ptys' = ptys \ {x[j].pty} /\ UNCHANGED <<leaked, dead>>
  BY <1>2 DEF ClosePane, strays, Kill
<1>4. sessions \in Seq(FullSession) /\ i \in 1..Len(sessions)
  BY DEF Types
<1>5. /\ x \in Seq(Leaf) /\ PtysIn(x) = PtysOf(sessions[i]) /\ PanesIn(x) = PanesOf(sessions[i])
      /\ PtysIn(x) \subseteq AllPtys(sessions) /\ Alone(x)
  BY <1>4, PtysAre DEF Matched, Strangers
<1>. HIDE DEF x
<1>6. j \in 1..Len(x) /\ x[j].pty \in PtysIn(x)
  BY <1>5, LeavesAre
<1>. DEFINE y == RemoveAt(x, j)
<1>7. Alone(y) /\ PtysIn(y) = PtysIn(x) \ {x[j].pty} /\ PanesIn(y) \subseteq PanesIn(x)
  BY <1>5, <1>6, LeafRemoved
<1>8. y \in Seq(Leaf) /\ y # <<>>
  <2>1. y \in Seq(Leaf) /\ Len(y) = Len(x) - 1 /\ Len(x) \in Nat
    BY <1>5, <1>6, Removed
  <2>2. Len(y) > 0
    BY <1>2, <2>1
  <2>. QED
    BY <2>1, <2>2, EmptySeq
<1>9. sessions' = [sessions EXCEPT ![i].leaves = y]
  BY <1>2
<1>. HIDE DEF y
<1>10. /\ Strangers(sessions')
       /\ AllPtys(sessions') = (AllPtys(sessions) \ PtysOf(sessions[i])) \cup PtysIn(y)
  <2>1. /\ PtysIn(y) \cap AllPtys(sessions) \subseteq PtysOf(sessions[i])
        /\ PanesIn(y) \cap AllPanes(sessions) \subseteq PanesOf(sessions[i])
    BY <1>5, <1>7
  <2>2. Strangers(sessions) /\ Alone(y) /\ y \in Seq(Leaf) /\ y # <<>>
    BY <1>7, <1>8 DEF Matched
  <2>. QED
    BY <1>4, <1>9, <2>1, <2>2, SessionEdited
<1>11. AllPtys(sessions') = AllPtys(sessions) \ {x[j].pty}
  BY <1>5, <1>6, <1>7, <1>10
<1>. QED
  BY <1>3, <1>10, <1>11 DEF Matched

(* RespawnPty: the new PTY takes the place of the old one.                    *)
LEMMA RespawnMatches == ASSUME Types, Matched, RespawnPty PROVE Matched'
<1>1. PICK i \in DOMAIN sessions, p \in FreshPty : \E j \in DOMAIN sessions[i].leaves :
        /\ ptys' = (ptys \ {sessions[i].leaves[j].pty}) \cup {p}
        /\ sessions' = [sessions EXCEPT ![i].leaves[j].pty = p]
  BY DEF RespawnPty
<1>. DEFINE x == sessions[i].leaves
<1>2. PICK j \in DOMAIN x :
        /\ ptys' = (ptys \ {x[j].pty}) \cup {p}
        /\ sessions' = [sessions EXCEPT ![i].leaves[j].pty = p]
  BY <1>1
<1>3. UNCHANGED <<leaked, dead>>
  BY DEF RespawnPty, strays
<1>4. /\ p \in PtyIds /\ p \notin AllPtys(sessions)
      /\ sessions \in Seq(FullSession) /\ i \in 1..Len(sessions)
  BY Fresh DEF Types
<1>5. /\ x \in Seq(Leaf) /\ PtysIn(x) = PtysOf(sessions[i]) /\ PanesIn(x) = PanesOf(sessions[i])
      /\ PtysIn(x) \subseteq AllPtys(sessions) /\ Alone(x)
  BY <1>4, PtysAre DEF Matched, Strangers
<1>. DEFINE y == [x EXCEPT ![j].pty = p]
<1>6. sessions' = [sessions EXCEPT ![i].leaves = y]
  BY <1>2
<1>. HIDE DEF x
<1>7. j \in 1..Len(x) /\ x[j].pty \in PtysIn(x) /\ x[j] \in Leaf
  BY <1>5, LeavesAre
<1>8. /\ y \in Seq(Leaf) /\ Len(y) = Len(x) /\ y # <<>>
      /\ \A a \in 1..Len(x) : y[a].pane = x[a].pane
      /\ \A a \in 1..Len(x) : a # j => y[a].pty = x[a].pty
      /\ y[j].pty = p
  <2>. DEFINE e == [x[j] EXCEPT !.pty = p]
  <2>1. e \in Leaf /\ e.pty = p /\ e.pane = x[j].pane
    BY <1>4, <1>7 DEF Leaf
  <2>2. y = [x EXCEPT ![j] = e]
    OBVIOUS
  <2>. HIDE DEF e
  <2>3. /\ y \in Seq(Leaf) /\ Len(y) = Len(x) /\ Len(x) \in Nat
        /\ \A a \in 1..Len(x) : y[a] = IF a = j THEN e ELSE x[a]
    BY <1>5, <1>7, <2>1, <2>2
  <2>. HIDE DEF y
  <2>4. y # <<>>
    BY <1>7, <2>3
  <2>. QED
    BY <1>7, <2>1, <2>3, <2>4
<1>. HIDE DEF y
<1>9. Alone(y) /\ PtysIn(y) = (PtysIn(x) \ {x[j].pty}) \cup {p} /\ PanesIn(y) = PanesIn(x)
  <2>1. x \in Seq(Leaf) /\ j \in 1..Len(x) /\ p \in PtyIds /\ Alone(x) /\ p \notin PtysIn(x)
    BY <1>4, <1>5, <1>7
  <2>. QED
    BY ONLY <1>8, <2>1, LeafRespawned
<1>10. /\ Strangers(sessions')
       /\ AllPtys(sessions') = (AllPtys(sessions) \ PtysOf(sessions[i])) \cup PtysIn(y)
  <2>1. /\ PtysIn(y) \cap AllPtys(sessions) \subseteq PtysOf(sessions[i])
        /\ PanesIn(y) \cap AllPanes(sessions) \subseteq PanesOf(sessions[i])
    BY <1>4, <1>5, <1>9
  <2>2. Strangers(sessions) /\ Alone(y) /\ y \in Seq(Leaf) /\ y # <<>>
    BY <1>8, <1>9 DEF Matched
  <2>. QED
    BY <1>4, <1>6, <2>1, <2>2, SessionEdited
<1>11. AllPtys(sessions') = (AllPtys(sessions) \ {x[j].pty}) \cup {p}
  BY <1>5, <1>7, <1>9, <1>10
<1>. QED
  BY <1>2, <1>3, <1>10, <1>11 DEF Matched

(* CloseSession: the panes go with their PTYs.                                *)
LEMMA CloseMatches == ASSUME Types, Matched, NEW s \in SessionIds, CloseSession(s) PROVE Matched'
<1>1. PICK i \in DOMAIN sessions : Kill(PtysOf(sessions[i])) /\ sessions' = RemoveAt(sessions, i)
  BY DEF CloseSession
<1>2. ptys' = ptys \ PtysOf(sessions[i]) /\ UNCHANGED <<leaked, dead>>
  BY <1>1 DEF CloseSession, strays, Kill
<1>3. sessions \in Seq(FullSession) /\ i \in 1..Len(sessions)
  BY DEF Types
<1>4. Strangers(sessions') /\ AllPtys(sessions') = AllPtys(sessions) \ PtysOf(sessions[i])
  BY <1>1, <1>3, SessionRemoved DEF Matched
<1>. QED
  BY <1>2, <1>4 DEF Matched

(* A restore: new panes and PTYs, pair by pair.                               *)
LEMMA RestoreMatches == ASSUME Types, Matched, RestoreSession PROVE Matched'
<1>. DEFINE s == Head(restoring)
            n == Len(s.leaves)
<1>1. PICK k \in [1..n -> FreshPane], p \in [1..n -> FreshPty] :
             /\ IsInjective(k) /\ IsInjective(p)
             /\ sessions' = Append(sessions,
                  [id |-> s.id,
                   leaves |-> [i \in 1..n |->
                     [pane |-> k[i], pty |-> p[i], dir |-> s.leaves[i]]]])
             /\ ptys' = ptys \cup ToSet(p)
  BY DEF RestoreSession
<1>2. UNCHANGED <<leaked, dead>> /\ restoring # <<>>
  BY DEF RestoreSession, strays
<1>3. s \in FullSaved /\ sessions \in Seq(FullSession)
  BY <1>2 DEF Types
<1>4. n \in Nat
  BY <1>3 DEF FullSaved, SavedSession
<1>5. /\ k \in [1..n -> PaneIds] /\ p \in [1..n -> PtyIds]
      /\ ToSet(p) \cap AllPtys(sessions) = {} /\ ToSet(k) \cap AllPanes(sessions) = {}
  BY Fresh DEF ToSet
<1>. DEFINE x == [i \in 1..n |-> [pane |-> k[i], pty |-> p[i], dir |-> s.leaves[i]]]
            e == [id |-> s.id, leaves |-> x]
<1>6. e \in FullSession
  BY <1>3, <1>5, Restored
<1>7. x \in Seq(Leaf)
  BY <1>6 DEF FullSession, Session
<1>8. Len(x) = n /\ \A i \in 1..n : x[i].pane = k[i] /\ x[i].pty = p[i]
  BY <1>4
<1>9. sessions' = Append(sessions, e) /\ e.leaves = x
  BY <1>1
<1>. HIDE DEF x, n
<1>10. Alone(x) /\ PtysIn(x) = ToSet(p) /\ PanesIn(x) = ToSet(k)
  BY <1>1, <1>5, <1>7, <1>8, NewLeavesOf
<1>11. PtysOf(e) = ToSet(p) /\ PanesOf(e) = ToSet(k)
  BY <1>9, <1>10 DEF PtysOf, PanesOf, PtysIn, PanesIn
<1>. HIDE DEF e
<1>12. Strangers(sessions') /\ AllPtys(sessions') = AllPtys(sessions) \cup ToSet(p)
  BY <1>3, <1>5, <1>6, <1>9, <1>10, <1>11, SessionAppended DEF Matched
<1>. QED
  BY <1>1, <1>2, <1>12 DEF Matched

(* A failed split, restore or respawn leaves a PTY without a pane, or a pane  *)
(* without its PTY, and remembers it.                                         *)
LEMMA FailureMatches ==
  ASSUME Types, Matched, SplitUnknownPane \/ RestoreFails \/ RespawnFails
  PROVE  Matched'
<1>1. CASE SplitUnknownPane
  <2>1. PICK p \in FreshPty : Spawn(p, None) /\ leaked' = leaked \cup {p}
    BY <1>1 DEF SplitUnknownPane
  <2>. QED
    BY <1>1, <2>1 DEF SplitUnknownPane, Spawn, Matched
<1>2. CASE RestoreFails
  <2>1. PICK n \in 0..(Len(Head(restoring).leaves) - 1) : \E p \in [1..n -> FreshPty] :
            ptys' = ptys \cup ToSet(p) /\ leaked' = leaked \cup ToSet(p)
    BY <1>2 DEF RestoreFails
  <2>2. UNCHANGED <<sessions, dead>>
    BY <1>2 DEF RestoreFails
  <2>. QED
    BY <2>1, <2>2 DEF Matched
<1>3. CASE RespawnFails
  <2>1. PICK p \in Owned : Kill({p}) /\ dead' = dead \cup {p}
    BY <1>3 DEF RespawnFails
  <2>2. UNCHANGED <<sessions, leaked>> /\ ptys' = ptys \ {p} /\ p \in AllPtys(sessions)
    BY <1>3, <2>1 DEF RespawnFails, Kill, Owned, AllPtys
  <2>. QED
    BY <2>1, <2>2 DEF Matched
<1>. QED
  BY <1>1, <1>2, <1>3

(* The steps that change neither a leaf nor a PTY.                            *)
LEMMA OthersMatch ==
  ASSUME Matched, UNCHANGED <<sessions, ptys, leaked, dead>>
  PROVE  Matched'
  BY DEF Matched

(* Without sessions and PTYs nothing is to match.                             *)
LEMMA NothingMatches ==
  ASSUME NEW q, q = <<>>
  PROVE  Strangers(q) /\ AllPtys(q) = {}
  BY DEF Strangers, AllPtys, ToSet

(* Every step keeps panes and PTYs matched.                                   *)
LEMMA MatchedSteps == Inv /\ Matched /\ [Next]_vars => Matched'
<1>. SUFFICES ASSUME Inv, Matched, [Next]_vars PROVE Matched'
  OBVIOUS
<1>1. Types
  BY DEF Inv
<1>2. CASE UNCHANGED vars
  BY <1>2, OthersMatch DEF vars, strays
<1>3. CASE Handler
  <2>1. CASE \E s \in SessionIds : AttachSession(s) \/ EditSession(s)
    BY <2>1, OthersMatch DEF AttachSession, EditSession, strays
  <2>2. CASE ListSessions
    BY <2>2, OthersMatch DEF ListSessions, strays
  <2>. QED
    BY <1>1, <1>3, <2>1, <2>2, CreateMatches, SplitMatches, ClosePaneMatches, RespawnMatches,
       CloseMatches, FailureMatches DEF Handler
<1>4. CASE Restore
  BY <1>1, <1>4, RestoreMatches, FailureMatches DEF Restore
<1>5. CASE PersistTick
  BY <1>5, OthersMatch DEF PersistTick, strays
<1>6. CASE \E p \in PtyIds : Reader(p)
  BY <1>6, OthersMatch DEF Reader, ReportCwd, MarkDirty, ReaderEnds, strays
<1>7. CASE Start \/ StartBlank
  BY <1>7, OthersMatch DEF Start, StartBlank, strays
<1>8. CASE Crash \/ Shutdown
  <2>1. sessions' = <<>> /\ ptys' = {}
    BY <1>8 DEF Crash, Shutdown, Down
  <2>. QED
    BY <2>1, NothingMatches DEF Matched
<1>. QED
  BY <1>2, <1>3, <1>4, <1>5, <1>6, <1>7, <1>8 DEF Next

(* Through any splits, closes, respawns, restores and their failures no two    *)
(* panes share an id or a PTY, a pane's PTY runs unless a respawn failed, and  *)
(* no PTY runs that belongs to no pane but those of splits and restores that   *)
(* failed (server.rs 276-603, 703-727, 822-830, 1080-1318).                   *)
THEOREM PanesKeepTheirPtys == Spec => []PanesHavePtys
<1>1. Init => Matched
  BY NothingMatches DEF Init, Matched
<1>2. Inv /\ Matched => PanesHavePtys
  BY PanesMeanStrangers DEF Inv, Matched
<1>. QED
  BY <1>1, <1>2, MatchedSteps, Always, PTL DEF Spec
=============================================================================
