------------------------------ MODULE GitView ------------------------------
(***************************************************************************)
(* What the Git panel shows of a directory's repository                    *)
(* (src/stores/gitStore.ts). Refreshes overlap: the panel, the background  *)
(* timer, the start and every Git button start them; each reads the        *)
(* repository in two commands of its own, and a later one outdates the     *)
(* earlier ones. A repository is abstracted to the number of changes it    *)
(* has been through.                                                       *)
(***************************************************************************)
EXTENDS Naturals, FiniteSets

CONSTANTS Cwds,        \* directories of the panes
          NoCwd,       \* nothing is shown, or no directory is known
          MaxRefresh,  \* bound: refreshes started
          MaxVersion   \* bound: changes of a repository

Unread == 0
Version == 1..(MaxVersion + 1)
Snapshot == [info : Version, statuses : Version]
NoSnapshot == [info |-> Unread, statuses |-> Unread]

VARIABLES
  version,      \* what the repository of a directory has been through
  panelCwd,     \* the directory of the focused pane, which the panel shows
  refreshGen,   \* _refreshGen
  gitCache,     \* _cache: the last snapshot of a directory
  noRepoCache,  \* _noRepoCache
  shown,        \* the store: the directory it describes, and its snapshot
  gitError,     \* error
  reading,      \* refreshes under way
  acting        \* Git actions under way, with the directory they were started in

vars == <<version, panelCwd, refreshGen, gitCache, noRepoCache, shown, gitError, reading,
          acting>>
store == <<refreshGen, gitCache, noRepoCache, shown, gitError, reading>>

Cached(c) == gitCache[c] # NoSnapshot

TypeOK ==
  /\ version \in [Cwds -> Version] /\ panelCwd \in Cwds \cup {NoCwd}
  /\ refreshGen \in 0..MaxRefresh
  /\ gitCache \in [Cwds -> Snapshot \cup {NoSnapshot}] /\ noRepoCache \subseteq Cwds
  /\ shown \in [cwd : Cwds \cup {NoCwd}, snap : Snapshot \cup {NoSnapshot}]
  /\ gitError \in BOOLEAN /\ acting \subseteq Cwds
  /\ reading \subseteq [gen : 1..MaxRefresh, cwd : Cwds, known : BOOLEAN, more : BOOLEAN,
                        snap : [info : Version \cup {Unread}, statuses : Version \cup {Unread}]]

Blank == [cwd |-> NoCwd, snap |-> NoSnapshot]

Init ==
  /\ version = [c \in Cwds |-> 1] /\ panelCwd = NoCwd
  /\ refreshGen = 0 /\ gitCache = [c \in Cwds |-> NoSnapshot] /\ noRepoCache = {}
  /\ shown = Blank /\ gitError = FALSE /\ reading = {} /\ acting = {}

-----------------------------------------------------------------------------
(* refresh, up to its first await: the cached snapshot is shown at once, or   *)
(* the panel is emptied.                                                      *)
Refresh(c) ==
  /\ refreshGen < MaxRefresh
  /\ refreshGen' = refreshGen + 1
  /\ shown' = IF Cached(c) THEN [cwd |-> c, snap |-> gitCache[c]] ELSE Blank
  /\ gitError' = FALSE
  /\ reading' = reading \cup {[gen |-> refreshGen', cwd |-> c, known |-> c \in noRepoCache,
                               more |-> FALSE, snap |-> NoSnapshot]}
  /\ UNCHANGED <<gitCache, noRepoCache>>

(* get_git_repo_info and get_git_file_statuses, at their own moments.         *)
ReadInfo(r) ==
  /\ r.snap.info = Unread
  /\ reading' = (reading \ {r}) \cup {[r EXCEPT !.snap.info = version[r.cwd]]}
  /\ UNCHANGED <<version, panelCwd, refreshGen, gitCache, noRepoCache, shown, gitError, acting>>

ReadStatuses(r) ==
  /\ r.snap.statuses = Unread
  /\ reading' = (reading \ {r}) \cup {[r EXCEPT !.snap.statuses = version[r.cwd]]}
  /\ UNCHANGED <<version, panelCwd, refreshGen, gitCache, noRepoCache, shown, gitError, acting>>

NeverOutdated(r) == FALSE
Outdated(r) == r.gen # refreshGen

ReadAll(r) == r.snap.info # Unread /\ r.snap.statuses # Unread

(* Both answers are in: a refresh that is outdated ends, one of a branch that *)
(* is ahead also asks for the unpushed commits, which fails without a word.   *)
AsksForUnpushed(r) ==
  /\ ReadAll(r) /\ ~r.more /\ ~Outdated(r)
  /\ reading' = (reading \ {r}) \cup {[r EXCEPT !.more = TRUE]}
  /\ UNCHANGED <<version, panelCwd, refreshGen, gitCache, noRepoCache, shown, gitError, acting>>

Arrives(r) ==
  /\ ReadAll(r)
  /\ reading' = reading \ {r}
  /\ IF Outdated(r)
     THEN UNCHANGED <<gitCache, noRepoCache, shown, gitError>>
     ELSE /\ gitCache' = [gitCache EXCEPT ![r.cwd] = r.snap]
          /\ noRepoCache' = noRepoCache \ {r.cwd}
          /\ shown' = [cwd |-> r.cwd, snap |-> r.snap]
          /\ gitError' = FALSE
  /\ UNCHANGED <<version, panelCwd, refreshGen, acting>>

(* One of the two commands fails: no repository there, or Git is not to run.  *)
Fails(r) ==
  /\ ~ReadAll(r)
  /\ reading' = reading \ {r}
  /\ IF Outdated(r)
     THEN UNCHANGED <<gitCache, noRepoCache, shown, gitError>>
     ELSE /\ gitCache' = [gitCache EXCEPT ![r.cwd] = NoSnapshot]
          /\ noRepoCache' = noRepoCache \cup {r.cwd}
          /\ shown' = IF r.known THEN shown ELSE Blank
          /\ gitError' = TRUE
  /\ UNCHANGED <<version, panelCwd, refreshGen, acting>>

-----------------------------------------------------------------------------
(* Another pane gets the focus: the panel's effect refreshes its directory.   *)
Focus(c) ==
  /\ panelCwd # c /\ panelCwd' = c
  /\ Refresh(c)
  /\ UNCHANGED <<version, acting>>

(* startGitBackgroundSync, every five seconds.                                *)
Tick ==
  /\ panelCwd # NoCwd /\ Refresh(panelCwd)
  /\ UNCHANGED <<version, panelCwd, acting>>

(* A program, the shell of a pane say, changes a repository.                  *)
Changes(c) ==
  /\ version[c] <= MaxVersion
  /\ version' = [version EXCEPT ![c] = @ + 1]
  /\ UNCHANGED <<panelCwd, store, acting>>

(* A button of the panel: stage, unstage, commit, push, pull, discard, ...    *)
Act ==
  /\ panelCwd \in Cwds \ acting /\ shown.cwd # NoCwd
  /\ acting' = acting \cup {panelCwd}
  /\ UNCHANGED <<version, panelCwd, store>>

(* It is done: the directory it was started in is refreshed.                  *)
ActDone(c) ==
  /\ c \in acting /\ version[c] <= MaxVersion
  /\ acting' = acting \ {c}
  /\ version' = [version EXCEPT ![c] = @ + 1]
  /\ Refresh(c)
  /\ UNCHANGED <<panelCwd>>

(* It fails: nothing is refreshed.                                            *)
ActFails(c) ==
  /\ c \in acting /\ acting' = acting \ {c}
  /\ UNCHANGED <<version, panelCwd, store>>

Next ==
  \/ Tick \/ Act
  \/ \E c \in Cwds : Focus(c) \/ Changes(c) \/ ActDone(c) \/ ActFails(c)
  \/ \E r \in reading : ReadInfo(r) \/ ReadStatuses(r) \/ AsksForUnpushed(r) \/ Arrives(r) \/ Fails(r)

Spec == Init /\ [][Next]_vars

-----------------------------------------------------------------------------
(* What the panel holds of a directory never goes back to an earlier state of *)
(* its repository, whichever order the commands of the overlapping refreshes  *)
(* end in: not on show, and not in the cache that a return to the directory   *)
(* shows first. The two halves of a snapshot may be of different states.      *)
KeepsUp ==
  \A c \in Cwds :
    /\ shown.cwd = c /\ shown'.cwd = c
         => shown.snap.info <= shown'.snap.info /\ shown.snap.statuses <= shown'.snap.statuses
    /\ Cached(c) /\ Cached(c)'
         => gitCache[c].info <= gitCache'[c].info /\ gitCache[c].statuses <= gitCache'[c].statuses

NeverGoesBack == [][KeepsUp]_vars
=============================================================================
