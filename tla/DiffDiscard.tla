---------------------------- MODULE DiffDiscard ----------------------------
(***************************************************************************)
(* Discarding single hunks of a file's diff, and undoing that              *)
(* (src/components/Sidebar/DiffViewer/useDiffData.ts): the discarded       *)
(* patches are kept in the viewer's state and saved to a file beside it.   *)
(* A hunk is a number; its index in a diff is its rank among those left.   *)
(***************************************************************************)
EXTENDS Naturals, Sequences, FiniteSets, SequencesExt

CONSTANTS Hunks,    \* bound: hunks the file had when it was opened
          MaxOps    \* bound: clicks

Hunk == 1..Hunks
Ranked(set) == SetToSortSeq(set, LAMBDA a, b : a < b)
Patches == BoundedSeq(Hunk, Hunks + MaxOps)

VARIABLES
  work,              \* hunks of the file in the working tree
  diff,              \* hunks on show
  refetching,        \* loadDiff calls whose answer is due
  isLoading, error,  \* either hides the diff
  discardedPatches,  \* the list on show
  ops,               \* discards and undos under way, with the list of their click's render
  clicks,
  queue,             \* savePendingRef: lists to be saved
  saving,            \* the save under way, if any
  disk,              \* the list in the cache file
  loading,           \* the cache file has not been read yet
  intact             \* history: nobody else cleared the file, every save succeeded and the
                     \* list was loaded before it was changed

diskVars == <<queue, saving, disk>>
fetchVars == <<refetching, isLoading, error>>
vars == <<work, diff, fetchVars, discardedPatches, ops, clicks, diskVars, loading, intact>>

TypeOK ==
  /\ work \subseteq Hunk /\ diff \subseteq Hunk /\ refetching \in 0..MaxOps
  /\ isLoading \in BOOLEAN /\ error \in BOOLEAN
  /\ discardedPatches \in Patches /\ disk \in Patches
  /\ ops \subseteq [id : 1..MaxOps, undo : BOOLEAN, at : 1..(Hunks + MaxOps), base : Patches]
  /\ clicks \in 0..MaxOps
  /\ queue \in Seq(Patches) /\ Len(saving) <= 1 /\ saving \in Seq(Patches)
  /\ loading \in BOOLEAN /\ intact \in BOOLEAN

(* The viewer opens on a file of which some hunks were discarded before.      *)
Init ==
  /\ work \in SUBSET Hunk /\ diff = work /\ refetching = 0 /\ isLoading = FALSE /\ error = FALSE
  /\ discardedPatches = <<>> /\ ops = {} /\ clicks = 0
  /\ queue = <<>> /\ saving = <<>> /\ disk = Ranked(Hunk \ work)
  /\ loading = TRUE /\ intact = TRUE

-----------------------------------------------------------------------------
(* load_discard_cache of the mount: an empty list is not taken over.          *)
Loaded ==
  /\ loading /\ loading' = FALSE
  /\ discardedPatches' = IF disk = <<>> THEN discardedPatches ELSE disk
  /\ UNCHANGED <<work, diff, fetchVars, ops, clicks, diskVars, intact>>

Shown == ~isLoading /\ ~error

(* A click on a hunk: its index in the diff on show goes to Git.              *)
ClickDiscard(h) ==
  /\ clicks < MaxOps /\ Shown /\ h \in diff
  /\ clicks' = clicks + 1
  /\ ops' = ops \cup {[id |-> clicks', undo |-> FALSE, base |-> discardedPatches,
                       at |-> Cardinality({g \in diff : g <= h})]}
  /\ UNCHANGED <<work, diff, fetchVars, discardedPatches, diskVars, loading, intact>>

ClickUndo(i) ==
  /\ clicks < MaxOps /\ Shown /\ i \in DOMAIN discardedPatches
  /\ clicks' = clicks + 1
  /\ ops' = ops \cup {[id |-> clicks', undo |-> TRUE, base |-> discardedPatches, at |-> i]}
  /\ UNCHANGED <<work, diff, fetchVars, discardedPatches, diskVars, loading, intact>>

loadDiff == refetching' = refetching + 1 /\ isLoading' = TRUE /\ error' = FALSE

(* The list that was on show at the click replaces the one on show now, and   *)
(* is queued to be saved.                                                     *)
Shows(list) ==
  /\ discardedPatches' = list
  /\ queue' = Append(queue, list)
  /\ intact' = (intact /\ ~loading)

Discarded(o) ==
  /\ o \in ops /\ ~o.undo /\ o.at \in DOMAIN Ranked(work)
  /\ ops' = ops \ {o}
  /\ LET hunk == Ranked(work)[o.at]
     IN /\ work' = work \ {hunk}
        /\ Shows(Append(o.base, hunk))
  /\ loadDiff
  /\ UNCHANGED <<diff, clicks, saving, disk, loading>>

(* Undone; or the patch no longer applies, and leaves the list all the same.  *)
Undone(o) ==
  /\ o \in ops /\ o.undo /\ ops' = ops \ {o}
  /\ Shows(RemoveAt(o.base, o.at))
  /\ \/ work' = work \cup {o.base[o.at]} /\ loadDiff
     \/ error' = TRUE /\ UNCHANGED <<work, refetching, isLoading>>
  /\ UNCHANGED <<diff, clicks, saving, disk, loading>>

(* git_discard_hunk fails: no such hunk any more.                             *)
DiscardFails(o) ==
  /\ o \in ops /\ ~o.undo /\ ops' = ops \ {o} /\ error' = TRUE
  /\ UNCHANGED <<work, diff, refetching, isLoading, discardedPatches, clicks, diskVars, loading, intact>>

Refetched ==
  /\ refetching > 0 /\ refetching' = refetching - 1 /\ isLoading' = FALSE
  /\ \/ diff' = work /\ UNCHANGED error
     \/ error' = TRUE /\ UNCHANGED diff
  /\ UNCHANGED <<work, discardedPatches, ops, clicks, diskVars, loading, intact>>

-----------------------------------------------------------------------------
(* saveDiscardedToCache: one save after the other; each reads the file,       *)
(* replaces its own entry and writes the file.                                *)
LatestFirst == queue # <<>> /\ saving' = <<Last(queue)>> /\ queue' = Front(queue)
NextSave == queue # <<>> /\ saving' = <<Head(queue)>> /\ queue' = Tail(queue)

SaveStarts ==
  /\ saving = <<>> /\ NextSave
  /\ UNCHANGED <<work, diff, fetchVars, discardedPatches, ops, clicks, disk, loading, intact>>

SaveEnds ==
  /\ saving # <<>> /\ saving' = <<>>
  /\ \/ disk' = Head(saving) /\ UNCHANGED intact
     \/ UNCHANGED disk /\ intact' = FALSE
  /\ UNCHANGED <<work, diff, fetchVars, discardedPatches, ops, clicks, queue, loading>>

(* A commit in the main window empties the file, viewer or not.               *)
Committed ==
  /\ disk # <<>> /\ disk' = <<>> /\ intact' = FALSE
  /\ UNCHANGED <<work, diff, fetchVars, discardedPatches, ops, clicks, queue, saving, loading>>

Next ==
  \/ Loaded \/ Refetched \/ SaveStarts \/ SaveEnds \/ Committed
  \/ \E h \in Hunk : ClickDiscard(h)
  \/ \E i \in DOMAIN discardedPatches : ClickUndo(i)
  \/ \E o \in ops : Discarded(o) \/ Undone(o) \/ DiscardFails(o)

Spec == Init /\ [][Next]_vars

-----------------------------------------------------------------------------
(* When every save has ended, the file has the list on show, whichever order  *)
(* the clicks, Git's answers and the saves came in: the saves are queued.     *)
SavedIsShown ==
  intact /\ ~loading /\ queue = <<>> /\ saving = <<>> => disk = discardedPatches
=============================================================================
