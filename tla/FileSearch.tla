----------------------------- MODULE FileSearch -----------------------------
(***************************************************************************)
(* The search panel (src/stores/fileSearchStore.ts, FileSearchPanel.tsx):  *)
(* a search registers its listeners one await after the other, starts two  *)
(* walks in the backend (src-tauri/src/commands/util.rs) and never stops   *)
(* them; whatever comes on the channel of a search that is no longer the   *)
(* current one must not be shown. A query or a folder is a number; a query *)
(* of 0 is blank.                                                          *)
(***************************************************************************)
EXTENDS Integers, Sequences, FiniteSets

CONSTANTS MaxSearches, MaxBatches, MaxInputs   \* bounds: searches, batches of a walk, gestures of the user

VARIABLES
  query, cwd, searchRoot, caseSensitive,
  searchTimer,         \* _searchTimer
  currentChannel,      \* _currentChannelId: the number of a search, or 0
  found,               \* fileResults and contentFlat: batches shown, with their search
  isSearching,         \* isSearchingFiles and isSearchingContent
  firstBatch,          \* _firstFileBatch and _firstContentBatch
  searches,            \* every search started: its inputs, its phase and what its walks sent
  selectedIndex,
  inputs

shown == <<found, isSearching, firstBatch>>
vars == <<query, cwd, searchRoot, caseSensitive, searchTimer, currentChannel, shown, searches, selectedIndex, inputs>>

Walk == {"files", "content"}
Wanted == [query |-> query, root |-> searchRoot, case |-> caseSensitive]

TypeOK ==
  /\ {query, cwd, searchRoot} \subseteq 0..MaxInputs /\ caseSensitive \in BOOLEAN
  /\ searchTimer \in BOOLEAN /\ currentChannel \in 0..Len(searches)
  /\ found \in [Walk -> SUBSET ((1..MaxSearches) \X (1..MaxBatches))]
  /\ isSearching \in [Walk -> BOOLEAN] /\ firstBatch \in [Walk -> BOOLEAN]
  /\ searches \in Seq([wanted : [query : 1..MaxInputs, root : 0..MaxInputs, case : BOOLEAN],
                       phase : {"registers", "runs"}, batches : [Walk -> 0..MaxBatches],
                       done : [Walk -> BOOLEAN]])
  /\ selectedIndex \in -1..(2 * MaxBatches) /\ inputs \in 0..MaxInputs

Every(x) == [w \in Walk |-> x]

Init ==
  /\ query = 0 /\ cwd = 0 /\ searchRoot = 0 /\ caseSensitive = FALSE
  /\ searchTimer = FALSE /\ currentChannel = 0
  /\ found = Every({}) /\ isSearching = Every(FALSE) /\ firstBatch = Every(TRUE)
  /\ searches = <<>> /\ selectedIndex = 0 /\ inputs = 0

Input == inputs < MaxInputs /\ inputs' = inputs + 1

(* runSearch, up to its first await; the inputs are those of the next state.  *)
RunSearch ==
  /\ Len(searches) < MaxSearches
  /\ searchTimer' = FALSE
  /\ searches' = Append(searches, [wanted |-> Wanted', phase |-> "registers", batches |-> Every(0),
                                   done |-> Every(FALSE)])
  /\ currentChannel' = Len(searches')
  /\ found' = Every({}) /\ isSearching' = Every(TRUE) /\ firstBatch' = Every(TRUE)

SearchAgain ==
  IF query # 0
  THEN RunSearch
  ELSE UNCHANGED <<searchTimer, currentChannel, isSearching, firstBatch, searches>>

-----------------------------------------------------------------------------
(* setQuery; cancelPendingSearch leaves the channel, and the walks go on.     *)
SetQuery ==
  /\ Input /\ selectedIndex' = 0
  /\ \E q \in {0, inputs'} :
       /\ query' = q
       /\ currentChannel' = 0
       /\ searchTimer' = (q # 0)
       /\ isSearching' = Every(q # 0)
       /\ found' = IF q = 0 THEN Every({}) ELSE found
  /\ UNCHANGED <<cwd, searchRoot, caseSensitive, firstBatch, searches>>

TimerFires ==
  /\ searchTimer /\ selectedIndex' = 0
  /\ UNCHANGED <<query, cwd, searchRoot, caseSensitive, inputs>>
  /\ RunSearch

SetCaseSensitive ==
  /\ Input /\ caseSensitive' = ~caseSensitive /\ selectedIndex' = 0
  /\ UNCHANGED <<query, cwd, searchRoot>>
  /\ SearchAgain /\ (query = 0 => UNCHANGED found)

(* setSearchRoot: a folder typed or picked, or the one of the focused pane.   *)
CommittedFolders == {cwd, inputs'}

SetSearchRoot ==
  /\ Input /\ searchRoot' \in CommittedFolders /\ selectedIndex' = 0
  /\ UNCHANGED <<query, caseSensitive, cwd>>
  /\ SearchAgain /\ found' = Every({})

(* initCwd, when the focused pane is in another folder.                       *)
InitCwd ==
  /\ Input /\ cwd' = inputs' /\ searchRoot' = cwd' /\ selectedIndex' = 0
  /\ UNCHANGED <<query, caseSensitive>>
  /\ SearchAgain /\ found' = Every({})

(* The listeners are all registered: the walks start.                         *)
Registered(s) ==
  /\ s \in DOMAIN searches /\ searches[s].phase = "registers"
  /\ searches' = [searches EXCEPT ![s].phase = "runs"]
  /\ UNCHANGED <<query, cwd, searchRoot, caseSensitive, searchTimer, currentChannel, shown, selectedIndex, inputs>>

IsRegistered(s) == searches[s].phase = "runs"
IsCurrent(s) == currentChannel = s

(* An event of a batch, and the last one.                                     *)
Batch(s, w) ==
  /\ s \in DOMAIN searches /\ IsRegistered(s) /\ ~searches[s].done[w]
  /\ searches[s].batches[w] < MaxBatches
  /\ searches' = [searches EXCEPT ![s].batches[w] = @ + 1]
  /\ IF IsCurrent(s)
     THEN /\ found' = [found EXCEPT ![w] = (IF firstBatch[w] THEN {} ELSE @)
                                           \cup {<<s, searches'[s].batches[w]>>}]
          /\ firstBatch' = [firstBatch EXCEPT ![w] = FALSE]
     ELSE UNCHANGED <<found, firstBatch>>
  /\ UNCHANGED <<query, cwd, searchRoot, caseSensitive, searchTimer, currentChannel, isSearching, selectedIndex,
                 inputs>>

Done(s, w) ==
  /\ s \in DOMAIN searches /\ IsRegistered(s) /\ ~searches[s].done[w]
  /\ searches' = [searches EXCEPT ![s].done[w] = TRUE]
  /\ IF IsCurrent(s)
     THEN /\ found' = IF firstBatch[w] THEN [found EXCEPT ![w] = {}] ELSE found
          /\ isSearching' = [isSearching EXCEPT ![w] = FALSE]
     ELSE UNCHANGED <<found, isSearching>>
  /\ UNCHANGED <<query, cwd, searchRoot, caseSensitive, searchTimer, currentChannel, firstBatch, selectedIndex, inputs>>

Total == Cardinality(found["files"]) + Cardinality(found["content"])

(* ArrowDown and ArrowUp; with nothing found the index becomes -1.            *)
Arrow ==
  /\ Input
  /\ selectedIndex' \in {IF selectedIndex + 1 < Total THEN selectedIndex + 1 ELSE Total - 1,
                         IF selectedIndex > 0 THEN selectedIndex - 1 ELSE 0}
  /\ UNCHANGED <<query, cwd, searchRoot, caseSensitive, searchTimer, currentChannel, shown, searches>>

Next ==
  \/ SetQuery \/ TimerFires \/ SetCaseSensitive \/ SetSearchRoot \/ InitCwd \/ Arrow
  \/ \E s \in 1..MaxSearches : Registered(s) \/ (\E w \in Walk : Batch(s, w) \/ Done(s, w))

Spec == Init /\ [][Next]_vars

-----------------------------------------------------------------------------
(* What the panel shows is what the current search found so far, all of it    *)
(* and nothing of a search that was overtaken; it is a search for what the    *)
(* panel asks; and something is under way for as long as the spinner turns.   *)
ShowsTheSearch ==
  /\ currentChannel # 0 =>
       /\ searches[currentChannel].wanted = Wanted
       /\ \A w \in Walk : found[w] = {<<currentChannel, b>> : b \in 1..searches[currentChannel].batches[w]}
  /\ currentChannel = 0 /\ ~searchTimer => found = Every({})
  /\ \A w \in Walk : isSearching[w] =>
       searchTimer \/ (currentChannel # 0 /\ ~searches[currentChannel].done[w])
=============================================================================
