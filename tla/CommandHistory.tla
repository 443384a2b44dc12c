---------------------------- MODULE CommandHistory ----------------------------
(***************************************************************************)
(* The history of commands (stores/historyStore.ts), its search            *)
(* (components/HistorySearch) and its files (commands/history.rs).  Lists   *)
(* in memory are changed at once or when the call that changes the file has *)
(* been answered; calls are executed in the order they are made, one at a   *)
(* time.  A command is a pair, its words and the way they are written:      *)
(* commands that differ in case or spaces alone have the same words.  The   *)
(* order of the entries decides only which of them a place of the list is,  *)
(* and any of them may be chosen, so the entries are a set; the files are    *)
(* one too, Racemo's own and that of the shell taken together.  The list     *)
(* shows 50 results; a model has fewer.                                      *)
(***************************************************************************)
EXTENDS Naturals, Sequences, FiniteSets, SequencesExt

CONSTANTS ChWord, ChStyle,
          MaxChActs,   \* bound on what the user does
          MaxChLoads,  \* bound on the loads under way at once
          MaxChFaults  \* bound on the calls that fail

VARIABLES chDisk,      \* the commands in the history files
          chDiskFavs,  \* favorites.json
          chEntries,   \* entries: [command, favorite] of each
          chFavs,      \* favorites
          chLoaded,    \* isLoaded
          chLoads,     \* loadFromFile under way: what each has read so far
          chCalls,     \* calls to be executed, in order
          chAnswers,   \* calls executed whose answer is on its way: [call, ok]
          chSearch,    \* the search: open, its query, selectedIndex, showFavoritesOnly
          chStale,     \* ghost: a load or a rollback has brought back an older state
          chActs, chFaults

chVars == <<chDisk, chDiskFavs, chEntries, chFavs, chLoaded, chLoads, chCalls, chAnswers, chSearch, chStale, chActs, chFaults>>
chFiles == <<chDisk, chDiskFavs, chFaults>>
chStore == <<chEntries, chFavs, chLoaded, chStale>>

ChCommand == ChWord \X ChStyle
Words(c) == c[1]
Nothing == <<"", 0>>  \* no command
\* A query is the words it finds, all of them when it is blank.
Closed == [open |-> FALSE, query |-> ChWord, at |-> 1, favorites |-> FALSE]
Does == chActs < MaxChActs /\ chActs' = chActs + 1
Call(op, c, removed) == [op |-> op, command |-> c, removed |-> removed]

-----------------------------------------------------------------------------
LiveEntry(c) == [command |-> c, favorite |-> c \in chFavs]
OfTheWords(entries, c) == {e \in entries : Words(e.command) = Words(c)}
Without(entries, c) == entries \ OfTheWords(entries, c)
\* One entry for each of the words: the newest command of them, or the first in the
\* file when the shell has noted no times, so any of them.
Parsed(commands, favorites) ==
    {{[command |-> c, favorite |-> c \in favorites] : c \in kept} :
        kept \in {S \in SUBSET commands :
                    \A c \in commands : \E k \in S : \A d \in S : Words(d) = Words(c) <=> d = k}}
Starred(entries, c, star) ==
    {[command |-> e.command, favorite |-> IF e.command = c THEN star ELSE e.favorite] : e \in entries}

\* A command ends well, or Enter is pressed in a shell without marks.
CommandRuns(c) ==
    /\ Does
    /\ chEntries' = Without(chEntries, c) \cup {LiveEntry(c)}
    /\ chCalls' = Append(chCalls, Call("write", c, {}))
    /\ UNCHANGED <<chFiles, chFavs, chLoaded, chLoads, chAnswers, chSearch, chStale>>

\* loadFromFile: when the application starts, and with Cmd+R until a load has ended.
NewLoad == [step |-> "read", commands |-> {}, favorites |-> {}]
StartLoad ==
    chLoads' = IF chLoaded \/ Len(chLoads) >= MaxChLoads THEN chLoads ELSE Append(chLoads, NewLoad)
\* The two reads, each a call of its own.
ReadHistory(i) ==
    /\ i \in DOMAIN chLoads /\ chLoads[i].step = "read"
    /\ chLoads' = [chLoads EXCEPT ![i].step = "favorites", ![i].commands = chDisk]
    /\ UNCHANGED <<chFiles, chStore, chCalls, chAnswers, chSearch, chActs>>
ReadFavorites(i) ==
    /\ i \in DOMAIN chLoads /\ chLoads[i].step = "favorites"
    /\ chLoads' = [chLoads EXCEPT ![i].step = "done", ![i].favorites = chDiskFavs]
    /\ UNCHANGED <<chFiles, chStore, chCalls, chAnswers, chSearch, chActs>>
\* All lists are replaced, whatever has happened since the reads.
LoadEnds(i) ==
    /\ i \in DOMAIN chLoads /\ chLoads[i].step = "done"
    /\ chEntries' \in Parsed(chLoads[i].commands, chLoads[i].favorites)
    /\ chFavs' = chLoads[i].favorites
    /\ chLoaded' = TRUE
    /\ chLoads' = RemoveAt(chLoads, i)
    /\ chStale' = (chStale \/ chLoads[i].favorites # chDiskFavs
                           \/ \E k \in DOMAIN chAnswers : chAnswers[k].call.op \in {"star", "unstar"})
    /\ UNCHANGED <<chFiles, chCalls, chAnswers, chSearch, chActs>>
LoadFails(i) ==
    /\ i \in DOMAIN chLoads /\ chFaults < MaxChFaults
    /\ chFaults' = chFaults + 1
    /\ chLoaded' = TRUE
    /\ chLoads' = RemoveAt(chLoads, i)
    /\ chStale' = TRUE
    /\ UNCHANGED <<chDisk, chDiskFavs, chEntries, chFavs, chCalls, chAnswers, chSearch, chActs>>

-----------------------------------------------------------------------------
(* The files.                                                                *)
After(call, disk) ==
    CASE call.op = "write" -> disk \cup {call.command}
      [] call.op = "delete" -> disk \ {call.command}
      [] call.op = "clear" -> {}
      [] OTHER -> disk
\* A deletion that fails may have changed Racemo's own file and not the shell's.
Half(call, disk) == {left \in SUBSET disk : disk \cap After(call, disk) \subseteq left}
FavsAfter(call, favs) ==
    CASE call.op = "star" -> favs \cup {call.command}
      [] call.op = "unstar" -> favs \ {call.command}
      [] OTHER -> favs
Execute(ok) ==
    /\ chCalls # <<>>
    /\ ok \/ chFaults < MaxChFaults
    /\ chFaults' = IF ok THEN chFaults ELSE chFaults + 1
    /\ LET call == Head(chCalls)
       IN  /\ chDisk' \in IF ok THEN {After(call, chDisk)} ELSE Half(call, chDisk)
           /\ chDiskFavs' = IF ok THEN FavsAfter(call, chDiskFavs) ELSE chDiskFavs
           /\ chAnswers' = Append(chAnswers, [call |-> call, ok |-> ok])
    /\ chCalls' = Tail(chCalls)
    /\ UNCHANGED <<chStore, chLoads, chSearch, chActs>>

\* What the answer of a call does to the lists: nothing after a write; a deletion
\* that has failed puts back what it took; the star follows the file.
Answer ==
    /\ chAnswers # <<>>
    /\ chAnswers' = Tail(chAnswers)
    /\ LET call == Head(chAnswers).call
           ok == Head(chAnswers).ok
           star == call.op = "star"
       IN  /\ chEntries' =
                CASE call.op = "delete" /\ ~ok -> chEntries \cup call.removed
                  [] call.op = "clear" /\ ok -> {}
                  [] call.op \in {"star", "unstar"} /\ ok -> Starred(chEntries, call.command, star)
                  [] OTHER -> chEntries
           /\ chFavs' = IF ok THEN FavsAfter(call, chFavs) ELSE chFavs
           /\ chStale' = (chStale \/ /\ call.op = "delete" /\ ~ok
                                     /\ \E e \in call.removed :
                                            e.favorite # (e.command \in chFavs))
    /\ UNCHANGED <<chFiles, chLoaded, chLoads, chCalls, chSearch, chActs>>

-----------------------------------------------------------------------------
(* The search.                                                               *)
\* One result for every command: the starred ones first.
Listed == {e \in chEntries : /\ chSearch.favorites => e.favorite
                             /\ Words(e.command) \in chSearch.query}
Results == {e.command : e \in Listed}
StarredResults == {e.command : e \in {x \in Listed : x.favorite}}
Quiet == chCalls = <<>> /\ chAnswers = <<>> /\ chLoads = <<>>

\* Cmd+R; when it opens, the selection is on the first entry without a star.
OpenSearch ==
    /\ ~chSearch.open /\ Does
    /\ StartLoad
    /\ chSearch' = [Closed EXCEPT !.open = TRUE,
                        !.at = IF Results = StarredResults THEN 1
                               ELSE Cardinality(StarredResults) + 1]
    /\ UNCHANGED <<chFiles, chStore, chCalls, chAnswers>>
\* The same keys again, which load too; Escape, a click outside.
CloseSearch ==
    /\ chSearch.open
    /\ chSearch' = Closed
    /\ UNCHANGED chLoads \/ StartLoad
    /\ UNCHANGED <<chFiles, chStore, chCalls, chAnswers, chActs>>
Searches(search) ==
    /\ chSearch.open /\ Does
    /\ chSearch' = search
    /\ UNCHANGED <<chFiles, chStore, chLoads, chCalls, chAnswers>>
SetQuery(q) == Searches([chSearch EXCEPT !.query = q, !.at = 1])
OnlyFavorites == Searches([chSearch EXCEPT !.favorites = ~@, !.at = 1])
Down == Searches([chSearch EXCEPT !.at = IF @ < Cardinality(Results) THEN @ + 1
                                         ELSE Cardinality(Results)])
Up == Searches([chSearch EXCEPT !.at = IF @ > 1 THEN @ - 1 ELSE 1])
\* The pointer enters a result.
Hover(at) == at \in 1..Cardinality(Results) /\ Searches([chSearch EXCEPT !.at = at])
\* Enter, Tab or a click write the command to the focused pane, and the search closes.
Pick(at) ==
    /\ chSearch.open /\ at \in 1..Cardinality(Results)
    /\ chSearch' = Closed
    /\ UNCHANGED <<chFiles, chStore, chLoads, chCalls, chAnswers, chActs>>
EnterPick == Pick(chSearch.at)
Click(at) == Pick(at)

\* deleteEntry, from the search, or when the output says that the shell does not know
\* the command: the entries of the same words disappear at once.
Delete(c) ==
    /\ Does
    /\ chEntries' = Without(chEntries, c)
    /\ chCalls' = Append(chCalls, Call("delete", c, OfTheWords(chEntries, c)))
    /\ UNCHANGED <<chFiles, chFavs, chLoaded, chLoads, chAnswers, chSearch, chStale>>
ClearAll ==
    /\ chSearch.open /\ Does
    /\ chCalls' = Append(chCalls, Call("clear", Nothing, {}))
    /\ UNCHANGED <<chFiles, chStore, chLoads, chAnswers, chSearch>>
ToggleFavorite(c) ==
    /\ chSearch.open /\ c \in Results /\ Does
    /\ chCalls' = Append(chCalls, Call(IF c \in chFavs THEN "unstar" ELSE "star", c, {}))
    /\ UNCHANGED <<chFiles, chStore, chLoads, chAnswers, chSearch>>

\* The application starts and loads at once.
ChInit ==
    /\ chDisk \in SUBSET ChCommand /\ chDiskFavs \in SUBSET ChCommand
    /\ chEntries = {} /\ chFavs = {} /\ chLoaded = FALSE
    /\ chLoads = <<NewLoad>>
    /\ chCalls = <<>> /\ chAnswers = <<>> /\ chSearch = Closed
    /\ chStale = FALSE /\ chActs = 0 /\ chFaults = 0

ChNext ==
    \/ \E c \in ChCommand : CommandRuns(c) \/ Delete(c)
    \/ \E i \in DOMAIN chLoads : ReadHistory(i) \/ ReadFavorites(i) \/ LoadEnds(i) \/ LoadFails(i)
    \/ \E ok \in BOOLEAN : Execute(ok)
    \/ Answer
    \/ OpenSearch \/ CloseSearch \/ OnlyFavorites \/ Down \/ Up \/ EnterPick \/ ClearAll
    \/ \E q \in SUBSET ChWord : SetQuery(q)
    \/ \E i \in 1..Cardinality(Results) : Hover(i) \/ Click(i)
    \/ \E c \in Results : ToggleFavorite(c)

ChSpec == ChInit /\ [][ChNext]_chVars

-----------------------------------------------------------------------------
\* The variables hold values of their types.
ChTypeOK ==
    /\ chDisk \subseteq ChCommand /\ chDiskFavs \subseteq ChCommand
    /\ chEntries \subseteq [command : ChCommand, favorite : BOOLEAN]
    /\ chFavs \subseteq ChCommand /\ chLoaded \in BOOLEAN
    /\ chSearch.open \in BOOLEAN /\ chSearch.query \subseteq ChWord

\* Once every call has been answered, the stars of the list are those of
\* favorites.json, unless a load had read it before a star was set, or the rollback of
\* a deletion has brought back an entry from before (toggleFavorite, addLiveEntry).
StarsAreThoseOfTheFile ==
    Quiet /\ ~chStale =>
        /\ chFavs = chDiskFavs
        /\ \A e \in chEntries : e.favorite = (e.command \in chDiskFavs)
=============================================================================
