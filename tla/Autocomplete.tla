---------------------------- MODULE Autocomplete ----------------------------
(***************************************************************************)
(* The completion popup.  One store holds one popup for all the panes      *)
(* (autocompleteStore.ts); every pane, local (useAutocomplete.ts,          *)
(* useTerminalSetup.ts) or remote (useRemoteAutocomplete.ts,               *)
(* RemoteTerminalPane.tsx), tracks the line typed at its own prompt, waits *)
(* 60 ms after a key, asks completionEngine.ts and fills the popup if the  *)
(* line is still the one it asked for.  A line is a sequence of letters    *)
(* "c", blanks " " and slashes "/"; an item is known by its kind, and by   *)
(* the line it was computed for.  A pane stands for one mount of it.       *)
(***************************************************************************)
EXTENDS Integers, Sequences, SequencesExt, FiniteSets

CONSTANTS AcPane,       \* the mounted panes
          Remote,       \* those of them that show a pane of another machine
          NoPane,       \* no popup is open
          MaxLine,      \* bound: characters of a line
          MaxAcKeys     \* bound: keys and clicks of the user

VARIABLES
  acLine,        \* [AcPane -> line]  inputLineRef
  acRunning,     \* [AcPane -> BOOLEAN]  isExecutingRef
  acComposing,   \* [AcPane -> BOOLEAN]  isComposingRef
  acNavigated,   \* [AcPane -> BOOLEAN]  acNavigatedRef (local panes)
  acTimer,       \* panes whose 60 ms timer runs
  acQueries,     \* completions being computed: [pane, input]
  acPopup,       \* the store: [pane, items, selected]
  acArrows,      \* ghost: an arrow key was pressed since the popup was filled
  acFocus,       \* the pane that gets the keys
  acGone,        \* closed panes
  acKeys

acVars == <<acLine, acRunning, acComposing, acNavigated, acTimer, acQueries,
            acPopup, acArrows, acFocus, acGone, acKeys>>

Chars == {"c", " ", "/"}
Kinds == {"subcommand", "history", "directory"}

Closed == [pane |-> NoPane, items |-> <<>>, selected |-> 1]

AcTypeOK ==
  /\ acLine \in [AcPane -> Seq(Chars)]
  /\ acRunning \in [AcPane -> BOOLEAN]
  /\ acComposing \in [AcPane -> BOOLEAN]
  /\ acNavigated \in [AcPane -> BOOLEAN]
  /\ acTimer \subseteq AcPane
  /\ \A q \in acQueries : q.pane \in AcPane /\ q.input \in Seq(Chars)
  /\ acPopup.pane \in AcPane \cup {NoPane}
  /\ acPopup.items \in Seq(Kinds)
  /\ acPopup.selected \in 0 .. Len(acPopup.items) + 1
  /\ acPopup.pane = NoPane <=> acPopup.items = <<>>
  /\ acArrows \in BOOLEAN
  /\ acFocus \in AcPane \ acGone /\ acGone \subseteq AcPane
  /\ acKeys \in 0 .. MaxAcKeys

AcInit ==
  /\ acLine = [p \in AcPane |-> <<>>]
  /\ acRunning = [p \in AcPane |-> FALSE]
  /\ acComposing = [p \in AcPane |-> FALSE]
  /\ acNavigated = [p \in AcPane |-> FALSE]
  /\ acTimer = {} /\ acQueries = {}
  /\ acPopup = Closed /\ acArrows = FALSE
  /\ acFocus \in AcPane /\ acGone = {} /\ acKeys = 0

(***************************************************************************)
(* completionEngine.ts                                                     *)
(***************************************************************************)
TrailingSpace(l) == l # <<>> /\ Last(l) = " "

\* The line without its leading blanks, which is all the engine looks at.
TrimStart(l) ==
  LET first == {i \in DOMAIN l : l[i] # " "}
  IN  IF first = {} THEN <<>>
      ELSE SubSeq(l, CHOOSE i \in first : \A j \in first : i <= j, Len(l))

LastBlank(l) ==
  LET blanks == {i \in DOMAIN l : l[i] = " "}
  IN  IF blanks = {} THEN 0 ELSE CHOOSE i \in blanks : \A j \in blanks : j <= i

LastToken(l) == SubSeq(l, LastBlank(l) + 1, Len(l))

FirstToken(l) == LastBlank(TrimStart(l)) = 0

\* tokenize and the specification of the tool: once the first word is complete,
\* its subcommands and options may be offered.
SpecItems(l) == IF FirstToken(l) THEN {} ELSE {"subcommand"}

\* Earlier commands that start with the line, from two characters on.
HistoryItems(l) == IF Len(TrimStart(l)) >= 2 THEN {"history"} ELSE {}

\* Names of files: only for an argument, never for the word of the command.
PathItems(l) ==
  IF TrimStart(l) = <<>> \/ FirstToken(l) THEN {} ELSE {"directory"}

\* After a blank and with anything found already, paths are not looked for.
SkipsPaths(l, found) == TrailingSpace(l) /\ found # {}

\* getCompletions: what may be answered for a line, in the order of the engine.
If(kind, found) == IF kind \in found THEN <<kind>> ELSE <<>>
Ordered(found) == If("subcommand", found) \o If("history", found) \o If("directory", found)

Completions(l) ==
  LET items == SpecItems(l) \cup HistoryItems(l) \cup PathItems(l)
      offered == {found \in SUBSET items : "directory" \in found => ~SkipsPaths(l, found \ {"directory"})}
  IN  IF TrimStart(l) = <<>> THEN {<<>>} ELSE {Ordered(found) : found \in offered}

(***************************************************************************)
(* autocompleteStore.ts                                                    *)
(***************************************************************************)
Show(p, items) ==
  /\ acPopup' = [pane |-> p, items |-> items, selected |-> 1]
  /\ acArrows' = FALSE

Dismiss == acPopup' = Closed /\ UNCHANGED acArrows

MovedUp == [acPopup EXCEPT !.selected = IF @ > 1 THEN @ - 1 ELSE 1]
MovedDown ==
  [acPopup EXCEPT !.selected = IF @ < Len(acPopup.items) THEN @ + 1
                               ELSE Len(acPopup.items)]

(***************************************************************************)
(* Accepting an item                                                       *)
(***************************************************************************)
\* What an item turns the tracked line into.  A history item is the rest of
\* the command and is appended; any other replaces the last word, or the part
\* of it after its last slash.
AfterSlash(t) ==
  LET slashes == {i \in DOMAIN t : t[i] = "/"}
  IN  IF slashes = {} THEN t
      ELSE SubSeq(t, (CHOOSE i \in slashes : \A j \in slashes : j <= i) + 1, Len(t))

Accepted(l, kind) ==
  LET typed == CASE kind = "history"   -> <<"c">>
                 [] kind = "directory" -> <<"c", "/">>
                 [] OTHER              -> <<"c">>
      keep == IF kind = "history" \/ TrailingSpace(l) THEN l
              ELSE SubSeq(l, 1, Len(l) - Len(AfterSlash(LastToken(l))))
  IN  keep \o typed

AcceptInto(p, l, kind) ==
  /\ Len(Accepted(l, kind)) <= MaxLine + 2
  /\ acLine' = [acLine EXCEPT ![p] = Accepted(l, kind)]
  /\ Dismiss

\* The selected item, if there is one: a late arrow key may have left none.
Selection == acPopup.selected \in DOMAIN acPopup.items
Selected == acPopup.items[acPopup.selected]

(***************************************************************************)
(* Timers and answers                                                      *)
(***************************************************************************)
\* triggerAutocomplete: restart the 60 ms, unless a composition goes on.
Trigger(p) == acTimer' = IF acComposing[p] THEN acTimer ELSE acTimer \cup {p}

TimerFires(p) ==
  /\ p \in acTimer
  /\ acTimer' = acTimer \ {p}
  /\ IF acComposing[p] THEN UNCHANGED <<acQueries, acPopup, acArrows>>
     ELSE IF acLine[p] = <<>> THEN Dismiss /\ UNCHANGED acQueries
     ELSE /\ acQueries' = acQueries \cup {[pane |-> p, input |-> acLine[p]]}
          /\ UNCHANGED <<acPopup, acArrows>>
  /\ UNCHANGED <<acLine, acRunning, acComposing, acNavigated, acFocus, acGone, acKeys>>

\* Wrong: the flag of the last popup stays.
FillLocalKeeps(p, items) == Show(p, items) /\ UNCHANGED acNavigated

\* What a local pane does with an answer: a filled popup has no choice made in
\* it yet, so Enter is not the popup's until an arrow key has been pressed.
FillLocal(p, items) ==
  /\ Show(p, items)
  /\ acNavigated' = [acNavigated EXCEPT ![p] = FALSE]

FillRemote(p, items) == Show(p, items) /\ UNCHANGED acNavigated

Fill(p, items) ==
  IF p \in Remote THEN FillRemote(p, items) ELSE FillLocal(p, items)

\* Answers come in any order; an answer for another line closes the popup,
\* whichever pane it is of.  (The cursor may be out of sight: nothing changes.)
Answer(q) ==
  /\ acQueries' = acQueries \ {q}
  /\ \/ \E items \in Completions(q.input) :
          IF items # <<>> /\ acLine[q.pane] = q.input
          THEN \/ q.pane \notin acGone /\ Fill(q.pane, items)
               \/ UNCHANGED <<acPopup, acArrows, acNavigated>>
          ELSE Dismiss /\ UNCHANGED acNavigated
     \/ Dismiss /\ UNCHANGED acNavigated
  /\ UNCHANGED <<acLine, acRunning, acComposing, acTimer, acFocus, acGone, acKeys>>

(***************************************************************************)
(* Keys                                                                    *)
(***************************************************************************)
Key(p) == p = acFocus /\ acKeys < MaxAcKeys /\ acKeys' = acKeys + 1

Shell == UNCHANGED <<acRunning, acComposing, acQueries, acFocus, acGone>>

\* A letter, a blank or a slash; a running program gets it untracked.
Type(p, c) ==
  /\ Key(p) /\ Shell
  /\ IF acRunning[p] THEN UNCHANGED <<acLine, acTimer>>
     ELSE Len(acLine[p]) < MaxLine /\ Trigger(p)
          /\ acLine' = [acLine EXCEPT ![p] = Append(@, c)]
  /\ UNCHANGED <<acNavigated, acPopup, acArrows>>

Backspace(p) ==
  /\ Key(p) /\ Shell /\ ~acRunning[p]
  /\ acLine' = [acLine EXCEPT ![p] = IF @ = <<>> THEN @ ELSE Front(@)]
  /\ Trigger(p)
  /\ UNCHANGED <<acNavigated, acPopup, acArrows>>

CtrlC(p) ==
  /\ Key(p) /\ Shell /\ ~acRunning[p]
  /\ acLine' = [acLine EXCEPT ![p] = <<>>]
  /\ Dismiss
  /\ UNCHANGED <<acNavigated, acTimer>>

\* Enter at a local prompt: the selected item is written first when the arrow
\* keys chose it; the line is handed to the shell in any case.
EnterLocal(p) ==
  /\ acLine' = [acLine EXCEPT ![p] = <<>>]
  /\ acNavigated' = [acNavigated EXCEPT ![p] = FALSE]
  /\ Dismiss

\* Enter at a remote prompt never takes an item.
EnterRemote(p) ==
  /\ acLine' = [acLine EXCEPT ![p] = <<>>]
  /\ Dismiss
  /\ UNCHANGED acNavigated

Enter(p) ==
  /\ Key(p) /\ Shell /\ ~acRunning[p]
  /\ IF p \in Remote THEN EnterRemote(p) ELSE EnterLocal(p)
  /\ UNCHANGED acTimer

\* Tab and the right arrow take the selected item of the pane's own popup.
TakeLocal(p) ==
  /\ Key(p) /\ Shell /\ p \notin Remote /\ acPopup.pane = p /\ Selection
  /\ AcceptInto(p, acLine[p], Selected)
  /\ UNCHANGED <<acNavigated, acTimer>>

TakeRemote(p) ==
  /\ Key(p) /\ Shell /\ p \in Remote /\ acPopup.pane = p /\ Selection
  /\ AcceptInto(p, acLine[p], Selected)
  /\ UNCHANGED <<acNavigated, acTimer>>

\* The arrow keys of a pane with the popup; the handler may still be bound when
\* the popup has just been closed, and then the pane is marked all the same.
ArrowLocal(p) ==
  /\ Key(p) /\ Shell /\ p \notin Remote
  /\ acPopup' \in {MovedUp, MovedDown}
  /\ acNavigated' = [acNavigated EXCEPT ![p] = TRUE]
  /\ acArrows' = TRUE
  /\ UNCHANGED <<acLine, acTimer>>

ArrowRemote(p) ==
  /\ Key(p) /\ Shell /\ p \in Remote /\ acPopup.pane = p
  /\ acPopup' \in {MovedUp, MovedDown}
  /\ acArrows' = TRUE
  /\ UNCHANGED <<acLine, acTimer, acNavigated>>

Escape(p) ==
  /\ Key(p) /\ Shell /\ acPopup.pane = p
  /\ Dismiss
  /\ UNCHANGED <<acLine, acTimer, acNavigated>>

\* AutocompletePopup.tsx: the pointer selects, a click takes what it is on.
Hover(i) ==
  /\ i \in DOMAIN acPopup.items /\ acPopup.selected # i
  /\ acPopup' = [acPopup EXCEPT !.selected = i]
  /\ UNCHANGED <<acLine, acRunning, acComposing, acNavigated, acTimer, acQueries,
                 acArrows, acFocus, acGone, acKeys>>

Click(i) ==
  /\ i \in DOMAIN acPopup.items
  /\ acKeys < MaxAcKeys /\ acKeys' = acKeys + 1
  /\ AcceptInto(acPopup.pane, acLine[acPopup.pane], acPopup.items[i])
  /\ UNCHANGED <<acRunning, acComposing, acNavigated, acTimer, acQueries, acFocus, acGone>>

\* A key of another pane of a broadcast changes the line and nothing else.
Broadcast(p) ==
  /\ acFocus # p /\ acKeys < MaxAcKeys /\ acKeys' = acKeys + 1
  /\ p \notin Remote
  /\ \/ Len(acLine[p]) < MaxLine /\ acLine' = [acLine EXCEPT ![p] = Append(@, "c")]
     \/ acLine[p] # <<>> /\ acLine' = [acLine EXCEPT ![p] = Front(@)]
     \/ acLine[p] # <<>> /\ acLine' = [acLine EXCEPT ![p] = <<>>]
  /\ Shell
  /\ UNCHANGED <<acNavigated, acTimer, acPopup, acArrows>>

FocusPane(p) ==
  /\ acFocus # p
  /\ acFocus' = p
  /\ UNCHANGED <<acLine, acRunning, acComposing, acNavigated, acTimer, acQueries,
                 acPopup, acArrows, acGone, acKeys>>

\* ime.setHandlers: a composition closes the popup and drops the timer, but not
\* a question that is already being answered.
ComposeStart(p) ==
  /\ Key(p) /\ p \notin Remote /\ ~acComposing[p]
  /\ acComposing' = [acComposing EXCEPT ![p] = TRUE]
  /\ acTimer' = acTimer \ {p}
  /\ Dismiss
  /\ UNCHANGED <<acLine, acRunning, acNavigated, acQueries, acFocus, acGone>>

ComposeEnd(p) ==
  /\ acComposing[p]
  /\ acComposing' = [acComposing EXCEPT ![p] = FALSE]
  /\ UNCHANGED <<acLine, acRunning, acNavigated, acTimer, acQueries, acPopup,
                 acArrows, acFocus, acGone, acKeys>>

ComposeInput(p) ==
  /\ Key(p) /\ Shell /\ p \notin Remote /\ ~acRunning[p]
  /\ Len(acLine[p]) < MaxLine
  /\ acLine' = [acLine EXCEPT ![p] = Append(@, "c")]
  /\ Trigger(p)
  /\ UNCHANGED <<acNavigated, acPopup, acArrows>>

(***************************************************************************)
(* The shell's marks                                                       *)
(***************************************************************************)
MarkA(p) ==
  /\ acLine' = [acLine EXCEPT ![p] = <<>>]
  /\ acRunning' = [acRunning EXCEPT ![p] = FALSE]
  /\ Dismiss

MarkC(p) ==
  /\ acRunning' = [acRunning EXCEPT ![p] = TRUE]
  /\ Dismiss
  /\ UNCHANGED acLine

Mark(p) ==
  /\ IF acRunning[p] THEN MarkA(p) ELSE MarkC(p)
  /\ UNCHANGED <<acComposing, acNavigated, acTimer, acQueries, acFocus, acGone, acKeys>>

\* A pane is closed: its timer is dropped and its popup closed.  The completions
\* it waits for still come, and find no terminal to be shown at.
Leave(p) ==
  /\ acGone = {} /\ acGone' = {p}
  /\ acTimer' = acTimer \ {p}
  /\ IF acPopup.pane = p THEN Dismiss ELSE UNCHANGED <<acPopup, acArrows>>
  /\ acFocus' \in AcPane \ {p}
  /\ UNCHANGED <<acLine, acRunning, acComposing, acNavigated, acQueries, acKeys>>

AcNext ==
  \/ \E p \in AcPane \ acGone :
       \/ \E c \in Chars : Type(p, c)
       \/ Backspace(p) \/ CtrlC(p) \/ Enter(p) \/ TakeLocal(p) \/ TakeRemote(p)
       \/ ArrowLocal(p) \/ ArrowRemote(p) \/ Escape(p) \/ Broadcast(p)
       \/ FocusPane(p) \/ ComposeStart(p) \/ ComposeEnd(p) \/ ComposeInput(p)
       \/ TimerFires(p) \/ Mark(p) \/ Leave(p)
  \/ \E q \in acQueries : Answer(q)
  \/ \E i \in DOMAIN acPopup.items : Hover(i) \/ Click(i)

AcSpec == AcInit /\ [][AcNext]_acVars

\* Enter runs an item of the popup only if the user moved to it: a popup that
\* was filled again after the arrow keys were used - by an older answer, after
\* Escape, for another line - asks for a new choice.
EnterTakesAPick ==
  \A p \in AcPane \ Remote : acPopup.pane = p /\ acNavigated[p] => acArrows
=============================================================================
