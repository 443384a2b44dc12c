----------------------------- MODULE EditorTabs -----------------------------
(***************************************************************************)
(* The tabs of the text editors: the panel beside the terminals            *)
(* (src/stores/panelEditorStore.ts, components/Editor/InlineEditorPanel)   *)
(* and the editor of its own window or dialog (src/stores/editorStore.ts,  *)
(* components/Editor/EditorWindow, InlineEditorModal.tsx). They share      *)
(* src/stores/tabUtils.ts. Reading and writing a file are asynchronous,    *)
(* and their answers find "their" tab by the index it had at the start.    *)
(* A text is a pair: the file it was meant for, and a version of it.       *)
(***************************************************************************)
EXTENDS Naturals, Sequences, FiniteSets, SequencesExt

CONSTANTS File,
          None,        \* no timer
          MaxTexts,    \* bound: versions of texts
          MaxGestures  \* bound: tabs opened, closed and moved, menus, focus changes

VARIABLES
  inPanel,       \* which of the two editors this is
  tabs,          \* in their order
  activeIndex,
  menu,          \* ctxMenu.index, 0 when there is no menu
  autoSaveTimer, \* what the pending auto save remembers: the path, and the index
  disk,          \* the text of each file
  reads,         \* apiReadTextFile under way: for a new tab, or to reload one
  writes,        \* apiWriteTextFile under way
  crashed,       \* a tab that does not exist was rendered
  texts, gestures

ioVars == <<disk, reads, writes>>
vars == <<inPanel, tabs, activeIndex, menu, autoSaveTimer, ioVars, crashed, texts, gestures>>

Texts == File \X (0..MaxTexts)
EditorTab == [path : File, content : Texts, originalContent : Texts]
isDirty(tab) == tab.content # tab.originalContent
Slots == 0..(Cardinality(File) + 1)

TypeOK ==
  /\ inPanel \in BOOLEAN /\ crashed \in BOOLEAN
  /\ tabs \in Seq(EditorTab) /\ activeIndex \in Slots \ {0} /\ menu \in Slots
  /\ autoSaveTimer \in (File \X Slots) \cup {None}
  /\ disk \in [File -> Texts]
  /\ reads \subseteq [path : File, at : Slots, text : Texts, id : 1..MaxGestures,
                     confirmed : BOOLEAN]
  /\ writes \subseteq [path : File, at : Slots, text : Texts]
  /\ texts \in 0..MaxTexts /\ gestures \in 0..MaxGestures

Init ==
  /\ inPanel \in BOOLEAN /\ crashed = FALSE
  /\ tabs = <<>> /\ activeIndex = 1 /\ menu = 0 /\ autoSaveTimer = None
  /\ disk = [f \in File |-> <<f, 0>>] /\ reads = {} /\ writes = {}
  /\ texts = 0 /\ gestures = 0

-----------------------------------------------------------------------------
(* tabUtils. Positions count from 1.                                          *)
Index(path) == SelectInSeq(tabs, LAMBDA t : t.path = path)
Atop(n) == IF n < 1 THEN 1 ELSE n

closeTabUnclamped(i) ==
  /\ tabs' = RemoveAt(tabs, i)
  /\ activeIndex' = IF i <= activeIndex THEN activeIndex - 1 ELSE activeIndex
closeTab(i) ==
  /\ tabs' = RemoveAt(tabs, i)
  /\ activeIndex' = IF i <= activeIndex THEN Atop(activeIndex - 1) ELSE activeIndex
closeOthers(i) == tabs' = <<tabs[i]>> /\ activeIndex' = 1
closeToRight(i) ==
  /\ tabs' = SubSeq(tabs, 1, i)
  /\ activeIndex' = IF activeIndex < i THEN activeIndex ELSE i
moveTab(from, to) ==
  /\ tabs' = InsertAt(RemoveAt(tabs, from), to, tabs[from])
  /\ activeIndex' = CASE from = activeIndex -> to
                      [] from < activeIndex /\ to >= activeIndex -> activeIndex - 1
                      [] from > activeIndex /\ to <= activeIndex -> activeIndex + 1
                      [] OTHER -> activeIndex

Gesture == gestures < MaxGestures /\ gestures' = gestures + 1

(* What the file holds when the read is asked for: a write that ends before   *)
(* the answer is not in it. `confirmed` is history: the user was asked.       *)
Reading(path, at) ==
  [path |-> path, at |-> at, text |-> disk[path], id |-> gestures + 1,
   confirmed |-> at # 0 /\ isDirty(tabs[at])]

(* openEditorPanel, loadAndOpenFile, openEditorModal: a file with a tab is    *)
(* shown and reloaded, after a confirmation if it is dirty; another is read   *)
(* first.                                                                     *)
Open(f) ==
  /\ Gesture
  /\ LET i == Index(f)
     IN IF i = 0
        THEN reads' = reads \cup {Reading(f, 0)} /\ UNCHANGED activeIndex
        ELSE /\ activeIndex' = i
             /\ reads' \in {reads \cup {Reading(f, i)}}
                           \cup (IF isDirty(tabs[i]) THEN {reads} ELSE {})
  /\ UNCHANGED <<inPanel, crashed, tabs, menu, autoSaveTimer, disk, writes, texts>>

(* openTab: the file may have got its tab since.                              *)
openTabUnchecked(r) ==
  /\ tabs' = Append(tabs, [path |-> r.path, content |-> r.text, originalContent |-> r.text])
  /\ activeIndex' = Len(tabs')
openTab(r) ==
  IF Index(r.path) # 0
  THEN activeIndex' = Index(r.path) /\ UNCHANGED tabs
  ELSE openTabUnchecked(r)

(* The answer of a reload replaces the text of the tab at its index, whatever *)
(* has happened to the tabs and to that text since.                           *)
Reload(r) ==
  /\ tabs' = IF r.at \in DOMAIN tabs
             THEN [tabs EXCEPT ![r.at].content = r.text, ![r.at].originalContent = r.text]
             ELSE tabs
  /\ UNCHANGED activeIndex

ReadEnds(r) ==
  /\ r \in reads /\ reads' = reads \ {r}
  /\ \/ r.at = 0 /\ openTab(r)
     \/ r.at # 0 /\ Reload(r)
     \/ UNCHANGED <<tabs, activeIndex>>                      \* no such file
  /\ UNCHANGED <<inPanel, crashed, menu, autoSaveTimer, disk, writes, texts, gestures>>

(* The window gets the focus: reloadAllNonDirtyTabs.                          *)
Focus ==
  /\ Gesture
  /\ reads' = reads \cup {Reading(tabs[i].path, i) : i \in {i \in DOMAIN tabs : ~isDirty(tabs[i])}}
  /\ UNCHANGED <<inPanel, crashed, tabs, activeIndex, menu, autoSaveTimer, disk, writes, texts>>

(* A tab is clicked; that of the window is reloaded, too.                     *)
Show(i) ==
  /\ Gesture /\ i \in DOMAIN tabs
  /\ activeIndex' = i
  /\ reads' \in (IF inPanel THEN {} ELSE {reads \cup {Reading(tabs[i].path, i)}})
                \cup (IF inPanel \/ isDirty(tabs[i]) THEN {reads} ELSE {})
  /\ UNCHANGED <<inPanel, crashed, tabs, menu, autoSaveTimer, disk, writes, texts>>

-----------------------------------------------------------------------------
(* Closing, dirty or not, and moving; from the menu, at the index it had when *)
(* it was opened.                                                             *)
OpenMenu(i) ==
  /\ Gesture /\ i \in DOMAIN tabs /\ menu' = i
  /\ UNCHANGED <<inPanel, crashed, tabs, activeIndex, autoSaveTimer, ioVars, texts>>

FromMenu ==
  /\ menu # 0 /\ menu' = 0
  /\ \/ /\ menu \in DOMAIN tabs /\ UNCHANGED crashed
        /\ closeTab(menu) \/ closeOthers(menu) \/ closeToRight(menu)
     \/ /\ menu \notin DOMAIN tabs                        \* Ctrl+W closed it meanwhile
        /\ crashed' \in {crashed, TRUE}                   \* TRUE: "close others" leaves [undefined]
        /\ UNCHANGED <<tabs, activeIndex>>
  /\ UNCHANGED <<inPanel, autoSaveTimer, ioVars, texts, gestures>>

(* The cross, the middle button, Ctrl+W; "close all"; a client that closed    *)
(* the file's tab on the other side.                                          *)
Close(i) ==
  /\ Gesture /\ i \in DOMAIN tabs /\ closeTab(i)
  /\ UNCHANGED <<inPanel, crashed, menu, autoSaveTimer, ioVars, texts>>
CloseAll ==
  /\ menu # 0 /\ menu' = 0 /\ tabs' = <<>> /\ activeIndex' = 1
  /\ UNCHANGED <<inPanel, crashed, autoSaveTimer, ioVars, texts, gestures>>

Drop(from, to) ==
  /\ Gesture /\ {from, to} \subseteq DOMAIN tabs /\ from # to
  /\ moveTab(from, to)
  /\ UNCHANGED <<inPanel, crashed, menu, autoSaveTimer, ioVars, texts>>

-----------------------------------------------------------------------------
(* handleChange: each change restarts the one timer there is, whichever tab   *)
(* the pending one was for.                                                   *)
restartTimer == autoSaveTimer' = <<tabs[activeIndex].path, activeIndex>>

Change ==
  /\ texts < MaxTexts /\ activeIndex \in DOMAIN tabs
  /\ texts' = texts + 1
  /\ tabs' = [tabs EXCEPT ![activeIndex].content = <<tabs[activeIndex].path, texts'>>]
  /\ restartTimer
  /\ UNCHANGED <<inPanel, crashed, activeIndex, menu, ioVars, gestures>>

Write(i) == writes' = writes \cup {[path |-> tabs[i].path, at |-> i, text |-> tabs[i].content]}

(* A second later. The panel looks its tab up by path, the window by index.   *)
AutoSave ==
  /\ autoSaveTimer # None /\ autoSaveTimer' = None
  /\ LET i == IF inPanel THEN Index(autoSaveTimer[1]) ELSE autoSaveTimer[2]
     IN IF i \in DOMAIN tabs /\ isDirty(tabs[i]) THEN Write(i) ELSE UNCHANGED writes
  /\ UNCHANGED <<inPanel, crashed, tabs, activeIndex, menu, disk, reads, texts, gestures>>

(* handleSave: Ctrl+S.                                                        *)
Save ==
  /\ Gesture /\ activeIndex \in DOMAIN tabs /\ Write(activeIndex)
  /\ UNCHANGED <<inPanel, crashed, tabs, activeIndex, menu, autoSaveTimer, disk, reads, texts>>

(* markSaved: the text of now counts as saved, not the one that was written.  *)
markSaved(i) ==
  tabs' = IF i \in DOMAIN tabs
          THEN [tabs EXCEPT ![i].originalContent = tabs[i].content]
          ELSE tabs

WriteEnds(w) ==
  /\ w \in writes /\ writes' = writes \ {w}
  /\ \/ disk' = [disk EXCEPT ![w.path] = w.text] /\ markSaved(w.at)
     \/ UNCHANGED <<disk, tabs>>
  /\ UNCHANGED <<inPanel, crashed, activeIndex, menu, autoSaveTimer, reads, texts, gestures>>

(* Another program writes the file.                                           *)
Outside(f) ==
  /\ texts < MaxTexts /\ texts' = texts + 1
  /\ disk' = [disk EXCEPT ![f] = <<f, texts'>>]
  /\ UNCHANGED <<inPanel, crashed, tabs, activeIndex, menu, autoSaveTimer, reads, writes, gestures>>

Steps ==
  \/ Focus \/ FromMenu \/ CloseAll \/ Change \/ AutoSave \/ Save
  \/ \E f \in File : Open(f) \/ Outside(f)
  \/ \E i \in DOMAIN tabs : Show(i) \/ OpenMenu(i) \/ Close(i)
  \/ \E i, j \in DOMAIN tabs : Drop(i, j)
  \/ \E r \in reads : ReadEnds(r)
  \/ \E w \in writes : WriteEnds(w)

Next == ~crashed /\ Steps

Spec == Init /\ [][Next]_vars

-----------------------------------------------------------------------------
(* A file has one tab, however its openings overlap, and as long as there are *)
(* tabs one of them is shown.                                                 *)
OneTabPerFile ==
  /\ \A i, j \in DOMAIN tabs : tabs[i].path = tabs[j].path => i = j
  /\ tabs # <<>> => activeIndex \in DOMAIN tabs

(* Getting the focus refreshes the "non-dirty tabs": a reload nobody was asked *)
(* about leaves a text that is not saved alone.                               *)
EditsSurvive ==
  [][\A r \in reads : r \notin reads' /\ ~r.confirmed /\ r.at \in DOMAIN tabs /\ isDirty(tabs[r.at])
        => tabs' = tabs]_vars
=============================================================================
