------------------------------ MODULE InputBar ------------------------------
(***************************************************************************)
(* The input bar under a terminal                                          *)
(* (src/components/Terminal/TerminalPane/TerminalInputBar.tsx) and the     *)
(* pane that opens it and hands it dropped images (TerminalPane.tsx,       *)
(* useTerminalEvents.ts). The images go through a state of the pane, which *)
(* the bar sees as a property and asks to be cleared. A text is a number,  *)
(* 0 is the empty one; an image is the number of its drop.                 *)
(***************************************************************************)
EXTENDS Naturals, Sequences, FiniteSets, SequencesExt

CONSTANTS MaxTexts, MaxDrops, MaxKeys   \* bounds: texts typed, images dropped, keys of the history

VARIABLES
  inputBarOpen,
  pendingImages, prop,   \* the pane's state, and the bar's property as last rendered
  consumed,              \* consumedPendingRef
  attached,              \* how often each image is attached
  compressing,
  settled,               \* images that were sent, removed, or lost with the bar
  value,                 \* what the bar shows
  draftStore,            \* kept while the bar is closed
  draftRef,              \* the draft, while the history is browsed
  history, historyIndex, \* newest first; the index counts from 1, 0 is the draft
  bracketedPaste,        \* the program in the terminal asked for it
  sends,                 \* sends under way: the writes they still have to make, oldest first
  arrived,               \* what the PTY got
  texts, drops, keys

imageVars == <<pendingImages, prop, consumed, attached, compressing, settled>>
textVars == <<value, draftStore, draftRef, history, historyIndex>>
ptyVars == <<bracketedPaste, sends, arrived>>
counters == <<texts, drops, keys>>
vars == <<inputBarOpen, imageVars, textVars, ptyVars, counters>>

Image == 1..MaxDrops
Text == 0..MaxTexts
Enter == <<0, "enter">>
Write == {Enter} \cup (Text \X {"paste", "entered"})

TypeOK ==
  /\ inputBarOpen \in BOOLEAN /\ bracketedPaste \in BOOLEAN
  /\ {pendingImages, prop, consumed} \subseteq Image \cup {0}
  /\ attached \in [Image -> 0..2]
  /\ compressing \subseteq Image /\ settled \subseteq Image
  /\ {value, draftStore, draftRef} \subseteq Text
  /\ history \in Seq(Text \ {0}) /\ historyIndex \in 0..Len(history)
  /\ arrived \in Seq(Write)
  /\ \A i \in DOMAIN sends : sends[i] \in Seq(Write) /\ sends[i] # <<>>
  /\ texts \in Text /\ drops \in 0..MaxDrops /\ keys \in 0..MaxKeys

Init ==
  /\ inputBarOpen = FALSE /\ pendingImages = 0 /\ prop = 0 /\ consumed = 0
  /\ attached = [i \in Image |-> 0] /\ compressing = {} /\ settled = {}
  /\ value = 0 /\ draftStore = 0 /\ draftRef = 0 /\ history = <<>> /\ historyIndex = 0
  /\ bracketedPaste \in BOOLEAN /\ sends = <<>> /\ arrived = <<>>
  /\ texts = 0 /\ drops = 0 /\ keys = 0

Attached == {i \in Image : attached[i] > 0}
Attach(i) == attached' = [attached EXCEPT ![i] = @ + 1]
Detach(images) ==
  /\ attached' = [i \in Image |-> IF i \in images THEN 0 ELSE attached[i]]
  /\ settled' = settled \cup images

-----------------------------------------------------------------------------
(* The bar mounts: an image that is pending is its first attachment.          *)
OpenBar ==
  /\ keys < MaxKeys /\ keys' = keys + 1
  /\ ~inputBarOpen /\ inputBarOpen' = TRUE
  /\ value' = draftStore /\ draftRef' = 0 /\ historyIndex' = 0
  /\ consumed' = pendingImages /\ prop' = pendingImages /\ pendingImages' = 0
  /\ IF consumed' = 0
     THEN UNCHANGED <<attached, compressing>>
     ELSE Attach(consumed') /\ compressing' = compressing \cup {consumed'}
  /\ UNCHANGED <<settled, draftStore, history, ptyVars, texts, drops>>

(* Escape or the cross, which also clear what is pending, or the shortcut.    *)
(* The text is kept, the attachments are not.                                 *)
CloseBar ==
  /\ inputBarOpen /\ inputBarOpen' = FALSE
  /\ \/ pendingImages' = 0 /\ Detach(Attached \cup ({pendingImages} \ {0}))
     \/ Detach(Attached) /\ UNCHANGED pendingImages
  /\ compressing' = {}
  /\ UNCHANGED <<prop, consumed, textVars, ptyVars, counters>>

(* A drop beside the open bar, after the pane and the bar were rendered.      *)
DropOnPane ==
  /\ inputBarOpen /\ drops < MaxDrops /\ prop = pendingImages /\ prop \in {0, consumed}
  /\ drops' = drops + 1 /\ pendingImages' = drops'
  /\ UNCHANGED <<inputBarOpen, prop, consumed, attached, compressing, settled, textVars, ptyVars, texts, keys>>

DropOnBar ==
  /\ inputBarOpen /\ drops < MaxDrops
  /\ drops' = drops + 1 /\ Attach(drops') /\ compressing' = compressing \cup {drops'}
  /\ UNCHANGED <<inputBarOpen, pendingImages, prop, consumed, settled, textVars, ptyVars, texts, keys>>

Compressed(i) ==
  /\ i \in compressing /\ compressing' = compressing \ {i}
  /\ UNCHANGED <<inputBarOpen, pendingImages, prop, consumed, attached, settled, textVars, ptyVars, counters>>

PaneRenders ==
  /\ inputBarOpen /\ prop # pendingImages /\ prop' = pendingImages
  /\ UNCHANGED <<inputBarOpen, pendingImages, consumed, attached, compressing, settled, textVars, ptyVars,
                 counters>>

(* The bar may be rendered again with the same property before the pane       *)
(* clears it.                                                                 *)
WheneverPending == prop # 0
WhenNew == prop # 0 /\ prop # consumed

BarRenders ==
  /\ inputBarOpen /\ WhenNew
  /\ consumed' = prop /\ Attach(prop) /\ pendingImages' = 0
  /\ UNCHANGED <<inputBarOpen, prop, compressing, settled, textVars, ptyVars, counters>>

RemoveImage(i) ==
  /\ inputBarOpen /\ i \in Attached /\ Detach({i})
  /\ compressing' = compressing \ {i}
  /\ UNCHANGED <<inputBarOpen, pendingImages, prop, consumed, textVars, ptyVars, counters>>

-----------------------------------------------------------------------------
Type ==
  /\ inputBarOpen /\ texts < MaxTexts
  /\ texts' = texts + 1 /\ value' = texts' /\ draftStore' = value' /\ historyIndex' = 0
  /\ UNCHANGED <<inputBarOpen, imageVars, draftRef, history, ptyVars, drops, keys>>

(* ArrowUp, ArrowDown and "last"; what is shown is what the store keeps.      *)
Browse(i) ==
  /\ inputBarOpen /\ keys < MaxKeys /\ keys' = keys + 1
  /\ i \in 0..Len(history) /\ i # historyIndex
  /\ i \in {1, historyIndex + 1} \/ i + 1 = historyIndex
  /\ historyIndex' = i
  /\ draftRef' = IF historyIndex = 0 THEN value ELSE draftRef
  /\ value' = IF i = 0 THEN draftRef ELSE history[i]
  /\ draftStore' = value'
  /\ UNCHANGED <<inputBarOpen, imageVars, history, ptyVars, texts, drops>>

(* send: Shift+Enter, Enter twice, the button. What it writes depends on the  *)
(* mode and on the attachments.                                               *)
Writes ==
  IF value = 0 /\ Attached = {} THEN <<Enter>>
  ELSE IF ~bracketedPaste THEN <<<<value, "entered">>>>
  ELSE IF Attached = {} THEN <<<<value, "paste">>, Enter>>
  ELSE <<<<value, "paste">>, Enter, Enter>>

Send ==
  /\ inputBarOpen /\ keys < MaxKeys /\ keys' = keys + 1
  /\ sends' = Append(sends, Writes)
  /\ history' = IF value = 0 \/ (history # <<>> /\ Head(history) = value)
                THEN history
                ELSE <<value>> \o history
  /\ value' = 0 /\ draftStore' = 0 /\ draftRef' = 0 /\ historyIndex' = 0
  /\ Detach(Attached) /\ compressing' = {}
  /\ UNCHANGED <<inputBarOpen, pendingImages, prop, consumed, bracketedPaste, arrived, texts, drops>>

(* One write of one send under way.                                           *)
WriteArrives(i) ==
  /\ i \in DOMAIN sends
  /\ arrived' = Append(arrived, Head(sends[i]))
  /\ sends' = IF Len(sends[i]) = 1 THEN RemoveAt(sends, i) ELSE [sends EXCEPT ![i] = Tail(@)]
  /\ UNCHANGED <<inputBarOpen, imageVars, textVars, bracketedPaste, counters>>

Next ==
  \/ OpenBar \/ CloseBar \/ DropOnPane \/ DropOnBar \/ PaneRenders \/ BarRenders \/ Type \/ Send
  \/ \E i \in Image : Compressed(i) \/ RemoveImage(i)
  \/ \E i \in 0..Len(history) : Browse(i)
  \/ \E i \in DOMAIN sends : WriteArrives(i)

Spec == Init /\ [][Next]_vars

-----------------------------------------------------------------------------
(* An image that was dropped on the pane or on the bar is attached once, or   *)
(* waits in the pane's state until it is, or has been dealt with: rendering   *)
(* again and closing and opening the bar neither double nor lose it.          *)
ImagesAttachedOnce ==
  \A i \in 1..drops : attached[i] + (IF i = pendingImages THEN 1 ELSE 0)
                                  + (IF i \in settled THEN 1 ELSE 0) = 1
=============================================================================
