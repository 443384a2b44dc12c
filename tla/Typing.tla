------------------------------- MODULE Typing -------------------------------
(***************************************************************************)
(* What is typed into a terminal of the window, and what else goes there   *)
(* with it: the input methods of macOS and Windows, the input bar and the  *)
(* completion.  One of them runs, or none, and the others are idle.        *)
(***************************************************************************)
EXTENDS Integers, Sequences

CONSTANTS
  MaxTexts, MaxDrops, MaxKeys, MaxMarks, MaxLetters, MaxToggles, AcPane,
  Remote, NoPane, MaxLine, MaxAcKeys

\* The bounds on what is typed and dropped are numbers.
ASSUME InputAssumption ==
  /\ MaxTexts \in Nat /\ MaxDrops \in Nat /\ MaxKeys \in Nat
  /\ MaxMarks \in Nat /\ MaxLetters \in Nat /\ MaxToggles \in Nat

\* No pane is the one that is none.
ASSUME CompletionAssumption == NoPane \notin AcPane /\ MaxAcKeys \in Nat

VARIABLES
  part,   \* the component that runs; the others are idle
  inputBarOpen, pendingImages, prop, consumed, attached,
  compressing, settled, value, draftStore, draftRef,
  history, historyIndex, bracketedPaste, sends, arrived,
  texts, drops, keys,   \* InputBar
  typed, switched, composing, macEvents, imeActive,
  sessionActive, compositionActive, interceptEnabled,
  inputBuffer, pendingLegacyJamo, legacySyllable, promptY,
  promptStartAllowed, sent, echoed, anchor, unconfirmed,
  echoBase, cut, overrun, marks,   \* MacIme
  letters, osText, queue, winActive, session, intercept,
  buffer, xtermComposes, scrolled, output, broken, toggles,   \* WinIme
  acLine, acRunning, acComposing, acNavigated, acTimer,
  acQueries, acPopup, acArrows, acFocus, acGone, acKeys   \* Autocomplete

Ib == INSTANCE InputBar
Mi == INSTANCE MacIme WITH
  events <- macEvents
Wi == INSTANCE WinIme WITH
  active <- winActive
Ac == INSTANCE Autocomplete

Idle == "idle"

TypingInit ==
  /\ IF part = "bar"
       THEN Ib!Init
       ELSE /\ inputBarOpen = Idle /\ pendingImages = Idle /\ prop = Idle
            /\ consumed = Idle /\ attached = Idle /\ compressing = Idle
            /\ settled = Idle /\ value = Idle /\ draftStore = Idle
            /\ draftRef = Idle /\ history = Idle /\ historyIndex = Idle
            /\ bracketedPaste = Idle /\ sends = Idle /\ arrived = Idle
            /\ texts = Idle /\ drops = Idle /\ keys = Idle
  /\ IF part = "mac"
       THEN Mi!Init
       ELSE /\ typed = Idle /\ switched = Idle /\ composing = Idle
            /\ macEvents = Idle /\ imeActive = Idle /\ sessionActive = Idle
            /\ compositionActive = Idle /\ interceptEnabled = Idle
            /\ inputBuffer = Idle /\ pendingLegacyJamo = Idle
            /\ legacySyllable = Idle /\ promptY = Idle
            /\ promptStartAllowed = Idle /\ sent = Idle /\ echoed = Idle
            /\ anchor = Idle /\ unconfirmed = Idle /\ echoBase = Idle
            /\ cut = Idle /\ overrun = Idle /\ marks = Idle
  /\ IF part = "win"
       THEN Wi!Init
       ELSE /\ letters = Idle /\ osText = Idle /\ queue = Idle
            /\ winActive = Idle /\ session = Idle /\ intercept = Idle
            /\ buffer = Idle /\ xtermComposes = Idle /\ scrolled = Idle
            /\ output = Idle /\ broken = Idle /\ toggles = Idle
  /\ IF part = "completion"
       THEN Ac!AcInit
       ELSE /\ acLine = Idle /\ acRunning = Idle /\ acComposing = Idle
            /\ acNavigated = Idle /\ acTimer = Idle /\ acQueries = Idle
            /\ acPopup = Idle /\ acArrows = Idle /\ acFocus = Idle
            /\ acGone = Idle /\ acKeys = Idle

ibVars == <<inputBarOpen, pendingImages, prop, consumed, attached,
            compressing, settled, value, draftStore, draftRef, history,
            historyIndex, bracketedPaste, sends, arrived, texts, drops,
            keys>>
miVars == <<typed, switched, composing, macEvents, imeActive, sessionActive,
            compositionActive, interceptEnabled, inputBuffer,
            pendingLegacyJamo, legacySyllable, promptY, promptStartAllowed,
            sent, echoed, anchor, unconfirmed, echoBase, cut, overrun,
            marks>>
wiVars == <<letters, osText, queue, winActive, session, intercept, buffer,
            xtermComposes, scrolled, output, broken, toggles>>
acVars == <<acLine, acRunning, acComposing, acNavigated, acTimer, acQueries,
            acPopup, acArrows, acFocus, acGone, acKeys>>
typingVars == <<part, ibVars, miVars, wiVars, acVars>>

TypingNext ==
  /\ UNCHANGED part
  /\ IF part = "bar" THEN Ib!Next ELSE UNCHANGED ibVars
  /\ IF part = "mac" THEN Mi!Next ELSE UNCHANGED miVars
  /\ IF part = "win" THEN Wi!Next ELSE UNCHANGED wiVars
  /\ IF part = "completion" THEN Ac!AcNext ELSE UNCHANGED acVars

TypingSpec == TypingInit /\ [][TypingNext]_typingVars

-----------------------------------------------------------------------------
(* The type invariant of what runs.                                           *)
TypingTypeOK ==
  /\ part = "bar" => Ib!TypeOK
  /\ part = "mac" => Mi!TypeOK
  /\ part = "win" => Wi!TypeOK
  /\ part = "completion" => Ac!AcTypeOK

(* What the user types, composes, attaches or completes reaches the program   *)
(* once and in order (lib/platform/ime/mac.ts,                                *)
(* lib/platform/ime/windows.ts, TerminalInputBar.tsx, useAutocomplete.ts).    *)
InputArrivesOnce ==
  /\ part = "mac" => Mi!LettersArriveInOrder
  /\ part = "win" => Wi!TextArrivesOnce
  /\ part = "bar" => Ib!ImagesAttachedOnce
  /\ part = "completion" => Ac!EnterTakesAPick
=============================================================================
