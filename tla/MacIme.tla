------------------------------- MODULE MacIme -------------------------------
(***************************************************************************)
(* Korean input in a terminal of macOS (src/lib/platform/ime/mac.ts over   *)
(* base.ts): composition events are taken from xterm, and a first          *)
(* consonant that WKWebView delivers outside any composition is held back  *)
(* and composed by hand with what follows. Letters are numbered in the     *)
(* order they are typed; a text is the sequence of its letters.            *)
(***************************************************************************)
EXTENDS Integers, Sequences, SequencesExt

CONSTANTS MaxKeys, MaxMarks   \* bounds: keys typed, marks of the shell and changes of the interception

VARIABLES
  typed,                  \* the kind of every letter typed
  switched,               \* the next consonant comes outside a composition
  composing,              \* what the system composes
  events,                 \* DOM events not handled yet
  imeActive, sessionActive, compositionActive, interceptEnabled,
  inputBuffer, pendingLegacyJamo, legacySyllable,
  promptY, promptStartAllowed,   \* promptY # null; a mark B would be accepted
  sent, echoed,                  \* texts the PTY got, and how many it echoed: the cursor
  anchor, unconfirmed, echoBase, \* of the overlay; a column is the width of a syllable, and a wrong
                                 \* prediction may put it left of the first one
  cut,                    \* a composition was flushed before the system ended it
  overrun,                \* a held consonant met another one, or was left behind a held syllable
  marks

inputVars == <<typed, switched, composing>>
holdVars == <<inputBuffer, pendingLegacyJamo, legacySyllable>>
modeVars == <<imeActive, sessionActive, compositionActive>>
promptVars == <<interceptEnabled, promptY, promptStartAllowed>>
echoVars == <<anchor, unconfirmed, echoBase>>
vars == <<inputVars, events, modeVars, holdVars, promptVars, sent, echoed, echoVars, cut, overrun, marks>>

Kind == {"consonant", "tense", "vowel", "plain"}   \* a tense consonant ends no syllable
Letter == 1..MaxKeys
Event == {<<"start">>, <<"blur">>} \cup ({"update", "end", "insert", "key"} \X Seq(Letter))

TypeOK ==
  /\ typed \in Seq(Kind) /\ Len(typed) <= MaxKeys
  /\ events \in Seq(Event)
  /\ {switched, imeActive, sessionActive, compositionActive, interceptEnabled, promptY,
      promptStartAllowed, cut, overrun} \subseteq BOOLEAN
  /\ {composing, inputBuffer, pendingLegacyJamo, legacySyllable} \subseteq Seq(Letter)
  /\ sent \in Seq(Seq(Letter)) /\ echoed \in 0..Len(sent)
  /\ {unconfirmed, echoBase} \subseteq 0..Len(sent) /\ anchor \in (-Len(sent))..Len(sent)
  /\ marks \in 0..MaxMarks

Init ==
  /\ typed = <<>> /\ switched \in BOOLEAN /\ composing = <<>> /\ events = <<>>
  /\ imeActive = FALSE /\ sessionActive = FALSE /\ compositionActive = FALSE
  /\ interceptEnabled = TRUE /\ promptY \in BOOLEAN /\ promptStartAllowed = TRUE
  /\ inputBuffer = <<>> /\ pendingLegacyJamo = <<>> /\ legacySyllable = <<>>
  /\ sent = <<>> /\ echoed = 0 /\ anchor = 0 /\ unconfirmed = 0 /\ echoBase = 0
  /\ cut = FALSE /\ overrun = FALSE /\ marks = 0

KindOf(text) == [i \in DOMAIN text |-> typed[text[i]]]
IsConsonant(k) == k \in {"consonant", "tense"}

-----------------------------------------------------------------------------
(* The keyboard and the input system (external). A vowel joins a consonant, a *)
(* consonant ends a syllable, and a vowel takes the end of a syllable away.   *)
Joins(text, k) ==
  \/ Len(text) = 1 /\ IsConsonant(typed[text[1]]) /\ k = "vowel"
  \/ Len(text) = 2 /\ k = "consonant"

Ended == IF composing = <<>> THEN <<>> ELSE <<<<"end", composing>>>>

Composes(l, k) ==
  IF Joins(composing, k)
  THEN composing' = Append(composing, l) /\ events' = Append(events, <<"update", composing'>>)
  ELSE IF Len(composing) = 3 /\ k = "vowel"
  THEN /\ composing' = <<composing[3], l>>
       /\ events' = events \o << <<"end", Front(composing)>>, <<"start">>, <<"update", composing'>> >>
  ELSE /\ composing' = <<l>>
       /\ events' = events \o Ended \o << <<"start">>, <<"update", composing'>> >>

Key(k) ==
  /\ Len(typed) < MaxKeys /\ events = <<>>
  /\ typed' = Append(typed, k)
  /\ LET l == Len(typed') IN
       IF k = "plain"
       THEN composing' = <<>> /\ events' = Ended \o << <<"key", <<l>>>> >> /\ UNCHANGED switched
       ELSE /\ switched' = FALSE
            /\ IF switched /\ IsConsonant(k)
               THEN composing' = <<>> /\ events' = << <<"insert", <<l>>>> >>
               ELSE Composes(l, k)
  /\ UNCHANGED <<modeVars, holdVars, promptVars, sent, echoed, echoVars, cut, overrun, marks>>

(* Korean off and on again.                                                   *)
SwitchLanguage ==
  /\ events = <<>> /\ ~switched /\ switched' = TRUE
  /\ composing' = <<>> /\ events' = Ended
  /\ UNCHANGED <<typed, modeVars, holdVars, promptVars, sent, echoed, echoVars, cut, overrun, marks>>

(* The end of the composition may be told before the blur or after it.        *)
LoseFocus ==
  /\ events = <<>> /\ imeActive
  /\ composing' = <<>> /\ events' \in {Ended \o << <<"blur">> >>, << <<"blur">> >> \o Ended}
  /\ UNCHANGED <<typed, switched, modeVars, holdVars, promptVars, sent, echoed, echoVars, cut, overrun,
                 marks>>

-----------------------------------------------------------------------------
(* flushLegacyState: the syllable, or else the consonant.                     *)
Legacy == IF legacySyllable # <<>> THEN <<legacySyllable>>
          ELSE IF pendingLegacyJamo # <<>> THEN <<pendingLegacyJamo>> ELSE <<>>
FlushLegacyState ==
  IF legacySyllable # <<>>
  THEN legacySyllable' = <<>> /\ UNCHANGED pendingLegacyJamo
  ELSE pendingLegacyJamo' = <<>> /\ UNCHANGED legacySyllable

(* sendToInput: at the prompt of a shell the overlay moves before the echo.   *)
SendToInput(texts) ==
  /\ sent' = sent \o texts
  /\ unconfirmed' = unconfirmed + Len(texts)
  /\ echoBase' = IF unconfirmed = 0 /\ texts # <<>> THEN echoed ELSE echoBase
  /\ anchor' = IF promptY THEN anchor + Len(texts) ELSE anchor

HasJongseong == Len(legacySyllable) = 3

Handle(e) == events # <<>> /\ Head(events)[1] = e /\ events' = Tail(events)
Data == Head(events)[2]

CompositionStart ==
  /\ Handle("start")
  /\ compositionActive' = TRUE /\ imeActive' = TRUE /\ sessionActive' = TRUE
  /\ IF HasJongseong THEN FlushLegacyState ELSE UNCHANGED <<legacySyllable, pendingLegacyJamo>>
  /\ IF sessionActive
     THEN LET texts == IF HasJongseong THEN Legacy ELSE <<>>
              moved == IF promptY THEN anchor + Len(texts) ELSE anchor
          IN /\ sent' = sent \o texts /\ unconfirmed' = unconfirmed + Len(texts)
             /\ echoBase' = IF unconfirmed = 0 /\ texts # <<>> THEN echoed ELSE echoBase
             /\ anchor' = IF ~promptY /\ echoed > moved THEN echoed ELSE moved
             /\ UNCHANGED inputBuffer
     ELSE inputBuffer' = <<>> /\ unconfirmed' = 0 /\ anchor' = echoed /\ UNCHANGED <<sent, echoBase>>
  /\ UNCHANGED <<inputVars, promptVars, echoed, cut, overrun, marks>>

CompositionUpdate ==
  /\ Handle("update")
  /\ imeActive' = TRUE /\ inputBuffer' = Data
  /\ UNCHANGED <<inputVars, sessionActive, compositionActive, pendingLegacyJamo, legacySyllable, promptVars,
                 sent, echoed, echoVars, cut, overrun, marks>>

(* handleCompositionEnd: a vowel after a held consonant makes a syllable, a   *)
(* consonant after it ends it; anything else goes out after what is held.     *)
MakesSyllable == pendingLegacyJamo # <<>> /\ KindOf(Data) = <<"vowel">>
EndsSyllable ==
  /\ pendingLegacyJamo = <<>> /\ legacySyllable # <<>> /\ ~HasJongseong /\ KindOf(Data) = <<"consonant">>
HeldLast == <<Data>> \o Legacy
HeldFirst == Legacy \o <<Data>>

CompositionEnd ==
  /\ Handle("end")
  /\ compositionActive' = FALSE /\ inputBuffer' = <<>>
  /\ \/ /\ MakesSyllable
        /\ legacySyllable' = pendingLegacyJamo \o Data /\ pendingLegacyJamo' = <<>>
        /\ UNCHANGED <<sent, echoVars>>
     \/ /\ EndsSyllable
        /\ legacySyllable' = legacySyllable \o Data
        /\ UNCHANGED <<pendingLegacyJamo, sent, echoVars>>
     \/ /\ ~MakesSyllable /\ ~EndsSyllable
        /\ SendToInput(HeldFirst) /\ FlushLegacyState
  /\ overrun' = (overrun \/ (pendingLegacyJamo # <<>> /\ legacySyllable # <<>>))
  /\ UNCHANGED <<inputVars, imeActive, sessionActive, promptVars, echoed, cut, marks>>

(* handleBeforeInput, outside a composition.                                  *)
InsertText ==
  /\ Handle("insert")
  /\ imeActive' = TRUE /\ sessionActive' = TRUE
  /\ pendingLegacyJamo' = Data
  /\ overrun' = (overrun \/ pendingLegacyJamo # <<>>)
  /\ IF sessionActive
     THEN UNCHANGED <<inputBuffer, anchor, unconfirmed>>
     ELSE inputBuffer' = <<>> /\ anchor' = echoed /\ unconfirmed' = 0
  /\ UNCHANGED <<inputVars, compositionActive, legacySyllable, promptVars, sent, echoed, echoBase, cut, marks>>

Nonempty(text) == IF text = <<>> THEN <<>> ELSE <<text>>

(* base flushAll; it also forgets the prompt.                                 *)
Forgotten ==
  /\ imeActive' = FALSE /\ compositionActive' = FALSE /\ inputBuffer' = <<>>
  /\ promptY' = FALSE /\ anchor' = 0 /\ unconfirmed' = 0

(* endSession, where the state held is flushed twice.                         *)
EndSession(next) ==
  /\ sent' = sent \o Nonempty(legacySyllable)
                  \o (IF legacySyllable = <<>> THEN Nonempty(pendingLegacyJamo) ELSE <<>>)
                  \o Nonempty(inputBuffer)
                  \o (IF legacySyllable # <<>> THEN Nonempty(pendingLegacyJamo) ELSE <<>>)
                  \o next
  /\ legacySyllable' = <<>> /\ pendingLegacyJamo' = <<>>
  /\ cut' = (cut \/ compositionActive)
  /\ sessionActive' = FALSE /\ Forgotten
  /\ UNCHANGED echoBase

(* handleKeyDown of a key that composes nothing: xterm then sends the key.    *)
KeyDown ==
  /\ Handle("key")
  /\ IF imeActive
     THEN ~compositionActive /\ EndSession(<<Data>>)
     ELSE sent' = Append(sent, Data) /\ UNCHANGED <<modeVars, holdVars, promptY, echoVars, cut>>
  /\ UNCHANGED <<inputVars, interceptEnabled, promptStartAllowed, echoed, overrun, marks>>

Blur ==
  /\ Handle("blur")
  /\ IF imeActive
     THEN EndSession(<<>>)
     ELSE UNCHANGED <<modeVars, holdVars, promptY, sent, echoVars, cut>>
  /\ UNCHANGED <<inputVars, interceptEnabled, promptStartAllowed, echoed, overrun, marks>>

-----------------------------------------------------------------------------
(* setInterceptEnabled, called by marks of the shell and by a timer that does *)
(* not look whether a composition started since; y: the prompt's row is kept. *)
SetInterceptEnabled(running, y) ==
  /\ interceptEnabled' = running
  /\ IF interceptEnabled /\ ~running /\ imeActive
     THEN /\ sent' = sent \o Legacy \o Nonempty(inputBuffer)
          /\ FlushLegacyState
          /\ cut' = (cut \/ compositionActive)
          /\ overrun' = (overrun \/ (legacySyllable # <<>> /\ pendingLegacyJamo # <<>>))
          /\ Forgotten
     ELSE /\ promptY' = y
          /\ UNCHANGED <<sent, legacySyllable, pendingLegacyJamo, inputBuffer, cut, overrun, imeActive,
                         compositionActive, anchor, unconfirmed>>

Mark == marks < MaxMarks /\ marks' = marks + 1

PromptStarts ==
  /\ Mark /\ \E running \in BOOLEAN : SetInterceptEnabled(running, promptY)
  /\ promptStartAllowed' = TRUE
  /\ UNCHANGED <<inputVars, events, sessionActive, echoed, echoBase>>

PromptEnds ==
  /\ Mark /\ promptStartAllowed /\ promptY' = TRUE
  /\ UNCHANGED <<inputVars, events, modeVars, holdVars, interceptEnabled, promptStartAllowed, sent, echoed,
                 echoVars, cut, overrun>>

(* clearPromptY, then the setting.                                            *)
CommandStarts ==
  /\ Mark /\ promptStartAllowed' = FALSE
  /\ \E running \in BOOLEAN : SetInterceptEnabled(running, FALSE)
  /\ UNCHANGED <<inputVars, events, sessionActive, echoed, echoBase>>

CursorTimer ==
  /\ Mark /\ \E running \in BOOLEAN : SetInterceptEnabled(running, promptY)
  /\ UNCHANGED <<inputVars, events, sessionActive, promptStartAllowed, echoed, echoBase>>

(* The terminal renders an echo. The anchor is corrected once, by the first   *)
(* echo, for everything sent until then.                                      *)
Echo ==
  /\ echoed < Len(sent) /\ echoed' \in (echoed + 1)..Len(sent)
  /\ IF sessionActive /\ unconfirmed > 0 /\ echoed' > echoBase
     THEN /\ anchor' = IF promptY THEN anchor + (echoed' - echoBase) - unconfirmed ELSE echoed'
          /\ unconfirmed' = 0
     ELSE UNCHANGED <<anchor, unconfirmed>>
  /\ UNCHANGED <<inputVars, events, modeVars, holdVars, promptVars, sent, echoBase, cut, overrun, marks>>

Next ==
  \/ \E k \in Kind : Key(k)
  \/ SwitchLanguage \/ LoseFocus
  \/ CompositionStart \/ CompositionUpdate \/ CompositionEnd \/ InsertText \/ KeyDown \/ Blur
  \/ PromptStarts \/ PromptEnds \/ CommandStarts \/ CursorTimer \/ Echo

Spec == Init /\ [][Next]_vars

-----------------------------------------------------------------------------
(* As long as no composition was cut short and no held consonant met another  *)
(* one or was left behind a held syllable, every letter typed reaches the PTY once and in the *)
(* order it was typed; what is not there yet is held back or still in events. *)
Waiting == legacySyllable \o pendingLegacyJamo
TextOf(e) == IF e[1] \in {"end", "key", "insert"} THEN e[2] ELSE <<>>
Undone == FlattenSeq([i \in DOMAIN events |-> TextOf(events[i])]) \o composing

LettersArriveInOrder ==
  cut \/ overrun \/ FlattenSeq(sent) \o Waiting \o Undone = [i \in DOMAIN typed |-> i]
=============================================================================
