------------------------------- MODULE WinIme -------------------------------
(***************************************************************************)
(* Composed input in a terminal of Windows (src/lib/platform/ime/          *)
(* windows.ts over base.ts). While the interception is on the handlers     *)
(* take the composition from xterm; while it is off xterm composes itself. *)
(* Letters are numbered as they are typed.                                 *)
(***************************************************************************)
EXTENDS Naturals, Sequences, SequencesExt

CONSTANTS MaxLetters, MaxToggles   \* bounds: keys typed, changes of the interception and scrolls

VARIABLES
  letters,                \* letters typed
  osText,                 \* what the system composes
  queue,                  \* DOM events not handled yet
  active,                 \* imeActive
  session,                \* sessionActive
  intercept,              \* interceptEnabled
  buffer,                 \* inputBuffer
  xtermComposes,          \* xterm saw the start of the composition
  scrolled,               \* a wheel event less than 200 ms ago
  output,                 \* letters the PTY got
  broken,                 \* a composition was flushed before the system ended it
  toggles

handlerVars == <<active, session, intercept, buffer, xtermComposes>>
vars == <<letters, osText, queue, handlerVars, scrolled, output, broken, toggles>>

Key == 1..MaxLetters
DomEvent == {<<"start">>, <<"blur">>} \cup ({"update", "end", "key"} \X Seq(Key))

TypeOK ==
  /\ letters \in 0..MaxLetters /\ toggles \in 0..MaxToggles
  /\ queue \in Seq(DomEvent)
  /\ {osText, buffer, output} \subseteq Seq(0..MaxLetters)
  /\ {active, session, intercept, xtermComposes, scrolled, broken} \subseteq BOOLEAN

Init ==
  /\ letters = 0 /\ osText = <<>> /\ queue = <<>>
  /\ active = FALSE /\ session = FALSE /\ intercept \in BOOLEAN
  /\ buffer = <<>> /\ xtermComposes = FALSE /\ scrolled = FALSE
  /\ output = <<>> /\ broken = FALSE /\ toggles = 0

-----------------------------------------------------------------------------
(* The keyboard and the input system (external).                              *)
Finish == IF osText = <<>> THEN <<>> ELSE <<<<"end", osText>>>>

(* A letter joins the text, ends it, or takes its last letter away.           *)
Compose ==
  /\ letters < MaxLetters /\ queue = <<>> /\ letters' = letters + 1
  /\ \/ /\ osText # <<>> /\ osText' = Append(osText, letters')
        /\ queue' = << <<"update", osText'>> >>
     \/ /\ osText' = <<letters'>>
        /\ queue' = Finish \o << <<"start">>, <<"update", osText'>> >>
     \/ /\ Len(osText) > 1 /\ osText' = <<Last(osText), letters'>>
        /\ queue' = << <<"end", Front(osText)>>, <<"start">>, <<"update", osText'>> >>
  /\ UNCHANGED <<handlerVars, scrolled, output, broken, toggles>>

PlainKey ==
  /\ letters < MaxLetters /\ queue = <<>> /\ letters' = letters + 1
  /\ osText' = <<>> /\ queue' = Finish \o << <<"key", <<letters'>>>> >>
  /\ UNCHANGED <<handlerVars, scrolled, output, broken, toggles>>

FocusLost ==
  /\ queue = <<>> /\ (osText # <<>> \/ active) /\ osText' = <<>>
  /\ queue' \in {Finish \o << <<"blur">> >>, << <<"blur">> >> \o Finish}
  /\ UNCHANGED <<letters, handlerVars, scrolled, output, broken, toggles>>

Wheel ==
  /\ toggles < MaxToggles /\ toggles' = toggles + 1
  /\ ~scrolled /\ scrolled' = TRUE
  /\ UNCHANGED <<letters, osText, queue, handlerVars, output, broken>>
WheelPassed ==
  /\ scrolled /\ scrolled' = FALSE
  /\ UNCHANGED <<letters, osText, queue, handlerVars, output, broken, toggles>>

-----------------------------------------------------------------------------
Take(e) == queue # <<>> /\ Head(queue)[1] = e /\ queue' = Tail(queue)
Text == Head(queue)[2]

(* handleCompositionStart: one just after a scroll and out of a session is    *)
(* taken for spurious, which xterm does not see either.                       *)
Spurious == ~session /\ scrolled

CompositionStart ==
  /\ Take("start")
  /\ IF ~intercept
     THEN xtermComposes' = TRUE /\ UNCHANGED <<active, session, buffer>>
     ELSE IF Spurious
     THEN UNCHANGED <<active, session, buffer, xtermComposes>>
     ELSE /\ active' = TRUE /\ session' = TRUE
          /\ buffer' = IF session THEN buffer ELSE <<>>
          /\ UNCHANGED xtermComposes
  /\ UNCHANGED <<letters, osText, intercept, scrolled, output, broken, toggles>>

CompositionUpdate ==
  /\ Take("update")
  /\ buffer' = IF intercept THEN Text ELSE buffer
  /\ UNCHANGED <<letters, osText, active, session, intercept, xtermComposes, scrolled, output,
                 broken, toggles>>

(* handleCompositionEnd. xterm sends what it composed itself; of the end of a *)
(* composition whose start it did not see it may send the text or nothing.    *)
(* useTerminalSetup drops what xterm sends during a session.                  *)
Kept == buffer
Emptied == <<>>

CompositionEnd ==
  /\ Take("end")
  /\ IF intercept
     THEN /\ output' = output \o Text /\ buffer' = Emptied
          /\ UNCHANGED <<xtermComposes, broken>>
     ELSE /\ xtermComposes' = FALSE
          /\ \/ ~active /\ output' = output \o Text
             \/ (active \/ ~xtermComposes) /\ UNCHANGED output
          /\ broken' = (broken \/ ~xtermComposes)
          /\ UNCHANGED buffer
  /\ UNCHANGED <<letters, osText, active, session, intercept, scrolled, toggles>>

StillComposing(q) == osText # <<>> \/ \E i \in DOMAIN q : q[i][1] = "end"

(* endSession.                                                                *)
SessionEnds(next) ==
  /\ output' = output \o buffer \o next
  /\ broken' = (broken \/ StillComposing(queue'))
  /\ session' = FALSE /\ active' = FALSE /\ buffer' = <<>>

(* handleKeyDown; xterm then sends the key.                                   *)
KeyDown ==
  /\ Take("key")
  /\ IF active
     THEN SessionEnds(Text)
     ELSE output' = output \o Text /\ UNCHANGED <<active, session, buffer, broken>>
  /\ UNCHANGED <<letters, osText, intercept, xtermComposes, scrolled, toggles>>

Blur ==
  /\ Take("blur")
  /\ IF intercept /\ active
     THEN SessionEnds(<<>>)
     ELSE UNCHANGED <<active, session, buffer, output, broken>>
  /\ UNCHANGED <<letters, osText, intercept, xtermComposes, scrolled, toggles>>

(* setInterceptEnabled, by a mark of the shell, the timer after a move of the *)
(* cursor, or the settings; flushAll leaves sessionActive.                    *)
SetInterceptEnabled ==
  /\ toggles < MaxToggles /\ toggles' = toggles + 1
  /\ intercept' = ~intercept
  /\ IF intercept /\ active
     THEN /\ output' = output \o buffer /\ broken' = (broken \/ StillComposing(queue))
          /\ active' = FALSE /\ buffer' = <<>>
     ELSE UNCHANGED <<active, buffer, output, broken>>
  /\ UNCHANGED <<letters, osText, queue, session, xtermComposes, scrolled>>

Next ==
  \/ Compose \/ PlainKey \/ FocusLost \/ Wheel \/ WheelPassed
  \/ CompositionStart \/ CompositionUpdate \/ CompositionEnd \/ KeyDown \/ Blur
  \/ SetInterceptEnabled

Spec == Init /\ [][Next]_vars

-----------------------------------------------------------------------------
(* As long as no composition was flushed before the system ended it, every    *)
(* letter reaches the PTY once and in order, whether the interceptor or xterm *)
(* composed it, and whatever scrolls and ends of sessions came between.       *)
TextOf(e) == IF e[1] \in {"end", "key"} THEN e[2] ELSE <<>>
InQueue == FlattenSeq([i \in DOMAIN queue |-> TextOf(queue[i])])
TextArrivesOnce == broken \/ output \o InQueue \o osText = [i \in 1..letters |-> i]

=============================================================================
