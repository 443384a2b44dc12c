----------------------------- MODULE PaneOutput -----------------------------
(***************************************************************************)
(* The output of one local pane inside the webview: the chunks that arrive *)
(* (src/lib/ptyOutputBuffer.ts), the terminal that may not be there yet    *)
(* (src/lib/terminalRegistry.ts), the component that mounts it             *)
(* (TerminalPane/useTerminalSetup.ts), and the acknowledgements it owes    *)
(* the server.  Chunks are numbered in the order the server sent them; a   *)
(* "split" chunk ends inside a character and decodes to nothing yet.       *)
(***************************************************************************)
EXTENDS Naturals, Sequences, SequencesExt, FiniteSets, TLAPS

CONSTANTS MaxChunks,   \* bound: chunks the PTY produces
          Cap,         \* bound: chunks that fit in PENDING_MAX_BYTES
          MaxTerms     \* bound: terminals made for the pane

ASSUME CapAssumption == Cap \in Nat /\ MaxChunks \in Nat /\ MaxTerms \in Nat

VARIABLES
  sent, exited, \* chunks the server has sent; the shell has exited
  wire,        \* pty-output and pty-exit events not delivered yet
  closing,     \* a close_pane call has not been answered
  term, made,  \* the registered terminal (0: none), terminals made so far
  mounted,     \* TerminalPane is mounted
  clearing,    \* the new terminal that will be cleared of its double prompt (0: none)
  pending,     \* chunks held for a terminal that is not there
  parsing,     \* chunks given to xterm and not parsed yet
  screen,      \* what the registered terminal has parsed
  toAck,       \* ackPending: what flushAcks will acknowledge
  acks,        \* how often each chunk was acknowledged
  lost         \* history: chunks dropped by the cap or gone with a terminal

vars == <<sent, exited, wire, closing, term, made, mounted, clearing, pending, parsing, screen,
          toAck, acks, lost>>

Chunk == 1..MaxChunks
Exit == 0
(* What xterm is parsing: for which terminal, and whether parsing acknowledges it. *)
Entry == [chunk : Chunk, to : 1..MaxTerms, ack : BOOLEAN]

TypeOK ==
  /\ sent \in 0..MaxChunks /\ exited \in BOOLEAN /\ wire \in Seq(Chunk \cup {Exit})
  /\ term \in 0..made /\ made \in 0..MaxTerms
  /\ clearing \in 0..MaxTerms /\ mounted \in BOOLEAN /\ closing \in BOOLEAN
  /\ pending \in Seq(Chunk) /\ Len(pending) <= Cap
  /\ parsing \in Seq(Entry)
  /\ screen \in Seq(Chunk)
  /\ toAck \subseteq Chunk /\ lost \subseteq Chunk /\ acks \in [Chunk -> Nat]

Init ==
  /\ sent = 0 /\ exited = FALSE /\ wire = <<>> /\ closing = FALSE
  /\ term = 0 /\ made = 0 /\ mounted = FALSE /\ clearing = 0
  /\ pending = <<>> /\ parsing = <<>> /\ screen = <<>>
  /\ toAck = {} /\ acks = [c \in Chunk |-> 0] /\ lost = {}

-----------------------------------------------------------------------------
(* The server, until the shell exits.                                        *)

Send ==
  /\ ~exited /\ sent < MaxChunks
  /\ sent' = sent + 1 /\ wire' = Append(wire, sent')
  /\ UNCHANGED <<exited, closing, term, made, mounted, clearing, pending, parsing, screen, toAck, acks, lost>>

ShellExits ==
  /\ ~exited /\ exited' = TRUE
  /\ wire' = Append(wire, Exit)
  /\ UNCHANGED <<sent, closing, term, made, mounted, clearing, pending, parsing, screen, toAck, acks, lost>>

-----------------------------------------------------------------------------
QueueAckOfFlush(S) == toAck' = IF toAck = {} THEN S ELSE toAck

QueueAck(S) == toAck' = toAck \cup S

Write(cs, ack) ==
  parsing' = parsing \o [i \in DOMAIN cs |-> [chunk |-> cs[i], to |-> term, ack |-> ack]]

CappedNever(held) == held

Capped(held) == IF Len(held) > Cap THEN Tail(held) ELSE held

(* Written when there is a terminal, and acknowledged once parsed; held, and  *)
(* acknowledged at once, when there is none, the oldest going over the cap.   *)
OnOutput(split) ==
  /\ wire # <<>> /\ Head(wire) # Exit
  /\ wire' = Tail(wire)
  /\ LET c == Head(wire)
         held == Append(pending, c)
         over == Len(held) > Cap
     IN CASE term # 0 /\ ~split -> Write(<<c>>, TRUE) /\ UNCHANGED <<pending, toAck, lost>>
          [] term # 0 /\ split -> /\ QueueAck({c}) /\ lost' = lost \cup {c}
                                  /\ UNCHANGED <<pending, parsing>>
          [] OTHER -> /\ QueueAck({c})
                      /\ pending' = Capped(held)
                      /\ lost' = IF over THEN lost \cup {Head(held)} ELSE lost
                      /\ UNCHANGED parsing
  /\ UNCHANGED <<sent, exited, closing, term, made, mounted, clearing, screen, acks>>

(* xterm calls back when it has parsed a chunk, a disposed one too or not.    *)
Parsed ==
  /\ parsing # <<>>
  /\ parsing' = Tail(parsing)
  /\ LET p == Head(parsing) IN
       /\ IF p.to = term THEN screen' = Append(screen, p.chunk) /\ UNCHANGED lost
                         ELSE lost' = lost \cup {p.chunk} /\ UNCHANGED screen
       /\ \/ toAck' = IF p.ack THEN toAck \cup {p.chunk} ELSE toAck
          \/ p.to # term /\ UNCHANGED toAck
  /\ UNCHANGED <<sent, exited, wire, closing, term, made, mounted, clearing, pending, acks>>

FlushAcks ==
  /\ toAck # {}
  /\ acks' = [c \in Chunk |-> IF c \in toAck THEN acks[c] + 1 ELSE acks[c]]
  /\ toAck' = {}
  /\ UNCHANGED <<sent, exited, wire, closing, term, made, mounted, clearing, pending, parsing, screen, lost>>

-----------------------------------------------------------------------------
FlushKeeps(to) ==
  /\ parsing' = parsing \o [i \in DOMAIN pending |->
                              [chunk |-> pending[i], to |-> to, ack |-> FALSE]]
  /\ UNCHANGED pending

(* flushPtyOutputBuffer: what was held has been acknowledged.                 *)
Flush(to) ==
  /\ parsing' = parsing \o [i \in DOMAIN pending |->
                              [chunk |-> pending[i], to |-> to, ack |-> FALSE]]
  /\ pending' = <<>>

(* The effect of useTerminalSetup: the terminal is found or made, its         *)
(* container attached, what was held is flushed.  A new terminal for which    *)
(* nothing was held, with no command to restore, will be cleared once.        *)
Mount ==
  /\ ~mounted /\ mounted' = TRUE
  /\ IF term # 0 THEN UNCHANGED <<term, made>>
                 ELSE made < MaxTerms /\ made' = made + 1 /\ term' = made'
  /\ clearing' \in IF term = 0 /\ pending = <<>> THEN {clearing, term'} ELSE {clearing}
  /\ Flush(term')
  /\ UNCHANGED <<sent, exited, wire, closing, screen, toAck, acks, lost>>

(* syncSize: 80 ms after the first resize was answered, whatever came since.  *)
ClearPrompt ==
  /\ clearing # 0 /\ clearing' = 0
  /\ IF clearing = term THEN lost' = lost \cup Range(screen) /\ screen' = <<>>
                        ELSE UNCHANGED <<lost, screen>>
  /\ UNCHANGED <<sent, exited, wire, closing, term, made, mounted, pending, parsing, toAck, acks>>

(* Its cleanup: the container is detached, the terminal stays.                *)
Unmount ==
  /\ mounted /\ mounted' = FALSE
  /\ UNCHANGED <<sent, exited, wire, closing, term, made, clearing, pending, parsing, screen, toAck, acks, lost>>

(* clearPtyOutputBuffer and disposeTerminal.                                  *)
Dispose ==
  /\ lost' = lost \cup Range(pending) \cup Range(screen)
  /\ pending' = <<>> /\ screen' = <<>> /\ term' = 0

OnExit ==
  /\ wire # <<>> /\ Head(wire) = Exit
  /\ wire' = Tail(wire)
  /\ IF mounted THEN Dispose ELSE UNCHANGED <<lost, pending, screen, term>>
  /\ UNCHANGED <<sent, exited, closing, made, mounted, clearing, parsing, toAck, acks>>

ClosePane ==
  /\ mounted /\ ~closing /\ closing' = TRUE
  /\ UNCHANGED <<sent, exited, wire, term, made, mounted, clearing, pending, parsing, screen, toAck, acks, lost>>

PaneClosed(ok) ==
  /\ closing /\ closing' = FALSE
  /\ IF ok THEN Dispose ELSE UNCHANGED <<lost, pending, screen, term>>
  /\ UNCHANGED <<sent, exited, wire, made, mounted, clearing, parsing, toAck, acks>>

Next ==
  \/ Send \/ ShellExits
  \/ \E s \in BOOLEAN : OnOutput(s)
  \/ Parsed \/ FlushAcks
  \/ Mount \/ Unmount \/ ClearPrompt \/ OnExit
  \/ ClosePane \/ \E ok \in BOOLEAN : PaneClosed(ok)

Spec == Init /\ [][Next]_vars

-----------------------------------------------------------------------------
Rising(s) == \A i, j \in 1..Len(s) : i < j => s[i] < s[j]

(* The places in the parser's queue of what was written to the registered    *)
(* terminal, and the chunks that are received and not lost: parsed, being     *)
(* parsed or held.                                                            *)
Mine == {i \in 1..Len(parsing) : parsing[i].to = term}
Held == {screen[i] : i \in 1..Len(screen)} \cup {pending[i] : i \in 1..Len(pending)}
          \cup {parsing[i].chunk : i \in 1..Len(parsing)}
Received == {c \in 1..sent : \A i \in 1..Len(wire) : wire[i] # c}

(* Mounts, remounts and late terminals never show a chunk twice, out of order *)
(* or with a gap: what the terminal has parsed, then what it was given, then  *)
(* what is held, is what was received in the order it was sent, less what the *)
(* cap dropped, a disposed terminal took or the clearing of a new terminal's  *)
(* double prompt wiped out (ptyOutputBuffer.ts 136-213).                      *)
ShownInOrder ==
  /\ Rising(screen) /\ Rising(pending)
  /\ \A i, j \in Mine : i < j => parsing[i].chunk < parsing[j].chunk
  /\ \A i \in Mine, k \in 1..Len(screen) : screen[k] < parsing[i].chunk
  /\ \A i \in Mine, k \in 1..Len(pending) : parsing[i].chunk < pending[k]
  /\ \A k \in 1..Len(screen), l \in 1..Len(pending) : screen[k] < pending[l]
  /\ Received \ lost \subseteq Held

(* The chunks, with their terminals, that xterm's callback will acknowledge.  *)
Waiting == {w \in Chunk \X (1..MaxTerms) :
              \E i \in 1..Len(parsing) : parsing[i] = [chunk |-> w[1], to |-> w[2], ack |-> TRUE]}
Acknowledged == {c \in Chunk : acks[c] > 0}

Ledger == INSTANCE AckLedger WITH
            Chunks <- Chunk, received <- Received, waiting <- Waiting,
            due <- toAck, acknowledged <- Acknowledged, terminal <- term

(* ptyOutputBuffer.ts 37-40: each received chunk is acknowledged exactly once,*)
(* by the parser's callback or at once, however the pane is mounted: none is  *)
(* acknowledged twice, which would raise the server's credit for good, and    *)
(* none is forgotten, which would lower it: the acknowledgement is queued, or *)
(* the chunk waits for a terminal, and only one that waits for a terminal     *)
(* that is gone is ever given up.                                             *)
AcksLedger == Ledger!Spec
-----------------------------------------------------------------------------
(* Proofs that the state is well typed and that the webview implements the   *)
(* ledger.  A chunk is in one of four places: on the wire, being parsed and  *)
(* to be acknowledged then, about to be acknowledged, or acknowledged; Once  *)
(* says that it is in one only, and once.                                    *)

Given(s, to, a) == [i \in DOMAIN s |-> [chunk |-> s[i], to |-> to, ack |-> a]]

Made(c, to, a) == [chunk |-> c, to |-> to, ack |-> a]

(* Chunk c is to be acknowledged when xterm has parsed it.                   *)
InParsing(c) == \E i \in 1..Len(parsing) : parsing[i].ack /\ parsing[i].chunk = c

(* What taking the first of a sequence leaves.                                *)
LEMMA Taken ==
  ASSUME NEW S, NEW s \in Seq(S), s # <<>>
  PROVE  /\ s[1] \in S /\ Head(s) = s[1] /\ Tail(s) \in Seq(S)
         /\ Len(s) \in Nat /\ Len(s) >= 1 /\ Len(Tail(s)) = Len(s) - 1
         /\ \A i \in 1..Len(Tail(s)) : i + 1 \in 1..Len(s) /\ Tail(s)[i] = s[i + 1]
  OBVIOUS

(* What adding one at the end of a sequence makes.                            *)
LEMMA Added ==
  ASSUME NEW S, NEW s \in Seq(S), NEW e \in S
  PROVE  /\ Append(s, e) \in Seq(S)
         /\ Len(s) \in Nat /\ Len(Append(s, e)) = Len(s) + 1
         /\ Append(s, e)[Len(s) + 1] = e
         /\ \A i \in 1..Len(s) : Append(s, e)[i] = s[i]
         /\ \A i \in 1..(Len(s) + 1) : i \in 1..Len(s) \/ i = Len(s) + 1
  OBVIOUS

(* What is at each place of two sequences joined.                             *)
LEMMA Joined ==
  ASSUME NEW S, NEW s \in Seq(S), NEW t \in Seq(S)
  PROVE  /\ s \o t \in Seq(S) /\ Len(s) \in Nat /\ Len(t) \in Nat
         /\ Len(s \o t) = Len(s) + Len(t)
         /\ \A i \in 1..Len(s) : (s \o t)[i] = s[i]
         /\ \A i \in 1..Len(s \o t) : i \in 1..Len(s) \/ (i - Len(s) \in 1..Len(t) /\ (s \o t)[i] = t[i - Len(s)])
  OBVIOUS

(* The entries for chunks that are written: all to be acknowledged, or none.  *)
LEMMA Writes ==
  ASSUME NEW s \in Seq(Chunk), NEW to \in 1..MaxTerms, NEW a \in BOOLEAN
  PROVE  /\ Given(s, to, a) \in Seq(Entry) /\ Len(Given(s, to, a)) = Len(s) /\ Len(s) \in Nat
         /\ \A i \in 1..Len(s) : Given(s, to, a)[i] = Made(s[i], to, a)
<1>1. \A i \in 1..Len(s) : [chunk |-> s[i], to |-> to, ack |-> a] \in Entry
  BY DEF Entry
<1>2. DOMAIN s = 1..Len(s) /\ Len(s) \in Nat
  OBVIOUS
<1>3. Given(s, to, a) = [i \in 1..Len(s) |-> [chunk |-> s[i], to |-> to, ack |-> a]]
  BY <1>2 DEF Given
<1>4. Given(s, to, a) \in [1..Len(s) -> Entry]
  BY <1>1, <1>3
<1>5. Given(s, to, a) \in Seq(Entry) /\ Len(Given(s, to, a)) = Len(s)
  BY <1>2, <1>4
<1>6. \A i \in 1..Len(s) : Given(s, to, a)[i] = Made(s[i], to, a)
  BY <1>3 DEF Made
<1>. QED
  BY <1>2, <1>5, <1>6

(* What is written goes behind what is being parsed.                         *)
LEMMA WritesBehind ==
  ASSUME NEW p \in Seq(Entry), NEW s \in Seq(Chunk), NEW to \in 1..MaxTerms, NEW a \in BOOLEAN
  PROVE  /\ p \o Given(s, to, a) \in Seq(Entry) /\ Len(p) \in Nat /\ Len(s) \in Nat
         /\ Len(p \o Given(s, to, a)) = Len(p) + Len(s)
         /\ \A i \in 1..Len(p) : /\ i \in 1..Len(p \o Given(s, to, a))
                                 /\ (p \o Given(s, to, a))[i] = p[i]
         /\ \A i \in 1..Len(p \o Given(s, to, a)) :
              \/ i \in 1..Len(p)
              \/ /\ i - Len(p) \in 1..Len(s)
                 /\ (p \o Given(s, to, a))[i] = Made(s[i - Len(p)], to, a)
<1>1. /\ Given(s, to, a) \in Seq(Entry) /\ Len(Given(s, to, a)) = Len(s) /\ Len(s) \in Nat
      /\ \A i \in 1..Len(s) : Given(s, to, a)[i] = Made(s[i], to, a)
  BY Writes
<1>2. \A new \in Seq(Entry) :
        /\ p \o new \in Seq(Entry) /\ Len(p) \in Nat /\ Len(new) \in Nat
        /\ Len(p \o new) = Len(p) + Len(new)
        /\ \A i \in 1..Len(p) : (p \o new)[i] = p[i]
        /\ \A i \in 1..Len(p \o new) :
             i \in 1..Len(p) \/ (i - Len(p) \in 1..Len(new) /\ (p \o new)[i] = new[i - Len(p)])
  BY Joined, Zenon
<1>3. /\ p \o Given(s, to, a) \in Seq(Entry) /\ Len(p) \in Nat
      /\ Len(p \o Given(s, to, a)) = Len(p) + Len(s)
      /\ \A i \in 1..Len(p) : (p \o Given(s, to, a))[i] = p[i]
      /\ \A i \in 1..Len(p \o Given(s, to, a)) :
           i \in 1..Len(p) \/ (i - Len(p) \in 1..Len(s) /\ (p \o Given(s, to, a))[i] = Given(s, to, a)[i - Len(p)])
  BY <1>1, <1>2, Zenon
<1>4. \A i \in 1..Len(p) : i \in 1..Len(p \o Given(s, to, a))
  BY <1>1, <1>3
<1>. QED
  BY <1>1, <1>3, <1>4, Zenon

(* One chunk that is written is the last of what is being parsed.             *)
LEMMA WritesOne ==
  ASSUME NEW p \in Seq(Entry), NEW c \in Chunk, NEW to \in 1..MaxTerms
  PROVE  \A q : q = p \o Given(<<c>>, to, TRUE) =>
           /\ Len(p) \in Nat /\ Len(q) = Len(p) + 1 /\ q[Len(p) + 1] = Made(c, to, TRUE)
           /\ \A i \in 1..Len(p) : i \in 1..Len(q) /\ q[i] = p[i]
           /\ \A i \in 1..Len(q) : i \in 1..Len(p) \/ i = Len(p) + 1
           /\ Len(p) + 1 \in 1..Len(q) /\ Len(p) + 1 \notin 1..Len(p)
<1>. DEFINE one == <<c>>
            ack == TRUE
            q == p \o Given(one, to, ack)
<1>1. one \in Seq(Chunk) /\ Len(one) = 1 /\ one[1] = c /\ ack \in BOOLEAN
  OBVIOUS
<1>. HIDE DEF one, ack
<1>2. ASSUME NEW a \in BOOLEAN
      PROVE  /\ Len(p) \in Nat
             /\ Len(p \o Given(one, to, a)) = Len(p) + Len(one)
             /\ \A i \in 1..Len(p) : /\ i \in 1..Len(p \o Given(one, to, a))
                                     /\ (p \o Given(one, to, a))[i] = p[i]
             /\ \A i \in 1..Len(p \o Given(one, to, a)) :
                  \/ i \in 1..Len(p)
                  \/ /\ i - Len(p) \in 1..Len(one)
                     /\ (p \o Given(one, to, a))[i] = Made(one[i - Len(p)], to, a)
  <2>1. p \in Seq(Entry) /\ one \in Seq(Chunk) /\ to \in 1..MaxTerms
    BY <1>1, Zenon
  <2>. QED
    BY <2>1, WritesBehind, SMT
<1>3. /\ Len(p) \in Nat /\ Len(q) = Len(p) + Len(one)
      /\ \A i \in 1..Len(p) : i \in 1..Len(q) /\ q[i] = p[i]
      /\ \A i \in 1..Len(q) :
           i \in 1..Len(p) \/ (i - Len(p) \in 1..Len(one) /\ q[i] = Made(one[i - Len(p)], to, ack))
  BY <1>1, <1>2, Zenon DEF q
<1>. HIDE DEF q
<1>4. /\ Len(p) + 1 \in 1..Len(q) /\ Len(p) + 1 \notin 1..Len(p) /\ (Len(p) + 1) - Len(p) = 1
      /\ \A i \in 1..Len(q) : i \in 1..Len(p) \/ i = Len(p) + 1
  BY <1>1, <1>3
<1>5. q[Len(p) + 1] = Made(c, to, ack)
  BY <1>1, <1>3, <1>4
<1>. QED
  BY <1>1, <1>3, <1>4, <1>5 DEF q, one, ack

(* The empty sequence is one of everything that is queued here.               *)
LEMMA EmptySeqs == <<>> \in Seq(Chunk) /\ <<>> \in Seq(Entry) /\ <<>> \in Seq(Chunk \cup {Exit}) /\ Len(<<>>) = 0
  OBVIOUS

(* The members of a sequence, by their places.                                *)
LEMMA RangeIn ==
  ASSUME NEW S, NEW s \in Seq(S)
  PROVE  /\ Range(s) = {s[i] : i \in 1..Len(s)}
         /\ Range(s) \subseteq S
<1>1. DOMAIN s = 1..Len(s)
  OBVIOUS
<1>2. Range(s) = {s[i] : i \in 1..Len(s)}
  BY <1>1 DEF Range
<1>3. \A i \in 1..Len(s) : s[i] \in S
  OBVIOUS
<1>. QED
  BY <1>2, <1>3

(* Each step keeps the state well typed.                                      *)
LEMMA TypeStep ==
  ASSUME TypeOK, [Next]_vars
  PROVE  TypeOK'
<1>. USE CapAssumption
<1>0. /\ wire \in Seq(Chunk \cup {Exit}) /\ pending \in Seq(Chunk) /\ Len(pending) \in Nat
      /\ parsing \in Seq(Entry) /\ screen \in Seq(Chunk)
      /\ term \in 0..made /\ made \in 0..MaxTerms /\ term \in 0..MaxTerms
      /\ Chunk \subseteq Nat \ {Exit}
  BY DEF TypeOK, Entry, Chunk, Exit
<1>1. CASE Send
  <2>1. sent + 1 \in Chunk
    BY <1>1 DEF Send, TypeOK, Chunk
  <2>2. wire' \in Seq(Chunk \cup {Exit})
    BY <1>0, <1>1, <2>1, Added DEF Send
  <2>3. sent' \in 0..MaxChunks
    BY <1>1 DEF Send, TypeOK
  <2>. QED
    BY <1>1, <2>2, <2>3 DEF Send, TypeOK
<1>2. CASE ShellExits
  <2>1. wire' \in Seq(Chunk \cup {Exit})
    BY <1>0, <1>2, Added DEF ShellExits
  <2>. QED
    BY <1>2, <2>1 DEF ShellExits, TypeOK
<1>3. ASSUME NEW s \in BOOLEAN, OnOutput(s) PROVE TypeOK'
  <2>1. /\ wire # <<>> /\ Head(wire) # Exit /\ wire' = Tail(wire)
        /\ UNCHANGED <<sent, exited, closing, term, made, mounted, clearing, screen, acks>>
    BY <1>3 DEF OnOutput
  <2>2. Head(wire) \in Chunk /\ wire' \in Seq(Chunk \cup {Exit})
    BY <1>0, <2>1, Taken
  <2>3. CASE term # 0 /\ ~s
    <3>1. parsing' = parsing \o Given(<<Head(wire)>>, term, TRUE) /\ UNCHANGED <<pending, toAck, lost>>
      BY <1>3, <2>3 DEF OnOutput, Write, Given
    <3>2. <<Head(wire)>> \in Seq(Chunk) /\ term \in 1..MaxTerms
      BY <1>0, <2>2, <2>3
    <3>3. parsing' \in Seq(Entry)
      BY <1>0, <3>1, <3>2, Writes, Joined
    <3>. QED
      BY <2>1, <2>2, <3>1, <3>3 DEF TypeOK, Entry
  <2>4. CASE term # 0 /\ s
    <3>1. toAck' = toAck \cup {Head(wire)} /\ lost' = lost \cup {Head(wire)} /\ UNCHANGED <<pending, parsing>>
      BY <1>3, <2>4 DEF OnOutput, QueueAck
    <3>. QED
      BY <2>1, <2>2, <3>1 DEF TypeOK
  <2>5. CASE term = 0
    <3>1. /\ toAck' = toAck \cup {Head(wire)} /\ UNCHANGED parsing
          /\ pending' = Capped(Append(pending, Head(wire)))
          /\ lost' \in {lost, lost \cup {Head(Append(pending, Head(wire)))}}
      BY <1>3, <2>5 DEF OnOutput, QueueAck
    <3>2. /\ Append(pending, Head(wire)) \in Seq(Chunk) /\ Append(pending, Head(wire)) # <<>>
          /\ Len(Append(pending, Head(wire))) = Len(pending) + 1
      BY <1>0, <2>2, Added
    <3>3. pending' \in Seq(Chunk) /\ Len(pending') <= Cap
      <4>1. CASE Len(Append(pending, Head(wire))) > Cap
        <5>1. pending' = Tail(Append(pending, Head(wire)))
          BY <3>1, <4>1 DEF Capped
        <5>2. pending' \in Seq(Chunk) /\ Len(pending') = Len(pending)
          BY <1>0, <3>2, <5>1, Taken
        <5>. QED
          BY <5>2 DEF TypeOK
      <4>2. CASE ~(Len(Append(pending, Head(wire))) > Cap)
        <5>1. pending' = Append(pending, Head(wire))
          BY <3>1, <4>2 DEF Capped
        <5>. QED
          BY <1>0, <3>2, <4>2, <5>1
      <4>. QED
        BY <4>1, <4>2
    <3>4. lost' \subseteq Chunk
      <4>1. Head(Append(pending, Head(wire))) \in Chunk
        BY <3>2, Taken
      <4>. QED
        BY <3>1, <4>1 DEF TypeOK
    <3>. QED
      BY <2>1, <2>2, <3>1, <3>3, <3>4 DEF TypeOK
  <2>. QED
    BY <2>3, <2>4, <2>5
<1>4. CASE Parsed
  <2>1. /\ parsing # <<>> /\ parsing' = Tail(parsing)
        /\ screen' \in {screen, Append(screen, Head(parsing).chunk)}
        /\ lost' \in {lost, lost \cup {Head(parsing).chunk}}
        /\ toAck' \in {toAck, toAck \cup {Head(parsing).chunk}}
        /\ UNCHANGED <<sent, exited, wire, closing, term, made, mounted, clearing, pending, acks>>
    BY <1>4 DEF Parsed
  <2>2. Head(parsing) \in Entry /\ parsing' \in Seq(Entry)
    BY <1>0, <2>1, Taken
  <2>3. Head(parsing).chunk \in Chunk
    BY <2>2 DEF Entry
  <2>4. screen' \in Seq(Chunk)
    <3>1. Append(screen, Head(parsing).chunk) \in Seq(Chunk)
      BY <1>0, <2>3, Added
    <3>. QED
      BY <1>0, <2>1, <3>1
  <2>. QED
    BY <2>1, <2>2, <2>3, <2>4 DEF TypeOK, Entry
<1>5. CASE FlushAcks
  BY <1>5 DEF FlushAcks, TypeOK
<1>6. CASE Mount
  <2>1. /\ term' \in 1..made' /\ made' \in 0..MaxTerms
        /\ clearing' \in {clearing, term'} /\ mounted' \in BOOLEAN
        /\ parsing' = parsing \o Given(pending, term', FALSE) /\ pending' = <<>>
        /\ UNCHANGED <<sent, exited, wire, closing, screen, toAck, acks, lost>>
    BY <1>0, <1>6 DEF Mount, Flush, Given
  <2>2. term' \in 1..MaxTerms
    BY <2>1
  <2>3. parsing' \in Seq(Entry)
    BY <1>0, <2>1, <2>2, Writes, Joined
  <2>4. pending' \in Seq(Chunk) /\ Len(pending') <= Cap
    BY <2>1, EmptySeqs
  <2>5. clearing' \in 0..MaxTerms
    BY <2>1, <2>2 DEF TypeOK
  <2>6. term' \in 0..made'
    BY <2>1
  <2>. QED
    BY <2>1, <2>3, <2>4, <2>5, <2>6 DEF TypeOK, Entry
<1>7. CASE ClearPrompt
  <2>1. lost' \subseteq Chunk /\ screen' \in Seq(Chunk)
    <3>1. Range(screen) \subseteq Chunk
      BY <1>0, RangeIn
    <3>. QED
      BY <1>7, <3>1, EmptySeqs DEF ClearPrompt, TypeOK
  <2>2. clearing' \in 0..MaxTerms
    BY <1>7 DEF ClearPrompt
  <2>. QED
    BY <1>7, <2>1, <2>2 DEF ClearPrompt, TypeOK
<1>8. CASE Unmount \/ ClosePane
  BY <1>8 DEF Unmount, ClosePane, TypeOK
<1>9. ASSUME \/ Dispose
             \/ UNCHANGED <<lost, pending, screen, term>>,
             wire' \in Seq(Chunk \cup {Exit}), closing' \in BOOLEAN,
             UNCHANGED <<sent, exited, made, mounted, clearing, parsing, toAck, acks>>
      PROVE  TypeOK'
  <2>1. CASE Dispose
    <3>1. Range(pending) \subseteq Chunk /\ Range(screen) \subseteq Chunk
      BY <1>0, RangeIn
    <3>2. lost' \subseteq Chunk /\ screen' \in Seq(Chunk)
      BY <2>1, <3>1, EmptySeqs DEF Dispose, TypeOK
    <3>3. pending' \in Seq(Chunk) /\ Len(pending') <= Cap
      BY <2>1, EmptySeqs DEF Dispose
    <3>4. term' \in 0..made'
      BY <1>0, <1>9, <2>1 DEF Dispose
    <3>. QED
      BY <1>9, <3>2, <3>3, <3>4 DEF TypeOK
  <2>2. CASE UNCHANGED <<lost, pending, screen, term>>
    BY <1>9, <2>2 DEF TypeOK
  <2>. QED
    BY <1>9, <2>1, <2>2
<1>10. CASE OnExit
  <2>1. wire' \in Seq(Chunk \cup {Exit})
    BY <1>0, <1>10, Taken DEF OnExit
  <2>. QED
    BY <1>9, <1>10, <2>1 DEF OnExit, TypeOK
<1>11. ASSUME NEW ok \in BOOLEAN, PaneClosed(ok) PROVE TypeOK'
  BY <1>0, <1>9, <1>11 DEF PaneClosed
<1>12. CASE UNCHANGED vars
  BY <1>12 DEF vars, TypeOK
<1>. QED
  BY <1>1, <1>2, <1>3, <1>4, <1>5, <1>6, <1>7, <1>8, <1>10, <1>11, <1>12 DEF Next

(* A chunk is on the wire, or owed, or acknowledged, and once.               *)
WireOnce ==
  /\ \A i \in 1..Len(wire) :
       wire[i] # Exit => /\ wire[i] <= sent /\ wire[i] \notin toAck
                         /\ ~InParsing(wire[i]) /\ acks[wire[i]] = 0
  /\ \A i, j \in 1..Len(wire) : wire[i] # Exit /\ wire[i] = wire[j] => i = j

ParsingOnce ==
  /\ \A i \in 1..Len(parsing) :
       parsing[i].ack => /\ parsing[i].chunk <= sent /\ parsing[i].chunk \notin toAck
                         /\ acks[parsing[i].chunk] = 0
  /\ \A i, j \in 1..Len(parsing) :
       parsing[i].ack /\ parsing[j].ack /\ parsing[i].chunk = parsing[j].chunk => i = j

AcksOnce ==
  /\ \A c \in toAck : c <= sent /\ acks[c] = 0
  /\ \A c \in Chunk : c > sent => acks[c] = 0

Once == WireOnce /\ ParsingOnce /\ AcksOnce

(* Each step keeps a chunk in one place.                                      *)
LEMMA OnceStep ==
  ASSUME TypeOK, TypeOK', Once, [Next]_vars
  PROVE  Once'
<1>1. /\ wire \in Seq(Chunk \cup {Exit}) /\ parsing \in Seq(Entry) /\ pending \in Seq(Chunk)
      /\ toAck \subseteq Chunk /\ acks \in [Chunk -> Nat]
  BY DEF TypeOK, Entry
<1>2. sent \in Nat /\ Chunk \subseteq Nat \ {Exit}
  BY CapAssumption DEF TypeOK, Chunk, Exit
<1>3. \A i \in 1..Len(parsing) : parsing[i].chunk \in Chunk /\ parsing[i].ack \in BOOLEAN
  <2>1. \A i \in 1..Len(parsing) : parsing[i] \in Entry
    BY <1>1
  <2>. QED
    BY <2>1 DEF Entry
<1>4. \A i \in 1..Len(wire) : wire[i] \in Chunk \cup {Exit}
  BY <1>1
<1>5. Len(parsing) \in Nat /\ Len(wire) \in Nat
  BY <1>1
<1>6. ASSUME wire # <<>>, wire' = Tail(wire)
      PROVE  /\ 1 \in 1..Len(wire) /\ Head(wire) = wire[1]
             /\ \A i \in 1..Len(wire') : /\ i + 1 \in 1..Len(wire) /\ wire'[i] = wire[i + 1]
                                        /\ wire[1] # Exit => wire'[i] # wire[1]
  <2>1. /\ 1 \in 1..Len(wire) /\ Head(wire) = wire[1]
        /\ \A i \in 1..Len(wire') : i + 1 \in 1..Len(wire) /\ wire'[i] = wire[i + 1]
    BY <1>1, <1>6, Taken
  <2>2. ASSUME NEW i \in 1..Len(wire'), wire[1] # Exit PROVE wire'[i] # wire[1]
    <3>1. i + 1 \in 1..Len(wire) /\ wire'[i] = wire[i + 1] /\ i + 1 # 1
      BY <2>1
    <3>. QED
      BY <2>1, <2>2, <3>1 DEF Once, WireOnce
  <2>. QED
    BY <2>1, <2>2
<1>7. CASE Send
  <2>1. /\ sent' = sent + 1 /\ sent + 1 \in Chunk /\ wire' = Append(wire, sent + 1)
        /\ UNCHANGED <<parsing, toAck, acks>>
    BY <1>2, <1>7 DEF Send, TypeOK, Chunk
  <2>2. /\ Len(wire') = Len(wire) + 1 /\ wire'[Len(wire) + 1] = sent + 1
        /\ \A i \in 1..Len(wire) : wire'[i] = wire[i]
        /\ \A i \in 1..Len(wire') : i \in 1..Len(wire) \/ i = Len(wire) + 1
    BY <1>1, <2>1, Added
  <2>3. /\ sent + 1 \notin toAck /\ acks[sent + 1] = 0 /\ ~InParsing(sent + 1)
        /\ \A i \in 1..Len(wire) : wire[i] # sent + 1
    BY <1>2, <1>3, <1>4, <2>1 DEF Once, WireOnce, ParsingOnce, AcksOnce, InParsing, Exit
  <2>4. \A c : InParsing(c)' <=> InParsing(c)
    BY <2>1 DEF InParsing
  <2>5. ParsingOnce' /\ AcksOnce'
    <3>1. \A c \in Chunk : c <= sent => c <= sent'
      BY <1>2, <2>1
    <3>2. ParsingOnce'
      BY <1>3, <2>1, <3>1 DEF Once, ParsingOnce
    <3>3. \A c \in Chunk : c > sent' => c > sent
      BY <1>2, <2>1
    <3>4. AcksOnce'
      BY <1>1, <2>1, <3>1, <3>3 DEF Once, AcksOnce
    <3>. QED
      BY <3>2, <3>4
  <2>6. \A i \in 1..Len(wire') : wire'[i] # Exit =>
          /\ wire'[i] <= sent' /\ wire'[i] \notin toAck'
          /\ ~InParsing(wire'[i]) /\ acks'[wire'[i]] = 0
    <3>1. ASSUME NEW i \in 1..Len(wire), wire[i] # Exit
          PROVE  wire[i] <= sent' /\ wire[i] \notin toAck /\ ~InParsing(wire[i]) /\ acks[wire[i]] = 0
      <4>1. wire[i] \in Nat /\ wire[i] <= sent /\ wire[i] \notin toAck /\ ~InParsing(wire[i]) /\ acks[wire[i]] = 0
        BY <1>2, <1>4, <3>1 DEF Once, WireOnce
      <4>. QED
        BY <1>2, <2>1, <4>1
    <3>2. sent + 1 <= sent'
      BY <1>2, <2>1
    <3>. QED
      BY <2>1, <2>2, <2>3, <3>1, <3>2
  <2>7. \A i, j \in 1..Len(wire') : wire'[i] # Exit /\ wire'[i] = wire'[j] => i = j
    BY <2>2, <2>3 DEF Once, WireOnce
  <2>8. WireOnce'
    BY <2>1, <2>6, <2>7 DEF WireOnce, InParsing
  <2>. QED
    BY <2>1, <2>4, <2>5, <2>8 DEF Once
<1>8. ASSUME UNCHANGED <<sent, parsing, toAck, acks>>, WireOnce'
      PROVE  Once'
  BY <1>8 DEF Once, ParsingOnce, AcksOnce, InParsing
<1>9. CASE ShellExits
  <2>1. wire' = Append(wire, Exit) /\ UNCHANGED <<sent, parsing, toAck, acks>>
    BY <1>9 DEF ShellExits
  <2>2. /\ Len(wire') = Len(wire) + 1 /\ wire'[Len(wire) + 1] = Exit
        /\ \A i \in 1..Len(wire) : wire'[i] = wire[i]
        /\ \A i \in 1..Len(wire') : i \in 1..Len(wire) \/ i = Len(wire) + 1
    BY <1>1, <2>1, Added
  <2>3. WireOnce'
    BY <2>1, <2>2 DEF Once, WireOnce, InParsing
  <2>. QED
    BY <1>8, <2>1, <2>3
<1>10. CASE OnExit
  <2>1. wire # <<>> /\ wire' = Tail(wire) /\ UNCHANGED <<sent, parsing, toAck, acks>>
    BY <1>10 DEF OnExit
  <2>2. WireOnce'
    BY <1>6, <2>1 DEF Once, WireOnce, InParsing
  <2>. QED
    BY <1>8, <2>1, <2>2
<1>11. ASSUME UNCHANGED <<sent, wire, parsing, toAck, acks>>
       PROVE  Once'
  <2>1. WireOnce'
    BY <1>11 DEF Once, WireOnce, InParsing
  <2>. QED
    BY <1>8, <1>11, <2>1
<1>12. ASSUME NEW s \in BOOLEAN, OnOutput(s)
       PROVE  Once'
  <2>1. wire # <<>> /\ wire[1] # Exit /\ wire' = Tail(wire) /\ UNCHANGED <<sent, acks>>
    BY <1>6, <1>12 DEF OnOutput
  <2>2. /\ wire[1] \in Chunk /\ wire[1] <= sent /\ wire[1] \notin toAck
        /\ ~InParsing(wire[1]) /\ acks[wire[1]] = 0
    BY <1>4, <1>6, <2>1 DEF Once, WireOnce
  <2>3. CASE term # 0 /\ ~s
    <3>1. parsing' = parsing \o Given(<<wire[1]>>, term, TRUE) /\ UNCHANGED toAck
      BY <1>6, <1>12, <2>1, <2>3 DEF OnOutput, Write, Given
    <3>4. /\ Len(parsing) + 1 \in 1..Len(parsing') /\ Len(parsing) + 1 \notin 1..Len(parsing)
          /\ parsing'[Len(parsing) + 1].ack /\ parsing'[Len(parsing) + 1].chunk = wire[1]
          /\ \A i \in 1..Len(parsing) : i \in 1..Len(parsing') /\ parsing'[i] = parsing[i]
          /\ \A i \in 1..Len(parsing') : i \in 1..Len(parsing) \/ i = Len(parsing) + 1
      <4>1. term \in 1..MaxTerms
        BY <2>3, CapAssumption DEF TypeOK
      <4>2. /\ Len(parsing) + 1 \in 1..Len(parsing') /\ Len(parsing) + 1 \notin 1..Len(parsing)
            /\ parsing'[Len(parsing) + 1] = Made(wire[1], term, TRUE)
            /\ \A i \in 1..Len(parsing) : i \in 1..Len(parsing') /\ parsing'[i] = parsing[i]
            /\ \A i \in 1..Len(parsing') : i \in 1..Len(parsing) \/ i = Len(parsing) + 1
        <5>1. \A q : q = parsing \o Given(<<wire[1]>>, term, TRUE) =>
                /\ Len(parsing) \in Nat /\ Len(q) = Len(parsing) + 1 /\ q[Len(parsing) + 1] = Made(wire[1], term, TRUE)
                /\ \A i \in 1..Len(parsing) : i \in 1..Len(q) /\ q[i] = parsing[i]
                /\ \A i \in 1..Len(q) : i \in 1..Len(parsing) \/ i = Len(parsing) + 1
                /\ Len(parsing) + 1 \in 1..Len(q) /\ Len(parsing) + 1 \notin 1..Len(parsing)
          BY <1>1, <2>2, <4>1, WritesOne
        <5>. QED
          BY <3>1, <5>1, Zenon
      <4>3. parsing'[Len(parsing) + 1].ack /\ parsing'[Len(parsing) + 1].chunk = wire[1]
        BY <4>2 DEF Made
      <4>. QED
        BY <4>2, <4>3, Zenon
    <3>5. \A c : InParsing(c)' <=> InParsing(c) \/ c = wire[1]
      BY <1>5, <3>4 DEF InParsing
    <3>6. ParsingOnce'
      <4>1. \A i \in 1..Len(parsing) : parsing[i].ack => parsing[i].chunk # wire[1]
        BY <2>2 DEF InParsing
      <4>2. \A i \in 1..Len(parsing') : \/ i \in 1..Len(parsing) /\ parsing'[i] = parsing[i]
                                        \/ i = Len(parsing) + 1 /\ parsing'[i].chunk = wire[1]
        BY <3>4
      <4>3. ASSUME NEW i \in 1..Len(parsing'), parsing'[i].ack
            PROVE  parsing'[i].chunk <= sent /\ parsing'[i].chunk \notin toAck /\ acks[parsing'[i].chunk] = 0
        BY <2>2, <4>2, <4>3 DEF Once, ParsingOnce
      <4>4. ASSUME NEW i \in 1..Len(parsing'), NEW j \in 1..Len(parsing'), parsing'[i].ack, parsing'[j].ack,
                   parsing'[i].chunk = parsing'[j].chunk
            PROVE  i = j
        BY <4>1, <4>2, <4>4 DEF Once, ParsingOnce
      <4>. QED
        BY <2>1, <3>1, <4>3, <4>4 DEF ParsingOnce
    <3>7. WireOnce'
      BY <1>6, <2>1, <3>1, <3>5 DEF Once, WireOnce
    <3>8. AcksOnce'
      BY <2>1, <3>1 DEF Once, AcksOnce
    <3>. QED
      BY <2>1, <2>2, <3>1, <3>5, <3>6, <3>7, <3>8 DEF Once
  <2>4. CASE ~(term # 0 /\ ~s)
    <3>1. toAck' = toAck \cup {wire[1]} /\ UNCHANGED parsing
      BY <1>6, <1>12, <2>1, <2>4 DEF OnOutput, QueueAck
    <3>2. \A c : InParsing(c)' <=> InParsing(c)
      BY <3>1 DEF InParsing
    <3>3. ParsingOnce'
      BY <2>1, <2>2, <3>1 DEF Once, ParsingOnce, InParsing
    <3>4. WireOnce'
      BY <1>6, <2>1, <3>1, <3>2 DEF Once, WireOnce
    <3>5. AcksOnce'
      BY <2>1, <2>2, <3>1 DEF Once, AcksOnce
    <3>. QED
      BY <2>1, <2>2, <3>1, <3>2, <3>3, <3>4, <3>5 DEF Once
  <2>. QED
    BY <2>3, <2>4
<1>13. CASE Parsed
  <2>1. /\ parsing # <<>> /\ parsing' = Tail(parsing) /\ UNCHANGED <<sent, wire, acks>>
        /\ \/ toAck' = IF Head(parsing).ack THEN toAck \cup {Head(parsing).chunk} ELSE toAck
           \/ toAck' = toAck
    BY <1>13 DEF Parsed
  <2>2. /\ 1 \in 1..Len(parsing) /\ Head(parsing) = parsing[1]
        /\ \A i \in 1..Len(parsing') : i + 1 \in 1..Len(parsing) /\ parsing'[i] = parsing[i + 1]
        /\ Len(parsing') = Len(parsing) - 1
    BY <1>1, <2>1, Taken
  <2>3. \A i \in 1..Len(parsing) : i = 1 \/ (i - 1 \in 1..Len(parsing') /\ parsing'[i - 1] = parsing[i])
    <3>1. ASSUME NEW i \in 1..Len(parsing), i # 1 PROVE i - 1 \in 1..Len(parsing') /\ parsing'[i - 1] = parsing[i]
      <4>1. i - 1 \in 1..Len(parsing') /\ (i - 1) + 1 = i
        BY <1>5, <2>2, <3>1
      <4>. QED
        BY <2>2, <4>1
    <3>. QED
      BY <3>1
  <2>4. \A c : InParsing(c) <=> InParsing(c)' \/ (parsing[1].ack /\ parsing[1].chunk = c)
    BY <2>2, <2>3 DEF InParsing
  <2>5. ASSUME parsing[1].ack, NEW i \in 1..Len(parsing'), parsing'[i].ack
        PROVE  parsing'[i].chunk # parsing[1].chunk
    <3>1. i + 1 \in 1..Len(parsing) /\ parsing'[i] = parsing[i + 1] /\ i + 1 # 1
      BY <2>2
    <3>. QED
      BY <2>2, <2>5, <3>1 DEF Once, ParsingOnce
  <2>6. ParsingOnce'
    <3>1. ASSUME NEW i \in 1..Len(parsing'), parsing'[i].ack
          PROVE  /\ parsing'[i].chunk <= sent /\ parsing'[i].chunk \notin toAck'
                 /\ acks[parsing'[i].chunk] = 0
      <4>1. i + 1 \in 1..Len(parsing) /\ parsing'[i] = parsing[i + 1] /\ i + 1 # 1
        BY <2>2
      <4>2. parsing[1].ack => parsing'[i].chunk # parsing[1].chunk
        BY <2>2, <3>1, <4>1 DEF Once, ParsingOnce
      <4>. QED
        BY <2>1, <2>2, <3>1, <4>1, <4>2 DEF Once, ParsingOnce
    <3>2. ASSUME NEW i \in 1..Len(parsing'), NEW j \in 1..Len(parsing'), parsing'[i].ack, parsing'[j].ack,
                 parsing'[i].chunk = parsing'[j].chunk
          PROVE  i = j
      <4>1. i + 1 \in 1..Len(parsing) /\ j + 1 \in 1..Len(parsing) /\ parsing'[i] = parsing[i + 1] /\ parsing'[j] = parsing[j + 1]
        BY <2>2
      <4>2. i + 1 = j + 1
        BY <3>2, <4>1 DEF Once, ParsingOnce
      <4>. QED
        BY <4>2
    <3>. QED
      BY <2>1, <3>1, <3>2 DEF ParsingOnce
  <2>7. parsing[1].ack => /\ parsing[1].chunk \in Chunk /\ parsing[1].chunk <= sent
                          /\ parsing[1].chunk \notin toAck /\ acks[parsing[1].chunk] = 0
    BY <1>3, <2>2 DEF Once, ParsingOnce
  <2>8. AcksOnce'
    BY <2>1, <2>2, <2>7 DEF Once, AcksOnce
  <2>9. WireOnce'
    BY <2>1, <2>2, <2>4 DEF Once, WireOnce
  <2>. QED
    BY <2>6, <2>8, <2>9 DEF Once
<1>14. CASE FlushAcks
  <2>1. /\ acks' = [c \in Chunk |-> IF c \in toAck THEN acks[c] + 1 ELSE acks[c]] /\ toAck' = {}
        /\ UNCHANGED <<sent, wire, parsing>>
    BY <1>14 DEF FlushAcks
  <2>2. \A c : InParsing(c)' <=> InParsing(c)
    BY <2>1 DEF InParsing
  <2>3. WireOnce'
    BY <1>4, <2>1, <2>2 DEF Once, WireOnce
  <2>4. ParsingOnce'
    BY <1>3, <2>1 DEF Once, ParsingOnce
  <2>5. AcksOnce'
    BY <1>1, <1>2, <2>1 DEF Once, AcksOnce
  <2>. QED
    BY <2>3, <2>4, <2>5 DEF Once
<1>15. CASE Mount
  <2>1. /\ parsing' = parsing \o Given(pending, term', FALSE) /\ UNCHANGED <<sent, wire, toAck, acks>>
        /\ term' \in 1..MaxTerms
    BY <1>15, CapAssumption DEF Mount, Flush, Given, TypeOK
  <2>2. /\ \A i \in 1..Len(parsing) : i \in 1..Len(parsing') /\ parsing'[i] = parsing[i]
        /\ \A i \in 1..Len(parsing') : i \in 1..Len(parsing) \/ parsing'[i].ack = FALSE
    <3>. DEFINE q == parsing'
                to == term'
                ack == FALSE
    <3>1. /\ parsing \in Seq(Entry) /\ pending \in Seq(Chunk) /\ to \in 1..MaxTerms /\ ack \in BOOLEAN
          /\ q = parsing \o Given(pending, to, ack)
      BY <1>1, <2>1
    <3>. HIDE DEF q, to, ack
    <3>2. /\ \A i \in 1..Len(parsing) : i \in 1..Len(q) /\ q[i] = parsing[i]
          /\ \A i \in 1..Len(q) :
               \/ i \in 1..Len(parsing)
               \/ i - Len(parsing) \in 1..Len(pending) /\ q[i] = Made(pending[i - Len(parsing)], to, ack)
      <4>1. ASSUME NEW a \in BOOLEAN
            PROVE  /\ \A i \in 1..Len(parsing) : /\ i \in 1..Len(parsing \o Given(pending, to, a))
                                                 /\ (parsing \o Given(pending, to, a))[i] = parsing[i]
                   /\ \A i \in 1..Len(parsing \o Given(pending, to, a)) :
                        \/ i \in 1..Len(parsing)
                        \/ /\ i - Len(parsing) \in 1..Len(pending)
                           /\ (parsing \o Given(pending, to, a))[i] = Made(pending[i - Len(parsing)], to, a)
        BY <3>1, WritesBehind, SMT
      <4>. QED
        BY <3>1, <4>1, Zenon
    <3>3. \A i \in 1..Len(q) : i \in 1..Len(parsing) \/ q[i].ack = FALSE
      <4>1. \A c : Made(c, to, ack).ack = FALSE
        BY DEF Made, ack
      <4>. QED
        BY <3>2, <4>1, Zenon
    <3>. QED
      BY <3>2, <3>3 DEF q
  <2>3. /\ \A i \in 1..Len(parsing) : i \in 1..Len(parsing') /\ parsing'[i] = parsing[i]
        /\ \A i \in 1..Len(parsing') : parsing'[i].ack => i \in 1..Len(parsing)
    BY <2>2
  <2>4. \A c : InParsing(c)' <=> InParsing(c)
    BY <2>3 DEF InParsing
  <2>5. ParsingOnce'
    <3>1. \A i \in 1..Len(parsing') : parsing'[i].ack => i \in 1..Len(parsing) /\ parsing'[i] = parsing[i]
      BY <2>3
    <3>2. ASSUME NEW i \in 1..Len(parsing'), parsing'[i].ack
          PROVE  parsing'[i].chunk <= sent /\ parsing'[i].chunk \notin toAck /\ acks[parsing'[i].chunk] = 0
      BY <3>1, <3>2 DEF Once, ParsingOnce
    <3>3. ASSUME NEW i \in 1..Len(parsing'), NEW j \in 1..Len(parsing'), parsing'[i].ack, parsing'[j].ack,
                 parsing'[i].chunk = parsing'[j].chunk
          PROVE  i = j
      BY <3>1, <3>3 DEF Once, ParsingOnce
    <3>. QED
      BY <2>1, <3>2, <3>3 DEF ParsingOnce
  <2>6. WireOnce' /\ AcksOnce'
    BY <2>1, <2>4 DEF Once, WireOnce, AcksOnce
  <2>. QED
    BY <2>1, <2>4, <2>5, <2>6 DEF Once
<1>. QED
  BY <1>7, <1>9, <1>10, <1>11, <1>12, <1>13, <1>14, <1>15
     DEF Next, vars, Unmount, ClearPrompt, ClosePane, PaneClosed

-----------------------------------------------------------------------------
(* Each step is one of the ledger's, or changes nothing of it.                *)
LEMMA LedgerStep ==
  ASSUME TypeOK, TypeOK', Once, [Next]_vars
  PROVE  [Ledger!Next]_(Ledger!vars)
<1>1. /\ wire \in Seq(Chunk \cup {Exit}) /\ parsing \in Seq(Entry) /\ pending \in Seq(Chunk)
      /\ toAck \subseteq Chunk /\ acks \in [Chunk -> Nat] /\ sent \in Nat /\ sent <= MaxChunks
      /\ Len(wire) \in Nat /\ Len(parsing) \in Nat /\ MaxChunks \in Nat
  BY CapAssumption DEF TypeOK, Entry
<1>2. /\ Received' = Received /\ Waiting' = Waiting /\ UNCHANGED <<toAck, Acknowledged>>
      => Ledger!TerminalChanges
  BY DEF Ledger!TerminalChanges
<1>3. UNCHANGED <<sent, wire>> => Received' = Received
  BY DEF Received
<1>4. parsing' = parsing => Waiting' = Waiting
  BY DEF Waiting
<1>5. acks' = acks => Acknowledged' = Acknowledged
  BY DEF Acknowledged
<1>6. ASSUME wire # <<>>, wire' = Tail(wire)
      PROVE  /\ 1 \in 1..Len(wire) /\ Head(wire) = wire[1]
             /\ \A i \in 1..Len(wire') : i + 1 \in 1..Len(wire) /\ wire'[i] = wire[i + 1]
             /\ \A i \in 1..Len(wire) : i = 1 \/ (i - 1 \in 1..Len(wire') /\ wire'[i - 1] = wire[i])
  <2>1. /\ 1 \in 1..Len(wire) /\ Head(wire) = wire[1] /\ Len(wire') = Len(wire) - 1
        /\ \A i \in 1..Len(wire') : i + 1 \in 1..Len(wire) /\ wire'[i] = wire[i + 1]
    BY <1>1, <1>6, Taken
  <2>2. ASSUME NEW i \in 1..Len(wire), i # 1 PROVE i - 1 \in 1..Len(wire') /\ wire'[i - 1] = wire[i]
    <3>1. i - 1 \in 1..Len(wire') /\ (i - 1) + 1 = i
      BY <1>1, <2>1, <2>2
    <3>. QED
      BY <2>1, <3>1
  <2>. QED
    BY <2>1, <2>2
<1>7. CASE Send
  <2>1. sent' = sent + 1 /\ wire' = Append(wire, sent + 1) /\ UNCHANGED <<parsing, toAck, acks>>
    BY <1>7 DEF Send
  <2>2. /\ Len(wire') = Len(wire) + 1 /\ wire'[Len(wire) + 1] = sent + 1
        /\ \A i \in 1..Len(wire) : wire'[i] = wire[i]
        /\ \A i \in 1..Len(wire') : i \in 1..Len(wire) \/ i = Len(wire) + 1
    <3>1. sent + 1 \in Chunk \cup {Exit}
      BY <1>7, <1>1 DEF Send, Chunk
    <3>. QED
      BY <1>1, <2>1, <3>1, Added
  <2>3. Received' = Received
    <3>1. \A c \in 1..sent : c # sent + 1
      BY <1>1
    <3>2. 1..(sent + 1) = (1..sent) \cup {sent + 1}
      BY <1>1
    <3>3. Len(wire) + 1 \in 1..Len(wire') /\ \A i \in 1..Len(wire) : i \in 1..Len(wire')
      BY <1>1, <2>2
    <3>. QED
      BY <2>1, <2>2, <3>1, <3>2, <3>3 DEF Received
  <2>. QED
    BY <1>2, <1>4, <1>5, <2>1, <2>3 DEF Ledger!Next
<1>8. CASE ShellExits
  <2>1. wire' = Append(wire, Exit) /\ UNCHANGED <<sent, parsing, toAck, acks>>
    BY <1>8 DEF ShellExits
  <2>2. /\ Len(wire') = Len(wire) + 1 /\ wire'[Len(wire) + 1] = Exit
        /\ \A i \in 1..Len(wire) : wire'[i] = wire[i]
        /\ \A i \in 1..Len(wire') : i \in 1..Len(wire) \/ i = Len(wire) + 1
    BY <1>1, <2>1, Added
  <2>3. Received' = Received
    <3>1. \A c \in 1..sent : c # Exit
      BY <1>1 DEF Exit
    <3>2. \A i \in 1..Len(wire) : i \in 1..Len(wire')
      BY <1>1, <2>2
    <3>. QED
      BY <2>1, <2>2, <3>1, <3>2 DEF Received
  <2>. QED
    BY <1>2, <1>4, <1>5, <2>1, <2>3 DEF Ledger!Next
<1>9. CASE OnExit
  <2>1. wire # <<>> /\ Head(wire) = Exit /\ wire' = Tail(wire) /\ UNCHANGED <<sent, parsing, toAck, acks>>
    BY <1>9 DEF OnExit
  <2>2. Received' = Received
    <3>1. \A c \in 1..sent : c # Exit
      BY <1>1 DEF Exit
    <3>2. ASSUME NEW c \in 1..sent, \A i \in 1..Len(wire') : wire'[i] # c PROVE \A i \in 1..Len(wire) : wire[i] # c
      BY <1>6, <2>1, <3>1, <3>2
    <3>3. ASSUME NEW c \in 1..sent, \A i \in 1..Len(wire) : wire[i] # c PROVE \A i \in 1..Len(wire') : wire'[i] # c
      BY <1>6, <2>1, <3>3
    <3>. QED
      BY <2>1, <3>2, <3>3 DEF Received
  <2>. QED
    BY <1>2, <1>4, <1>5, <2>1, <2>2 DEF Ledger!Next
<1>10. ASSUME NEW s \in BOOLEAN, OnOutput(s)
       PROVE  Ledger!Next
  <2>1. wire # <<>> /\ Head(wire) # Exit /\ wire' = Tail(wire) /\ UNCHANGED <<sent, term, acks>>
    BY <1>10 DEF OnOutput
  <2>2. /\ wire[1] \in Chunk /\ wire[1] \in 1..sent
        /\ \A i \in 1..Len(wire') : wire'[i] # wire[1]
    <3>1. wire[1] \in Chunk /\ wire[1] # Exit
      BY <1>1, <1>6, <2>1
    <3>2. wire[1] <= sent
      BY <1>6, <2>1, <3>1 DEF Once, WireOnce
    <3>3. ASSUME NEW i \in 1..Len(wire'), wire'[i] = wire[1] PROVE FALSE
      <4>1. i + 1 \in 1..Len(wire) /\ wire[i + 1] = wire[1] /\ i + 1 # 1
        BY <1>6, <2>1, <3>3
      <4>. QED
        BY <1>6, <2>1, <3>1, <4>1 DEF Once, WireOnce
    <3>. QED
      BY <1>1, <3>1, <3>2, <3>3 DEF Chunk
  <2>3. wire[1] \notin Received /\ Received' = Received \cup {wire[1]}
    <3>1. wire[1] \notin Received
      BY <1>6, <2>1 DEF Received
    <3>2. ASSUME NEW c \in 1..sent, c # wire[1], \A i \in 1..Len(wire') : wire'[i] # c
          PROVE  \A i \in 1..Len(wire) : wire[i] # c
      BY <1>6, <2>1, <3>2
    <3>3. ASSUME NEW c \in 1..sent, \A i \in 1..Len(wire) : wire[i] # c PROVE \A i \in 1..Len(wire') : wire'[i] # c
      BY <1>6, <2>1, <3>3
    <3>. QED
      BY <2>1, <2>2, <3>1, <3>2, <3>3 DEF Received
  <2>4. CASE term # 0 /\ ~s
    <3>1. parsing' = parsing \o Given(<<wire[1]>>, term, TRUE) /\ UNCHANGED toAck
      BY <1>6, <1>10, <2>1, <2>4 DEF OnOutput, Write, Given
    <3>2. term \in 1..MaxTerms
      BY <2>4, CapAssumption DEF TypeOK
    <3>3. /\ Len(parsing) + 1 \in 1..Len(parsing') /\ parsing'[Len(parsing) + 1] = Made(wire[1], term, TRUE)
          /\ \A i \in 1..Len(parsing) : i \in 1..Len(parsing') /\ parsing'[i] = parsing[i]
          /\ \A i \in 1..Len(parsing') : i \in 1..Len(parsing) \/ i = Len(parsing) + 1
      <4>1. \A q : q = parsing \o Given(<<wire[1]>>, term, TRUE) =>
              /\ Len(parsing) \in Nat /\ Len(q) = Len(parsing) + 1 /\ q[Len(parsing) + 1] = Made(wire[1], term, TRUE)
              /\ \A i \in 1..Len(parsing) : i \in 1..Len(q) /\ q[i] = parsing[i]
              /\ \A i \in 1..Len(q) : i \in 1..Len(parsing) \/ i = Len(parsing) + 1
              /\ Len(parsing) + 1 \in 1..Len(q) /\ Len(parsing) + 1 \notin 1..Len(parsing)
        BY <1>1, <2>2, <3>2, WritesOne
      <4>. QED
        BY <3>1, <4>1, Zenon
    <3>4. ASSUME NEW w \in Chunk \X (1..MaxTerms)
          PROVE  [chunk |-> w[1], to |-> w[2], ack |-> TRUE] = Made(wire[1], term, TRUE) <=> w = <<wire[1], term>>
      <4>1. PICK c \in Chunk, t \in 1..MaxTerms : w = <<c, t>>
        OBVIOUS
      <4>2. [chunk |-> c, to |-> t, ack |-> TRUE] = Made(wire[1], term, TRUE) <=> c = wire[1] /\ t = term
        BY DEF Made
      <4>3. w[1] = c /\ w[2] = t /\ (w = <<wire[1], term>> <=> c = wire[1] /\ t = term)
        BY <4>1
      <4>. QED
        BY <4>2, <4>3
    <3>5. Waiting' = Waiting \cup {<<wire[1], term>>}
      <4>1. <<wire[1], term>> \in Chunk \X (1..MaxTerms)
        BY <2>2, <3>2
      <4>2. ASSUME NEW w \in Chunk \X (1..MaxTerms)
            PROVE  w \in Waiting' <=> w \in Waiting \/ w = <<wire[1], term>>
        <5>. DEFINE e == [chunk |-> w[1], to |-> w[2], ack |-> TRUE]
        <5>1. (\E i \in 1..Len(parsing') : parsing'[i] = e)
               <=> (\E i \in 1..Len(parsing) : parsing[i] = e) \/ e = Made(wire[1], term, TRUE)
          <6>. HIDE DEF e
          <6>. QED
            BY <3>3
        <5>. QED
          BY <3>4, <5>1 DEF Waiting
      <4>3. Waiting \subseteq Chunk \X (1..MaxTerms) /\ Waiting' \subseteq Chunk \X (1..MaxTerms)
        BY DEF Waiting
      <4>. QED
        BY <4>1, <4>2, <4>3
    <3>6. Ledger!Receive(wire[1])
      BY <1>5, <2>1, <2>3, <2>4, <3>1, <3>5 DEF Ledger!Receive
    <3>. QED
      BY <2>2, <3>6 DEF Ledger!Next
  <2>5. CASE ~(term # 0 /\ ~s)
    <3>1. toAck' = toAck \cup {wire[1]} /\ UNCHANGED parsing
      BY <1>6, <1>10, <2>1, <2>5 DEF OnOutput, QueueAck
    <3>2. Ledger!Receive(wire[1])
      BY <1>4, <1>5, <2>1, <2>3, <3>1 DEF Ledger!Receive
    <3>. QED
      BY <2>2, <3>2 DEF Ledger!Next
  <2>. QED
    BY <2>4, <2>5
<1>11. CASE Parsed
  <2>1. /\ parsing # <<>> /\ parsing' = Tail(parsing) /\ UNCHANGED <<sent, wire, term, acks>>
        /\ \/ toAck' = IF Head(parsing).ack THEN toAck \cup {Head(parsing).chunk} ELSE toAck
           \/ Head(parsing).to # term /\ toAck' = toAck
    BY <1>11 DEF Parsed
  <2>2. /\ 1 \in 1..Len(parsing) /\ Head(parsing) = parsing[1] /\ parsing[1] \in Entry
        /\ \A i \in 1..Len(parsing') : i + 1 \in 1..Len(parsing) /\ parsing'[i] = parsing[i + 1]
        /\ Len(parsing') = Len(parsing) - 1
    BY <1>1, <2>1, Taken
  <2>3. \A i \in 1..Len(parsing) : i = 1 \/ (i - 1 \in 1..Len(parsing') /\ parsing'[i - 1] = parsing[i])
    <3>1. ASSUME NEW i \in 1..Len(parsing), i # 1 PROVE i - 1 \in 1..Len(parsing') /\ parsing'[i - 1] = parsing[i]
      <4>1. i - 1 \in 1..Len(parsing') /\ (i - 1) + 1 = i
        BY <1>1, <2>2, <3>1
      <4>. QED
        BY <2>2, <4>1
    <3>. QED
      BY <3>1
  <2>4. CASE parsing[1].ack
    <3>. DEFINE w == <<parsing[1].chunk, parsing[1].to>>
    <3>1. w \in Chunk \X (1..MaxTerms) /\ w[1] = parsing[1].chunk /\ w[2] = parsing[1].to
      BY <2>2 DEF Entry
    <3>2. parsing[1] = [chunk |-> w[1], to |-> w[2], ack |-> TRUE]
      BY <2>2, <2>4 DEF Entry
    <3>3. w \in Waiting
      BY <2>2, <3>1, <3>2 DEF Waiting
    <3>4. ASSUME NEW i \in 1..Len(parsing'), parsing'[i] = [chunk |-> w[1], to |-> w[2], ack |-> TRUE]
          PROVE  FALSE
      <4>1. /\ i + 1 \in 1..Len(parsing) /\ parsing'[i] = parsing[i + 1] /\ i + 1 # 1
            /\ parsing[i + 1].ack /\ parsing[i + 1].chunk = parsing[1].chunk
        BY <2>2, <3>1, <3>4
      <4>. QED
        BY <2>2, <2>4, <4>1 DEF Once, ParsingOnce
    <3>5. Waiting' = Waiting \ {w}
      <4>1. \A x \in Waiting' : x \in Waiting /\ x # w
        BY <2>2, <3>4 DEF Waiting
      <4>2. ASSUME NEW x \in Waiting, x # w PROVE x \in Waiting'
        <5>1. /\ x \in Chunk \X (1..MaxTerms)
              /\ \E i \in 1..Len(parsing) : parsing[i] = [chunk |-> x[1], to |-> x[2], ack |-> TRUE]
          BY <4>2 DEF Waiting
        <5>2. parsing[1] # [chunk |-> x[1], to |-> x[2], ack |-> TRUE]
          BY <3>2, <4>2, <5>1
        <5>3. \E i \in 1..Len(parsing') : parsing'[i] = [chunk |-> x[1], to |-> x[2], ack |-> TRUE]
          BY <2>3, <5>1, <5>2
        <5>. QED
          BY <5>1, <5>3 DEF Waiting
      <4>. QED
        BY <4>1, <4>2
    <3>6. Ledger!Parsed(w) \/ Ledger!GiveUp(w)
      <4>1. Received' = Received /\ Acknowledged' = Acknowledged /\ term' = term
        BY <1>3, <1>5, <2>1
      <4>2. toAck' = toAck \cup {w[1]} \/ (w[2] # term /\ toAck' = toAck)
        BY <2>1, <2>2, <2>4, <3>1
      <4>. QED
        BY <3>5, <4>1, <4>2 DEF Ledger!Parsed, Ledger!GiveUp
    <3>. QED
      BY <3>3, <3>6 DEF Ledger!Next
  <2>5. CASE ~parsing[1].ack
    <3>1. toAck' = toAck
      BY <2>1, <2>2, <2>5
    <3>2. Waiting' = Waiting
      <4>1. ASSUME NEW w \in Chunk \X (1..MaxTerms)
            PROVE  w \in Waiting' <=> w \in Waiting
        <5>. DEFINE e == [chunk |-> w[1], to |-> w[2], ack |-> TRUE]
        <5>1. parsing[1] # e
          BY <2>5
        <5>2. (\E i \in 1..Len(parsing') : parsing'[i] = e) <=> \E i \in 1..Len(parsing) : parsing[i] = e
          <6>. HIDE DEF e
          <6>. QED
            BY <2>2, <2>3, <5>1
        <5>. QED
          BY <5>2 DEF Waiting
      <4>2. Waiting \subseteq Chunk \X (1..MaxTerms) /\ Waiting' \subseteq Chunk \X (1..MaxTerms)
        BY DEF Waiting
      <4>. QED
        BY <4>1, <4>2
    <3>. QED
      BY <1>2, <1>3, <1>5, <2>1, <3>1, <3>2 DEF Ledger!Next
  <2>. QED
    BY <2>4, <2>5
<1>12. CASE FlushAcks
  <2>1. /\ acks' = [c \in Chunk |-> IF c \in toAck THEN acks[c] + 1 ELSE acks[c]] /\ toAck' = {}
        /\ UNCHANGED <<sent, wire, parsing, term>>
    BY <1>12 DEF FlushAcks
  <2>2. Acknowledged' = Acknowledged \cup toAck
    BY <1>1, <2>1 DEF Acknowledged
  <2>3. Ledger!Acknowledge
    BY <1>3, <1>4, <2>1, <2>2 DEF Ledger!Acknowledge
  <2>. QED
    BY <2>3 DEF Ledger!Next
<1>13. CASE Mount
  <2>1. /\ parsing' = parsing \o Given(pending, term', FALSE) /\ UNCHANGED <<sent, wire, toAck, acks>>
        /\ term' \in 1..MaxTerms
    BY <1>13, CapAssumption DEF Mount, Flush, Given, TypeOK
  <2>2. /\ \A i \in 1..Len(parsing) : i \in 1..Len(parsing') /\ parsing'[i] = parsing[i]
        /\ \A i \in 1..Len(parsing') : i \in 1..Len(parsing) \/ parsing'[i].ack = FALSE
    <3>. DEFINE q == parsing'
                to == term'
                ack == FALSE
    <3>1. /\ parsing \in Seq(Entry) /\ pending \in Seq(Chunk) /\ to \in 1..MaxTerms /\ ack \in BOOLEAN
          /\ q = parsing \o Given(pending, to, ack)
      BY <1>1, <2>1
    <3>. HIDE DEF q, to, ack
    <3>2. /\ \A i \in 1..Len(parsing) : i \in 1..Len(q) /\ q[i] = parsing[i]
          /\ \A i \in 1..Len(q) :
               \/ i \in 1..Len(parsing)
               \/ i - Len(parsing) \in 1..Len(pending) /\ q[i] = Made(pending[i - Len(parsing)], to, ack)
      <4>1. ASSUME NEW a \in BOOLEAN
            PROVE  /\ \A i \in 1..Len(parsing) : /\ i \in 1..Len(parsing \o Given(pending, to, a))
                                                 /\ (parsing \o Given(pending, to, a))[i] = parsing[i]
                   /\ \A i \in 1..Len(parsing \o Given(pending, to, a)) :
                        \/ i \in 1..Len(parsing)
                        \/ /\ i - Len(parsing) \in 1..Len(pending)
                           /\ (parsing \o Given(pending, to, a))[i] = Made(pending[i - Len(parsing)], to, a)
        BY <3>1, WritesBehind, SMT
      <4>. QED
        BY <3>1, <4>1, Zenon
    <3>3. \A i \in 1..Len(q) : i \in 1..Len(parsing) \/ q[i].ack = FALSE
      <4>1. \A c : Made(c, to, ack).ack = FALSE
        BY DEF Made, ack
      <4>. QED
        BY <3>2, <4>1, Zenon
    <3>. QED
      BY <3>2, <3>3 DEF q
  <2>3. \A i \in 1..Len(parsing') : i \in 1..Len(parsing) \/ \A w : parsing'[i] # [chunk |-> w[1], to |-> w[2], ack |-> TRUE]
    BY <2>2
  <2>4. Waiting' = Waiting
    BY <2>2, <2>3 DEF Waiting
  <2>. QED
    BY <1>2, <1>3, <1>5, <2>1, <2>4 DEF Ledger!Next
<1>14. ASSUME UNCHANGED <<sent, wire, parsing, toAck, acks>>
       PROVE  Ledger!Next
  BY <1>2, <1>3, <1>4, <1>5, <1>14 DEF Ledger!Next
<1>. QED
  BY <1>7, <1>8, <1>9, <1>10, <1>11, <1>12, <1>13, <1>14
     DEF Next, vars, Unmount, ClearPrompt, ClosePane, PaneClosed

-----------------------------------------------------------------------------
(* Nothing is owed at first.                                                  *)
LEMMA Initially == Init => TypeOK /\ Once /\ Ledger!Init
<1>. SUFFICES ASSUME Init PROVE TypeOK /\ Once /\ Ledger!Init
  OBVIOUS
<1>1. TypeOK
  <2>1. 0 \in 0..MaxChunks /\ 0 \in 0..MaxTerms /\ 0 \in 0..0 /\ 0 <= Cap
    BY CapAssumption
  <2>2. acks \in [Chunk -> Nat]
    BY DEF Init
  <2>. QED
    BY <2>1, <2>2, EmptySeqs DEF Init, TypeOK, Entry
<1>2. Once
  BY DEF Init, Once, WireOnce, ParsingOnce, AcksOnce, InParsing
<1>3. Ledger!Init
  <2>1. Received = {} /\ Waiting = {} /\ Acknowledged = {}
    BY DEF Init, Received, Waiting, Acknowledged
  <2>. QED
    BY <2>1 DEF Init, Ledger!Init
<1>. QED
  BY <1>1, <1>2, <1>3

(* The buffers are well typed, and the held one never over its cap            *)
(* (ptyOutputBuffer.ts 160-172), for any numbers of chunks and terminals.     *)
THEOREM TypeCorrect == Spec => []TypeOK
<1>1. Init => TypeOK
  BY Initially
<1>2. TypeOK /\ [Next]_vars => TypeOK'
  BY TypeStep
<1>. QED
  BY <1>1, <1>2, PTL DEF Spec

(* A chunk is in one place, in every reachable state.                         *)
LEMMA OnceAlways == Spec => [](TypeOK /\ Once)
<1>1. TypeOK /\ Once /\ [Next]_vars => (TypeOK /\ Once)'
  BY TypeStep, OnceStep
<1>. QED
  BY <1>1, Initially, PTL DEF Spec

(* ptyOutputBuffer.ts 37-40: whatever comes of the pane, each chunk received  *)
(* is acknowledged once, or its acknowledgement is queued, or it waits for    *)
(* the terminal it was given to, or was given up with a terminal that is      *)
(* gone: every step is one of the ledger's.                                   *)
THEOREM AcknowledgesOnce == Spec => AcksLedger
<1>1. TypeOK /\ TypeOK' /\ Once /\ [Next]_vars => [Ledger!Next]_(Ledger!vars)
  BY LedgerStep
<1>. QED
  BY <1>1, Initially, OnceAlways, PTL DEF Spec, AcksLedger, Ledger!Spec

-----------------------------------------------------------------------------
(* What is shown is in order: the order is that of one queue, whose head is   *)
(* what the screen and the parser hold and whose tail is still on the wire.   *)

(* Chunks are held for a terminal only while there is none, and only the      *)
(* registered one has a screen and is being written to.                       *)
OneHolder ==
  /\ term = 0 => screen = <<>>
  /\ term # 0 => pending = <<>>
  /\ \A i \in 1..Len(parsing) : parsing[i].to <= made

(* What is still on the wire is in order and later than all that is held.     *)
WireIsLater ==
  /\ \A i, j \in 1..Len(wire) : i < j /\ wire[i] # Exit /\ wire[j] # Exit => wire[i] < wire[j]
  /\ \A i \in 1..Len(wire) : wire[i] <= sent
  /\ \A c \in Held : c <= sent
  /\ \A c \in Held, i \in 1..Len(wire) : wire[i] # Exit => c < wire[i]

InOrder == ShownInOrder /\ OneHolder /\ WireIsLater

(* A chunk is held when it is at a place of one of the three sequences.       *)
LEMMA HeldIn ==
  ASSUME TypeOK
  PROVE  /\ Held \subseteq Chunk /\ Chunk \subseteq Nat \ {Exit}
         /\ wire \in Seq(Chunk \cup {Exit}) /\ parsing \in Seq(Entry)
         /\ pending \in Seq(Chunk) /\ screen \in Seq(Chunk)
         /\ sent \in Nat /\ made \in Nat /\ term \in Nat /\ MaxTerms \in Nat
         /\ Len(wire) \in Nat /\ Len(parsing) \in Nat /\ Len(pending) \in Nat /\ Len(screen) \in Nat
         /\ \A i \in 1..Len(parsing) : parsing[i].chunk \in Chunk /\ parsing[i].to \in 1..MaxTerms
         /\ \A i \in 1..Len(wire) : wire[i] \in Chunk \cup {Exit}
         /\ \A i \in 1..Len(pending) : pending[i] \in Chunk
         /\ \A i \in 1..Len(screen) : screen[i] \in Chunk
<1>1. /\ wire \in Seq(Chunk \cup {Exit}) /\ parsing \in Seq(Entry)
      /\ pending \in Seq(Chunk) /\ screen \in Seq(Chunk)
  BY DEF TypeOK, Entry
<1>2. /\ sent \in Nat /\ made \in Nat /\ term \in Nat /\ MaxTerms \in Nat
      /\ Chunk \subseteq Nat \ {Exit}
  BY CapAssumption DEF TypeOK, Chunk, Exit
<1>3. \A i \in 1..Len(parsing) : parsing[i].chunk \in Chunk /\ parsing[i].to \in 1..MaxTerms
  <2>1. \A i \in 1..Len(parsing) : parsing[i] \in Entry
    BY <1>1
  <2>. QED
    BY <2>1 DEF Entry
<1>4. /\ \A i \in 1..Len(wire) : wire[i] \in Chunk \cup {Exit}
      /\ \A i \in 1..Len(pending) : pending[i] \in Chunk
      /\ \A i \in 1..Len(screen) : screen[i] \in Chunk
  BY <1>1
<1>5. Held \subseteq Chunk
  BY <1>3, <1>4 DEF Held
<1>. QED
  BY <1>1, <1>2, <1>3, <1>4, <1>5

(* A step that loses held chunks, and takes nothing from the wire but an      *)
(* exit, leaves what is held before what is coming, and loses nothing else.   *)
LEMMA OnlyLoses ==
  ASSUME TypeOK, WireIsLater, Received \ lost \subseteq Held,
         sent' = sent, \/ wire' = wire
                       \/ wire # <<>> /\ wire[1] = Exit /\ wire' = Tail(wire),
         Held' \subseteq Held, lost \subseteq lost', Held \ Held' \subseteq lost'
  PROVE  WireIsLater' /\ Received' \ lost' \subseteq Held'
<1>1. /\ \A i \in 1..Len(wire') : \E j \in 1..Len(wire) : i <= j /\ wire'[i] = wire[j]
      /\ \A i, j \in 1..Len(wire') : i < j => \E k, l \in 1..Len(wire) : k < l /\ wire'[i] = wire[k] /\ wire'[j] = wire[l]
      /\ \A i \in 1..Len(wire) : wire[i] = Exit \/ \E j \in 1..Len(wire') : wire'[j] = wire[i]
  <2>1. CASE wire' = wire
    BY <2>1, HeldIn
  <2>2. CASE wire # <<>> /\ wire[1] = Exit /\ wire' = Tail(wire)
    <3>1. /\ Len(wire) \in Nat /\ Len(wire) >= 1 /\ Len(wire') = Len(wire) - 1
          /\ \A i \in 1..Len(wire') : i + 1 \in 1..Len(wire) /\ wire'[i] = wire[i + 1]
      BY <2>2, HeldIn, Taken
    <3>2. ASSUME NEW i \in 1..Len(wire), i # 1 PROVE i - 1 \in 1..Len(wire') /\ wire'[i - 1] = wire[i]
      <4>1. i - 1 \in 1..Len(wire') /\ (i - 1) + 1 = i
        BY <3>1, <3>2
      <4>. QED
        BY <3>1, <4>1
    <3>3. \A i \in 1..Len(wire') : \E j \in 1..Len(wire) : i <= j /\ wire'[i] = wire[j]
      <4>1. ASSUME NEW i \in 1..Len(wire') PROVE i + 1 \in 1..Len(wire) /\ i <= i + 1 /\ wire'[i] = wire[i + 1]
        BY <3>1
      <4>. QED
        BY <4>1
    <3>4. ASSUME NEW i \in 1..Len(wire'), NEW j \in 1..Len(wire'), i < j
          PROVE  \E k, l \in 1..Len(wire) : k < l /\ wire'[i] = wire[k] /\ wire'[j] = wire[l]
      <4>1. i + 1 \in 1..Len(wire) /\ j + 1 \in 1..Len(wire) /\ i + 1 < j + 1 /\ wire'[i] = wire[i + 1] /\ wire'[j] = wire[j + 1]
        BY <3>1, <3>4
      <4>. QED
        BY <4>1
    <3>5. \A i \in 1..Len(wire) : wire[i] = Exit \/ \E j \in 1..Len(wire') : wire'[j] = wire[i]
      BY <2>2, <3>2
    <3>. QED
      BY <3>3, <3>4, <3>5
  <2>. QED
    BY <2>1, <2>2
<1>2. Received' = Received
  <2>1. ASSUME NEW c \in 1..sent, \A i \in 1..Len(wire) : wire[i] # c
        PROVE  \A i \in 1..Len(wire') : wire'[i] # c
    BY <1>1, <2>1
  <2>2. ASSUME NEW c \in 1..sent, \A i \in 1..Len(wire') : wire'[i] # c
        PROVE  \A i \in 1..Len(wire) : wire[i] # c
    <3>1. c # Exit
      BY DEF Exit
    <3>2. ASSUME NEW i \in 1..Len(wire), wire[i] = c PROVE FALSE
      BY <1>1, <2>2, <3>1, <3>2
    <3>. QED
      BY <3>2
  <2>3. \A c \in 1..sent : (\A i \in 1..Len(wire) : wire[i] # c) <=> (\A i \in 1..Len(wire') : wire'[i] # c)
    BY <2>1, <2>2
  <2>. QED
    BY <2>3 DEF Received
<1>3. WireIsLater'
  <2>1. ASSUME NEW i \in 1..Len(wire'), NEW j \in 1..Len(wire'), i < j, wire'[i] # Exit, wire'[j] # Exit
        PROVE  wire'[i] < wire'[j]
    <3>1. PICK k, l \in 1..Len(wire) : k < l /\ wire'[i] = wire[k] /\ wire'[j] = wire[l]
      BY <1>1, <2>1
    <3>. QED
      BY <2>1, <3>1 DEF WireIsLater
  <2>2. ASSUME NEW i \in 1..Len(wire') PROVE wire'[i] <= sent'
    BY <1>1, <2>2 DEF WireIsLater
  <2>3. ASSUME NEW c \in Held' PROVE c <= sent' /\ \A i \in 1..Len(wire') : wire'[i] # Exit => c < wire'[i]
    BY <1>1, <2>3 DEF WireIsLater
  <2>. QED
    BY <2>1, <2>2, <2>3 DEF WireIsLater
<1>. QED
  BY <1>2, <1>3

(* What the server sends goes behind all that is on the wire.                 *)
LEMMA SendOrdered ==
  ASSUME TypeOK, InOrder, Send \/ ShellExits
  PROVE  InOrder'
<1>. DEFINE e == IF Send THEN sent + 1 ELSE Exit
<1>1. /\ wire' = Append(wire, e) /\ (e = Exit \/ (e = sent + 1 /\ sent' = sent + 1))
      /\ sent' \in Nat /\ sent <= sent' /\ e <= sent'
      /\ \A c \in 1..sent' : c = e \/ c \in 1..sent
      /\ e \in Chunk \cup {Exit}
      /\ UNCHANGED <<term, made, pending, parsing, screen, lost>>
  <2>1. CASE Send
    <3>1. e = sent + 1 /\ sent' = sent + 1 /\ sent < MaxChunks /\ wire' = Append(wire, e)
      BY <2>1 DEF Send
    <3>2. sent + 1 \in Chunk
      BY <3>1, HeldIn, CapAssumption DEF Chunk
    <3>. QED
      BY <2>1, <3>1, <3>2, HeldIn DEF Send
  <2>2. CASE ~Send
    BY <2>2, HeldIn DEF ShellExits, Exit
  <2>. QED
    BY <2>1, <2>2
<1>. HIDE DEF e
<1>2. /\ Len(wire') = Len(wire) + 1 /\ wire'[Len(wire) + 1] = e
      /\ \A i \in 1..Len(wire) : wire'[i] = wire[i]
      /\ \A i \in 1..Len(wire') : i \in 1..Len(wire) \/ i = Len(wire) + 1
  BY <1>1, HeldIn, Added
<1>3. Held' = Held /\ OneHolder'
  BY <1>1 DEF InOrder, OneHolder, Held
<1>4. Received' \subseteq Received
  <2>1. ASSUME NEW c \in 1..sent', \A i \in 1..Len(wire') : wire'[i] # c
        PROVE  c \in 1..sent /\ \A i \in 1..Len(wire) : wire[i] # c
    <3>1. c # e
      BY <1>2, <2>1, HeldIn
    <3>2. \A i \in 1..Len(wire) : i \in 1..Len(wire') /\ wire'[i] = wire[i]
      BY <1>2, HeldIn
    <3>. QED
      BY <1>1, <2>1, <3>1, <3>2
  <2>. QED
    BY <2>1 DEF Received
<1>5. ShownInOrder'
  BY <1>1, <1>3, <1>4 DEF InOrder, ShownInOrder, Rising, Mine
<1>6. ASSUME NEW i \in 1..Len(wire) PROVE wire[i] \in Nat /\ wire[i] <= sent /\ wire'[i] = wire[i]
  BY <1>2, HeldIn DEF InOrder, WireIsLater, Exit
<1>7. \A i \in 1..Len(wire') : wire'[i] <= sent'
  BY <1>1, <1>2, <1>6, HeldIn
<1>8. ASSUME NEW i \in 1..Len(wire'), NEW j \in 1..Len(wire'), i < j, wire'[i] # Exit, wire'[j] # Exit
      PROVE  wire'[i] < wire'[j]
  <2>1. i \in 1..Len(wire)
    BY <1>2, <1>8, HeldIn
  <2>2. CASE j \in 1..Len(wire)
    BY <1>6, <1>8, <2>1, <2>2 DEF InOrder, WireIsLater
  <2>3. CASE j = Len(wire) + 1
    BY <1>1, <1>2, <1>6, <1>8, <2>1, <2>3, HeldIn
  <2>. QED
    BY <1>2, <2>2, <2>3
<1>9. ASSUME NEW c \in Held
      PROVE  c <= sent' /\ \A i \in 1..Len(wire') : wire'[i] # Exit => c < wire'[i]
  <2>1. c \in Nat /\ c <= sent
    BY HeldIn DEF InOrder, WireIsLater
  <2>2. ASSUME NEW i \in 1..Len(wire'), wire'[i] # Exit PROVE c < wire'[i]
    <3>1. CASE i \in 1..Len(wire)
      BY <1>6, <2>2, <3>1 DEF InOrder, WireIsLater
    <3>2. CASE i = Len(wire) + 1
      BY <1>1, <1>2, <2>1, <2>2, <3>2, HeldIn
    <3>. QED
      BY <1>2, <3>1, <3>2
  <2>. QED
    BY <1>1, <2>1, <2>2, HeldIn
<1>10. WireIsLater'
  BY <1>3, <1>7, <1>8, <1>9 DEF WireIsLater
<1>. QED
  BY <1>3, <1>5, <1>10 DEF InOrder

(* What the parser is done with is on the screen, behind what was, or lost.   *)
LEMMA ParsedOrdered ==
  ASSUME TypeOK, InOrder, Parsed
  PROVE  InOrder'
<1>1. /\ parsing # <<>> /\ parsing' = Tail(parsing)
      /\ UNCHANGED <<sent, wire, term, made, pending>>
      /\ \/ Head(parsing).to = term /\ screen' = Append(screen, Head(parsing).chunk) /\ lost' = lost
         \/ Head(parsing).to # term /\ screen' = screen /\ lost' = lost \cup {Head(parsing).chunk}
  BY DEF Parsed
<1>2. /\ 1 \in 1..Len(parsing) /\ Head(parsing) = parsing[1]
      /\ \A i \in 1..Len(parsing') : i + 1 \in 1..Len(parsing) /\ parsing'[i] = parsing[i + 1]
      /\ \A i \in 1..Len(parsing) : i = 1 \/ (i - 1 \in 1..Len(parsing') /\ parsing'[i - 1] = parsing[i])
  <2>1. /\ Len(parsing) >= 1 /\ Len(parsing') = Len(parsing) - 1 /\ Head(parsing) = parsing[1]
        /\ \A i \in 1..Len(parsing') : i + 1 \in 1..Len(parsing) /\ parsing'[i] = parsing[i + 1]
    BY <1>1, HeldIn, Taken
  <2>2. ASSUME NEW i \in 1..Len(parsing), i # 1 PROVE i - 1 \in 1..Len(parsing') /\ parsing'[i - 1] = parsing[i]
    <3>1. i - 1 \in 1..Len(parsing') /\ (i - 1) + 1 = i
      BY <2>1, <2>2, HeldIn
    <3>. QED
      BY <2>1, <3>1
  <2>3. 1 \in 1..Len(parsing)
    BY <2>1, HeldIn
  <2>4. \A i \in 1..Len(parsing) : i = 1 \/ (i - 1 \in 1..Len(parsing') /\ parsing'[i - 1] = parsing[i])
    BY <2>2
  <2>. QED
    BY <2>1, <2>3, <2>4
<1>. DEFINE p == parsing[1]
<1>3. p.chunk \in Chunk /\ p.chunk \in Held /\ p.to # 0
  BY <1>2, HeldIn DEF Held
<1>a. {parsing[i].chunk : i \in 1..Len(parsing)} = {parsing'[i].chunk : i \in 1..Len(parsing')} \cup {p.chunk}
  <2>1. \A i \in 1..Len(parsing) : parsing[i].chunk \in {parsing'[j].chunk : j \in 1..Len(parsing')} \cup {p.chunk}
    BY <1>2
  <2>2. \A j \in 1..Len(parsing') : parsing'[j].chunk \in {parsing[i].chunk : i \in 1..Len(parsing)}
    BY <1>2
  <2>3. p.chunk \in {parsing[i].chunk : i \in 1..Len(parsing)}
    BY <1>2
  <2>. QED
    BY <2>1, <2>2, <2>3
<1>4. CASE p.to = term
  <2>1. /\ screen' = Append(screen, p.chunk) /\ lost' = lost /\ pending = <<>> /\ term # 0
        /\ Len(screen') = Len(screen) + 1 /\ screen'[Len(screen) + 1] = p.chunk
        /\ \A i \in 1..Len(screen) : screen'[i] = screen[i]
        /\ \A i \in 1..Len(screen') : i \in 1..Len(screen) \/ i = Len(screen) + 1
    <3>1. /\ screen' = Append(screen, p.chunk) /\ lost' = lost /\ pending = <<>> /\ term # 0
          /\ p.chunk \in Chunk /\ screen \in Seq(Chunk)
      BY <1>1, <1>2, <1>3, <1>4, HeldIn DEF InOrder, OneHolder
    <3>. HIDE DEF p
    <3>. QED
      BY <3>1, Added
  <2>2. Held' = Held
    <3>1. \A i \in 1..Len(screen) : i \in 1..Len(screen')
      BY <2>1, HeldIn
    <3>2. Len(screen) + 1 \in 1..Len(screen')
      BY <2>1, HeldIn
    <3>3. {screen'[i] : i \in 1..Len(screen')} = {screen[i] : i \in 1..Len(screen)} \cup {p.chunk}
      BY <2>1, <3>1, <3>2
    <3>. QED
      BY <1>1, <1>a, <3>3 DEF Held
  <2>3. WireIsLater' /\ Received' \ lost' \subseteq Held'
    BY <1>1, <2>1, <2>2, OnlyLoses DEF InOrder, ShownInOrder
  <2>4. OneHolder'
    BY <1>1, <1>2, <2>1 DEF InOrder, OneHolder
  <2>5. 1 \in Mine /\ \A i \in Mine' : i + 1 \in Mine /\ 1 < i + 1 /\ parsing'[i] = parsing[i + 1]
    <3>1. 1 \in Mine
      BY <1>2, <1>4 DEF Mine
    <3>2. ASSUME NEW i \in 1..Len(parsing'), parsing'[i].to = term
          PROVE  i + 1 \in Mine /\ 1 < i + 1 /\ parsing'[i] = parsing[i + 1]
      BY <1>2, <3>2 DEF Mine
    <3>. QED
      BY <1>1, <3>1, <3>2 DEF Mine
  <2>6. Rising(screen')
    <3>1. ASSUME NEW i \in 1..Len(screen'), NEW j \in 1..Len(screen'), i < j PROVE screen'[i] < screen'[j]
      <4>1. i \in 1..Len(screen)
        BY <2>1, <3>1, HeldIn
      <4>2. CASE j \in 1..Len(screen)
        BY <2>1, <3>1, <4>1, <4>2 DEF InOrder, ShownInOrder, Rising
      <4>3. CASE j = Len(screen) + 1
        BY <2>1, <2>5, <4>1, <4>3 DEF InOrder, ShownInOrder
      <4>. QED
        BY <2>1, <4>2, <4>3
    <3>. QED
      BY <3>1 DEF Rising
  <2>7. ASSUME NEW i \in Mine' PROVE \A k \in 1..Len(screen') : screen'[k] < parsing'[i].chunk
    <3>1. i + 1 \in Mine /\ 1 \in Mine /\ 1 < i + 1 /\ parsing'[i] = parsing[i + 1]
      BY <2>5
    <3>2. \A k \in 1..Len(screen) : screen[k] < parsing[i + 1].chunk
      BY <3>1 DEF InOrder, ShownInOrder
    <3>3. p.chunk < parsing[i + 1].chunk
      BY <3>1 DEF InOrder, ShownInOrder
    <3>. QED
      BY <2>1, <3>1, <3>2, <3>3
  <2>8. ASSUME NEW i \in Mine', NEW j \in Mine', i < j PROVE parsing'[i].chunk < parsing'[j].chunk
    <3>1. i + 1 \in Mine /\ j + 1 \in Mine /\ i + 1 < j + 1 /\ parsing'[i] = parsing[i + 1] /\ parsing'[j] = parsing[j + 1]
      BY <2>5, <2>8 DEF Mine
    <3>. QED
      BY <3>1 DEF InOrder, ShownInOrder
  <2>9. pending' = <<>> /\ Len(pending') = 0 /\ Rising(pending')
    BY <1>1, <2>1 DEF Rising
  <2>10. ShownInOrder'
    BY <2>3, <2>6, <2>7, <2>8, <2>9 DEF ShownInOrder
  <2>. QED
    BY <2>3, <2>4, <2>10 DEF InOrder
<1>5. CASE p.to # term
  <2>1. screen' = screen /\ lost' = lost \cup {p.chunk}
    BY <1>1, <1>2, <1>5
  <2>2. Held' \subseteq Held /\ Held \ Held' \subseteq lost'
    <3>. QED
      BY <1>1, <1>a, <2>1 DEF Held
  <2>3. WireIsLater' /\ Received' \ lost' \subseteq Held'
    BY <1>1, <2>1, <2>2, OnlyLoses DEF InOrder, ShownInOrder
  <2>4. OneHolder'
    BY <1>1, <1>2, <2>1 DEF InOrder, OneHolder
  <2>5. \A i \in Mine' : i + 1 \in Mine /\ parsing'[i] = parsing[i + 1]
    BY <1>1, <1>2 DEF Mine
  <2>6. ASSUME NEW i \in Mine', NEW j \in Mine', i < j PROVE parsing'[i].chunk < parsing'[j].chunk
    <3>1. i + 1 \in Mine /\ j + 1 \in Mine /\ i + 1 < j + 1 /\ parsing'[i] = parsing[i + 1] /\ parsing'[j] = parsing[j + 1]
      BY <2>5, <2>6 DEF Mine
    <3>. QED
      BY <3>1 DEF InOrder, ShownInOrder
  <2>7. ShownInOrder'
    BY <1>1, <2>1, <2>3, <2>5, <2>6 DEF InOrder, ShownInOrder, Rising
  <2>. QED
    BY <2>3, <2>4, <2>7 DEF InOrder
<1>. QED
  BY <1>4, <1>5

(* A step that takes a chunk off the wire and loses held ones.                *)
LEMMA OneTaken ==
  ASSUME TypeOK, InOrder, wire # <<>>, wire[1] # Exit, wire' = Tail(wire), sent' = sent,
         Held' \subseteq Held \cup {wire[1]}, lost \subseteq lost',
         (Held \cup {wire[1]}) \ Held' \subseteq lost'
  PROVE  WireIsLater' /\ Received' \ lost' \subseteq Held'
<1>1. /\ Len(wire) >= 1 /\ Len(wire') = Len(wire) - 1
      /\ \A i \in 1..Len(wire') : i + 1 \in 1..Len(wire) /\ wire'[i] = wire[i + 1]
  BY HeldIn, Taken
<1>2. 1 \in 1..Len(wire) /\ wire[1] \in Nat /\ wire[1] <= sent /\ wire[1] \in Chunk
  BY <1>1, HeldIn DEF InOrder, WireIsLater
<1>3. ASSUME NEW i \in 1..Len(wire'), wire'[i] # Exit
      PROVE  wire[1] < wire'[i] /\ \A c \in Held : c < wire'[i]
  BY <1>1, <1>2, <1>3 DEF InOrder, WireIsLater
<1>4. \A i \in 1..Len(wire') : wire'[i] <= sent'
  BY <1>1 DEF InOrder, WireIsLater
<1>5. ASSUME NEW i \in 1..Len(wire'), NEW j \in 1..Len(wire'), i < j, wire'[i] # Exit, wire'[j] # Exit
      PROVE  wire'[i] < wire'[j]
  <2>1. i + 1 \in 1..Len(wire) /\ j + 1 \in 1..Len(wire) /\ i + 1 < j + 1 /\ wire'[i] = wire[i + 1] /\ wire'[j] = wire[j + 1]
    BY <1>1, <1>5
  <2>. QED
    BY <1>5, <2>1 DEF InOrder, WireIsLater
<1>6. \A c \in Held \cup {wire[1]} : c <= sent'
  BY <1>2 DEF InOrder, WireIsLater
<1>7. WireIsLater'
  BY <1>3, <1>4, <1>5, <1>6 DEF WireIsLater
<1>8. ASSUME NEW c \in Received' PROVE c \in Received \cup {wire[1]}
  <2>1. c \in 1..sent /\ \A i \in 1..Len(wire') : wire'[i] # c
    BY <1>8 DEF Received
  <2>2. ASSUME NEW i \in 1..Len(wire), i # 1 PROVE wire[i] # c
    <3>1. i - 1 \in 1..Len(wire') /\ (i - 1) + 1 = i
      BY <1>1, <2>2, HeldIn
    <3>. QED
      BY <1>1, <2>1, <3>1
  <2>. QED
    BY <2>1, <2>2 DEF Received
<1>9. Received' \ lost' \subseteq Held'
  BY <1>8 DEF InOrder, ShownInOrder
<1>. QED
  BY <1>7, <1>9

(* A chunk that arrives is written behind what was, or held behind what is.   *)
LEMMA OutputOrdered ==
  ASSUME TypeOK, InOrder, NEW s \in BOOLEAN, OnOutput(s)
  PROVE  InOrder'
<1>. DEFINE c == wire[1]
<1>1. /\ wire # <<>> /\ c # Exit /\ wire' = Tail(wire) /\ Head(wire) = c
      /\ UNCHANGED <<sent, term, made, screen>>
  <2>1. wire # <<>> => Head(wire) = wire[1]
    BY HeldIn, Taken
  <2>. QED
    BY <2>1 DEF OnOutput
<1>2. 1 \in 1..Len(wire) /\ c \in Chunk /\ \A d \in Held : d < c
  <2>1. Len(wire) >= 1
    BY <1>1, HeldIn, Taken
  <2>2. 1 \in 1..Len(wire)
    BY <2>1, HeldIn
  <2>. QED
    BY <1>1, <2>2, HeldIn DEF InOrder, WireIsLater
<1>3. /\ \A i \in 1..Len(parsing) : parsing[i].chunk < c
      /\ \A i \in 1..Len(screen) : screen[i] < c
      /\ \A i \in 1..Len(pending) : pending[i] < c
  BY <1>2 DEF Held
<1>4. CASE term # 0 /\ ~s
  <2>1. parsing' = parsing \o Given(<<c>>, term, TRUE) /\ UNCHANGED <<pending, lost>>
    BY <1>1, <1>4 DEF OnOutput, Write, Given
  <2>2. /\ Len(parsing') = Len(parsing) + 1
        /\ \A i \in 1..Len(parsing) : i \in 1..Len(parsing') /\ parsing'[i] = parsing[i]
        /\ \A i \in 1..Len(parsing') : i \in 1..Len(parsing) \/ i = Len(parsing) + 1
        /\ Len(parsing) + 1 \in 1..Len(parsing')
        /\ parsing'[Len(parsing) + 1].chunk = c /\ parsing'[Len(parsing) + 1].to = term
    <3>. DEFINE one == <<c>>
                ack == TRUE
    <3>1. /\ one \in Seq(Chunk) /\ Len(one) = 1 /\ one[1] = c /\ ack \in BOOLEAN
          /\ parsing' = parsing \o Given(one, term, ack)
          /\ term \in 1..MaxTerms /\ parsing \in Seq(Entry)
      BY <1>2, <1>4, <2>1, HeldIn, CapAssumption DEF TypeOK
    <3>. HIDE DEF one, ack
    <3>2. /\ Len(parsing') = Len(parsing) + Len(one)
          /\ \A i \in 1..Len(parsing) : i \in 1..Len(parsing') /\ parsing'[i] = parsing[i]
          /\ \A i \in 1..Len(parsing') :
               \/ i \in 1..Len(parsing)
               \/ i - Len(parsing) \in 1..Len(one) /\ parsing'[i] = Made(one[i - Len(parsing)], term, ack)
      <4>1. ASSUME NEW a \in BOOLEAN
            PROVE  /\ Len(parsing \o Given(one, term, a)) = Len(parsing) + Len(one)
                   /\ \A i \in 1..Len(parsing) : /\ i \in 1..Len(parsing \o Given(one, term, a))
                                                 /\ (parsing \o Given(one, term, a))[i] = parsing[i]
                   /\ \A i \in 1..Len(parsing \o Given(one, term, a)) :
                        \/ i \in 1..Len(parsing)
                        \/ /\ i - Len(parsing) \in 1..Len(one)
                           /\ (parsing \o Given(one, term, a))[i] = Made(one[i - Len(parsing)], term, a)
        <5>1. parsing \in Seq(Entry) /\ one \in Seq(Chunk) /\ term \in 1..MaxTerms
          BY <3>1
        <5>. QED
          BY <5>1, WritesBehind, SMT
      <4>. QED
        BY <3>1, <4>1, Zenon
    <3>3. /\ Len(parsing) + 1 \in 1..Len(parsing') /\ Len(parsing) + 1 \notin 1..Len(parsing)
          /\ (Len(parsing) + 1) - Len(parsing) = 1
          /\ \A i \in 1..Len(parsing') : i \in 1..Len(parsing) \/ i = Len(parsing) + 1
      BY <3>1, <3>2, HeldIn
    <3>4. parsing'[Len(parsing) + 1] = Made(c, term, ack)
      BY <3>1, <3>2, <3>3
    <3>5. parsing'[Len(parsing) + 1].chunk = c /\ parsing'[Len(parsing) + 1].to = term
      BY <3>4 DEF Made
    <3>. QED
      BY <3>1, <3>2, <3>3, <3>5
  <2>. HIDE DEF c
  <2>3. {parsing'[i].chunk : i \in 1..Len(parsing')} = {parsing[i].chunk : i \in 1..Len(parsing)} \cup {c}
    BY <2>2
  <2>4. Held' = Held \cup {c}
    BY <1>1, <2>1, <2>3 DEF Held
  <2>5. WireIsLater' /\ Received' \ lost' \subseteq Held'
    BY <1>1, <2>1, <2>4, OneTaken DEF c
  <2>6. OneHolder'
    <3>1. term <= made
      BY HeldIn DEF TypeOK
    <3>2. \A i \in 1..Len(parsing') : parsing'[i].to <= made'
      BY <1>1, <2>2, <3>1 DEF InOrder, OneHolder
    <3>. QED
      BY <1>1, <2>1, <3>2 DEF InOrder, OneHolder
  <2>7. \A i \in Mine' : (i \in Mine /\ parsing'[i] = parsing[i]) \/ i = Len(parsing) + 1
    BY <1>1, <2>2 DEF Mine
  <2>8. ASSUME NEW i \in Mine', NEW j \in Mine', i < j PROVE parsing'[i].chunk < parsing'[j].chunk
    <3>1. i \in Mine /\ parsing'[i] = parsing[i]
      <4>1. i \in 1..Len(parsing') /\ j \in 1..Len(parsing') /\ Len(parsing) \in Nat
        BY HeldIn DEF Mine
      <4>2. i # Len(parsing) + 1
        BY <2>2, <2>8, <4>1
      <4>. QED
        BY <2>7, <4>2
    <3>2. CASE j \in Mine /\ parsing'[j] = parsing[j]
      BY <2>8, <3>1, <3>2 DEF InOrder, ShownInOrder
    <3>3. CASE j = Len(parsing) + 1
      BY <1>3, <2>2, <3>1, <3>3 DEF Mine
    <3>. QED
      BY <2>7, <3>2, <3>3
  <2>9. ASSUME NEW i \in Mine', NEW k \in 1..Len(screen) PROVE screen[k] < parsing'[i].chunk
    <3>1. CASE i \in Mine /\ parsing'[i] = parsing[i]
      BY <3>1 DEF InOrder, ShownInOrder
    <3>2. CASE i = Len(parsing) + 1
      BY <1>3, <2>2, <3>2
    <3>. QED
      BY <2>7, <3>1, <3>2
  <2>10. pending' = <<>> /\ Len(pending') = 0
    BY <1>4, <2>1 DEF InOrder, OneHolder
  <2>11. ShownInOrder'
    BY <1>1, <2>5, <2>8, <2>9, <2>10 DEF InOrder, ShownInOrder, Rising
  <2>. QED
    BY <2>5, <2>6, <2>11 DEF InOrder
<1>5. CASE term # 0 /\ s
  <2>1. lost' = lost \cup {c} /\ UNCHANGED <<pending, parsing>>
    BY <1>1, <1>5 DEF OnOutput
  <2>2. Held' = Held /\ OneHolder'
    BY <1>1, <2>1 DEF InOrder, OneHolder, Held
  <2>3. WireIsLater' /\ Received' \ lost' \subseteq Held'
    BY <1>1, <2>1, <2>2, OneTaken
  <2>4. ShownInOrder'
    BY <1>1, <2>1, <2>3 DEF InOrder, ShownInOrder, Rising, Mine
  <2>. QED
    BY <2>2, <2>3, <2>4 DEF InOrder
<1>6. CASE term = 0
  <2>. DEFINE held == Append(pending, c)
  <2>1. /\ UNCHANGED parsing /\ pending' = Capped(held)
        /\ lost' = IF Len(held) > Cap THEN lost \cup {Head(held)} ELSE lost
    BY <1>1, <1>6 DEF OnOutput
  <2>2. /\ held \in Seq(Chunk) /\ held # <<>> /\ Len(held) = Len(pending) + 1 /\ held[Len(pending) + 1] = c
        /\ \A i \in 1..Len(pending) : held[i] = pending[i]
        /\ \A i \in 1..Len(held) : i \in 1..Len(pending) \/ i = Len(pending) + 1
    <3>. HIDE DEF c
    <3>1. c \in Chunk /\ pending \in Seq(Chunk)
      BY <1>2, HeldIn
    <3>2. /\ held \in Seq(Chunk) /\ Len(pending) \in Nat /\ Len(held) = Len(pending) + 1
          /\ held[Len(pending) + 1] = c
          /\ \A i \in 1..Len(pending) : held[i] = pending[i]
          /\ \A i \in 1..(Len(pending) + 1) : i \in 1..Len(pending) \/ i = Len(pending) + 1
      BY <3>1, Added
    <3>. HIDE DEF held
    <3>3. held # <<>>
      BY <3>2, EmptySeqs
    <3>. QED
      BY <3>2, <3>3
  <2>. HIDE DEF held, c
  <2>3. Rising(held)
    <3>1. ASSUME NEW i \in 1..Len(held), NEW j \in 1..Len(held), i < j PROVE held[i] < held[j]
      <4>1. i \in 1..Len(pending)
        BY <2>2, <3>1, HeldIn
      <4>2. CASE j \in 1..Len(pending)
        BY <2>2, <3>1, <4>1, <4>2 DEF InOrder, ShownInOrder, Rising
      <4>3. CASE j = Len(pending) + 1
        BY <1>3, <2>2, <4>1, <4>3
      <4>. QED
        BY <2>2, <4>2, <4>3
    <3>. QED
      BY <3>1 DEF Rising
  <2>4. {held[i] : i \in 1..Len(held)} = {pending[i] : i \in 1..Len(pending)} \cup {c}
    <3>1. \A i \in 1..Len(pending) : i \in 1..Len(held)
      BY <2>2, HeldIn
    <3>2. Len(pending) + 1 \in 1..Len(held)
      BY <2>2, HeldIn
    <3>. QED
      BY <2>2, <3>1, <3>2
  <2>5. /\ Rising(pending') /\ lost \subseteq lost'
        /\ {pending'[i] : i \in 1..Len(pending')} \subseteq {held[i] : i \in 1..Len(held)}
        /\ {held[i] : i \in 1..Len(held)} \subseteq {pending'[i] : i \in 1..Len(pending')} \cup lost'
    <3>1. CASE Len(held) > Cap
      <4>1. pending' = Tail(held) /\ lost' = lost \cup {held[1]}
        BY <2>1, <2>2, <3>1, Taken DEF Capped
      <4>2. /\ Len(held) >= 1 /\ Len(pending') = Len(held) - 1
            /\ \A i \in 1..Len(pending') : i + 1 \in 1..Len(held) /\ pending'[i] = held[i + 1]
        BY <2>2, <4>1, Taken
      <4>3. ASSUME NEW i \in 1..Len(held), i # 1 PROVE i - 1 \in 1..Len(pending') /\ pending'[i - 1] = held[i]
        <5>1. i - 1 \in 1..Len(pending') /\ (i - 1) + 1 = i
          BY <2>2, <4>2, <4>3, HeldIn
        <5>. QED
          BY <4>2, <5>1
      <4>4. ASSUME NEW i \in 1..Len(pending'), NEW j \in 1..Len(pending'), i < j PROVE pending'[i] < pending'[j]
        <5>1. i + 1 \in 1..Len(held) /\ j + 1 \in 1..Len(held) /\ i + 1 < j + 1 /\ pending'[i] = held[i + 1] /\ pending'[j] = held[j + 1]
          BY <4>2, <4>4
        <5>. QED
          BY <2>3, <5>1 DEF Rising
      <4>5. Rising(pending')
        BY <4>4 DEF Rising
      <4>6. {held[i] : i \in 1..Len(held)} \subseteq {pending'[i] : i \in 1..Len(pending')} \cup lost'
        BY <4>1, <4>3
      <4>7. {pending'[i] : i \in 1..Len(pending')} \subseteq {held[i] : i \in 1..Len(held)}
        BY <4>2
      <4>. QED
        BY <4>1, <4>5, <4>6, <4>7
    <3>2. CASE ~(Len(held) > Cap)
      <4>1. pending' = held /\ lost' = lost
        BY <2>1, <3>2 DEF Capped
      <4>. QED
        BY <2>3, <4>1
    <3>. QED
      BY <3>1, <3>2
  <2>6. Held' \subseteq Held \cup {c} /\ (Held \cup {c}) \ Held' \subseteq lost'
    BY <1>1, <2>1, <2>4, <2>5 DEF Held
  <2>7. WireIsLater' /\ Received' \ lost' \subseteq Held'
    BY <1>1, <2>5, <2>6, OneTaken DEF c
  <2>8. OneHolder'
    BY <1>1, <1>6, <2>1 DEF InOrder, OneHolder
  <2>9. Mine' = {} /\ screen' = <<>> /\ Len(screen') = 0
    BY <1>1, <1>6, <2>1, HeldIn DEF Mine, InOrder, OneHolder
  <2>10. ShownInOrder'
    BY <2>5, <2>7, <2>9 DEF ShownInOrder, Rising
  <2>. QED
    BY <2>7, <2>8, <2>10 DEF InOrder
<1>. QED
  BY <1>4, <1>5, <1>6

(* A terminal that is mounted is given what was held for it.                  *)
LEMMA MountOrdered ==
  ASSUME TypeOK, InOrder, Mount
  PROVE  InOrder'
<1>1. /\ term' \in 1..MaxTerms /\ pending' = <<>> /\ Len(pending') = 0
      /\ \/ term # 0 /\ term' = term /\ made' = made
         \/ term = 0 /\ made' = made + 1 /\ term' = made + 1
      /\ parsing' = parsing \o Given(pending, term', FALSE)
      /\ UNCHANGED <<sent, wire, screen, lost>>
  BY HeldIn DEF Mount, Flush, Given, TypeOK
<1>2. /\ Len(parsing') = Len(parsing) + Len(pending)
      /\ \A i \in 1..Len(parsing) : i \in 1..Len(parsing') /\ parsing'[i] = parsing[i]
      /\ \A i \in 1..Len(parsing') :
           \/ i \in 1..Len(parsing)
           \/ /\ i - Len(parsing) \in 1..Len(pending) /\ parsing'[i].chunk = pending[i - Len(parsing)]
              /\ parsing'[i].to = term'
  <2>. DEFINE q == parsing'
              to == term'
              ack == FALSE
  <2>1. /\ parsing \in Seq(Entry) /\ pending \in Seq(Chunk) /\ to \in 1..MaxTerms /\ ack \in BOOLEAN
        /\ q = parsing \o Given(pending, to, ack)
    BY <1>1, HeldIn
  <2>. HIDE DEF q, to, ack
  <2>2. /\ Len(q) = Len(parsing) + Len(pending)
        /\ \A i \in 1..Len(parsing) : i \in 1..Len(q) /\ q[i] = parsing[i]
        /\ \A i \in 1..Len(q) :
             \/ i \in 1..Len(parsing)
             \/ i - Len(parsing) \in 1..Len(pending) /\ q[i] = Made(pending[i - Len(parsing)], to, ack)
    <3>1. ASSUME NEW a \in BOOLEAN
          PROVE  /\ Len(parsing \o Given(pending, to, a)) = Len(parsing) + Len(pending)
                 /\ \A i \in 1..Len(parsing) : /\ i \in 1..Len(parsing \o Given(pending, to, a))
                                               /\ (parsing \o Given(pending, to, a))[i] = parsing[i]
                 /\ \A i \in 1..Len(parsing \o Given(pending, to, a)) :
                      \/ i \in 1..Len(parsing)
                      \/ /\ i - Len(parsing) \in 1..Len(pending)
                         /\ (parsing \o Given(pending, to, a))[i] = Made(pending[i - Len(parsing)], to, a)
      BY <2>1, WritesBehind, SMT
    <3>. QED
      BY <2>1, <3>1, Zenon
  <2>3. \A d : Made(d, to, ack).chunk = d /\ Made(d, to, ack).to = to
    BY DEF Made
  <2>4. \A i \in 1..Len(q) :
          \/ i \in 1..Len(parsing)
          \/ /\ i - Len(parsing) \in 1..Len(pending) /\ q[i].chunk = pending[i - Len(parsing)]
             /\ q[i].to = to
    BY <2>2, <2>3
  <2>. QED
    BY <2>2, <2>4 DEF q, to
<1>3. ASSUME NEW k \in 1..Len(pending)
      PROVE  Len(parsing) + k \in 1..Len(parsing') /\ parsing'[Len(parsing) + k].chunk = pending[k]
  <2>1. /\ Len(parsing) + k \in 1..Len(parsing') /\ Len(parsing) + k \notin 1..Len(parsing)
        /\ (Len(parsing) + k) - Len(parsing) = k
    BY <1>2, HeldIn
  <2>. QED
    BY <1>2, <2>1
<1>4. Held' = Held
  <2>1. {parsing'[i].chunk : i \in 1..Len(parsing')}
          = {parsing[i].chunk : i \in 1..Len(parsing)} \cup {pending[k] : k \in 1..Len(pending)}
    <3>1. \A i \in 1..Len(parsing') :
            parsing'[i].chunk \in {parsing[j].chunk : j \in 1..Len(parsing)} \cup {pending[k] : k \in 1..Len(pending)}
      BY <1>2
    <3>2. \A j \in 1..Len(parsing) : parsing[j].chunk \in {parsing'[i].chunk : i \in 1..Len(parsing')}
      BY <1>2
    <3>3. \A k \in 1..Len(pending) : pending[k] \in {parsing'[i].chunk : i \in 1..Len(parsing')}
      BY <1>3
    <3>. QED
      BY <3>1, <3>2, <3>3
  <2>2. {pending'[i] : i \in 1..Len(pending')} = {}
    BY <1>1
  <2>. QED
    BY <1>1, <2>1, <2>2 DEF Held
<1>5. WireIsLater' /\ Received' \ lost' \subseteq Held'
  BY <1>1, <1>4, OnlyLoses DEF InOrder, ShownInOrder
<1>6. OneHolder'
  <2>1. term' <= made' /\ made <= made' /\ made' \in Nat
    BY <1>1, HeldIn DEF TypeOK
  <2>2. ASSUME NEW i \in 1..Len(parsing) PROVE parsing[i].to <= made'
    <3>1. parsing[i].to \in Nat
      BY HeldIn
    <3>2. parsing[i].to <= made
      BY DEF InOrder, OneHolder
    <3>. QED
      BY <2>1, <3>1, <3>2, HeldIn
  <2>3. \A i \in 1..Len(parsing') : parsing'[i].to <= made'
    BY <1>2, <2>1, <2>2
  <2>. QED
    BY <1>1, <2>3 DEF InOrder, OneHolder
<1>7. CASE term # 0
  <2>1. Len(pending) = 0 /\ term' = term
    BY <1>1, <1>7 DEF InOrder, OneHolder
  <2>2. \A i \in 1..Len(parsing') : i \in 1..Len(parsing) /\ parsing'[i] = parsing[i]
    BY <1>2, <2>1
  <2>3. \A i \in Mine' : i \in Mine /\ parsing'[i] = parsing[i]
    BY <2>1, <2>2 DEF Mine
  <2>4. ASSUME NEW i \in Mine', NEW j \in Mine', i < j PROVE parsing'[i].chunk < parsing'[j].chunk
    BY <2>3, <2>4 DEF InOrder, ShownInOrder
  <2>5. ASSUME NEW i \in Mine', NEW k \in 1..Len(screen) PROVE screen[k] < parsing'[i].chunk
    BY <2>3 DEF InOrder, ShownInOrder
  <2>6. Rising(screen) /\ Rising(pending')
    BY <1>1 DEF InOrder, ShownInOrder, Rising
  <2>7. Rising(screen') /\ screen' = screen /\ Len(pending') = 0
    BY <1>1, <2>6
  <2>8. ShownInOrder'
    BY <1>5, <2>4, <2>5, <2>6, <2>7 DEF ShownInOrder
  <2>. QED
    BY <1>5, <1>6, <2>8 DEF InOrder
<1>8. CASE term = 0
  <2>1. ASSUME NEW i \in Mine'
        PROVE  i \in Nat /\ i - Len(parsing) \in 1..Len(pending) /\ parsing'[i].chunk = pending[i - Len(parsing)]
    <3>1. i \notin 1..Len(parsing)
      <4>1. ASSUME i \in 1..Len(parsing) PROVE FALSE
        <5>1. parsing[i].to = made + 1 /\ parsing[i].to <= made
          BY <1>1, <1>2, <1>8, <2>1, <4>1 DEF Mine, InOrder, OneHolder
        <5>. QED
          BY <5>1, HeldIn
      <4>. QED
        BY <4>1
    <3>2. i \in 1..Len(parsing') /\ Len(parsing') \in Nat
      BY <1>2, <2>1, HeldIn DEF Mine
    <3>. QED
      BY <1>2, <3>1, <3>2
  <2>2. ASSUME NEW i \in Mine', NEW j \in Mine', i < j PROVE parsing'[i].chunk < parsing'[j].chunk
    <3>1. i - Len(parsing) < j - Len(parsing)
      BY <2>1, <2>2, HeldIn
    <3>. QED
      BY <2>1, <3>1 DEF InOrder, ShownInOrder, Rising
  <2>3. Len(screen') = 0
    BY <1>1, <1>8 DEF InOrder, OneHolder
  <2>4. Rising(screen') /\ Rising(pending')
    BY <1>1, <2>3 DEF Rising
  <2>5. Len(pending') = 0
    BY <1>1
  <2>6. ShownInOrder'
    BY <1>5, <2>2, <2>3, <2>4, <2>5 DEF ShownInOrder
  <2>. QED
    BY <1>5, <1>6, <2>6 DEF InOrder
<1>. QED
  BY <1>7, <1>8

(* A terminal that is disposed of takes its screen, and what was held, along. *)
LEMMA DisposeOrdered ==
  ASSUME TypeOK, InOrder, UNCHANGED <<sent, made, parsing>>,
         \/ wire' = wire
         \/ wire # <<>> /\ wire[1] = Exit /\ wire' = Tail(wire),
         Dispose \/ UNCHANGED <<lost, pending, screen, term>>
  PROVE  InOrder'
<1>1. CASE Dispose
  <2>1. /\ lost' = lost \cup Range(pending) \cup Range(screen) /\ term' = 0
        /\ pending' = <<>> /\ screen' = <<>> /\ Len(pending') = 0 /\ Len(screen') = 0
    BY <1>1 DEF Dispose
  <2>2. /\ Range(pending) = {pending[i] : i \in 1..Len(pending)}
        /\ Range(screen) = {screen[i] : i \in 1..Len(screen)}
    BY HeldIn, RangeIn
  <2>3. Held' \subseteq Held /\ Held \ Held' \subseteq lost' /\ lost \subseteq lost'
    <3>1. Held' = {parsing[i].chunk : i \in 1..Len(parsing)}
      BY <2>1 DEF Held
    <3>. QED
      BY <2>1, <2>2, <3>1 DEF Held
  <2>4. WireIsLater' /\ Received' \ lost' \subseteq Held'
    BY <2>3, OnlyLoses DEF InOrder, ShownInOrder
  <2>5. Mine' = {}
    BY <2>1, HeldIn DEF Mine
  <2>. QED
    BY <2>1, <2>4, <2>5 DEF InOrder, ShownInOrder, OneHolder, Rising
<1>2. CASE UNCHANGED <<lost, pending, screen, term>>
  <2>1. Held' = Held
    BY <1>2 DEF Held
  <2>2. WireIsLater' /\ Received' \ lost' \subseteq Held'
    BY <1>2, <2>1, OnlyLoses DEF InOrder, ShownInOrder
  <2>. QED
    BY <1>2, <2>2 DEF InOrder, ShownInOrder, OneHolder, Rising, Mine
<1>. QED
  BY <1>1, <1>2

(* Clearing a new terminal's double prompt loses what it shows.               *)
LEMMA ClearOrdered ==
  ASSUME TypeOK, InOrder, ClearPrompt
  PROVE  InOrder'
<1>1. /\ UNCHANGED <<sent, wire, term, made, pending, parsing>>
      /\ \/ lost' = lost \cup Range(screen) /\ screen' = <<>> /\ Len(screen') = 0
         \/ UNCHANGED <<lost, screen>>
  BY DEF ClearPrompt
<1>2. Range(screen) = {screen[i] : i \in 1..Len(screen)}
  BY HeldIn, RangeIn
<1>3. Held' \subseteq Held /\ Held \ Held' \subseteq lost' /\ lost \subseteq lost'
  BY <1>1, <1>2 DEF Held
<1>4. WireIsLater' /\ Received' \ lost' \subseteq Held'
  BY <1>1, <1>3, OnlyLoses DEF InOrder, ShownInOrder
<1>5. Mine' = Mine
  BY <1>1 DEF Mine
<1>. QED
  BY <1>1, <1>4, <1>5 DEF InOrder, ShownInOrder, OneHolder, Rising

(* ptyOutputBuffer.ts 136-213: for any numbers of chunks and terminals, what  *)
(* a terminal shows is what was received, in order, once and with no gap but  *)
(* for what is known to be lost.                                              *)
THEOREM ShowsInOrder == Spec => []ShownInOrder
<1>1. Init => InOrder
  <2>. SUFFICES ASSUME Init PROVE InOrder
    OBVIOUS
  <2>1. /\ Len(screen) = 0 /\ Len(pending) = 0 /\ Len(parsing) = 0 /\ Len(wire) = 0 /\ sent = 0
        /\ screen = <<>> /\ pending = <<>>
    BY DEF Init
  <2>2. Held = {} /\ Received = {} /\ Mine = {}
    BY <2>1 DEF Held, Received, Mine
  <2>. QED
    BY <2>1, <2>2 DEF InOrder, ShownInOrder, OneHolder, WireIsLater, Rising
<1>2. TypeOK /\ InOrder /\ [Next]_vars => InOrder'
  <2>. SUFFICES ASSUME TypeOK, InOrder, [Next]_vars PROVE InOrder'
    OBVIOUS
  <2>1. CASE FlushAcks \/ Unmount \/ ClosePane \/ UNCHANGED vars
    <3>1. UNCHANGED <<sent, wire, term, made, pending, parsing, screen, lost>>
      BY <2>1 DEF FlushAcks, Unmount, ClosePane, vars
    <3>. QED
      BY <3>1, DisposeOrdered
  <2>2. CASE OnExit
    <3>1. wire # <<>> /\ wire[1] = Exit /\ wire' = Tail(wire)
      BY <2>2, HeldIn, Taken DEF OnExit
    <3>. QED
      BY <2>2, <3>1, DisposeOrdered DEF OnExit
  <2>3. ASSUME NEW ok \in BOOLEAN, PaneClosed(ok) PROVE InOrder'
    BY <2>3, DisposeOrdered DEF PaneClosed
  <2>. QED
    BY <2>1, <2>2, <2>3, SendOrdered, OutputOrdered, ParsedOrdered, MountOrdered, ClearOrdered DEF Next
<1>3. InOrder => ShownInOrder
  BY DEF InOrder
<1>. QED
  BY <1>1, <1>2, <1>3, TypeCorrect, PTL DEF Spec
=============================================================================
