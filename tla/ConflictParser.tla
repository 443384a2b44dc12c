--------------------------- MODULE ConflictParser ---------------------------
(***************************************************************************)
(* parseConflicts (src/lib/conflictParser.ts): the lines of a file with    *)
(* conflict markers become blocks of text and of conflicts. A line is a    *)
(* marker or one of a few texts.                                           *)
(***************************************************************************)
EXTENDS Naturals, Sequences, FiniteSets, SequencesExt

CONSTANTS Text,         \* texts of lines
          MaxSegments   \* bound: pieces a file is made of

Marker == {"<<<", "===", ">>>"}

VARIABLES
  segments,  \* what Git wrote: runs of text, and conflicts with both sides
  cut,       \* lines of it that are there; a file may end anywhere
  line,      \* lines parsed
  mode,      \* "text" | "current" | "incoming": inConflict, inCurrent
  textBuf, currentLines, incomingLines,
  parsed     \* blocks

vars == <<segments, cut, line, mode, textBuf, currentLines, incomingLines, parsed>>

Side == {<<>>} \cup {<<x>> : x \in Text}
Segment == [kind : {"text"}, lines : {<<x>> : x \in Text}] \cup [kind : {"conflict"}, current : Side, incoming : Side]

LinesOf(s) ==
  IF s.kind = "text" THEN s.lines
  ELSE <<"<<<">> \o s.current \o <<"===">> \o s.incoming \o <<">>>">>

Source == FlattenSeq([i \in DOMAIN segments |-> LinesOf(segments[i])])

TypeOK ==
  /\ mode \in {"text", "current", "incoming"} /\ line \in 0..Len(Source) /\ cut \in 0..Len(Source)
  /\ \A b \in {textBuf, currentLines, incomingLines} : b \in Seq(Text \cup Marker)
  /\ \A i \in DOMAIN parsed : parsed[i].kind \in {"text", "conflict"}

Init ==
  /\ segments \in BoundedSeq(Segment, MaxSegments) /\ cut \in 0..Len(Source)
  /\ line = 0 /\ mode = "text" /\ textBuf = <<>> /\ currentLines = <<>> /\ incomingLines = <<>> /\ parsed = <<>>

-----------------------------------------------------------------------------
Flushed == IF textBuf = <<>> THEN parsed ELSE Append(parsed, [kind |-> "text", lines |-> textBuf])

Opens(l) ==
  /\ mode = "text" /\ l = "<<<"
  /\ mode' = "current" /\ parsed' = Flushed
  /\ textBuf' = <<>> /\ currentLines' = <<>> /\ incomingLines' = <<>>

Divides(l) ==
  /\ mode = "current" /\ l = "==="
  /\ mode' = "incoming" /\ UNCHANGED <<textBuf, currentLines, incomingLines, parsed>>

Block == [kind |-> "conflict", current |-> currentLines, incoming |-> incomingLines]

Closes(l) ==
  /\ mode = "incoming" /\ l = ">>>"
  /\ mode' = "text" /\ parsed' = Append(parsed, Block)
  /\ UNCHANGED <<textBuf, currentLines, incomingLines>>

IsMarker(l) ==
  <<mode, l>> \in {<<"text", "<<<">>, <<"current", "===">>, <<"incoming", ">>>">>}

IntoTheOther == IF mode = "current" THEN "incoming" ELSE IF mode = "incoming" THEN "current" ELSE "text"
Into == mode

Keeps(l) ==
  /\ ~IsMarker(l)
  /\ textBuf' = IF Into = "text" THEN Append(textBuf, l) ELSE textBuf
  /\ currentLines' = IF Into = "current" THEN Append(currentLines, l) ELSE currentLines
  /\ incomingLines' = IF Into = "incoming" THEN Append(incomingLines, l) ELSE incomingLines
  /\ UNCHANGED <<mode, parsed>>

Parse ==
  /\ line < cut /\ line' = line + 1
  /\ LET l == Source[line + 1] IN Opens(l) \/ Divides(l) \/ Closes(l) \/ Keeps(l)
  /\ UNCHANGED <<segments, cut>>

Next == Parse

Spec == Init /\ [][Next]_vars

-----------------------------------------------------------------------------
(* What a conflict the file ends in becomes.                                  *)
Leftover ==
  IF mode = "text" THEN textBuf
  ELSE textBuf \o <<"<<<">> \o currentLines \o <<"===">> \o incomingLines

Result == parsed \o (IF Leftover = <<>> THEN <<>> ELSE <<[kind |-> "text", lines |-> Leftover]>>)

Chosen(bs, side) ==
  FlattenSeq([i \in DOMAIN bs |-> IF bs[i].kind = "text" THEN bs[i].lines ELSE bs[i][side]])

(* How often line x is among the lines s.                                     *)
Occurs(x, s) == Cardinality({i \in DOMAIN s : s[i] = x})

(* Taking one side of every conflict of a whole file gives that side's file,  *)
(* and of a file that breaks off no text is lost.                             *)
SidesAreKept ==
  line = cut =>
    /\ cut = Len(Source) => \A side \in {"current", "incoming"} : Chosen(Result, side) = Chosen(segments, side)
    /\ \A x \in Text : Occurs(x, Chosen(Result, "current") \o Chosen(Result, "incoming"))
                       >= Occurs(x, SubSeq(Source, 1, cut))
=============================================================================
