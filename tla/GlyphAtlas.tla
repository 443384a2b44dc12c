----------------------------- MODULE GlyphAtlas -----------------------------
(***************************************************************************)
(* The glyph textures the terminals share, and the workaround for merged   *)
(* pages (src/lib/webglAtlasFix.ts).  A page is its content, which every   *)
(* glyph drawn into it changes, and its version, a counter of its own; a   *)
(* terminal uploads a page when the version at its place is not the one it *)
(* uploaded there last.  Pages, versions and uploads are the renderer      *)
(* library's, as the comments of the workaround describe them.             *)
(***************************************************************************)
EXTENDS Integers, Sequences, SequencesExt

CONSTANTS Terms,      \* terminals that share the atlas
          MaxPages,   \* the page limit at which pages are merged
          MaxGlyphs   \* bound: glyphs drawn

VARIABLES
  pages,   \* the atlas: [content, version] of each page
  slots,   \* what each terminal has uploaded at each place
  glyphs,  \* glyphs drawn so far
  shown    \* the last frame of each terminal: what it sampled, what was there

vars == <<pages, slots, glyphs, shown>>

Stale == -1
Empty == [content |-> 0, version |-> 0]
Places == 1..MaxPages

TypeOK ==
  /\ Len(pages) \in Places
  /\ slots \in [Terms -> [Places -> [content : Nat, version : Nat \cup {Stale}]]]
  /\ glyphs \in 0..MaxGlyphs
  /\ shown \in [Terms -> [sampled : Seq(Nat), there : Seq(Nat)]]

Init ==
  /\ pages = <<Empty>>
  /\ slots = [t \in Terms |-> [i \in Places |-> [content |-> 0, version |-> Stale]]]
  /\ glyphs = 0
  /\ shown = [t \in Terms |-> [sampled |-> <<>>, there |-> <<>>]]

(* A glyph is drawn into the last page, or into a new one when that is full;  *)
(* at the limit the first pages become one, always of version 1.              *)
Drawn(p, g) == [content |-> g, version |-> p.version + 1]

WithGlyph(ps, g) == Append(Front(ps), Drawn(Last(ps), g))
WithPage(ps, g) == Append(ps, Drawn(Empty, g))
Merged(ps, g) == Append(Tail(Tail(ps)), [content |-> g, version |-> 1])

InvalidatedNone(ss) == ss

(* invalidateAtlasTextures: the next frame uploads every page again.          *)
Invalidated(ss) == [i \in Places |-> [ss[i] EXCEPT !.version = Stale]]

(* What drawing a frame leaves uploaded.                                      *)
Uploaded(ss, ps) ==
  [i \in Places |-> IF i \in DOMAIN ps /\ ss[i].version # ps[i].version THEN ps[i] ELSE ss[i]]

(* A frame drawn by renderRows from what was uploaded last.                   *)
Frame(t, ps, ss) ==
  LET up == Uploaded(ss[t], ps) IN
    /\ pages' = ps
    /\ slots' = [ss EXCEPT ![t] = up]
    /\ shown' = [shown EXCEPT ![t] = [sampled |-> [i \in DOMAIN ps |-> up[i].content],
                                     there |-> [i \in DOMAIN ps |-> ps[i].content]]]

Redraw(t) == Frame(t, pages, slots) /\ UNCHANGED glyphs

DrawGlyph(t) ==
  /\ glyphs < MaxGlyphs /\ glyphs' = glyphs + 1
  /\ \/ Frame(t, WithGlyph(pages, glyphs'), slots)
     \/ Len(pages) < MaxPages /\ Frame(t, WithPage(pages, glyphs'), slots)

(* A pass that merges: every terminal's uploads are invalidated as the page   *)
(* goes, and the pass is drawn again in the same task.                        *)
MergePages(t) ==
  /\ glyphs < MaxGlyphs /\ glyphs' = glyphs + 1
  /\ Len(pages) = MaxPages
  /\ Frame(t, Merged(pages, glyphs'), [u \in Terms |-> Invalidated(slots[u])])

(* refreshTerminal and refreshAllTerminals.                                   *)
Refresh(T) ==
  /\ slots' = [t \in Terms |-> IF t \in T THEN Invalidated(slots[t]) ELSE slots[t]]
  /\ UNCHANGED <<pages, glyphs, shown>>

(* recoverTerminal: the atlas is cleared, its pages kept, and the addon made  *)
(* anew, which has uploaded nothing.                                          *)
Recover(t) ==
  /\ glyphs < MaxGlyphs /\ glyphs' = glyphs + 1
  /\ pages' = [i \in DOMAIN pages |-> Drawn(pages[i], glyphs')]
  /\ slots' = [slots EXCEPT ![t] = Invalidated(@)]
  /\ UNCHANGED shown

Next ==
  \/ \E t \in Terms : Redraw(t) \/ DrawGlyph(t) \/ MergePages(t) \/ Recover(t)
  \/ \E T \in SUBSET Terms : Refresh(T)

Spec == Init /\ [][Next]_vars

-----------------------------------------------------------------------------
(* webglAtlasFix.ts 7-26: however often pages merge, and whichever terminal   *)
(* the merge happens in, a terminal that draws a frame samples at each place  *)
(* the page that is there: never one uploaded before a merge.                 *)
FreshTextures == \A t \in Terms : shown[t].sampled = shown[t].there
=============================================================================
