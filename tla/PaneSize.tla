------------------------------ MODULE PaneSize ------------------------------
(***************************************************************************)
(* The size of one pane: what fits its container, its terminal, and the    *)
(* PTY on the server (TerminalPane/useTerminalSetup.ts,                    *)
(* lib/terminalRegistry.ts, lib/ptyOutputBuffer.ts, ipc/server.rs).        *)
(* A size is a number; 0 is a container that is hidden or not laid out.    *)
(***************************************************************************)
EXTENDS Naturals, Sequences

CONSTANTS MaxSize,   \* bound: sizes
          MaxLayouts \* bound: layouts, font changes and mounts

VARIABLES
  room,      \* the size that fits the container
  mounted, made,
  observed,  \* the ResizeObserver's debounce timer runs
  fitting,   \* tryFit waits for a frame
  orphan,    \* the last size of a tryFit whose pane was unmounted (MaxSize+1: none)
  term,      \* the terminal's size
  last,      \* lastRows, lastCols
  calls,     \* resize_pty calls on their way
  pty,       \* the PTY's size
  events,    \* pty-resized broadcasts on their way
  layouts,
  astray,    \* history: a resize_pty failed, a fit could propose no size, a tryFit ran
             \* after its unmount, or a remount found a size still on its way
  untold     \* history: no size was sent yet, or none since a font was applied

vars == <<room, mounted, made, observed, fitting, orphan, term, last, calls, pty,
          events, layouts, astray, untold>>

Size == 1..MaxSize
NoOrphan == MaxSize + 1

TypeOK ==
  /\ room \in 0..MaxSize /\ term \in Size /\ last \in 0..MaxSize /\ pty \in Size
  /\ mounted \in BOOLEAN /\ made \in BOOLEAN /\ observed \in BOOLEAN /\ fitting \in BOOLEAN
  /\ orphan \in 0..NoOrphan
  /\ calls \in Seq(Size) /\ events \in Seq(Size)

(* The PTY was made with a size of its own; the terminal begins with one too. *)
Init ==
  /\ room = 0 /\ mounted = FALSE /\ made = FALSE
  /\ observed = FALSE /\ fitting = FALSE /\ orphan = NoOrphan
  /\ term = 1 /\ last = 0 /\ calls = <<>> /\ pty = 2 /\ events = <<>>
  /\ layouts = 0 /\ astray = FALSE /\ untold = TRUE

Budget == layouts < MaxLayouts /\ layouts' = layouts + 1

-----------------------------------------------------------------------------
SyncByTerm(old) ==
  /\ term' = room
  /\ IF room = term THEN UNCHANGED <<calls, untold>>
                    ELSE calls' = Append(calls, room) /\ untold' = FALSE

(* syncSize: fit, and tell the server when the size is not the last one told. *)
Sync(old) ==
  /\ term' = room
  /\ IF room = old THEN UNCHANGED <<calls, untold>>
                   ELSE calls' = Append(calls, room) /\ untold' = FALSE

(* fit changes nothing when the addon can propose no size.  The terminal's    *)
(* own is told then, or nothing is when its rows or columns are no numbers.   *)
Unmeasured(old, told) ==
  /\ term' = term /\ astray' = TRUE
  /\ \/ told = old /\ UNCHANGED <<calls, untold>>
     \/ told = term /\ told # old /\ calls' = Append(calls, term) /\ untold' = FALSE

(* The effect.  A new terminal has told nobody its size; one that comes back  *)
(* takes its own for the one told.  tryFit waits while there is no room.      *)
ToldAtMount == IF made THEN term ELSE 0
Remounted == astray \/ (made /\ (calls # <<>> \/ events # <<>>))

Mount ==
  /\ ~mounted /\ mounted' = TRUE /\ made' = TRUE /\ Budget
  /\ IF room > 0
       THEN /\ fitting' = FALSE
            /\ \/ Sync(ToldAtMount) /\ last' = room /\ astray' = Remounted
               \/ \E told \in 0..MaxSize : Unmeasured(ToldAtMount, told) /\ last' = told
       ELSE /\ last' = ToldAtMount /\ fitting' = TRUE /\ astray' = Remounted
            /\ UNCHANGED <<term, calls, untold>>
  /\ observed' = TRUE
  /\ UNCHANGED <<room, orphan, pty, events>>

(* Its cleanup stops the observer and not a waiting tryFit.                   *)
Unmount ==
  /\ mounted /\ mounted' = FALSE
  /\ observed' = FALSE /\ fitting' = FALSE
  /\ orphan' = IF fitting THEN last ELSE orphan
  /\ UNCHANGED <<room, made, term, last, calls, pty, events, layouts, astray, untold>>

FitNow ==
  \/ room > 0 /\ Sync(last) /\ last' = room /\ UNCHANGED astray
  \/ room > 0 /\ \E told \in 0..MaxSize : Unmeasured(last, told) /\ last' = told
  \/ room = 0 /\ UNCHANGED <<term, calls, untold, last, astray>>

(* A frame: the container has room now, or the thirty attempts are over.      *)
TryFit ==
  /\ fitting /\ fitting' = FALSE
  /\ FitNow
  /\ UNCHANGED <<room, mounted, made, observed, orphan, pty, events, layouts>>

OrphanFits ==
  /\ orphan # NoOrphan /\ orphan' = NoOrphan
  /\ \/ mounted /\ room > 0 /\ Sync(orphan) /\ astray' = TRUE
     \/ mounted /\ room > 0 /\ \E told \in 0..MaxSize : Unmeasured(orphan, told)
     \/ UNCHANGED <<term, calls, untold, astray>>
  /\ UNCHANGED <<room, mounted, made, observed, fitting, last, pty, events, layouts>>

(* The window, a splitter, a side panel or a tab switch.                      *)
Layout(r) ==
  /\ r # room /\ Budget
  /\ room' = r
  /\ observed' = mounted
  /\ UNCHANGED <<mounted, made, fitting, orphan, term, last, calls, pty, events, astray, untold>>

Observe ==
  /\ observed /\ observed' = FALSE
  /\ FitNow
  /\ UNCHANGED <<room, mounted, made, fitting, orphan, pty, events, layouts>>

(* applyFontSizeToAll, applySettingsToAll: every terminal is fitted at once.  *)
(* A font size scales the panes' title bars, so the container changes too;    *)
(* a terminal that can propose no size keeps the one it has.                  *)
ApplyFont(r, scales) ==
  /\ made /\ mounted /\ room > 0 /\ r > 0 /\ Budget
  /\ room' = r /\ term' \in {r, term}
  /\ untold' = TRUE
  /\ observed' = (observed \/ scales)
  /\ UNCHANGED <<mounted, made, fitting, orphan, last, calls, pty, events, astray>>

-----------------------------------------------------------------------------
(* handle resize_pty; a PTY that has the size already is left alone.          *)
ServeResize ==
  /\ calls # <<>> /\ calls' = Tail(calls)
  /\ pty' = Head(calls)
  /\ events' = IF pty' = pty THEN events ELSE Append(events, pty')
  /\ UNCHANGED <<room, mounted, made, observed, fitting, orphan, term, last, layouts, astray, untold>>

ResizeFails ==
  /\ calls # <<>> /\ calls' = Tail(calls)
  /\ astray' = TRUE
  /\ UNCHANGED <<room, mounted, made, observed, fitting, orphan, term, last, pty, events, layouts, untold>>

(* setupPtyResizedListener: the terminal takes the size the PTY was given.    *)
OnResized ==
  /\ events # <<>> /\ events' = Tail(events)
  /\ term' = IF made THEN Head(events) ELSE term
  /\ UNCHANGED <<room, mounted, made, observed, fitting, orphan, last, calls, pty, layouts, astray, untold>>

Next ==
  \/ Mount \/ Unmount \/ TryFit \/ OrphanFits \/ Observe
  \/ \E r \in 0..MaxSize : Layout(r) \/ \E b \in BOOLEAN : ApplyFont(r, b)
  \/ ServeResize \/ ResizeFails \/ OnResized

Spec == Init /\ [][Next]_vars

-----------------------------------------------------------------------------
Settled ==
  mounted /\ room > 0 /\ ~observed /\ ~fitting /\ orphan = NoOrphan /\ calls = <<>> /\ events = <<>>

(* However layouts, remounts and late broadcasts are mixed, once everything   *)
(* has arrived the shell wraps its lines where the terminal does and both fit *)
(* the container (useTerminalSetup.ts 471: "Keep PTY dimensions in sync when  *)
(* container resizes"), unless a call failed, a fit could propose no size, a  *)
(* pane was remounted with a size on its way, the tryFit of an earlier mount  *)
(* was still running, or no size was told, ever or since the font changed.    *)
SizesAgree == Settled /\ ~astray /\ ~untold => term = pty /\ pty = room

=============================================================================
