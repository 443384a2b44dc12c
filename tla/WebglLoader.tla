----------------------------- MODULE WebglLoader -----------------------------
(***************************************************************************)
(* How one pane's terminal gets its WebGL renderer, loses it and gets it   *)
(* back (src/lib/terminalRegistry.ts).  A pane's id can be reused: each    *)
(* terminal made for it has an identity of its own.                        *)
(***************************************************************************)
EXTENDS Naturals, FiniteSets

CONSTANTS MaxEntries,  \* bound: terminals made for the pane
          MaxAddons,   \* bound: addons made
          Retries      \* the reloads after a lost context

VARIABLES
  entry, entries,  \* the registered terminal (0: none), terminals made
  loads,           \* timers: [entry, retry] of each loadWebgl to come
  addons,          \* the live addons: [id, on, retry], retry from a loadWebgl
  born,            \* addons made
  current          \* webglAddon of each terminal's entry (0: null)

vars == <<entry, entries, loads, addons, born, current>>

Recovered == Retries + 1   \* an addon made by recoverTerminal: no retry follows it
Addon == [id : 1..MaxAddons, on : 1..MaxEntries, retry : 0..Recovered]

TypeOK ==
  /\ entry \in 0..entries /\ entries \in 0..MaxEntries
  /\ loads \subseteq [entry : 1..MaxEntries, retry : 0..Retries]
  /\ addons \subseteq Addon /\ born \in 0..MaxAddons
  /\ current \in [1..MaxEntries -> 0..MaxAddons]

Init ==
  /\ entry = 0 /\ entries = 0 /\ loads = {} /\ addons = {} /\ born = 0
  /\ current = [e \in 1..MaxEntries |-> 0]

(* getOrCreateTerminal: shown by the 2D canvas until the timer fires.         *)
Create ==
  /\ entry = 0 /\ entries < MaxEntries
  /\ entries' = entries + 1 /\ entry' = entries'
  /\ loads' = loads \cup {[entry |-> entry', retry |-> 0]}
  /\ UNCHANGED <<addons, born, current>>

(* disposeTerminal: its addons go with the terminal.                          *)
Dispose ==
  /\ entry # 0 /\ entry' = 0
  /\ addons' = {a \in addons : a.on # entry}
  /\ UNCHANGED <<entries, loads, born, current>>

Attach(e, retry) ==
  /\ born < MaxAddons /\ born' = born + 1
  /\ addons' = addons \cup {[id |-> born', on |-> e, retry |-> retry]}
  /\ current' = [current EXCEPT ![e] = born']

LoadAnyEntry(l) ==
  /\ loads' = loads \ {l}
  /\ IF entry # 0 THEN Attach(l.entry, l.retry) ELSE UNCHANGED <<addons, born, current>>
  /\ UNCHANGED <<entry, entries>>

(* loadWebgl, for the terminal it was scheduled for or for none; it may throw.*)
Load(l) ==
  /\ loads' = loads \ {l}
  /\ \/ entry = l.entry /\ Attach(l.entry, l.retry)
     \/ UNCHANGED <<addons, born, current>>
  /\ UNCHANGED <<entry, entries>>

(* onContextLoss: sleep, or the driver.                                       *)
LoseContext(a) ==
  /\ addons' = addons \ {a}
  /\ IF a.retry # Recovered
       THEN /\ current' = [current EXCEPT ![a.on] = 0]
            /\ loads' = IF a.retry < Retries /\ entry = a.on
                          THEN loads \cup {[entry |-> a.on, retry |-> a.retry + 1]} ELSE loads
       ELSE /\ current' = IF entry = a.on THEN [current EXCEPT ![a.on] = 0] ELSE current
            /\ UNCHANGED loads
  /\ UNCHANGED <<entry, entries, born>>

(* recoverTerminal, by the user: a new addon in the place of the current one, *)
(* or the 2D canvas when making it throws.                                    *)
Recover ==
  /\ entry # 0
  /\ LET kept == {a \in addons : a.id # current[entry]} IN
       \/ /\ born < MaxAddons /\ born' = born + 1
          /\ addons' = kept \cup {[id |-> born', on |-> entry, retry |-> Recovered]}
          /\ current' = [current EXCEPT ![entry] = born']
       \/ /\ addons' = kept /\ current' = [current EXCEPT ![entry] = 0]
          /\ UNCHANGED born
  /\ UNCHANGED <<entry, entries, loads>>

Next ==
  \/ Create \/ Dispose \/ Recover
  \/ \E l \in loads : Load(l)
  \/ \E a \in addons : LoseContext(a)

Spec == Init /\ [][Next]_vars

-----------------------------------------------------------------------------
(* terminalRegistry.ts 296-299: a pane closed and made again while a timer of *)
(* the old terminal runs never gets a renderer attached to the terminal that  *)
(* is gone, nor the new one the old one's.                                    *)
NoAddonOnTheGone == \A a \in addons : a.on = entry
=============================================================================
