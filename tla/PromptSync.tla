----------------------------- MODULE PromptSync -----------------------------
(***************************************************************************)
(* The prompts and their copy on a phone: the persisted store              *)
(* (src/stores/promptStore.ts), the debounced push of its snapshots        *)
(* (src/hooks/usePromptSync.ts), the buffer of the backend                 *)
(* (src-tauri/src/commands/prompts.rs, remote/prompts_state.rs) and the    *)
(* presence loop that sends them (remote/presence.rs).                     *)
(***************************************************************************)
EXTENDS Naturals, Sequences, SequencesExt

CONSTANTS
  MaxPrompts, MaxChanges, MaxLinks, MaxRequests,   \* bounds
  NoSnapshot

VARIABLES
  prompts, stored,     \* the store; the prompts on disk
  hydrating, read,     \* the store awaits what it read from the disk
  deferred,            \* a request waits for that
  pushTimer,           \* the snapshot the debounce timer holds
  invoked,             \* update_remote_prompts under way, oldest first
  latest, hydrated,    \* PromptsState
  ws, promptsDirty,    \* the presence connection and its signal
  phone,               \* the last snapshot forwarded to the phone
  raced,               \* an update overtook an older one
  changes, links, requests

storeVars == <<prompts, stored, hydrating, read>>
backendVars == <<latest, hydrated, promptsDirty>>
bounds == <<changes, links, requests>>
vars == <<storeVars, deferred, pushTimer, invoked, backendVars, ws, phone, raced, bounds>>

Status == {"pending", "testing", "done"}
Snapshot == SUBSET ((1..MaxPrompts) \X Status)
MaybeSnapshot == Snapshot \cup {NoSnapshot}

TypeOK ==
  /\ {prompts, stored, latest} \subseteq Snapshot /\ {read, pushTimer, phone} \subseteq MaybeSnapshot
  /\ {hydrating, deferred, hydrated, promptsDirty, raced} \subseteq BOOLEAN
  /\ invoked \in Seq(Snapshot)
  /\ ws \in {"down", "open", "registered"}
  /\ changes \in 0..MaxChanges /\ links \in 0..MaxLinks /\ requests \in 0..MaxRequests

Init ==
  /\ prompts = {} /\ stored \in {{}, {<<1, "testing">>}}
  /\ hydrating = TRUE /\ read = IF stored = {} THEN NoSnapshot ELSE stored
  /\ deferred = FALSE /\ pushTimer = NoSnapshot /\ invoked = <<>>
  /\ latest = {} /\ hydrated = FALSE /\ ws = "down" /\ promptsDirty = FALSE
  /\ phone = NoSnapshot /\ raced = FALSE
  /\ changes = 0 /\ links = 0 /\ requests = 0

(* toWire: a phone knows no prompt under test.                                *)
ToWire(ps) == {<<p[1], IF p[2] = "done" THEN "done" ELSE "pending">> : p \in ps}

Ids == {p[1] : p \in prompts}
Without(id) == {p \in prompts : p[1] # id}

-----------------------------------------------------------------------------
(* Every change of the store is written to the disk and restarts the timer,   *)
(* with the snapshot of that moment.                                          *)
Store(ps) ==
  /\ changes < MaxChanges /\ changes' = changes + 1
  /\ prompts' = ps /\ stored' = ps /\ pushTimer' = ToWire(ps)
  /\ UNCHANGED <<hydrating, read, deferred, invoked, backendVars, ws, phone, raced, links, requests>>

(* addPrompt, and an addition by the phone, which replaces a prompt it knows. *)
AddPrompt(id) == Store(Without(id) \cup {<<id, "pending">>})
RemovePrompt(id) == id \in Ids /\ Store(Without(id))
SetStatus(id, s) == id \in Ids /\ Store(Without(id) \cup {<<id, s>>})

(* The box of a row, and the menu's "run in terminal" and "restore".          *)
Advanced == [pending |-> "testing", testing |-> "done", done |-> "testing"]
RunOrRestored == [pending |-> "testing", testing |-> "pending", done |-> "testing"]
Advance(p) == SetStatus(p[1], Advanced[p[2]])
FromMenu(p) == SetStatus(p[1], RunOrRestored[p[2]])

ToggleDone(id) ==
  /\ id \in Ids
  /\ Store(Without(id) \cup {<<id, IF <<id, "done">> \in prompts THEN "pending" ELSE "done">>})

(* What was read from the disk replaces the store, which is not written; the  *)
(* requests that waited are then answered at once.                            *)
Hydrate ==
  /\ hydrating /\ hydrating' = FALSE /\ read' = NoSnapshot
  /\ prompts' = IF read = NoSnapshot THEN prompts ELSE read
  /\ deferred' = FALSE
  /\ IF deferred
     THEN pushTimer' = NoSnapshot /\ invoked' = Append(invoked, ToWire(prompts'))
     ELSE /\ pushTimer' = IF read = NoSnapshot THEN pushTimer ELSE ToWire(read)
          /\ UNCHANGED invoked
  /\ UNCHANGED <<stored, backendVars, ws, phone, raced, bounds>>

PushTimer ==
  /\ pushTimer # NoSnapshot /\ pushTimer' = NoSnapshot
  /\ invoked' = Append(invoked, pushTimer)
  /\ UNCHANGED <<storeVars, deferred, backendVars, ws, phone, raced, bounds>>

(* remote-prompt-request, when a phone opens its list.                        *)
PromptRequest ==
  /\ ws = "registered" /\ requests < MaxRequests /\ requests' = requests + 1
  /\ IF hydrating
     THEN deferred' = TRUE /\ UNCHANGED <<pushTimer, invoked>>
     ELSE pushTimer' = NoSnapshot /\ invoked' = Append(invoked, ToWire(prompts)) /\ UNCHANGED deferred
  /\ UNCHANGED <<storeVars, backendVars, ws, phone, raced, changes, links>>

-----------------------------------------------------------------------------
(* update_remote_prompts: the commands are tasks of their own, and a signal   *)
(* nobody listens to is lost.                                                 *)
UpdateRemotePrompts(i) ==
  /\ i \in DOMAIN invoked
  /\ latest' = invoked[i] /\ hydrated' = TRUE
  /\ promptsDirty' = (ws # "down")
  /\ invoked' = RemoveAt(invoked, i)
  /\ raced' = (raced \/ i # 1)
  /\ UNCHANGED <<storeVars, deferred, pushTimer, ws, phone, bounds>>

(* The presence loop; the server forwards what a registered desktop sends.    *)
PresencePushes ==
  /\ promptsDirty /\ promptsDirty' = FALSE
  /\ phone' = IF hydrated /\ ws = "registered" THEN latest ELSE phone
  /\ UNCHANGED <<storeVars, deferred, pushTimer, invoked, latest, hydrated, ws, raced, bounds>>

Connect ==
  /\ ws = "down" /\ links < MaxLinks /\ links' = links + 1 /\ ws' = "open"
  /\ UNCHANGED <<storeVars, deferred, pushTimer, invoked, backendVars, phone, raced, changes, requests>>

NotAgain == UNCHANGED promptsDirty
PushAgain == promptsDirty' = TRUE

(* presence_registered.                                                       *)
Registered ==
  /\ ws = "open" /\ ws' = "registered" /\ PushAgain
  /\ UNCHANGED <<storeVars, deferred, pushTimer, invoked, latest, hydrated, phone, raced, bounds>>

Disconnect ==
  /\ ws # "down" /\ ws' = "down" /\ promptsDirty' = FALSE
  /\ UNCHANGED <<storeVars, deferred, pushTimer, invoked, latest, hydrated, phone, raced, bounds>>

Next ==
  \/ \E id \in 1..MaxPrompts :
       AddPrompt(id) \/ RemovePrompt(id) \/ ToggleDone(id)
  \/ \E p \in prompts : Advance(p) \/ FromMenu(p)
  \/ Hydrate \/ PushTimer \/ PromptRequest
  \/ \E i \in DOMAIN invoked : UpdateRemotePrompts(i)
  \/ PresencePushes \/ Connect \/ Registered \/ Disconnect

Spec == Init /\ [][Next]_vars

-----------------------------------------------------------------------------
(* Once nothing is under way, the phone of a registered desktop has what the  *)
(* store holds, whatever happened while the connection was down or the store  *)
(* was not read yet; unless two updates were carried out in the wrong order.  *)
PhoneIsCurrent ==
  ws = "registered" /\ ~promptsDirty /\ pushTimer = NoSnapshot /\ invoked = <<>> /\ ~hydrating /\ hydrated /\ ~raced
    => phone = ToWire(prompts)
=============================================================================
