-------------------------------- MODULE Mirror --------------------------------
(***************************************************************************)
(* What the inventory, instance and connection controllers promise of the  *)
(* provider's object: it carries one version of the DBaaS object (the uid  *)
(* of its owner and its spec, together), versions are given to the         *)
(* provider in the order in which the user made them, though some may be   *)
(* skipped, and the DBaaS object turns ready only when its latest version  *)
(* has been given.  Caches, queues, retries, conflicts and restarts do not *)
(* show.                                                                   *)
(***************************************************************************)
EXTENDS Naturals, Sequences

CONSTANT Specs

VARIABLES
  history,  \* the versions of the object, over all its incarnations
  alive,    \* the object exists
  ready,    \* its Ready condition is true
  carried,  \* the version the provider's object carries (<<>>: no object)
  pushed    \* the last version given to the provider

vars == <<history, alive, ready, carried, pushed>>

(* There is nothing, or one version that has been served.                  *)
Init ==
  /\ history \in {<<>>} \cup {<<[uid |-> 1, spec |-> s]>> : s \in Specs}
  /\ pushed = Len(history)
  /\ alive = (history # <<>>)
  /\ ready = alive
  /\ carried = history

(* The user's operations.  An edit leaves the condition as it is.          *)
Create(s) ==
  /\ ~alive
  /\ history' = Append(history,
                  [uid |-> IF history = <<>> THEN 1
                           ELSE history[Len(history)].uid + 1, spec |-> s])
  /\ alive' = TRUE
  /\ UNCHANGED <<ready, carried, pushed>>

Edit(s) ==
  /\ alive
  /\ history' = Append(history, [history[Len(history)] EXCEPT !.spec = s])
  /\ UNCHANGED <<alive, ready, carried, pushed>>

Delete ==
  /\ alive
  /\ alive' = FALSE
  /\ ready' = FALSE
  /\ UNCHANGED <<history, carried, pushed>>

(* A version no older than the last reaches the provider ...               *)
Push(v) ==
  /\ v \in pushed .. Len(history) /\ v > 0
  /\ pushed' = v
  /\ carried' = <<history[v]>>
  /\ UNCHANGED <<history, alive, ready>>

(* ... or is found there, or was there and is gone again.                  *)
Confirm(v) ==
  /\ v \in pushed .. Len(history) /\ v > 0
  /\ pushed' = v
  /\ carried \in {<<>>, <<history[v]>>}
  /\ UNCHANGED <<history, alive, ready, carried>>

(* The provider's object is deleted or collected.                          *)
Remove ==
  /\ carried' = <<>>
  /\ UNCHANGED <<history, alive, ready, pushed>>

(* The condition is reported, as true for the latest version only.         *)
Report(b) ==
  /\ alive
  /\ b => pushed = Len(history)
  /\ ready' = b
  /\ UNCHANGED <<history, alive, carried, pushed>>

Next ==
  \/ \E s \in Specs : Create(s) \/ Edit(s)
  \/ Delete
  \/ \E v \in pushed .. Len(history) : Push(v) \/ Confirm(v)
  \/ Remove
  \/ \E b \in BOOLEAN : Report(b)

Spec == Init /\ [][Next]_vars
=============================================================================
