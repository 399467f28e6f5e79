--------------------------- MODULE CommandPromise ---------------------------
(***************************************************************************)
(* What KeeLink promises the caller of a mesh command, without queue,      *)
(* connection, replay or root: a command takes effect at most once, an     *)
(* answer means that it did, a rejection means that it did not and never   *)
(* will, and any other error leaves the question open.                     *)
(***************************************************************************)
EXTENDS Naturals

CONSTANT Commands

VARIABLES
  outcome,  \* "none", "answered", "rejected" or "unknown"
  effects   \* how often the command took effect

promiseVars == <<outcome, effects>>

Init ==
  /\ outcome = [c \in Commands |-> "none"]
  /\ effects = [c \in Commands |-> 0]

(* The mesh node acts on the command. *)
TakeEffect(c) ==
  /\ effects[c] = 0
  /\ outcome[c] # "rejected"
  /\ effects' = [effects EXCEPT ![c] = 1]

(* Callers learn something about their commands, each of them once.  One   *)
(* step may resolve several: a deadline, a reboot or the end of the service *)
(* does.  f holds the outcomes after the step.                             *)
Resolve(f) ==
  /\ \A c \in Commands : f[c] # outcome[c] =>
       /\ outcome[c] = "none"
       /\ f[c] = "answered" => effects'[c] = 1
       /\ f[c] = "rejected" => effects'[c] = 0
  /\ outcome' = f

Outcomes == {"none", "answered", "rejected", "unknown"}

(* Over BLE a command takes effect and is answered in one step. *)
Next ==
  /\ (\E c \in Commands : TakeEffect(c)) \/ UNCHANGED effects
  /\ \E f \in [Commands -> Outcomes] : Resolve(f)

Spec == Init /\ [][Next]_promiseVars
=============================================================================
