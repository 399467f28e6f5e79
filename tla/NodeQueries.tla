------------------------------ MODULE NodeQueries ------------------------------
(***************************************************************************)
(* The two parts of the page that ask nodes for their state by themselves: *)
(* the resync of App.tsx and the poller of the heater's panel.  Both hear  *)
(* of the connection to the root and both wait for RootService::send, but  *)
(* they share no state and no call of one waits for the other.             *)
(*                                                                         *)
(* Bound: a behaviour is about one of them, so that what they do adds to   *)
(* the instance and does not multiply it.                                  *)
(***************************************************************************)
EXTENDS NodeResync, ClimatePoller

VARIABLE part \* bound: the part a behaviour is about

QueriesInit == part \in {"resync", "poller"} /\ Init /\ PollerInit

ResyncStep == part = "resync" /\ Next /\ UNCHANGED <<part, pollerVars>>
PollerStep == part = "poller" /\ PollerNext /\ UNCHANGED <<part, vars>>

\* A part that a behaviour is not about stays as it began, with nothing to do.
QueriesSpec ==
  /\ QueriesInit /\ [][ResyncStep \/ PollerStep]_<<part, vars, pollerVars>>
  /\ Fairness /\ PollerFairness
=============================================================================
