---------------------------- MODULE ClimatePoller ----------------------------
(***************************************************************************)
(* ClimatePoller, desktop/src/lib/climatePolling.ts: one loop of cycles    *)
(* asks the heater for its climate, source, relay, schedule and display.   *)
(* A cycle sends its commands one after another and arms the timer of the  *)
(* next cycle; a change of the settings or of the connection, or a user    *)
(* action that wants a quick answer, starts a cycle at once.               *)
(*                                                                         *)
(* The code is single threaded: an action is the code between two awaits.  *)
(* A query the heater does not support is skipped until the next           *)
(* connection.  The heater panel (HeaterClimatePanel.tsx) calls configure  *)
(* and dispose from its effects, in any order the connection dictates.     *)
(***************************************************************************)
EXTENDS Naturals, FiniteSets, Sequences, SequencesExt

CONSTANTS
  FullCycle,   \* the commands of an ordinary cycle, in their order
  BurstCycle,  \* those of a cycle in a burst
  MaxTurns     \* bound: calls of configure, refreshSoon and dispose

Queries == ToSet(FullCycle) \cup ToSet(BurstCycle)

ASSUME CyclesAssumption == {FullCycle, BurstCycle} \subseteq Seq(Queries) \ {<<>>}
ASSUME TurnsAssumption == MaxTurns \in Nat

VARIABLES
  enabled, running, generation, unsupported, \* the fields of the same names
  ended,      \* the field `disposed'
  armed,      \* armed timers of the loop
  timer,      \* whether the field `timer' refers to an armed one
  burst,      \* Date.now() < burstUntil
  cycles,     \* calls of refresh that wait for the answer to the head of `left':
              \* [generation, left]
  turns,      \* bound counter
  verdictOf   \* history: command -> generation of the cycle that found it unsupported

pollerVars == <<enabled, ended, running, generation, unsupported, armed, timer, burst,
                cycles, turns, verdictOf>>

\* clearTimeout(this.timer).
\* (mutant) The timer is forgotten and not cleared.
ClearedTimer_Mutant == armed
ClearedTimer == IF timer THEN armed - 1 ELSE armed

\* What a cycle still has to send: it skips what is not supported.
ToSend(left, skip) ==
  LET wanted == {i \in 1..Len(left) : left[i] \notin skip}
  IN IF wanted = {} THEN <<>> ELSE SubSeq(left, Min(wanted), Len(left))

\* The checks at the head of the loop and after the await.
\* (mutant) Only the state of the poller counts, not the cycle's generation.
Stale_Mutant(c) == ~enabled \/ ended
Stale(c) == ~enabled \/ ended \/ c.generation # generation

\* The end of a cycle: with the poller still on, the next one is timed.
\* (mutant) Only a cycle of the present generation times the next one.
EndsArmed_Mutant(c) == enabled /\ ~ended /\ c.generation = generation
EndsArmed(c) == enabled /\ ~ended

\* refresh(), called with `timers' armed timers (the field refers to one iff
\* `named'): the first send, or at once the end when nothing is left to send.
Refresh(isEnabled, skip, timers, named) ==
  IF running \/ ~isEnabled \/ ended
  THEN /\ armed' = timers /\ timer' = named
       /\ UNCHANGED <<running, cycles>>
  ELSE LET left == ToSend(IF burst' THEN BurstCycle ELSE FullCycle, skip)
       IN IF left = <<>>
          THEN /\ armed' = timers + 1 /\ timer' = TRUE
               /\ UNCHANGED <<running, cycles>>
          ELSE /\ running' = TRUE
               /\ cycles' = cycles \cup {[generation |-> generation, left |-> left]}
               /\ armed' = timers /\ timer' = named

PollerInit ==
  /\ enabled = FALSE /\ ended = FALSE /\ running = FALSE
  /\ generation = 0 /\ unsupported = {}
  /\ armed = 0 /\ timer = FALSE /\ burst = FALSE
  /\ cycles = {} /\ turns = 0
  /\ verdictOf = [c \in Queries |-> 0]
-----------------------------------------------------------------------------
Turn == turns < MaxTurns /\ turns' = turns + 1

\* refreshSoon(): a burst begins, with a cycle unless one is under way.
RefreshSoon ==
  /\ Turn /\ ~ended
  /\ burst' = TRUE
  /\ Refresh(enabled, unsupported, ClearedTimer, FALSE)
  /\ UNCHANGED <<enabled, ended, generation, unsupported, verdictOf>>

\* configure(TRUE, interval): a new connection forgets what was unsupported.
KeptUnsupported == IF enabled THEN unsupported ELSE {}

Enable ==
  /\ Turn /\ ~ended
  /\ enabled' = TRUE
  /\ unsupported' = KeptUnsupported
  /\ UNCHANGED burst
  /\ Refresh(TRUE, KeptUnsupported, ClearedTimer, FALSE)
  /\ UNCHANGED <<ended, generation, verdictOf>>

\* configure(FALSE, interval).
Disable ==
  /\ Turn /\ ~ended
  /\ enabled' = FALSE /\ burst' = FALSE
  /\ generation' = generation + 1
  /\ armed' = ClearedTimer /\ timer' = FALSE
  /\ UNCHANGED <<ended, running, unsupported, cycles, verdictOf>>

\* dispose(), after which the panel has no reference to the poller.
EndPolling ==
  /\ Turn /\ ~ended
  /\ ended' = TRUE /\ enabled' = FALSE
  /\ generation' = generation + 1
  /\ armed' = ClearedTimer /\ timer' = FALSE
  /\ UNCHANGED <<running, unsupported, burst, cycles, verdictOf>>

\* The time of a burst is over.
BurstEnds ==
  /\ burst /\ burst' = FALSE
  /\ UNCHANGED <<enabled, ended, running, generation, unsupported, armed, timer,
                 cycles, turns, verdictOf>>

\* An armed timer fires: the one the field refers to, or one it lost.
PollTimerFires ==
  /\ armed > 0
  /\ UNCHANGED burst
  /\ \E named \in {timer} \cup {t \in {FALSE} : armed > 1} :
       Refresh(enabled, unsupported, armed - 1, timer /\ ~named)
  /\ UNCHANGED <<enabled, ended, generation, unsupported, turns, verdictOf>>

\* The cycle is over, by its end or by a break.
End(c) ==
  /\ cycles' = cycles \ {c} /\ running' = FALSE
  /\ armed' = IF EndsArmed(c) THEN armed + 1 ELSE armed
  /\ timer' = (timer \/ EndsArmed(c))

\* The send of a cycle settles: the cycle breaks off when it is stale.
Break(c) ==
  /\ c \in cycles /\ Stale(c)
  /\ End(c)
  /\ UNCHANGED <<enabled, ended, generation, unsupported, burst, turns, verdictOf>>

\* Otherwise it notes an unsupported command and goes on; an answer, a retry
\* and a rejected promise make no difference to the loop.
QuerySettles(c, isUnsupported) ==
  /\ c \in cycles /\ ~Stale(c)
  /\ LET skip == IF isUnsupported THEN unsupported \cup {Head(c.left)} ELSE unsupported
         left == ToSend(Tail(c.left), skip)
     IN /\ unsupported' = skip
        /\ IF left = <<>>
           THEN End(c)
           ELSE /\ cycles' = (cycles \ {c}) \cup {[c EXCEPT !.left = left]}
                /\ UNCHANGED <<running, armed, timer>>
  /\ verdictOf' = IF isUnsupported THEN [verdictOf EXCEPT ![Head(c.left)] = c.generation]
                  ELSE verdictOf
  /\ UNCHANGED <<enabled, ended, generation, burst, turns>>

QueriesSettle == \E c \in cycles : Break(c) \/ \E u \in BOOLEAN : QuerySettles(c, u)

PollerNext ==
  \/ RefreshSoon \/ Enable \/ Disable \/ EndPolling
  \/ BurstEnds \/ PollTimerFires \/ QueriesSettle

\* Timers fire, sends settle (the root worker answers every caller), time passes.
PollerFairness ==
  /\ WF_pollerVars(PollTimerFires) /\ WF_pollerVars(QueriesSettle)
  /\ WF_pollerVars(BurstEnds)

PollerSpec == PollerInit /\ [][PollerNext]_pollerVars
FairPollerSpec == PollerSpec /\ PollerFairness
-----------------------------------------------------------------------------
\* There is one loop and no more while the poller is on: refreshSoon and
\* configure start a cycle at once and must not leave a timer that starts a
\* second one, and a connection that goes and comes back during a send must not
\* end the loop.
OneLoop ==
  /\ armed + Cardinality(cycles) <= 1
  /\ enabled /\ ~ended => armed + Cardinality(cycles) = 1

\* A cycle of an earlier connection, or of a disposed poller, has no effect any
\* more when its send settles: it sends nothing, and a command is skipped only
\* for what the heater said on the present connection.
NoStaleEffect ==
  [][/\ \A c \in cycles' \ cycles : enabled' /\ ~ended' /\ c.generation = generation'
     /\ enabled' => \A q \in unsupported' : verdictOf'[q] = generation']_pollerVars

\* With the poller left on, every command is asked again and again, or is
\* known to be unsupported: bursts of the short cycle do not displace it.
EverythingPolled ==
  \A q \in Queries :
    <>[](enabled /\ ~ended) =>
      []<>(q \in unsupported \/ \E c \in cycles : Head(c.left) = q)
=============================================================================
