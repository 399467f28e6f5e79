--------------------------- MODULE CommandFeedback ---------------------------
(***************************************************************************)
(* What the desktop shows of a command it sent (App.tsx, sendCommand,      *)
(* finishFeedback and processLine; lib/commandFeedback.ts): the control is *)
(* marked as sending, awaiting its status, confirmed, failed or            *)
(* unconfirmed, and unmarked after a moment.  There is one mark for a      *)
(* target; a later command takes it over while the earlier ones are still  *)
(* on their way.                                                           *)
(*                                                                         *)
(* Time passes in seconds; timers fire in the second they are due (those   *)
(* of 0.9, 4.05, 4.5 and 12.05 seconds count as 1, 4, 5 and 12).  A send   *)
(* settles within SendLimit: RootService::send gives up after 7 seconds.   *)
(***************************************************************************)
EXTENDS Naturals, FiniteSets

CONSTANTS
  Commands,    \* tracked commands, of one owner
  Targets,     \* the controls they are shown at
  TargetOf,    \* Commands -> Targets
  WithStatus,  \* the commands with a feedbackCommand
  SendLimit,   \* the longest send
  MaxCommands, \* bound: commands sent
  MaxEvents    \* bound: error lines, closings of the port, changes of the language

ASSUME FeedbackAssumption ==
  /\ TargetOf \in [Commands -> Targets]
  /\ WithStatus \subseteq Commands
  /\ SendLimit \in 0..7
  /\ {MaxCommands, MaxEvents} \subseteq Nat

VARIABLES
  feedback,  \* commandFeedbackRef: target -> mark or Blank
  timers,    \* feedbackTimersRef: the armed timers
  pending,   \* calls of sendCommand whose send has not settled
  lastId,    \* feedbackId
  asked,     \* history: commands whose status was asked for, once per request
  orphans,   \* history: marks whose timers were cleared by an effect's cleanup
  events     \* bound counter

marksVars == <<feedback, timers, pending, lastId, asked, orphans, events>>

Phases == {"sending", "awaiting", "confirmed", "error", "unconfirmed"}
Blank == [phase |-> "none"]
Shown(t) == feedback[t] # Blank

\* The deadlines of commandDeadlineAction and the delays of the timers.
ResyncAge == 4
GiveUpAge == 12
\* (mutant) The status is asked for a little later.
ResyncDelay_Mutant == 5
ResyncDelay == 4
\* (mutant) The last timer fires a little before the deadline it checks.
GiveUpDelay_Mutant == 11
GiveUpDelay == 12

Unmarked(phase) == IF phase = "confirmed" THEN 1 ELSE 5

Timer(t, kind, delay) == [target |-> t, id |-> feedback[t].id, kind |-> kind, left |-> delay]

\* clearFeedbackTimers(target).
Cleared(t) == {m \in timers : m.target # t}

\* finishFeedback(targets, phase): marks the present command of each target,
\* whichever it is, and times the end of the mark.
FinishFeedback(targets, phase) ==
  LET done == {t \in targets : Shown(t)}
  IN /\ feedback' = [t \in Targets |->
          IF t \in done THEN [feedback[t] EXCEPT !.phase = phase] ELSE feedback[t]]
     /\ timers' = {m \in timers : m.target \notin done}
          \cup {Timer(t, "unmark", Unmarked(phase)) : t \in done}

\* commandDeadlineAction(feedback, now).
DeadlineAction(f) ==
  CASE f.phase # "awaiting" -> "wait"
    [] f.age >= GiveUpAge -> "unconfirmed"
    [] f.age \in ResyncAge..(GiveUpAge - 1) /\ f.command \in WithStatus -> "resync"
    [] OTHER -> "wait"

MarksInit ==
  /\ feedback = [t \in Targets |-> Blank]
  /\ timers = {} /\ pending = {} /\ lastId = 0
  /\ asked = [i \in 1..MaxCommands |-> 0]
  /\ orphans = {} /\ events = 0
-----------------------------------------------------------------------------
\* sendCommand(command), up to the await of the send.
SendCommand(c) ==
  LET t == TargetOf[c] IN
  /\ lastId < MaxCommands
  /\ lastId' = lastId + 1
  /\ timers' = Cleared(t)
  /\ feedback' = [feedback EXCEPT ![t] =
       [id |-> lastId', command |-> c, phase |-> "sending", age |-> 0]]
  /\ pending' = pending \cup {[id |-> lastId', command |-> c, age |-> 0]}
  /\ UNCHANGED <<asked, orphans, events>>

\* The send was a success: the mark waits for the status, if it is still that
\* of this command and no status has overtaken the result.
StillSending(s) ==
  LET f == feedback[TargetOf[s.command]]
  IN f # Blank /\ f.id = s.id /\ f.phase = "sending"

Sent(s) ==
  LET t == TargetOf[s.command] IN
  /\ s \in pending /\ pending' = pending \ {s}
  /\ IF StillSending(s)
     THEN /\ feedback' = [feedback EXCEPT ![t].phase = "awaiting"]
          /\ timers' = timers \cup {Timer(t, "giveUp", GiveUpDelay)} \cup
               {Timer(t, "resync", ResyncDelay) : c \in {s.command} \cap WithStatus}
     ELSE UNCHANGED <<feedback, timers>>
  /\ UNCHANGED <<lastId, asked, orphans, events>>

\* The send failed: whatever is marked at the target failed.
SendFailed(s) ==
  /\ s \in pending /\ pending' = pending \ {s}
  /\ FinishFeedback({TargetOf[s.command]}, "error")
  /\ UNCHANGED <<lastId, asked, orphans, events>>

\* matchingFeedback: a status line is about some controls, and confirms those
\* of them that are sending or awaiting.
Matching(about) ==
  {t \in about : Shown(t) /\ feedback[t].phase \in {"sending", "awaiting"}}

StatusLine(about) ==
  /\ Matching(about) # {}
  /\ FinishFeedback(Matching(about), "confirmed")
  /\ UNCHANGED <<pending, lastId, asked, orphans, events>>

\* A line that reports an error of the owner fails all its marks.
ErrorLine ==
  /\ events < MaxEvents /\ events' = events + 1
  /\ FinishFeedback(Targets, "error")
  /\ UNCHANGED <<pending, lastId, asked, orphans>>

Due(m, kind) == m \in timers /\ m.kind = kind /\ m.left = 0
Of(m) == feedback[m.target]
Current(m) == Of(m) # Blank /\ Of(m).id = m.id

\* The first deadline: the status is asked for, once.
ResyncTimer(m) ==
  /\ Due(m, "resync")
  /\ timers' = timers \ {m}
  /\ asked' = IF Current(m) /\ DeadlineAction(Of(m)) = "resync"
              THEN [asked EXCEPT ![m.id] = @ + 1] ELSE asked
  /\ UNCHANGED <<feedback, pending, lastId, orphans, events>>

\* The last deadline.
GiveUpTimer(m) ==
  /\ Due(m, "giveUp")
  /\ IF Current(m) /\ DeadlineAction(Of(m)) = "unconfirmed"
     THEN FinishFeedback({m.target}, "unconfirmed")
     ELSE /\ timers' = timers \ {m}
          /\ UNCHANGED feedback
  /\ UNCHANGED <<pending, lastId, asked, orphans, events>>

\* The mark has been seen long enough.
UnmarkTimer(m) ==
  /\ Due(m, "unmark")
  /\ timers' = timers \ {m}
  /\ feedback' = IF Current(m) THEN [feedback EXCEPT ![m.target] = Blank] ELSE feedback
  /\ UNCHANGED <<pending, lastId, asked, orphans, events>>

\* closeSerial(): no marks, no timers; sends stay on their way.
CloseSerial ==
  /\ events < MaxEvents /\ events' = events + 1
  /\ timers' = {}
  /\ feedback' = [t \in Targets |-> Blank]
  /\ UNCHANGED <<pending, lastId, asked, orphans>>

\* The language changed: the effect is cleaned up and runs again.  Its cleanup
\* clears all timers and leaves the marks.
EffectRunsAgain ==
  /\ events < MaxEvents /\ events' = events + 1
  /\ timers' = {}
  /\ orphans' = orphans \cup {m.id : m \in timers}
  /\ UNCHANGED <<feedback, pending, lastId, asked>>

\* A second passes, once the timers that are due have fired and no send has
\* reached its limit.  Ages above the last deadline are all alike.
Older(r) == [r EXCEPT !.age = IF @ < GiveUpAge THEN @ + 1 ELSE @]

Tick ==
  /\ \A m \in timers : m.left > 0
  /\ \A s \in pending : s.age < SendLimit
  /\ timers' = {[m EXCEPT !.left = @ - 1] : m \in timers}
  /\ pending' = {Older(s) : s \in pending}
  /\ feedback' = [t \in Targets |-> IF Shown(t) THEN Older(feedback[t]) ELSE Blank]
  /\ UNCHANGED <<lastId, asked, orphans, events>>

Timers == \E m \in timers : ResyncTimer(m) \/ GiveUpTimer(m) \/ UnmarkTimer(m)
SendsSettle == \E s \in pending : Sent(s) \/ SendFailed(s)

MarksNext ==
  \/ \E c \in Commands : SendCommand(c)
  \/ \E about \in SUBSET Targets : StatusLine(about)
  \/ ErrorLine \/ CloseSerial \/ EffectRunsAgain
  \/ Timers \/ SendsSettle \/ Tick

MarksSpec == MarksInit /\ [][MarksNext]_marksVars

\* Time passes, timers fire and sends settle.
FairMarksSpec ==
  MarksSpec /\ WF_marksVars(Tick) /\ WF_marksVars(Timers) /\ WF_marksVars(SendsSettle)
-----------------------------------------------------------------------------
\* A control says "not confirmed" only after its status was asked for again
\* ("requires one status resync before becoming unconfirmed"), although the
\* deadlines count from the click and the timers from the end of the send.
ResyncBeforeGivingUp ==
  \A t \in Targets :
    Shown(t) /\ feedback[t].phase = "unconfirmed" /\ feedback[t].command \in WithStatus
      => asked[feedback[t].id] = 1

\* Every mark goes away again, whatever becomes of the send, the status and
\* the other commands; except those whose timers a change of the language took.
\* (A line that reports an error of the owner prolongs the mark.)
MarksEnd ==
  \A t \in Targets, i \in 1..MaxCommands :
    (Shown(t) /\ feedback[t].id = i)
      ~> (~Shown(t) \/ feedback[t].id # i \/ i \in orphans)
=============================================================================
