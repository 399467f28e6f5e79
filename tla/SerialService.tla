---------------------------- MODULE SerialService ----------------------------
(***************************************************************************)
(* SerialService, src-tauri/src/serial_service.rs: one serial port with a  *)
(* reader thread; open and close, which joins the reader; commands, those  *)
(* of the weather lease of lib.rs among them; and the claim of a root, an  *)
(* exchange of lines that keeps commands out while it waits.  All of them  *)
(* are called from threads of their own and meet in one lock, which none   *)
(* holds while it waits.                                                   *)
(*                                                                         *)
(* A connection is one opening of a port; it numbers its reader and its    *)
(* stop flag too.  The device at its other end (external) answers a part   *)
(* of a claim with its acknowledgement, with an error or, when a line is   *)
(* lost, not at all, and the last part with the proof.                     *)
(***************************************************************************)
EXTENDS Naturals, Sequences, FiniteSets

CONSTANTS
  Claims,          \* calls of claim_keelink; also their sessions
  Parts,           \* lines of a claim's request
  MaxAttempts,     \* KEELINK_CLAIM_MAX_ATTEMPTS
  OverlappingCalls,\* open and close may be called while another of them runs
  MaxCalls,        \* bound: calls of them
  MaxConnections,  \* bound: openings that succeed
  MaxFailures      \* bound: reads, writes and spawns that fail

ASSUME SerialAssumption ==
  /\ {Parts, MaxAttempts} \subseteq Nat \ {0}
  /\ OverlappingCalls \in BOOLEAN
  /\ {MaxCalls, MaxConnections, MaxFailures} \subseteq Nat
  /\ 0 \notin Claims

VARIABLES
  \* SerialInner; 0 stands for None
  port,       \* the connection of inner.port (and of inner.path)
  stop,       \* the connection whose flag inner.stop is
  handle,     \* the connection whose reader inner.reader is
  waiter,     \* the claim of inner.claim_waiter
  \* Threads
  flag,       \* connection -> its stop flag
  reader,     \* connection -> where its reader stands
  calls,      \* calls of open and close
  claims,     \* claim -> where it stands
  inbox,      \* claim -> its channel
  \* The wire (external)
  incoming,   \* connection -> lines on their way to its reader
  opened,     \* openings so far
  failures    \* bound counter

inner   == <<port, stop, handle, waiter>>
threads == <<flag, reader, calls, claims, inbox>>
wire    == <<incoming, opened>>
vars    == <<inner, threads, wire, failures>>

Connections == 1..MaxConnections

NewClaim == [at |-> "idle", part |-> 1, attempt |-> 1, proofs |-> {}, from |-> {},
             ok |-> FALSE]

Init ==
  /\ port = 0 /\ stop = 0 /\ handle = 0 /\ waiter = 0
  /\ flag = [n \in Connections |-> FALSE]
  /\ reader = [n \in Connections |-> "none"]
  /\ calls = <<>>
  /\ claims = [c \in Claims |-> NewClaim]
  /\ inbox = [c \in Claims |-> <<>>]
  /\ incoming = [n \in Connections |-> <<>>]
  /\ opened = 0 /\ failures = 0

Fails == failures < MaxFailures /\ failures' = failures + 1
-----------------------------------------------------------------------------
(* send *)

Raised(n) == IF n = 0 THEN flag ELSE [flag EXCEPT ![n] = TRUE]

InProgress(c) == claims[c].at \notin {"idle", "done"}

\* send does nothing while a claim waits, or without a port.
Open == waiter = 0 /\ port # 0

Written == UNCHANGED <<port, flag, failures>>

\* A write that fails ends the connection and its reader.
WriteFails ==
  /\ Fails
  /\ port' = 0 /\ flag' = Raised(stop)

\* A command of the window, a weather lease of the heartbeat, or a refresh.
Command ==
  /\ Open
  /\ Written \/ WriteFails
  /\ UNCHANGED <<stop, handle, waiter, reader, calls, claims, inbox, wire>>
-----------------------------------------------------------------------------
(* open and close *)

Call(kind) ==
  /\ Len(calls) < MaxCalls
  /\ OverlappingCalls \/ \A k \in DOMAIN calls : calls[k].at = "done"
  /\ calls' = Append(calls,
       [kind |-> kind, at |-> IF kind = "close" THEN "off" ELSE "detach",
        joins |-> 0, conn |-> 0])
  /\ UNCHANGED <<inner, flag, reader, claims, inbox, wire, failures>>

Go(k, from, to) == calls[k].at = from /\ calls' = [calls EXCEPT ![k].at = to]

\* serial_close takes the weather lease back before it closes the port.
SendOff(k) ==
  /\ Go(k, "off", "detach")
  /\ (IF Open THEN Written \/ WriteFails ELSE Written)
  /\ UNCHANGED <<stop, handle, waiter, reader, claims, inbox, wire>>

\* The first half of close.
\* (mutant) The reader is not told to stop.
RaisedByClose_Mutant == flag
RaisedByClose == Raised(stop)

\* (mutant) The claim keeps its waiter.
WaiterAfterClose_Mutant == waiter
WaiterAfterClose == 0

Detach(k) ==
  /\ calls[k].at = "detach"
  /\ calls' = [calls EXCEPT ![k].at = "join", ![k].joins = handle]
  /\ flag' = RaisedByClose
  /\ stop' = 0 /\ port' = 0 /\ waiter' = WaiterAfterClose /\ handle' = 0
  /\ UNCHANGED <<reader, claims, inbox, wire, failures>>

\* The second half waits for the reader.
\* (mutant) It does not.
Joined_Mutant(n) == TRUE
Joined(n) == n # 0 => reader[n] = "ended"

Join(k) ==
  /\ Joined(calls[k].joins)
  /\ Go(k, "join", IF calls[k].kind = "open" THEN "open" ELSE "done")
  /\ UNCHANGED <<inner, flag, reader, claims, inbox, wire, failures>>

\* open: the port is opened and published...
Publish(k) ==
  /\ calls[k].at = "open"
  /\ opened < MaxConnections /\ opened' = opened + 1
  /\ calls' = [calls EXCEPT ![k].at = "spawn", ![k].conn = opened']
  /\ port' = opened' /\ stop' = opened'
  /\ UNCHANGED <<handle, waiter, flag, reader, claims, inbox, incoming, failures>>

OpenFails(k) ==
  /\ Go(k, "open", "done")
  /\ UNCHANGED <<inner, flag, reader, claims, inbox, wire, failures>>

\* ... its reader is spawned...
Spawn(k) ==
  /\ Go(k, "spawn", "keep")
  /\ reader' = [reader EXCEPT ![calls[k].conn] = "running"]
  /\ UNCHANGED <<inner, flag, claims, inbox, wire, failures>>

SpawnFails(k) ==
  /\ Go(k, "spawn", "done") /\ Fails
  /\ flag' = Raised(calls[k].conn)
  /\ port' = 0 /\ stop' = 0
  /\ UNCHANGED <<handle, waiter, reader, claims, inbox, wire>>

\* ... and its handle kept for the next close.
Keep(k) ==
  /\ Go(k, "keep", "done")
  /\ handle' = calls[k].conn
  /\ UNCHANGED <<port, stop, waiter, flag, reader, claims, inbox, wire, failures>>

CallNext(k) ==
  SendOff(k) \/ Detach(k) \/ Join(k) \/ Publish(k) \/ OpenFails(k)
  \/ Spawn(k) \/ SpawnFails(k) \/ Keep(k)
-----------------------------------------------------------------------------
(* read_loop *)

\* A line of a claim goes to the waiter, if there is one.
ReadLine(n) ==
  /\ reader[n] = "running" /\ incoming[n] # <<>>
  /\ incoming' = [incoming EXCEPT ![n] = Tail(@)]
  /\ inbox' = IF waiter = 0 THEN inbox
              ELSE [inbox EXCEPT ![waiter] = Append(@, Head(incoming[n]))]
  /\ UNCHANGED <<inner, flag, reader, calls, claims, opened, failures>>

ReaderStops(n) ==
  /\ reader[n] = "running" /\ flag[n]
  /\ reader' = [reader EXCEPT ![n] = "ended"] /\ incoming' = [incoming EXCEPT ![n] = <<>>]
  /\ UNCHANGED <<inner, flag, calls, claims, inbox, opened, failures>>

\* set_reader_error, and the end of the reader.
PortAfterError == 0

ReadFails(n) ==
  /\ reader[n] = "running" /\ Fails
  /\ reader' = [reader EXCEPT ![n] = "ended"] /\ incoming' = [incoming EXCEPT ![n] = <<>>]
  /\ port' = PortAfterError
  /\ UNCHANGED <<stop, handle, waiter, flag, calls, claims, inbox, opened>>
-----------------------------------------------------------------------------
(* claim_keelink *)

Move(c, from, to) == claims[c].at = from /\ claims' = [claims EXCEPT ![c].at = to]

ClaimStarts(c) ==
  /\ Move(c, "idle", "write")
  /\ waiter = 0 /\ port # 0
  /\ waiter' = c
  /\ UNCHANGED <<port, stop, handle, flag, reader, calls, inbox, wire, failures>>

Line(n, c, kind, part) == [from |-> n, session |-> c, kind |-> kind, part |-> part]

\* What the device may send back for a part.
Replies(n, c, part) ==
  {<<>>, <<Line(n, c, "error", part)>>} \cup
  {IF part = Parts THEN <<Line(n, c, "ack", part), Line(n, c, "proof", part)>>
   ELSE <<Line(n, c, "ack", part)>>}

WritePart(c) ==
  /\ Move(c, "write", "await") /\ port # 0
  /\ \E lines \in Replies(port, c, claims[c].part) :
       incoming' = [incoming EXCEPT ![port] = @ \o lines]
  /\ UNCHANGED <<inner, flag, reader, calls, inbox, opened, failures>>

WritePartFails(c) ==
  /\ Move(c, "write", "ending")
  /\ IF port = 0 THEN UNCHANGED failures ELSE Fails
  /\ UNCHANGED <<inner, flag, reader, calls, inbox, wire>>

\* Only the acknowledgement of this claim's present part counts.
IsAck(c, line) ==
  line.kind = "ack" /\ line.session = c /\ line.part = claims[c].part

\* What a line the claim receives does to it.
After(c, line) ==
  LET claim == claims[c] IN
  CASE claim.at = "await" /\ IsAck(c, line) ->
         [claim EXCEPT !.at = IF @ = "await" /\ claim.part = Parts THEN "proof" ELSE "write",
                       !.part = IF @ = Parts THEN @ ELSE @ + 1,
                       !.attempt = 1, !.from = @ \cup {line.from}]
    [] line.kind = "error" -> [claim EXCEPT !.at = "ending"]
    [] line.kind = "proof" ->
         [claim EXCEPT !.proofs = @ \cup {line.session}, !.from = @ \cup {line.from}]
    [] OTHER -> claim

Receive(c) ==
  /\ claims[c].at \in {"await", "proof"} /\ inbox[c] # <<>>
  /\ inbox' = [inbox EXCEPT ![c] = Tail(@)]
  /\ claims' = [claims EXCEPT ![c] = After(c, Head(inbox[c]))]
  /\ UNCHANGED <<inner, flag, reader, calls, wire, failures>>

\* No answer in time, or the sender of the channel is gone: the part is written
\* again, unless that was its last attempt or the time of the whole claim is over.
LastAttempt(c) == claims[c].attempt = MaxAttempts

NoAck(c) ==
  /\ \/ Move(c, "await", "ending")
     \/ /\ claims[c].at = "await" /\ ~LastAttempt(c)
        /\ claims' = [claims EXCEPT
             ![c].at = "write", ![c].attempt = (@ % MaxAttempts) + 1]
  /\ UNCHANGED <<inner, flag, reader, calls, inbox, wire, failures>>

\* The proof is complete; pair_native verifies its session.
ProofComplete(c) ==
  /\ claims[c].at = "proof" /\ claims[c].proofs # {}
  /\ claims' = [claims EXCEPT ![c].at = "ending", ![c].ok = (claims[c].proofs = {c})]
  /\ UNCHANGED <<inner, flag, reader, calls, inbox, wire, failures>>

NoProof(c) ==
  /\ Move(c, "proof", "ending") /\ claims[c].proofs = {}
  /\ UNCHANGED <<inner, flag, reader, calls, inbox, wire, failures>>

\* The end clears the waiter, whoever it is.
ClaimEnds(c) ==
  /\ claims[c].at = "ending"
  /\ claims' = [claims EXCEPT ![c] = [NewClaim EXCEPT !.at = "done"]]
  /\ waiter' = 0 /\ inbox' = [inbox EXCEPT ![c] = <<>>]
  /\ UNCHANGED <<port, stop, handle, flag, reader, calls, wire, failures>>

ClaimNext(c) ==
  WritePart(c) \/ WritePartFails(c) \/ Receive(c) \/ NoAck(c)
  \/ ProofComplete(c) \/ NoProof(c) \/ ClaimEnds(c)
-----------------------------------------------------------------------------
Next ==
  \/ Command \/ Call("open") \/ Call("close")
  \/ \E k \in DOMAIN calls : CallNext(k)
  \/ \E n \in Connections : ReadLine(n) \/ ReaderStops(n) \/ ReadFails(n)
  \/ \E c \in Claims : ClaimStarts(c) \/ ClaimNext(c)

Spec == Init /\ [][Next]_vars

\* Threads keep running.  A reader looks at its flag before every read, and a
\* read ends after at most 100 milliseconds.
FairSpec ==
  /\ Spec
  /\ \A k \in 1..MaxCalls : WF_vars(k \in DOMAIN calls /\ CallNext(k))
  /\ \A n \in Connections : WF_vars(ReaderStops(n))
  /\ \A c \in Claims : WF_vars(ClaimNext(c))
-----------------------------------------------------------------------------
\* A port that is shown as connected is read, or is about to be, and by one
\* reader: two would tear its lines apart, whatever is opened over what.
PortIsRead ==
  /\ port # 0 => reader[port] # "ended"
  /\ Cardinality({n \in Connections : reader[n] = "running"}) <= 1

\* A claim that succeeds had every acknowledgement and its proof from one
\* connection, also when the port was closed and opened under it.
ClaimOnOnePort ==
  \A c \in Claims : claims[c].ok => Cardinality(claims[c].from) = 1

\* Every open and close returns, although close waits for a reader and others
\* want the lock, and every claim ends.
EveryCallEnds ==
  /\ \A k \in 1..MaxCalls : (k \in DOMAIN calls) ~> (k \in DOMAIN calls /\ calls[k].at = "done")
  /\ \A c \in Claims : claims[c].at # "idle" ~> claims[c].at = "done"
=============================================================================
