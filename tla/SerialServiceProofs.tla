------------------------- MODULE SerialServiceProofs -------------------------
(***************************************************************************)
(* A shown port is read, and a claim is confirmed by one connection, for   *)
(* any number of calls, connections, claims and failures: theorems about   *)
(* SerialService.  They rest on open and close coming one after another,   *)
(* as the connection page sends them.                                      *)
(***************************************************************************)
EXTENDS SerialService, FiniteSetTheorems, SequenceTheorems, TLAPS

USE DEF Connections, inner, threads, wire

(* The values of the variables of open and close, and of the readers. *)
Ends == 0..MaxConnections
Places == {"off", "detach", "join", "open", "spawn", "keep", "done"}
CallType ==
  [kind : {"open", "close"}, at : Places, joins : Ends, conn : Ends]

PortTypes ==
  /\ port \in Ends /\ stop \in Ends /\ handle \in Ends /\ opened \in Ends
  /\ flag \in [Connections -> BOOLEAN]
  /\ reader \in [Connections -> {"none", "running", "ended"}]
  /\ calls \in Seq(CallType)
  /\ failures \in Nat

(* Only the latest call is under way; before it has opened a port of its   *)
(* own nothing is shown and nobody claims.                                 *)
CallInv ==
  \A k \in DOMAIN calls :
    /\ calls[k].at # "done" => k = Len(calls)
    /\ calls[k].at \in {"join", "open"} => port = 0 /\ waiter = 0
    /\ calls[k].at \in {"spawn", "keep"} => calls[k].conn = opened /\ opened # 0

(* The port and the stop flag are those of the latest opening; while the   *)
(* port is shown its reader is neither told to stop nor ended.             *)
ShownInv ==
  /\ port \in {0, opened} /\ stop \in {0, opened}
  /\ port # 0 => ~flag[port] /\ reader[port] # "ended"
  /\ \A n \in Connections : n > opened => ~flag[n] /\ reader[n] = "none"

(* A running reader is that of the latest opening, and the handle is at    *)
(* hand for whoever has to wait for it.                                    *)
ReaderInv ==
  \A n \in Connections : reader[n] = "running" =>
    /\ n = opened
    /\ \A k \in DOMAIN calls :
         /\ calls[k].at \notin {"open", "spawn"}
         /\ calls[k].at = "join" => calls[k].joins = n
    /\ (\A k \in DOMAIN calls : calls[k].at \in {"off", "detach", "done"}) => handle = n

PortInv == PortTypes /\ CallInv /\ ShownInv /\ ReaderInv

(* The values of the variables of the claims. *)
LineType == [from : Connections, session : Claims, kind : {"ack", "error", "proof"}, part : Nat]
ClaimType ==
  [at : {"idle", "write", "await", "proof", "ending", "done"}, part : Nat, attempt : Nat,
   proofs : SUBSET Claims, from : SUBSET Connections, ok : BOOLEAN]

ClaimTypes ==
  /\ waiter \in Claims \cup {0}
  /\ claims \in [Claims -> ClaimType]
  /\ inbox \in [Claims -> Seq(LineType)]
  /\ incoming \in [Connections -> Seq(LineType)]

(* The connections a claim has heard of. *)
Sources(c) == claims[c].from \cup {inbox[c][i].from : i \in DOMAIN inbox[c]}

(* A line comes from the connection it arrives on. *)
WireInv == \A n \in Connections : \A i \in DOMAIN incoming[n] : incoming[n][i].from = n

(* A claim hears of one connection, the latest if it still waits, and of   *)
(* none before it starts; it succeeds with a proof somebody sent.          *)
SourceInv ==
  \A c \in Claims :
    /\ \A x, y \in Sources(c) : x = y
    /\ waiter = c => Sources(c) \subseteq {opened}
    /\ claims[c].at = "idle" => Sources(c) = {} /\ waiter # c
    /\ claims[c].proofs # {} => claims[c].from # {}
    /\ claims[c].ok => claims[c].proofs # {}

ClaimInv == ClaimTypes /\ WireInv /\ SourceInv

-----------------------------------------------------------------------------
(* Open, close and the readers *)

(* Raising a flag raises no other.                                         *)
LEMMA RaisedIs ==
  ASSUME flag \in [Connections -> BOOLEAN], NEW n \in Ends
  PROVE  /\ Raised(n) \in [Connections -> BOOLEAN]
         /\ \A m \in Connections : Raised(n)[m] <=> flag[m] \/ m = n
<1>1. CASE n = 0
  BY <1>1 DEF Raised
<1>2. CASE n # 0
  <2>1. Raised(n) = [flag EXCEPT ![n] = TRUE]
    BY <1>2 DEF Raised
  <2> QED BY <2>1
<1> QED BY <1>1, <1>2

(* The call k goes to another place, with what it joins and has opened;    *)
(* the others stay.                                                        *)
Moved(k, at, joins, conn) ==
  /\ calls' \in Seq(CallType)
  /\ Len(calls') = Len(calls) /\ DOMAIN calls' = DOMAIN calls
  /\ calls'[k].at = at /\ calls'[k].joins = joins /\ calls'[k].conn = conn
  /\ \A j \in DOMAIN calls : j # k => calls'[j] = calls[j]

(* A changed entry of the sequence of calls. *)
LEMMA ExceptMoved ==
  ASSUME calls \in Seq(CallType), NEW k \in DOMAIN calls, NEW r \in CallType,
         calls' = [calls EXCEPT ![k] = r]
  PROVE  Moved(k, r.at, r.joins, r.conn)
<1>1. k \in 1..Len(calls)
  OBVIOUS
<1>2. calls' \in Seq(CallType) /\ Len(calls') = Len(calls)
  BY <1>1, ExceptSeq
<1> QED BY <1>1, <1>2 DEF Moved

(* A call that only changes its place. *)
LEMMA GoMoved ==
  ASSUME calls \in Seq(CallType), NEW k \in DOMAIN calls, NEW from, NEW to \in Places,
         Go(k, from, to)
  PROVE  calls[k].at = from /\ Moved(k, to, calls[k].joins, calls[k].conn)
<1> DEFINE r == [calls[k] EXCEPT !.at = to]
<1>1. calls[k] \in CallType
  OBVIOUS
<1>2. r \in CallType /\ r.at = to /\ r.joins = calls[k].joins /\ r.conn = calls[k].conn
  BY <1>1 DEF CallType
<1>3. calls' = [calls EXCEPT ![k] = r] /\ calls[k].at = from
  BY DEF Go
<1> HIDE DEF r
<1> QED BY <1>2, <1>3, ExceptMoved

(* A call is a record of numbers that fit. *)
LEMMA CallIs ==
  ASSUME PortInv, NEW k \in DOMAIN calls
  PROVE  /\ calls \in Seq(CallType) /\ calls[k] \in CallType
         /\ calls[k].joins \in Ends /\ calls[k].conn \in Ends
<1>1. calls \in Seq(CallType)
  BY DEF PortInv, PortTypes
<1>2. calls[k] \in CallType
  BY <1>1
<1> QED BY <1>1, <1>2 DEF CallType

(* While a call is under way it is the latest and the others are done. *)
LEMMA OthersDone ==
  ASSUME PortInv, NEW k \in DOMAIN calls, calls[k].at # "done"
  PROVE  k = Len(calls) /\ \A j \in DOMAIN calls : j # k => calls[j].at = "done"
  BY DEF PortInv, CallInv

(* A failed write takes the port away and raises its flag. *)
LEMMA CommandPort == ASSUME PortInv, Command PROVE PortInv'
<1>1. /\ Raised(stop) \in [Connections -> BOOLEAN]
      /\ \A m \in Connections : Raised(stop)[m] <=> flag[m] \/ m = stop
  BY RaisedIs DEF PortInv, PortTypes
<1>2. PortTypes'
  BY <1>1, SerialAssumption DEF Command, Open, Written, WriteFails, Fails, PortInv,
     PortTypes, Ends, CallInv, ShownInv
<1>3. CallInv'
  BY <1>1, SerialAssumption DEF Command, Written, WriteFails, PortInv, Ends, CallInv,
     ShownInv, ReaderInv
<1>4. ShownInv'
  BY <1>1, SerialAssumption DEF Command, Written, WriteFails, PortInv, Ends, CallInv,
     ShownInv, ReaderInv
<1>5. ReaderInv'
  BY <1>1, SerialAssumption DEF Command, PortInv, Ends, CallInv, ShownInv, ReaderInv
<1> QED BY <1>2, <1>3, <1>4, <1>5 DEF PortInv

(* A close writes its last line; a failed write takes the port away. *)
LEMMA SendOffPort == ASSUME PortInv, NEW k \in DOMAIN calls, SendOff(k) PROVE PortInv'
<1>1. calls \in Seq(CallType) /\ calls[k] \in CallType /\ calls[k].joins \in Ends /\ calls[k].conn \in Ends
  BY CallIs
<1>2. calls[k].at = "off" /\ Moved(k, "detach", calls[k].joins, calls[k].conn)
  BY <1>1, GoMoved DEF SendOff, Places
<1>3. /\ Raised(stop) \in [Connections -> BOOLEAN]
      /\ \A m \in Connections : Raised(stop)[m] <=> flag[m] \/ m = stop
  BY <1>1, RaisedIs DEF PortInv, PortTypes
<1>4. k = Len(calls) /\ \A j \in DOMAIN calls : j # k => calls[j].at = "done"
  BY <1>2, OthersDone
<1>5. /\ UNCHANGED <<stop, handle, waiter, reader, opened>>
      /\ \/ UNCHANGED <<port, flag, failures>>
         \/ port' = 0 /\ flag' = Raised(stop) /\ failures' = failures + 1
  BY DEF SendOff, Written, WriteFails, Fails
<1>6. PortTypes'
  <2>1. calls' \in Seq(CallType) /\ port' \in Ends /\ failures' \in Nat
    BY <1>2, <1>5, SerialAssumption DEF Moved, PortInv, PortTypes, Ends
  <2>2. flag' \in [Connections -> BOOLEAN]
    BY <1>3, <1>5 DEF PortInv, PortTypes
  <2> QED BY <1>5, <2>1, <2>2 DEF PortInv, PortTypes
<1>7. CallInv'
  BY <1>1, <1>2, <1>3, <1>4, SerialAssumption DEF Moved, PortTypes, Ends, CallInv,
     ShownInv, ReaderInv
<1>8. ShownInv'
  BY <1>1, <1>2, <1>3, SerialAssumption DEF SendOff, Open, Written, WriteFails, Fails,
     Moved, PortInv, PortTypes, Ends, CallInv, ShownInv, ReaderInv
<1>9. ReaderInv'
  BY <1>2, <1>4, <1>5 DEF Moved, PortInv, ReaderInv
<1> QED BY <1>6, <1>7, <1>8, <1>9 DEF PortInv

(* A call takes the port, the flag and the handle, and ends the wait. *)
LEMMA DetachPort == ASSUME PortInv, NEW k \in DOMAIN calls, Detach(k) PROVE PortInv'
<1>1. calls \in Seq(CallType) /\ calls[k] \in CallType /\ calls[k].joins \in Ends /\ calls[k].conn \in Ends
  BY CallIs
<1>2. calls[k].at = "detach" /\ Moved(k, "join", handle, calls[k].conn)
  <2> DEFINE r == [calls[k] EXCEPT !.at = "join", !.joins = handle]
  <2>1. r \in CallType /\ r.at = "join" /\ r.joins = handle /\ r.conn = calls[k].conn
    BY <1>1 DEF CallType, Places, PortInv, PortTypes
  <2>2. calls' = [calls EXCEPT ![k] = r] /\ calls[k].at = "detach"
    BY DEF Detach
  <2> HIDE DEF r
  <2> QED BY <1>1, <2>1, <2>2, ExceptMoved
<1>3. /\ Raised(stop) \in [Connections -> BOOLEAN]
      /\ \A m \in Connections : Raised(stop)[m] <=> flag[m] \/ m = stop
  BY <1>1, RaisedIs DEF PortInv, PortTypes
<1>4. k = Len(calls) /\ \A j \in DOMAIN calls : j # k => calls[j].at = "done"
  BY <1>2, OthersDone
<1>5. PortTypes'
  BY <1>1, <1>2, <1>3, SerialAssumption DEF Detach, RaisedByClose, WaiterAfterClose,
     Moved, PortInv, PortTypes, Ends, CallInv, ShownInv
<1>6. CallInv'
  BY <1>1, <1>2, <1>3, <1>4, SerialAssumption DEF Detach, WaiterAfterClose, CallInv,
     ShownInv, ReaderInv
<1>7. ShownInv'
  BY SMTT(60), <1>1, <1>2, <1>3, SerialAssumption DEF Detach, RaisedByClose, PortInv, CallInv,
     ShownInv, ReaderInv
<1>8. ReaderInv'
  BY <1>1, <1>2, <1>3, <1>4, SerialAssumption DEF Detach, RaisedByClose, PortInv,
     CallInv, ShownInv, ReaderInv
<1> QED BY <1>5, <1>6, <1>7, <1>8 DEF PortInv

(* The reader a call has joined has ended: no reader runs any more. *)
LEMMA JoinPort == ASSUME PortInv, NEW k \in DOMAIN calls, Join(k) PROVE PortInv'
<1>1. calls \in Seq(CallType) /\ calls[k] \in CallType /\ calls[k].joins \in Ends /\ calls[k].conn \in Ends
  BY CallIs
<1>2. /\ calls[k].at = "join"
      /\ \E to \in {"open", "done"} : Moved(k, to, calls[k].joins, calls[k].conn)
  <2>1. (IF calls[k].kind = "open" THEN "open" ELSE "done") \in Places
    BY DEF Places
  <2> QED BY <1>1, <2>1, GoMoved DEF Join
<1>3. k = Len(calls) /\ \A j \in DOMAIN calls : j # k => calls[j].at = "done"
  BY <1>2, OthersDone
<1>4. PortTypes'
  BY <1>1, <1>2, SerialAssumption DEF Join, Moved, PortInv, PortTypes, ShownInv
<1>5. CallInv'
  BY <1>1, <1>2, <1>3, SerialAssumption DEF Join, Joined, Moved, PortInv, PortTypes,
     Ends, CallInv, ShownInv, ReaderInv
<1>6. ShownInv'
  BY <1>1, <1>2, SerialAssumption DEF Join, PortInv, ShownInv, ReaderInv
<1>7. ReaderInv'
  BY <1>1, <1>2, <1>3, SerialAssumption DEF Join, Joined, PortInv, ShownInv, ReaderInv
<1> QED BY <1>4, <1>5, <1>6, <1>7 DEF PortInv

(* A new port is shown, with no reader yet and its flag down. *)
LEMMA PublishPort == ASSUME PortInv, NEW k \in DOMAIN calls, Publish(k) PROVE PortInv'
<1>1. calls \in Seq(CallType) /\ calls[k] \in CallType /\ calls[k].joins \in Ends /\ calls[k].conn \in Ends
  BY CallIs
<1>2. calls[k].at = "open" /\ Moved(k, "spawn", calls[k].joins, opened + 1)
  <2> DEFINE r == [calls[k] EXCEPT !.at = "spawn", !.conn = opened + 1]
  <2>1. opened + 1 \in Ends
    BY SerialAssumption DEF Publish, PortInv, PortTypes, Ends
  <2>2. r \in CallType /\ r.at = "spawn" /\ r.joins = calls[k].joins /\ r.conn = opened + 1
    BY <1>1, <2>1 DEF CallType, Places
  <2>3. calls' = [calls EXCEPT ![k] = r] /\ calls[k].at = "open"
    BY DEF Publish
  <2> HIDE DEF r
  <2> QED BY <1>1, <2>2, <2>3, ExceptMoved
<1>3. k = Len(calls) /\ \A j \in DOMAIN calls : j # k => calls[j].at = "done"
  BY <1>2, OthersDone
<1>4. PortTypes'
  BY SMTT(60), <1>1, <1>2, SerialAssumption DEF Publish, Moved, PortInv, PortTypes, Ends
<1>5. CallInv'
  BY SMTT(60), <1>1, <1>2, <1>3, SerialAssumption DEF Publish, PortInv, PortTypes, Ends,
     CallInv, ReaderInv
<1>6. ShownInv'
  BY SMTT(60), <1>1, <1>2, SerialAssumption DEF Publish, Moved, PortInv, PortTypes, Ends,
     CallInv, ShownInv, ReaderInv
<1>7. ReaderInv'
  BY <1>1, <1>2, <1>3, SerialAssumption DEF Publish, PortInv, ReaderInv
<1> QED BY <1>4, <1>5, <1>6, <1>7 DEF PortInv

(* The port cannot be opened: nothing is shown and nobody reads. *)
LEMMA OpenFailsPort == ASSUME PortInv, NEW k \in DOMAIN calls, OpenFails(k) PROVE PortInv'
<1>1. calls \in Seq(CallType) /\ calls[k] \in CallType /\ calls[k].joins \in Ends /\ calls[k].conn \in Ends
  BY CallIs
<1>2. calls[k].at = "open" /\ Moved(k, "done", calls[k].joins, calls[k].conn)
  BY <1>1, GoMoved DEF OpenFails, Places
<1>3. k = Len(calls) /\ \A j \in DOMAIN calls : j # k => calls[j].at = "done"
  BY <1>2, OthersDone
<1>4. PortTypes'
  BY <1>1, <1>2, SerialAssumption DEF OpenFails, Moved, PortInv, PortTypes
<1>5. CallInv'
  BY <1>1, <1>2, <1>3, SerialAssumption DEF Moved, CallInv, ReaderInv
<1>6. ShownInv'
  BY <1>1, <1>2, SerialAssumption DEF OpenFails, Moved, PortInv, PortTypes, Ends,
     CallInv, ShownInv, ReaderInv
<1>7. ReaderInv'
  BY <1>1, <1>2, <1>3, SerialAssumption DEF OpenFails, PortInv, ReaderInv
<1> QED BY <1>4, <1>5, <1>6, <1>7 DEF PortInv

(* The reader of the port that has just been opened begins to run. *)
LEMMA SpawnPort == ASSUME PortInv, NEW k \in DOMAIN calls, Spawn(k) PROVE PortInv'
<1>1. calls \in Seq(CallType) /\ calls[k] \in CallType /\ calls[k].joins \in Ends /\ calls[k].conn \in Ends
  BY CallIs
<1>2. calls[k].at = "spawn" /\ Moved(k, "keep", calls[k].joins, calls[k].conn)
  BY <1>1, GoMoved DEF Spawn, Places
<1>3. k = Len(calls) /\ \A j \in DOMAIN calls : j # k => calls[j].at = "done"
  BY <1>2, OthersDone
<1>4. PortTypes'
  BY <1>1, <1>2, SerialAssumption DEF Spawn, Moved, PortInv, PortTypes
<1>5. CallInv'
  BY <1>1, <1>2, <1>3, SerialAssumption DEF Spawn, Moved, PortInv, CallInv, ReaderInv
<1>6. ShownInv'
  BY <1>1, <1>2, SerialAssumption DEF Spawn, Moved, PortInv, PortTypes, Ends, CallInv,
     ShownInv, ReaderInv
<1>7. ReaderInv'
  <2> SUFFICES ASSUME NEW n \in Connections, reader'[n] = "running"
               PROVE  /\ n = opened'
                      /\ \A j \in DOMAIN calls' :
                           /\ calls'[j].at \notin {"open", "spawn"}
                           /\ calls'[j].at = "join" => calls'[j].joins = n
                      /\ ~\A j \in DOMAIN calls' : calls'[j].at \in {"off", "detach", "done"}
    BY DEF ReaderInv
  <2>1. calls[k].conn = opened /\ opened' = opened
    BY <1>2 DEF Spawn, PortInv, CallInv
  <2>2. n = opened
    BY <2>1 DEF Spawn, PortInv, ReaderInv
  <2> QED BY <1>2, <1>3, <2>1, <2>2 DEF Moved
<1> QED BY <1>4, <1>5, <1>6, <1>7 DEF PortInv

(* No reader: the flag of the port is raised and the port taken away. *)
LEMMA SpawnFailsPort == ASSUME PortInv, NEW k \in DOMAIN calls, SpawnFails(k) PROVE PortInv'
<1>1. calls \in Seq(CallType) /\ calls[k] \in CallType /\ calls[k].joins \in Ends /\ calls[k].conn \in Ends
  BY CallIs
<1>2. calls[k].at = "spawn" /\ Moved(k, "done", calls[k].joins, calls[k].conn)
  BY <1>1, GoMoved DEF SpawnFails, Places
<1>3. /\ Raised(calls[k].conn) \in [Connections -> BOOLEAN]
      /\ \A m \in Connections : Raised(calls[k].conn)[m] <=> flag[m] \/ m = calls[k].conn
  BY <1>1, RaisedIs DEF PortInv, PortTypes
<1>4. k = Len(calls) /\ \A j \in DOMAIN calls : j # k => calls[j].at = "done"
  BY <1>2, OthersDone
<1>5. PortTypes'
  BY <1>1, <1>2, <1>3, SerialAssumption DEF SpawnFails, Fails, Moved, PortInv,
     PortTypes, Ends, ShownInv
<1>6. CallInv'
  BY <1>1, <1>2, <1>3, <1>4, SerialAssumption DEF SpawnFails, Fails, Moved, PortInv,
     PortTypes, Ends, CallInv, ShownInv, ReaderInv
<1>7. ShownInv'
  BY SMTT(60), <1>1, <1>2, <1>3, SerialAssumption DEF SpawnFails, Fails, Moved, PortInv,
     PortTypes, Ends, CallInv, ShownInv, ReaderInv
<1>8. ReaderInv'
  BY <1>1, <1>2, <1>3, <1>4, SerialAssumption DEF SpawnFails, PortInv, ShownInv,
     ReaderInv
<1> QED BY <1>5, <1>6, <1>7, <1>8 DEF PortInv

(* The handle is that of the reader that runs. *)
LEMMA KeepPort == ASSUME PortInv, NEW k \in DOMAIN calls, Keep(k) PROVE PortInv'
<1>1. calls \in Seq(CallType) /\ calls[k] \in CallType /\ calls[k].joins \in Ends /\ calls[k].conn \in Ends
  BY CallIs
<1>2. calls[k].at = "keep" /\ Moved(k, "done", calls[k].joins, calls[k].conn)
  BY <1>1, GoMoved DEF Keep, Places
<1>3. k = Len(calls) /\ \A j \in DOMAIN calls : j # k => calls[j].at = "done"
  BY <1>2, OthersDone
<1>4. PortTypes'
  BY <1>1, <1>2, SerialAssumption DEF Keep, Moved, PortInv, PortTypes
<1>5. CallInv'
  BY <1>1, <1>2, <1>3, SerialAssumption DEF Moved, CallInv, ReaderInv
<1>6. ShownInv'
  BY <1>1, <1>2, SerialAssumption DEF Keep, Moved, PortInv, PortTypes, Ends, CallInv,
     ShownInv, ReaderInv
<1>7. ReaderInv'
  <2>1. calls[k].conn = opened /\ handle' = opened /\ UNCHANGED <<opened, reader>>
    BY <1>2 DEF Keep, PortInv, CallInv
  <2> QED BY <1>2, <1>3, <2>1 DEF Moved, PortInv, ReaderInv
<1> QED BY <1>4, <1>5, <1>6, <1>7 DEF PortInv

(* A line passes; the port and its reader stay as they are. *)
LEMMA ReadLinePort == ASSUME PortInv, NEW n \in Connections, ReadLine(n) PROVE PortInv'
<1>1. PortTypes'
  BY SerialAssumption DEF ReadLine, PortInv, PortTypes
<1>2. CallInv'
  BY SerialAssumption DEF ReadLine, PortInv, CallInv
<1>3. ShownInv'
  BY SerialAssumption DEF ReadLine, PortInv, ShownInv
<1>4. ReaderInv'
  BY SerialAssumption DEF ReadLine, PortInv, PortTypes, Ends, CallInv, ShownInv,
     ReaderInv
<1> QED BY <1>1, <1>2, <1>3, <1>4 DEF PortInv

(* A reader ends because its flag is raised: its port is not shown. *)
LEMMA ReaderStopsPort == ASSUME PortInv, NEW n \in Connections, ReaderStops(n) PROVE PortInv'
<1>1. PortTypes'
  BY SerialAssumption DEF ReaderStops, PortInv, PortTypes
<1>2. CallInv'
  BY SerialAssumption DEF ReaderStops, PortInv, CallInv
<1>3. ShownInv'
  BY SerialAssumption DEF ReaderStops, PortInv, ShownInv
<1>4. ReaderInv'
  BY SerialAssumption DEF ReaderStops, PortInv, PortTypes, Ends, CallInv, ShownInv,
     ReaderInv
<1> QED BY <1>1, <1>2, <1>3, <1>4 DEF PortInv

(* A reader ends with an error and takes its own port away. *)
LEMMA ReadFailsPort == ASSUME PortInv, NEW n \in Connections, ReadFails(n) PROVE PortInv'
<1>1. PortTypes'
  BY SerialAssumption DEF ReadFails, Fails, PortAfterError, PortInv, PortTypes, Ends,
     ShownInv
<1>2. CallInv'
  BY SerialAssumption DEF ReadFails, Fails, PortAfterError, PortInv, PortTypes, Ends,
     CallInv, ShownInv, ReaderInv
<1>3. ShownInv'
  BY SerialAssumption DEF ReadFails, PortAfterError, PortInv, ShownInv, ReaderInv
<1>4. ReaderInv'
  BY SerialAssumption DEF ReadFails, PortInv, ShownInv, ReaderInv
<1> QED BY <1>1, <1>2, <1>3, <1>4 DEF PortInv

(* A call begins. *)
LEMMA CallPort ==
  ASSUME PortInv, ~OverlappingCalls, NEW kind \in {"open", "close"}, Call(kind)
  PROVE  PortInv'
<1> DEFINE r == [kind |-> kind, at |-> IF kind = "close" THEN "off" ELSE "detach",
                 joins |-> 0, conn |-> 0]
<1>1. r \in CallType /\ r.at \in {"off", "detach"}
  BY SerialAssumption DEF CallType, Places, Ends
<1>2. calls' = Append(calls, r) /\ \A k \in DOMAIN calls : calls[k].at = "done"
  BY DEF Call
<1> HIDE DEF r
<1>3. /\ calls' \in Seq(CallType) /\ DOMAIN calls' = DOMAIN calls \cup {Len(calls) + 1}
      /\ Len(calls') = Len(calls) + 1 /\ calls'[Len(calls) + 1] = r
      /\ \A k \in DOMAIN calls : calls'[k] = calls[k]
  BY <1>1, <1>2 DEF PortInv, PortTypes
<1>4. PortTypes'
  BY <1>3 DEF Call, PortInv, PortTypes
<1>5. CallInv'
  BY <1>1, <1>2, <1>3 DEF CallInv
<1>6. ShownInv'
  BY DEF Call, PortInv, ShownInv
<1>7. ReaderInv'
  BY <1>1, <1>2, <1>3 DEF Call, PortInv, ReaderInv
<1> QED BY <1>4, <1>5, <1>6, <1>7 DEF PortInv

-----------------------------------------------------------------------------
(* Claims: they leave the calls, the readers and the flags alone *)

(* The variables of PortInv that a claim does not touch. *)
ClaimLeaves ==
  /\ UNCHANGED <<port, stop, handle, flag, reader, calls, opened>>
  /\ failures' \in Nat

(* A claim starts on a shown port, so no call is between its close and its *)
(* open; later it may only give up its place.                              *)
LEMMA ClaimPort ==
  ASSUME PortInv, ClaimLeaves, waiter' \in {waiter, 0} \/ port # 0
  PROVE  PortInv'
<1>1. PortTypes' /\ ShownInv' /\ ReaderInv'
  BY DEF ClaimLeaves, PortInv, PortTypes, ShownInv, ReaderInv
<1>2. CallInv'
  BY DEF ClaimLeaves, PortInv, CallInv
<1> QED BY <1>1, <1>2 DEF PortInv

(* Every step keeps PortInv. *)
LEMMA PortStep == ASSUME ~OverlappingCalls, PortInv, [Next]_vars PROVE PortInv'
<1>1. CASE Command \/ Call("open") \/ Call("close")
  BY <1>1, CommandPort, CallPort
<1>2. CASE \E k \in DOMAIN calls : CallNext(k)
  BY <1>2, SendOffPort, DetachPort, JoinPort, PublishPort, OpenFailsPort, SpawnPort,
     SpawnFailsPort, KeepPort DEF CallNext
<1>3. CASE \E n \in Connections : ReadLine(n) \/ ReaderStops(n) \/ ReadFails(n)
  BY <1>3, ReadLinePort, ReaderStopsPort, ReadFailsPort
<1>4. CASE \E c \in Claims : ClaimStarts(c) \/ ClaimNext(c)
  <2> SUFFICES ASSUME NEW c \in Claims, ClaimStarts(c) \/ ClaimNext(c) PROVE PortInv'
    BY <1>4
  <2>1. failures \in Nat
    BY DEF PortInv, PortTypes
  <2>2. CASE ClaimStarts(c)
    BY <2>1, <2>2, ClaimPort DEF ClaimStarts, ClaimLeaves
  <2>3. CASE WritePart(c)
    BY <2>1, <2>3, ClaimPort DEF WritePart, ClaimLeaves
  <2>4. CASE WritePartFails(c)
    BY <2>1, <2>4, ClaimPort DEF WritePartFails, Fails, ClaimLeaves
  <2>5. CASE Receive(c) \/ NoAck(c) \/ ProofComplete(c) \/ NoProof(c)
    BY <2>1, <2>5, ClaimPort DEF Receive, NoAck, ProofComplete, NoProof, ClaimLeaves
  <2>6. CASE ClaimEnds(c)
    BY <2>1, <2>6, ClaimPort DEF ClaimEnds, ClaimLeaves
  <2> QED BY <2>2, <2>3, <2>4, <2>5, <2>6 DEF ClaimNext
<1>5. CASE UNCHANGED vars
  BY <1>5, ClaimPort DEF vars, ClaimLeaves, PortInv, PortTypes
<1> QED BY <1>1, <1>2, <1>3, <1>4, <1>5 DEF Next

(* It holds at first. *)
LEMMA PortInit == Init => PortInv
<1> SUFFICES ASSUME Init PROVE PortInv
  OBVIOUS
<1>1. PortTypes
  BY SerialAssumption DEF Init, PortTypes, Ends
<1>2. CallInv /\ ReaderInv
  BY DEF Init, CallInv, ReaderInv
<1>3. ShownInv
  BY DEF Init, ShownInv
<1> QED BY <1>1, <1>2, <1>3 DEF PortInv

-----------------------------------------------------------------------------
(* The shown port has a reader that is not about to end, and it is the     *)
(* only one: open waits for the reader of the port it replaces.            *)
THEOREM PortIsAlwaysRead == ASSUME ~OverlappingCalls PROVE Spec => []PortIsRead
<1>1. Init => PortInv
  BY PortInit
<1>2. PortInv /\ [Next]_vars => PortInv'
  BY PortStep
<1>3. PortInv => PortIsRead
  <2> SUFFICES ASSUME PortInv PROVE PortIsRead
    OBVIOUS
  <2> DEFINE R == {n \in Connections : reader[n] = "running"}
  <2>1. R = {} \/ R = {opened}
    BY DEF PortInv, ReaderInv
  <2>2. Cardinality(R) = 0 \/ Cardinality(R) = 1
    BY <2>1, FS_EmptySet, FS_Singleton
  <2>3. port # 0 => reader[port] # "ended"
    BY DEF PortInv, ShownInv
  <2> QED BY <2>2, <2>3 DEF PortIsRead
<1> QED BY <1>1, <1>2, <1>3, PTL DEF Spec

-----------------------------------------------------------------------------
(* The lines a claim receives *)

(* Lines may be lost on the way, all of a connection or the first of them. *)
LEMMA WireKept ==
  ASSUME ClaimTypes, WireInv, NEW n \in Connections, NEW s \in {<<>>, Tail(incoming[n])},
         incoming[n] # <<>> \/ s = <<>>, incoming' = [incoming EXCEPT ![n] = s]
  PROVE  incoming' \in [Connections -> Seq(LineType)] /\ WireInv'
<1>1. incoming[n] \in Seq(LineType)
  BY DEF ClaimTypes
<1>2. s \in Seq(LineType) /\ \A i \in DOMAIN s : s[i].from = n
  <2>1. CASE s = <<>>
    BY <2>1
  <2>2. CASE s # <<>>
    <3>1. incoming[n] # <<>> /\ s = Tail(incoming[n])
      BY <2>2
    <3>2. /\ s \in Seq(LineType) /\ Len(s) = Len(incoming[n]) - 1
          /\ \A i \in 1..Len(s) : s[i] = incoming[n][i + 1]
      BY <1>1, <3>1, HeadTailProperties
    <3>3. \A i \in DOMAIN s : i + 1 \in DOMAIN incoming[n] /\ s[i] = incoming[n][i + 1]
      BY <1>1, <3>2
    <3> QED BY <3>2, <3>3 DEF WireInv
  <2> QED BY <2>1, <2>2
<1>3. \A m \in Connections : incoming'[m] = IF m = n THEN s ELSE incoming[m]
  BY DEF ClaimTypes
<1>4. incoming' \in [Connections -> Seq(LineType)]
  BY <1>2 DEF ClaimTypes
<1>5. WireInv'
  BY <1>2, <1>3 DEF WireInv
<1> QED BY <1>4, <1>5

(* The claims stay, and hear of a later connection only if none waits. *)
LEMMA ClaimsKept ==
  ASSUME ClaimInv, UNCHANGED <<claims, inbox>>,
         waiter' = 0 \/ (waiter' = waiter /\ opened' = opened),
         incoming' \in [Connections -> Seq(LineType)], WireInv', 0 \notin Claims
  PROVE  ClaimInv'
<1>1. ClaimTypes'
  BY DEF ClaimInv, ClaimTypes
<1>2. \A c \in Claims : Sources(c)' = Sources(c)
  BY DEF Sources
<1>3. SourceInv'
  BY <1>2 DEF ClaimInv, SourceInv
<1> QED BY <1>1, <1>3 DEF ClaimInv

(* One claim changes, and hears of nothing new. *)
LEMMA ClaimChanged ==
  ASSUME ClaimInv, NEW c \in Claims, NEW r \in ClaimType,
         claims' = [claims EXCEPT ![c] = r], r.at # "idle",
         r.proofs # {} => r.from # {}, r.ok => r.proofs # {},
         inbox' \in [Claims -> Seq(LineType)], \A d \in Claims \ {c} : inbox'[d] = inbox[d],
         r.from \cup {inbox'[c][i].from : i \in DOMAIN inbox'[c]} \subseteq Sources(c),
         waiter' \in {waiter, 0} \/ (waiter' = c /\ claims[c].at = "idle"),
         opened' = opened, incoming' \in [Connections -> Seq(LineType)], WireInv',
         0 \notin Claims
  PROVE  ClaimInv'
<1>1. claims' \in [Claims -> ClaimType] /\ waiter' \in Claims \cup {0}
  BY DEF ClaimInv, ClaimTypes
<1>2. \A d \in Claims : claims'[d] = IF d = c THEN r ELSE claims[d]
  BY DEF ClaimInv, ClaimTypes
<1>3. Sources(c)' \subseteq Sources(c)
  BY <1>2 DEF Sources
<1>4. \A d \in Claims \ {c} : Sources(d)' = Sources(d)
  BY <1>2 DEF Sources
<1>5. SourceInv'
  <2> SUFFICES ASSUME NEW d \in Claims
               PROVE  /\ \A x, y \in Sources(d)' : x = y
                      /\ waiter' = d => Sources(d)' \subseteq {opened'}
                      /\ claims'[d].at = "idle" => Sources(d)' = {} /\ waiter' # d
                      /\ claims'[d].proofs # {} => claims'[d].from # {}
                      /\ claims'[d].ok => claims'[d].proofs # {}
    BY DEF SourceInv
  <2>1. CASE d = c
    BY <1>2, <1>3, <2>1 DEF ClaimInv, SourceInv
  <2>2. CASE d # c
    BY <1>2, <1>4, <2>2 DEF ClaimInv, SourceInv
  <2> QED BY <2>1, <2>2
<1> QED BY <1>1, <1>5 DEF ClaimInv, ClaimTypes

(* A line reaches the claim that waits: its reader runs, so it is that of  *)
(* the latest opening.                                                     *)
LEMMA ReadLineClaims ==
  ASSUME PortInv, ClaimInv, NEW n \in Connections, ReadLine(n), 0 \notin Claims
  PROVE  ClaimInv'
<1> DEFINE line == Head(incoming[n])
<1>1. incoming' \in [Connections -> Seq(LineType)] /\ WireInv'
  BY WireKept DEF ReadLine, ClaimInv
<1>2. /\ incoming[n] \in Seq(LineType) /\ incoming[n] # <<>> /\ n = opened
      /\ UNCHANGED <<waiter, opened, claims>>
  BY DEF ReadLine, ClaimInv, ClaimTypes, PortInv, ReaderInv
<1>3. line \in LineType /\ line.from = n
  <2>1. line = incoming[n][1] /\ 1 \in DOMAIN incoming[n] /\ line \in LineType
    BY <1>2, HeadTailProperties
  <2> QED BY <2>1 DEF ClaimInv, WireInv
<1> HIDE DEF line
<1>4. CASE waiter = 0
  BY <1>1, <1>2, <1>4, ClaimsKept DEF ReadLine
<1>5. CASE waiter # 0
  <2>1. waiter \in Claims /\ inbox[waiter] \in Seq(LineType)
    BY <1>5 DEF ClaimInv, ClaimTypes
  <2>2. inbox' = [inbox EXCEPT ![waiter] = Append(inbox[waiter], line)]
    BY <1>5 DEF ReadLine, line
  <2> DEFINE s == Append(inbox[waiter], line)
  <2>3. /\ s \in Seq(LineType) /\ DOMAIN s = DOMAIN inbox[waiter] \cup {Len(inbox[waiter]) + 1}
        /\ s[Len(inbox[waiter]) + 1] = line
        /\ \A i \in DOMAIN inbox[waiter] : s[i] = inbox[waiter][i]
    BY <1>3, <2>1
  <2> HIDE DEF s
  <2>4. \A d \in Claims : inbox'[d] = IF d = waiter THEN s ELSE inbox[d]
    BY <2>2 DEF ClaimInv, ClaimTypes, s
  <2>5. inbox' \in [Claims -> Seq(LineType)]
    BY <2>1, <2>2, <2>3 DEF ClaimInv, ClaimTypes
  <2>6. Sources(waiter)' \subseteq {opened}
    <3>1. Sources(waiter) \subseteq {opened}
      BY <2>1 DEF ClaimInv, SourceInv
    <3>2. \A i \in DOMAIN s : s[i].from = opened
      <4>1. \A i \in DOMAIN inbox[waiter] : inbox[waiter][i].from = opened
        BY <3>1 DEF Sources
      <4> QED BY <1>2, <1>3, <2>3, <4>1
    <3>3. claims'[waiter] = claims[waiter] /\ inbox'[waiter] = s
      BY <1>2, <2>1, <2>4
    <3> QED BY <1>2, <3>1, <3>2, <3>3 DEF Sources
  <2>7. \A d \in Claims \ {waiter} : Sources(d)' = Sources(d)
    BY <1>2, <2>4 DEF Sources
  <2>8. SourceInv'
    <3> SUFFICES ASSUME NEW d \in Claims
                 PROVE  /\ \A x, y \in Sources(d)' : x = y
                        /\ waiter = d => Sources(d)' \subseteq {opened}
                        /\ claims[d].at = "idle" => Sources(d)' = {} /\ waiter # d
                        /\ claims[d].proofs # {} => claims[d].from # {}
                        /\ claims[d].ok => claims[d].proofs # {}
      BY <1>2 DEF SourceInv
    <3>1. CASE d = waiter
      <4>1. Sources(d)' \subseteq {opened}
        BY <1>2, <2>6, <3>1
      <4> QED BY <3>1, <4>1 DEF ClaimInv, SourceInv
    <3>2. CASE d # waiter
      BY <2>7, <3>2 DEF ClaimInv, SourceInv
    <3> QED BY <3>1, <3>2
  <2> QED BY <1>1, <1>2, <2>5, <2>8 DEF ClaimInv, ClaimTypes
<1> QED BY <1>4, <1>5

-----------------------------------------------------------------------------
(* The steps of a claim *)

(* A claim that changes its place and nothing else. *)
LEMMA MoveClaims ==
  ASSUME ClaimInv, NEW c \in Claims, NEW from,
         NEW to \in {"write", "await", "proof", "ending"},
         Move(c, from, to), UNCHANGED <<inbox, opened>>,
         waiter' = waiter \/ (waiter' = c /\ claims[c].at = "idle"),
         incoming' \in [Connections -> Seq(LineType)], WireInv', 0 \notin Claims
  PROVE  ClaimInv'
<1> DEFINE r == [claims[c] EXCEPT !.at = to]
<1>1. claims[c] \in ClaimType /\ claims' = [claims EXCEPT ![c] = r]
  BY DEF Move, ClaimInv, ClaimTypes
<1>2. /\ r \in ClaimType /\ r.at # "idle" /\ r.from = claims[c].from
      /\ r.proofs = claims[c].proofs /\ r.ok = claims[c].ok
  BY <1>1 DEF ClaimType
<1> HIDE DEF r
<1>3. /\ claims[c].proofs # {} => claims[c].from # {}
      /\ claims[c].ok => claims[c].proofs # {}
      /\ inbox \in [Claims -> Seq(LineType)]
  BY DEF ClaimInv, SourceInv, ClaimTypes
<1>4. r.from \cup {inbox'[c][i].from : i \in DOMAIN inbox'[c]} \subseteq Sources(c)
  BY <1>2 DEF Sources
<1> QED BY <1>1, <1>2, <1>3, <1>4, ClaimChanged

(* What a step leaves alone is as it should be. *)
LEMMA WireAlone ==
  ASSUME ClaimInv, incoming' = incoming
  PROVE  incoming' \in [Connections -> Seq(LineType)] /\ WireInv'
  BY DEF ClaimInv, ClaimTypes, WireInv

(* The device answers on the connection it was asked on. *)
LEMMA WritePartClaims ==
  ASSUME PortInv, ClaimInv, NEW c \in Claims, WritePart(c), 0 \notin Claims
  PROVE  ClaimInv'
<1>1. PICK lines \in Replies(port, c, claims[c].part) :
        incoming' = [incoming EXCEPT ![port] = @ \o lines]
  BY DEF WritePart
<1>2. port \in Connections
  BY DEF WritePart, PortInv, PortTypes, Ends
<1>3. claims[c].part \in Nat /\ incoming[port] \in Seq(LineType)
  BY <1>2 DEF ClaimInv, ClaimTypes, ClaimType
<1>4. lines \in Seq(LineType) /\ \A i \in DOMAIN lines : lines[i].from = port
  <2>1. \A kind \in {"ack", "error", "proof"} :
          /\ Line(port, c, kind, claims[c].part) \in LineType
          /\ Line(port, c, kind, claims[c].part).from = port
    BY <1>2, <1>3 DEF Line, LineType
  <2>2. \/ lines = <<>>
        \/ \E kind \in {"ack", "error", "proof"} : lines = <<Line(port, c, kind, claims[c].part)>>
        \/ lines = <<Line(port, c, "ack", claims[c].part), Line(port, c, "proof", claims[c].part)>>
    BY DEF Replies
  <2>3. CASE lines = <<>>
    BY <2>3
  <2>4. ASSUME NEW kind \in {"ack", "error", "proof"},
               lines = <<Line(port, c, kind, claims[c].part)>>
        PROVE  lines \in Seq(LineType) /\ \A i \in DOMAIN lines : lines[i].from = port
    <3> DEFINE l == Line(port, c, kind, claims[c].part)
    <3>1. l \in LineType /\ l.from = port /\ lines = <<l>>
      BY <2>1, <2>4
    <3> HIDE DEF l
    <3> QED BY <3>1
  <2>5. CASE lines = <<Line(port, c, "ack", claims[c].part), Line(port, c, "proof", claims[c].part)>>
    <3> DEFINE l == Line(port, c, "ack", claims[c].part)
               m == Line(port, c, "proof", claims[c].part)
    <3>1. l \in LineType /\ l.from = port /\ m \in LineType /\ m.from = port /\ lines = <<l, m>>
      BY <2>1, <2>5
    <3> HIDE DEF l, m
    <3> QED BY <3>1
  <2> QED BY <2>2, <2>3, <2>4, <2>5
<1> DEFINE s == incoming[port] \o lines
<1>5. s \in Seq(LineType) /\ \A i \in DOMAIN s : s[i].from = port
  <2>1. /\ s \in Seq(LineType) /\ Len(s) = Len(incoming[port]) + Len(lines)
        /\ \A i \in 1..Len(s) : s[i] = IF i <= Len(incoming[port]) THEN incoming[port][i]
                                       ELSE lines[i - Len(incoming[port])]
    BY <1>3, <1>4, ConcatProperties
  <2>2. \A i \in 1..Len(incoming[port]) : incoming[port][i].from = port
    BY <1>2, <1>3 DEF ClaimInv, WireInv
  <2>3. \A i \in 1..Len(lines) : lines[i].from = port
    BY <1>4
  <2> HIDE DEF s
  <2>4. ASSUME NEW i \in DOMAIN s PROVE s[i].from = port
    <3>1. i \in 1..Len(s) /\ Len(lines) \in Nat /\ Len(incoming[port]) \in Nat
      BY <1>3, <1>4, <2>1
    <3>2. CASE i <= Len(incoming[port])
      BY <2>1, <2>2, <3>1, <3>2
    <3>3. CASE i > Len(incoming[port])
      <4>1. i - Len(incoming[port]) \in 1..Len(lines)
        BY <2>1, <3>1, <3>3
      <4> QED BY <2>1, <2>3, <3>1, <3>3, <4>1
    <3> QED BY <3>1, <3>2, <3>3
  <2> QED BY <2>1, <2>4
<1>6. incoming' = [incoming EXCEPT ![port] = s]
  BY <1>1
<1> HIDE DEF s
<1>7. incoming' \in [Connections -> Seq(LineType)]
  BY <1>2, <1>5, <1>6 DEF ClaimInv, ClaimTypes
<1>8. WireInv'
  BY <1>2, <1>5, <1>6 DEF ClaimInv, WireInv
<1> QED BY <1>7, <1>8, MoveClaims DEF WritePart

(* What a line does to a claim: it hears of the sender, if of anybody. *)
LEMMA AfterIs ==
  ASSUME NEW c \in Claims, claims[c] \in ClaimType, claims[c].at \in {"await", "proof"},
         NEW line \in LineType, Parts \in Nat
  PROVE  /\ After(c, line) \in ClaimType /\ After(c, line).at # "idle"
         /\ After(c, line).ok = claims[c].ok
         /\ claims[c].from \subseteq After(c, line).from
         /\ After(c, line).from \subseteq claims[c].from \cup {line.from}
         /\ claims[c].proofs \subseteq After(c, line).proofs
         /\ After(c, line).proofs # claims[c].proofs => line.from \in After(c, line).from
<1> DEFINE claim == claims[c]
<1>1. /\ claim \in ClaimType /\ claim.part \in Nat
      /\ claim.from \cup {line.from} \in SUBSET Connections /\ claim.from \in SUBSET Connections
      /\ claim.proofs \cup {line.session} \in SUBSET Claims /\ claim.proofs \in SUBSET Claims
  BY DEF ClaimType, LineType
<1>2. CASE claim.at = "await" /\ IsAck(c, line)
  <2> DEFINE at == IF claim.at = "await" /\ claim.part = Parts THEN "proof" ELSE "write"
             part == IF claim.part = Parts THEN claim.part ELSE claim.part + 1
  <2>1. After(c, line) = [claim EXCEPT !.at = at, !.part = part, !.attempt = 1,
                                       !.from = @ \cup {line.from}]
    BY <1>2 DEF After, IsAck
  <2>3. at \in {"proof", "write"} /\ part \in Nat
    BY <1>1
  <2> HIDE DEF claim, at, part
  <2>2. /\ After(c, line) \in ClaimType /\ After(c, line).at \in {"proof", "write"}
        /\ After(c, line).ok = claim.ok /\ After(c, line).proofs = claim.proofs
        /\ After(c, line).from = claim.from \cup {line.from}
    <3>1. After(c, line) =
            [at |-> at, part |-> part, attempt |-> 1, proofs |-> claim.proofs,
             from |-> claim.from \cup {line.from}, ok |-> claim.ok]
      BY <1>1, <2>1 DEF ClaimType
    <3>2. claim.ok \in BOOLEAN
      BY <1>1 DEF ClaimType
    <3> QED BY <1>1, <2>3, <3>1, <3>2 DEF ClaimType
  <2> QED BY <2>2 DEF claim
<1>3. CASE ~(claim.at = "await" /\ IsAck(c, line)) /\ line.kind = "error"
  <2>1. After(c, line) = [claim EXCEPT !.at = "ending"]
    BY <1>3 DEF After
  <2> QED BY <2>1 DEF ClaimType
<1>4. CASE ~(claim.at = "await" /\ IsAck(c, line)) /\ line.kind = "proof"
  <2>1. After(c, line) = [claim EXCEPT !.proofs = @ \cup {line.session}, !.from = @ \cup {line.from}]
    BY <1>4 DEF After
  <2> HIDE DEF claim
  <2>2. /\ After(c, line) \in ClaimType /\ After(c, line).at = claim.at
        /\ After(c, line).ok = claim.ok /\ After(c, line).proofs = claim.proofs \cup {line.session}
        /\ After(c, line).from = claim.from \cup {line.from}
    BY <1>1, <2>1 DEF ClaimType
  <2> QED BY <2>2 DEF claim
<1>5. CASE ~(claim.at = "await" /\ IsAck(c, line)) /\ line.kind \notin {"error", "proof"}
  <2>1. After(c, line) = claim
    BY <1>5 DEF After
  <2> QED BY <2>1
<1> QED BY <1>2, <1>3, <1>4, <1>5

(* The claim takes a line from its channel. *)
LEMMA ReceiveClaims ==
  ASSUME ClaimInv, NEW c \in Claims, Receive(c), 0 \notin Claims, Parts \in Nat
  PROVE  ClaimInv'
<1> DEFINE line == Head(inbox[c])
           r == After(c, line)
<1>1. /\ claims[c] \in ClaimType /\ claims[c].at \in {"await", "proof"}
      /\ inbox[c] \in Seq(LineType) /\ inbox[c] # <<>>
      /\ inbox' = [inbox EXCEPT ![c] = Tail(inbox[c])]
      /\ claims' = [claims EXCEPT ![c] = r]
      /\ UNCHANGED <<waiter, opened, incoming>>
  BY DEF Receive, ClaimInv, ClaimTypes
<1>2. /\ line \in LineType /\ line = inbox[c][1] /\ 1 \in DOMAIN inbox[c]
      /\ Tail(inbox[c]) \in Seq(LineType)
      /\ \A i \in DOMAIN Tail(inbox[c]) :
           i + 1 \in DOMAIN inbox[c] /\ Tail(inbox[c])[i] = inbox[c][i + 1]
  BY <1>1, HeadTailProperties
<1>3. /\ inbox' \in [Claims -> Seq(LineType)] /\ inbox'[c] = Tail(inbox[c])
      /\ \A d \in Claims \ {c} : inbox'[d] = inbox[d]
  BY <1>1, <1>2 DEF ClaimInv, ClaimTypes
<1>4. /\ r \in ClaimType /\ r.at # "idle" /\ r.ok = claims[c].ok
      /\ claims[c].from \subseteq r.from /\ r.from \subseteq claims[c].from \cup {line.from}
      /\ claims[c].proofs \subseteq r.proofs
      /\ r.proofs # claims[c].proofs => line.from \in r.from
  BY <1>1, <1>2, AfterIs
<1> HIDE DEF line, r
<1>5. r.from \cup {inbox'[c][i].from : i \in DOMAIN inbox'[c]} \subseteq Sources(c)
  <2>1. claims[c].from \subseteq Sources(c) /\ \A i \in DOMAIN inbox[c] : inbox[c][i].from \in Sources(c)
    BY DEF Sources
  <2>2. r.from \subseteq Sources(c)
    BY <1>2, <1>4, <2>1
  <2>3. ASSUME NEW i \in DOMAIN inbox'[c]
        PROVE  inbox'[c][i].from \in Sources(c)
    <3>1. i + 1 \in DOMAIN inbox[c] /\ inbox'[c][i] = inbox[c][i + 1]
      BY <1>2, <1>3
    <3> QED BY <2>1, <3>1
  <2> QED BY <2>2, <2>3
<1>6. (r.proofs # {} => r.from # {}) /\ (r.ok => r.proofs # {})
  BY <1>4 DEF ClaimInv, SourceInv
<1> QED BY <1>1, <1>3, <1>4, <1>5, <1>6, WireAlone, ClaimChanged

(* No acknowledgement: the part is written again, or the claim ends. *)
LEMMA NoAckClaims ==
  ASSUME ClaimInv, NEW c \in Claims, NoAck(c), 0 \notin Claims, MaxAttempts \in Nat \ {0}
  PROVE  ClaimInv'
<1>1. claims[c] \in ClaimType
  BY DEF ClaimInv, ClaimTypes
<1>2. claims[c].attempt \in Nat /\ (claims[c].attempt % MaxAttempts) + 1 \in Nat
  BY <1>1 DEF ClaimType
<1>3. PICK r \in ClaimType :
        /\ claims' = [claims EXCEPT ![c] = r]
        /\ r.at # "idle" /\ r.from = claims[c].from
        /\ r.proofs = claims[c].proofs /\ r.ok = claims[c].ok
  <2>1. CASE Move(c, "await", "ending")
    <3> DEFINE ended == [claims[c] EXCEPT !.at = "ending"]
    <3>1. ended \in ClaimType /\ claims' = [claims EXCEPT ![c] = ended]
      BY <1>1, <2>1 DEF Move, ClaimType
    <3> QED BY <1>1, <3>1 DEF ClaimType
  <2>2. CASE claims' = [claims EXCEPT
               ![c].at = "write", ![c].attempt = (@ % MaxAttempts) + 1]
    <3> DEFINE again == [claims[c] EXCEPT !.at = "write",
                                          !.attempt = (@ % MaxAttempts) + 1]
    <3>1. again \in ClaimType /\ claims' = [claims EXCEPT ![c] = again]
      BY <1>1, <1>2, <2>2 DEF ClaimInv, ClaimTypes, ClaimType
    <3> QED BY <1>1, <3>1 DEF ClaimType
  <2> QED BY <2>1, <2>2 DEF NoAck
<1>4. /\ claims[c].proofs # {} => claims[c].from # {}
      /\ claims[c].ok => claims[c].proofs # {}
      /\ inbox \in [Claims -> Seq(LineType)]
  BY DEF ClaimInv, SourceInv, ClaimTypes
<1>5. UNCHANGED <<waiter, opened, inbox, incoming>>
  BY DEF NoAck
<1>6. r.from \cup {inbox'[c][i].from : i \in DOMAIN inbox'[c]} \subseteq Sources(c)
  BY <1>3, <1>5 DEF Sources
<1> QED BY <1>1, <1>3, <1>4, <1>5, <1>6, WireAlone, ClaimChanged

(* The claim succeeds, or not, by the proof it has. *)
LEMMA ProofCompleteClaims ==
  ASSUME ClaimInv, NEW c \in Claims, ProofComplete(c), 0 \notin Claims
  PROVE  ClaimInv'
<1> DEFINE r == [claims[c] EXCEPT !.at = "ending", !.ok = (claims[c].proofs = {c})]
<1>1. claims[c] \in ClaimType /\ claims' = [claims EXCEPT ![c] = r] /\ claims[c].proofs # {}
  BY DEF ProofComplete, ClaimInv, ClaimTypes
<1>2. /\ r \in ClaimType /\ r.at # "idle" /\ r.from = claims[c].from
      /\ r.proofs = claims[c].proofs
  BY <1>1 DEF ClaimType
<1> HIDE DEF r
<1>3. claims[c].from # {} /\ inbox \in [Claims -> Seq(LineType)]
  BY <1>1 DEF ClaimInv, SourceInv, ClaimTypes
<1>4. UNCHANGED <<waiter, opened, inbox, incoming>>
  BY DEF ProofComplete
<1>5. r.from \cup {inbox'[c][i].from : i \in DOMAIN inbox'[c]} \subseteq Sources(c)
  BY <1>2, <1>4 DEF Sources
<1> QED BY <1>1, <1>2, <1>3, <1>4, <1>5, WireAlone, ClaimChanged

(* The claim returns and forgets what it heard. *)
LEMMA ClaimEndsClaims ==
  ASSUME ClaimInv, NEW c \in Claims, ClaimEnds(c), 0 \notin Claims
  PROVE  ClaimInv'
<1> DEFINE r == [NewClaim EXCEPT !.at = "done"]
<1>1. /\ claims' = [claims EXCEPT ![c] = r] /\ inbox' = [inbox EXCEPT ![c] = <<>>]
      /\ waiter' = 0 /\ UNCHANGED <<opened, incoming>>
  BY DEF ClaimEnds
<1>2. r \in ClaimType /\ r.at = "done" /\ r.from = {} /\ r.proofs = {} /\ r.ok = FALSE
  BY DEF NewClaim, ClaimType
<1> HIDE DEF r
<1>3. /\ inbox' \in [Claims -> Seq(LineType)] /\ inbox'[c] = <<>>
      /\ \A d \in Claims \ {c} : inbox'[d] = inbox[d]
  BY <1>1 DEF ClaimInv, ClaimTypes
<1>4. r.from \cup {inbox'[c][i].from : i \in DOMAIN inbox'[c]} \subseteq Sources(c)
  BY <1>2, <1>3
<1> QED BY <1>1, <1>2, <1>3, <1>4, WireAlone, ClaimChanged

(* Every step keeps ClaimInv. *)
LEMMA ClaimStep ==
  ASSUME PortInv, ClaimInv, [Next]_vars
  PROVE  ClaimInv'
<1>1. 0 \notin Claims /\ Parts \in Nat /\ MaxAttempts \in Nat \ {0}
  BY SerialAssumption
<1>2. CASE Command \/ Call("open") \/ Call("close") \/ UNCHANGED vars
  <2>1. UNCHANGED <<waiter, opened, claims, inbox, incoming>>
    BY <1>2 DEF Command, Call, vars
  <2> QED BY <1>1, <2>1, WireAlone, ClaimsKept
<1>3. CASE \E k \in DOMAIN calls : CallNext(k)
  <2> SUFFICES ASSUME NEW k \in DOMAIN calls, CallNext(k) PROVE ClaimInv'
    BY <1>3
  <2>1. UNCHANGED <<claims, inbox, incoming>>
    BY DEF CallNext, SendOff, Detach, Join, Publish, OpenFails, Spawn, SpawnFails,
       Keep
  <2>2. waiter' = 0 \/ (waiter' = waiter /\ opened' = opened)
    <3>1. CASE Publish(k)
      BY <3>1 DEF Publish, PortInv, CallInv
    <3>2. CASE Detach(k)
      BY <3>2 DEF Detach, WaiterAfterClose
    <3>3. CASE ~Publish(k) /\ ~Detach(k)
      BY <3>3 DEF CallNext, SendOff, Join, OpenFails, Spawn, SpawnFails, Keep
    <3> QED BY <3>1, <3>2, <3>3
  <2> QED BY <1>1, <2>1, <2>2, WireAlone, ClaimsKept
<1>4. ASSUME NEW n \in Connections, ReadLine(n) \/ ReaderStops(n) \/ ReadFails(n)
      PROVE  ClaimInv'
  <2>1. CASE ReadLine(n)
    BY <1>1, <2>1, ReadLineClaims
  <2>2. CASE ReaderStops(n) \/ ReadFails(n)
    <3>1. UNCHANGED <<waiter, opened, claims, inbox>> /\ incoming' = [incoming EXCEPT ![n] = <<>>]
      BY <2>2 DEF ReaderStops, ReadFails
    <3>2. incoming' \in [Connections -> Seq(LineType)] /\ WireInv'
      BY <3>1, WireKept DEF ClaimInv
    <3> QED BY <1>1, <3>1, <3>2, ClaimsKept
  <2> QED BY <1>4, <2>1, <2>2
<1>5. ASSUME NEW c \in Claims, ClaimStarts(c) \/ ClaimNext(c)
      PROVE  ClaimInv'
  <2>1. CASE ClaimStarts(c)
    <3>1. /\ Move(c, "idle", "write") /\ waiter' = c /\ claims[c].at = "idle"
          /\ UNCHANGED <<inbox, opened, incoming>>
      BY <2>1 DEF ClaimStarts, Move
    <3> QED BY <1>1, <3>1, WireAlone, MoveClaims
  <2>2. CASE WritePart(c)
    BY <1>1, <2>2, WritePartClaims
  <2>3. CASE WritePartFails(c) \/ NoProof(c)
    <3>1. /\ Move(c, "write", "ending") \/ Move(c, "proof", "ending")
          /\ UNCHANGED <<waiter, inbox, opened, incoming>>
      BY <2>3 DEF WritePartFails, NoProof
    <3> QED BY <1>1, <3>1, WireAlone, MoveClaims
  <2>4. CASE Receive(c)
    BY <1>1, <2>4, ReceiveClaims
  <2>5. CASE NoAck(c)
    BY <1>1, <2>5, NoAckClaims
  <2>6. CASE ProofComplete(c)
    BY <1>1, <2>6, ProofCompleteClaims
  <2>7. CASE ClaimEnds(c)
    BY <1>1, <2>7, ClaimEndsClaims
  <2> QED BY <1>5, <2>1, <2>2, <2>3, <2>4, <2>5, <2>6, <2>7 DEF ClaimNext
<1> QED BY <1>2, <1>3, <1>4, <1>5 DEF Next

(* It holds at first. *)
LEMMA ClaimInit == Init => ClaimInv
<1> SUFFICES ASSUME Init PROVE ClaimInv
  OBVIOUS
<1>1. NewClaim \in ClaimType
  BY DEF NewClaim, ClaimType
<1>2. ClaimTypes
  BY <1>1 DEF Init, ClaimTypes
<1>3. WireInv
  BY DEF Init, WireInv
<1>4. SourceInv
  BY SerialAssumption DEF Init, NewClaim, SourceInv, Sources
<1> QED BY <1>2, <1>3, <1>4 DEF ClaimInv

-----------------------------------------------------------------------------
(* A claim that succeeds was confirmed by one connection: a port that is   *)
(* opened meanwhile is not the waiting claim's, as its close came first.   *)
THEOREM ClaimsAreOfOnePort == ASSUME ~OverlappingCalls PROVE Spec => []ClaimOnOnePort
<1> DEFINE I == PortInv /\ ClaimInv
<1>1. Init => I
  BY PortInit, ClaimInit
<1>2. I /\ [Next]_vars => I'
  BY PortStep, ClaimStep
<1>3. I => ClaimOnOnePort
  <2> SUFFICES ASSUME ClaimInv, NEW c \in Claims, claims[c].ok
               PROVE  Cardinality(claims[c].from) = 1
    BY DEF ClaimOnOnePort
  <2>1. PICK n : n \in claims[c].from
    BY DEF ClaimInv, SourceInv
  <2>2. claims[c].from = {n}
    BY <2>1 DEF ClaimInv, SourceInv, Sources
  <2> QED BY <2>2, FS_Singleton
<1> HIDE DEF I
<1> QED BY <1>1, <1>2, <1>3, PTL DEF Spec
=============================================================================
