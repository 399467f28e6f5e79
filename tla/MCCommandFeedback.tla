-------------------------- MODULE MCCommandFeedback --------------------------
(* CommandFeedback for TLC: the pump and the flow of the humidifier, which *)
(* one status line reports together, and a query without a status command. *)
EXTENDS CommandFeedback

MCCommands == {"pomp", "flow", "pm1"}
MCTargets == {"device.pump", "device.flow"}
MCTargetOf == [c \in MCCommands |-> IF c = "pomp" THEN "device.pump" ELSE "device.flow"]
MCWithStatus == {"pomp", "flow"}
=============================================================================
