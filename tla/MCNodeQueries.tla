---------------------------- MODULE MCNodeQueries ----------------------------
(* NodeQueries for TLC: node0 has no status commands, the lamp one and the    *)
(* humidifier two, as in meshNodeDefinitions; the queries of                  *)
(* climatePolling.ts.                                                         *)
EXTENDS NodeQueries

MCTags == {"node0", "lamp", "humidifier"}
MCNumCommands == [t \in MCTags |-> CASE t = "node0" -> 0 [] t = "lamp" -> 1 [] OTHER -> 2]

MCFullCycle == <<"heater.climate?", "heater.source?", "heater.relay?", "S5Q", "S5D", "D5Q">>
MCBurstCycle == <<"heater.source?", "heater.climate?">>
=============================================================================
