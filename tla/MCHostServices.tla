--------------------------- MODULE MCHostServices ---------------------------
(* HostServices for TLC: three numbers, one for each link of a chain of       *)
(* processes; a service uses as many of them as it can tell apart.           *)
EXTENDS HostServices

CONSTANTS p1, p2, p3

\* Executables of three first processes, None for no process; parent of each.
Table(exes, parents) ==
  [p \in Pids |-> IF exes[p] = None THEN None
                  ELSE Process(CHOOSE n \in 1..3 : n = (CASE p = p1 -> 1 [] p = p2 -> 2
                                                          [] OTHER -> 3),
                               exes[p], parents[p])]

\* A process, its child and its grandchild, which may be protected; a daemon or
\* none; a game.
FirstProcsDef ==
  LET chain == [p \in Pids |-> CASE p = p1 -> Shell [] p = p2 -> p1 [] OTHER -> p2]
      only(exe) == Table([p \in Pids |-> IF p = p1 THEN exe ELSE None], chain)
  IN [control |-> {Table([p \in Pids |-> IF p = p3 THEN exe ELSE "app"], chain)
                     : exe \in {"app", "system"}},
      daemon |-> {only("daemon"), only(None)},
      gpu |-> {only(Game)},
      sensors |-> {only(None)}]

NumbersDef == [control |-> Pids, daemon |-> {p1, p2}, gpu |-> {p1}, sensors |-> {}]

MaxSwitchesDef == [control |-> 1, daemon |-> 0, gpu |-> 0, sensors |-> 3]

MaxBirthsDef == [control |-> 5, daemon |-> 3, gpu |-> 2, sensors |-> 0]
=============================================================================
