--------------------------- MODULE MCFabricGraph ---------------------------
(* Instances of FabricGraph for TLC: two nodes, on two pages or on one,    *)
(* which may carry the same tag or be offline.                             *)
EXTENDS FabricGraph

CONSTANTS m1, m2, lamp, heater

BothMacs == {m1, m2}
BothTags == {lamp, heater}

At(tag, online) == [tag |-> tag, online |-> online]

Usual == [m \in BothMacs |-> At(IF m = m1 THEN lamp ELSE heater, TRUE)]
Moved == [m \in BothMacs |-> At(IF m = m1 THEN heater ELSE lamp, m = m1)]
Twice == [m \in BothMacs |-> At(lamp, TRUE)]

ThreeGraphs == {Usual, Moved, Twice}
SomePages   == [g \in ThreeGraphs |-> IF g = Twice THEN 1 ELSE 2]
PageOfNode  == [m \in BothMacs |-> IF m = m1 THEN 0 ELSE 1]

Like(snapshot, repeats, faults) ==
  [snapshot |-> snapshot, repeats |-> repeats, faults |-> faults]
EveryTrait == {Like(TRUE, FALSE, FALSE), Like(FALSE, TRUE, FALSE), Like(FALSE, FALSE, TRUE)}
=============================================================================
