-------------------------- MODULE MCKeeLinkControl --------------------------
(* Instances of KeeLinkControl for TLC: commands for one owner tag, which  *)
(* the inventory may move between two nodes.                               *)
EXTENDS KeeLinkControl, TLC

CONSTANTS c1, c2, owner, m1, m2

OneCommand  == {c1}
TwoCommands == {c1, c2}
OneOwner    == {owner}
TwoMacs     == {m1, m2}
OneMac      == {m1}
OwnerOfAll  == [c \in Commands |-> owner]
FabricOnly  == {TRUE}
AnyVersion  == BOOLEAN

Symmetry == Permutations(Commands) \cup Permutations(Macs)
=============================================================================
