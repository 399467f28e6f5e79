-------------------------- MODULE MCRuntimeProfile --------------------------
(* RuntimeProfile for TLC: two layouts, two settings, two adapters. *)
EXTENDS RuntimeProfile

TwoLayouts == {"default", "compact"}
OneTaste == {"full"}
TwoTastes == {"full", "calm"}
TwoMasters == {"auto", "integrated"}
=============================================================================
