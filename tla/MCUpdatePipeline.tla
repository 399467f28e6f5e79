-------------------------- MODULE MCUpdatePipeline --------------------------
(* UpdatePipeline for TLC. *)
EXTENDS UpdatePipeline

\* Version 2 is released, then released again under its file name with an
\* installer of the same size; version 3 has a manifest that is not signed.
ReleasesDef == <<
    [version |-> 2, file |-> "f2", sha |-> "a", bytes |-> 1, sound |-> TRUE],
    [version |-> 2, file |-> "f2", sha |-> "b", bytes |-> 1, sound |-> TRUE],
    [version |-> 3, file |-> "f3", sha |-> "c", bytes |-> 2, sound |-> FALSE]>>

UploadsDef == <<
    [sha |-> "a", bytes |-> 1, version |-> 2],
    [sha |-> "b", bytes |-> 1, version |-> 2],
    [sha |-> "c", bytes |-> 2, version |-> 3]>>
=============================================================================
