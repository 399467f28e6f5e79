--------------------------- MODULE MCSerialService ---------------------------
(* SerialService for TLC. *)
EXTENDS SerialService
OneClaim == {1}
=============================================================================
