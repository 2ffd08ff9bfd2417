--------------------------- MODULE MCOperatorView ---------------------------
(* Small instances of the operator's view for TLC. *)
EXTENDS OperatorView
=============================================================================
