------------------------- MODULE MCProgressJournal -------------------------
(* Small instances of the progress journal for TLC. *)
EXTENDS ProgressJournal
=============================================================================
