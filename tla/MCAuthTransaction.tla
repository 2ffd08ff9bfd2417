-------------------------- MODULE MCAuthTransaction --------------------------
(***************************************************************************)
(* Two processes, two roles and two accounts; "First" is active at first.  *)
(***************************************************************************)
EXTENDS AuthTransaction

CONSTANT First

MCInit == active = First /\ Init
MCSpec == MCInit /\ [][Next]_vars /\ Fairness
=============================================================================
