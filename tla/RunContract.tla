---------------------------- MODULE RunContract -----------------------------
(***************************************************************************)
(* What a run promises to whoever reads its final result, its Runtime      *)
(* document and its evidence branch, whatever dies in between: the bytes   *)
(* of at most one plan reach the Runtime, before the outcome is decided;   *)
(* the reported outcome agrees with that; once it is final it is           *)
(* published, and what is published says nothing else.                     *)
(***************************************************************************)
VARIABLES
  outcome,    \* the logical outcome in the durable checkpoint
  final,      \* evidence finalization has begun
  written,    \* the plans whose bytes were put into the Runtime document
  published,  \* "no", "committed" or "pushed": the evidence commit
  carries     \* that commit changes the Runtime document

vars == <<outcome, final, written, published, carries>>

Undecided == {"none", "UNDETERMINED"}
Committed(o) == o.state = "RUNTIME_TRANSITION_COMMITTED"
Declined(o) == \/ o.state = "FAILED_CLOSED"
               \/ o = [state |-> "HUMAN_GATE", exit |-> 0]

Init ==
  /\ outcome = [state |-> "none", exit |-> 0] /\ final = FALSE
  /\ written = {} /\ published = "no" /\ carries = FALSE

\* One plan, while nothing is decided.
Write ==
  /\ outcome.state \in Undecided /\ written = {}
  /\ written' # {} /\ \A p, q \in written' : p = q
  /\ UNCHANGED <<outcome, final, published, carries>>

\* An outcome is reported, or replaced by a worse one that a failure on the
\* way to finalization makes of it; it is never taken back.
Report ==
  /\ ~final
  /\ outcome'.state # "none"
  /\ Declined(outcome') => written = {}
  /\ Committed(outcome') => written # {}
  /\ UNCHANGED <<final, written, published, carries>>

Finalize ==
  /\ ~final /\ outcome.state \notin Undecided
  /\ final' = TRUE
  /\ UNCHANGED <<outcome, written, published, carries>>

Commit ==
  /\ final /\ published = "no"
  /\ published' = "committed"
  /\ carries' \in {FALSE, written # {}}
  /\ UNCHANGED <<outcome, final, written>>

Push ==
  /\ published = "committed"
  /\ published' = "pushed"
  /\ UNCHANGED <<outcome, final, written, carries>>

Next == Write \/ Report \/ Finalize \/ Commit \/ Push

Spec == Init /\ [][Next]_vars
=============================================================================
