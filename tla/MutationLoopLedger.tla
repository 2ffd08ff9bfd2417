------------------------- MODULE MutationLoopLedger -------------------------
(***************************************************************************)
(* What a run writes, and what it says it wrote: the safety of the Runtime *)
(* transition and of the published evidence, for any number of cycles,     *)
(* crashes, I/O errors and interventions.                                  *)
(*                                                                         *)
(* The argument.  Only five fields of a checkpoint matter here: its state, *)
(* its transition plan, its outcome, "applied" and the plan of the commit. *)
(* A checkpoint is consistent with the plans written so far ("Consistent").*)
(* The one on disk is, and so is the one in memory, although the two may   *)
(* differ on the way to the exception handler.  In the branches of the     *)
(* loop they agree on the ledger (MemoryOK), hence the plan ReplaceRuntime *)
(* writes is on disk (WrittenOK); while the disk is in a working state     *)
(* nothing was written, hence a plan that replaces another never meets a   *)
(* written Runtime.  Five kinds of step then cover the program: work,      *)
(* calm, stop, down, and a step of finish_evidence.                        *)
(***************************************************************************)
EXTENDS MutationLoopTypes

Stepping == {"loop", "launch", "turn", "audit", "summary", "append", "appended",
             "route", "replace", "replaced"}
Walking  == Stepping \ {"replace", "replaced"}
Reloaded == {"down", "reconcile", "reconciled"}

Decisions == {RUNTIME_TRANSITION_COMMITTED, HUMAN_GATE, FAILED_CLOSED}
Declined(c) == \/ c.outcome.state = FAILED_CLOSED
               \/ c.outcome = [state |-> HUMAN_GATE, exit |-> 0]

SameLedger(c, d) == /\ c.plan = d.plan /\ c.outcome = d.outcome
                    /\ c.applied = d.applied /\ c.pub = d.pub

\* What a checkpoint c says, when the plans in w have been written.
Consistent(c, w) ==
  /\ c.state \in Working => c.outcome.state = "none"
  /\ c.state \notin Finalizing => ~c.pub.set
  /\ c.state \in Transition => c.plan.id > 0
  /\ c.state = RUNTIME_TRANSITION_PENDING =>
       c.outcome.state \in {"none", "UNDETERMINED"}
  /\ c.state = RUNTIME_TRANSITION_COMMITTED =>
       c.outcome.state \in {RUNTIME_TRANSITION_COMMITTED, "UNDETERMINED"}
  /\ c.state \in Finalized => c.outcome.state \in Decisions
  /\ c.outcome.state = RUNTIME_TRANSITION_COMMITTED => c.applied
  /\ c.applied => w = {c.plan.id}
  /\ Declined(c) => w = {}
  /\ c.pub.set /\ c.pub.rt # Pre => c.applied

CheckpointsOK == Consistent(ck, written) /\ Consistent(mem, written)

\* When the memory of the process and the disk agree.
MemoryOK ==
  /\ pc \in Reloaded \cup Finishing => mem = ck
  /\ pc \in Stepping => /\ mem.state = ck.state /\ SameLedger(mem, ck)
                        /\ mem.state \in Working \cup Transition

\* Where the process may be in which state.
PlaceOK ==
  /\ pc = "replace" => mem.state = RUNTIME_TRANSITION_PENDING
  /\ pc = "replaced" => mem.state \in Transition /\ mem.plan.id \in written
  /\ pc \in Finishing => mem.state \notin Working /\ mem.outcome.state \in Decisions
  /\ pc \in {"except", "finish"} /\ mem.state \notin Transition \cup Finalizing =>
       written = {}

\* The Runtime document and the plan.
WrittenOK ==
  /\ written # {} => /\ written = {ck.plan.id} /\ mem.plan = ck.plan
                     /\ ck.state \notin Working /\ mem.state \notin Working
  /\ rt > 0 => rt \in written

FinalOK == ck.state \in Finalizing =>
             mem.state \in Finalizing /\ mem.outcome = ck.outcome

CommitOK ==
  /\ pushed => commit.set
  /\ commit.set => /\ commit = ck.pub /\ mem.pub = ck.pub
                   /\ ck.state \in Finalizing

LedgerInv == CheckpointsOK /\ MemoryOK /\ PlaceOK /\ WrittenOK /\ FinalOK /\ CommitOK

-----------------------------------------------------------------------------

\* The states of a checkpoint fall into working, transition and finalized
\* ones; the outcomes are among the finalized ones and the transition.
LEMMA StateFacts ==
  /\ \A s \in Working : s \notin Transition /\ s \notin Finalized
  /\ \A s \in Transition : s \notin Finalized
  /\ \A s \in Finalizing : s \in Finalized
  /\ \A s \in States : s \in Working \/ s \in Transition \/ s \in Finalized
  /\ RUNTIME_TRANSITION_PENDING \in Transition
  /\ RUNTIME_TRANSITION_COMMITTED \in Transition
  /\ RUNTIME_TRANSITION_PENDING # RUNTIME_TRANSITION_COMMITTED
  /\ HUMAN_GATE \in Finalized /\ HUMAN_GATE \notin Finalizing
  /\ FAILED_CLOSED \in Finalized /\ FAILED_CLOSED \notin Finalizing
  /\ \A s \in Decisions : s # "none" /\ s # "UNDETERMINED"
BY DEF States, Working, Transition, Finalizing, Finalized, Decisions,
       PREFLIGHT_PASSED, REVIEWER_INSTRUCTION_RUNNING, INSTRUCTION_READY,
       EXECUTOR_RUNNING, EXECUTOR_COMMITTED, REVIEW_PENDING, REVIEW_COMPLETED,
       REVIEW_CORRECTION_PENDING, REVIEW_CORRECTION_RUNNING,
       RUNTIME_TRANSITION_PENDING, RUNTIME_TRANSITION_COMMITTED, HUMAN_GATE,
       FAILED_CLOSED, EVIDENCE_FINALIZATION_PENDING,
       FRAMEWORK_EVIDENCE_COMMITTED, FRAMEWORK_EVIDENCE_PUSHED

\* The three decided outcomes differ.
LEMMA OutcomeFacts ==
  /\ HUMAN_GATE # FAILED_CLOSED
  /\ HUMAN_GATE # RUNTIME_TRANSITION_COMMITTED
  /\ FAILED_CLOSED # RUNTIME_TRANSITION_COMMITTED
BY DEF HUMAN_GATE, FAILED_CLOSED, RUNTIME_TRANSITION_COMMITTED

\* Work that leaves the ledger alone leaves the checkpoint consistent.
LEMMA SameConsistent ==
  ASSUME NEW c, NEW d, NEW w, SameLedger(d, c), Consistent(c, w),
         d.state = c.state \/ (c.state \in Working /\ d.state \in Working)
  PROVE  Consistent(d, w)
BY StateFacts DEF SameLedger, Consistent, Declined

\* A step within the branches of the loop that saves its progress.
LEMMA WorkStep ==
  ASSUME LedgerInv, pc \in Stepping, NEW m, SameLedger(m, mem),
         m.state = mem.state \/ (mem.state \in Working /\ m.state \in Working),
         NEW next \in Walking, Persist(m, next, "except"),
         UNCHANGED <<rt, written, repo>>
  PROVE  LedgerInv'
<1> USE DEF LedgerInv, repo
<1>1. /\ mem' = m /\ ck' \in {ck, m} /\ pc' \in {next, "except"}
      /\ pc' = next => ck' = m
  BY DEF Persist, Walking, Stepping
<1>2. /\ mem.state = ck.state /\ SameLedger(mem, ck)
      /\ mem.state \in Working \cup Transition
  BY DEF MemoryOK
<1>3. m.state \in Working \cup Transition BY <1>2
<1>4. Consistent(m, written) BY SameConsistent DEF CheckpointsOK
<1>5. CheckpointsOK' BY <1>1, <1>4 DEF CheckpointsOK
<1>6. MemoryOK'
  BY <1>1, <1>3 DEF MemoryOK, SameLedger, Reloaded, Finishing, Walking, Stepping
<1>7. PlaceOK'
  BY <1>1, <1>2, <1>3, StateFacts
  DEF PlaceOK, WrittenOK, Finishing, Walking, Stepping
<1>8. WrittenOK' BY <1>1, <1>2, StateFacts DEF WrittenOK, SameLedger
<1>9. FinalOK' BY <1>1, <1>2, <1>3, StateFacts DEF FinalOK
<1>10. CommitOK' BY <1>1, <1>2, StateFacts DEF CommitOK, SameLedger
<1> QED BY <1>5, <1>6, <1>7, <1>8, <1>9, <1>10

\* A step within the branches of the loop that saves nothing, or fails.
LEMMA CalmStep ==
  ASSUME LedgerInv, pc \in Stepping, pc' \in Walking \cup {"except"},
         ck' = ck, SameLedger(mem', mem), mem'.state = mem.state,
         UNCHANGED <<rt, written, repo>>
  PROVE  LedgerInv'
<1> USE DEF LedgerInv, repo
<1>1. /\ mem.state = ck.state /\ SameLedger(mem, ck)
      /\ mem.state \in Working \cup Transition
  BY DEF MemoryOK
<1>2. CheckpointsOK' BY SameConsistent DEF CheckpointsOK
<1>3. MemoryOK'
  BY <1>1 DEF MemoryOK, SameLedger, Reloaded, Finishing, Walking, Stepping
<1>4. PlaceOK'
  BY <1>1, StateFacts DEF PlaceOK, WrittenOK, Finishing, Walking, Stepping
<1>5. WrittenOK' BY <1>1 DEF WrittenOK, SameLedger
<1>6. FinalOK' BY <1>1, StateFacts DEF FinalOK
<1>7. CommitOK' BY <1>1, StateFacts DEF CommitOK, SameLedger
<1> QED BY <1>2, <1>3, <1>4, <1>5, <1>6, <1>7

\* A step that stops a run that has planned no transition.
LEMMA StopStep ==
  ASSUME LedgerInv, pc \in Stepping, mem.state \in Working,
         NEW m \in Checkpoint, SameLedger(m, mem),
         ReachOutcome(m, HUMAN_GATE, 0, "finish", "except"),
         UNCHANGED <<rt, written, repo>>
  PROVE  LedgerInv'
<1> USE DEF LedgerInv, repo
<1> DEFINE o == [state |-> HUMAN_GATE, exit |-> 0]
           n == [m EXCEPT !.state = HUMAN_GATE, !.outcome = o]
<1>1. /\ mem' = n /\ ck' \in {ck, n} /\ pc' \in {"finish", "except"}
      /\ pc' = "finish" => ck' = n
  BY DEF ReachOutcome, Persist
<1>2. /\ n.state = HUMAN_GATE /\ n.outcome = o /\ n.outcome.state = HUMAN_GATE
      /\ n.plan = m.plan /\ n.applied = m.applied /\ n.pub = m.pub
  BY DEF Checkpoint
<1> HIDE DEF n, o
<1>3. /\ mem.state = ck.state /\ SameLedger(mem, ck) /\ written = {}
      /\ mem.outcome.state = "none" /\ ~mem.pub.set /\ ~mem.applied
  BY StateFacts DEF MemoryOK, WrittenOK, CheckpointsOK, Consistent
<1>4. Consistent(n, written)
  BY <1>2, <1>3, StateFacts, OutcomeFacts
  DEF Consistent, SameLedger, Declined, Decisions
<1>5. CheckpointsOK' BY <1>1, <1>4 DEF CheckpointsOK
<1>6. MemoryOK' BY <1>1 DEF MemoryOK, Reloaded, Finishing, Stepping
<1>7. PlaceOK'
  BY <1>1, <1>2, <1>3, StateFacts DEF PlaceOK, Finishing, Decisions
<1>8. WrittenOK' BY <1>3 DEF WrittenOK
<1>9. FinalOK' BY <1>1, <1>2, <1>3, StateFacts DEF FinalOK
<1>10. CommitOK' BY <1>3, StateFacts DEF CommitOK
<1> QED BY <1>5, <1>6, <1>7, <1>8, <1>9, <1>10

-----------------------------------------------------------------------------

\* A new run has written and published nothing.
LEMMA LedgerInit == Init => LedgerInv
<1> SUFFICES ASSUME Init PROVE LedgerInv OBVIOUS
<1> USE DEF Init, LedgerInv, FirstCheckpoint
<1>1. mem.state \in Working /\ ck = mem BY DEF Working
<1>2. Consistent(ck, written)
  BY <1>1, StateFacts, OutcomeFacts
  DEF Consistent, Declined, NoOutcome, NoContents, FAILED_CLOSED, HUMAN_GATE,
      RUNTIME_TRANSITION_COMMITTED
<1>3. CheckpointsOK /\ MemoryOK
  BY <1>1, <1>2
  DEF CheckpointsOK, MemoryOK, SameLedger, Reloaded, Finishing, Stepping
<1>4. PlaceOK /\ WrittenOK BY DEF PlaceOK, WrittenOK, Finishing, Pre
<1>5. FinalOK /\ CommitOK BY <1>1 DEF FinalOK, CommitOK, NoContents
<1> QED BY <1>3, <1>4, <1>5

\* An exception in a branch.
LEMMA RaiseStep ==
  ASSUME LedgerInv, pc \in Stepping, NEW kind, Raise(kind),
         UNCHANGED <<rt, written, repo>>
  PROVE  LedgerInv'
BY CalmStep DEF Raise, SameLedger

\* The next effect of a branch.
LEMMA GotoStep ==
  ASSUME LedgerInv, pc \in Stepping, NEW next \in Walking, Goto(next),
         UNCHANGED <<rt, written, repo>>
  PROVE  LedgerInv'
BY CalmStep DEF Goto, SameLedger

\* The end of an Agent turn, its audit and its summary entry.
LEMMA LedgerTurns == TypeInv /\ LedgerInv /\ Turns => LedgerInv'
<1> SUFFICES ASSUME TypeInv, LedgerInv, Turns PROVE LedgerInv' OBVIOUS
<1> USE DEF docs, history, Walking, Stepping
<1>0. mem \in Checkpoint BY DEF TypeInv, ControlTyped
<1>1. CASE TurnExits BY <1>1, CalmStep DEF TurnExits, SameLedger
<1>2. CASE AuditReviewer
  <2>1. SameLedger(mem', mem) /\ mem'.state = mem.state
    BY <1>0, <1>2 DEF AuditReviewer, SameLedger, Checkpoint
  <2> QED BY <1>2, <2>1, CalmStep DEF AuditReviewer
<1>3. CASE CaptureExecutor BY <1>3, GotoStep DEF CaptureExecutor
<1>4. CASE PlanSummary
  <2> DEFINE m == [mem EXCEPT !.pending = TRUE]
  <2>1. SameLedger(m, mem) /\ m.state = mem.state
    BY <1>0 DEF SameLedger, Checkpoint
  <2>2. pc \in Stepping /\ UNCHANGED <<rt, written, repo>>
    BY <1>4 DEF PlanSummary
  <2>3. Raise("inv") \/ Goto("route") \/ Persist(m, "append", "except")
    BY <1>4 DEF PlanSummary
  <2> HIDE DEF m
  <2> QED BY <2>1, <2>2, <2>3, RaiseStep, GotoStep, WorkStep
<1>5. CASE AppendSummary
  <2>1. UNCHANGED <<ck, mem, rt, written, repo>>
    BY <1>5 DEF AppendSummary, Raise, Goto
  <2>2. CASE pc = "append"
    BY <1>5, <2>1, <2>2, CalmStep DEF AppendSummary, Raise, Goto, SameLedger
  <2>3. CASE pc = "reconcile"
    <3>1. pc' \in Reloaded BY <1>5, <2>3 DEF AppendSummary, Goto, Reloaded
    <3>2. MemoryOK' /\ PlaceOK'
      BY <2>1, <2>3, <3>1
      DEF LedgerInv, MemoryOK, PlaceOK, Reloaded, Finishing
    <3> QED BY <2>1, <3>2
            DEF LedgerInv, CheckpointsOK, WrittenOK, FinalOK, CommitOK, repo
  <2> QED BY <1>5, <2>2, <2>3 DEF AppendSummary
<1>6. CASE NoteSummary
  <2> DEFINE m == [mem EXCEPT !.entries = @ + 1, !.pending = FALSE,
                              !.recorded = TRUE]
  <2>1. SameLedger(m, mem) /\ m.state = mem.state
    BY <1>0 DEF SameLedger, Checkpoint
  <2>2. UNCHANGED <<rt, written, repo>> BY <1>6 DEF NoteSummary
  <2>3. CASE pc = "appended"
    <3>1. Persist(m, "route", "except") BY <1>6, <2>3 DEF NoteSummary
    <3> HIDE DEF m
    <3> QED BY <2>1, <2>2, <2>3, <3>1, WorkStep
  <2>4. CASE pc = "reconciled"
    <3>1. Persist(m, ResumePoint, "down") BY <1>6, <2>4 DEF NoteSummary
    <3> HIDE DEF m
    <3>2. mem = ck BY <2>4 DEF LedgerInv, MemoryOK, Reloaded
    <3>3. /\ mem' = ck' /\ ck' \in {ck, m} /\ pc' \in {ResumePoint, "down"}
          /\ SameLedger(mem', mem) /\ mem'.state = mem.state
      BY <2>1, <3>1, <3>2 DEF Persist, SameLedger
    <3>4. /\ pc' \in {"down", "loop", "finishR"}
          /\ pc' = "loop" => mem.state \in Working \cup Transition
          /\ pc' = "finishR" => mem.state \in Finalized
      BY <1>0, <3>3, StateFacts DEF ResumePoint, Checkpoint
    <3>5. Consistent(mem', written)
      BY <3>3, SameConsistent DEF LedgerInv, CheckpointsOK
    <3>6. CheckpointsOK' /\ MemoryOK'
      BY <2>2, <3>3, <3>4, <3>5
      DEF CheckpointsOK, MemoryOK, SameLedger, Finishing, Reloaded
    <3>7. PlaceOK'
      BY <2>2, <3>3, <3>4, StateFacts
      DEF LedgerInv, CheckpointsOK, Consistent, SameLedger, PlaceOK, Finishing
    <3>8. WrittenOK' /\ FinalOK' /\ CommitOK'
      BY <2>2, <3>2, <3>3
      DEF LedgerInv, WrittenOK, FinalOK, CommitOK, SameLedger, repo
    <3> QED BY <3>6, <3>7, <3>8 DEF LedgerInv
  <2> QED BY <1>6, <2>3, <2>4 DEF NoteSummary
<1> QED BY <1>1, <1>2, <1>3, <1>4, <1>5, <1>6 DEF Turns

\* The launch of a Reviewer.
LEMMA StartReviewerStep ==
  ASSUME LedgerInv, pc \in Stepping, NEW kind, StartReviewer(kind),
         UNCHANGED <<rt, written, repo>>
  PROVE  LedgerInv'
BY CalmStep DEF StartReviewer, SameLedger, Walking, Stepping

\* The branches up to EXECUTOR_RUNNING.
LEMMA LedgerInstructing == TypeInv /\ LedgerInv /\ Instructing => LedgerInv'
<1> SUFFICES ASSUME TypeInv, LedgerInv, Instructing PROVE LedgerInv' OBVIOUS
<1>0. mem \in Checkpoint BY DEF TypeInv, ControlTyped
<1>1. pc \in Stepping /\ UNCHANGED <<rt, written, repo>>
  BY DEF Instructing, PrepareInstruction, LaunchInstruction, RouteInstruction,
         CheckFreshness, RouteRefresh, Stepping, docs, history
<1>2. {"loop", "launch"} \subseteq Walking BY DEF Walking, Stepping
<1>3. InstructionStates \subseteq Working /\ INSTRUCTION_READY \in Working
  BY DEF InstructionStates, Working
<1>4. CASE PrepareInstruction
  <2>1. CASE art.st = "done"
    <3>1. SameLedger(mem', mem) /\ mem'.state = mem.state
      BY <1>0, <1>4, <2>1 DEF PrepareInstruction, SameLedger, Checkpoint
    <3> QED BY <1>1, <1>4, <2>1, <3>1, CalmStep
            DEF PrepareInstruction, Walking, Stepping
  <2>2. CASE art.st # "done"
    <3> DEFINE m == [mem EXCEPT !.state = REVIEWER_INSTRUCTION_RUNNING,
                       !.rev = IF art.st = "none" THEN @ ELSE NoReviewer,
                       !.active = IF art.st = "none" /\ @ # 0 THEN @ ELSE @ + 1,
                       !.recorded = FALSE]
    <3>1. SameLedger(m, mem) /\ m.state \in Working
      BY <1>0 DEF SameLedger, Checkpoint, Working
    <3>2. mem.state \in Working BY <1>3, <1>4 DEF PrepareInstruction
    <3>3. Persist(m, "launch", "except") BY <1>4, <2>2 DEF PrepareInstruction
    <3> HIDE DEF m
    <3> QED BY <1>1, <1>2, <3>1, <3>2, <3>3, WorkStep
  <2> QED BY <2>1, <2>2
<1>5. CASE LaunchInstruction
  BY <1>1, <1>5, RaiseStep, StartReviewerStep DEF LaunchInstruction
<1>6. CASE RouteInstruction
  <2> DEFINE m == [mem EXCEPT !.state = INSTRUCTION_READY, !.instr = art.turn,
                              !.active = 0, !.recorded = FALSE]
  <2>1. SameLedger(m, mem) /\ m.state \in Working
    BY <1>0, <1>3 DEF SameLedger, Checkpoint
  <2>2. mem.state \in Working BY <1>3, <1>6 DEF RouteInstruction
  <2>3. Raise("inv") \/ Persist(m, "loop", "except")
    BY <1>6 DEF RouteInstruction
  <2> HIDE DEF m
  <2> QED BY <1>1, <1>2, <2>1, <2>2, <2>3, RaiseStep, WorkStep
<1>7. ASSUME CheckFreshness \/ RouteRefresh PROVE LedgerInv'
  <2>1. SameLedger(ExecutorCheckpoint, mem) /\ ExecutorCheckpoint.state \in Working
    BY <1>0 DEF ExecutorCheckpoint, SameLedger, Checkpoint, Working
  <2>2. mem.state \in Working BY <1>3, <1>7 DEF CheckFreshness, RouteRefresh
  <2>3. \/ Raise("inv") \/ Raise("os") \/ StartReviewer("instruction")
        \/ Persist(ExecutorCheckpoint, "loop", "except")
    BY <1>7 DEF CheckFreshness, RouteRefresh
  <2> QED BY <1>1, <1>2, <2>1, <2>2, <2>3, RaiseStep, StartReviewerStep, WorkStep
<1> QED BY <1>4, <1>5, <1>6, <1>7 DEF Instructing

\* The branches EXECUTOR_RUNNING and EXECUTOR_COMMITTED; a target that moved
\* without evidence stops the run.
LEMMA LedgerExecuting == TypeInv /\ LedgerInv /\ Executing => LedgerInv'
<1> SUFFICES ASSUME TypeInv, LedgerInv, Executing PROVE LedgerInv' OBVIOUS
<1>0. mem \in Checkpoint BY DEF TypeInv, ControlTyped
<1>1. pc \in Stepping /\ UNCHANGED <<rt, written, repo>>
  BY DEF Executing, PrepareExecutor, LaunchExecutor, RouteExecutor, PlanReview,
         Stepping, docs, history
<1>2. {"loop", "launch", "turn", "audit"} \subseteq Walking
  BY DEF Walking, Stepping
<1>3. {EXECUTOR_RUNNING, EXECUTOR_COMMITTED, REVIEW_PENDING} \subseteq Working
  BY DEF Working
<1>4. CASE PrepareExecutor
  <2> DEFINE m1 == [mem EXCEPT !.active = 0, !.ta = tgt.head]
             m2 == [mem EXCEPT !.active = @ + 1, !.recorded = FALSE]
  <2>1. SameLedger(m1, mem) /\ SameLedger(m2, mem) /\ m2.state = mem.state
    BY <1>0 DEF SameLedger, Checkpoint
  <2>2. m1 \in Checkpoint
    <3>1. tgt.head \in Nat BY DEF TypeInv, WorldTyped
    <3> QED BY <1>0, <3>1 DEF Checkpoint
  <2>3. mem.state \in Working BY <1>3, <1>4 DEF PrepareExecutor
  <2>4. \/ Goto("audit") \/ Goto("launch") \/ Raise("inv")
        \/ ReachOutcome(m1, HUMAN_GATE, 0, "finish", "except")
        \/ Persist(m2, "launch", "except")
    BY <1>4 DEF PrepareExecutor
  <2> HIDE DEF m1, m2
  <2> QED BY <1>1, <1>2, <2>1, <2>2, <2>3, <2>4, GotoStep, RaiseStep, StopStep,
             WorkStep
<1>5. CASE LaunchExecutor
  BY <1>1, <1>2, <1>5, RaiseStep, GotoStep DEF LaunchExecutor, StartExecutor
<1>6. CASE RouteExecutor
  <2> DEFINE m == [mem EXCEPT !.state = EXECUTOR_COMMITTED, !.exec = art.turn,
                              !.ta = art.turn.head, !.active = 0,
                              !.recorded = FALSE]
  <2>1. SameLedger(m, mem) /\ m.state \in Working
    BY <1>0, <1>3 DEF SameLedger, Checkpoint
  <2>2. mem.state \in Working BY <1>3, <1>6 DEF RouteExecutor
  <2>3. Raise("inv") \/ Persist(m, "loop", "except") BY <1>6 DEF RouteExecutor
  <2> HIDE DEF m
  <2> QED BY <1>1, <1>2, <2>1, <2>2, <2>3, RaiseStep, WorkStep
<1>7. CASE PlanReview
  <2> DEFINE m == [mem EXCEPT !.state = REVIEW_PENDING, !.active = 1]
  <2>1. SameLedger(m, mem) /\ m.state \in Working
    BY <1>0, <1>3 DEF SameLedger, Checkpoint
  <2>2. mem.state \in Working BY <1>3, <1>7 DEF PlanReview
  <2>3. Raise("inv") \/ Persist(m, "loop", "except") BY <1>7 DEF PlanReview
  <2> HIDE DEF m
  <2> QED BY <1>1, <1>2, <2>1, <2>2, <2>3, RaiseStep, WorkStep
<1> QED BY <1>4, <1>5, <1>6, <1>7 DEF Executing

\* The plan is saved before anything is written.
LEMMA PlanStep ==
  ASSUME TypeInv, LedgerInv, PlanTransition
  PROVE  LedgerInv'
<1> DEFINE plan == [id |-> fresh + 1, pre |-> rt]
           m == [mem EXCEPT !.state = RUNTIME_TRANSITION_PENDING, !.plan = plan]
<1>0. mem \in Checkpoint /\ fresh + 1 > 0
  BY DEF TypeInv, ControlTyped, TurnsTyped
<1>1. /\ pc = "loop" /\ mem.state = REVIEW_COMPLETED
      /\ Persist(m, "loop", "except") /\ UNCHANGED <<rt, written, repo>>
  BY DEF PlanTransition, AtVerdict, docs, history
<1>2. /\ m.state = RUNTIME_TRANSITION_PENDING /\ m.plan.id > 0
      /\ m.outcome = mem.outcome /\ m.applied = mem.applied /\ m.pub = mem.pub
  BY <1>0 DEF Checkpoint
<1> HIDE DEF m
<1>3. /\ mem' = m /\ ck' \in {ck, m} /\ pc' \in {"loop", "except"}
      /\ pc' = "loop" => ck' = m
  BY <1>1 DEF Persist
<1>4. mem.state \in Working /\ ck.state \in Working
  BY <1>1 DEF LedgerInv, MemoryOK, Stepping, Working
<1>5. /\ written = {} /\ ~commit.set /\ mem.outcome.state = "none"
      /\ ~mem.applied /\ ~mem.pub.set
  BY <1>4, StateFacts
  DEF LedgerInv, WrittenOK, CommitOK, CheckpointsOK, Consistent
<1>6. Consistent(m, written)
  BY <1>2, <1>5, StateFacts, OutcomeFacts DEF Consistent, Declined, Decisions
<1>7. CheckpointsOK' BY <1>1, <1>3, <1>6 DEF LedgerInv, CheckpointsOK
<1>8. MemoryOK'
  BY <1>2, <1>3, StateFacts
  DEF MemoryOK, SameLedger, Reloaded, Finishing, Stepping
<1>9. PlaceOK' BY <1>2, <1>3, StateFacts DEF PlaceOK, Finishing
<1>10. WrittenOK' BY <1>1, <1>5 DEF LedgerInv, WrittenOK
<1>11. FinalOK' BY <1>2, <1>3, <1>4, StateFacts DEF FinalOK
<1>12. CommitOK' BY <1>1, <1>5 DEF LedgerInv, CommitOK, repo
<1> QED BY <1>7, <1>8, <1>9, <1>10, <1>11, <1>12 DEF LedgerInv

\* The branches REVIEW_PENDING and REVIEW_COMPLETED.
LEMMA LedgerReviewing == TypeInv /\ LedgerInv /\ Reviewing => LedgerInv'
<1> SUFFICES ASSUME TypeInv, LedgerInv, Reviewing PROVE LedgerInv' OBVIOUS
<1>0. mem \in Checkpoint BY DEF TypeInv, ControlTyped
<1>1. pc \in Stepping /\ UNCHANGED <<rt, written, repo>>
  BY DEF Reviewing, PrepareReview, LaunchReview, RouteReview, RefuseVerdict,
         PlanCorrection, FollowHumanGate, PlanTransition, FollowReject,
         AtVerdict, Stepping, docs, history
<1>2. {"loop", "launch"} \subseteq Walking BY DEF Walking, Stepping
<1>3. {REVIEW_PENDING, REVIEW_COMPLETED, REVIEW_CORRECTION_PENDING,
       INSTRUCTION_READY} \subseteq Working
  BY DEF Working
<1>4. mem.state \in Working
  BY <1>3 DEF Reviewing, PrepareReview, LaunchReview, RouteReview, RefuseVerdict,
              PlanCorrection, FollowHumanGate, PlanTransition, FollowReject,
              AtVerdict
<1>5. CASE PrepareReview
  <2>1. CASE art.st = "done"
    <3>1. SameLedger(mem', mem) /\ mem'.state = mem.state
      BY <1>0, <1>5, <2>1 DEF PrepareReview, SameLedger, Checkpoint
    <3> QED BY <1>1, <1>5, <2>1, <3>1, CalmStep
            DEF PrepareReview, Walking, Stepping
  <2>2. CASE art.st # "done"
    <3> DEFINE m == [mem EXCEPT !.rev = NoReviewer, !.active = @ + 1,
                                !.recorded = FALSE]
    <3>1. SameLedger(m, mem) /\ m.state = mem.state
      BY <1>0 DEF SameLedger, Checkpoint
    <3>2. Goto("launch") \/ Persist(m, "launch", "except")
      BY <1>5, <2>2 DEF PrepareReview
    <3> HIDE DEF m
    <3> QED BY <1>1, <1>2, <3>1, <3>2, GotoStep, WorkStep
  <2> QED BY <2>1, <2>2
<1>6. CASE LaunchReview
  BY <1>1, <1>6, RaiseStep, StartReviewerStep DEF LaunchReview
<1>7. CASE RouteReview
  <2> DEFINE m == [mem EXCEPT !.state = REVIEW_COMPLETED, !.instr = art.turn,
                              !.corr = NoCorrection, !.active = 0,
                              !.recorded = FALSE]
  <2>1. SameLedger(m, mem) /\ m.state \in Working
    BY <1>0, <1>3 DEF SameLedger, Checkpoint
  <2>2. Raise("inv") \/ Persist(m, "loop", "except") BY <1>7 DEF RouteReview
  <2> HIDE DEF m
  <2> QED BY <1>1, <1>2, <1>4, <2>1, <2>2, RaiseStep, WorkStep
<1>8. CASE RefuseVerdict BY <1>1, <1>8, RaiseStep DEF RefuseVerdict
<1>9. CASE PlanCorrection
  <2> DEFINE m == [mem EXCEPT
                     !.state = REVIEW_CORRECTION_PENDING,
                     !.corr = [mem.corr EXCEPT
                                 !.on = TRUE, !.thread = mem.instr.thread,
                                 !.guards = mem.corr.guards \cup {evid},
                                 !.pending = mem.corr.completed + 1]]
  <2>1. SameLedger(m, mem) /\ m.state \in Working
    BY <1>0, <1>3 DEF SameLedger, Checkpoint
  <2>2. Persist(m, "loop", "except") BY <1>9 DEF PlanCorrection
  <2> HIDE DEF m
  <2> QED BY <1>1, <1>2, <1>4, <2>1, <2>2, WorkStep
<1>10. CASE FollowHumanGate
  <2>1. SameLedger(mem, mem) BY DEF SameLedger
  <2> QED BY <1>0, <1>1, <1>4, <1>10, <2>1, StopStep DEF FollowHumanGate
<1>11. CASE PlanTransition BY <1>11, PlanStep
<1>12. CASE FollowReject
  <2> DEFINE m == [mem EXCEPT !.state = INSTRUCTION_READY, !.cycle = @ + 1,
                              !.corr = NoCorrection, !.exec = NoTurn,
                              !.tb = 0, !.ta = 0, !.active = 0]
  <2>1. SameLedger(m, mem) /\ m.state \in Working /\ SameLedger(mem, mem)
    BY <1>0, <1>3 DEF SameLedger, Checkpoint
  <2>2. \/ ReachOutcome(mem, HUMAN_GATE, 0, "finish", "except")
        \/ Persist(m, "loop", "except")
    BY <1>12 DEF FollowReject
  <2> HIDE DEF m
  <2> QED BY <1>0, <1>1, <1>2, <1>4, <2>1, <2>2, StopStep, WorkStep
<1> QED BY <1>5, <1>6, <1>7, <1>8, <1>9, <1>10, <1>11, <1>12 DEF Reviewing

\* The branches of a correction of the verdict.
LEMMA LedgerCorrecting == TypeInv /\ LedgerInv /\ Correcting => LedgerInv'
<1> SUFFICES ASSUME TypeInv, LedgerInv, Correcting PROVE LedgerInv' OBVIOUS
<1>0. mem \in Checkpoint BY DEF TypeInv, ControlTyped
<1>1. pc \in Stepping /\ UNCHANGED <<rt, written, repo>>
  BY DEF Correcting, StartCorrection, RunCorrection, RouteCorrection, Stepping,
         docs, history
<1>2. "loop" \in Walking BY DEF Walking, Stepping
<1>3. {REVIEW_CORRECTION_PENDING, REVIEW_CORRECTION_RUNNING, REVIEW_COMPLETED}
        \subseteq Working
  BY DEF Working
<1>4. mem.state \in Working
  BY <1>3 DEF Correcting, StartCorrection, RunCorrection, RouteCorrection
<1>5. CASE StartCorrection
  <2>1. /\ SameLedger(CorrectionCheckpoint, mem)
        /\ CorrectionCheckpoint.state \in Working
    BY <1>0, <1>3 DEF CorrectionCheckpoint, SameLedger, Checkpoint
  <2> QED BY <1>1, <1>2, <1>4, <1>5, <2>1, RaiseStep, WorkStep
          DEF StartCorrection
<1>6. CASE RunCorrection
  <2>1. CASE mem' = [mem EXCEPT !.rev = FromTurn(art.turn)] /\ pc' = "summary"
             /\ ck' = ck
    <3>1. SameLedger(mem', mem) /\ mem'.state = mem.state
      BY <1>0, <2>1 DEF SameLedger, Checkpoint
    <3> QED BY <1>1, <2>1, <3>1, CalmStep DEF Walking, Stepping
  <2>2. Raise("inv") \/ StartReviewer("review") \/
        (mem' = [mem EXCEPT !.rev = FromTurn(art.turn)] /\ pc' = "summary"
         /\ ck' = ck)
    BY <1>6 DEF RunCorrection
  <2> QED BY <1>1, <2>1, <2>2, RaiseStep, StartReviewerStep
<1>7. CASE RouteCorrection
  <2> DEFINE m == [mem EXCEPT !.state = REVIEW_COMPLETED, !.instr = art.turn,
                              !.corr.completed = @ + 1, !.corr.pending = 0,
                              !.active = 0, !.recorded = FALSE]
  <2>1. SameLedger(m, mem) /\ m.state \in Working
    BY <1>0, <1>3 DEF SameLedger, Checkpoint
  <2>2. Raise("inv") \/ Persist(m, "loop", "except") BY <1>7 DEF RouteCorrection
  <2> HIDE DEF m
  <2> QED BY <1>1, <1>2, <1>4, <2>1, <2>2, RaiseStep, WorkStep
<1> QED BY <1>5, <1>6, <1>7 DEF Correcting

\* The Runtime transition: reconcile, replace, mark. This is where a plan is
\* written, and only the plan that is in the checkpoint on disk.
LEMMA LedgerAccepting == TypeInv /\ LedgerInv /\ Accepting => LedgerInv'
<1> SUFFICES ASSUME TypeInv, LedgerInv, Accepting PROVE LedgerInv' OBVIOUS
<1>0. mem \in Checkpoint BY DEF TypeInv, ControlTyped
<1>1. pc \in Stepping /\ UNCHANGED repo
  BY DEF Accepting, ReconcileRuntime, ReplaceRuntime, MarkApplied, Stepping
<1>2. /\ mem.state = ck.state /\ SameLedger(mem, ck)
      /\ mem.state \in Working \cup Transition
  BY <1>1 DEF LedgerInv, MemoryOK
<1>3. ASSUME mem.state \in Transition
      PROVE  /\ mem.plan.id > 0 /\ mem.state \notin Working
             /\ mem.state \notin Finalizing /\ ~commit.set /\ ~mem.pub.set
  BY <1>2, <1>3, StateFacts DEF LedgerInv, CheckpointsOK, Consistent, CommitOK
<1>4. CASE ReconcileRuntime
  <2>1. UNCHANGED <<ck, mem, rt, written>> /\ mem.state \in Transition
    BY <1>4 DEF ReconcileRuntime, Raise, Goto, docs, history
  <2>2. \/ pc' = "except"
        \/ pc' = "replaced" /\ rt = mem.plan.id
        \/ pc' = "replace" /\ mem.state = RUNTIME_TRANSITION_PENDING
    BY <1>4 DEF ReconcileRuntime, Raise, Goto
  <2>3. pc' = "replaced" => mem.plan.id \in written
    BY <1>3, <2>1, <2>2 DEF LedgerInv, WrittenOK
  <2>4. MemoryOK' /\ PlaceOK'
    BY <1>2, <2>1, <2>2, <2>3
    DEF MemoryOK, PlaceOK, SameLedger, Reloaded, Finishing
  <2> QED BY <1>1, <2>1, <2>4
          DEF LedgerInv, CheckpointsOK, WrittenOK, FinalOK, CommitOK, repo
<1>5. CASE ReplaceRuntime
  <2>1. UNCHANGED <<ck, mem>> /\ mem.state = RUNTIME_TRANSITION_PENDING
    BY <1>5 DEF ReplaceRuntime, Raise, Goto, LedgerInv, PlaceOK
  <2>2. mem.state \in Transition BY <2>1, StateFacts
  <2>3. CASE Raise("inv")
    <3>1. UNCHANGED <<rt, written>>
      BY <1>5, <2>3 DEF ReplaceRuntime, Raise, Goto
    <3> QED BY <1>1, <2>3, <3>1, RaiseStep
  <2>4. CASE Goto("replaced") /\ rt' = mem.plan.id
             /\ written' = written \cup {mem.plan.id}
    <3>1. pc' = "replaced" /\ mem.plan = ck.plan
      BY <1>2, <2>4 DEF Goto, SameLedger
    <3>2. written' = {ck.plan.id} BY <2>4, <3>1 DEF LedgerInv, WrittenOK
    <3>3. /\ mem.outcome.state \in {"none", "UNDETERMINED"} /\ ~Declined(mem)
          /\ mem.outcome = ck.outcome
      BY <1>2, <2>1, StateFacts
      DEF LedgerInv, CheckpointsOK, Consistent, SameLedger, Declined, HUMAN_GATE,
          FAILED_CLOSED
    <3>4. CheckpointsOK'
      <4>1. Consistent(mem, written')
        BY <3>1, <3>2, <3>3 DEF LedgerInv, CheckpointsOK, Consistent
      <4>2. Consistent(ck, written')
        BY <1>2, <4>1 DEF Consistent, SameLedger, Declined
      <4> QED BY <2>1, <4>1, <4>2 DEF CheckpointsOK
    <3>5. MemoryOK' /\ PlaceOK'
      BY <1>2, <2>1, <2>2, <2>4, <3>1
      DEF MemoryOK, PlaceOK, SameLedger, Reloaded, Finishing
    <3>6. WrittenOK'
      BY <1>2, <1>3, <2>1, <2>2, <2>4, <3>1, <3>2 DEF WrittenOK
    <3> QED BY <1>1, <2>1, <3>4, <3>5, <3>6
            DEF LedgerInv, FinalOK, CommitOK, repo
  <2> QED BY <1>5, <2>3, <2>4 DEF ReplaceRuntime
<1>6. CASE MarkApplied
  <2> DEFINE o == [state |-> RUNTIME_TRANSITION_COMMITTED, exit |-> 0]
             m == [Applied EXCEPT !.state = RUNTIME_TRANSITION_COMMITTED,
                                  !.outcome = o]
  <2>1. /\ pc = "replaced" /\ Persist(m, "finish", "except")
        /\ UNCHANGED <<rt, written>>
    BY <1>6 DEF MarkApplied, ReachOutcome, docs, history
  <2>2. /\ m.state = RUNTIME_TRANSITION_COMMITTED /\ m.outcome = o
        /\ m.outcome.state = RUNTIME_TRANSITION_COMMITTED
        /\ m.applied /\ m.plan = mem.plan /\ m.pub = mem.pub
    BY <1>0 DEF Applied, Checkpoint
  <2> HIDE DEF m, o
  <2>3. /\ mem' = m /\ ck' \in {ck, m} /\ pc' \in {"finish", "except"}
        /\ pc' = "finish" => ck' = m
    BY <2>1 DEF Persist
  <2>4. mem.state \in Transition /\ mem.plan.id \in written
    BY <2>1 DEF LedgerInv, PlaceOK
  <2>5. written = {mem.plan.id} /\ mem.plan = ck.plan
    BY <2>4 DEF LedgerInv, WrittenOK
  <2>6. Consistent(m, written)
    BY <1>3, <2>2, <2>4, <2>5, StateFacts, OutcomeFacts
    DEF Consistent, Declined, Decisions
  <2>7. CheckpointsOK' BY <2>1, <2>3, <2>6 DEF LedgerInv, CheckpointsOK
  <2>8. MemoryOK' BY <2>3 DEF MemoryOK, Reloaded, Finishing, Stepping
  <2>9. PlaceOK'
    BY <2>2, <2>3, StateFacts DEF PlaceOK, Finishing, Decisions
  <2>10. WrittenOK'
    BY <1>2, <1>3, <2>1, <2>2, <2>3, <2>4, <2>5, StateFacts
    DEF LedgerInv, WrittenOK
  <2>11. FinalOK'
    BY <1>2, <1>3, <2>2, <2>3, <2>4, StateFacts DEF FinalOK
  <2>12. CommitOK' BY <1>1, <1>3, <2>4 DEF LedgerInv, CommitOK, repo
  <2> QED BY <2>7, <2>8, <2>9, <2>10, <2>11, <2>12 DEF LedgerInv
<1> QED BY <1>4, <1>5, <1>6 DEF Accepting

\* The process ends, having left the checkpoint as it was or written m.
LEMMA DownStep ==
  ASSUME LedgerInv, NEW m, ck' \in {ck, m}, mem' = ck', pc' = "down",
         Consistent(m, written), m.plan \in {ck.plan, mem.plan},
         m.pub \in {ck.pub, mem.pub},
         written # {} => m.state \notin Working,
         ck.state \in Finalizing => m.state \in Finalizing,
         UNCHANGED <<rt, written, repo>>
  PROVE  LedgerInv'
<1> USE DEF LedgerInv, repo
<1>1. CheckpointsOK' BY DEF CheckpointsOK
<1>2. MemoryOK' /\ PlaceOK' BY DEF MemoryOK, PlaceOK, Reloaded, Finishing, Stepping
<1>3. WrittenOK' BY DEF WrittenOK
<1>4. FinalOK' BY DEF FinalOK
<1>5. CommitOK' BY DEF CommitOK
<1> QED BY <1>1, <1>2, <1>3, <1>4, <1>5

\* finish_evidence raises.
LEMMA FinishErrorStep ==
  ASSUME LedgerInv, NEW kind, FinishError(kind), UNCHANGED <<rt, written, repo>>
  PROVE  LedgerInv'
<1> USE DEF LedgerInv, repo
<1>1. /\ mem = ck /\ UNCHANGED <<ck, mem>>
      /\ \/ pc = "finish" /\ pc' = "except"
         \/ pc' \in {"exceptX", "down"}
  BY DEF FinishError, MemoryOK, Finishing
<1>2. MemoryOK' BY <1>1 DEF MemoryOK, Reloaded, Finishing, Stepping
<1>3. PlaceOK' BY <1>1 DEF PlaceOK, Finishing
<1> QED BY <1>1, <1>2, <1>3 DEF CheckpointsOK, WrittenOK, FinalOK, CommitOK

\* finish_evidence saves its progress.
LEMMA FinishPersistStep ==
  ASSUME LedgerInv, pc \in Finishing, NEW m, FinishPersist(m),
         m.state \in Finalizing, Consistent(m, written),
         m.plan = mem.plan, m.outcome = mem.outcome,
         commit.set => m.pub = mem.pub, UNCHANGED <<rt, written, repo>>
  PROVE  LedgerInv'
<1> USE DEF LedgerInv, repo
<1>1. /\ ck' \in {ck, m} /\ pc' \in {pc, "except", "exceptX", "down"}
      /\ mem' \in {ck, m}
      /\ pc' \in {pc, "down"} => mem' = ck'
      /\ pc' \in {"except", "exceptX"} => mem' = m
  BY DEF FinishPersist, Persist, Finishing
<1>2. /\ mem = ck /\ mem.state \notin Working /\ mem.outcome.state \in Decisions
      /\ pc' = pc => mem' = m
  BY DEF FinishPersist, Persist, MemoryOK, PlaceOK, Finishing
<1>3. m.state \notin Working BY StateFacts
<1>4. CheckpointsOK' BY <1>1 DEF CheckpointsOK
<1>5. MemoryOK' BY <1>1 DEF MemoryOK, Reloaded, Finishing, Stepping
<1>6. PlaceOK' BY <1>1, <1>2, <1>3, StateFacts DEF PlaceOK, Finishing
<1>7. WrittenOK' BY <1>1, <1>2, <1>3 DEF WrittenOK
<1>8. FinalOK' BY <1>1, <1>2 DEF FinalOK
<1>9. CommitOK' BY <1>1, <1>2 DEF CommitOK
<1> QED BY <1>4, <1>5, <1>6, <1>7, <1>8, <1>9

\* finish_evidence: plan, commit, note, push, note.
LEMMA LedgerPublishing == TypeInv /\ LedgerInv /\ Publishing => LedgerInv'
<1> SUFFICES ASSUME TypeInv, LedgerInv, Publishing PROVE LedgerInv' OBVIOUS
<1>0. mem \in Checkpoint BY DEF TypeInv, ControlTyped
<1>1. pc \in Finishing /\ UNCHANGED <<rt, written>>
  BY DEF Publishing, BeginFinish, PlanCommit, MakeCommit, NoteCommit, Push,
         EndFinish, docs, history
<1>2. /\ mem = ck /\ mem.state \notin Working
      /\ mem.outcome.state \in Decisions /\ Consistent(mem, written)
  BY <1>1 DEF LedgerInv, MemoryOK, PlaceOK, CheckpointsOK
\* Progress through the states of finalization changes nothing else.
<1>3. ASSUME NEW s \in Finalizing,
             FinishPersist([mem EXCEPT !.state = s]), UNCHANGED repo
      PROVE  LedgerInv'
  <2> DEFINE m == [mem EXCEPT !.state = s]
  <2>1. m.state = s /\ SameLedger(m, mem)
    BY <1>0 DEF SameLedger, Checkpoint
  <2>2. FinishPersist(m) BY <1>3
  <2> HIDE DEF m
  <2>3. Consistent(m, written)
    BY <1>2, <2>1, <1>3, StateFacts DEF Consistent, SameLedger, Declined
  <2> QED BY <1>1, <1>3, <2>1, <2>2, <2>3, FinishPersistStep DEF SameLedger
<1>4. CASE BeginFinish
  <2>1. EVIDENCE_FINALIZATION_PENDING \in Finalizing BY DEF Finalizing
  <2> QED BY <1>1, <1>3, <1>4, <2>1, FinishErrorStep DEF BeginFinish
<1>5. CASE PlanCommit
  <2>1. CASE FinishError("inv")
    BY <1>1, <1>5, <2>1, FinishErrorStep DEF PlanCommit
  <2>2. CASE MayPlanCommit /\ FinishPersist([mem EXCEPT !.pub = WorkingTree])
    <3> DEFINE m == [mem EXCEPT !.pub = WorkingTree]
    <3>1. /\ m.state = mem.state /\ m.plan = mem.plan /\ m.applied = mem.applied
          /\ m.outcome = mem.outcome /\ m.pub = WorkingTree
      BY <1>0 DEF Checkpoint
    <3>2. FinishPersist(m) BY <2>2
    <3> HIDE DEF m
    <3>3. m.state \in Finalizing BY <1>5, <3>1 DEF PlanCommit, Finalizing
    <3>4. WorkingTree.rt # Pre => mem.applied
      BY <2>2 DEF MayPlanCommit, WorkingTree
    <3>5. Consistent(m, written)
      BY <1>2, <3>1, <3>3, <3>4 DEF Consistent, Declined
    <3>6. ~commit.set BY <2>2 DEF MayPlanCommit
    <3> QED BY <1>1, <1>5, <3>1, <3>2, <3>3, <3>5, <3>6, FinishPersistStep
            DEF PlanCommit
  <2> QED BY <1>5, <2>1, <2>2 DEF PlanCommit
<1>6. CASE MakeCommit
  <2>1. CASE FinishError("inv") /\ UNCHANGED commit
    BY <1>1, <1>6, <2>1, FinishErrorStep DEF MakeCommit, repo
  <2>2. CASE commit' = mem.pub /\ UNCHANGED <<pc, exc, mem, ck>>
    <3>1. /\ mem.state \in Finalizing /\ mem.pub.set /\ pushed' = pushed
          /\ ~commit.set
      BY <1>6 DEF MakeCommit, Finalizing
    <3>2. CommitOK' BY <1>2, <2>2, <3>1 DEF LedgerInv, CommitOK
    <3> QED BY <1>1, <2>2, <3>2
            DEF LedgerInv, CheckpointsOK, MemoryOK, PlaceOK, WrittenOK, FinalOK
  <2> QED BY <1>6, <2>1, <2>2 DEF MakeCommit
<1>7. CASE NoteCommit
  <2>1. FRAMEWORK_EVIDENCE_COMMITTED \in Finalizing BY DEF Finalizing
  <2> QED BY <1>1, <1>3, <1>7, <2>1, FinishErrorStep DEF NoteCommit
<1>8. CASE Push
  <2>1. FRAMEWORK_EVIDENCE_PUSHED \in Finalizing BY DEF Finalizing
  <2>2. CASE FinishError("inv") /\ UNCHANGED pushed
    BY <1>1, <1>8, <2>2, FinishErrorStep DEF Push, repo
  <2>3. CASE MatchesCommit /\ pushed' = TRUE /\ UNCHANGED <<pc, exc, mem, ck>>
    <3>1. commit.set /\ commit' = commit
      BY <1>8, <2>3 DEF Push, MatchesCommit, WorkingTree
    <3>2. CommitOK' BY <2>3, <3>1 DEF LedgerInv, CommitOK
    <3> QED BY <1>1, <2>3, <3>2
            DEF LedgerInv, CheckpointsOK, MemoryOK, PlaceOK, WrittenOK, FinalOK
  <2>4. CASE /\ FinishPersist([mem EXCEPT !.state = FRAMEWORK_EVIDENCE_PUSHED])
             /\ UNCHANGED pushed
    BY <1>3, <1>8, <2>1, <2>4 DEF Push, repo
  <2> QED BY <1>8, <2>2, <2>3, <2>4 DEF Push
<1>9. CASE EndFinish
  <2>1. CASE FinishError("inv") BY <1>1, <1>9, <2>1, FinishErrorStep DEF EndFinish
  <2>2. CASE pc' = "down" /\ mem' = ck /\ UNCHANGED ck
    BY <1>1, <1>2, <1>9, <2>2, DownStep DEF EndFinish
  <2> QED BY <1>9, <2>1, <2>2 DEF EndFinish
<1> QED BY <1>4, <1>5, <1>6, <1>7, <1>8, <1>9 DEF Publishing

\* The handler tells an interrupted transition (nothing is claimed, or a Human
\* has to look) from a failure before any plan (failed closed).
LEMMA LedgerHandling == TypeInv /\ LedgerInv /\ Handling => LedgerInv'
<1> SUFFICES ASSUME TypeInv, LedgerInv, Handling PROVE LedgerInv' OBVIOUS
<1>0. mem \in Checkpoint BY DEF TypeInv, ControlTyped
<1>1. UNCHANGED <<rt, written, repo>>
  BY DEF Handling, HandleFailure, HandleFailureOfHandler, docs, history
<1>2. /\ Consistent(mem, written)
      /\ written # {} => mem.state \notin Working /\ mem.plan = ck.plan
                         /\ written = {ck.plan.id}
      /\ ck.state \in Finalizing => mem.state \in Finalizing
  BY DEF LedgerInv, CheckpointsOK, WrittenOK, FinalOK
<1>3. CASE HandleFailure
  <2> DEFINE m == [mem EXCEPT !.active = 0]
             u == [m EXCEPT !.outcome = [state |-> "UNDETERMINED", exit |-> 1]]
  <2>1. m \in Checkpoint /\ m.state = mem.state /\ SameLedger(m, mem)
    BY <1>0 DEF Checkpoint, SameLedger
  <2>2. Consistent(m, written) BY <1>2, <2>1, SameConsistent
  <2>3. /\ u.state = m.state /\ u.plan = m.plan /\ u.applied = m.applied
        /\ u.pub = m.pub /\ u.outcome.state = "UNDETERMINED"
    BY <1>0 DEF Checkpoint
  <2> HIDE DEF m
  <2>4. CASE InterruptedPublication /\ Persist(m, "down", "down")
    <3>1. ck' \in {ck, m} /\ mem' = ck' /\ pc' = "down" BY <2>4 DEF Persist
    <3> QED BY <1>1, <1>2, <2>1, <2>2, <3>1, DownStep DEF SameLedger
  <2>5. CASE InterruptedTransition /\ Persist(u, "down", "down")
    <3> HIDE DEF u
    <3>1. ck' \in {ck, u} /\ mem' = ck' /\ pc' = "down" BY <2>5 DEF Persist
    <3>2. u.state \in Transition
      BY <2>1, <2>3, <2>5 DEF InterruptedTransition
    <3>3. ~Declined(u)
      BY <2>3 DEF Declined, FAILED_CLOSED, HUMAN_GATE
    <3>4. Consistent(u, written)
      BY <2>2, <2>3, <3>2, <3>3, StateFacts DEF Consistent, RUNTIME_TRANSITION_COMMITTED
    <3> QED BY <1>1, <1>2, <2>1, <2>3, <3>1, <3>4, DownStep DEF SameLedger
  <2>6. ASSUME NEW d \in {HUMAN_GATE, FAILED_CLOSED},
               ReachOutcome(m, d, 1, "finishX", "exceptX"),
               ~InterruptedPublication,
               d = FAILED_CLOSED => written = {}
        PROVE  LedgerInv'
    <3> HIDE DEF u
    <3> DEFINE o == [state |-> d, exit |-> 1]
               n == [m EXCEPT !.state = d, !.outcome = o]
    <3>1. /\ mem' = n /\ ck' \in {ck, n} /\ pc' \in {"finishX", "exceptX"}
          /\ pc' = "finishX" => ck' = n
      BY <2>6 DEF ReachOutcome, Persist
    <3>2. /\ n.state = d /\ n.outcome = o /\ n.outcome.state = d
          /\ n.outcome.exit = 1
          /\ n.plan = m.plan /\ n.applied = m.applied /\ n.pub = m.pub
      BY <2>1 DEF Checkpoint
    <3>3. n.outcome # [state |-> HUMAN_GATE, exit |-> 0]
      BY <3>2
    <3> HIDE DEF n, o
    <3>4. d \in Finalized /\ d \notin Finalizing /\ d \in Decisions
      BY StateFacts DEF Decisions
    <3>5. /\ mem.state \notin Finalizing /\ ck.state \notin Finalizing
          /\ ~m.pub.set /\ ~commit.set
      BY <1>2, <2>1, <2>2, <2>6
      DEF InterruptedPublication, Consistent, LedgerInv, CommitOK
    <3>6. Consistent(n, written)
      BY <2>2, <2>6, <3>2, <3>3, <3>4, <3>5, StateFacts, OutcomeFacts
      DEF Consistent, Declined
    <3>7. CheckpointsOK' BY <1>1, <3>1, <3>6 DEF LedgerInv, CheckpointsOK
    <3>8. MemoryOK' BY <3>1 DEF MemoryOK, Reloaded, Finishing, Stepping
    <3>9. PlaceOK' BY <3>1, <3>2, <3>4, StateFacts DEF PlaceOK, Finishing
    <3>10. WrittenOK'
      BY <1>1, <1>2, <2>1, <3>1, <3>2, <3>4, StateFacts
      DEF LedgerInv, WrittenOK, SameLedger
    <3>11. FinalOK' BY <3>1, <3>2, <3>4, <3>5 DEF FinalOK
    <3>12. CommitOK' BY <1>1, <3>5 DEF LedgerInv, CommitOK, repo
    <3> QED BY <3>7, <3>8, <3>9, <3>10, <3>11, <3>12 DEF LedgerInv
  <2>7. ~InterruptedTransition /\ ~InterruptedPublication => written = {}
    BY <1>3
    DEF HandleFailure, InterruptedTransition, InterruptedPublication, LedgerInv,
        PlaceOK
  <2>8. InterruptedTransition => ~InterruptedPublication
    BY StateFacts DEF InterruptedTransition, InterruptedPublication
  <2>9. \/ InterruptedPublication /\ Persist(m, "down", "down")
        \/ InterruptedTransition /\ Persist(u, "down", "down")
        \/ /\ InterruptedTransition
           /\ ReachOutcome(m, HUMAN_GATE, 1, "finishX", "exceptX")
        \/ /\ ~InterruptedTransition /\ ~InterruptedPublication
           /\ ReachOutcome(m, FAILED_CLOSED, 1, "finishX", "exceptX")
    BY <1>3 DEF HandleFailure, m
  <2> HIDE DEF u
  <2> QED BY <2>4, <2>5, <2>6, <2>7, <2>8, <2>9, OutcomeFacts
<1>4. CASE HandleFailureOfHandler
  <2>1. ck' \in {ck, mem} /\ mem' = ck' /\ pc' = "down"
    BY <1>4 DEF HandleFailureOfHandler, Persist
  <2> QED BY <1>1, <1>2, <2>1, DownStep
<1> QED BY <1>3, <1>4 DEF Handling

\* A crash falls back on the disk, an I/O error leads to the handler.
LEMMA LedgerMishap == TypeInv /\ LedgerInv /\ Mishap => LedgerInv'
<1> SUFFICES ASSUME TypeInv, LedgerInv, Mishap PROVE LedgerInv' OBVIOUS
<1>1. UNCHANGED <<ck, rt, written, repo>>
  BY DEF Mishap, Crash, IOError, FinishIOError, FinishError, EventLost, LateEvent,
         docs, history
<1>2. CASE Crash
  <2>1. mem' = ck' /\ pc' = "down" BY <1>1, <1>2 DEF Crash
  <2> QED BY <1>1, <2>1, DownStep DEF LedgerInv, CheckpointsOK, WrittenOK
<1>3. CASE IOError
  <2>1. pc \in Stepping /\ pc' = "except" /\ mem' = mem
    BY <1>3 DEF IOError, Stepping
  <2> QED BY <1>1, <2>1, CalmStep DEF SameLedger
<1>4. CASE FinishIOError BY <1>1, <1>4, FinishErrorStep DEF FinishIOError
<1>5. CASE EventLost \/ LateEvent
  <2>1. UNCHANGED <<mem, pc>> BY <1>5 DEF EventLost, LateEvent
  <2> QED BY <1>1, <2>1
          DEF LedgerInv, CheckpointsOK, MemoryOK, PlaceOK, WrittenOK, FinalOK,
              CommitOK, repo
<1> QED BY <1>2, <1>3, <1>4, <1>5 DEF Mishap

\* A resumed process starts where the checkpoint says.
LEMMA LedgerResume == TypeInv /\ LedgerInv /\ Resume => LedgerInv'
<1> SUFFICES ASSUME TypeInv, LedgerInv, Resume PROVE LedgerInv' OBVIOUS
<1>1. UNCHANGED <<ck, mem, rt, written, repo>> BY DEF Resume, docs, history
<1>2. mem = ck /\ mem.state \in States
  BY DEF Resume, LedgerInv, MemoryOK, Reloaded, TypeInv, ControlTyped, Checkpoint
<1>3. \/ pc' = "reconcile"
      \/ pc' = "finishR" /\ mem.state \in Finalized
      \/ pc' = "loop" /\ mem.state \in Working \cup Transition
  BY <1>2, StateFacts DEF Resume, ResumePoint
<1>4. MemoryOK'
  BY <1>1, <1>2, <1>3 DEF MemoryOK, SameLedger, Reloaded, Finishing, Stepping
<1>5. PlaceOK'
  BY <1>1, <1>3, StateFacts
  DEF PlaceOK, Finishing, LedgerInv, CheckpointsOK, Consistent
<1> QED BY <1>1, <1>4, <1>5
        DEF LedgerInv, CheckpointsOK, WrittenOK, FinalOK, CommitOK, repo

\* Nobody outside can put a postimage into the Runtime document.
LEMMA LedgerEnvironment == LedgerInv /\ Environment => LedgerInv'
<1> SUFFICES ASSUME LedgerInv, Environment PROVE LedgerInv' OBVIOUS
<1>1. UNCHANGED <<ck, mem, pc, written, repo>>
  BY DEF Environment, ExecutorCommits, ExecutorEditsFiles, OrphanExits,
         HumanCleans, Intervene, OutsideProgram, history
<1>2. rt' \in {rt, Pre, Other}
  BY DEF Environment, ExecutorCommits, ExecutorEditsFiles, OrphanExits,
         HumanCleans, Intervene, docs
<1>3. WrittenOK' BY <1>1, <1>2 DEF LedgerInv, WrittenOK, Pre, Other
<1> QED BY <1>1, <1>3
        DEF LedgerInv, CheckpointsOK, MemoryOK, PlaceOK, FinalOK, CommitOK, repo

-----------------------------------------------------------------------------

Inv == TypeInv /\ LedgerInv

\* The invariant of the ledger is inductive together with the types.
THEOREM LedgerCorrect == Spec => []Inv
<1>1. Init => Inv BY InitTyped, LedgerInit DEF Inv
<1>2. Inv /\ [Next]_vars => Inv'
  <2>1. Inv /\ Next => Inv'
    <3>1. Inv /\ Next => TypeInv' BY TypeStep DEF Inv
    <3>2. Inv /\ Next => LedgerInv'
      BY LedgerTurns, LedgerInstructing, LedgerExecuting, LedgerReviewing,
         LedgerCorrecting, LedgerAccepting, LedgerPublishing, LedgerHandling,
         LedgerResume, LedgerMishap, LedgerEnvironment
      DEF Inv, Next, Program
    <3> QED BY <3>1, <3>2 DEF Inv
  <2>2. Inv /\ UNCHANGED vars => Inv'
    <3>1. Inv /\ UNCHANGED vars => TypeInv' BY TypeStutter DEF Inv
    <3>2. Inv /\ UNCHANGED vars => LedgerInv'
      BY DEF Inv, vars, docs, repo, history, LedgerInv, CheckpointsOK, MemoryOK,
             PlaceOK, WrittenOK, FinalOK, CommitOK
    <3> QED BY <3>1, <3>2 DEF Inv
  <2> QED BY <2>1, <2>2
<1> QED BY <1>1, <1>2, PTL DEF Spec

\* Write ahead: whatever dies, fails or is edited, a postimage found in the
\* Runtime document is that of the plan in the checkpoint on disk
\* (atomic_replace_runtime runs after persist(RUNTIME_TRANSITION_PENDING)).
THEOREM WriteAheadHolds == Spec => []WriteAhead
<1>1. Inv => WriteAhead BY DEF Inv, LedgerInv, WrittenOK, WriteAhead
<1> QED BY <1>1, LedgerCorrect, PTL

\* A run writes the Runtime document at most once over all its resumptions.
THEOREM WrittenOnceHolds == Spec => []WrittenOnce
<1>1. Inv => WrittenOnce BY DEF Inv, LedgerInv, WrittenOK, WrittenOnce
<1> QED BY <1>1, LedgerCorrect, PTL

\* A run whose checkpoint says committed has written the plan it names.
THEOREM CommittedIsWrittenHolds == Spec => []CommittedIsWritten
<1>1. Inv => CommittedIsWritten
  BY DEF Inv, LedgerInv, CheckpointsOK, Consistent, CommittedIsWritten
<1> QED BY <1>1, LedgerCorrect, PTL

\* A run that failed closed, or stopped by a decision, has written nothing.
THEOREM DeclinedRunsKeepRuntimeHolds == Spec => []DeclinedRunsKeepRuntime
<1>1. Inv => DeclinedRunsKeepRuntime
  BY DEF Inv, LedgerInv, CheckpointsOK, Consistent, Declined,
         DeclinedRunsKeepRuntime
<1> QED BY <1>1, LedgerCorrect, PTL

\* What is pushed was committed as planned after a decided outcome, and holds a
\* changed Runtime only if the run applied its transition.
THEOREM PublishedAsDecidedHolds == Spec => []PublishedAsDecided
<1>1. Inv => PublishedAsDecided
  BY StateFacts
  DEF Inv, LedgerInv, CommitOK, CheckpointsOK, Consistent, PublishedAsDecided
<1> QED BY <1>1, LedgerCorrect, PTL

\* Finalization is final: no step out of it, no other outcome, no Agent
\* launched and no Runtime written after it was reached on disk.
THEOREM FinalizationIsFinalHolds == Spec => FinalizationIsFinal
<1> DEFINE Final == ck.state \in Finalizing =>
                      /\ ck'.state \in Finalizing /\ ck'.outcome = ck.outcome
                      /\ workers' <= workers /\ fresh' = fresh
                      /\ written' = written
<1>1. Inv /\ [Next]_vars => Final
  <2> SUFFICES ASSUME Inv, [Next]_vars, ck.state \in Finalizing
               PROVE  /\ ck'.state \in Finalizing /\ ck'.outcome = ck.outcome
                      /\ workers' <= workers /\ fresh' = fresh
                      /\ written' = written
    OBVIOUS
  <2>0. workers \in Nat /\ mem \in Checkpoint
    BY DEF Inv, TypeInv, TurnsTyped, ControlTyped
  <2>1. mem.state \in Finalizing /\ mem.outcome = ck.outcome
    BY DEF Inv, LedgerInv, FinalOK
  <2>2. pc \notin Stepping
    BY <2>1, StateFacts DEF Inv, LedgerInv, MemoryOK
  <2>3. CASE UNCHANGED vars BY <2>0, <2>3 DEF vars, turns, history
  <2>4. CASE Turns
    <3> DEFINE m == [mem EXCEPT !.entries = @ + 1, !.pending = FALSE,
                                !.recorded = TRUE]
    <3>1. \/ AppendSummary /\ UNCHANGED ck
          \/ NoteSummary /\ ck' \in {ck, m}
      BY <2>2, <2>4
      DEF Turns, TurnExits, AuditReviewer, CaptureExecutor, PlanSummary,
          AppendSummary, NoteSummary, Raise, Goto, Persist, Stepping
    <3>2. m.state = mem.state /\ m.outcome = mem.outcome BY <2>0 DEF Checkpoint
    <3> HIDE DEF m
    <3> QED BY <2>0, <2>1, <3>1, <3>2
            DEF AppendSummary, NoteSummary, turns, history
  <2>5. CASE Publishing
    <3>1. UNCHANGED <<workers, fresh, written>>
      BY <2>5 DEF Publishing, BeginFinish, PlanCommit, MakeCommit, NoteCommit,
                  Push, EndFinish, turns, history
    <3>2. ck'.state \in Finalizing /\ ck'.outcome = ck.outcome
      <4>1. ASSUME NEW m, FinishPersist(m) PROVE ck' \in {ck, m}
        BY <4>1 DEF FinishPersist, Persist
      <4>2. \/ ck' = ck
            \/ \E s \in Finalizing : ck' = [mem EXCEPT !.state = s]
            \/ ck' = [mem EXCEPT !.pub = WorkingTree]
        BY <2>5, <4>1
        DEF Publishing, BeginFinish, PlanCommit, MakeCommit, NoteCommit, Push,
            EndFinish, FinishError, Finalizing
      <4> QED BY <2>0, <2>1, <4>2 DEF Checkpoint
    <3> QED BY <2>0, <3>1, <3>2
  <2>6. CASE Handling
    <3> DEFINE m == [mem EXCEPT !.active = 0]
    <3>1. ck' \in {ck, mem, m}
      BY <2>1, <2>6, StateFacts
      DEF Handling, HandleFailure, HandleFailureOfHandler, Persist,
          InterruptedPublication, InterruptedTransition
    <3>2. m.state = mem.state /\ m.outcome = mem.outcome BY <2>0 DEF Checkpoint
    <3>3. UNCHANGED <<workers, fresh, written>>
      BY <2>6 DEF Handling, HandleFailure, HandleFailureOfHandler, history
    <3>4. ck'.state \in Finalizing /\ ck'.outcome = ck.outcome
      BY <2>1, <3>1, <3>2
    <3>5. workers' <= workers BY <2>0, <3>3
    <3> QED BY <3>3, <3>4, <3>5
  <2>7. CASE Resume BY <2>0, <2>7 DEF Resume, turns, history
  <2>8. CASE Mishap
    <3>1. CASE Crash \/ IOError
      <4>1. workers' \in {workers, workers - 1} BY <3>1 DEF Crash, IOError
      <4>2. UNCHANGED <<ck, fresh, written>> BY <3>1 DEF Crash, IOError, history
      <4>3. workers' <= workers BY <2>0, <4>1
      <4> QED BY <4>2, <4>3
    <3>2. CASE FinishIOError
      BY <2>0, <3>2 DEF FinishIOError, FinishError, turns, history
    <3>3. CASE EventLost \/ LateEvent
      <4>1. UNCHANGED <<ck, turns, history>> BY <3>3 DEF EventLost, LateEvent
      <4> QED BY <2>0, <4>1 DEF turns, history
    <3> QED BY <2>8, <3>1, <3>2, <3>3 DEF Mishap
  <2>9. CASE Environment
    BY <2>0, <2>9
    DEF Environment, ExecutorCommits, ExecutorEditsFiles, OrphanExits,
        HumanCleans, Intervene, OutsideProgram, history
  <2>10. CASE Instructing \/ Executing \/ Reviewing \/ Correcting \/ Accepting
    <3>1. pc \in Stepping
      BY <2>10
      DEF Instructing, PrepareInstruction, LaunchInstruction, RouteInstruction,
          CheckFreshness, RouteRefresh, Executing, PrepareExecutor,
          LaunchExecutor, RouteExecutor, PlanReview, Reviewing, PrepareReview,
          LaunchReview, RouteReview, RefuseVerdict, PlanCorrection,
          FollowHumanGate, PlanTransition, FollowReject, AtVerdict, Correcting,
          StartCorrection, RunCorrection, RouteCorrection, Accepting,
          ReconcileRuntime, ReplaceRuntime, MarkApplied, Stepping
    <3> QED BY <2>2, <3>1
  <2> QED BY <2>3, <2>4, <2>5, <2>6, <2>7, <2>8, <2>9, <2>10 DEF Next, Program
<1> QED BY <1>1, LedgerCorrect, PTL DEF Spec, FinalizationIsFinal
=============================================================================
