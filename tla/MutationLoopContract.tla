------------------------ MODULE MutationLoopContract ------------------------
(***************************************************************************)
(* The orchestrator keeps the contract of a run, for any number of cycles, *)
(* crashes, I/O errors and interventions.                                  *)
(*                                                                         *)
(* The argument.  The contract speaks of the checkpoint on disk.  What can *)
(* be written there next is in memory, so one more invariant is needed     *)
(* (KeptOK): the memory holds no outcome only if the disk holds none, and  *)
(* a memory that has begun to finalize holds the outcome of the disk.  A   *)
(* step then saves work (the outcome stays, nothing is final), a decision, *)
(* or the beginning or progress of finalization (the outcome stays); the   *)
(* ledger's invariant of the state after the step says the rest.           *)
(***************************************************************************)
EXTENDS MutationLoopLedger

KeptOK ==
  /\ mem.state \in Finalizing => mem.outcome = ck.outcome
  /\ ck.outcome.state = "none" => ck.outcome = NoOutcome
  /\ mem.outcome.state = "none" => mem.outcome = NoOutcome /\ ck.outcome = NoOutcome

ContractInv == Inv /\ KeptOK

ContractStep == [Promise!Next]_(Promise!vars)

\* A checkpoint that saves work, and one that saves a decision.
Saves(c)   == c.outcome = mem.outcome /\ c.state \notin Finalizing
Decides(c) == c.outcome.state # "none" /\ c.state \notin Finalizing

-----------------------------------------------------------------------------

\* A step that writes nothing but the checkpoint is a step of the contract.
LEMMA CheckpointStep ==
  ASSUME Inv, Inv', UNCHANGED <<written, repo>>,
         \/ ck'.outcome = ck.outcome /\ (ck.state \in Finalizing => ck'.state \in Finalizing)
         \/ /\ ck.state \notin Finalizing /\ ck'.state \notin Finalizing
            /\ ck'.outcome.state # "none"
  PROVE  ContractStep
<1>1. Consistent(ck', written') BY DEF Inv, LedgerInv, CheckpointsOK
<1>2. UNCHANGED <<written, commit, pushed>> BY DEF repo
<1>3. CASE ck'.outcome = ck.outcome /\ (ck.state \in Finalizing <=> ck'.state \in Finalizing)
  BY <1>2, <1>3 DEF ContractStep, Promise!vars
<1>4. CASE /\ ck'.outcome = ck.outcome
           /\ ck.state \notin Finalizing /\ ck'.state \in Finalizing
  <2>1. ck.outcome.state \notin {"none", "UNDETERMINED"}
    BY <1>1, <1>4, StateFacts DEF Consistent
  <2>2. Promise!Finalize
    BY <1>2, <1>4, <2>1 DEF Promise!Finalize, Promise!Undecided
  <2> QED BY <2>2 DEF ContractStep, Promise!Next
<1>5. CASE /\ ck.state \notin Finalizing /\ ck'.state \notin Finalizing
           /\ ck'.outcome.state # "none"
  <2>1. Promise!Declined(ck'.outcome) => written = {}
    BY <1>1, <1>2 DEF Promise!Declined, Consistent, Declined, FAILED_CLOSED, HUMAN_GATE
  <2>2. Promise!Committed(ck'.outcome) => written # {}
    BY <1>1, <1>2 DEF Promise!Committed, Consistent, RUNTIME_TRANSITION_COMMITTED
  <2>3. Promise!Report BY <1>2, <1>5, <2>1, <2>2 DEF Promise!Report
  <2> QED BY <2>3 DEF ContractStep, Promise!Next
<1> QED BY <1>3, <1>4, <1>5

\* A step of a branch that saves work or a decision, or saves nothing.
LEMMA BranchStep ==
  ASSUME ContractInv, Inv', pc \in Stepping, UNCHANGED <<written, repo>>,
         ck' \in {ck, mem'}, Saves(mem') \/ Decides(mem')
  PROVE  ContractStep /\ KeptOK'
<1>1. /\ mem.state = ck.state /\ mem.outcome = ck.outcome
      /\ ck.state \notin Finalizing
  BY StateFacts DEF ContractInv, Inv, LedgerInv, MemoryOK, SameLedger
<1>2. ContractStep BY <1>1, CheckpointStep DEF ContractInv, Saves, Decides
<1>3. KeptOK' BY <1>1 DEF ContractInv, KeptOK, Saves, Decides
<1> QED BY <1>2, <1>3

\* Persist, Raise, Goto and ReachOutcome in a branch.
LEMMA BranchPersist ==
  ASSUME ContractInv, Inv', pc \in Stepping, UNCHANGED <<written, repo>>,
         NEW m, NEW next, Persist(m, next, "except"), Saves(m) \/ Decides(m)
  PROVE  ContractStep /\ KeptOK'
BY BranchStep DEF Persist

\* A step of a branch that touches neither the checkpoint nor its state.
LEMMA BranchQuiet ==
  ASSUME ContractInv, Inv', pc \in Stepping, UNCHANGED <<written, repo>>,
         UNCHANGED ck, mem'.outcome = mem.outcome, mem'.state = mem.state
  PROVE  ContractStep /\ KeptOK'
<1>1. mem.state \notin Finalizing
  BY StateFacts DEF ContractInv, Inv, LedgerInv, MemoryOK
<1> QED BY <1>1, BranchStep DEF Saves

\* A branch reaches an outcome.
LEMMA BranchOutcome ==
  ASSUME ContractInv, Inv', pc \in Stepping, UNCHANGED <<written, repo>>,
         NEW m \in Checkpoint, NEW o \in Decisions, o \notin Finalizing,
         NEW code, NEW next, ReachOutcome(m, o, code, next, "except")
  PROVE  ContractStep /\ KeptOK'
<1> DEFINE n == [m EXCEPT !.state = o, !.outcome = [state |-> o, exit |-> code]]
<1>1. n.state = o /\ n.outcome.state = o BY DEF Checkpoint
<1>2. Decides(n) BY <1>1, StateFacts DEF Decides
<1>3. Persist(n, next, "except") BY DEF ReachOutcome
<1> HIDE DEF n
<1> QED BY <1>2, <1>3, BranchPersist

-----------------------------------------------------------------------------

\* The Agent turns and the work of the branches.
LEMMA TurnsKeep == ContractInv /\ Inv' /\ Turns => ContractStep /\ KeptOK'
<1> SUFFICES ASSUME ContractInv, Inv', Turns PROVE ContractStep /\ KeptOK' OBVIOUS
<1>0. mem \in Checkpoint BY DEF ContractInv, Inv, TypeInv, ControlTyped
<1>1. UNCHANGED <<written, repo>>
  BY DEF Turns, TurnExits, AuditReviewer, CaptureExecutor, PlanSummary,
         AppendSummary, NoteSummary, history
<1>2. CASE pc \in Stepping
  <2>1. mem.state \notin Finalizing
    BY <1>2, StateFacts DEF ContractInv, Inv, LedgerInv, MemoryOK
  <2> DEFINE p == [mem EXCEPT !.pending = TRUE]
             n == [mem EXCEPT !.entries = @ + 1, !.pending = FALSE, !.recorded = TRUE]
  <2>2. Saves(p) /\ Saves(n) BY <1>0, <2>1 DEF Saves, Checkpoint
  <2>3. CASE TurnExits \/ CaptureExecutor \/ AppendSummary
    BY <1>1, <1>2, <2>3, BranchQuiet
    DEF TurnExits, CaptureExecutor, AppendSummary, Goto, Raise
  <2>4. CASE AuditReviewer
    <3>1. mem'.outcome = mem.outcome /\ mem'.state = mem.state /\ ck' = ck
      BY <1>0, <2>4 DEF AuditReviewer, Checkpoint
    <3> QED BY <1>1, <1>2, <3>1, BranchQuiet
  <2>5. CASE PlanSummary
    <3>1. Raise("inv") \/ Goto("route") \/ Persist(p, "append", "except")
      BY <2>5 DEF PlanSummary
    <3> HIDE DEF p
    <3> QED BY <1>1, <1>2, <2>2, <3>1, BranchQuiet, BranchPersist DEF Goto, Raise
  <2>6. CASE NoteSummary
    <3>1. Persist(n, "route", "except")
      BY <1>2, <2>6 DEF NoteSummary, Stepping
    <3> HIDE DEF n
    <3> QED BY <1>1, <1>2, <2>2, <3>1, BranchPersist
  <2> QED BY <2>3, <2>4, <2>5, <2>6 DEF Turns
<1>3. CASE pc \notin Stepping
  <2> DEFINE n == [mem EXCEPT !.entries = @ + 1, !.pending = FALSE, !.recorded = TRUE]
  <2>1. n.state = mem.state /\ n.outcome = mem.outcome BY <1>0 DEF Checkpoint
  <2>2. pc \in {"reconcile", "reconciled"} /\ mem = ck
    BY <1>3 DEF Turns, TurnExits, AuditReviewer, CaptureExecutor, PlanSummary,
                AppendSummary, NoteSummary, Stepping, ContractInv, Inv, LedgerInv,
                MemoryOK, Reloaded
  <2>3. ck' \in {ck, n} /\ mem' \in {ck, n}
    BY <1>3, <2>2 DEF Turns, TurnExits, AuditReviewer, CaptureExecutor, PlanSummary,
                AppendSummary, NoteSummary, Goto, Persist
  <2> HIDE DEF n
  <2>4. ContractStep BY <1>1, <2>1, <2>2, <2>3, CheckpointStep DEF ContractInv
  <2> QED BY <2>1, <2>2, <2>3, <2>4 DEF ContractInv, KeptOK
<1> QED BY <1>2, <1>3

\* The working states of the branches; none is final.
LEMMA BranchesKeep ==
  ContractInv /\ Inv' /\ (Instructing \/ Executing) => ContractStep /\ KeptOK'
<1> SUFFICES ASSUME ContractInv, Inv', Instructing \/ Executing
             PROVE  ContractStep /\ KeptOK'
  OBVIOUS
<1>0. mem \in Checkpoint BY DEF ContractInv, Inv, TypeInv, ControlTyped
<1>1. pc \in Stepping /\ UNCHANGED <<written, repo>>
  BY DEF Instructing, PrepareInstruction, LaunchInstruction, RouteInstruction,
         CheckFreshness, RouteRefresh, Executing, PrepareExecutor,
         LaunchExecutor, RouteExecutor, PlanReview, Stepping, docs, history
<1>2. ASSUME NEW kind, Raise(kind) \/ StartReviewer(kind)
      PROVE  ContractStep /\ KeptOK'
  BY <1>1, <1>2, BranchQuiet DEF Raise, StartReviewer
<1>3. ASSUME NEW next, Goto(next) PROVE ContractStep /\ KeptOK'
  BY <1>1, <1>3, BranchQuiet DEF Goto
<1>4. ASSUME NEW m, NEW next, Persist(m, next, "except"),
             m.outcome = mem.outcome, m.state \in Working
      PROVE  ContractStep /\ KeptOK'
  BY <1>1, <1>4, StateFacts, BranchPersist DEF Saves
<1>5. CASE PrepareInstruction
  <2>1. CASE art.st = "done"
    <3>1. mem'.outcome = mem.outcome /\ mem'.state = mem.state /\ ck' = ck
      BY <1>0, <1>5, <2>1 DEF PrepareInstruction, Checkpoint
    <3> QED BY <1>1, <3>1, BranchQuiet
  <2>2. CASE art.st # "done"
    <3> DEFINE m == [mem EXCEPT !.state = REVIEWER_INSTRUCTION_RUNNING,
                       !.rev = IF art.st = "none" THEN @ ELSE NoReviewer,
                       !.active = IF art.st = "none" /\ @ # 0 THEN @ ELSE @ + 1,
                       !.recorded = FALSE]
    <3>1. m.outcome = mem.outcome /\ m.state \in Working
      BY <1>0 DEF Checkpoint, Working
    <3>2. Persist(m, "launch", "except") BY <1>5, <2>2 DEF PrepareInstruction
    <3> HIDE DEF m
    <3> QED BY <1>4, <3>1, <3>2
  <2> QED BY <2>1, <2>2
<1>6. CASE LaunchInstruction
  BY <1>2, <1>6 DEF LaunchInstruction
<1>7. CASE RouteInstruction
  <2> DEFINE m == [mem EXCEPT !.state = INSTRUCTION_READY, !.instr = art.turn,
                              !.active = 0, !.recorded = FALSE]
  <2>1. m.outcome = mem.outcome /\ m.state \in Working
    BY <1>0 DEF Checkpoint, Working
  <2>2. Raise("inv") \/ Persist(m, "loop", "except") BY <1>7 DEF RouteInstruction
  <2> HIDE DEF m
  <2> QED BY <1>2, <1>4, <2>1, <2>2
<1>8. ExecutorCheckpoint.outcome = mem.outcome /\ ExecutorCheckpoint.state \in Working
  BY <1>0 DEF ExecutorCheckpoint, Checkpoint, Working
<1>9. CASE CheckFreshness
  BY <1>2, <1>4, <1>8, <1>9 DEF CheckFreshness
<1>10. CASE RouteRefresh BY <1>2, <1>4, <1>8, <1>10 DEF RouteRefresh
<1>11. CASE PrepareExecutor
  <2> DEFINE g == [mem EXCEPT !.active = 0, !.ta = tgt.head]
             m == [mem EXCEPT !.active = @ + 1, !.recorded = FALSE]
  <2>1. m.outcome = mem.outcome /\ m.state \in Working
    BY <1>0, <1>11 DEF PrepareExecutor, Checkpoint, Working
  <2>2. tgt.head \in Nat BY DEF ContractInv, Inv, TypeInv, WorldTyped
  <2>3. g \in Checkpoint BY <1>0, <2>2 DEF Checkpoint
  <2>4. \/ Goto("audit") \/ Raise("inv") \/ Goto("launch")
        \/ ReachOutcome(g, HUMAN_GATE, 0, "finish", "except")
        \/ Persist(m, "launch", "except")
    BY <1>11 DEF PrepareExecutor
  <2> HIDE DEF g, m
  <2>5. HUMAN_GATE \in Decisions /\ HUMAN_GATE \notin Finalizing
    BY StateFacts DEF Decisions
  <2> QED BY <1>1, <1>2, <1>3, <1>4, <2>1, <2>3, <2>4, <2>5, BranchOutcome
<1>12. CASE LaunchExecutor
  BY <1>2, <1>3, <1>12 DEF LaunchExecutor, StartExecutor
<1>13. CASE RouteExecutor
  <2> DEFINE m == [mem EXCEPT !.state = EXECUTOR_COMMITTED, !.exec = art.turn,
                               !.ta = art.turn.head, !.active = 0,
                               !.recorded = FALSE]
  <2>1. m.outcome = mem.outcome /\ m.state \in Working
    BY <1>0 DEF Checkpoint, Working
  <2>2. Raise("inv") \/ Persist(m, "loop", "except") BY <1>13 DEF RouteExecutor
  <2> HIDE DEF m
  <2> QED BY <1>2, <1>4, <2>1, <2>2
<1>14. CASE PlanReview
  <2> DEFINE m == [mem EXCEPT !.state = REVIEW_PENDING, !.active = 1]
  <2>1. m.outcome = mem.outcome /\ m.state \in Working
    BY <1>0 DEF Checkpoint, Working
  <2>2. Raise("inv") \/ Persist(m, "loop", "except") BY <1>14 DEF PlanReview
  <2> HIDE DEF m
  <2> QED BY <1>2, <1>4, <2>1, <2>2
<1> QED BY <1>5, <1>6, <1>7, <1>9, <1>10, <1>11, <1>12, <1>13, <1>14
        DEF Instructing, Executing

\* The branches of a review, its verdict and its corrections.
LEMMA ReviewsKeep ==
  ContractInv /\ Inv' /\ (Reviewing \/ Correcting) => ContractStep /\ KeptOK'
<1> SUFFICES ASSUME ContractInv, Inv', Reviewing \/ Correcting
             PROVE  ContractStep /\ KeptOK'
  OBVIOUS
<1>0. mem \in Checkpoint BY DEF ContractInv, Inv, TypeInv, ControlTyped
<1>1. pc \in Stepping /\ UNCHANGED <<written, repo>>
  BY DEF Reviewing, PrepareReview, LaunchReview, RouteReview, RefuseVerdict,
         PlanCorrection, FollowHumanGate, PlanTransition, FollowReject,
         Correcting, StartCorrection, RunCorrection, RouteCorrection,
         AtVerdict, Stepping, docs, history
<1>2. ASSUME NEW kind, Raise(kind) \/ StartReviewer(kind)
      PROVE  ContractStep /\ KeptOK'
  BY <1>1, <1>2, BranchQuiet DEF Raise, StartReviewer
<1>3. ASSUME NEW next, Goto(next) PROVE ContractStep /\ KeptOK'
  BY <1>1, <1>3, BranchQuiet DEF Goto
<1>4. ASSUME NEW m, NEW next, Persist(m, next, "except"),
             m.outcome = mem.outcome, m.state \in Working \cup Transition
      PROVE  ContractStep /\ KeptOK'
  BY <1>1, <1>4, StateFacts, BranchPersist DEF Saves
<1>5. ASSUME ReachOutcome(mem, HUMAN_GATE, 0, "finish", "except")
      PROVE  ContractStep /\ KeptOK'
  <2>1. HUMAN_GATE \in Decisions /\ HUMAN_GATE \notin Finalizing
    BY StateFacts DEF Decisions
  <2> QED BY <1>0, <1>1, <1>5, <2>1, BranchOutcome
<1>6. ASSUME art.st = "done", mem' = [mem EXCEPT !.rev = FromTurn(art.turn)],
             UNCHANGED ck
      PROVE  ContractStep /\ KeptOK'
  <2>1. mem'.outcome = mem.outcome /\ mem'.state = mem.state
    BY <1>0, <1>6 DEF Checkpoint
  <2> QED BY <1>1, <1>6, <2>1, BranchQuiet
<1>7. CASE PrepareReview
  <2> DEFINE m == [mem EXCEPT !.rev = NoReviewer, !.active = @ + 1,
                              !.recorded = FALSE]
  <2>1. m.outcome = mem.outcome /\ m.state \in Working
    BY <1>0, <1>7 DEF PrepareReview, Checkpoint, Working
  <2>2. \/ art.st = "done" /\ mem' = [mem EXCEPT !.rev = FromTurn(art.turn)]
           /\ UNCHANGED ck
        \/ Goto("launch") \/ Persist(m, "launch", "except")
    BY <1>7 DEF PrepareReview
  <2> HIDE DEF m
  <2> QED BY <1>3, <1>4, <1>6, <2>1, <2>2
<1>8. CASE LaunchReview BY <1>2, <1>8 DEF LaunchReview
<1>9. CASE RouteReview
  <2> DEFINE m == [mem EXCEPT !.state = REVIEW_COMPLETED, !.instr = art.turn,
                              !.corr = NoCorrection, !.active = 0,
                              !.recorded = FALSE]
  <2>1. m.outcome = mem.outcome /\ m.state \in Working
    BY <1>0 DEF Checkpoint, Working
  <2>2. Raise("inv") \/ Persist(m, "loop", "except") BY <1>9 DEF RouteReview
  <2> HIDE DEF m
  <2> QED BY <1>2, <1>4, <2>1, <2>2
<1>10. CASE RefuseVerdict BY <1>2, <1>10 DEF RefuseVerdict
<1>11. CASE PlanCorrection
  <2> DEFINE m == [mem EXCEPT
                     !.state = REVIEW_CORRECTION_PENDING,
                     !.corr = [mem.corr EXCEPT
                                 !.on = TRUE, !.thread = mem.instr.thread,
                                 !.guards = mem.corr.guards \cup {evid},
                                 !.pending = mem.corr.completed + 1]]
  <2>1. m.outcome = mem.outcome /\ m.state \in Working
    BY <1>0 DEF Checkpoint, Working
  <2>2. Persist(m, "loop", "except") BY <1>11 DEF PlanCorrection
  <2> HIDE DEF m
  <2> QED BY <1>4, <2>1, <2>2
<1>12. CASE FollowHumanGate BY <1>5, <1>12 DEF FollowHumanGate
<1>13. CASE PlanTransition
  <2> DEFINE m == [mem EXCEPT !.state = RUNTIME_TRANSITION_PENDING,
                              !.plan = [id |-> fresh + 1, pre |-> rt]]
  <2>1. m.outcome = mem.outcome /\ m.state \in Transition
    BY <1>0, StateFacts DEF Checkpoint
  <2>2. Persist(m, "loop", "except") BY <1>13 DEF PlanTransition
  <2> HIDE DEF m
  <2> QED BY <1>4, <2>1, <2>2
<1>14. CASE FollowReject
  <2> DEFINE m == [mem EXCEPT !.state = INSTRUCTION_READY, !.cycle = @ + 1,
                              !.corr = NoCorrection, !.exec = NoTurn,
                              !.tb = 0, !.ta = 0, !.active = 0]
  <2>1. m.outcome = mem.outcome /\ m.state \in Working
    BY <1>0 DEF Checkpoint, Working
  <2>2. \/ ReachOutcome(mem, HUMAN_GATE, 0, "finish", "except")
        \/ Persist(m, "loop", "except")
    BY <1>14 DEF FollowReject
  <2> HIDE DEF m
  <2> QED BY <1>4, <1>5, <2>1, <2>2
<1>15. CASE StartCorrection
  <2>1. /\ CorrectionCheckpoint.outcome = mem.outcome
        /\ CorrectionCheckpoint.state \in Working
    BY <1>0 DEF CorrectionCheckpoint, Checkpoint, Working
  <2> QED BY <1>2, <1>4, <1>15, <2>1 DEF StartCorrection
<1>16. CASE RunCorrection
  BY <1>2, <1>6, <1>16 DEF RunCorrection
<1>17. CASE RouteCorrection
  <2> DEFINE m == [mem EXCEPT !.state = REVIEW_COMPLETED, !.instr = art.turn,
                              !.corr.completed = @ + 1, !.corr.pending = 0,
                              !.active = 0, !.recorded = FALSE]
  <2>1. m.outcome = mem.outcome /\ m.state \in Working
    BY <1>0 DEF Checkpoint, Working
  <2>2. Raise("inv") \/ Persist(m, "loop", "except") BY <1>17 DEF RouteCorrection
  <2> HIDE DEF m
  <2> QED BY <1>2, <1>4, <2>1, <2>2
<1> QED BY <1>7, <1>8, <1>9, <1>10, <1>11, <1>12, <1>13, <1>14, <1>15, <1>16, <1>17
        DEF Reviewing, Correcting

\* The Runtime transition: here the contract's Write happens.
LEMMA AcceptingKeeps ==
  ContractInv /\ Inv' /\ Accepting => ContractStep /\ KeptOK'
<1> SUFFICES ASSUME ContractInv, Inv', Accepting PROVE ContractStep /\ KeptOK'
  OBVIOUS
<1>0. mem \in Checkpoint BY DEF ContractInv, Inv, TypeInv, ControlTyped
<1>1. pc \in Stepping /\ UNCHANGED repo
  BY DEF Accepting, ReconcileRuntime, ReplaceRuntime, MarkApplied, Stepping
<1>2. /\ mem.state = ck.state /\ mem.outcome = ck.outcome
      /\ ck.state \notin Finalizing /\ mem.plan = ck.plan
  BY <1>1, StateFacts
  DEF ContractInv, Inv, LedgerInv, MemoryOK, SameLedger
<1>3. CASE ReconcileRuntime
  BY <1>1, <1>3, BranchQuiet DEF ReconcileRuntime, Raise, Goto, history
<1>4. CASE ReplaceRuntime /\ written' = written
  BY <1>1, <1>4, BranchQuiet DEF ReplaceRuntime, Raise, Goto
<1>5. CASE ReplaceRuntime /\ written' # written
  <2>1. /\ written' = written \cup {mem.plan.id} /\ UNCHANGED <<ck, mem>>
        /\ rt = mem.plan.pre
    BY <1>5 DEF ReplaceRuntime, Raise, Goto
  <2>2. mem.state = RUNTIME_TRANSITION_PENDING
    BY <1>5 DEF ReplaceRuntime, ContractInv, Inv, LedgerInv, PlaceOK
  <2>3. ck.outcome.state \in {"none", "UNDETERMINED"}
    BY <1>2, <2>2, StateFacts
    DEF ContractInv, Inv, LedgerInv, CheckpointsOK, Consistent
  <2>4. written = {} /\ written' = {mem.plan.id}
    BY <1>2, <1>5, <2>1 DEF ContractInv, Inv, LedgerInv, WrittenOK
  <2>5. UNCHANGED <<commit, pushed>> BY <1>1 DEF repo
  <2>6. Promise!Write
    BY <2>1, <2>3, <2>4, <2>5 DEF Promise!Write, Promise!Undecided
  <2>7. KeptOK' BY <2>1 DEF ContractInv, KeptOK
  <2> QED BY <2>6, <2>7 DEF ContractStep, Promise!Next
<1>6. CASE MarkApplied
  <2>1. Applied \in Checkpoint BY <1>0 DEF Applied, Checkpoint
  <2>2. ReachOutcome(Applied, RUNTIME_TRANSITION_COMMITTED, 0, "finish", "except")
        /\ UNCHANGED written
    BY <1>6 DEF MarkApplied, history
  <2>3. /\ RUNTIME_TRANSITION_COMMITTED \in Decisions
        /\ RUNTIME_TRANSITION_COMMITTED \notin Finalizing
    BY StateFacts DEF Decisions
  <2> QED BY <1>1, <2>1, <2>2, <2>3, BranchOutcome
<1> QED BY <1>3, <1>4, <1>5, <1>6 DEF Accepting

-----------------------------------------------------------------------------

\* A step that leaves a process reloading the disk, and writes nothing.
LEMMA ReloadStep ==
  ASSUME ContractInv, Inv', ck' = ck, mem' \in {ck, mem},
         UNCHANGED <<written, repo>>
  PROVE  ContractStep /\ KeptOK'
<1>1. ContractStep BY CheckpointStep DEF ContractInv
<1>2. KeptOK' BY DEF ContractInv, KeptOK
<1> QED BY <1>1, <1>2

\* finish_evidence saves its progress, the outcome stays.
LEMMA FinishStep ==
  ASSUME ContractInv, Inv', pc \in Finishing, NEW m, FinishPersist(m),
         m.outcome = mem.outcome, m.state \in Finalizing,
         UNCHANGED <<written, repo>>
  PROVE  ContractStep /\ KeptOK'
<1>1. mem = ck BY DEF ContractInv, Inv, LedgerInv, MemoryOK
<1>2. ck' \in {ck, m} /\ mem' \in {ck, m} BY DEF FinishPersist, Persist
<1>3. ContractStep BY <1>1, <1>2, CheckpointStep DEF ContractInv
<1>4. KeptOK' BY <1>1, <1>2 DEF ContractInv, KeptOK
<1> QED BY <1>3, <1>4

\* Finalization, and the contract's Commit and Push.
LEMMA PublishingKeeps ==
  ContractInv /\ Inv' /\ Publishing => ContractStep /\ KeptOK'
<1> SUFFICES ASSUME ContractInv, Inv', Publishing PROVE ContractStep /\ KeptOK'
  OBVIOUS
<1>0. mem \in Checkpoint BY DEF ContractInv, Inv, TypeInv, ControlTyped
<1>1. pc \in Finishing /\ UNCHANGED written
  BY DEF Publishing, BeginFinish, PlanCommit, MakeCommit, NoteCommit, Push,
         EndFinish, history
<1>2. /\ mem = ck /\ Consistent(mem, written) /\ (pushed => commit.set)
  BY <1>1
  DEF ContractInv, Inv, LedgerInv, MemoryOK, CheckpointsOK, CommitOK
<1>3. ASSUME NEW kind, FinishError(kind), UNCHANGED repo
      PROVE  ContractStep /\ KeptOK'
  BY <1>1, <1>3, ReloadStep DEF FinishError
<1>4. ASSUME NEW s \in Finalizing,
             FinishPersist([mem EXCEPT !.state = s]), UNCHANGED repo
      PROVE  ContractStep /\ KeptOK'
  <2> DEFINE m == [mem EXCEPT !.state = s]
  <2>1. m.state = s /\ m.outcome = mem.outcome BY <1>0 DEF Checkpoint
  <2>2. FinishPersist(m) BY <1>4
  <2> HIDE DEF m
  <2> QED BY <1>1, <1>4, <2>1, <2>2, FinishStep
<1>5. CASE BeginFinish
  <2>1. EVIDENCE_FINALIZATION_PENDING \in Finalizing BY DEF Finalizing
  <2> QED BY <1>3, <1>4, <1>5, <2>1 DEF BeginFinish
<1>6. CASE PlanCommit
  <2> DEFINE m == [mem EXCEPT !.pub = WorkingTree]
  <2>1. m.state = mem.state /\ m.outcome = mem.outcome
    BY <1>0 DEF Checkpoint
  <2>2. FinishError("inv") \/ FinishPersist(m) BY <1>6 DEF PlanCommit
  <2>3. mem.state \in Finalizing /\ UNCHANGED repo
    BY <1>6 DEF PlanCommit, Finalizing
  <2> HIDE DEF m
  <2> QED BY <1>1, <1>3, <2>1, <2>2, <2>3, FinishStep
<1>7. CASE MakeCommit
  <2>1. CASE FinishError("inv") /\ UNCHANGED commit
    BY <1>3, <1>7, <2>1 DEF MakeCommit, repo
  <2>2. CASE commit' = mem.pub /\ UNCHANGED <<pc, exc, mem, ck>>
    <3>1. /\ ck.state \in Finalizing /\ mem.pub.set /\ ~commit.set
          /\ ~pushed /\ ~pushed'
      BY <1>2, <1>7 DEF MakeCommit, Finalizing
    <3>2. commit'.rt # Pre => written # {} BY <1>2, <2>2, <3>1 DEF Consistent
    <3>3. Promise!Commit
      BY <1>1, <2>2, <3>1, <3>2 DEF Promise!Commit
    <3>4. KeptOK' BY <2>2 DEF ContractInv, KeptOK
    <3> QED BY <3>3, <3>4 DEF ContractStep, Promise!Next
  <2> QED BY <1>7, <2>1, <2>2 DEF MakeCommit
<1>8. CASE NoteCommit
  <2>1. FRAMEWORK_EVIDENCE_COMMITTED \in Finalizing BY DEF Finalizing
  <2> QED BY <1>3, <1>4, <1>8, <2>1 DEF NoteCommit
<1>9. CASE Push
  <2>1. FRAMEWORK_EVIDENCE_PUSHED \in Finalizing BY DEF Finalizing
  <2>2. CASE FinishError("inv") /\ UNCHANGED pushed
    BY <1>3, <1>9, <2>2 DEF Push, repo
  <2>3. CASE /\ MatchesCommit /\ ~pushed /\ pushed' = TRUE
             /\ UNCHANGED <<pc, exc, mem, ck>>
    <3>1. commit.set /\ commit' = commit
      BY <1>9, <2>3 DEF Push, MatchesCommit, WorkingTree
    <3>2. Promise!Push BY <1>1, <2>3, <3>1 DEF Promise!Push
    <3>3. KeptOK' BY <2>3 DEF ContractInv, KeptOK
    <3> QED BY <3>2, <3>3 DEF ContractStep, Promise!Next
  <2>4. CASE /\ FinishPersist([mem EXCEPT !.state = FRAMEWORK_EVIDENCE_PUSHED])
             /\ UNCHANGED pushed
    BY <1>4, <1>9, <2>1, <2>4 DEF Push, repo
  <2> QED BY <1>9, <2>2, <2>3, <2>4 DEF Push
<1>10. CASE EndFinish
  <2>1. ck' = ck /\ mem' \in {ck, mem} /\ UNCHANGED repo
    BY <1>10 DEF EndFinish, FinishError
  <2> QED BY <1>1, <2>1, ReloadStep
<1> QED BY <1>5, <1>6, <1>7, <1>8, <1>9, <1>10 DEF Publishing

\* The handler: work is declined, an interrupted transition stays undecided or
\* waits for a Human, and what was final keeps its outcome.
LEMMA HandlingKeeps ==
  ContractInv /\ Inv' /\ Handling => ContractStep /\ KeptOK'
<1> SUFFICES ASSUME ContractInv, Inv', Handling PROVE ContractStep /\ KeptOK'
  OBVIOUS
<1>0. mem \in Checkpoint BY DEF ContractInv, Inv, TypeInv, ControlTyped
<1>1. UNCHANGED <<written, repo>>
  BY DEF Handling, HandleFailure, HandleFailureOfHandler, history
<1>2. /\ ck.state \in Finalizing => mem.state \in Finalizing
      /\ KeptOK
  BY DEF ContractInv, Inv, LedgerInv, FinalOK
\* The process ends and leaves m on the disk, or what was there.
<1>3. ASSUME NEW m, Persist(m, "down", "down"),
             m.outcome.state = "none" => m.outcome = NoOutcome,
             \/ m.outcome = ck.outcome /\ (ck.state \in Finalizing => m.state \in Finalizing)
             \/ /\ ck.state \notin Finalizing /\ m.state \notin Finalizing
                /\ m.outcome.state # "none"
      PROVE  ContractStep /\ KeptOK'
  <2>1. ck' \in {ck, m} /\ mem' = ck' BY <1>3 DEF Persist
  <2>2. ContractStep BY <1>1, <1>3, <2>1, CheckpointStep DEF ContractInv
  <2>3. KeptOK' BY <1>2, <1>3, <2>1 DEF KeptOK
  <2> QED BY <2>2, <2>3
<1>4. CASE HandleFailure
  <2> DEFINE m == [mem EXCEPT !.active = 0]
             u == [m EXCEPT !.outcome = [state |-> "UNDETERMINED", exit |-> 1]]
  <2>1. m \in Checkpoint /\ m.state = mem.state /\ m.outcome = mem.outcome
    BY <1>0 DEF Checkpoint
  <2>2. u.state = mem.state /\ u.outcome.state = "UNDETERMINED"
    BY <1>0 DEF Checkpoint
  <2>3. \/ InterruptedPublication /\ Persist(m, "down", "down")
        \/ InterruptedTransition /\ Persist(u, "down", "down")
        \/ \E d \in {HUMAN_GATE, FAILED_CLOSED} :
             /\ ~InterruptedPublication
             /\ ReachOutcome(m, d, 1, "finishX", "exceptX")
    BY <1>4, StateFacts
    DEF HandleFailure, InterruptedTransition, InterruptedPublication
  <2> HIDE DEF m, u
  <2>4. CASE InterruptedPublication /\ Persist(m, "down", "down")
    BY <1>2, <1>3, <2>1, <2>4 DEF InterruptedPublication, KeptOK
  <2>5. CASE InterruptedTransition /\ Persist(u, "down", "down")
    <3>1. mem.state \notin Finalizing
      BY <2>5, StateFacts DEF InterruptedTransition
    <3> QED BY <1>2, <1>3, <2>2, <2>5, <3>1
  <2>6. ASSUME NEW d \in {HUMAN_GATE, FAILED_CLOSED}, ~InterruptedPublication,
               ReachOutcome(m, d, 1, "finishX", "exceptX")
        PROVE  ContractStep /\ KeptOK'
    <3> DEFINE n == [m EXCEPT !.state = d, !.outcome = [state |-> d, exit |-> 1]]
    <3>1. n.state = d /\ n.outcome.state = d BY <2>1 DEF Checkpoint
    <3>2. ck' \in {ck, n} /\ mem' = n BY <2>6 DEF ReachOutcome, Persist
    <3> HIDE DEF n
    <3>3. /\ ck.state \notin Finalizing /\ n.state \notin Finalizing
          /\ n.outcome.state # "none"
      BY <1>2, <2>6, <3>1, StateFacts DEF InterruptedPublication, Decisions
    <3>4. ContractStep BY <1>1, <3>2, <3>3, CheckpointStep DEF ContractInv
    <3>5. KeptOK' BY <1>2, <3>2, <3>3 DEF KeptOK
    <3> QED BY <3>4, <3>5
  <2> QED BY <2>3, <2>4, <2>5, <2>6
<1>5. CASE HandleFailureOfHandler
  BY <1>2, <1>3, <1>5 DEF HandleFailureOfHandler, KeptOK
<1> QED BY <1>4, <1>5 DEF Handling

\* Crashes, I/O errors, resumption and the world outside change neither the
\* disk nor what was written.
LEMMA OthersKeep ==
  ContractInv /\ Inv' /\ (Mishap \/ Resume \/ Environment) => ContractStep /\ KeptOK'
<1> SUFFICES ASSUME ContractInv, Inv', Mishap \/ Resume \/ Environment
             PROVE  ContractStep /\ KeptOK'
  OBVIOUS
<1>1. ck' = ck /\ mem' \in {ck, mem} /\ UNCHANGED <<written, repo>>
  BY DEF Mishap, Crash, IOError, FinishIOError, FinishError, EventLost, LateEvent,
         Resume, Environment,
         ExecutorCommits, ExecutorEditsFiles, OrphanExits, HumanCleans, Intervene,
         OutsideProgram, history
<1> QED BY <1>1, ReloadStep

\* Every step of the orchestrator is a step of the contract, or none.
LEMMA StepKeeps == ContractInv /\ Inv' /\ [Next]_vars => ContractStep /\ KeptOK'
<1>1. ContractInv /\ Inv' /\ UNCHANGED vars => ContractStep /\ KeptOK'
  BY ReloadStep DEF vars, history, repo
<1> QED BY <1>1, TurnsKeep, BranchesKeep, ReviewsKeep, AcceptingKeeps,
           PublishingKeeps, HandlingKeeps, OthersKeep
        DEF Next, Program

\* The orchestrator implements the contract of a run: what it saves, writes,
\* commits and pushes, over all its crashes and resumptions, is a behaviour of
\* RunContract (orchestrate, its handler, and finish_evidence).
THEOREM ContractKept == Spec => KeepsContract
<1>1. Init => Promise!Init /\ KeptOK
  <2> SUFFICES ASSUME Init PROVE Promise!Init /\ KeptOK OBVIOUS
  <2>1. ck.state \notin Finalizing /\ mem = ck /\ ck.outcome = NoOutcome
    BY DEF Init, FirstCheckpoint, Finalizing, PREFLIGHT_PASSED,
           EVIDENCE_FINALIZATION_PENDING, FRAMEWORK_EVIDENCE_COMMITTED,
           FRAMEWORK_EVIDENCE_PUSHED
  <2> QED BY <2>1 DEF Init, Promise!Init, KeptOK, NoOutcome, NoContents
<1>2. Inv /\ Inv' /\ KeptOK /\ [Next]_vars => KeptOK' /\ [Promise!Next]_(Promise!vars)
  BY StepKeeps DEF ContractInv, ContractStep
<1> QED BY <1>1, <1>2, LedgerCorrect, PTL DEF Spec, KeepsContract, Promise!Spec
=============================================================================
