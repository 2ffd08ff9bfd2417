-------------------------- MODULE MutationLoopTurns --------------------------
(***************************************************************************)
(* What an Agent turn is bound to, and how often it is repeated: the       *)
(* audited head behind an accepted Runtime, the instruction an Executor    *)
(* meets, no second Executor on a target that moved, and two corrections   *)
(* of a verdict, for any number of cycles, crashes, faults and edits; and  *)
(* the causes for which a resume may be refused.                           *)
(*                                                                         *)
(* The argument.  A checkpoint is sound by itself ("Sound"): which turns   *)
(* its fields come from follows from its state.  What it says of the       *)
(* target stays true, since heads only grow and a step that spoils the     *)
(* history makes a new head.  The checkpoint on disk and the one in memory *)
(* are sound, also where a failed write has parted them; in the branches   *)
(* they agree on what a turn is launched for ("Agreed").  The artifacts of *)
(* a turn belong to the state on disk ("ArtOK"), and "WhereOK" carries     *)
(* what a branch knows from its audit to its last write.  "ResumeInv", on  *)
(* top of that, is what a resumed process is going to check, and           *)
(* "JournalOK" where the events of a journal may not fit the checkpoint.   *)
(***************************************************************************)
EXTENDS MutationLoopLedger

FirstStates    == InstructionStates \cup {INSTRUCTION_READY}
ReviewStates   == {REVIEW_PENDING, REVIEW_CORRECTION_RUNNING}
TurnStates     == FirstStates \cup {EXECUTOR_RUNNING} \cup ReviewStates
LaunchStates   == {REVIEWER_INSTRUCTION_RUNNING, EXECUTOR_RUNNING, REVIEW_PENDING}
ReviewedStates == {REVIEW_COMPLETED, REVIEW_CORRECTION_PENDING,
                   REVIEW_CORRECTION_RUNNING}
AuditedStates  == ReviewedStates \cup {EXECUTOR_COMMITTED, REVIEW_PENDING}

\* Places of a turn, and those of them behind its audit.
InTurn  == {"turn", "audit", "summary", "append", "appended", "route"}
Audited == {"summary", "append", "appended", "route"}

\* The instruction of c is one for an Executor, and known by its Reviewer.
Instructs(c) == /\ c.instr.kind \in {"instruction", "REJECT"}
                /\ c.instr.ok => c.rev = FromTurn(c.instr)

InstructionSound(c) ==
  /\ c.state = INSTRUCTION_READY => Instructs(c)
  /\ c.state = EXECUTOR_RUNNING =>
       Instructs(c) /\ c.instr.ok /\ c.instr.head = c.tb

\* The Executor left the head of c by ordinary commits; h is the head now.
HistoryAudited(c, h, irr) == /\ c.exec.head = c.ta /\ c.ta <= h
                             /\ irr \cap (c.tb + 1) .. c.ta = {}

AuditSound(c, h, irr) ==
  /\ c.state \in AuditedStates \/ c.plan.id > 0 => HistoryAudited(c, h, irr)
  /\ c.state \in ReviewedStates \/ c.plan.id > 0 => c.instr.head = c.ta
  /\ c.plan.id > 0 => /\ c.instr.kind = "ACCEPT" /\ c.instr.declared
                      /\ c.state \notin Working

Counted(r) == /\ r.started \in {r.completed, r.completed + 1}
              /\ r.started <= MAX_REVIEW_CORRECTION_ATTEMPTS
              /\ r.pending \in {0, r.completed + 1}

\* An attempt is planned, counted as started, then as completed.
CorrectionSound(c) ==
  /\ IF c.corr.on THEN Counted(c.corr) ELSE c.corr = NoCorrection
  /\ c.state \in Working \ ReviewedStates => c.corr = NoCorrection
  /\ c.state = REVIEW_COMPLETED =>
       c.corr.started = c.corr.completed /\ c.corr.pending = 0
  /\ c.state \in ReviewedStates \ {REVIEW_COMPLETED} =>
       /\ c.corr.on /\ c.corr.pending = c.corr.completed + 1
       /\ c.corr.completed < MAX_REVIEW_CORRECTION_ATTEMPTS
  /\ c.state = REVIEW_CORRECTION_PENDING => c.corr.started = c.corr.completed
  /\ c.state = REVIEW_CORRECTION_RUNNING => c.corr.started = c.corr.pending

\* eff: the cycles whose Executor ended with a moved head.
CycleSound(c, h, eff) ==
  /\ \A e \in eff : e <= c.cycle
  /\ c.state \in FirstStates => c.cycle \notin eff
  /\ c.state = EXECUTOR_RUNNING => c.tb <= h
  /\ c.state = EXECUTOR_RUNNING /\ c.cycle \in eff => c.tb < h

Sound(c, h, irr, eff) == /\ InstructionSound(c) /\ AuditSound(c, h, irr)
                         /\ CorrectionSound(c) /\ CycleSound(c, h, eff)

SoundOK == /\ Sound(ck, tgt.head, irregular, effect)
           /\ Sound(mem, tgt.head, irregular, effect)

\* In the branches memory and disk may differ in what a Reviewer knows only.
SameTarget(c, d) == /\ c.cycle = d.cycle /\ c.tb = d.tb /\ c.ta = d.ta
                    /\ c.corr = d.corr
Agreed == pc \in Stepping => SameTarget(mem, ck)

\* The artifacts found are those of a turn of the state on disk.
ArtOK ==
  art.st # "none" =>
    /\ art.turn.head <= tgt.head
    /\ \/ ck.state \in FirstStates /\ art.turn.kind = "instruction"
       \/ ck.state = EXECUTOR_RUNNING /\ art.turn.kind = "receipt"
       \/ /\ ck.state \in ReviewStates
          /\ art.turn.kind \in {"review"} \cup Verdicts
          /\ art.turn.head = ck.ta

WhereOK ==
  /\ pc = "launch" => mem.state \in LaunchStates
  /\ pc = "launch" /\ mem.state = EXECUTOR_RUNNING => mem.cycle \notin effect
  /\ pc \in InTurn => mem.state \in TurnStates /\ art.st # "none"
  /\ pc = "loop" /\ mem.state = INSTRUCTION_READY => mem.instr.ok
  /\ pc \in Audited /\ mem.state \in FirstStates =>
       /\ art.turn.ok => mem.rev = FromTurn(art.turn)
       /\ mem.state = INSTRUCTION_READY => mem.instr = art.turn
  /\ pc = "exceptX" => mem.state \notin Working

\* A launched correction turn is counted by the attempt on disk.
RunningTurn == IF ck.state = REVIEW_CORRECTION_RUNNING /\ art.st # "none"
               THEN 1 ELSE 0
CountOK ==
  /\ corrections <= MAX_REVIEW_CORRECTION_ATTEMPTS
  /\ ck.state \in Working => corrections <= ck.corr.completed + RunningTurn

TurnInv == SoundOK /\ Agreed /\ ArtOK /\ WhereOK /\ CountOK

-----------------------------------------------------------------------------
USE DEF PREFLIGHT_PASSED, REVIEWER_INSTRUCTION_RUNNING, INSTRUCTION_READY,
        EXECUTOR_RUNNING, EXECUTOR_COMMITTED, REVIEW_PENDING, REVIEW_COMPLETED,
        REVIEW_CORRECTION_PENDING, REVIEW_CORRECTION_RUNNING,
        RUNTIME_TRANSITION_PENDING, RUNTIME_TRANSITION_COMMITTED, HUMAN_GATE,
        FAILED_CLOSED, EVIDENCE_FINALIZATION_PENDING,
        FRAMEWORK_EVIDENCE_COMMITTED, FRAMEWORK_EVIDENCE_PUSHED

\* How the sets of states lie to each other.
LEMMA TurnStateFacts ==
  /\ TurnStates \subseteq Working /\ FirstStates \subseteq TurnStates
  /\ ReviewStates \subseteq TurnStates /\ AuditedStates \subseteq Working
  /\ ReviewedStates \subseteq AuditedStates /\ LaunchStates \subseteq TurnStates
  /\ FirstStates \cap AuditedStates = {}
  /\ EXECUTOR_RUNNING \notin AuditedStates \cup FirstStates \cup ReviewStates
  /\ FirstStates \cap ReviewStates = {}
BY DEF Working, TurnStates, FirstStates, InstructionStates, ReviewStates,
       AuditedStates, ReviewedStates, LaunchStates

\* The fields soundness reads, for checkpoints of one state.
SameTurns(c, d) ==
  /\ c.state = d.state /\ c.cycle = d.cycle /\ c.instr = d.instr
  /\ c.exec = d.exec /\ c.tb = d.tb /\ c.ta = d.ta /\ c.corr = d.corr
  /\ c.plan = d.plan
  /\ c.rev = d.rev \/ c.state \notin {INSTRUCTION_READY, EXECUTOR_RUNNING}

\* A checkpoint that differs in other fields is as sound.
LEMMA SameSound ==
  ASSUME NEW c, NEW d, NEW h, NEW irr, NEW eff, SameTurns(d, c),
         Sound(c, h, irr, eff)
  PROVE  Sound(d, h, irr, eff)
BY DEF SameTurns, Sound, InstructionSound, Instructs, AuditSound, HistoryAudited,
       CorrectionSound, CycleSound

\* A checkpoint that leaves the working states keeps its turns, and so does one
\* that is no longer in them; a run without a plan may name another head.
LEMMA StoppedSound ==
  ASSUME NEW c, NEW d, NEW h, NEW irr, NEW eff, Sound(c, h, irr, eff),
         d.state \notin Working, d.cycle = c.cycle, d.instr = c.instr,
         d.exec = c.exec, d.tb = c.tb, d.corr = c.corr, d.plan = c.plan,
         d.ta = c.ta \/ c.state \in Working
  PROVE  Sound(d, h, irr, eff)
<1>1. /\ d.state \notin AuditedStates \cup ReviewedStates \cup FirstStates
      /\ d.state \notin {INSTRUCTION_READY, EXECUTOR_RUNNING}
  BY TurnStateFacts DEF Working
<1>2. InstructionSound(d) BY <1>1 DEF InstructionSound
<1>3. AuditSound(d, h, irr) BY <1>1 DEF Sound, AuditSound, HistoryAudited
<1>4. CorrectionSound(d) BY <1>1 DEF Sound, CorrectionSound, ReviewedStates
<1>5. CycleSound(d, h, eff) BY <1>1 DEF Sound, CycleSound
<1> QED BY <1>2, <1>3, <1>4, <1>5 DEF Sound

\* The target moves on: to a head nobody has audited yet.
LEMMA GrownSound ==
  ASSUME NEW c \in Checkpoint, NEW h \in Nat, NEW k \in Nat, NEW irr, NEW jrr,
         NEW eff, Sound(c, h, irr, eff), h <= k,
         \A i \in jrr : i \in irr \/ i > h, jrr \subseteq Nat
  PROVE  Sound(c, k, jrr, eff)
<1>1. c.tb \in Nat /\ c.ta \in Nat BY DEF Checkpoint
<1>2. ASSUME HistoryAudited(c, h, irr) PROVE HistoryAudited(c, k, jrr)
  BY <1>1, <1>2 DEF HistoryAudited
<1>3. AuditSound(c, k, jrr) BY <1>2 DEF Sound, AuditSound
<1>4. CycleSound(c, k, eff) BY <1>1 DEF Sound, CycleSound
<1> QED BY <1>3, <1>4 DEF Sound

-----------------------------------------------------------------------------

\* The turn directory is left behind with the checkpoint, or there is none.
TurnLeft == IF ck' = ck THEN art' = art ELSE art'.st = "none"

bound == <<tgt, irregular, effect>>   \* what soundness reads of the world

\* What holds in the branches of the loop.
LEMMA BranchFacts ==
  ASSUME TypeInv, LedgerInv, TurnInv, pc \in Stepping
  PROVE  /\ mem \in Checkpoint /\ ck \in Checkpoint /\ tgt.head \in Nat
         /\ mem.state = ck.state /\ mem.plan = ck.plan /\ SameTarget(mem, ck)
         /\ Sound(mem, tgt.head, irregular, effect)
         /\ mem.state \in Working => ~(mem.plan.id > 0)
         /\ art.st # "none" => mem.state \in TurnStates
<1>1. /\ mem \in Checkpoint /\ ck \in Checkpoint /\ tgt.head \in Nat
  BY DEF TypeInv, ControlTyped, WorldTyped
<1>2. mem.state = ck.state /\ mem.plan = ck.plan
  BY DEF LedgerInv, MemoryOK, SameLedger
<1>3. SameTarget(mem, ck) /\ Sound(mem, tgt.head, irregular, effect)
  BY DEF TurnInv, Agreed, SoundOK
<1>4. mem.state \in Working => ~(mem.plan.id > 0)
  BY <1>3 DEF Sound, AuditSound
<1>5. art.st # "none" => mem.state \in TurnStates
  BY <1>2 DEF TurnInv, ArtOK, TurnStates
<1> QED BY <1>1, <1>2, <1>3, <1>4, <1>5

\* The turns counted are those of the record, where no correction runs.
LEMMA CountFacts ==
  ASSUME TypeInv, LedgerInv, TurnInv, pc \in Stepping
  PROVE  /\ corrections \in Nat /\ corrections <= MAX_REVIEW_CORRECTION_ATTEMPTS
         /\ mem.corr \in Correction
         /\ mem.state \in Working =>
              \/ corrections <= mem.corr.completed
              \/ /\ mem.state = REVIEW_CORRECTION_RUNNING /\ art.st # "none"
                 /\ corrections <= mem.corr.completed + 1
<1>1. corrections \in Nat /\ mem.corr \in Correction
  BY BranchFacts DEF TypeInv, WorldTyped, Checkpoint
<1>2. mem.corr = ck.corr /\ mem.state = ck.state
  BY BranchFacts DEF SameTarget
<1>3. mem.corr.completed \in Nat BY <1>1 DEF Correction
<1> QED BY <1>1, <1>2, <1>3 DEF TurnInv, CountOK, RunningTurn

\* A branch saves a sound checkpoint and leaves its turn.
LEMMA SaveStep ==
  ASSUME TypeInv, LedgerInv, TurnInv, pc \in Stepping, NEW m \in Checkpoint,
         NEW next \in {"loop", "launch", "finish"}, Persist(m, next, "except"),
         Sound(m, tgt.head, irregular, effect), TurnLeft, UNCHANGED bound,
         ck' = ck => corrections' = corrections,
         ck' = m => /\ corrections' <= MAX_REVIEW_CORRECTION_ATTEMPTS
                    /\ m.state \in Working => corrections' <= m.corr.completed,
         next = "launch" =>
           /\ m.state \in LaunchStates
           /\ m.state = EXECUTOR_RUNNING => m.cycle \notin effect,
         next = "loop" /\ m.state = INSTRUCTION_READY => m.instr.ok
  PROVE  TurnInv'
<1>1. /\ mem' = m /\ ck' \in {ck, m} /\ pc' \in {next, "except"}
      /\ pc' = next => ck' = m
  BY DEF Persist
<1>2. SoundOK' BY <1>1 DEF TurnInv, SoundOK, bound
<1>3. Agreed' BY <1>1 DEF Agreed, SameTarget, Stepping
<1>4. ArtOK' BY <1>1 DEF TurnInv, ArtOK, TurnLeft, bound
<1>5. WhereOK' BY <1>1 DEF WhereOK, InTurn, Audited, bound
<1>6. CountOK'
  <2>1. CASE ck' = ck
    BY <2>1 DEF TurnInv, CountOK, RunningTurn, TurnLeft
  <2>2. CASE ck' # ck
    <3>1. ck' = m /\ RunningTurn' = 0 BY <1>1, <2>2 DEF RunningTurn, TurnLeft
    <3>2. m.corr.completed \in Nat BY DEF Checkpoint, Correction
    <3> QED BY <3>1, <3>2 DEF CountOK
  <2> QED BY <2>1, <2>2
<1> QED BY <1>2, <1>3, <1>4, <1>5, <1>6 DEF TurnInv

\* A step that leaves the checkpoints, the turn and the world alone.
LEMMA CalmTurn ==
  ASSUME TurnInv, UNCHANGED <<ck, mem, art, bound, corrections>>, WhereOK',
         pc' \in Stepping => pc \in Stepping \/ mem = ck
  PROVE  TurnInv'
<1>1. SoundOK' BY DEF TurnInv, SoundOK, bound
<1>2. Agreed' BY DEF TurnInv, Agreed, SameTarget
<1>3. ArtOK' BY DEF TurnInv, ArtOK, bound
<1>4. CountOK' BY DEF TurnInv, CountOK, RunningTurn
<1> QED BY <1>1, <1>2, <1>3, <1>4 DEF TurnInv

\* An exception in a branch.
LEMMA RaiseTurn ==
  ASSUME TurnInv, NEW kind, Raise(kind), UNCHANGED <<art, bound, corrections>>
  PROVE  TurnInv'
<1>1. WhereOK' BY DEF Raise, WhereOK, InTurn, Audited
<1> QED BY <1>1, CalmTurn DEF Raise, Stepping

\* A step inside a turn that notes its summary entry, or its audit.
LEMMA NoteStep ==
  ASSUME TypeInv, LedgerInv, TurnInv, pc \in Audited, NEW m,
         NEW next \in Audited, Persist(m, next, "except"),
         SameTurns(m, mem), m.rev = mem.rev, UNCHANGED <<art, bound, corrections>>
  PROVE  TurnInv'
<1>0. pc \in Stepping BY DEF Audited, Stepping
<1>1. /\ mem' = m /\ ck' \in {ck, m} /\ pc' \in {next, "except"}
      /\ pc' = next => ck' = m
  BY DEF Persist, Audited
<1>2. /\ m.state = ck.state /\ SameTarget(m, ck)
  <2>1. mem.state = ck.state /\ SameTarget(mem, ck) BY <1>0, BranchFacts
  <2> QED BY <2>1 DEF SameTurns, SameTarget
<1>3. SoundOK'
  <2>1. Sound(m, tgt.head, irregular, effect)
    BY SameSound DEF TurnInv, SoundOK
  <2> QED BY <1>1, <2>1 DEF TurnInv, SoundOK, bound
<1>4. Agreed' BY <1>1 DEF Agreed, SameTarget, Stepping
<1>5. ArtOK' BY <1>1, <1>2 DEF TurnInv, ArtOK, SameTarget, bound
<1>6. WhereOK' BY <1>1 DEF TurnInv, WhereOK, InTurn, Audited, SameTurns
<1>7. CountOK'
  BY <1>1, <1>2 DEF TurnInv, CountOK, RunningTurn, SameTarget
<1> QED BY <1>3, <1>4, <1>5, <1>6, <1>7 DEF TurnInv

\* A turn is launched, for the head the checkpoint says.
LEMMA LaunchTurn ==
  ASSUME TypeInv, LedgerInv, TurnInv, pc \in Stepping, pc' = "turn",
         UNCHANGED <<ck, mem, bound>>,
         art'.st = "partial", art'.turn.head = tgt.head,
         \/ mem.state \in FirstStates /\ art'.turn.kind = "instruction"
         \/ mem.state = EXECUTOR_RUNNING /\ art'.turn.kind = "receipt"
         \/ /\ mem.state \in ReviewStates /\ art'.turn.kind = "review"
            /\ tgt.head = mem.ta,
         IF mem.state = REVIEW_CORRECTION_RUNNING
         THEN art.st = "none" /\ corrections' = corrections + 1
         ELSE corrections' = corrections
  PROVE  TurnInv'
<1>1. /\ tgt.head \in Nat /\ mem.state = ck.state /\ SameTarget(mem, ck)
  BY BranchFacts
<1>2. SoundOK' BY DEF TurnInv, SoundOK, bound
<1>3. Agreed' BY <1>1 DEF Agreed, SameTarget
<1>4. ArtOK' BY <1>1 DEF ArtOK, SameTarget, bound
<1>5. WhereOK' BY DEF WhereOK, InTurn, Audited, TurnStates
<1>6. CountOK'
  <2>1. CASE mem.state = REVIEW_CORRECTION_RUNNING
    <3>1. /\ mem.corr.on /\ mem.corr.completed < MAX_REVIEW_CORRECTION_ATTEMPTS
      BY <2>1 DEF TurnInv, SoundOK, Sound, CorrectionSound, ReviewedStates
    <3>2. corrections \in Nat /\ corrections <= mem.corr.completed
      BY <2>1, CountFacts, TurnStateFacts DEF TurnStates, ReviewStates
    <3>3. mem.corr.completed \in Nat BY CountFacts DEF Correction
    <3>4. RunningTurn' = 1 BY <1>1, <2>1 DEF RunningTurn
    <3> QED BY <1>1, <2>1, <3>1, <3>2, <3>3, <3>4
            DEF CountOK, SameTarget, MAX_REVIEW_CORRECTION_ATTEMPTS
  <2>2. CASE mem.state # REVIEW_CORRECTION_RUNNING
    BY <1>1, <2>2 DEF TurnInv, CountOK, RunningTurn
  <2> QED BY <2>1, <2>2
<1> QED BY <1>2, <1>3, <1>4, <1>5, <1>6 DEF TurnInv

\* The launch of a Reviewer.
LEMMA ReviewerLaunch ==
  ASSUME TypeInv, LedgerInv, TurnInv, pc \in Stepping,
         NEW kind \in {"instruction", "review"}, StartReviewer(kind),
         UNCHANGED bound,
         \/ mem.state \in FirstStates /\ kind = "instruction"
         \/ mem.state \in ReviewStates /\ kind = "review" /\ tgt.head = mem.ta,
         IF mem.state = REVIEW_CORRECTION_RUNNING
         THEN art.st = "none" /\ corrections' = corrections + 1
         ELSE corrections' = corrections
  PROVE  TurnInv'
<1>1. /\ art'.st = "partial" /\ art'.turn.head = tgt.head
      /\ art'.turn.kind = kind
  BY DEF StartReviewer, NoTurn
<1>2. pc' = "turn" /\ UNCHANGED <<ck, mem>> BY DEF StartReviewer, Goto
<1> QED BY <1>1, <1>2, LaunchTurn

\* The end of a run, or of its process: the checkpoint is no longer a working
\* one, or stays as it is.
LEMMA StopTurn ==
  ASSUME TurnInv, NEW m, m.state \notin Working,
         Sound(m, tgt.head, irregular, effect),
         ck' \in {ck, m}, mem' \in {ck', m}, pc' \notin Stepping,
         pc' = "exceptX" => mem' = m, TurnLeft, UNCHANGED <<bound, corrections>>
  PROVE  TurnInv'
<1>1. SoundOK' BY DEF TurnInv, SoundOK, bound
<1>2. Agreed' BY DEF Agreed
<1>3. ArtOK' BY DEF TurnInv, ArtOK, TurnLeft, bound
<1>4. WhereOK' BY DEF WhereOK, InTurn, Audited, Stepping
<1>5. CountOK' BY DEF TurnInv, CountOK, RunningTurn, TurnLeft
<1> QED BY <1>1, <1>2, <1>3, <1>4, <1>5 DEF TurnInv

\* A torn process.json leaves the turn what it was.
LEMMA CutTurn ==
  ASSUME TypeInv, TurnInv, CutShort
  PROVE  art'.turn = art.turn /\ (art'.st = "none" <=> art.st = "none")
<1>1. art \in Artifacts BY DEF TypeInv, TurnsTyped
<1>2. RewritingTurn => art.st # "none"
  BY DEF RewritingTurn, TurnInv, WhereOK, InTurn
<1> QED BY <1>1, <1>2 DEF CutShort, Artifacts

\* A new run has launched nothing.
LEMMA TurnInit == Init => TurnInv
<1> SUFFICES ASSUME Init PROVE TurnInv OBVIOUS
<1> USE DEF Init, FirstCheckpoint
<1>1. ck = mem /\ mem.state = PREFLIGHT_PASSED /\ art.st = "none"
  BY DEF NoArt
<1>2. Sound(mem, tgt.head, irregular, effect)
  BY <1>1 DEF Sound, InstructionSound, AuditSound, CorrectionSound, CycleSound,
              AuditedStates, ReviewedStates, Working, NoCorrection
<1>3. Agreed /\ ArtOK BY <1>1 DEF Agreed, SameTarget, ArtOK
<1>4. WhereOK BY <1>1 DEF WhereOK, InTurn, Audited
<1>5. CountOK
  BY <1>1 DEF CountOK, RunningTurn, MAX_REVIEW_CORRECTION_ATTEMPTS, NoCorrection
<1> QED BY <1>1, <1>2, <1>3, <1>4, <1>5 DEF TurnInv, SoundOK

-----------------------------------------------------------------------------

\* The end of an Agent turn, its audit and its summary entry: a cycle counts as
\* one with an effect when its Executor ended and the head has moved.
LEMMA TurnTurns == TypeInv /\ LedgerInv /\ TurnInv /\ Turns => TurnInv'
<1> SUFFICES ASSUME TypeInv, LedgerInv, TurnInv, Turns PROVE TurnInv' OBVIOUS
<1>0. mem \in Checkpoint /\ art \in Artifacts /\ tgt.head \in Nat
  BY DEF TypeInv, ControlTyped, TurnsTyped, WorldTyped
<1>1. CASE TurnExits
  <2>1. /\ pc = "turn" /\ pc' = "audit"
        /\ UNCHANGED <<ck, mem, tgt, irregular, corrections>>
    BY <1>1 DEF TurnExits, Goto, target
  <2>2. /\ mem.state = ck.state /\ SameTarget(mem, ck) /\ ck \in Checkpoint
        /\ mem.state \in TurnStates /\ art.st # "none"
    BY <2>1, BranchFacts DEF Stepping, TurnInv, WhereOK, InTurn
  <2>3. /\ art'.st # "none" /\ art'.turn.head = art.turn.head
        /\ \/ art'.turn.kind = art.turn.kind
           \/ art.turn.kind = "review" /\ art'.turn.kind \in Verdicts
    <3> DEFINE t == art.turn
    <3>1. t \in Turn /\ art = [st |-> art.st, turn |-> t] BY <1>0 DEF Artifacts
    <3>2. \/ art' = [art EXCEPT !.turn.ok = FALSE]
          \/ art' = [st |-> "done", turn |-> [t EXCEPT !.ok = TRUE]]
          \/ art' = [st |-> "raw", turn |-> [t EXCEPT !.ok = TRUE]]
          \/ /\ t.kind = "review"
             /\ \E v \in Verdicts, d \in BOOLEAN :
                  art' = [st |-> "raw",
                          turn |-> [t EXCEPT !.ok = TRUE, !.kind = v,
                                             !.declared = d, !.evid = evid]]
      BY <1>1 DEF TurnExits
    <3>3. CASE art' = [art EXCEPT !.turn.ok = FALSE]
      BY <1>0, <2>2, <3>3 DEF Artifacts, Turn
    <3>4. ASSUME NEW s \in {"done", "raw"},
                 art' = [st |-> s, turn |-> [t EXCEPT !.ok = TRUE]]
          PROVE  /\ art'.st # "none" /\ art'.turn.head = t.head
                 /\ art'.turn.kind = t.kind
      BY <3>1, <3>4 DEF Turn
    <3>5. ASSUME NEW v \in Verdicts, NEW d, t.kind = "review",
                 art' = [st |-> "raw",
                         turn |-> [t EXCEPT !.ok = TRUE, !.kind = v,
                                            !.declared = d, !.evid = evid]]
          PROVE  /\ art'.st # "none" /\ art'.turn.head = t.head
                 /\ t.kind = "review" /\ art'.turn.kind \in Verdicts
      BY <3>1, <3>5 DEF Turn
    <3> QED BY <3>2, <3>3, <3>4, <3>5
  <2>4. \/ effect' = effect
        \/ /\ effect' = effect \cup {ck.cycle} /\ ck.state = EXECUTOR_RUNNING
           /\ ck.tb < tgt.head
    <3>1. art.turn.kind = "receipt" => ck.state = EXECUTOR_RUNNING
      BY <2>2 DEF TurnInv, ArtOK, Verdicts
    <3>2. ck.state = EXECUTOR_RUNNING => ck.tb <= tgt.head
      BY DEF TurnInv, SoundOK, Sound, CycleSound
    <3>3. ck.tb \in Nat /\ mem.tb = ck.tb /\ mem.cycle = ck.cycle
      BY <2>2 DEF Checkpoint, SameTarget
    <3>4. effect' = IF ExecutorTurn /\ tgt.head # mem.tb
                    THEN effect \cup {mem.cycle} ELSE effect
      BY <1>1 DEF TurnExits
    <3> QED BY <1>0, <3>1, <3>2, <3>3, <3>4 DEF ExecutorTurn
  <2>5. ASSUME NEW c \in Checkpoint, c.state = ck.state, SameTarget(c, ck),
               Sound(c, tgt.head, irregular, effect)
        PROVE  Sound(c, tgt.head, irregular, effect')
    <3>1. /\ c.cycle = ck.cycle /\ c.tb = ck.tb /\ c.cycle \in Nat
          /\ EXECUTOR_RUNNING \notin FirstStates
      BY <2>5, TurnStateFacts DEF SameTarget, Checkpoint
    <3>2. CycleSound(c, tgt.head, effect')
      BY <2>4, <2>5, <3>1 DEF Sound, CycleSound
    <3> QED BY <2>5, <3>2 DEF Sound
  <2>6. SoundOK'
    <3>1. SameTarget(ck, ck) BY DEF SameTarget
    <3> QED BY <1>0, <2>1, <2>2, <2>5, <3>1 DEF TurnInv, SoundOK
  <2>7. Agreed' BY <2>1, <2>2 DEF Agreed
  <2>8. ArtOK' BY <2>1, <2>2, <2>3 DEF TurnInv, ArtOK, Verdicts
  <2>9. WhereOK' BY <2>1, <2>2, <2>3 DEF WhereOK, InTurn, Audited
  <2>10. CountOK' BY <2>1, <2>2, <2>3 DEF TurnInv, CountOK, RunningTurn
  <2> QED BY <2>6, <2>7, <2>8, <2>9, <2>10 DEF TurnInv
<1>2. CASE AuditReviewer
  <2> DEFINE t == art.turn
             good == art.st = "raw" /\ tgt = [head |-> t.head, clean |-> TRUE]
                     /\ gov = t.gov /\ rt = t.rt
             new  == [t EXCEPT !.ok = good]
  <2>1. /\ pc = "audit" /\ pc' = "summary" /\ art.turn.kind # "receipt"
        /\ UNCHANGED <<ck, bound, corrections>>
    BY <1>2 DEF AuditReviewer, target, history, bound
  <2>2. /\ mem.state = ck.state /\ SameTarget(mem, ck) /\ ck \in Checkpoint
        /\ mem.state \in TurnStates /\ art.st # "none"
        /\ Sound(mem, tgt.head, irregular, effect)
        /\ ~(mem.plan.id > 0)
    BY <2>1, BranchFacts, TurnStateFacts
    DEF Stepping, TurnInv, WhereOK, InTurn
  <2>3. /\ art'.st # "none" /\ art'.turn = new
        /\ mem' = [mem EXCEPT
             !.rev = IF good THEN FromTurn(t) ELSE @,
             !.instr = IF mem.state = INSTRUCTION_READY THEN new ELSE @]
    BY <1>2 DEF AuditReviewer, FromTurn
  <2>4. /\ new.kind = t.kind /\ new.head = t.head /\ new.ok = good
        /\ FromTurn(new) = FromTurn(t)
    BY <1>0 DEF Artifacts, Turn, FromTurn
  <2> HIDE DEF new
  <2>5. /\ mem'.state = mem.state /\ SameTarget(mem', mem) /\ mem'.exec = mem.exec
        /\ mem'.plan = mem.plan
        /\ mem.state # INSTRUCTION_READY => mem'.instr = mem.instr
        /\ mem.state = INSTRUCTION_READY => mem'.instr = art'.turn
        /\ art'.turn.ok => mem'.rev = FromTurn(art'.turn)
    BY <1>0, <2>3, <2>4 DEF Checkpoint, SameTarget
  <2>6. /\ mem.state # EXECUTOR_RUNNING
        /\ mem.state \in FirstStates => art'.turn.kind = "instruction"
        /\ art'.turn.kind = art.turn.kind /\ art'.turn.head = art.turn.head
    BY <2>1, <2>2, <2>3, <2>4, TurnStateFacts DEF TurnInv, ArtOK
  <2>7. Sound(mem', tgt.head, irregular, effect)
    <3>1. INSTRUCTION_READY \notin AuditedStates \cup ReviewedStates
          /\ INSTRUCTION_READY \in FirstStates
      BY DEF AuditedStates, ReviewedStates, FirstStates
    <3>2. InstructionSound(mem')
      BY <2>5, <2>6, <3>1 DEF InstructionSound, Instructs
    <3>3. AuditSound(mem', tgt.head, irregular)
      BY <2>2, <2>5, <3>1 DEF Sound, AuditSound, HistoryAudited, SameTarget
    <3>4. CorrectionSound(mem')
      BY <2>2, <2>5 DEF Sound, CorrectionSound, SameTarget
    <3>5. CycleSound(mem', tgt.head, effect)
      BY <2>2, <2>5 DEF Sound, CycleSound, SameTarget
    <3> QED BY <3>2, <3>3, <3>4, <3>5 DEF Sound
  <2>8. SoundOK' BY <2>1, <2>7 DEF TurnInv, SoundOK, bound
  <2>9. Agreed' BY <2>1, <2>2, <2>5 DEF Agreed, SameTarget
  <2>10. ArtOK' BY <2>1, <2>2, <2>3, <2>6 DEF TurnInv, ArtOK, bound
  <2>11. WhereOK' BY <2>1, <2>2, <2>3, <2>5 DEF WhereOK, InTurn, Audited
  <2>12. CountOK' BY <2>1, <2>2, <2>3 DEF TurnInv, CountOK, RunningTurn
  <2> QED BY <2>8, <2>9, <2>10, <2>11, <2>12 DEF TurnInv
<1>3. CASE CaptureExecutor
  <2>1. /\ pc = "audit" /\ pc' = "summary" /\ art.turn.kind = "receipt"
        /\ UNCHANGED <<ck, mem, bound, corrections>>
        /\ art'.st = art.st /\ art'.turn.kind = "receipt"
        /\ art'.turn.head = tgt.head
    BY <1>0, <1>3
    DEF CaptureExecutor, Goto, target, history, bound, Artifacts, Turn
  <2>2. /\ mem.state = ck.state /\ SameTarget(mem, ck)
        /\ mem.state \in TurnStates /\ art.st # "none"
    BY <2>1, BranchFacts DEF Stepping, TurnInv, WhereOK, InTurn
  <2>3. ck.state = EXECUTOR_RUNNING /\ EXECUTOR_RUNNING \notin FirstStates
    BY <2>1, <2>2, TurnStateFacts DEF TurnInv, ArtOK, Verdicts
  <2>4. SoundOK' BY <2>1 DEF TurnInv, SoundOK, bound
  <2>5. Agreed' BY <2>1, <2>2 DEF Agreed
  <2>6. ArtOK' BY <1>0, <2>1, <2>3 DEF ArtOK, bound
  <2>7. WhereOK' BY <2>1, <2>2, <2>3 DEF WhereOK, InTurn, Audited
  <2>8. CountOK' BY <2>1, <2>3 DEF TurnInv, CountOK, RunningTurn
  <2> QED BY <2>4, <2>5, <2>6, <2>7, <2>8 DEF TurnInv
<1>4. CASE PlanSummary
  <2> DEFINE m == [mem EXCEPT !.pending = TRUE]
  <2>1. SameTurns(m, mem) /\ m.rev = mem.rev
    BY <1>0 DEF SameTurns, Checkpoint
  <2>2. /\ pc \in Audited /\ pc \in Stepping
        /\ UNCHANGED <<art, bound, corrections>>
    BY <1>4 DEF PlanSummary, Audited, Stepping, turns, target, history, bound
  <2>3. Raise("inv") \/ Goto("route") \/ Persist(m, "append", "except")
    BY <1>4 DEF PlanSummary
  <2> HIDE DEF m
  <2>4. CASE Goto("route")
    <3>1. WhereOK'
      BY <2>2, <2>4 DEF Goto, TurnInv, WhereOK, InTurn, Audited
    <3> QED BY <2>2, <2>4, <3>1, CalmTurn DEF Goto
  <2>5. CASE Persist(m, "append", "except")
    BY <2>1, <2>2, <2>5, NoteStep DEF Audited
  <2> QED BY <2>2, <2>3, <2>4, <2>5, RaiseTurn
<1>5. CASE AppendSummary
  <2>1. /\ UNCHANGED <<ck, mem, art, bound, corrections>>
        /\ \/ pc' \in {"reconciled", "down", "except"}
           \/ pc = "append" /\ pc' = "appended"
    BY <1>5 DEF AppendSummary, Raise, Goto, turns, target, history, bound
  <2>2. WhereOK' BY <2>1 DEF TurnInv, WhereOK, InTurn, Audited
  <2> QED BY <2>1, <2>2, CalmTurn DEF Stepping
<1>6. CASE NoteSummary
  <2> DEFINE m == [mem EXCEPT !.entries = @ + 1, !.pending = FALSE,
                              !.recorded = TRUE]
  <2>1. SameTurns(m, mem) /\ m.rev = mem.rev
    BY <1>0 DEF SameTurns, Checkpoint
  <2>2. UNCHANGED <<art, bound, corrections>>
    BY <1>6 DEF NoteSummary, turns, target, history, bound
  <2>3. CASE pc = "appended"
    <3>1. Persist(m, "route", "except") BY <1>6, <2>3 DEF NoteSummary
    <3> HIDE DEF m
    <3> QED BY <2>1, <2>2, <2>3, <3>1, NoteStep DEF Audited
  <2>4. CASE pc = "reconciled"
    <3>1. Persist(m, ResumePoint, "down") BY <1>6, <2>4 DEF NoteSummary
    <3> HIDE DEF m
    <3>2. mem = ck BY <2>4 DEF LedgerInv, MemoryOK, Reloaded
    <3>3. /\ mem' = ck' /\ ck' \in {ck, m} /\ pc' \in {ResumePoint, "down"}
          /\ SameTurns(ck', ck) /\ ck'.rev = ck.rev
      BY <2>1, <3>1, <3>2 DEF Persist, SameTurns
    <3>4. /\ pc' \in {"down", "loop", "finishR"}
          /\ pc' = "loop" => ReferencesLoad
      BY <3>3 DEF ResumePoint
    <3>5. Sound(ck', tgt.head, irregular, effect)
      BY <3>3, SameSound DEF TurnInv, SoundOK
    <3>6. SoundOK' BY <2>2, <3>3, <3>5 DEF SoundOK, bound
    <3>7. Agreed' BY <3>3 DEF Agreed, SameTarget
    <3>8. ArtOK' BY <2>2, <3>3 DEF TurnInv, ArtOK, SameTurns, bound
    <3>9. WhereOK'
      <4>1. mem'.state = INSTRUCTION_READY /\ pc' = "loop" => mem'.instr.ok
        BY <3>2, <3>3, <3>4
        DEF ReferencesLoad, TurnInv, SoundOK, Sound, InstructionSound, Instructs,
            SameTurns
      <4> QED BY <3>4, <4>1 DEF WhereOK, InTurn, Audited
    <3>10. CountOK'
      BY <2>2, <3>3 DEF TurnInv, CountOK, RunningTurn, SameTurns
    <3> QED BY <3>6, <3>7, <3>8, <3>9, <3>10 DEF TurnInv
  <2> QED BY <1>6, <2>3, <2>4 DEF NoteSummary
<1> QED BY <1>1, <1>2, <1>3, <1>4, <1>5, <1>6 DEF Turns

\* The checkpoint an Executor is launched from is sound, when its instruction
\* is loaded and known to the Reviewer at the present head.
LEMMA ExecutorSound ==
  ASSUME TypeInv, Sound(mem, tgt.head, irregular, effect),
         mem.state = INSTRUCTION_READY, mem.instr.ok, Fresh,
         ~(mem.plan.id > 0)
  PROVE  /\ ExecutorCheckpoint \in Checkpoint
         /\ Sound(ExecutorCheckpoint, tgt.head, irregular, effect)
         /\ ExecutorCheckpoint.state = EXECUTOR_RUNNING
         /\ ExecutorCheckpoint.corr = mem.corr
<1> DEFINE m == ExecutorCheckpoint
<1>0. /\ mem \in Checkpoint /\ tgt.head \in Nat
  BY DEF TypeInv, ControlTyped, WorldTyped
<1>1. /\ m.state = EXECUTOR_RUNNING /\ m.cycle = mem.cycle /\ m.rev = mem.rev
      /\ m.instr = mem.instr /\ m.tb = tgt.head /\ m.corr = mem.corr
      /\ m.plan = mem.plan
  BY <1>0 DEF ExecutorCheckpoint, Checkpoint
<1>2. m \in Checkpoint
  BY <1>0, BlankTyped DEF ExecutorCheckpoint, Checkpoint, States, Working
<1>3. /\ Instructs(mem) /\ mem.instr.head = tgt.head
      /\ mem.cycle \notin effect /\ mem.corr = NoCorrection
  <2>1. Instructs(mem) BY DEF Sound, InstructionSound
  <2>2. mem.rev = FromTurn(mem.instr) /\ mem.rev.head = tgt.head
    BY <2>1 DEF Instructs, Fresh
  <2>3. mem.cycle \notin effect /\ mem.corr = NoCorrection
    BY DEF Sound, CycleSound, CorrectionSound, FirstStates, Working,
           ReviewedStates
  <2> QED BY <2>1, <2>2, <2>3 DEF FromTurn
<1> HIDE DEF m
<1>4. EXECUTOR_RUNNING \notin AuditedStates \cup ReviewedStates \cup FirstStates
  BY DEF AuditedStates, ReviewedStates, FirstStates, InstructionStates
<1>5. InstructionSound(m) BY <1>1, <1>3 DEF InstructionSound, Instructs
<1>6. AuditSound(m, tgt.head, irregular) BY <1>1, <1>4 DEF AuditSound
<1>7. CorrectionSound(m) BY <1>1, <1>3, <1>4 DEF Sound, CorrectionSound, Working
<1>8. CycleSound(m, tgt.head, effect)
  BY <1>0, <1>1, <1>3, <1>4 DEF Sound, CycleSound
<1> QED BY <1>1, <1>2, <1>5, <1>6, <1>7, <1>8 DEF Sound, m

\* The branches up to EXECUTOR_RUNNING.
LEMMA TurnInstructing == TypeInv /\ LedgerInv /\ TurnInv /\ Instructing => TurnInv'
<1> SUFFICES ASSUME TypeInv, LedgerInv, TurnInv, Instructing PROVE TurnInv'
  OBVIOUS
<1>0. /\ pc \in Stepping /\ UNCHANGED <<bound, corrections>>
  BY DEF Instructing, PrepareInstruction, LaunchInstruction, RouteInstruction,
         CheckFreshness, RouteRefresh, Stepping, target, history, bound
<1>1. /\ mem \in Checkpoint /\ mem.state = ck.state
      /\ Sound(mem, tgt.head, irregular, effect)
      /\ mem.state \in FirstStates
  BY <1>0, BranchFacts
  DEF Instructing, PrepareInstruction, LaunchInstruction, RouteInstruction,
      CheckFreshness, RouteRefresh, FirstStates, InstructionStates
<1>2. /\ mem.state \in Working \ ReviewedStates /\ mem.cycle \notin effect
      /\ ~(mem.plan.id > 0) /\ mem.corr = NoCorrection
      /\ mem.state \notin ReviewStates \cup {EXECUTOR_RUNNING}
      /\ mem.state # REVIEW_CORRECTION_RUNNING
  BY <1>0, <1>1, BranchFacts
  DEF Sound, CycleSound, CorrectionSound, FirstStates, InstructionStates,
      ReviewStates, Working, ReviewedStates
<1>3. /\ corrections <= MAX_REVIEW_CORRECTION_ATTEMPTS
      /\ corrections <= mem.corr.completed
  BY <1>0, <1>2, CountFacts
<1>4. ASSUME StartReviewer("instruction") PROVE TurnInv'
  BY <1>0, <1>1, <1>2, <1>4, ReviewerLaunch
<1>5. CASE PrepareInstruction
  <2>1. CASE art.st = "done"
    <3> DEFINE m == [mem EXCEPT !.rev = FromTurn(art.turn)]
    <3>1. /\ pc = "loop" /\ pc' = "summary" /\ mem' = m
          /\ UNCHANGED <<ck, art>> /\ mem.state \in InstructionStates
      BY <1>5, <2>1 DEF PrepareInstruction
    <3>2. /\ SameTurns(m, mem) /\ m.rev = FromTurn(art.turn)
          /\ m.state # INSTRUCTION_READY
      BY <1>1, <3>1 DEF SameTurns, Checkpoint, InstructionStates
    <3> HIDE DEF m
    <3>3. SoundOK'
      BY <1>0, <3>1, <3>2, SameSound DEF TurnInv, SoundOK, bound
    <3>4. Agreed'
      BY <1>0, <3>1, <3>2, BranchFacts DEF Agreed, SameTarget, SameTurns
    <3>5. ArtOK' BY <1>0, <3>1 DEF TurnInv, ArtOK, bound
    <3>6. WhereOK'
      BY <1>1, <2>1, <3>1, <3>2, TurnStateFacts
      DEF WhereOK, InTurn, Audited, SameTurns
    <3>7. CountOK' BY <1>0, <3>1 DEF TurnInv, CountOK, RunningTurn
    <3> QED BY <3>3, <3>4, <3>5, <3>6, <3>7 DEF TurnInv
  <2>2. CASE art.st # "done"
    <3> DEFINE r == IF art.st = "none" THEN mem.rev ELSE NoReviewer
               n == IF art.st = "none" /\ mem.active # 0 THEN mem.active
                    ELSE mem.active + 1
               m == [mem EXCEPT !.state = REVIEWER_INSTRUCTION_RUNNING,
                                !.rev = r, !.active = n, !.recorded = FALSE]
    <3>1. Persist(m, "launch", "except") /\ TurnLeft
      BY <1>5, <2>2 DEF PrepareInstruction, LeaveTurn, TurnLeft, NoArt
    <3>2. /\ m.state = REVIEWER_INSTRUCTION_RUNNING /\ m.cycle = mem.cycle
          /\ m.corr = mem.corr /\ m.plan = mem.plan
      BY <1>1 DEF Checkpoint
    <3>3. m \in Checkpoint
      <4>1. r \in ReviewerState /\ n \in Nat
        BY <1>1, BlankTyped DEF Checkpoint
      <4> HIDE DEF r, n
      <4> QED BY <1>1, <4>1 DEF Checkpoint, States, Working
    <3> HIDE DEF m
    <3>4. /\ m.state \notin AuditedStates \cup ReviewedStates
          /\ m.state \in LaunchStates
      BY <3>2 DEF AuditedStates, ReviewedStates, LaunchStates
    <3>5. InstructionSound(m) /\ AuditSound(m, tgt.head, irregular)
      BY <1>2, <3>2, <3>4 DEF InstructionSound, AuditSound
    <3>6. CorrectionSound(m) /\ CycleSound(m, tgt.head, effect)
      BY <1>1, <1>2, <3>2, <3>4 DEF Sound, CorrectionSound, CycleSound
    <3>7. Sound(m, tgt.head, irregular, effect) BY <3>5, <3>6 DEF Sound
    <3> QED BY <1>0, <1>3, <3>1, <3>2, <3>3, <3>4, <3>7, SaveStep
  <2> QED BY <2>1, <2>2
<1>6. CASE LaunchInstruction
  BY <1>0, <1>4, <1>6, RaiseTurn DEF LaunchInstruction
<1>7. CASE RouteInstruction
  <2> DEFINE m == [mem EXCEPT !.state = INSTRUCTION_READY, !.instr = art.turn,
                              !.active = 0, !.recorded = FALSE]
  <2>1. CASE Raise("inv") /\ UNCHANGED art BY <1>0, <2>1, RaiseTurn
  <2>2. CASE art.turn.ok /\ Persist(m, "loop", "except") /\ LeaveTurn
    <3>1. /\ m.state = INSTRUCTION_READY /\ m.instr = art.turn
          /\ m.cycle = mem.cycle /\ m.corr = mem.corr /\ m.plan = mem.plan
          /\ m.rev = mem.rev
      BY <1>1 DEF Checkpoint
    <3>2. m \in Checkpoint
      <4>1. art.turn \in Turn BY DEF TypeInv, TurnsTyped, Artifacts
      <4> QED BY <1>1, <4>1 DEF Checkpoint, States, Working
    <3> HIDE DEF m
    <3>3. pc = "route" BY <1>7 DEF RouteInstruction
    <3>4. art.turn.kind = "instruction" /\ mem.rev = FromTurn(art.turn)
      BY <1>1, <1>2, <2>2, <3>3
      DEF TurnInv, WhereOK, ArtOK, InTurn, Audited
    <3>5. m.state \notin AuditedStates \cup ReviewedStates
      BY <3>1 DEF AuditedStates, ReviewedStates
    <3>6. InstructionSound(m) /\ AuditSound(m, tgt.head, irregular)
      BY <1>2, <3>1, <3>4, <3>5 DEF InstructionSound, Instructs, AuditSound
    <3>7. CorrectionSound(m) /\ CycleSound(m, tgt.head, effect)
      BY <1>1, <1>2, <3>1, <3>5 DEF Sound, CorrectionSound, CycleSound
    <3>8. Sound(m, tgt.head, irregular, effect) BY <3>6, <3>7 DEF Sound
    <3>9. TurnLeft BY <2>2 DEF LeaveTurn, TurnLeft, NoArt
    <3> QED BY <1>0, <1>3, <2>2, <3>1, <3>2, <3>8, <3>9, SaveStep
  <2> QED BY <1>7, <2>1, <2>2 DEF RouteInstruction
<1>8. ASSUME mem.state = INSTRUCTION_READY, mem.instr.ok, Fresh, LeaveTurn,
             Persist(ExecutorCheckpoint, "loop", "except")
      PROVE  TurnInv'
  <2>1. TurnLeft BY <1>8 DEF LeaveTurn, TurnLeft, NoArt
  <2> QED BY <1>0, <1>1, <1>2, <1>3, <1>8, <2>1, ExecutorSound, SaveStep
<1>9. CASE CheckFreshness
  <2>1. mem.state = INSTRUCTION_READY /\ mem.instr.ok
    BY <1>9 DEF CheckFreshness, TurnInv, WhereOK
  <2> QED BY <1>0, <1>4, <1>8, <1>9, <2>1, RaiseTurn DEF CheckFreshness
<1>10. CASE RouteRefresh
  <2>1. CASE Raise("inv") /\ UNCHANGED art BY <1>0, <2>1, RaiseTurn
  <2>2. CASE /\ art.turn.ok /\ Fresh /\ LeaveTurn
             /\ Persist(ExecutorCheckpoint, "loop", "except")
    <3>1. mem.state = INSTRUCTION_READY /\ pc \in Audited
      BY <1>10 DEF RouteRefresh, Audited
    <3>2. mem.instr.ok BY <1>1, <2>2, <3>1 DEF TurnInv, WhereOK
    <3> QED BY <1>8, <2>2, <3>1, <3>2
  <2> QED BY <1>10, <2>1, <2>2 DEF RouteRefresh
<1> QED BY <1>5, <1>6, <1>7, <1>9, <1>10 DEF Instructing

\* The branches EXECUTOR_RUNNING and EXECUTOR_COMMITTED: only an Executor that
\* left an unmoved target is launched, and only an ordinary history is reviewed.
LEMMA TurnExecuting == TypeInv /\ LedgerInv /\ TurnInv /\ Executing => TurnInv'
<1> SUFFICES ASSUME TypeInv, LedgerInv, TurnInv, Executing PROVE TurnInv'
  OBVIOUS
<1>0. /\ pc \in Stepping /\ UNCHANGED <<bound, corrections>>
  BY DEF Executing, PrepareExecutor, LaunchExecutor, RouteExecutor, PlanReview,
         Stepping, target, history, bound
<1>1. /\ mem \in Checkpoint /\ mem.state = ck.state /\ tgt.head \in Nat
      /\ Sound(mem, tgt.head, irregular, effect)
      /\ mem.state \in {EXECUTOR_RUNNING, EXECUTOR_COMMITTED}
  BY <1>0, BranchFacts
  DEF Executing, PrepareExecutor, LaunchExecutor, RouteExecutor, PlanReview
<1>2. /\ mem.state \in Working \ ReviewedStates
      /\ mem.state \notin ReviewStates \cup FirstStates
      /\ mem.corr = NoCorrection /\ mem.tb \in Nat
  BY <1>1
  DEF Sound, CorrectionSound, FirstStates, InstructionStates, ReviewStates,
      Working, ReviewedStates, Checkpoint
<1>3. /\ ~(mem.plan.id > 0)
      /\ corrections <= MAX_REVIEW_CORRECTION_ATTEMPTS
      /\ corrections <= mem.corr.completed
  BY <1>0, <1>2, CountFacts, BranchFacts DEF ReviewStates
<1>4. CASE PrepareExecutor
  <2> DEFINE o == [state |-> HUMAN_GATE, exit |-> 0]
             g == [[mem EXCEPT !.active = 0, !.ta = tgt.head] EXCEPT
                     !.state = HUMAN_GATE, !.outcome = o]
             m == [mem EXCEPT !.active = @ + 1, !.recorded = FALSE]
  <2>1. CASE art.st = "done" /\ Goto("audit") /\ UNCHANGED art
    <3>1. WhereOK'
      BY <1>0, <2>1, BranchFacts
      DEF Goto, WhereOK, InTurn, Audited
    <3> QED BY <1>0, <2>1, <3>1, CalmTurn DEF Goto
  <2>2. CASE Raise("inv") /\ UNCHANGED art BY <1>0, <2>2, RaiseTurn
  <2>3. CASE Persist(g, "finish", "except") /\ LeaveTurn
    <3>1. /\ g.state = HUMAN_GATE /\ g.cycle = mem.cycle /\ g.instr = mem.instr
          /\ g.exec = mem.exec /\ g.tb = mem.tb /\ g.corr = mem.corr
          /\ g.plan = mem.plan
      BY <1>1 DEF Checkpoint
    <3>2. g \in Checkpoint
      <4>1. o \in Outcomes BY DEF Outcomes
      <4> HIDE DEF o
      <4> QED BY <1>1, <4>1 DEF Checkpoint, States
    <3> HIDE DEF g
    <3>3. g.state \notin Working BY <3>1 DEF Working
    <3>4. Sound(g, tgt.head, irregular, effect)
      BY <1>1, <1>2, <3>1, <3>3, StoppedSound
    <3>5. TurnLeft BY <2>3 DEF LeaveTurn, TurnLeft, NoArt
    <3> QED BY <1>0, <1>3, <2>3, <3>2, <3>3, <3>4, <3>5, SaveStep
  <2>4. ASSUME ~TargetMoved, mem.state = EXECUTOR_RUNNING
        PROVE  mem.cycle \notin effect
    BY <1>1, <1>2, <2>4 DEF TargetMoved, Sound, CycleSound
  <2>5. EXECUTOR_RUNNING \in LaunchStates BY DEF LaunchStates
  <2>6. CASE /\ Goto("launch") /\ UNCHANGED art /\ ~TargetMoved
             /\ mem.state = EXECUTOR_RUNNING
    <3>1. WhereOK'
      BY <1>0, <2>4, <2>5, <2>6 DEF Goto, WhereOK, InTurn, Audited, bound
    <3> QED BY <1>0, <2>6, <3>1, CalmTurn DEF Goto
  <2>7. CASE /\ Persist(m, "launch", "except") /\ LeaveTurn /\ ~TargetMoved
             /\ mem.state = EXECUTOR_RUNNING
    <3>1. SameTurns(m, mem) /\ m \in Checkpoint
      <4>1. SameTurns(m, mem) BY <1>1 DEF Checkpoint, SameTurns
      <4>2. mem.active + 1 \in Nat BY <1>1 DEF Checkpoint
      <4>3. m \in Checkpoint BY <1>1, <4>2 DEF Checkpoint
      <4> QED BY <4>1, <4>3
    <3> HIDE DEF m
    <3>2. /\ m.state = EXECUTOR_RUNNING /\ m.cycle \notin effect
          /\ m.corr = mem.corr
      BY <2>4, <2>7, <3>1 DEF SameTurns
    <3>3. Sound(m, tgt.head, irregular, effect) BY <1>1, <3>1, SameSound
    <3>4. TurnLeft BY <2>7 DEF LeaveTurn, TurnLeft, NoArt
    <3> QED BY <1>0, <1>3, <2>5, <2>7, <3>1, <3>2, <3>3, <3>4, SaveStep
  <2> QED BY <1>4, <2>1, <2>2, <2>3, <2>6, <2>7
          DEF PrepareExecutor, ReachOutcome
<1>5. CASE LaunchExecutor
  <2>1. mem.state = EXECUTOR_RUNNING BY <1>5 DEF LaunchExecutor
  <2>2. CASE Raise("inv") /\ UNCHANGED art BY <1>0, <2>2, RaiseTurn
  <2>3. CASE StartExecutor
    <3>1. /\ art'.st = "partial" /\ art'.turn.head = tgt.head
          /\ art'.turn.kind = "receipt" /\ pc' = "turn" /\ UNCHANGED <<ck, mem>>
      BY <2>3 DEF StartExecutor, Goto, NoTurn
    <3> QED BY <1>0, <2>1, <3>1, LaunchTurn
  <2> QED BY <1>5, <2>2, <2>3 DEF LaunchExecutor
<1>6. CASE RouteExecutor
  <2> DEFINE m == [mem EXCEPT !.state = EXECUTOR_COMMITTED, !.exec = art.turn,
                              !.ta = art.turn.head, !.active = 0,
                              !.recorded = FALSE]
  <2>1. CASE Raise("inv") /\ UNCHANGED art BY <1>0, <2>1, RaiseTurn
  <2>2. CASE ExecutorTrusted /\ Persist(m, "loop", "except") /\ LeaveTurn
    <3>1. /\ m.state = EXECUTOR_COMMITTED /\ m.exec = art.turn
          /\ m.ta = art.turn.head /\ m.tb = mem.tb
          /\ m.cycle = mem.cycle /\ m.corr = mem.corr /\ m.plan = mem.plan
      BY <1>1 DEF Checkpoint
    <3>2. m \in Checkpoint
      <4>1. art.turn \in Turn /\ art.turn.head \in Nat
        BY DEF TypeInv, TurnsTyped, Artifacts, Turn
      <4> QED BY <1>1, <4>1 DEF Checkpoint, States, Working
    <3> HIDE DEF m
    <3>3. art.turn.head <= tgt.head
      BY <1>6 DEF RouteExecutor, TurnInv, WhereOK, ArtOK, InTurn
    <3>4. HistoryAudited(m, tgt.head, irregular)
      BY <2>2, <3>1, <3>3 DEF HistoryAudited, ExecutorTrusted
    <3>5. m.state \notin ReviewedStates \cup FirstStates
      BY <3>1 DEF ReviewedStates, FirstStates, InstructionStates
    <3>6. InstructionSound(m) /\ AuditSound(m, tgt.head, irregular)
      BY <1>3, <3>1, <3>4, <3>5 DEF InstructionSound, AuditSound
    <3>7. CorrectionSound(m) /\ CycleSound(m, tgt.head, effect)
      BY <1>1, <1>2, <3>1, <3>5
      DEF Sound, CorrectionSound, CycleSound, NoCorrection, ReviewedStates
    <3>8. Sound(m, tgt.head, irregular, effect) BY <3>6, <3>7 DEF Sound
    <3>9. TurnLeft BY <2>2 DEF LeaveTurn, TurnLeft, NoArt
    <3> QED BY <1>0, <1>3, <2>2, <3>1, <3>2, <3>8, <3>9, SaveStep
  <2> QED BY <1>6, <2>1, <2>2 DEF RouteExecutor
<1>7. CASE PlanReview
  <2> DEFINE m == [mem EXCEPT !.state = REVIEW_PENDING, !.active = 1]
  <2>1. UNCHANGED art /\ mem.state = EXECUTOR_COMMITTED
    BY <1>7 DEF PlanReview, turns
  <2>2. CASE Persist(m, "loop", "except")
    <3>1. /\ m.state = REVIEW_PENDING /\ m.exec = mem.exec /\ m.ta = mem.ta
          /\ m.tb = mem.tb /\ m.cycle = mem.cycle /\ m.corr = mem.corr
          /\ m.plan = mem.plan
      BY <1>1 DEF Checkpoint
    <3>2. m \in Checkpoint BY <1>1 DEF Checkpoint, States, Working
    <3> HIDE DEF m
    <3>3. HistoryAudited(m, tgt.head, irregular)
      BY <1>1, <2>1, <3>1 DEF Sound, AuditSound, AuditedStates, HistoryAudited
    <3>4. m.state \notin ReviewedStates \cup FirstStates
      BY <3>1 DEF ReviewedStates, FirstStates, InstructionStates
    <3>5. InstructionSound(m) /\ AuditSound(m, tgt.head, irregular)
      BY <1>3, <3>1, <3>3, <3>4 DEF InstructionSound, AuditSound
    <3>6. CorrectionSound(m) /\ CycleSound(m, tgt.head, effect)
      BY <1>1, <1>2, <3>1, <3>4
      DEF Sound, CorrectionSound, CycleSound, NoCorrection, ReviewedStates
    <3>7. Sound(m, tgt.head, irregular, effect) BY <3>5, <3>6 DEF Sound
    <3>8. art.st = "none"
      BY <1>0, <2>1, BranchFacts
      DEF TurnStates, FirstStates, InstructionStates, ReviewStates
    <3>9. TurnLeft BY <2>1, <3>8 DEF TurnLeft
    <3> QED BY <1>0, <1>3, <2>2, <3>1, <3>2, <3>7, <3>9, SaveStep
  <2> QED BY <1>0, <1>7, <2>1, <2>2, RaiseTurn DEF PlanReview
<1> QED BY <1>4, <1>5, <1>6, <1>7 DEF Executing

\* A verdict is validated on what its Reviewer knows.
LEMMA VerdictFacts ==
  ASSUME TypeInv, Sound(mem, tgt.head, irregular, effect),
         mem.state = REVIEW_COMPLETED, VerdictUsable
  PROVE  /\ mem.instr.ok /\ mem.rev = FromTurn(mem.instr)
         /\ mem.corr.started = mem.corr.completed /\ mem.corr.pending = 0
         /\ mem.corr.completed \in Nat
         /\ mem.corr.completed <= MAX_REVIEW_CORRECTION_ATTEMPTS
         /\ HistoryAudited(mem, tgt.head, irregular)
         /\ mem.instr.head = mem.ta
<1>0. mem \in Checkpoint BY DEF TypeInv, ControlTyped
<1>1. /\ mem.instr.ok /\ mem.instr.thread = mem.rev.thread
      /\ mem.instr.gov = mem.rev.gov /\ mem.instr.rt = mem.rev.rt
      /\ mem.instr.head = mem.rev.head
  BY DEF VerdictUsable, ReviewCurrent
<1>2. mem.rev = FromTurn(mem.instr)
  <2>1. mem.rev \in ReviewerState BY <1>0 DEF Checkpoint
  <2> QED BY <1>1, <2>1 DEF FromTurn, ReviewerState
<1>3. mem.corr.started = mem.corr.completed /\ mem.corr.pending = 0
  BY DEF Sound, CorrectionSound
<1>4. mem.corr \in Correction BY <1>0 DEF Checkpoint
<1>5. mem.corr.completed <= MAX_REVIEW_CORRECTION_ATTEMPTS
  BY <1>3
  DEF Sound, CorrectionSound, Counted, NoCorrection,
      MAX_REVIEW_CORRECTION_ATTEMPTS
<1>6. HistoryAudited(mem, tgt.head, irregular) /\ mem.instr.head = mem.ta
  BY DEF Sound, AuditSound, AuditedStates, ReviewedStates
<1> QED BY <1>1, <1>2, <1>3, <1>4, <1>5, <1>6 DEF Correction

\* REVIEW_PENDING: a verdict is about the head the Executor left.
LEMMA TurnReview ==
  ASSUME TypeInv, LedgerInv, TurnInv, PrepareReview \/ LaunchReview \/ RouteReview
  PROVE  TurnInv'
<1>0. /\ pc \in Stepping /\ UNCHANGED <<bound, corrections>>
      /\ mem.state = REVIEW_PENDING
  BY DEF PrepareReview, LaunchReview, RouteReview, Stepping, target, history,
         bound
<1>1. /\ mem \in Checkpoint /\ ck.state = REVIEW_PENDING
      /\ Sound(mem, tgt.head, irregular, effect) /\ SameTarget(mem, ck)
  BY <1>0, BranchFacts
<1>2. /\ REVIEW_PENDING \in Working \ ReviewedStates
      /\ REVIEW_PENDING \in TurnStates /\ REVIEW_PENDING \in ReviewStates
      /\ REVIEW_PENDING \in AuditedStates /\ REVIEW_PENDING \notin FirstStates
      /\ REVIEW_PENDING \in LaunchStates
  BY DEF Working, ReviewedStates, TurnStates, ReviewStates, AuditedStates,
         FirstStates, InstructionStates, LaunchStates
<1>3. /\ ~(mem.plan.id > 0) /\ mem.corr = NoCorrection
      /\ corrections <= MAX_REVIEW_CORRECTION_ATTEMPTS
      /\ corrections <= mem.corr.completed
  BY <1>0, <1>1, <1>2, CountFacts, BranchFacts DEF Sound, CorrectionSound
<1>4. CASE PrepareReview
  <2> DEFINE m == [mem EXCEPT !.rev = NoReviewer, !.active = @ + 1,
                              !.recorded = FALSE]
             k == [mem EXCEPT !.rev = FromTurn(art.turn)]
  <2>1. CASE /\ art.st = "done" /\ mem' = k /\ pc' = "summary"
             /\ UNCHANGED <<ck, art>>
    <3>1. SameTurns(k, mem) BY <1>0, <1>1 DEF SameTurns, Checkpoint
    <3> HIDE DEF k
    <3>2. SoundOK'
      BY <1>0, <2>1, <3>1, SameSound DEF TurnInv, SoundOK, bound
    <3>3. Agreed' BY <1>1, <2>1, <3>1 DEF Agreed, SameTarget, SameTurns
    <3>4. ArtOK' BY <1>0, <2>1 DEF TurnInv, ArtOK, bound
    <3>5. WhereOK'
      BY <1>0, <1>2, <2>1, <3>1 DEF WhereOK, InTurn, Audited, SameTurns
    <3>6. CountOK' BY <1>0, <2>1 DEF TurnInv, CountOK, RunningTurn
    <3> QED BY <3>2, <3>3, <3>4, <3>5, <3>6 DEF TurnInv
  <2>2. CASE Goto("launch") /\ UNCHANGED art
    <3>1. WhereOK' BY <1>0, <1>2, <2>2 DEF Goto, WhereOK, InTurn, Audited
    <3> QED BY <1>0, <2>2, <3>1, CalmTurn DEF Goto
  <2>3. CASE Persist(m, "launch", "except") /\ LeaveTurn
    <3>1. SameTurns(m, mem) BY <1>0, <1>1 DEF SameTurns, Checkpoint
    <3>2. m \in Checkpoint
      <4>1. mem.active + 1 \in Nat BY <1>1 DEF Checkpoint
      <4> QED BY <1>1, <4>1, BlankTyped DEF Checkpoint
    <3> HIDE DEF m
    <3>3. Sound(m, tgt.head, irregular, effect) BY <1>1, <3>1, SameSound
    <3>4. m.state = REVIEW_PENDING /\ m.corr = mem.corr
      BY <1>0, <3>1 DEF SameTurns
    <3>5. TurnLeft BY <2>3 DEF LeaveTurn, TurnLeft, NoArt
    <3> QED BY <1>0, <1>2, <1>3, <2>3, <3>2, <3>3, <3>4, <3>5, SaveStep
  <2> QED BY <1>4, <2>1, <2>2, <2>3 DEF PrepareReview
<1>5. CASE LaunchReview
  <2>1. CASE Raise("inv") /\ UNCHANGED art BY <1>0, <2>1, RaiseTurn
  <2>2. CASE AtTargetAfter /\ StartReviewer("review")
    <3>1. tgt.head = mem.ta BY <2>2 DEF AtTargetAfter
    <3> QED BY <1>0, <1>2, <2>2, <3>1, ReviewerLaunch
  <2> QED BY <1>5, <2>1, <2>2 DEF LaunchReview
<1>6. CASE RouteReview
  <2> DEFINE m == [mem EXCEPT !.state = REVIEW_COMPLETED, !.instr = art.turn,
                              !.corr = NoCorrection, !.active = 0,
                              !.recorded = FALSE]
  <2>1. CASE Raise("inv") /\ UNCHANGED art BY <1>0, <2>1, RaiseTurn
  <2>2. CASE art.turn.ok /\ Persist(m, "loop", "except") /\ LeaveTurn
    <3>1. /\ m.state = REVIEW_COMPLETED /\ m.instr = art.turn
          /\ m.exec = mem.exec /\ m.ta = mem.ta /\ m.tb = mem.tb
          /\ m.cycle = mem.cycle /\ m.corr = NoCorrection /\ m.plan = mem.plan
      BY <1>1 DEF Checkpoint
    <3>2. m \in Checkpoint
      <4>1. art.turn \in Turn BY DEF TypeInv, TurnsTyped, Artifacts
      <4> QED BY <1>1, <4>1, BlankTyped DEF Checkpoint, States, Working
    <3> HIDE DEF m
    <3>3. art.turn.head = mem.ta
      <4>1. art.st # "none"
        BY <1>6 DEF RouteReview, TurnInv, WhereOK, InTurn
      <4> QED BY <1>1, <1>2, <4>1 DEF TurnInv, ArtOK, SameTarget
    <3>4. HistoryAudited(m, tgt.head, irregular)
      BY <1>0, <1>1, <1>2, <3>1 DEF Sound, AuditSound, HistoryAudited
    <3>5. InstructionSound(m) /\ AuditSound(m, tgt.head, irregular)
      BY <1>3, <3>1, <3>3, <3>4 DEF InstructionSound, AuditSound
    <3>6. CorrectionSound(m) /\ CycleSound(m, tgt.head, effect)
      BY <1>1, <3>1
      DEF Sound, CorrectionSound, CycleSound, NoCorrection, ReviewedStates,
          FirstStates, InstructionStates
    <3>7. Sound(m, tgt.head, irregular, effect) BY <3>5, <3>6 DEF Sound
    <3>8. TurnLeft BY <2>2 DEF LeaveTurn, TurnLeft, NoArt
    <3> QED BY <1>0, <1>3, <2>2, <3>1, <3>2, <3>7, <3>8, SaveStep
  <2> QED BY <1>6, <2>1, <2>2 DEF RouteReview
<1> QED BY <1>4, <1>5, <1>6

\* REVIEW_COMPLETED: what a usable verdict leads to.
LEMMA TurnVerdict ==
  ASSUME TypeInv, LedgerInv, TurnInv,
         RefuseVerdict \/ PlanCorrection \/ FollowHumanGate \/ PlanTransition
         \/ FollowReject
  PROVE  TurnInv'
<1>0. /\ pc \in Stepping /\ UNCHANGED <<bound, art>>
      /\ mem.state = REVIEW_COMPLETED
  BY DEF RefuseVerdict, PlanCorrection, FollowHumanGate, PlanTransition,
         FollowReject, AtVerdict, Stepping, turns, target, history, bound
<1>1. /\ mem \in Checkpoint /\ tgt.head \in Nat
      /\ Sound(mem, tgt.head, irregular, effect)
  BY <1>0, BranchFacts
<1>2. /\ REVIEW_COMPLETED \in Working /\ REVIEW_COMPLETED \notin TurnStates
      /\ REVIEW_COMPLETED \in ReviewedStates \cap AuditedStates
  BY DEF Working, TurnStates, FirstStates, InstructionStates, ReviewStates,
         ReviewedStates, AuditedStates
<1>3. /\ ~(mem.plan.id > 0)
      /\ corrections \in Nat /\ corrections <= MAX_REVIEW_CORRECTION_ATTEMPTS
      /\ corrections <= mem.corr.completed
  BY <1>0, <1>2, CountFacts, BranchFacts
<1>4. TurnLeft
  <2>1. art.st = "none" BY <1>0, <1>2, BranchFacts
  <2> QED BY <1>0, <2>1 DEF TurnLeft
<1>5. CASE RefuseVerdict
  BY <1>0, <1>5, RaiseTurn DEF RefuseVerdict, history
<1>6. CASE PlanCorrection
  <2> DEFINE r == [mem.corr EXCEPT !.on = TRUE, !.thread = mem.instr.thread,
                                   !.guards = mem.corr.guards \cup {evid},
                                   !.pending = mem.corr.completed + 1]
             m == [mem EXCEPT !.state = REVIEW_CORRECTION_PENDING, !.corr = r]
  <2>1. /\ Persist(m, "loop", "except") /\ corrections' = corrections
        /\ VerdictUsable /\ mem.corr.completed < MAX_REVIEW_CORRECTION_ATTEMPTS
    BY <1>6 DEF PlanCorrection, history, MayCorrect
  <2>2. mem.corr \in Correction /\ mem.instr \in Turn /\ evid \in Nat
    BY <1>1 DEF Checkpoint, TypeInv, WorldTyped
  <2>3. /\ r \in Correction /\ r.on /\ r.started = mem.corr.started
        /\ r.completed = mem.corr.completed
        /\ r.pending = mem.corr.completed + 1
    <3>1. /\ mem.instr.thread \in Nat /\ mem.corr.completed + 1 \in Nat
          /\ mem.corr.guards \cup {evid} \subseteq Nat
      BY <2>2 DEF Correction, Turn
    <3> QED BY <2>2, <3>1 DEF Correction
  <2> HIDE DEF r
  <2>4. /\ m.state = REVIEW_CORRECTION_PENDING /\ m.instr = mem.instr
        /\ m.exec = mem.exec /\ m.ta = mem.ta /\ m.tb = mem.tb
        /\ m.cycle = mem.cycle /\ m.corr = r /\ m.plan = mem.plan
    BY <1>1 DEF Checkpoint
  <2>5. m \in Checkpoint BY <1>1, <2>3 DEF Checkpoint, States, Working
  <2> HIDE DEF m
  <2>6. /\ mem.corr.started = mem.corr.completed
        /\ mem.corr.completed \in Nat /\ HistoryAudited(mem, tgt.head, irregular)
        /\ mem.instr.head = mem.ta
    BY <1>0, <1>1, <2>1, VerdictFacts
  <2>7. InstructionSound(m) /\ AuditSound(m, tgt.head, irregular)
    BY <1>3, <2>4, <2>6 DEF InstructionSound, AuditSound, HistoryAudited
  <2>8. CorrectionSound(m)
    BY <2>1, <2>3, <2>4, <2>6
    DEF CorrectionSound, Counted, ReviewedStates, MAX_REVIEW_CORRECTION_ATTEMPTS
  <2>9. CycleSound(m, tgt.head, effect)
    BY <1>1, <2>4
    DEF Sound, CycleSound, FirstStates, InstructionStates
  <2>10. Sound(m, tgt.head, irregular, effect) BY <2>7, <2>8, <2>9 DEF Sound
  <2> QED BY <1>0, <1>3, <1>4, <2>1, <2>3, <2>4, <2>5, <2>10, SaveStep
<1>7. ASSUME ReachOutcome(mem, HUMAN_GATE, 0, "finish", "except"),
             UNCHANGED corrections
      PROVE  TurnInv'
  <2> DEFINE o == [state |-> HUMAN_GATE, exit |-> 0]
             m == [mem EXCEPT !.state = HUMAN_GATE, !.outcome = o]
  <2>1. Persist(m, "finish", "except") BY <1>7 DEF ReachOutcome
  <2>2. /\ m.state = HUMAN_GATE /\ m.cycle = mem.cycle /\ m.instr = mem.instr
        /\ m.exec = mem.exec /\ m.tb = mem.tb /\ m.corr = mem.corr
        /\ m.plan = mem.plan
    BY <1>1 DEF Checkpoint
  <2>3. m \in Checkpoint
    <3>1. o \in Outcomes BY DEF Outcomes
    <3> HIDE DEF o
    <3> QED BY <1>1, <3>1 DEF Checkpoint, States
  <2> HIDE DEF m
  <2>4. m.state \notin Working BY <2>2 DEF Working
  <2>5. Sound(m, tgt.head, irregular, effect)
    BY <1>0, <1>1, <1>2, <2>2, <2>4, StoppedSound
  <2> QED BY <1>0, <1>3, <1>4, <1>7, <2>1, <2>3, <2>4, <2>5, SaveStep
<1>8. CASE FollowHumanGate BY <1>7, <1>8 DEF FollowHumanGate, history
<1>9. CASE PlanTransition
  <2> DEFINE p == [id |-> fresh + 1, pre |-> rt]
             m == [mem EXCEPT !.state = RUNTIME_TRANSITION_PENDING, !.plan = p]
  <2>1. /\ Persist(m, "loop", "except") /\ corrections' = corrections
        /\ VerdictUsable /\ VerdictFinal /\ mem.instr.kind = "ACCEPT"
    BY <1>9 DEF PlanTransition, history
  <2>2. /\ m.state = RUNTIME_TRANSITION_PENDING /\ m.instr = mem.instr
        /\ m.exec = mem.exec /\ m.ta = mem.ta /\ m.tb = mem.tb
        /\ m.cycle = mem.cycle /\ m.corr = mem.corr
    BY <1>1 DEF Checkpoint
  <2>3. m \in Checkpoint
    <3>1. p \in [id: Nat, pre: Images] BY DEF TypeInv, TurnsTyped, WorldTyped
    <3> HIDE DEF p
    <3> QED BY <1>1, <3>1 DEF Checkpoint, States, Transition
  <2> HIDE DEF m
  <2>4. m.state \notin Working BY <2>2 DEF Working
  <2>5. /\ m.state \notin AuditedStates \cup ReviewedStates \cup FirstStates
        /\ m.state \notin {INSTRUCTION_READY, EXECUTOR_RUNNING}
    BY <2>4, TurnStateFacts DEF Working
  <2>6. /\ HistoryAudited(m, tgt.head, irregular) /\ m.instr.head = m.ta
        /\ m.instr.declared
    BY <1>0, <1>1, <2>1, <2>2, VerdictFacts
    DEF HistoryAudited, VerdictFinal, Correctable
  <2>7. InstructionSound(m) /\ AuditSound(m, tgt.head, irregular)
    BY <2>1, <2>2, <2>4, <2>5, <2>6 DEF InstructionSound, AuditSound
  <2>8. CorrectionSound(m) /\ CycleSound(m, tgt.head, effect)
    BY <1>1, <2>2, <2>4, <2>5
    DEF Sound, CorrectionSound, CycleSound, ReviewedStates
  <2>9. Sound(m, tgt.head, irregular, effect) BY <2>7, <2>8 DEF Sound
  <2> QED BY <1>0, <1>3, <1>4, <2>1, <2>2, <2>3, <2>4, <2>9, SaveStep
<1>10. CASE FollowReject
  <2> DEFINE m == [mem EXCEPT !.state = INSTRUCTION_READY, !.cycle = @ + 1,
                              !.corr = NoCorrection, !.exec = NoTurn,
                              !.tb = 0, !.ta = 0, !.active = 0]
  <2>1. CASE Persist(m, "loop", "except")
             /\ corrections' = IF ck' = ck THEN corrections ELSE 0
    <3>1. /\ m.state = INSTRUCTION_READY /\ m.instr = mem.instr
          /\ m.rev = mem.rev /\ m.cycle = mem.cycle + 1
          /\ m.corr = NoCorrection /\ m.plan = mem.plan
      BY <1>1 DEF Checkpoint
    <3>2. m \in Checkpoint
      <4>1. mem.cycle + 1 \in Nat BY <1>1 DEF Checkpoint
      <4> QED BY <1>1, <4>1, BlankTyped DEF Checkpoint, States, Working
    <3> HIDE DEF m
    <3>3. /\ mem.instr.ok /\ mem.rev = FromTurn(mem.instr)
          /\ mem.instr.kind = "REJECT" /\ mem.cycle \in Nat
      BY <1>0, <1>1, <1>10, VerdictFacts DEF FollowReject, Checkpoint
    <3>4. m.state \notin AuditedStates \cup ReviewedStates
      BY <3>1 DEF AuditedStates, ReviewedStates
    <3>5. InstructionSound(m) /\ AuditSound(m, tgt.head, irregular)
      BY <1>3, <3>1, <3>3, <3>4 DEF InstructionSound, Instructs, AuditSound
    <3>6. CorrectionSound(m)
      BY <3>1, <3>4 DEF CorrectionSound, NoCorrection, ReviewedStates
    <3>7. CycleSound(m, tgt.head, effect)
      <4>1. /\ effect \subseteq Nat /\ \A e \in effect : e <= mem.cycle
        BY <1>1 DEF TypeInv, WorldTyped, Sound, CycleSound
      <4> QED BY <3>1, <3>3, <4>1 DEF CycleSound
    <3>8. Sound(m, tgt.head, irregular, effect) BY <3>5, <3>6, <3>7 DEF Sound
    <3>9. /\ ck' = m => corrections' <= m.corr.completed
                        /\ corrections' <= MAX_REVIEW_CORRECTION_ATTEMPTS
          /\ ck' = ck => corrections' = corrections
      <4>1. CASE ck' = ck /\ ck = m
        <5>1. ck.state = REVIEW_COMPLETED BY <1>0, BranchFacts
        <5> QED BY <3>1, <4>1, <5>1
      <4>2. CASE ~(ck' = ck /\ ck = m)
        BY <2>1, <3>1, <4>2 DEF NoCorrection, MAX_REVIEW_CORRECTION_ATTEMPTS
      <4> QED BY <4>1, <4>2
    <3> QED BY <1>0, <1>4, <2>1, <3>1, <3>2, <3>3, <3>8, <3>9, SaveStep
  <2> QED BY <1>7, <1>10, <2>1 DEF FollowReject
<1> QED BY <1>5, <1>6, <1>8, <1>9, <1>10

\* The branches of a correction: an attempt is counted before it is launched,
\* and launched at most once.
LEMMA TurnCorrecting == TypeInv /\ LedgerInv /\ TurnInv /\ Correcting => TurnInv'
<1> SUFFICES ASSUME TypeInv, LedgerInv, TurnInv, Correcting PROVE TurnInv'
  OBVIOUS
<1>0. /\ pc \in Stepping /\ UNCHANGED bound
      /\ mem.state \in {REVIEW_CORRECTION_PENDING, REVIEW_CORRECTION_RUNNING}
  BY DEF Correcting, StartCorrection, RunCorrection, RouteCorrection, Stepping,
         target, history, bound
<1>1. /\ mem \in Checkpoint /\ mem.state = ck.state
      /\ Sound(mem, tgt.head, irregular, effect) /\ SameTarget(mem, ck)
      /\ mem.corr \in Correction /\ mem.corr.completed \in Nat
  BY <1>0, BranchFacts DEF Checkpoint, Correction
<1>2. mem.state \in Working /\ mem.state \in ReviewedStates \cap AuditedStates
  BY <1>0 DEF Working, ReviewedStates, AuditedStates
<1>3. /\ ~(mem.plan.id > 0) /\ HistoryAudited(mem, tgt.head, irregular)
      /\ mem.instr.head = mem.ta
      /\ mem.corr.on /\ mem.corr.pending = mem.corr.completed + 1
      /\ mem.corr.completed < MAX_REVIEW_CORRECTION_ATTEMPTS
      /\ corrections \in Nat /\ corrections <= MAX_REVIEW_CORRECTION_ATTEMPTS
      /\ Counted(mem.corr)
  BY <1>0, <1>1, <1>2, CountFacts
  DEF Sound, AuditSound, CorrectionSound, ReviewedStates
<1>4. CASE StartCorrection
  <2> DEFINE m == CorrectionCheckpoint
  <2>1. /\ UNCHANGED <<art, corrections>> /\ mem.state = REVIEW_CORRECTION_PENDING
    BY <1>4 DEF StartCorrection, turns, history
  <2>2. CASE Persist(m, "loop", "except")
    <3>1. /\ m.state = REVIEW_CORRECTION_RUNNING /\ m.instr = mem.instr
          /\ m.exec = mem.exec /\ m.ta = mem.ta /\ m.tb = mem.tb
          /\ m.cycle = mem.cycle /\ m.plan = mem.plan
          /\ m.corr = [mem.corr EXCEPT !.started = mem.corr.pending]
      BY <1>1 DEF CorrectionCheckpoint, Checkpoint
    <3>2. m \in Checkpoint
      BY <1>1 DEF CorrectionCheckpoint, Checkpoint, Correction, States, Working
    <3> HIDE DEF m
    <3>3. /\ m.corr.on /\ m.corr.started = mem.corr.completed + 1
          /\ m.corr.completed = mem.corr.completed
          /\ m.corr.pending = mem.corr.completed + 1
      BY <1>1, <1>3, <3>1 DEF Correction
    <3>4. InstructionSound(m) /\ AuditSound(m, tgt.head, irregular)
      BY <1>3, <3>1 DEF InstructionSound, AuditSound, HistoryAudited
    <3>5. CorrectionSound(m)
      BY <1>1, <1>3, <3>1, <3>3
      DEF CorrectionSound, Counted, ReviewedStates, MAX_REVIEW_CORRECTION_ATTEMPTS
    <3>6. CycleSound(m, tgt.head, effect)
      BY <1>1, <3>1 DEF Sound, CycleSound, FirstStates, InstructionStates
    <3>7. Sound(m, tgt.head, irregular, effect) BY <3>4, <3>5, <3>6 DEF Sound
    <3>8. art.st = "none"
      BY <1>0, <2>1, BranchFacts
      DEF TurnStates, FirstStates, InstructionStates, ReviewStates
    <3>9. TurnLeft BY <2>1, <3>8 DEF TurnLeft
    <3>10. corrections <= m.corr.completed
      BY <1>0, <1>2, <2>1, <3>3, CountFacts
    <3> QED BY <1>0, <1>3, <2>1, <2>2, <3>1, <3>2, <3>7, <3>9, <3>10, SaveStep
  <2> QED BY <1>0, <1>4, <2>1, <2>2, RaiseTurn DEF StartCorrection
<1>5. CASE RunCorrection
  <2> DEFINE k == [mem EXCEPT !.rev = FromTurn(art.turn)]
  <2>1. mem.state = REVIEW_CORRECTION_RUNNING /\ mem.state \in ReviewStates
        /\ mem.state \in TurnStates /\ mem.state \notin FirstStates
    BY <1>5 DEF RunCorrection, ReviewStates, TurnStates, FirstStates,
                InstructionStates
  <2>2. CASE Raise("inv") /\ UNCHANGED <<art, corrections>>
    BY <1>0, <2>2, RaiseTurn
  <2>3. CASE /\ art.st = "done" /\ mem' = k /\ pc' = "summary"
             /\ UNCHANGED <<ck, art, corrections>>
    <3>1. SameTurns(k, mem) BY <1>1, <2>1 DEF SameTurns, Checkpoint
    <3> HIDE DEF k
    <3>2. SoundOK'
      BY <1>0, <2>3, <3>1, SameSound DEF TurnInv, SoundOK, bound
    <3>3. Agreed' BY <1>1, <2>3, <3>1 DEF Agreed, SameTarget, SameTurns
    <3>4. ArtOK' BY <1>0, <2>3 DEF TurnInv, ArtOK, bound
    <3>5. WhereOK'
      BY <2>1, <2>3, <3>1 DEF WhereOK, InTurn, Audited, SameTurns
    <3>6. CountOK' BY <1>0, <2>3 DEF TurnInv, CountOK, RunningTurn
    <3> QED BY <3>2, <3>3, <3>4, <3>5, <3>6 DEF TurnInv
  <2>4. CASE /\ CorrectionAllowed /\ art.st = "none" /\ StartReviewer("review")
             /\ corrections' = corrections + 1
    <3>1. tgt.head = mem.ta BY <2>4 DEF CorrectionAllowed, ExecutorCurrent
    <3> QED BY <1>0, <2>1, <2>4, <3>1, ReviewerLaunch
  <2> QED BY <1>5, <2>2, <2>3, <2>4 DEF RunCorrection
<1>6. CASE RouteCorrection
  <2> DEFINE r == [mem.corr EXCEPT !.completed = @ + 1, !.pending = 0]
             m == [mem EXCEPT !.state = REVIEW_COMPLETED, !.instr = art.turn,
                              !.corr = r, !.active = 0, !.recorded = FALSE]
  <2>1. /\ corrections' = corrections /\ mem.state = REVIEW_CORRECTION_RUNNING
        /\ pc = "route"
    BY <1>6 DEF RouteCorrection, history
  <2>2. \/ Raise("inv") /\ UNCHANGED art
        \/ art.turn.ok /\ Persist(m, "loop", "except") /\ LeaveTurn
    BY <1>6 DEF RouteCorrection
  <2>3. CASE Raise("inv") /\ UNCHANGED art BY <1>0, <2>1, <2>3, RaiseTurn
  <2>4. CASE art.turn.ok /\ Persist(m, "loop", "except") /\ LeaveTurn
    <3>1. /\ r \in Correction /\ r.on /\ r.started = mem.corr.started
          /\ r.completed = mem.corr.completed + 1 /\ r.pending = 0
      <4>1. mem.corr.completed + 1 \in Nat BY <1>1
      <4> QED BY <1>1, <1>3, <4>1 DEF Correction
    <3> HIDE DEF r
    <3>2. /\ m.state = REVIEW_COMPLETED /\ m.instr = art.turn
          /\ m.exec = mem.exec /\ m.ta = mem.ta /\ m.tb = mem.tb
          /\ m.cycle = mem.cycle /\ m.corr = r /\ m.plan = mem.plan
      BY <1>1 DEF Checkpoint
    <3>3. m \in Checkpoint
      <4>1. art.turn \in Turn BY DEF TypeInv, TurnsTyped, Artifacts
      <4> QED BY <1>1, <3>1, <4>1 DEF Checkpoint, States, Working
    <3> HIDE DEF m
    <3>4. art.turn.head = mem.ta
      <4>1. art.st # "none" BY <2>1 DEF TurnInv, WhereOK, InTurn
      <4> QED BY <1>1, <2>1, <4>1
              DEF TurnInv, ArtOK, SameTarget, FirstStates, InstructionStates
    <3>5. InstructionSound(m) /\ AuditSound(m, tgt.head, irregular)
      BY <1>3, <3>2, <3>4 DEF InstructionSound, AuditSound, HistoryAudited
    <3>6. CorrectionSound(m)
      <4>1. mem.corr.started = mem.corr.completed + 1
        BY <1>1, <1>3, <2>1 DEF Sound, CorrectionSound
      <4> QED BY <1>1, <1>3, <3>1, <3>2, <4>1
              DEF CorrectionSound, Counted, ReviewedStates,
                  MAX_REVIEW_CORRECTION_ATTEMPTS
    <3>7. CycleSound(m, tgt.head, effect)
      BY <1>1, <3>2 DEF Sound, CycleSound, FirstStates, InstructionStates
    <3>8. Sound(m, tgt.head, irregular, effect) BY <3>5, <3>6, <3>7 DEF Sound
    <3>9. TurnLeft BY <2>4 DEF LeaveTurn, TurnLeft, NoArt
    <3>10. corrections <= r.completed
      BY <1>0, <1>1, <1>2, <1>3, <3>1, CountFacts
    <3> QED BY <1>0, <1>3, <2>1, <2>4, <3>2, <3>3, <3>8, <3>9, <3>10, SaveStep
  <2> QED BY <2>2, <2>3, <2>4
<1> QED BY <1>4, <1>5, <1>6 DEF Correcting

-----------------------------------------------------------------------------

\* The Runtime transition touches no turn.
LEMMA TurnAccepting == TypeInv /\ LedgerInv /\ TurnInv /\ Accepting => TurnInv'
<1> SUFFICES ASSUME TypeInv, LedgerInv, TurnInv, Accepting PROVE TurnInv'
  OBVIOUS
<1>0. /\ pc \in Stepping /\ UNCHANGED <<art, bound, corrections>>
      /\ mem.state \in Transition
  BY StateFacts
  DEF Accepting, ReconcileRuntime, ReplaceRuntime, MarkApplied, Stepping, turns,
      target, history, bound, LedgerInv, PlaceOK
<1>1. CASE ReconcileRuntime \/ ReplaceRuntime
  <2>1. UNCHANGED <<ck, mem>> /\ pc' \in {"replace", "replaced", "except"}
    BY <1>1 DEF ReconcileRuntime, ReplaceRuntime, Goto, Raise
  <2>2. WhereOK' BY <2>1 DEF WhereOK, InTurn, Audited
  <2> QED BY <1>0, <2>1, <2>2, CalmTurn
<1>2. CASE MarkApplied
  <2> DEFINE o == [state |-> RUNTIME_TRANSITION_COMMITTED, exit |-> 0]
             m == [Applied EXCEPT !.state = RUNTIME_TRANSITION_COMMITTED,
                                  !.outcome = o]
  <2>1. Persist(m, "finish", "except") BY <1>2 DEF MarkApplied, ReachOutcome
  <2>2. mem \in Checkpoint /\ Sound(mem, tgt.head, irregular, effect)
    BY <1>0, BranchFacts
  <2>3. /\ m.state = RUNTIME_TRANSITION_COMMITTED /\ m.cycle = mem.cycle
        /\ m.instr = mem.instr /\ m.exec = mem.exec /\ m.tb = mem.tb
        /\ m.corr = mem.corr /\ m.plan = mem.plan /\ m.ta = mem.ta
    BY <2>2 DEF Applied, Checkpoint
  <2>4. m \in Checkpoint
    <3>1. o \in Outcomes BY DEF Outcomes
    <3> HIDE DEF o
    <3> QED BY <2>2, <3>1 DEF Applied, Checkpoint, States, Transition
  <2> HIDE DEF m
  <2>5. m.state \notin Working BY <2>3 DEF Working
  <2>6. Sound(m, tgt.head, irregular, effect)
    BY <2>2, <2>3, <2>5, StoppedSound
  <2>7. corrections <= MAX_REVIEW_CORRECTION_ATTEMPTS BY <1>0, CountFacts
  <2>8. art.st = "none"
    BY <1>0, BranchFacts, TurnStateFacts, StateFacts
  <2>9. TurnLeft BY <1>0, <2>8 DEF TurnLeft
  <2> QED BY <1>0, <2>1, <2>4, <2>5, <2>6, <2>7, <2>9, SaveStep
<1> QED BY <1>1, <1>2 DEF Accepting

\* finish_evidence runs on a checkpoint that is no longer a working one.
LEMMA TurnPublishing == TypeInv /\ LedgerInv /\ TurnInv /\ Publishing => TurnInv'
<1> SUFFICES ASSUME TypeInv, LedgerInv, TurnInv, Publishing PROVE TurnInv'
  OBVIOUS
<1>0. /\ pc \in Finishing /\ UNCHANGED <<art, bound, corrections>>
  BY DEF Publishing, BeginFinish, PlanCommit, MakeCommit, NoteCommit, Push,
         EndFinish, turns, target, history, bound
<1>1. /\ mem = ck /\ mem.state \notin Working /\ mem \in Checkpoint
  BY <1>0 DEF LedgerInv, MemoryOK, PlaceOK, TypeInv, ControlTyped
<1>2. TurnLeft
  <2>1. art.st = "none"
    BY <1>1, TurnStateFacts DEF TurnInv, ArtOK, TurnStates
  <2> QED BY <1>0, <2>1 DEF TurnLeft
<1>3. ASSUME NEW m, SameTurns([m EXCEPT !.state = mem.state], mem),
             m.state \notin Working, m \in Checkpoint, FinishPersist(m)
      PROVE  TurnInv'
  <2>1. /\ m.cycle = mem.cycle /\ m.instr = mem.instr /\ m.exec = mem.exec
        /\ m.tb = mem.tb /\ m.ta = mem.ta /\ m.corr = mem.corr
        /\ m.plan = mem.plan
    BY <1>3 DEF SameTurns, Checkpoint
  <2>2. Sound(m, tgt.head, irregular, effect)
    BY <1>3, <2>1, StoppedSound DEF TurnInv, SoundOK
  <2>3. ck' \in {ck, m} /\ mem' \in {ck', m} /\ pc' \in {pc, "except", "exceptX",
                                                        "down"}
        /\ (pc' = "exceptX" => mem' = m)
    BY <1>0, <1>3 DEF FinishPersist, Persist, Finishing
  <2>4. pc' \notin Stepping BY <1>0, <2>3 DEF Stepping, Finishing
  <2> QED BY <1>0, <1>2, <1>3, <2>2, <2>3, <2>4, StopTurn
<1>4. ASSUME NEW kind, FinishError(kind) PROVE TurnInv'
  <2>1. ck' = ck /\ mem' = mem /\ pc' \in {"except", "exceptX", "down"}
    BY <1>1, <1>4 DEF FinishError
  <2>2. Sound(mem, tgt.head, irregular, effect) BY DEF TurnInv, SoundOK
  <2> QED BY <1>0, <1>1, <1>2, <2>1, <2>2, StopTurn DEF Stepping
<1>5. ASSUME UNCHANGED <<ck, mem, pc>> PROVE TurnInv'
  <2>1. WhereOK' BY <1>0, <1>5 DEF TurnInv, WhereOK, InTurn, Audited, Finishing
  <2> QED BY <1>0, <1>1, <1>5, <2>1, CalmTurn
<1>6. ASSUME NEW s \in Finalizing, FinishPersist([mem EXCEPT !.state = s])
      PROVE  TurnInv'
  <2> DEFINE m == [mem EXCEPT !.state = s]
  <2>1. m \in Checkpoint /\ m.state = s BY <1>1, <1>6 DEF Checkpoint, States
  <2>2. SameTurns([m EXCEPT !.state = mem.state], mem)
    BY <1>1 DEF SameTurns, Checkpoint
  <2> HIDE DEF m
  <2>3. s \notin Working BY StateFacts
  <2> QED BY <1>3, <1>6, <2>1, <2>2, <2>3 DEF m
<1>7. ASSUME FinishPersist([mem EXCEPT !.pub = WorkingTree]) PROVE TurnInv'
  <2> DEFINE m == [mem EXCEPT !.pub = WorkingTree]
  <2>1. WorkingTree \in Contents
    BY DEF WorkingTree, Contents, TypeInv, WorldTyped
  <2>2. m \in Checkpoint /\ m.state = mem.state
    BY <1>1, <2>1 DEF Checkpoint
  <2>3. SameTurns([m EXCEPT !.state = mem.state], mem)
    BY <1>1 DEF SameTurns, Checkpoint
  <2> HIDE DEF m
  <2> QED BY <1>1, <1>3, <1>7, <2>2, <2>3 DEF m
<1>8. {EVIDENCE_FINALIZATION_PENDING, FRAMEWORK_EVIDENCE_COMMITTED,
       FRAMEWORK_EVIDENCE_PUSHED} \subseteq Finalizing
  BY DEF Finalizing
<1>9. CASE BeginFinish BY <1>4, <1>6, <1>8, <1>9 DEF BeginFinish
<1>10. CASE PlanCommit BY <1>4, <1>7, <1>10 DEF PlanCommit
<1>11. CASE MakeCommit BY <1>4, <1>5, <1>11 DEF MakeCommit
<1>12. CASE NoteCommit BY <1>4, <1>6, <1>8, <1>12 DEF NoteCommit
<1>13. CASE Push BY <1>4, <1>5, <1>6, <1>8, <1>13 DEF Push
<1>14. CASE EndFinish
  <2>1. CASE FinishError("inv") BY <1>4, <2>1
  <2>2. CASE pc' = "down" /\ mem' = ck /\ UNCHANGED ck
    <3>1. WhereOK' BY <2>2 DEF WhereOK, InTurn, Audited
    <3> QED BY <1>0, <1>1, <2>2, <3>1, CalmTurn DEF Stepping
  <2> QED BY <1>14, <2>1, <2>2 DEF EndFinish
<1> QED BY <1>9, <1>10, <1>11, <1>12, <1>13, <1>14 DEF Publishing

\* The handler leaves the turn and the working states.
LEMMA TurnHandling == TypeInv /\ LedgerInv /\ TurnInv /\ Handling => TurnInv'
<1> SUFFICES ASSUME TypeInv, LedgerInv, TurnInv, Handling PROVE TurnInv'
  OBVIOUS
<1>0. /\ UNCHANGED <<bound, corrections>> /\ TurnLeft
  BY DEF Handling, HandleFailure, HandleFailureOfHandler, target, history, bound,
         LeaveTurn, TurnLeft, NoArt
<1>1. mem \in Checkpoint /\ Sound(mem, tgt.head, irregular, effect)
  BY DEF TypeInv, ControlTyped, TurnInv, SoundOK
<1>2. CASE HandleFailure
  <2> DEFINE m == [mem EXCEPT !.active = 0]
             u == [m EXCEPT !.outcome = [state |-> "UNDETERMINED", exit |-> 1]]
  <2>1. /\ SameTurns(m, mem) /\ SameTurns(u, mem)
    BY <1>1 DEF SameTurns, Checkpoint
  <2>2. ASSUME NEW d \in {HUMAN_GATE, FAILED_CLOSED},
               ReachOutcome(m, d, 1, "finishX", "exceptX")
        PROVE  TurnInv'
    <3> DEFINE n == [m EXCEPT !.state = d,
                              !.outcome = [state |-> d, exit |-> 1]]
    <3>1. /\ n.state = d /\ n.cycle = mem.cycle /\ n.instr = mem.instr
          /\ n.exec = mem.exec /\ n.tb = mem.tb /\ n.corr = mem.corr
          /\ n.plan = mem.plan /\ n.ta = mem.ta
      BY <1>1 DEF Checkpoint
    <3>2. /\ mem' = n /\ ck' \in {ck, n} /\ pc' \in {"finishX", "exceptX"}
      BY <2>2 DEF ReachOutcome, Persist
    <3> HIDE DEF n
    <3>3. n.state \notin Working BY <2>2, <3>1 DEF Working
    <3>4. Sound(n, tgt.head, irregular, effect)
      BY <1>1, <3>1, <3>3, StoppedSound
    <3> QED BY <1>0, <3>2, <3>3, <3>4, StopTurn DEF Stepping
  <2> HIDE DEF m, u
  <2>3. ASSUME NEW d \in {m, u}, Persist(d, "down", "down"),
               mem.state \in Transition \cup Finalizing
        PROVE  TurnInv'
    <3>1. d.state \notin Working /\ Sound(d, tgt.head, irregular, effect)
      BY <1>1, <2>1, <2>3, StateFacts, SameSound DEF SameTurns
    <3>2. ck' \in {ck, d} /\ mem' = ck' /\ pc' = "down" BY <2>3 DEF Persist
    <3> QED BY <1>0, <3>1, <3>2, StopTurn DEF Stepping
  <2> QED BY <1>2, <2>2, <2>3
          DEF HandleFailure, InterruptedPublication, InterruptedTransition, m, u
<1>3. CASE HandleFailureOfHandler
  <2>1. ck' \in {ck, mem} /\ mem' = ck' /\ pc' = "down"
    BY <1>3 DEF HandleFailureOfHandler, Persist
  <2>2. mem.state \notin Working
    BY <1>3 DEF HandleFailureOfHandler, TurnInv, WhereOK
  <2> QED BY <1>0, <1>1, <2>1, <2>2, StopTurn DEF Stepping
<1> QED BY <1>2, <1>3 DEF Handling

\* A crash and an I/O error leave the turn of the checkpoint on disk.
LEMMA TurnMishap == TypeInv /\ LedgerInv /\ TurnInv /\ Mishap => TurnInv'
<1> SUFFICES ASSUME TypeInv, LedgerInv, TurnInv, Mishap PROVE TurnInv'
  OBVIOUS
<1>0. UNCHANGED <<ck, bound, corrections>>
  BY DEF Mishap, Crash, IOError, FinishIOError, FinishError, EventLost, LateEvent,
         target, history, bound
<1>1. CASE FinishIOError
  <2>1. /\ mem' = mem /\ pc' \in {"except", "exceptX", "down"} /\ art' = art
        /\ mem.state \notin Working
    BY <1>1
    DEF FinishIOError, FinishError, LedgerInv, MemoryOK, PlaceOK, turns
  <2>2. WhereOK' BY <2>1 DEF WhereOK, InTurn, Audited
  <2> QED BY <1>0, <2>1, <2>2, CalmTurn DEF Stepping
<1>2. CASE Crash \/ IOError
  <2>1. /\ mem' \in {mem, ck} /\ pc' \in {"down", "except"}
    BY <1>2 DEF Crash, IOError
  <2>2. art'.turn = art.turn /\ (art'.st = "none" <=> art.st = "none")
    BY <1>2, CutTurn DEF Crash, IOError
  <2>3. SoundOK' BY <1>0, <2>1 DEF TurnInv, SoundOK, bound
  <2>4. Agreed' BY <2>1 DEF Agreed, Stepping
  <2>5. ArtOK' BY <1>0, <2>2 DEF TurnInv, ArtOK, bound
  <2>6. WhereOK' BY <2>1 DEF WhereOK, InTurn, Audited
  <2>7. CountOK' BY <1>0, <2>2 DEF TurnInv, CountOK, RunningTurn
  <2> QED BY <2>3, <2>4, <2>5, <2>6, <2>7 DEF TurnInv
<1>3. CASE EventLost \/ LateEvent
  <2>1. UNCHANGED <<mem, pc, art>> BY <1>3 DEF EventLost, LateEvent, turns
  <2>2. UNCHANGED <<irregular, tgt, gov, rt, evid, effect>>
    BY <1>3 DEF EventLost, LateEvent, target, docs, history
  <2>3. WhereOK' BY <2>1, <2>2 DEF TurnInv, WhereOK
  <2> QED BY <1>0, <2>1, <2>3, CalmTurn
<1> QED BY <1>1, <1>2, <1>3 DEF Mishap

\* A run is resumed only with an instruction that loads.
LEMMA TurnResume == TypeInv /\ LedgerInv /\ TurnInv /\ Resume => TurnInv'
<1> SUFFICES ASSUME TypeInv, LedgerInv, TurnInv, Resume PROVE TurnInv'
  OBVIOUS
<1>1. UNCHANGED <<ck, mem, art, bound, corrections>>
  BY DEF Resume, turns, target, history, bound
<1>2. mem = ck BY DEF Resume, LedgerInv, MemoryOK, Reloaded
<1>3. /\ pc' \in {"reconcile", "finishR", "loop"}
      /\ pc' = "loop" => ReferencesLoad
  BY DEF Resume, ResumePoint
<1>4. mem.state = INSTRUCTION_READY => Instructs(mem)
  BY DEF TurnInv, SoundOK, Sound, InstructionSound
<1>5. pc' = "loop" /\ mem'.state = INSTRUCTION_READY => mem'.instr.ok
  BY <1>1, <1>3, <1>4 DEF ReferencesLoad, Instructs
<1>6. WhereOK' BY <1>3, <1>5 DEF WhereOK, InTurn, Audited
<1> QED BY <1>1, <1>2, <1>6, CalmTurn

\* Executors, orphans and Humans make new heads, spoiled ones too; a head that
\* was audited stays what it was.
LEMMA TurnEnvironment == TypeInv /\ TurnInv /\ Environment => TurnInv'
<1> SUFFICES ASSUME TypeInv, TurnInv, Environment PROVE TurnInv' OBVIOUS
<1>1. UNCHANGED <<ck, mem, pc, art, corrections, effect>>
  BY DEF Environment, ExecutorCommits, ExecutorEditsFiles, OrphanExits,
         HumanCleans, Intervene, OutsideProgram, history
<1>2. /\ tgt \in [head: Nat, clean: BOOLEAN] /\ irregular \subseteq Nat
      /\ ck \in Checkpoint /\ mem \in Checkpoint
  BY DEF TypeInv, WorldTyped, ControlTyped
<1>3. /\ tgt'.head \in Nat /\ tgt.head <= tgt'.head
      /\ irregular' \subseteq irregular \cup {tgt.head + 1}
  <2> USE DEF target, NextHead
  <2>1. CASE ExecutorCommits BY <1>2, <2>1 DEF ExecutorCommits
  <2>2. CASE ExecutorEditsFiles BY <1>2, <2>2 DEF ExecutorEditsFiles
  <2>3. CASE OrphanExits BY <1>2, <2>3 DEF OrphanExits
  <2>4. CASE HumanCleans BY <1>2, <2>4 DEF HumanCleans
  <2>5. CASE Intervene
    <3>1. tgt' \in {tgt, NextHead} BY <2>5 DEF Intervene
    <3> QED BY <1>2, <2>5, <3>1 DEF Intervene
  <2> QED BY <2>1, <2>2, <2>3, <2>4, <2>5 DEF Environment
<1>4. SoundOK'
  <2>1. /\ \A i \in irregular' : i \in irregular \/ i > tgt.head
        /\ irregular' \subseteq Nat /\ tgt.head \in Nat
    BY <1>2, <1>3
  <2>2. ASSUME NEW c \in Checkpoint, Sound(c, tgt.head, irregular, effect)
        PROVE  Sound(c, tgt'.head, irregular', effect)
    BY <1>3, <2>1, <2>2, GrownSound
  <2> QED BY <1>1, <1>2, <2>2 DEF TurnInv, SoundOK
<1>5. Agreed' BY <1>1 DEF TurnInv, Agreed, SameTarget
<1>6. ArtOK'
  <2>1. art.turn.head \in Nat BY DEF TypeInv, TurnsTyped, Artifacts, Turn
  <2> QED BY <1>1, <1>2, <1>3, <2>1 DEF TurnInv, ArtOK
<1>7. WhereOK' BY <1>1 DEF TurnInv, WhereOK
<1>8. CountOK' BY <1>1 DEF TurnInv, CountOK, RunningTurn
<1> QED BY <1>4, <1>5, <1>6, <1>7, <1>8 DEF TurnInv

-----------------------------------------------------------------------------

\* The invariant of the turns is inductive together with that of the ledger.
THEOREM TurnsCorrect == Spec => [](Inv /\ TurnInv)
<1>1. Init => TurnInv BY TurnInit
<1>2. Inv /\ TurnInv /\ [Next]_vars => TurnInv'
  <2>1. Inv /\ TurnInv /\ Next => TurnInv'
    BY TurnTurns, TurnInstructing, TurnExecuting, TurnReview, TurnVerdict,
       TurnCorrecting, TurnAccepting, TurnPublishing, TurnHandling, TurnResume,
       TurnMishap, TurnEnvironment
    DEF Inv, Next, Program, Reviewing
  <2>2. Inv /\ TurnInv /\ UNCHANGED vars => TurnInv'
    BY DEF vars, turns, target, history, TurnInv, SoundOK, Agreed, SameTarget,
           ArtOK, WhereOK, CountOK, RunningTurn
  <2> QED BY <2>1, <2>2
<1> QED BY <1>1, <1>2, LedgerCorrect, PTL DEF Spec

\* Behind a written Runtime stands an ACCEPT of exactly the head that passed
\* the audit of the Executor turn (audit_executor_history, validate_accept),
\* however many cycles, corrections, crashes and faults came before.
THEOREM AcceptedWhatWasAuditedHolds == Spec => []AcceptedWhatWasAudited
<1>1. Inv /\ TurnInv => AcceptedWhatWasAudited
  <2> SUFFICES ASSUME Inv, TurnInv, rt > 0
               PROVE  /\ ck.instr.kind = "ACCEPT" /\ ck.instr.declared
                      /\ ck.instr.head = ck.ta /\ ck.exec.head = ck.ta
                      /\ irregular \cap (ck.tb + 1) .. ck.ta = {}
    BY DEF AcceptedWhatWasAudited
  <2>1. ck.plan.id > 0 BY DEF Inv, LedgerInv, WrittenOK
  <2> QED BY <2>1 DEF TurnInv, SoundOK, Sound, AuditSound, HistoryAudited
<1> QED BY <1>1, TurnsCorrect, PTL

\* No cycle launches a third correction turn, over any number of restarts
\* between the plan, the launch, the audit and the record of an attempt.
THEOREM CorrectionBudgetHolds == Spec => []CorrectionBudget
<1>1. TurnInv => CorrectionBudget BY DEF TurnInv, CountOK, CorrectionBudget
<1> QED BY <1>1, TurnsCorrect, PTL

\* Every correction record that reaches the disk is one the next process
\* accepts (validate_verdict_correction_record).
THEOREM CorrectionRecordValidHolds == Spec => []CorrectionRecordValid
<1>1. Inv /\ TurnInv => CorrectionRecordValid
  <2>1. Inv => ck.corr.completed \in Nat
    BY DEF Inv, TypeInv, ControlTyped, Checkpoint, Correction
  <2> QED BY <2>1
          DEF TurnInv, SoundOK, Sound, CorrectionSound, Counted, ReviewedStates,
              CorrectionRecordValid
<1> QED BY <1>1, TurnsCorrect, PTL

\* No Executor is launched in a cycle whose Executor ended with a moved target,
\* whoever resumes and whatever evidence is left (orchestrate refuses to replay
\* an ambiguous effect).
THEOREM NoReplayAfterEffectHolds == Spec => NoReplayAfterEffect
<1>1. TurnInv => (LaunchExecutor /\ StartExecutor => mem.cycle \notin effect)
  BY DEF TurnInv, WhereOK, LaunchExecutor
<1> QED BY <1>1, TurnsCorrect, PTL DEF NoReplayAfterEffect

\* An Executor runs only on an instruction that loads, that was given for the
\* head the cycle begins with, and for the governance bytes it meets
\* (ensure_instruction_fresh, authorize_executor_launch).
THEOREM InstructionIsCurrentHolds == Spec => InstructionIsCurrent
<1> DEFINE Current == /\ mem.instr.ok /\ mem.instr.kind \in {"instruction", "REJECT"}
                      /\ mem.instr.head = mem.tb
                      /\ mem.instr.gov = gov /\ mem.instr.rt = rt
<1>1. Inv /\ TurnInv => (LaunchExecutor /\ StartExecutor => Current)
  <2> SUFFICES ASSUME TurnInv, LaunchExecutor, StartExecutor PROVE Current
    OBVIOUS
  <2>1. mem.state = EXECUTOR_RUNNING BY DEF LaunchExecutor
  <2>2. /\ Instructs(mem) /\ mem.instr.ok /\ mem.instr.head = mem.tb
    BY <2>1 DEF TurnInv, SoundOK, Sound, InstructionSound
  <2>3. KnowsDocs BY DEF LaunchExecutor, StartExecutor, Raise, Goto
  <2>4. mem.rev = FromTurn(mem.instr) BY <2>2 DEF Instructs
  <2> QED BY <2>2, <2>3, <2>4 DEF Instructs, KnowsDocs, FromTurn
<1> QED BY <1>1, TurnsCorrect, PTL DEF InstructionIsCurrent

-----------------------------------------------------------------------------
(***************************************************************************)
(* Which checkpoints a process can be resumed on.  Both of them always     *)
(* are: a branch that fails raises before the state moves on, hence only a *)
(* ready instruction may not load ("Loads"); a summary entry is pending on *)
(* disk whenever the file is ahead of it ("Fits", EntryOK); a plan is made *)
(* of the Runtime the run started from, and whoever changes the documents  *)
(* uses up an intervention ("LeftAlone").                                  *)
(***************************************************************************)

\* The entries of the tracked summary, n of them, are those of checkpoint c.
Fits(c, n) == n = c.entries \/ (c.pending /\ n = c.entries + 1)

\* The references of c load, where they are read and no refresh failed.
Unread == Finalized \cup {INSTRUCTION_READY}
Loads(c) == c.state \in Unread \/ (c.instr.kind # "none" => c.instr.ok)

\* The state that ended the run is the outcome reported.
StopSaid(c) == c.state \in {HUMAN_GATE, FAILED_CLOSED} => c.outcome.state = c.state

\* A checkpoint a process can be resumed on; e: the interventions left.
Recoverable(c, n, e) == /\ Fits(c, n) /\ Loads(c) /\ StopSaid(c)
                        /\ e = MaxEdits => c.plan.pre = Pre

\* Where an entry is on its way to the summary: the disk says so too.
Entering == {"append", "reconcile", "appended", "reconciled"}
EntryOK ==
  /\ pc \in Entering => mem.pending /\ ck.pending /\ mem.entries = ck.entries
  /\ pc \in {"appended", "reconciled"} => summary.n = mem.entries + 1

\* With no intervention, the documents and the summary are the program's own.
LeftAlone ==
  /\ edits <= MaxEdits
  /\ edits = MaxEdits => gov = 0 /\ rt \in {Pre} \cup written /\ summary.intact

ResumeInv == /\ Recoverable(ck, summary.n, edits)
             /\ Recoverable(mem, summary.n, edits)
             /\ EntryOK /\ LeftAlone

\* A step whose checkpoints can be resumed on, and that leaves the world alone.
LEMMA KeepStep ==
  ASSUME ResumeInv, pc' \notin Entering,
         ck' = ck \/ Recoverable(ck', summary.n, edits),
         mem' \in {mem, ck, ck'} \/ Recoverable(mem', summary.n, edits),
         UNCHANGED <<edits, gov>>, rt' \in {rt, Pre} \cup written',
         written \subseteq written',
         summary'.n = summary.n, summary'.intact = summary.intact
  PROVE  ResumeInv'
<1>1. EntryOK' BY DEF EntryOK, Entering
<1>2. LeftAlone' BY DEF ResumeInv, LeftAlone
<1>3. Recoverable(ck, summary.n, edits)' BY DEF ResumeInv
<1>4. Recoverable(mem, summary.n, edits)' BY <1>3 DEF ResumeInv
<1> QED BY <1>1, <1>2, <1>3, <1>4 DEF ResumeInv

\* The fields of the summary and the plan are those of c.
Alike(d, c) == d.entries = c.entries /\ d.pending = c.pending /\ d.plan = c.plan

\* A checkpoint that moves on is as resumable, when its references load.
LEMMA AlikeRecoverable ==
  ASSUME NEW c, NEW d, NEW n, NEW e, Recoverable(c, n, e), Alike(d, c),
         Loads(d), StopSaid(d)
  PROVE  Recoverable(d, n, e)
BY DEF Alike, Recoverable, Fits

\* A branch, or finish_evidence, saves a resumable checkpoint.
LEMMA SaveKeeps ==
  ASSUME ResumeInv, NEW m, NEW next, NEW fail, Persist(m, next, fail),
         next \notin Entering, fail \notin Entering,
         Recoverable(m, summary.n, edits), UNCHANGED <<docs, written, summary>>
  PROVE  ResumeInv'
<1>1. /\ ck' \in {ck, m} /\ mem' \in {ck', m} /\ pc' \in {next, fail}
      /\ edits' = edits
  BY DEF Persist, budgets
<1> QED BY <1>1, KeepStep DEF docs

\* An exception, and the next effect.
LEMMA CalmKeeps ==
  ASSUME ResumeInv, UNCHANGED <<ck, mem, edits, docs, written, summary>>,
         pc' \notin Entering
  PROVE  ResumeInv'
BY KeepStep DEF docs

\* A working checkpoint moves to another state: its instruction loads, unless it
\* stands ready.
LEMMA WorkKeeps ==
  ASSUME TypeInv, LedgerInv, TurnInv, ResumeInv, pc \in Stepping, NEW m,
         NEW next, next \notin Entering, Persist(m, next, "except"), Alike(m, mem),
         m.state \notin {HUMAN_GATE, FAILED_CLOSED},
         \/ m.state \in Unread \/ m.instr.ok
         \/ m.instr = mem.instr /\ mem.state \notin {INSTRUCTION_READY},
         UNCHANGED <<docs, written, summary>>
  PROVE  ResumeInv'
<1>1. mem.state \notin Finalized
  BY StateFacts DEF LedgerInv, MemoryOK
<1>2. Loads(m)
  BY <1>1 DEF ResumeInv, Recoverable, Loads, Unread
<1>3. Recoverable(m, summary.n, edits)
  BY <1>2, AlikeRecoverable DEF ResumeInv, StopSaid
<1> QED BY <1>3, SaveKeeps DEF Entering

\* An outcome is saved.
LEMMA OutcomeKeeps ==
  ASSUME ResumeInv, NEW m \in Checkpoint, Alike(m, mem),
         NEW d \in {HUMAN_GATE, FAILED_CLOSED}, NEW code,
         NEW next, NEW fail, next \notin Entering, fail \notin Entering,
         ReachOutcome(m, d, code, next, fail),
         UNCHANGED <<docs, written, summary>>
  PROVE  ResumeInv'
<1> DEFINE n == [m EXCEPT !.state = d,
                          !.outcome = [state |-> d, exit |-> code]]
<1>1. n.state = d /\ n.outcome.state = d /\ Alike(n, mem)
  BY DEF Checkpoint, Alike
<1>2. Persist(n, next, fail) BY DEF ReachOutcome
<1> HIDE DEF n
<1>3. Loads(n) /\ StopSaid(n)
  BY <1>1 DEF Loads, StopSaid, Unread, Finalized
<1>4. Recoverable(n, summary.n, edits) BY <1>1, <1>3, AlikeRecoverable DEF ResumeInv
<1> QED BY <1>2, <1>4, SaveKeeps

\* A new run can be resumed.
LEMMA ResumeInit == Init => ResumeInv
<1> SUFFICES ASSUME Init PROVE ResumeInv OBVIOUS
<1>1. Recoverable(ck, summary.n, edits) /\ mem = ck
  BY DEF Init, FirstCheckpoint, Recoverable, Fits, Loads, StopSaid, NoTurn
<1>2. EntryOK /\ LeftAlone
  BY ConstantsAssumption DEF Init, EntryOK, Entering, LeftAlone
<1> QED BY <1>1, <1>2 DEF ResumeInv

\* A recovered turn is taken up: memory changes in what a Reviewer knows.
LEMMA RecoverKeeps ==
  ASSUME ResumeInv, mem' = [mem EXCEPT !.rev = FromTurn(art.turn)],
         mem \in Checkpoint, pc' = "summary",
         UNCHANGED <<ck, edits, docs, written, summary>>
  PROVE  ResumeInv'
<1>1. /\ Alike(mem', mem) /\ mem'.state = mem.state /\ mem'.instr = mem.instr
      /\ mem'.outcome = mem.outcome
  BY DEF Alike, Checkpoint
<1>2. Loads(mem') /\ StopSaid(mem')
  BY <1>1 DEF ResumeInv, Recoverable, Loads, StopSaid
<1>3. Recoverable(mem', summary.n, edits)
  BY <1>1, <1>2, AlikeRecoverable DEF ResumeInv
<1> QED BY <1>3, KeepStep DEF Entering, docs

\* The end of a turn, its audit, and its entry: planned, written, noted.
LEMMA ResumeTurns ==
  TypeInv /\ LedgerInv /\ TurnInv /\ ResumeInv /\ Turns => ResumeInv'
<1> SUFFICES ASSUME TypeInv, LedgerInv, TurnInv, ResumeInv, Turns
             PROVE  ResumeInv'
  OBVIOUS
<1> USE DEF history
<1>0. /\ mem \in Checkpoint /\ ck \in Checkpoint
      /\ summary \in [n: Nat, intact: BOOLEAN, cited: BOOLEAN]
  BY DEF TypeInv, ControlTyped, WorldTyped
<1>1. CASE TurnExits
  BY <1>1, CalmKeeps DEF TurnExits, Goto, Entering, budgets
<1>2. CASE AuditReviewer
  <2>1. /\ Alike(mem', mem) /\ mem'.state = mem.state
        /\ mem'.outcome = mem.outcome
        /\ mem.state # INSTRUCTION_READY => mem'.instr = mem.instr
    BY <1>0, <1>2 DEF AuditReviewer, Alike, Checkpoint
  <2>2. Loads(mem') /\ StopSaid(mem')
    BY <2>1 DEF ResumeInv, Recoverable, Loads, StopSaid, Unread
  <2>3. Recoverable(mem', summary.n, edits)
    BY <2>1, <2>2, AlikeRecoverable DEF ResumeInv
  <2> QED BY <1>2, <2>3, KeepStep DEF AuditReviewer, Entering, docs, budgets
<1>3. CASE CaptureExecutor
  <2>1. summary'.n = summary.n /\ summary'.intact = summary.intact
    BY <1>0, <1>3 DEF CaptureExecutor
  <2> QED BY <1>3, <2>1, KeepStep
          DEF CaptureExecutor, Goto, Entering, docs, budgets
<1>4. CASE PlanSummary
  <2> DEFINE m == [mem EXCEPT !.pending = TRUE]
  <2>1. CASE Raise("inv") \/ Goto("route")
    BY <1>4, <2>1, CalmKeeps DEF PlanSummary, Raise, Goto, Entering, budgets
  <2>2. CASE SummaryValid /\ Persist(m, "append", "except")
    <3>1. /\ m.entries = mem.entries /\ m.pending /\ m.plan = mem.plan
          /\ m.state = mem.state /\ m.instr = mem.instr
          /\ m.outcome = mem.outcome
      BY <1>0 DEF Checkpoint
    <3>2. summary.n = m.entries BY <2>2, <3>1 DEF SummaryValid
    <3> HIDE DEF m
    <3>3. Recoverable(m, summary.n, edits)
      BY <3>1, <3>2 DEF ResumeInv, Recoverable, Fits, Loads, StopSaid
    <3>4. /\ ck' \in {ck, m} /\ mem' = m /\ pc' \in {"append", "except"}
          /\ pc' = "append" => ck' = m
          /\ edits' = edits /\ UNCHANGED <<docs, written, summary>>
      BY <1>4, <2>2 DEF PlanSummary, Persist, budgets
    <3>5. Recoverable(ck, summary.n, edits)' /\ Recoverable(mem, summary.n, edits)'
      BY <3>3, <3>4 DEF ResumeInv
    <3>6. EntryOK' BY <3>1, <3>4 DEF EntryOK, Entering
    <3>7. LeftAlone' BY <3>4 DEF ResumeInv, LeftAlone, docs
    <3> QED BY <3>5, <3>6, <3>7 DEF ResumeInv
  <2> QED BY <1>4, <2>1, <2>2 DEF PlanSummary
<1>5. CASE AppendSummary
  <2>1. CASE summary' = summary /\ pc' \notin Entering
    BY <1>5, <2>1, CalmKeeps DEF AppendSummary, Raise, Goto, budgets
  <2>2. CASE /\ SummaryReconcilable
             /\ summary' = [summary EXCEPT !.n = mem.entries + 1]
             /\ Goto(IF pc = "append" THEN "appended" ELSE "reconciled")
    <3>1. mem.pending /\ ck.pending /\ mem.entries = ck.entries
      BY <1>5 DEF AppendSummary, ResumeInv, EntryOK, Entering
    <3>2. /\ UNCHANGED <<ck, mem, edits, docs, written>>
          /\ summary'.n = mem.entries + 1 /\ summary'.intact = summary.intact
          /\ pc' \in {"appended", "reconciled"}
      BY <1>0, <1>5, <2>2 DEF AppendSummary, Goto, budgets
    <3>3. Recoverable(ck, summary.n, edits)' /\ Recoverable(mem, summary.n, edits)'
      BY <3>1, <3>2 DEF ResumeInv, Recoverable, Fits
    <3>4. EntryOK' BY <3>1, <3>2 DEF EntryOK
    <3>5. LeftAlone' BY <3>2 DEF ResumeInv, LeftAlone, docs
    <3> QED BY <3>3, <3>4, <3>5 DEF ResumeInv
  <2> QED BY <1>5, <2>1, <2>2 DEF AppendSummary, Raise, Goto, Entering
<1>6. CASE NoteSummary
  <2> DEFINE m == [mem EXCEPT !.entries = @ + 1, !.pending = FALSE,
                              !.recorded = TRUE]
             next == IF pc = "appended" THEN "route" ELSE ResumePoint
             fail == IF pc = "appended" THEN "except" ELSE "down"
  <2>1. /\ m.entries = mem.entries + 1 /\ m.plan = mem.plan
        /\ m.state = mem.state /\ m.instr = mem.instr
        /\ m.outcome = mem.outcome
    BY <1>0 DEF Checkpoint
  <2>2. summary.n = m.entries
    BY <1>6, <2>1 DEF NoteSummary, ResumeInv, EntryOK
  <2>3. Persist(m, next, fail) /\ UNCHANGED <<docs, written, summary>>
    BY <1>6 DEF NoteSummary
  <2>4. next \notin Entering /\ fail \notin Entering
    BY DEF ResumePoint, Entering
  <2> HIDE DEF m, next, fail
  <2>5. Recoverable(m, summary.n, edits)
    BY <2>1, <2>2 DEF ResumeInv, Recoverable, Fits, Loads, StopSaid
  <2> QED BY <2>3, <2>4, <2>5, SaveKeeps
<1> QED BY <1>1, <1>2, <1>3, <1>4, <1>5, <1>6 DEF Turns

\* The first instruction, and the refresh of a ready one: a turn that failed
\* raises before the state moves on.
LEMMA ResumeInstructing ==
  TypeInv /\ LedgerInv /\ TurnInv /\ ResumeInv /\ Instructing => ResumeInv'
<1> SUFFICES ASSUME TypeInv, LedgerInv, TurnInv, ResumeInv, Instructing
             PROVE  ResumeInv'
  OBVIOUS
<1> USE DEF history
<1>0. mem \in Checkpoint BY DEF TypeInv, ControlTyped
<1>1. /\ pc \in Stepping /\ UNCHANGED <<docs, written, summary>>
  BY DEF Instructing, PrepareInstruction, LaunchInstruction, RouteInstruction,
         CheckFreshness, RouteRefresh, Stepping
<1>2. ASSUME NEW m, NEW next \in {"loop", "launch"}, Persist(m, next, "except"),
             Alike(m, mem), m.state \notin {HUMAN_GATE, FAILED_CLOSED},
             \/ m.state \in Unread \/ m.instr.ok
             \/ m.instr = mem.instr /\ mem.state \notin {INSTRUCTION_READY}
      PROVE  ResumeInv'
  BY <1>1, <1>2, WorkKeeps DEF Entering
<1>3. ASSUME NEW kind, Raise(kind) PROVE ResumeInv'
  BY <1>1, <1>3, CalmKeeps DEF Raise, Entering, budgets
<1>4. ASSUME NEW kind, StartReviewer(kind) PROVE ResumeInv'
  BY <1>1, <1>4, CalmKeeps DEF StartReviewer, Goto, Entering, budgets
<1>5. ASSUME mem.instr.ok, Persist(ExecutorCheckpoint, "loop", "except")
      PROVE  ResumeInv'
  <2> DEFINE m == ExecutorCheckpoint
  <2>1. /\ Alike(m, mem) /\ m.state = EXECUTOR_RUNNING /\ m.instr = mem.instr
    BY <1>0 DEF Alike, Checkpoint, ExecutorCheckpoint
  <2>2. Persist(m, "loop", "except") BY <1>5
  <2> HIDE DEF m
  <2> QED BY <1>2, <1>5, <2>1, <2>2
<1>6. CASE PrepareInstruction
  <2> DEFINE m == [mem EXCEPT !.state = REVIEWER_INSTRUCTION_RUNNING,
                              !.rev = IF art.st = "none" THEN @ ELSE NoReviewer,
                              !.active = IF art.st = "none" /\ @ # 0 THEN @
                                         ELSE @ + 1,
                              !.recorded = FALSE]
  <2>1. CASE Persist(m, "launch", "except")
    <3>1. /\ Alike(m, mem) /\ m.state = REVIEWER_INSTRUCTION_RUNNING
          /\ m.instr = mem.instr /\ mem.state # INSTRUCTION_READY
      BY <1>0, <1>6 DEF PrepareInstruction, InstructionStates, Alike, Checkpoint
    <3> HIDE DEF m
    <3> QED BY <1>2, <2>1, <3>1
  <2>2. CASE /\ mem' = [mem EXCEPT !.rev = FromTurn(art.turn)]
             /\ pc' = "summary" /\ UNCHANGED <<ck, budgets>>
    BY <1>0, <1>1, <2>2, RecoverKeeps DEF budgets
  <2> QED BY <1>6, <2>1, <2>2 DEF PrepareInstruction
<1>7. CASE LaunchInstruction BY <1>3, <1>4, <1>7 DEF LaunchInstruction
<1>8. CASE RouteInstruction
  <2> DEFINE m == [mem EXCEPT !.state = INSTRUCTION_READY, !.instr = art.turn,
                              !.active = 0, !.recorded = FALSE]
  <2>1. /\ Alike(m, mem) /\ m.state = INSTRUCTION_READY
    BY <1>0 DEF Alike, Checkpoint
  <2>2. Raise("inv") \/ Persist(m, "loop", "except")
    BY <1>8 DEF RouteInstruction
  <2> HIDE DEF m
  <2> QED BY <1>2, <1>3, <2>1, <2>2 DEF Unread
<1>9. CASE CheckFreshness
  <2>1. mem.instr.ok BY <1>9 DEF CheckFreshness, TurnInv, WhereOK
  <2> QED BY <1>3, <1>4, <1>5, <1>9, <2>1 DEF CheckFreshness
<1>10. CASE RouteRefresh
  <2>1. art.turn.ok => mem.instr.ok
    BY <1>10 DEF RouteRefresh, TurnInv, WhereOK, Audited, FirstStates
  <2> QED BY <1>3, <1>5, <1>10, <2>1 DEF RouteRefresh
<1> QED BY <1>6, <1>7, <1>8, <1>9, <1>10 DEF Instructing

\* The Executor's turn.
LEMMA ResumeExecuting ==
  TypeInv /\ LedgerInv /\ TurnInv /\ ResumeInv /\ Executing => ResumeInv'
<1> SUFFICES ASSUME TypeInv, LedgerInv, TurnInv, ResumeInv, Executing
             PROVE  ResumeInv'
  OBVIOUS
<1> USE DEF history
<1>0. mem \in Checkpoint /\ tgt.head \in Nat
  BY DEF TypeInv, ControlTyped, WorldTyped
<1>1. /\ pc \in Stepping /\ mem.state # INSTRUCTION_READY
      /\ UNCHANGED <<docs, written, summary>>
  BY DEF Executing, PrepareExecutor, LaunchExecutor, RouteExecutor, PlanReview,
         Stepping
<1>2. ASSUME NEW m, NEW next \in {"loop", "launch"}, Persist(m, next, "except"),
             Alike(m, mem), m.state \notin {HUMAN_GATE, FAILED_CLOSED},
             m.instr = mem.instr
      PROVE  ResumeInv'
  BY <1>1, <1>2, WorkKeeps DEF Entering
<1>3. ASSUME Raise("inv") \/ Goto("launch") \/ Goto("audit") PROVE ResumeInv'
  BY <1>1, <1>3, CalmKeeps DEF Raise, Goto, Entering, budgets
<1>4. CASE PrepareExecutor
  <2> DEFINE g == [mem EXCEPT !.active = 0, !.ta = tgt.head]
             m == [mem EXCEPT !.active = @ + 1, !.recorded = FALSE]
  <2>1. /\ g \in Checkpoint /\ Alike(g, mem)
        /\ Alike(m, mem) /\ m.state = mem.state /\ m.instr = mem.instr
    BY <1>0 DEF Alike, Checkpoint
  <2>2. mem.state = EXECUTOR_RUNNING BY <1>4 DEF PrepareExecutor
  <2>3. \/ Raise("inv") \/ Goto("launch") \/ Goto("audit")
        \/ ReachOutcome(g, HUMAN_GATE, 0, "finish", "except")
        \/ Persist(m, "launch", "except")
    BY <1>4 DEF PrepareExecutor
  <2> HIDE DEF g, m
  <2>4. ReachOutcome(g, HUMAN_GATE, 0, "finish", "except") => ResumeInv'
    BY <1>1, <2>1, OutcomeKeeps DEF Entering
  <2> QED BY <1>2, <1>3, <2>1, <2>2, <2>3, <2>4
<1>5. CASE LaunchExecutor
  BY <1>1, <1>3, <1>5, CalmKeeps
  DEF LaunchExecutor, StartExecutor, Goto, Entering, budgets
<1>6. CASE RouteExecutor
  <2> DEFINE m == [mem EXCEPT !.state = EXECUTOR_COMMITTED, !.exec = art.turn,
                              !.ta = art.turn.head, !.active = 0,
                              !.recorded = FALSE]
  <2>1. Alike(m, mem) /\ m.state = EXECUTOR_COMMITTED /\ m.instr = mem.instr
    BY <1>0 DEF Alike, Checkpoint
  <2>2. Raise("inv") \/ Persist(m, "loop", "except")
    BY <1>6 DEF RouteExecutor
  <2> HIDE DEF m
  <2> QED BY <1>2, <1>3, <2>1, <2>2
<1>7. CASE PlanReview
  <2> DEFINE m == [mem EXCEPT !.state = REVIEW_PENDING, !.active = 1]
  <2>1. Alike(m, mem) /\ m.state = REVIEW_PENDING /\ m.instr = mem.instr
    BY <1>0 DEF Alike, Checkpoint
  <2>2. Raise("inv") \/ Persist(m, "loop", "except") BY <1>7 DEF PlanReview
  <2> HIDE DEF m
  <2> QED BY <1>2, <1>3, <2>1, <2>2
<1> QED BY <1>4, <1>5, <1>6, <1>7 DEF Executing

\* The verdict: a plan of a transition is made of a Runtime nobody touched.
LEMMA ResumeReviewing ==
  TypeInv /\ LedgerInv /\ TurnInv /\ ResumeInv /\ Reviewing => ResumeInv'
<1> SUFFICES ASSUME TypeInv, LedgerInv, TurnInv, ResumeInv, Reviewing
             PROVE  ResumeInv'
  OBVIOUS
<1> USE DEF history
<1>0. mem \in Checkpoint BY DEF TypeInv, ControlTyped
<1>1. /\ pc \in Stepping /\ mem.state # INSTRUCTION_READY
      /\ mem.state \in Working /\ UNCHANGED <<docs, written, summary>>
  BY DEF Reviewing, PrepareReview, LaunchReview, RouteReview, RefuseVerdict,
         PlanCorrection, FollowHumanGate, PlanTransition, FollowReject, AtVerdict,
         Stepping, Working
<1>2. ASSUME NEW m, NEW next \in {"loop", "launch"}, Persist(m, next, "except"),
             Alike(m, mem), m.state \notin {HUMAN_GATE, FAILED_CLOSED},
             m.state \in Unread \/ m.instr.ok \/ m.instr = mem.instr
      PROVE  ResumeInv'
  BY <1>1, <1>2, WorkKeeps DEF Entering
<1>3. ASSUME \/ Raise("inv") \/ Goto("launch") \/ StartReviewer("review")
      PROVE  ResumeInv'
  BY <1>1, <1>3, CalmKeeps DEF Raise, StartReviewer, Goto, Entering, budgets
<1>4. ASSUME ReachOutcome(mem, HUMAN_GATE, 0, "finish", "except")
      PROVE  ResumeInv'
  <2>1. Alike(mem, mem) BY DEF Alike
  <2> QED BY <1>0, <1>1, <1>4, <2>1, OutcomeKeeps DEF Entering
<1>5. CASE PrepareReview
  <2> DEFINE m == [mem EXCEPT !.rev = NoReviewer, !.active = @ + 1,
                              !.recorded = FALSE]
  <2>1. /\ Alike(m, mem) /\ m.state = REVIEW_PENDING /\ m.instr = mem.instr
    BY <1>0, <1>5 DEF PrepareReview, Alike, Checkpoint
  <2>2. CASE /\ mem' = [mem EXCEPT !.rev = FromTurn(art.turn)]
             /\ pc' = "summary" /\ UNCHANGED <<ck, budgets>>
    BY <1>0, <1>1, <2>2, RecoverKeeps DEF budgets
  <2>3. CASE Goto("launch") \/ Persist(m, "launch", "except")
    <3> HIDE DEF m
    <3> QED BY <1>2, <1>3, <2>1, <2>3
  <2> QED BY <1>5, <2>2, <2>3 DEF PrepareReview
<1>6. CASE LaunchReview BY <1>3, <1>6 DEF LaunchReview
<1>7. CASE RouteReview
  <2> DEFINE m == [mem EXCEPT !.state = REVIEW_COMPLETED, !.instr = art.turn,
                              !.corr = NoCorrection, !.active = 0,
                              !.recorded = FALSE]
  <2>1. Alike(m, mem) /\ m.state = REVIEW_COMPLETED /\ m.instr = art.turn
    BY <1>0 DEF Alike, Checkpoint
  <2>2. Raise("inv") \/ (art.turn.ok /\ Persist(m, "loop", "except"))
    BY <1>7 DEF RouteReview
  <2> HIDE DEF m
  <2> QED BY <1>2, <1>3, <2>1, <2>2
<1>8. CASE RefuseVerdict BY <1>3, <1>8 DEF RefuseVerdict
<1>9. CASE PlanCorrection
  <2> DEFINE m == [mem EXCEPT
                     !.state = REVIEW_CORRECTION_PENDING,
                     !.corr = [mem.corr EXCEPT !.on = TRUE,
                                 !.thread = mem.instr.thread,
                                 !.guards = mem.corr.guards \cup {evid},
                                 !.pending = mem.corr.completed + 1]]
  <2>1. /\ Alike(m, mem) /\ m.state = REVIEW_CORRECTION_PENDING
        /\ m.instr = mem.instr
    BY <1>0 DEF Alike, Checkpoint
  <2>2. Persist(m, "loop", "except") BY <1>9 DEF PlanCorrection
  <2> HIDE DEF m
  <2> QED BY <1>2, <2>1, <2>2
<1>10. CASE FollowHumanGate BY <1>4, <1>10 DEF FollowHumanGate
<1>11. CASE PlanTransition
  <2> DEFINE m == [mem EXCEPT !.state = RUNTIME_TRANSITION_PENDING,
                              !.plan = [id |-> fresh + 1, pre |-> rt]]
  <2>1. /\ m.entries = mem.entries /\ m.pending = mem.pending
        /\ m.state = RUNTIME_TRANSITION_PENDING /\ m.instr = mem.instr
        /\ m.plan.pre = rt
    BY <1>0 DEF Checkpoint
  <2>2. Persist(m, "loop", "except") BY <1>11 DEF PlanTransition
  <2> HIDE DEF m
  <2>3. written = {} BY <1>1 DEF LedgerInv, WrittenOK
  <2>4. edits = MaxEdits => m.plan.pre = Pre
    BY <2>1, <2>3 DEF ResumeInv, LeftAlone
  <2>5. mem.state \notin Finalized BY <1>1, StateFacts
  <2>6. Loads(m) /\ StopSaid(m) /\ Fits(m, summary.n)
    BY <1>1, <2>1, <2>5 DEF ResumeInv, Recoverable, Loads, StopSaid, Fits, Unread
  <2> QED BY <1>1, <2>2, <2>4, <2>6, SaveKeeps DEF Recoverable, Entering
<1>12. CASE FollowReject
  <2> DEFINE m == [mem EXCEPT !.state = INSTRUCTION_READY, !.cycle = @ + 1,
                              !.corr = NoCorrection, !.exec = NoTurn,
                              !.tb = 0, !.ta = 0, !.active = 0]
  <2>1. Alike(m, mem) /\ m.state = INSTRUCTION_READY
    BY <1>0 DEF Alike, Checkpoint
  <2>2. \/ ReachOutcome(mem, HUMAN_GATE, 0, "finish", "except")
        \/ Persist(m, "loop", "except")
    BY <1>12 DEF FollowReject
  <2> HIDE DEF m
  <2> QED BY <1>2, <1>4, <2>1, <2>2 DEF Unread
<1> QED BY <1>5, <1>6, <1>7, <1>8, <1>9, <1>10, <1>11, <1>12 DEF Reviewing

\* A correction turn, and its record.
LEMMA ResumeCorrecting ==
  TypeInv /\ LedgerInv /\ TurnInv /\ ResumeInv /\ Correcting => ResumeInv'
<1> SUFFICES ASSUME TypeInv, LedgerInv, TurnInv, ResumeInv, Correcting
             PROVE  ResumeInv'
  OBVIOUS
<1> USE DEF history
<1>0. mem \in Checkpoint BY DEF TypeInv, ControlTyped
<1>1. /\ pc \in Stepping /\ mem.state # INSTRUCTION_READY
      /\ UNCHANGED <<docs, written, summary>>
  BY DEF Correcting, StartCorrection, RunCorrection, RouteCorrection, Stepping
<1>2. ASSUME NEW m, Persist(m, "loop", "except"), Alike(m, mem),
             m.state \notin {HUMAN_GATE, FAILED_CLOSED},
             m.instr.ok \/ m.instr = mem.instr
      PROVE  ResumeInv'
  BY <1>1, <1>2, WorkKeeps DEF Entering
<1>3. ASSUME Raise("inv") \/ StartReviewer("review") PROVE ResumeInv'
  BY <1>1, <1>3, CalmKeeps DEF Raise, StartReviewer, Goto, Entering, budgets
<1>4. CASE StartCorrection
  <2> DEFINE m == CorrectionCheckpoint
  <2>1. /\ Alike(m, mem) /\ m.state = REVIEW_CORRECTION_RUNNING
        /\ m.instr = mem.instr
    BY <1>0 DEF Alike, Checkpoint, CorrectionCheckpoint
  <2>2. Raise("inv") \/ Persist(m, "loop", "except")
    BY <1>4 DEF StartCorrection
  <2> HIDE DEF m
  <2> QED BY <1>2, <1>3, <2>1, <2>2
<1>5. CASE RunCorrection
  BY <1>0, <1>1, <1>3, <1>5, RecoverKeeps DEF RunCorrection, budgets
<1>6. CASE RouteCorrection
  <2> DEFINE m == [mem EXCEPT !.state = REVIEW_COMPLETED, !.instr = art.turn,
                              !.corr.completed = @ + 1, !.corr.pending = 0,
                              !.active = 0, !.recorded = FALSE]
  <2>1. Alike(m, mem) /\ m.state = REVIEW_COMPLETED /\ m.instr = art.turn
    BY <1>0 DEF Alike, Checkpoint
  <2>2. Raise("inv") \/ (art.turn.ok /\ Persist(m, "loop", "except"))
    BY <1>6 DEF RouteCorrection
  <2> HIDE DEF m
  <2> QED BY <1>2, <1>3, <2>1, <2>2
<1> QED BY <1>4, <1>5, <1>6 DEF Correcting

\* The Runtime transition writes the plan that "written" remembers.
LEMMA ResumeAccepting ==
  TypeInv /\ LedgerInv /\ TurnInv /\ ResumeInv /\ Accepting => ResumeInv'
<1> SUFFICES ASSUME TypeInv, LedgerInv, TurnInv, ResumeInv, Accepting
             PROVE  ResumeInv'
  OBVIOUS
<1> USE DEF history, docs
<1>0. mem \in Checkpoint BY DEF TypeInv, ControlTyped
<1>1. ASSUME Raise("inv") \/ Goto("replaced") \/ Goto("replace"),
             UNCHANGED <<docs, written, summary>>
      PROVE  ResumeInv'
  BY <1>1, CalmKeeps DEF Raise, Goto, Entering, budgets
<1>2. CASE ReconcileRuntime BY <1>1, <1>2 DEF ReconcileRuntime
<1>3. CASE ReplaceRuntime
  <2>1. CASE /\ rt' = mem.plan.id /\ written' = written \cup {mem.plan.id}
             /\ Goto("replaced")
    BY <1>3, <2>1, KeepStep DEF ReplaceRuntime, Goto, Entering, budgets
  <2> QED BY <1>1, <1>3, <2>1 DEF ReplaceRuntime
<1>4. CASE MarkApplied
  <2> DEFINE m == [Applied EXCEPT !.state = RUNTIME_TRANSITION_COMMITTED,
                     !.outcome = [state |-> RUNTIME_TRANSITION_COMMITTED,
                                  exit |-> 0]]
  <2>1. /\ Alike(m, mem) /\ m.state = RUNTIME_TRANSITION_COMMITTED
        /\ m.instr = mem.instr
    BY <1>0 DEF Applied, Alike, Checkpoint
  <2>2. /\ Persist(m, "finish", "except") /\ pc = "replaced"
        /\ UNCHANGED <<docs, written, summary>>
    BY <1>4 DEF MarkApplied, ReachOutcome
  <2> HIDE DEF m
  <2>3. pc \in Stepping /\ mem.state # INSTRUCTION_READY
    BY <2>2 DEF Stepping, LedgerInv, PlaceOK, Transition
  <2> QED BY <2>1, <2>2, <2>3, WorkKeeps DEF Entering
<1> QED BY <1>2, <1>3, <1>4 DEF Accepting

\* Everything finish_evidence saves is finalized.
LEMMA ResumePublishing ==
  TypeInv /\ LedgerInv /\ ResumeInv /\ Publishing => ResumeInv'
<1> SUFFICES ASSUME TypeInv, LedgerInv, ResumeInv, Publishing PROVE ResumeInv'
  OBVIOUS
<1> USE DEF history
<1>0. mem \in Checkpoint BY DEF TypeInv, ControlTyped
<1>1. pc \in Finishing /\ UNCHANGED <<docs, written, summary>>
  BY DEF Publishing, BeginFinish, PlanCommit, MakeCommit, NoteCommit, Push,
         EndFinish
<1>2. ASSUME NEW m, FinishPersist(m), Alike(m, mem), m.state \in Finalizing
      PROVE  ResumeInv'
  <2>1. Loads(m) /\ StopSaid(m)
    BY <1>2 DEF Loads, StopSaid, Unread, Finalized, Finalizing
  <2>2. Recoverable(m, summary.n, edits)
    BY <1>2, <2>1, AlikeRecoverable DEF ResumeInv
  <2> QED BY <1>1, <1>2, <2>2, SaveKeeps DEF FinishPersist, Finishing, Entering
<1>3. ASSUME mem' \in {mem, ck}, ck' = ck, edits' = edits, pc' \notin Entering
      PROVE  ResumeInv'
  BY <1>1, <1>3, KeepStep DEF docs
<1>4. ASSUME FinishError("inv"), UNCHANGED budgets PROVE ResumeInv'
  BY <1>3, <1>4 DEF FinishError, Entering, budgets
<1>5. CASE BeginFinish
  <2> DEFINE m == [mem EXCEPT !.state = EVIDENCE_FINALIZATION_PENDING]
  <2>1. Alike(m, mem) /\ m.state \in Finalizing
    BY <1>0 DEF Alike, Checkpoint, Finalizing
  <2>2. (FinishError("inv") /\ UNCHANGED budgets) \/ FinishPersist(m)
    BY <1>5 DEF BeginFinish
  <2> HIDE DEF m
  <2> QED BY <1>2, <1>4, <2>1, <2>2
<1>6. CASE PlanCommit
  <2> DEFINE m == [mem EXCEPT !.pub = WorkingTree]
  <2>1. Alike(m, mem) /\ m.state \in Finalizing
    BY <1>0, <1>6 DEF PlanCommit, Alike, Checkpoint, Finalizing
  <2>2. (FinishError("inv") /\ UNCHANGED budgets) \/ FinishPersist(m)
    BY <1>6 DEF PlanCommit
  <2> HIDE DEF m
  <2> QED BY <1>2, <1>4, <2>1, <2>2
<1>7. CASE MakeCommit
  BY <1>1, <1>3, <1>4, <1>7 DEF MakeCommit, Finishing, Entering, budgets
<1>8. CASE NoteCommit
  <2> DEFINE m == [mem EXCEPT !.state = FRAMEWORK_EVIDENCE_COMMITTED]
  <2>1. Alike(m, mem) /\ m.state \in Finalizing
    BY <1>0 DEF Alike, Checkpoint, Finalizing
  <2>2. (FinishError("inv") /\ UNCHANGED budgets) \/ FinishPersist(m)
    BY <1>8 DEF NoteCommit
  <2> HIDE DEF m
  <2> QED BY <1>2, <1>4, <2>1, <2>2
<1>9. CASE Push
  <2> DEFINE m == [mem EXCEPT !.state = FRAMEWORK_EVIDENCE_PUSHED]
  <2>1. Alike(m, mem) /\ m.state \in Finalizing
    BY <1>0 DEF Alike, Checkpoint, Finalizing
  <2>2. \/ FinishError("inv") /\ UNCHANGED budgets
        \/ UNCHANGED <<pc, mem, ck, budgets>>
        \/ FinishPersist(m)
    BY <1>9 DEF Push
  <2> HIDE DEF m
  <2> QED BY <1>1, <1>2, <1>3, <1>4, <2>1, <2>2 DEF Finishing, Entering, budgets
<1>10. CASE EndFinish
  BY <1>3, <1>4, <1>10 DEF EndFinish, Entering, budgets
<1> QED BY <1>5, <1>6, <1>7, <1>8, <1>9, <1>10 DEF Publishing

\* The handler saves the outcome, or the interrupted state.
LEMMA ResumeHandling ==
  TypeInv /\ LedgerInv /\ ResumeInv /\ Handling => ResumeInv'
<1> SUFFICES ASSUME TypeInv, LedgerInv, ResumeInv, Handling PROVE ResumeInv'
  OBVIOUS
<1> USE DEF history
<1>0. mem \in Checkpoint BY DEF TypeInv, ControlTyped
<1>1. UNCHANGED <<docs, written, summary>>
  BY DEF Handling, HandleFailure, HandleFailureOfHandler
<1>2. CASE HandleFailure
  <2> DEFINE m == [mem EXCEPT !.active = 0]
             u == [m EXCEPT !.outcome = [state |-> "UNDETERMINED", exit |-> 1]]
  <2>1. /\ m \in Checkpoint /\ Alike(m, mem)
        /\ m.state = mem.state /\ m.instr = mem.instr /\ m.outcome = mem.outcome
        /\ Alike(u, mem) /\ u.state = mem.state /\ u.instr = mem.instr
    BY <1>0 DEF Alike, Checkpoint
  <2>2. \/ Persist(m, "down", "down")
        \/ Persist(u, "down", "down") /\ mem.state \in Transition
        \/ \E d \in {HUMAN_GATE, FAILED_CLOSED} :
             ReachOutcome(m, d, 1, "finishX", "exceptX")
    BY <1>2 DEF HandleFailure, InterruptedTransition
  <2> HIDE DEF m, u
  <2>3. Loads(m) /\ StopSaid(m)
    BY <2>1 DEF ResumeInv, Recoverable, Loads, StopSaid
  <2>4. mem.state \in Transition => Loads(u) /\ StopSaid(u)
    BY <2>1 DEF ResumeInv, Recoverable, Loads, StopSaid, Transition
  <2>5. /\ Recoverable(m, summary.n, edits)
        /\ mem.state \in Transition => Recoverable(u, summary.n, edits)
    BY <2>1, <2>3, <2>4, AlikeRecoverable DEF ResumeInv
  <2> QED BY <1>1, <2>1, <2>2, <2>5, SaveKeeps, OutcomeKeeps DEF Entering
<1>3. CASE HandleFailureOfHandler
  BY <1>1, <1>3, SaveKeeps DEF HandleFailureOfHandler, ResumeInv, Entering
<1> QED BY <1>2, <1>3 DEF Handling

\* A crash falls back on the disk; a torn process.json spoils what a summary
\* entry cites, not the entry.
LEMMA ResumeMishap ==
  TypeInv /\ ResumeInv /\ Mishap => ResumeInv'
<1> SUFFICES ASSUME TypeInv, ResumeInv, Mishap PROVE ResumeInv' OBVIOUS
<1>1. CASE Crash \/ IOError \/ FinishIOError
  <2>1. /\ ck' = ck /\ mem' \in {mem, ck} /\ pc' \notin Entering
        /\ UNCHANGED <<edits, gov, rt, written>>
    BY <1>1 DEF Crash, IOError, FinishIOError, FinishError, Finishing, Entering,
                docs, history
  <2>2. summary \in [n: Nat, intact: BOOLEAN, cited: BOOLEAN]
    BY DEF TypeInv, WorldTyped
  <2>3. summary'.n = summary.n /\ summary'.intact = summary.intact
    BY <1>1, <2>2 DEF Crash, IOError, FinishIOError, CutShort
  <2> QED BY <2>1, <2>3, KeepStep
<1>2. CASE EventLost \/ LateEvent
  <2>1. UNCHANGED <<ck, mem, pc, summary, edits, docs, history>>
    BY <1>2 DEF EventLost, LateEvent, budgets
  <2> QED BY <2>1 DEF ResumeInv, EntryOK, LeftAlone, docs, history
<1> QED BY <1>1, <1>2 DEF Mishap

\* A resumed process reads a pending entry from the checkpoint it resumes on.
LEMMA ResumeResume == LedgerInv /\ ResumeInv /\ Resume => ResumeInv'
<1> SUFFICES ASSUME LedgerInv, ResumeInv, Resume PROVE ResumeInv' OBVIOUS
<1>1. UNCHANGED <<ck, mem, edits, docs, written, summary>>
  BY DEF Resume, budgets, history
<1>2. mem = ck BY DEF Resume, LedgerInv, MemoryOK, Reloaded
<1>3. /\ pc' \in Entering => pc' = "reconcile" /\ ck.pending
  BY DEF Resume, ResumePoint, Entering
<1>4. EntryOK' BY <1>1, <1>2, <1>3 DEF EntryOK, Entering
<1> QED BY <1>1, <1>4 DEF ResumeInv, LeftAlone, docs

\* Whoever intervenes has used up an intervention.
LEMMA ResumeEnvironment == TypeInv /\ ResumeInv /\ Environment => ResumeInv'
<1> SUFFICES ASSUME TypeInv, ResumeInv, Environment PROVE ResumeInv' OBVIOUS
<1>0. /\ summary \in [n: Nat, intact: BOOLEAN, cited: BOOLEAN]
      /\ edits \in Nat /\ MaxEdits \in Nat
  BY ConstantsAssumption DEF TypeInv, WorldTyped, ControlTyped
<1>1. UNCHANGED <<ck, mem, pc, written>>
  BY DEF Environment, ExecutorCommits, ExecutorEditsFiles, OrphanExits,
         HumanCleans, Intervene, OutsideProgram, history
<1>2. \/ UNCHANGED <<edits, docs, summary>>
      \/ edits' # MaxEdits /\ edits' <= MaxEdits /\ summary'.n = summary.n
  <2>1. CASE Intervene
    <3>1. edits' = edits - 1 /\ edits > 0 BY <2>1 DEF Intervene
    <3>2. summary'.n = summary.n BY <1>0, <2>1 DEF Intervene
    <3> QED BY <1>0, <3>1, <3>2 DEF ResumeInv, LeftAlone
  <2> QED BY <2>1 DEF Environment, ExecutorCommits, ExecutorEditsFiles,
                      OrphanExits, HumanCleans
<1> QED BY <1>1, <1>2
        DEF ResumeInv, Recoverable, EntryOK, LeftAlone, docs

\* What a run can be resumed on is inductive, with the ledger and the turns.
THEOREM ResumeCorrect == Spec => []ResumeInv
<1>1. Inv /\ TurnInv /\ ResumeInv /\ [Next]_vars => ResumeInv'
  <2>1. Inv /\ TurnInv /\ ResumeInv /\ Next => ResumeInv'
    BY ResumeTurns, ResumeInstructing, ResumeExecuting, ResumeReviewing,
       ResumeCorrecting, ResumeAccepting, ResumePublishing, ResumeHandling,
       ResumeResume, ResumeMishap, ResumeEnvironment
    DEF Inv, Next, Program
  <2>2. ResumeInv /\ UNCHANGED vars => ResumeInv'
    BY DEF vars, docs, budgets, history, ResumeInv, EntryOK, LeftAlone
  <2> QED BY <2>1, <2>2
<1> QED BY <1>1, ResumeInit, TurnsCorrect, PTL DEF Spec

-----------------------------------------------------------------------------
(***************************************************************************)
(* Why a journal may not fit.  An event that does not fit is recorded by a *)
(* program that knows better (a failed append, a failed write: an I/O      *)
(* error), or in a state at which an Agent works or a refresh runs.  With  *)
(* no I/O error the states on disk and in memory are the same ("JournalOK" *)
(* needs nothing else of the other invariants).                            *)
(***************************************************************************)

Marked == AgentStates \cup {INSTRUCTION_READY}

JournalOK ==
  /\ faults <= MaxFaults
  /\ log.closed \/ pc = "turn" => mem.state \in Marked
  /\ faults = MaxFaults =>
       /\ log.obs = "on" /\ mem.state = ck.state
       /\ ~log.fits => ck.state \in Marked

\* The types the steps need.
LEMMA JournalTypes ==
  ASSUME TypeInv
  PROVE  /\ log \in Journal /\ faults \in Nat /\ MaxFaults \in Nat
         /\ mem \in Checkpoint
BY ConstantsAssumption DEF TypeInv, ControlTyped

\* A checkpoint saved, or an I/O error in saving it.
LEMMA SaveJournal ==
  ASSUME TypeInv, JournalOK, NEW m, NEW next, NEW fail, Persist(m, next, fail),
         next # "turn", fail # "turn"
  PROVE  JournalOK'
<1>0. faults \in Nat /\ MaxFaults \in Nat BY JournalTypes
<1>1. CASE /\ ck' = m /\ mem' = m /\ pc' = next /\ MoveCursor(next, TRUE)
           /\ UNCHANGED budgets
  <2>1. PICK fits \in IF log.obs = "stray" THEN BOOLEAN ELSE {TRUE} :
          log' = [fits   |-> fits /\ (log.obs = "on" => TRUE),
                  closed |-> FALSE,
                  obs    |-> IF next = "down" THEN "on" ELSE log.obs]
    BY <1>1 DEF MoveCursor
  <2>2. faults' = faults /\ ~log'.closed BY <1>1, <2>1 DEF budgets
  <2>3. faults = MaxFaults => log'.obs = "on" /\ log'.fits
    BY <2>1 DEF JournalOK
  <2> QED BY <1>1, <2>2, <2>3 DEF JournalOK
<1>2. CASE pc' = fail /\ faults' = faults - 1 /\ JournalAfterFailure(m, fail)
  <2>1. ~log'.closed
    <3>1. CASE MoveCursor(fail, EventAfterFailure(m, m, fail))
      BY <3>1 DEF MoveCursor
    <3>2. CASE ~MoveCursor(fail, EventAfterFailure(m, m, fail))
      BY <1>2, <3>2 DEF JournalAfterFailure
    <3> QED BY <3>1, <3>2
  <2>2. faults' <= MaxFaults /\ faults' # MaxFaults BY <1>0, <1>2 DEF JournalOK
  <2> QED BY <1>2, <2>1, <2>2 DEF JournalOK
<1> QED BY <1>1, <1>2 DEF Persist

\* A step without an I/O error that saves nothing.
LEMMA StayJournal ==
  ASSUME JournalOK, ck' = ck, mem'.state = mem.state, UNCHANGED <<faults, log>>,
         pc' = "turn" => mem.state \in Marked
  PROVE  JournalOK'
BY DEF JournalOK

\* An event is recorded: it fits, or its state is one of those marked.
LEMMA RecordJournal ==
  ASSUME TypeInv, JournalOK, ck' = ck, mem'.state = mem.state, faults' = faults,
         pc' = "turn" => mem.state \in Marked,
         NEW f, Record(f), f \/ mem.state \in Marked
  PROVE  JournalOK'
<1>1. /\ log'.closed = log.closed /\ log'.obs = log.obs
      /\ ~log'.fits => ~log.fits \/ ~f
  BY JournalTypes DEF Record, Journal
<1> QED BY <1>1 DEF JournalOK

\* The process ends without an I/O error.
LEMMA LeaveJournalOK ==
  ASSUME JournalOK, LeaveJournal, ck' = ck, mem' = ck, faults' = faults,
         pc' # "turn"
  PROVE  JournalOK'
<1>1. ~log'.closed /\ log'.obs = "on" /\ log'.fits = log.fits
  BY DEF LeaveJournal, NewJournal
<1> QED BY <1>1 DEF JournalOK

\* An I/O error, after which anything may be in the journal.
LEMMA FaultJournal ==
  ASSUME TypeInv, JournalOK, faults' = faults - 1, log'.closed => log.closed,
         log'.closed => mem'.state = mem.state,
         pc' = "turn" => pc = "turn" /\ mem'.state = mem.state
  PROVE  JournalOK'
BY JournalTypes DEF JournalOK

\* An exception in a branch: its error event does not fit in an open turn, or
\* where an Agent would have to be at work.
LEMMA RaiseJournal ==
  ASSUME TypeInv, JournalOK, NEW kind, Raise(kind)
  PROVE  JournalOK'
<1>1. ErrorFits \/ mem.state \in Marked BY DEF ErrorFits, JournalOK, Marked
<1> QED BY <1>1, RecordJournal DEF Raise, budgets

\* The launch of a Reviewer.
LEMMA StartJournal ==
  ASSUME TypeInv, JournalOK, NEW kind, StartReviewer(kind), mem.state \in Marked
  PROVE  JournalOK'
BY RecordJournal DEF StartReviewer, budgets

\* The next effect of a branch.
LEMMA GotoJournal ==
  ASSUME JournalOK, NEW next, Goto(next), next \notin {"down", "turn"}
  PROVE  JournalOK'
BY StayJournal DEF Goto, budgets

\* A finished turn is taken up again.
LEMMA RecoverJournal ==
  ASSUME TypeInv, JournalOK, mem' = [mem EXCEPT !.rev = FromTurn(art.turn)],
         pc' = "summary", UNCHANGED <<ck, log, budgets>>
  PROVE  JournalOK'
<1>1. mem'.state = mem.state BY JournalTypes DEF Checkpoint
<1> QED BY <1>1, StayJournal DEF budgets

\* The first journal.
LEMMA JournalInit == Init => JournalOK
BY ConstantsAssumption DEF Init, NewJournal, JournalOK

\* The end of an Agent turn, its audit and its summary entry.
LEMMA JournalTurns == TypeInv /\ LedgerInv /\ JournalOK /\ Turns => JournalOK'
<1> SUFFICES ASSUME TypeInv, LedgerInv, JournalOK, Turns PROVE JournalOK' OBVIOUS
<1>1. CASE TurnExits
  <2>1. /\ log'.closed /\ log'.obs = log.obs /\ log'.fits = log.fits
    BY <1>1, JournalTypes DEF TurnExits, Journal
  <2>2. mem.state \in Marked BY <1>1 DEF TurnExits, JournalOK
  <2>3. UNCHANGED <<ck, mem, faults>> /\ pc' = "audit"
    BY <1>1 DEF TurnExits, budgets
  <2> QED BY <2>1, <2>2, <2>3 DEF JournalOK
<1>2. CASE AuditReviewer
  <2>1. mem'.state = mem.state BY <1>2, JournalTypes DEF AuditReviewer, Checkpoint
  <2> QED BY <1>2, <2>1, StayJournal DEF AuditReviewer, budgets
<1>3. CASE CaptureExecutor BY <1>3, GotoJournal DEF CaptureExecutor
<1>4. CASE PlanSummary
  BY <1>4, RaiseJournal, GotoJournal, SaveJournal DEF PlanSummary
<1>5. CASE AppendSummary
  <2>1. CASE Goto("down")
    <3>1. pc = "reconcile" BY <1>5, <2>1 DEF AppendSummary, Goto, Raise
    <3>2. mem = ck BY <3>1 DEF LedgerInv, MemoryOK, Reloaded
    <3> QED BY <2>1, <3>2, LeaveJournalOK DEF Goto, budgets
  <2>2. CASE Goto("appended") \/ Goto("reconciled") BY <2>2, GotoJournal
  <2> QED BY <1>5, <2>1, <2>2, RaiseJournal DEF AppendSummary
<1>6. CASE NoteSummary
  <2>1. ResumePoint # "turn" BY DEF ResumePoint
  <2> QED BY <1>6, <2>1, SaveJournal DEF NoteSummary
<1> QED BY <1>1, <1>2, <1>3, <1>4, <1>5, <1>6 DEF Turns

\* The branches up to the Executor's commits.
LEMMA JournalWorking ==
  TypeInv /\ JournalOK /\ (Instructing \/ Executing) => JournalOK'
<1> SUFFICES ASSUME TypeInv, JournalOK, Instructing \/ Executing
             PROVE  JournalOK'
  OBVIOUS
<1>1. mem.state \in {REVIEWER_INSTRUCTION_RUNNING, INSTRUCTION_READY,
                     EXECUTOR_RUNNING} => mem.state \in Marked
  BY DEF Marked, AgentStates
<1> USE SaveJournal, RaiseJournal, GotoJournal
<1>2. CASE PrepareInstruction BY <1>2, RecoverJournal DEF PrepareInstruction
<1>3. CASE LaunchInstruction BY <1>1, <1>3, StartJournal DEF LaunchInstruction
<1>4. CASE RouteInstruction BY <1>4 DEF RouteInstruction
<1>5. CASE CheckFreshness BY <1>1, <1>5, StartJournal DEF CheckFreshness
<1>6. CASE RouteRefresh BY <1>6 DEF RouteRefresh
<1>7. CASE PrepareExecutor BY <1>7 DEF PrepareExecutor, ReachOutcome
<1>8. CASE LaunchExecutor
  <2>1. CASE StartExecutor
    <3>1. mem.state \in Marked BY <1>1, <1>8 DEF LaunchExecutor
    <3> QED BY <2>1, <3>1, StayJournal DEF StartExecutor, Goto, budgets
  <2> QED BY <1>8, <2>1 DEF LaunchExecutor
<1>9. CASE RouteExecutor BY <1>9 DEF RouteExecutor
<1>10. CASE PlanReview BY <1>10 DEF PlanReview
<1> QED BY <1>2, <1>3, <1>4, <1>5, <1>6, <1>7, <1>8, <1>9, <1>10
        DEF Instructing, Executing

\* The branches of the verdict, its correction and the Runtime transition.
LEMMA JournalJudging ==
  TypeInv /\ JournalOK /\ (Reviewing \/ Correcting \/ Accepting) => JournalOK'
<1> SUFFICES ASSUME TypeInv, JournalOK, Reviewing \/ Correcting \/ Accepting
             PROVE  JournalOK'
  OBVIOUS
<1>1. mem.state \in {REVIEW_PENDING, REVIEW_CORRECTION_RUNNING} =>
        mem.state \in Marked
  BY DEF Marked, AgentStates
<1> USE SaveJournal, RaiseJournal, GotoJournal
<1>2. CASE PrepareReview BY <1>2, RecoverJournal DEF PrepareReview
<1>3. CASE LaunchReview BY <1>1, <1>3, StartJournal DEF LaunchReview
<1>4. CASE RouteReview BY <1>4 DEF RouteReview
<1>5. CASE RefuseVerdict BY <1>5 DEF RefuseVerdict
<1>6. CASE PlanCorrection BY <1>6 DEF PlanCorrection
<1>7. CASE FollowHumanGate BY <1>7 DEF FollowHumanGate, ReachOutcome
<1>8. CASE PlanTransition BY <1>8 DEF PlanTransition
<1>9. CASE FollowReject BY <1>9 DEF FollowReject, ReachOutcome
<1>10. CASE StartCorrection BY <1>10 DEF StartCorrection
<1>11. CASE RunCorrection
  BY <1>1, <1>11, StartJournal, RecoverJournal DEF RunCorrection
<1>12. CASE RouteCorrection BY <1>12 DEF RouteCorrection
<1>13. CASE ReconcileRuntime BY <1>13 DEF ReconcileRuntime
<1>14. CASE ReplaceRuntime BY <1>14 DEF ReplaceRuntime
<1>15. CASE MarkApplied BY <1>15 DEF MarkApplied, ReachOutcome
<1> QED BY <1>2, <1>3, <1>4, <1>5, <1>6, <1>7, <1>8, <1>9, <1>10, <1>11, <1>12,
           <1>13, <1>14, <1>15 DEF Reviewing, Correcting, Accepting

\* An error in finish_evidence is recorded where no Agent is at work.
LEMMA FinishJournal ==
  ASSUME TypeInv, LedgerInv, JournalOK, FinishError("inv"), faults' = faults
  PROVE  JournalOK'
<1>1. CASE pc = "finish" /\ pc' = "except" /\ mem' = mem /\ Record(ErrorFits)
  <2>1. ErrorFits \/ mem.state \in Marked BY <1>1 DEF ErrorFits, Marked
  <2> QED BY <1>1, <2>1, RecordJournal DEF FinishError
<1>2. CASE pc' = "exceptX" /\ UNCHANGED <<mem, log>>
  BY <1>2, StayJournal DEF FinishError
<1>3. CASE pc' = "down" /\ mem' = ck /\ LeaveJournal
  BY <1>3, LeaveJournalOK DEF FinishError
<1> QED BY <1>1, <1>2, <1>3 DEF FinishError

\* finish_evidence, and the handlers.
LEMMA JournalEnding ==
  TypeInv /\ LedgerInv /\ JournalOK /\ (Publishing \/ Handling) => JournalOK'
<1> SUFFICES ASSUME TypeInv, LedgerInv, JournalOK, Publishing \/ Handling
             PROVE  JournalOK'
  OBVIOUS
<1> USE FinishJournal DEF budgets
<1>1. ASSUME NEW m, pc \in Finishing, FinishPersist(m) PROVE JournalOK'
  BY <1>1, SaveJournal DEF FinishPersist, Finishing
<1>2. ASSUME pc \in Finishing, UNCHANGED <<pc, mem, ck, log, budgets>>
      PROVE  JournalOK'
  BY <1>2, StayJournal DEF Finishing
<1>3. CASE BeginFinish BY <1>1, <1>3 DEF BeginFinish
<1>4. CASE PlanCommit BY <1>1, <1>4 DEF PlanCommit
<1>5. CASE MakeCommit BY <1>2, <1>5 DEF MakeCommit
<1>6. CASE NoteCommit BY <1>1, <1>6 DEF NoteCommit
<1>7. CASE Push BY <1>1, <1>2, <1>7 DEF Push
<1>8. CASE EndFinish BY <1>8, LeaveJournalOK DEF EndFinish
<1>9. CASE HandleFailure BY <1>9, SaveJournal DEF HandleFailure, ReachOutcome
<1>10. CASE HandleFailureOfHandler
  BY <1>10, SaveJournal DEF HandleFailureOfHandler
<1> QED BY <1>3, <1>4, <1>5, <1>6, <1>7, <1>8, <1>9, <1>10 DEF Publishing, Handling

\* A crash forgets the journal's process, a late event has a turn behind it,
\* and the rest takes an I/O error.
LEMMA JournalMishap == TypeInv /\ LedgerInv /\ JournalOK /\ Mishap => JournalOK'
<1> SUFFICES ASSUME TypeInv, LedgerInv, JournalOK, Mishap PROVE JournalOK' OBVIOUS
<1>1. CASE Crash BY <1>1, LeaveJournalOK DEF Crash
<1>2. CASE IOError
  <2>1. log'.closed = log.closed
    BY <1>2, JournalTypes DEF IOError, Record, Journal
  <2> QED BY <1>2, <2>1, FaultJournal DEF IOError
<1>3. CASE FinishIOError
  <2>1. log'.closed => log.closed /\ mem' = mem
    BY <1>3, JournalTypes
    DEF FinishIOError, FinishError, Record, LeaveJournal, NewJournal, Journal
  <2>2. pc' # "turn" BY <1>3 DEF FinishIOError, FinishError
  <2> QED BY <1>3, <2>1, <2>2, FaultJournal DEF FinishIOError
<1>4. CASE EventLost
  <2>1. log'.closed = log.closed
    <3>1. PICK o \in {"off", "stray"} : log' = [log EXCEPT !.obs = o]
      BY <1>4 DEF EventLost
    <3> QED BY <3>1, JournalTypes DEF Journal
  <2>2. UNCHANGED <<mem, pc>> /\ faults' = faults - 1 BY <1>4 DEF EventLost
  <2> QED BY <2>1, <2>2, FaultJournal
<1>5. CASE LateEvent
  <2>1. UNCHANGED <<ck, mem, pc, faults>> /\ log.closed /\ Record(FALSE)
    BY <1>5 DEF LateEvent, budgets
  <2>2. mem.state \in Marked BY <2>1 DEF JournalOK
  <2> QED BY <2>1, <2>2, RecordJournal
<1> QED BY <1>1, <1>2, <1>3, <1>4, <1>5 DEF Mishap

\* Neither a resumed process nor the world outside touches the journal.
LEMMA JournalOthers == JournalOK /\ (Resume \/ Environment) => JournalOK'
<1> SUFFICES ASSUME JournalOK, Resume \/ Environment PROVE JournalOK' OBVIOUS
<1>1. UNCHANGED <<ck, mem, log, faults>> /\ (pc' = pc \/ pc' # "turn")
  BY DEF Resume, ResumePoint, budgets, Environment, ExecutorCommits,
         ExecutorEditsFiles, OrphanExits, HumanCleans, Intervene, OutsideProgram
<1> QED BY <1>1 DEF JournalOK

\* Where a journal may not fit is inductive, with the types and the ledger.
THEOREM JournalCorrect == Spec => []JournalOK
<1>1. Inv /\ JournalOK /\ [Next]_vars => JournalOK'
  <2>1. Inv /\ JournalOK /\ Next => JournalOK'
    BY JournalTurns, JournalWorking, JournalJudging, JournalEnding, JournalMishap,
       JournalOthers DEF Inv, Next, Program
  <2>2. JournalOK /\ UNCHANGED vars => JournalOK'
    BY DEF vars, budgets, JournalOK
  <2> QED BY <2>1, <2>2
<1> QED BY <1>1, JournalInit, LedgerCorrect, PTL DEF Spec

\* Wherever a process ended, a resume is refused because the target is not
\* clean, for a cause named in the journal (an I/O error or an Agent's state),
\* or because of an intervention, a stop amid a transition, a torn process.json
\* under an entry or a failed refresh (validate_preflight, ProgressStatus with
\* resume, validate_summary_alignment, load_turn_reference).
THEOREM RefusedForCauseHolds == Spec => []RefusedForCause
<1>1. Inv /\ ResumeInv /\ JournalOK => RefusedForCause
  <2> SUFFICES ASSUME Inv, ResumeInv, JournalOK, pc = "down"
               PROVE  RefusedForCause
    BY DEF RefusedForCause
  <2>1. mem = ck /\ ck \in Checkpoint
    BY DEF Inv, LedgerInv, MemoryOK, Reloaded, TypeInv, ControlTyped
  <2>2. ASSUME edits = MaxEdits, ck.outcome.state # HUMAN_GATE
        PROVE  GovernanceUnchanged
    <3>1. gov = 0 /\ rt \in {Pre} \cup written /\ ck.plan.pre = Pre
      BY <2>2 DEF ResumeInv, LeftAlone, Recoverable
    <3>2. rt \in {Pre, ck.plan.id}
      BY <3>1 DEF Inv, LedgerInv, WrittenOK
    <3>3. ASSUME ~RecoversTransition PROVE written = {}
      <4>1. CASE ck.state \in Working
        BY <4>1 DEF Inv, LedgerInv, WrittenOK
      <4>2. CASE ck.state \in Finalized
        <5>1. ck.outcome.state = FAILED_CLOSED
          BY <2>2, <3>3, <4>2
          DEF Inv, LedgerInv, CheckpointsOK, Consistent, Decisions, ResumeInv,
              Recoverable, StopSaid, RecoversTransition, Finalized
        <5> QED BY <5>1 DEF Inv, LedgerInv, CheckpointsOK, Consistent, Declined
      <4> QED BY <2>1, <3>3, <4>1, <4>2, StateFacts
              DEF RecoversTransition, Checkpoint
    <3> QED BY <3>1, <3>2, <3>3 DEF GovernanceUnchanged
  <2>3. ASSUME edits = MaxEdits, summary.cited
        PROVE  IF ck.pending THEN SummaryReconcilable ELSE SummaryValid
    <3>1. summary \in [n: Nat, intact: BOOLEAN, cited: BOOLEAN]
      BY DEF Inv, TypeInv, WorldTyped
    <3>2. summary.intact /\ Fits(ck, summary.n)
      BY <2>3 DEF ResumeInv, LeftAlone, Recoverable
    <3> QED BY <2>1, <2>3, <3>1, <3>2
            DEF Fits, SummaryReconcilable, SummaryValid
  <2>4. ck.state \in Finalized \cup {INSTRUCTION_READY} \/ ReferencesLoad
    BY <2>1 DEF ResumeInv, Recoverable, Loads, Unread, ReferencesLoad
  <2>5. ResumePoint # "down" <=> ck.state \in Finalized \/ ReferencesLoad
    BY <2>1 DEF ResumePoint
  <2>6. ~log.fits => \/ faults # MaxFaults
                     \/ ck.state \in AgentStates \cup {INSTRUCTION_READY}
    BY DEF JournalOK, Marked
  <2> QED BY <2>2, <2>3, <2>4, <2>5, <2>6
          DEF RefusedForCause, Resumable, ResumeStarts
<1> QED BY <1>1, LedgerCorrect, ResumeCorrect, JournalCorrect, PTL
=============================================================================
