-------------------------- MODULE MutationLoopTypes --------------------------
(***************************************************************************)
(* Type correctness of MutationLoop, for every value of its constants.     *)
(*                                                                         *)
(* TypeOK alone is not inductive: an Executor that ends is taken from the  *)
(* count of live ones, so the count has to be positive while the process   *)
(* waits for its Executor.  TypeInv adds that, and splits the types into   *)
(* what the process writes, its Agent turns, and the world around it.      *)
(***************************************************************************)
EXTENDS MutationLoop, TLAPS

ControlTyped ==
  /\ ck \in Checkpoint /\ mem \in Checkpoint
  /\ pc \in Places /\ exc \in {"none", "os", "inv"}
  /\ log \in Journal
  /\ crashes \in Nat /\ faults \in Nat /\ edits \in Nat

TurnsTyped ==
  /\ art \in Artifacts /\ refreshed \subseteq Nat /\ fresh \in Nat
  /\ workers \in Nat
  /\ ExecutorTurn => workers > 0

WorldTyped ==
  /\ tgt \in [head: Nat, clean: BOOLEAN] /\ irregular \subseteq Nat
  /\ gov \in Nat /\ rt \in Images /\ evid \in Nat
  /\ summary \in [n: Nat, intact: BOOLEAN, cited: BOOLEAN]
  /\ commit \in Contents /\ pushed \in BOOLEAN
  /\ written \subseteq Nat /\ corrections \in Nat /\ effect \subseteq Nat

TypeInv == ControlTyped /\ TurnsTyped /\ WorldTyped

\* The constants a field is reset to have the type of the field.
LEMMA BlankTyped ==
  /\ NoTurn \in Turn /\ NoArt \in Artifacts /\ NoReviewer \in ReviewerState
  /\ NoCorrection \in Correction /\ NoOutcome \in Outcomes
  /\ NoContents \in Contents /\ FirstCheckpoint \in Checkpoint
<1>1. NoTurn \in Turn BY DEF NoTurn, Turn, Kinds, Images, Pre
<1>2. NoArt \in Artifacts BY <1>1 DEF NoArt, Artifacts
<1>3. NoReviewer \in ReviewerState BY DEF NoReviewer, ReviewerState, Images, Pre
<1>4. NoCorrection \in Correction BY DEF NoCorrection, Correction
<1>5. NoOutcome \in Outcomes BY DEF NoOutcome, Outcomes
<1>6. NoContents \in Contents BY DEF NoContents, Contents, Images, Pre
<1>7. PREFLIGHT_PASSED \in States BY DEF States, Working
<1>8. FirstCheckpoint \in Checkpoint
  BY <1>1, <1>3, <1>4, <1>5, <1>6, <1>7 DEF FirstCheckpoint, Checkpoint, Images, Pre
<1> QED BY <1>1, <1>2, <1>3, <1>4, <1>5, <1>6, <1>8

\* Whatever a step says of the journal.
LEMMA JournalTyped ==
  ASSUME log \in Journal
  PROVE  /\ \A fitting : Record(fitting) => log' \in Journal
         /\ LeaveJournal => log' \in Journal
         /\ \A place, fitting : MoveCursor(place, fitting) => log' \in Journal
         /\ \A m, fail : JournalAfterFailure(m, fail) => log' \in Journal
<1>1. ASSUME NEW fitting, Record(fitting) PROVE log' \in Journal
  <2>1. (log.fits /\ (log.obs = "on" => fitting)) \in BOOLEAN OBVIOUS
  <2> QED BY <1>1, <2>1 DEF Record, Journal
<1>2. LeaveJournal => log' \in Journal BY DEF LeaveJournal, NewJournal, Journal
<1>3. ASSUME NEW place, NEW fitting, MoveCursor(place, fitting)
      PROVE  log' \in Journal
  <2>1. PICK fits \in BOOLEAN :
          log' = [fits   |-> fits /\ (log.obs = "on" => fitting),
                  closed |-> FALSE,
                  obs    |-> IF place = "down" THEN "on" ELSE log.obs]
    BY <1>3 DEF MoveCursor
  <2>2. (fits /\ (log.obs = "on" => fitting)) \in BOOLEAN OBVIOUS
  <2> QED BY <2>1, <2>2 DEF Journal
<1>4. ASSUME NEW m, NEW fail, JournalAfterFailure(m, fail) PROVE log' \in Journal
  <2> DEFINE obs == IF fail = "down" THEN "on" ELSE log.obs
             fits == log.fits /\ (log.obs = "on" => EventAfterFailure(m, ck, fail))
  <2>1. CASE MoveCursor(fail, EventAfterFailure(m, m, fail)) BY <1>3, <2>1
  <2>2. CASE log' = [fits |-> fits, closed |-> FALSE, obs |-> obs]
    <3>1. fits \in BOOLEAN OBVIOUS
    <3>2. obs \in {"on", "off", "stray"} BY DEF Journal
    <3> HIDE DEF fits, obs
    <3> QED BY <2>2, <3>1, <3>2 DEF Journal
  <2> QED BY <1>4, <2>1, <2>2 DEF JournalAfterFailure
<1> QED BY <1>1, <1>2, <1>3, <1>4

\* persist() of a well-typed checkpoint, whether it succeeds, fails before
\* the replacement of the file or after it.
LEMMA PersistTyped ==
  ASSUME ControlTyped, NEW m \in Checkpoint, NEW next \in Places,
         NEW fail \in Places, Persist(m, next, fail)
  PROVE  ControlTyped' /\ pc' \in {next, fail}
<1>1. \/ MoveCursor(next, TRUE)
      \/ JournalAfterFailure(m, fail)
  BY DEF Persist
<1>2. log' \in Journal
  <2>1. log \in Journal BY DEF ControlTyped
  <2>2. CASE MoveCursor(next, TRUE) BY <2>1, <2>2, JournalTyped, Zenon
  <2>3. CASE JournalAfterFailure(m, fail) BY <2>1, <2>3, JournalTyped, Zenon
  <2> QED BY <1>1, <2>2, <2>3
<1>3. /\ ck' \in {ck, m} /\ mem' \in {ck, m} /\ pc' \in {next, fail}
      /\ exc' \in {"none", "os"}
      /\ crashes' = crashes /\ edits' = edits /\ faults' \in Nat
  <2>1. \/ /\ ck' = m /\ mem' = m /\ pc' = next /\ exc' = "none"
           /\ UNCHANGED budgets
        \/ /\ faults > 0 /\ faults' = faults - 1
           /\ ck' \in {ck, m} /\ pc' = fail
           /\ mem' = IF fail = "down" THEN ck' ELSE m
           /\ exc' = IF fail = "down" THEN "none" ELSE "os"
           /\ UNCHANGED <<crashes, edits>>
    BY Zenon DEF Persist
  <2>2. faults \in Nat BY DEF ControlTyped
  <2> QED BY <2>1, <2>2 DEF budgets
<1> QED BY <1>2, <1>3 DEF ControlTyped

\* reach_logical_outcome: persist() of a checkpoint with its outcome.
LEMMA OutcomeTyped ==
  ASSUME ControlTyped, NEW m \in Checkpoint, NEW next \in Places,
         NEW fail \in Places, NEW code \in {0, 1},
         NEW o \in {HUMAN_GATE, FAILED_CLOSED, RUNTIME_TRANSITION_COMMITTED},
         ReachOutcome(m, o, code, next, fail)
  PROVE  ControlTyped' /\ pc' \in {next, fail}
<1>1. o \in States BY DEF States, Transition
<1>2. [state |-> o, exit |-> code] \in Outcomes BY DEF Outcomes
<1>3. [m EXCEPT !.state = o, !.outcome = [state |-> o, exit |-> code]] \in Checkpoint
  BY <1>1, <1>2 DEF Checkpoint
<1> QED BY <1>3, PersistTyped DEF ReachOutcome

\* The first durable checkpoint of a run is well typed.
LEMMA InitTyped == Init => TypeInv
<1> SUFFICES ASSUME Init PROVE TypeInv OBVIOUS
<1>1. ControlTyped
  BY BlankTyped, ConstantsAssumption
  DEF Init, ControlTyped, Places, Journal, NewJournal
<1>2. TurnsTyped BY BlankTyped DEF Init, TurnsTyped, ExecutorTurn
<1>3. WorldTyped BY BlankTyped DEF Init, WorldTyped, Images, Pre
<1> QED BY <1>1, <1>2, <1>3 DEF TypeInv

\* Going on to the next effect of the branch.
LEMMA GotoTyped ==
  ASSUME ControlTyped, NEW next \in Places, Goto(next)
  PROVE  ControlTyped' /\ pc' = next
BY JournalTyped DEF ControlTyped, Goto, budgets

\* Raising an exception to the handler of the loop.
LEMMA RaiseTyped ==
  ASSUME ControlTyped, NEW kind \in {"os", "inv"}, Raise(kind)
  PROVE  ControlTyped' /\ pc' = "except"
BY JournalTyped DEF ControlTyped, Raise, budgets, Places

\* An exception inside finish_evidence, whoever called it.
LEMMA FinishErrorTyped ==
  ASSUME ControlTyped, NEW kind \in {"os", "inv"}, FinishError(kind),
         UNCHANGED <<crashes, edits>>, faults' \in Nat
  PROVE  ControlTyped' /\ pc' # "turn"
BY JournalTyped DEF ControlTyped, FinishError, Places

\* persist() inside finish_evidence, whoever called it.
LEMMA FinishPersistTyped ==
  ASSUME ControlTyped, NEW m \in Checkpoint, pc \in Finishing, FinishPersist(m)
  PROVE  ControlTyped' /\ pc' # "turn"
<1> DEFINE fail == CASE pc = "finish"  -> "except"
                     [] pc = "finishX" -> "exceptX"
                     [] OTHER          -> "down"
<1>1. fail \in Places /\ fail # "turn" BY DEF Places
<1>2. pc \in Places /\ pc # "turn" BY DEF Places, Finishing
<1>3. Persist(m, pc, fail) BY DEF FinishPersist
<1> HIDE DEF fail
<1> QED BY <1>1, <1>2, <1>3, PersistTyped

\* A step that touches no Agent turn, but may leave its directory behind.
LEMMA QuietTyped ==
  ASSUME TurnsTyped, pc' # "turn", art' \in {art, NoArt}, workers' = workers,
         refreshed' = refreshed, fresh' = fresh
  PROVE  TurnsTyped'
BY BlankTyped DEF TurnsTyped, ExecutorTurn

\* invoke_reviewer launches a turn, in its own thread or in a new one.
LEMMA StartReviewerTyped ==
  ASSUME TypeInv, NEW kind \in {"instruction", "review"}, StartReviewer(kind)
  PROVE  /\ ControlTyped'
         /\ art' \in Artifacts /\ art'.turn.kind = kind
         /\ fresh' \in Nat /\ workers' = workers
<1> DEFINE thread == IF ResumesThread THEN mem.rev.thread ELSE fresh + 1
           t == [NoTurn EXCEPT !.kind = kind, !.head = tgt.head, !.gov = gov,
                               !.rt = rt, !.thread = thread]
<1>1. thread \in Nat
  BY DEF TypeInv, TurnsTyped, ControlTyped, Checkpoint, ReviewerState
<1>2. t \in Turn /\ t.kind = kind
  <2> HIDE DEF thread
  <2>1. kind \in Kinds BY DEF Kinds
  <2> QED BY <1>1, <2>1, BlankTyped DEF TypeInv, WorldTyped, Turn
<1>3. art' = [st |-> "partial", turn |-> t] BY DEF StartReviewer
<1>4. art' \in Artifacts /\ art'.turn.kind = kind
  <2> HIDE DEF t
  <2> QED BY <1>2, <1>3 DEF Artifacts
<1>5. fresh' \in Nat BY DEF StartReviewer, TypeInv, TurnsTyped
<1>6. ControlTyped'
  BY JournalTyped DEF StartReviewer, TypeInv, ControlTyped, Places, budgets
<1> QED BY <1>4, <1>5, <1>6 DEF StartReviewer

-----------------------------------------------------------------------------

\* A crash or an I/O error, a torn process.json included.
LEMMA MishapTyped == TypeInv /\ Mishap => TypeInv'
<1> SUFFICES ASSUME TypeInv, Mishap PROVE TypeInv' OBVIOUS
<1>1. CASE Crash
  <2>1. ControlTyped'
    BY <1>1, JournalTyped DEF Crash, TypeInv, ControlTyped, Places
  <2>2. art' \in Artifacts
    BY <1>1 DEF Crash, CutShort, TypeInv, TurnsTyped, Artifacts
  <2>3. TurnsTyped' BY <1>1, <2>2 DEF Crash, TypeInv, TurnsTyped, ExecutorTurn
  <2>4. WorldTyped'
    BY <1>1 DEF Crash, CutShort, TypeInv, WorldTyped, target, docs, repo, history
  <2> QED BY <2>1, <2>3, <2>4 DEF TypeInv
<1>2. CASE IOError
  <2>1. ControlTyped'
    BY <1>2, JournalTyped DEF IOError, TypeInv, ControlTyped, Places
  <2>2. art' \in Artifacts
    BY <1>2 DEF IOError, CutShort, TypeInv, TurnsTyped, Artifacts
  <2>3. TurnsTyped' BY <1>2, <2>2 DEF IOError, TypeInv, TurnsTyped, ExecutorTurn
  <2>4. WorldTyped'
    BY <1>2 DEF IOError, CutShort, TypeInv, WorldTyped, target, docs, repo, history
  <2> QED BY <2>1, <2>3, <2>4 DEF TypeInv
<1>3. CASE FinishIOError
  <2>1. ControlTyped' /\ pc' # "turn"
    <3>1. faults' \in Nat
      BY <1>3 DEF FinishIOError, TypeInv, ControlTyped
    <3> QED BY <1>3, <3>1, FinishErrorTyped DEF FinishIOError, TypeInv
  <2>2. TurnsTyped'
    BY <1>3, <2>1, QuietTyped DEF FinishIOError, TypeInv, turns
  <2>3. WorldTyped'
    BY <1>3 DEF FinishIOError, TypeInv, WorldTyped, target, docs, repo, history
  <2> QED BY <2>1, <2>2, <2>3 DEF TypeInv
<1>4. CASE EventLost \/ LateEvent
  <2>1. log' \in Journal /\ faults' \in Nat
    <3>1. log \in Journal /\ faults \in Nat BY DEF TypeInv, ControlTyped
    <3>2. CASE EventLost
      <4>1. faults' \in Nat BY <3>1, <3>2 DEF EventLost
      <4>2. PICK o \in {"off", "stray"} : log' = [log EXCEPT !.obs = o]
        BY <3>2 DEF EventLost
      <4> QED BY <3>1, <4>1, <4>2 DEF Journal
    <3>3. CASE LateEvent
      <4>1. Record(FALSE) /\ faults' = faults BY <3>3 DEF LateEvent, budgets
      <4>2. log' \in Journal BY <3>1, <4>1, JournalTyped, Zenon
      <4> QED BY <3>1, <4>1, <4>2
    <3> QED BY <1>4, <3>2, <3>3
  <2>2. ControlTyped'
    <3>1. UNCHANGED <<ck, mem, pc, exc, crashes, edits>>
      BY <1>4 DEF EventLost, LateEvent, budgets
    <3> QED BY <2>1, <3>1 DEF TypeInv, ControlTyped
  <2>3. TurnsTyped'
    BY <1>4 DEF EventLost, LateEvent, TypeInv, TurnsTyped, turns, ExecutorTurn
  <2>4. WorldTyped'
    BY <1>4 DEF EventLost, LateEvent, TypeInv, WorldTyped, target, docs, repo,
                history
  <2> QED BY <2>2, <2>3, <2>4 DEF TypeInv
<1> QED BY <1>1, <1>2, <1>3, <1>4 DEF Mishap

\* Executor processes, orphans and Humans.
LEMMA EnvironmentTyped == TypeInv /\ Environment => TypeInv'
<1> SUFFICES ASSUME TypeInv, Environment PROVE TypeInv' OBVIOUS
<1>1. ControlTyped'
  BY DEF Environment, ExecutorCommits, ExecutorEditsFiles, OrphanExits,
         HumanCleans, Intervene, OutsideProgram, TypeInv, ControlTyped
<1>2. TurnsTyped'
  <2>1. UNCHANGED <<pc, art, refreshed, fresh>>
    BY DEF Environment, ExecutorCommits, ExecutorEditsFiles, OrphanExits,
           HumanCleans, Intervene, OutsideProgram
  <2>2. workers' \in Nat /\ (ExecutorTurn => workers' > 0)
    BY DEF Environment, ExecutorCommits, ExecutorEditsFiles, OrphanExits,
           HumanCleans, Intervene, TypeInv, TurnsTyped
  <2> QED BY <2>1, <2>2 DEF TypeInv, TurnsTyped, ExecutorTurn
<1>3. WorldTyped'
  <2> USE DEF OutsideProgram, NextHead, TypeInv, WorldTyped, target, docs, repo,
              history
  <2>1. CASE ExecutorCommits BY <2>1 DEF ExecutorCommits
  <2>2. CASE ExecutorEditsFiles BY <2>2 DEF ExecutorEditsFiles
  <2>3. CASE OrphanExits BY <2>3 DEF OrphanExits
  <2>4. CASE HumanCleans BY <2>4 DEF HumanCleans
  <2>5. CASE Intervene
    <3>1. tgt' \in [head: Nat, clean: BOOLEAN] BY <2>5 DEF Intervene
    <3>2. gov' \in Nat /\ evid' \in Nat BY <2>5 DEF Intervene
    <3>3. rt' \in Images BY <2>5 DEF Intervene, Images, Pre
    <3>4. summary' \in [n: Nat, intact: BOOLEAN, cited: BOOLEAN]
      BY <2>5 DEF Intervene
    <3> QED BY <2>5, <3>1, <3>2, <3>3, <3>4 DEF Intervene
  <2> QED BY <2>1, <2>2, <2>3, <2>4, <2>5 DEF Environment
<1> QED BY <1>1, <1>2, <1>3 DEF TypeInv

\* The end of an Agent turn, its audit and its summary entry.
LEMMA AgentTyped == TypeInv /\ Turns => TypeInv'
<1> SUFFICES ASSUME TypeInv, Turns PROVE TypeInv' OBVIOUS
<1>1. CASE TurnExits
  <2>1. ControlTyped' /\ pc' = "audit"
    <3>1. log' \in Journal BY <1>1 DEF TurnExits, TypeInv, ControlTyped, Journal
    <3> QED BY <1>1, <3>1 DEF TurnExits, TypeInv, ControlTyped, Places, budgets
  <2>2. art' \in Artifacts
    <3>1. art \in Artifacts /\ evid \in Nat
      BY DEF TypeInv, TurnsTyped, WorldTyped
    <3>2. [art EXCEPT !.turn.ok = FALSE] \in Artifacts
      BY <3>1 DEF Artifacts, Turn
    <3>3. [art.turn EXCEPT !.ok = TRUE] \in Turn BY <3>1 DEF Artifacts, Turn
    <3>4. ASSUME NEW v \in Verdicts, NEW d \in BOOLEAN
          PROVE  [art.turn EXCEPT !.ok = TRUE, !.kind = v, !.declared = d,
                                  !.evid = evid] \in Turn
      <4>1. v \in Kinds BY DEF Kinds
      <4> QED BY <3>1, <4>1 DEF Artifacts, Turn
    <3>5. \/ art' = [art EXCEPT !.turn.ok = FALSE]
          \/ \E st \in {"raw", "done"}, t \in Turn :
               art' = [st |-> st, turn |-> t]
      BY <1>1, <3>3, <3>4 DEF TurnExits
    <3>6. ASSUME NEW st \in {"raw", "done"}, NEW t \in Turn
          PROVE  [st |-> st, turn |-> t] \in Artifacts
      BY DEF Artifacts
    <3> QED BY <3>2, <3>5, <3>6
  <2>3. workers' \in Nat
    <3>1. CASE ExecutorTurn
      <4>1. workers' = workers - 1 BY <1>1, <3>1 DEF TurnExits
      <4> QED BY <3>1, <4>1 DEF TypeInv, TurnsTyped
    <3>2. CASE ~ExecutorTurn
      BY <1>1, <3>2 DEF TurnExits, TypeInv, TurnsTyped
    <3> QED BY <3>1, <3>2
  <2>4. TurnsTyped'
    <3>1. UNCHANGED <<refreshed, fresh>> BY <1>1 DEF TurnExits
    <3> QED BY <2>1, <2>2, <2>3, <3>1 DEF TypeInv, TurnsTyped, ExecutorTurn
  <2>5. effect' \subseteq Nat
    BY <1>1 DEF TurnExits, TypeInv, WorldTyped, ControlTyped, Checkpoint
  <2>6. WorldTyped'
    BY <1>1, <2>5 DEF TurnExits, TypeInv, WorldTyped, target, docs, repo
  <2> QED BY <2>1, <2>4, <2>6 DEF TypeInv
<1>2. CASE AuditReviewer
  <2> DEFINE good == art.st = "raw"
                       /\ tgt = [head |-> art.turn.head, clean |-> TRUE]
                       /\ gov = art.turn.gov /\ rt = art.turn.rt
             t == [art.turn EXCEPT !.ok = good]
             rev == IF good THEN [thread |-> art.turn.thread, gov |-> art.turn.gov,
                                  rt |-> art.turn.rt, head |-> art.turn.head]
                    ELSE mem.rev
             instr == IF mem.state = INSTRUCTION_READY THEN t ELSE mem.instr
  <2>1. t \in Turn
    <3>1. good \in BOOLEAN OBVIOUS
    <3> HIDE DEF good
    <3> QED BY <3>1 DEF TypeInv, TurnsTyped, Artifacts, Turn
  <2>2. rev \in ReviewerState
    BY DEF TypeInv, TurnsTyped, ControlTyped, Artifacts, Turn, Checkpoint,
           ReviewerState
  <2>3. instr \in Turn BY <2>1 DEF TypeInv, ControlTyped, Checkpoint
  <2>4. /\ art' = [st |-> IF good THEN "done" ELSE "partial", turn |-> t]
        /\ mem' = [mem EXCEPT !.rev = rev, !.instr = instr]
    BY <1>2 DEF AuditReviewer
  <2> HIDE DEF good, t, rev, instr
  <2>5. mem' \in Checkpoint
    BY <2>2, <2>3, <2>4 DEF TypeInv, ControlTyped, Checkpoint
  <2>6. art' \in Artifacts BY <2>1, <2>4 DEF Artifacts
  <2>7. ControlTyped'
    BY <1>2, <2>5 DEF AuditReviewer, TypeInv, ControlTyped, Places, budgets
  <2>8. TurnsTyped'
    BY <1>2, <2>6 DEF AuditReviewer, TypeInv, TurnsTyped, ExecutorTurn
  <2>9. WorldTyped'
    BY <1>2 DEF AuditReviewer, TypeInv, WorldTyped, target, docs, repo, history
  <2> QED BY <2>7, <2>8, <2>9 DEF TypeInv
<1>3. CASE CaptureExecutor
  <2>1. ControlTyped' /\ pc' = "summary"
    BY <1>3, GotoTyped DEF CaptureExecutor, TypeInv, Places
  <2>2. art' \in Artifacts
    BY <1>3 DEF CaptureExecutor, TypeInv, TurnsTyped, WorldTyped, Artifacts, Turn
  <2>3. TurnsTyped'
    BY <1>3, <2>1, <2>2 DEF CaptureExecutor, TypeInv, TurnsTyped, ExecutorTurn
  <2>4. WorldTyped'
    BY <1>3 DEF CaptureExecutor, TypeInv, WorldTyped, target, docs, repo, history
  <2> QED BY <2>1, <2>3, <2>4 DEF TypeInv
<1>4. CASE PlanSummary
  <2>1. [mem EXCEPT !.pending = TRUE] \in Checkpoint
    BY DEF TypeInv, ControlTyped, Checkpoint
  <2>2. ControlTyped' /\ pc' # "turn"
    BY <1>4, <2>1, RaiseTyped, GotoTyped, PersistTyped
    DEF PlanSummary, TypeInv, Places
  <2>3. TurnsTyped' BY <1>4, <2>2, QuietTyped DEF PlanSummary, TypeInv, turns
  <2>4. WorldTyped'
    BY <1>4 DEF PlanSummary, TypeInv, WorldTyped, target, docs, repo, history
  <2> QED BY <2>2, <2>3, <2>4 DEF TypeInv
<1>5. CASE AppendSummary
  <2>1. ControlTyped' /\ pc' # "turn"
    BY <1>5, RaiseTyped, GotoTyped DEF AppendSummary, TypeInv, Places
  <2>2. TurnsTyped' BY <1>5, <2>1, QuietTyped DEF AppendSummary, TypeInv, turns
  <2>3. summary' \in [n: Nat, intact: BOOLEAN, cited: BOOLEAN]
    BY <1>5 DEF AppendSummary, TypeInv, WorldTyped, ControlTyped, Checkpoint
  <2>4. WorldTyped'
    BY <1>5, <2>3 DEF AppendSummary, TypeInv, WorldTyped, target, docs, repo, history
  <2> QED BY <2>1, <2>2, <2>4 DEF TypeInv
<1>6. CASE NoteSummary
  <2> DEFINE m == [mem EXCEPT !.entries = @ + 1, !.pending = FALSE,
                              !.recorded = TRUE]
             next == IF pc = "appended" THEN "route" ELSE ResumePoint
             fail == IF pc = "appended" THEN "except" ELSE "down"
  <2>1. m \in Checkpoint
    <3>1. mem.entries + 1 \in Nat BY DEF TypeInv, ControlTyped, Checkpoint
    <3> QED BY <3>1 DEF TypeInv, ControlTyped, Checkpoint
  <2>2. next \in Places \ {"turn"} /\ fail \in Places \ {"turn"}
    BY DEF ResumePoint, Places, Finishing
  <2>3. Persist(m, next, fail) BY <1>6 DEF NoteSummary
  <2> HIDE DEF m, next, fail
  <2>4. ControlTyped' /\ pc' # "turn"
    BY <2>1, <2>2, <2>3, PersistTyped DEF TypeInv
  <2>5. TurnsTyped' BY <1>6, <2>4, QuietTyped DEF NoteSummary, TypeInv, turns
  <2>6. WorldTyped'
    BY <1>6 DEF NoteSummary, TypeInv, WorldTyped, target, docs, repo, history
  <2> QED BY <2>4, <2>5, <2>6 DEF TypeInv
<1> QED BY <1>1, <1>2, <1>3, <1>4, <1>5, <1>6 DEF Turns

\* The branches up to EXECUTOR_RUNNING.
LEMMA InstructingTyped == TypeInv /\ Instructing => TypeInv'
<1> SUFFICES ASSUME TypeInv, Instructing PROVE TypeInv' OBVIOUS
<1>1. CASE PrepareInstruction
  <2>1. ControlTyped' /\ pc' # "turn"
    <3>1. CASE art.st = "done"
      <4>1. FromTurn(art.turn) \in ReviewerState
        BY DEF TypeInv, TurnsTyped, Artifacts, Turn, FromTurn, ReviewerState
      <4>2. mem' \in Checkpoint
        BY <1>1, <3>1, <4>1
        DEF PrepareInstruction, TypeInv, ControlTyped, Checkpoint
      <4> QED BY <1>1, <3>1, <4>2
              DEF PrepareInstruction, TypeInv, ControlTyped, Places, budgets
    <3>2. CASE art.st # "done"
      <4> DEFINE rev == IF art.st = "none" THEN mem.rev ELSE NoReviewer
                 active == IF art.st = "none" /\ mem.active # 0 THEN mem.active
                           ELSE mem.active + 1
                 m == [mem EXCEPT !.state = REVIEWER_INSTRUCTION_RUNNING,
                         !.rev = rev, !.active = active, !.recorded = FALSE]
      <4>1. rev \in ReviewerState
        BY BlankTyped DEF TypeInv, ControlTyped, Checkpoint
      <4>2. active \in Nat BY DEF TypeInv, ControlTyped, Checkpoint
      <4>3. REVIEWER_INSTRUCTION_RUNNING \in States BY DEF States, Working
      <4>4. Persist(m, "launch", "except") BY <1>1, <3>2 DEF PrepareInstruction
      <4>5. m \in Checkpoint
        <5> HIDE DEF rev, active
        <5> QED BY <4>1, <4>2, <4>3 DEF TypeInv, ControlTyped, Checkpoint
      <4> HIDE DEF m
      <4> QED BY <4>4, <4>5, PersistTyped DEF TypeInv, Places
    <3> QED BY <3>1, <3>2
  <2>2. TurnsTyped'
    BY <1>1, <2>1, QuietTyped DEF PrepareInstruction, LeaveTurn, TypeInv
  <2>3. WorldTyped'
    BY <1>1 DEF PrepareInstruction, TypeInv, WorldTyped, target, docs, repo, history
  <2> QED BY <2>1, <2>2, <2>3 DEF TypeInv
<1>2. CASE LaunchInstruction
  <2>1. ControlTyped' /\ TurnsTyped'
    <3>1. CASE ~tgt.clean
      <4>1. ControlTyped' /\ pc' # "turn"
        BY <1>2, <3>1, RaiseTyped DEF LaunchInstruction, TypeInv
      <4> QED BY <1>2, <3>1, <4>1, QuietTyped DEF LaunchInstruction, TypeInv
    <3>2. CASE tgt.clean
      <4>1. StartReviewer("instruction") BY <1>2, <3>2 DEF LaunchInstruction
      <4> QED BY <1>2, <4>1, StartReviewerTyped
              DEF LaunchInstruction, TypeInv, TurnsTyped, ExecutorTurn
    <3> QED BY <3>1, <3>2
  <2>2. WorldTyped'
    BY <1>2 DEF LaunchInstruction, TypeInv, WorldTyped, target, docs, repo, history
  <2> QED BY <2>1, <2>2 DEF TypeInv
<1>3. CASE RouteInstruction
  <2> DEFINE m == [mem EXCEPT !.state = INSTRUCTION_READY, !.instr = art.turn,
                              !.active = 0, !.recorded = FALSE]
  <2>1. m \in Checkpoint
    <3>1. INSTRUCTION_READY \in States BY DEF States, Working
    <3>2. art.turn \in Turn BY DEF TypeInv, TurnsTyped, Artifacts
    <3> QED BY <3>1, <3>2 DEF TypeInv, ControlTyped, Checkpoint
  <2>2. Raise("inv") \/ Persist(m, "loop", "except")
    BY <1>3 DEF RouteInstruction
  <2> HIDE DEF m
  <2>3. ControlTyped' /\ pc' # "turn"
    BY <2>1, <2>2, RaiseTyped, PersistTyped DEF TypeInv, Places
  <2>4. TurnsTyped'
    BY <1>3, <2>3, QuietTyped DEF RouteInstruction, LeaveTurn, TypeInv
  <2>5. WorldTyped'
    BY <1>3 DEF RouteInstruction, TypeInv, WorldTyped, target, docs, repo, history
  <2> QED BY <2>3, <2>4, <2>5 DEF TypeInv
<1>4. ASSUME CheckFreshness \/ RouteRefresh PROVE TypeInv'
  <2>1. ExecutorCheckpoint \in Checkpoint
    <3>1. EXECUTOR_RUNNING \in States BY DEF States, Working
    <3>2. tgt.head \in Nat BY DEF TypeInv, WorldTyped
    <3> QED BY <3>1, <3>2, BlankTyped
            DEF ExecutorCheckpoint, TypeInv, ControlTyped, Checkpoint
  <2>2. WorldTyped'
    BY <1>4 DEF CheckFreshness, RouteRefresh, TypeInv, WorldTyped, target, docs,
                repo, history
  <2>3. CASE CheckFreshness /\ tgt.clean /\ ~Fresh /\ mem.cycle \notin refreshed
    <3>1. StartReviewer("instruction") BY <2>3 DEF CheckFreshness
    <3>2. refreshed' \subseteq Nat
      BY <2>3 DEF CheckFreshness, TypeInv, TurnsTyped, ControlTyped, Checkpoint
    <3>3. TurnsTyped'
      BY <3>1, <3>2, StartReviewerTyped DEF TypeInv, TurnsTyped, ExecutorTurn
    <3> QED BY <2>2, <3>1, <3>3, StartReviewerTyped DEF TypeInv
  <2>4. CASE ~(CheckFreshness /\ tgt.clean /\ ~Fresh /\ mem.cycle \notin refreshed)
    <3>1. \/ Raise("inv") \/ Raise("os")
          \/ Persist(ExecutorCheckpoint, "loop", "except")
      BY <1>4, <2>4 DEF CheckFreshness, RouteRefresh
    <3>2. ControlTyped' /\ pc' # "turn"
      BY <2>1, <3>1, RaiseTyped, PersistTyped DEF TypeInv, Places
    <3>3. TurnsTyped'
      BY <1>4, <2>4, <3>2, QuietTyped
      DEF CheckFreshness, RouteRefresh, LeaveTurn, TypeInv
    <3> QED BY <2>2, <3>2, <3>3 DEF TypeInv
  <2> QED BY <2>3, <2>4
<1> QED BY <1>1, <1>2, <1>3, <1>4 DEF Instructing

\* The branches EXECUTOR_RUNNING and EXECUTOR_COMMITTED.
LEMMA ExecutingTyped == TypeInv /\ Executing => TypeInv'
<1> SUFFICES ASSUME TypeInv, Executing PROVE TypeInv' OBVIOUS
<1>1. CASE PrepareExecutor
  <2> DEFINE m1 == [mem EXCEPT !.active = 0, !.ta = tgt.head]
             m2 == [mem EXCEPT !.active = @ + 1, !.recorded = FALSE]
  <2>1. m1 \in Checkpoint
    <3>1. tgt.head \in Nat BY DEF TypeInv, WorldTyped
    <3> QED BY <3>1 DEF TypeInv, ControlTyped, Checkpoint
  <2>2. m2 \in Checkpoint
    <3>1. mem.active + 1 \in Nat BY DEF TypeInv, ControlTyped, Checkpoint
    <3> QED BY <3>1 DEF TypeInv, ControlTyped, Checkpoint
  <2>3. \/ Goto("audit") \/ Goto("launch") \/ Raise("inv")
        \/ ReachOutcome(m1, HUMAN_GATE, 0, "finish", "except")
        \/ Persist(m2, "launch", "except")
    BY <1>1 DEF PrepareExecutor
  <2> HIDE DEF m1, m2
  <2>4. ControlTyped' /\ pc' # "turn"
    BY <2>1, <2>2, <2>3, RaiseTyped, GotoTyped, PersistTyped, OutcomeTyped
    DEF TypeInv, Places, Finishing
  <2>5. TurnsTyped'
    BY <1>1, <2>4, QuietTyped DEF PrepareExecutor, LeaveTurn, TypeInv
  <2>6. WorldTyped'
    BY <1>1 DEF PrepareExecutor, TypeInv, WorldTyped, target, docs, repo, history
  <2> QED BY <2>4, <2>5, <2>6 DEF TypeInv
<1>2. CASE LaunchExecutor
  <2>1. WorldTyped'
    BY <1>2 DEF LaunchExecutor, TypeInv, WorldTyped, target, docs, repo, history
  <2>2. CASE ~KnowsDocs
    <3>1. ControlTyped' /\ pc' # "turn"
      BY <1>2, <2>2, RaiseTyped DEF LaunchExecutor, TypeInv
    <3>2. TurnsTyped'
      BY <1>2, <2>2, <3>1, QuietTyped DEF LaunchExecutor, TypeInv
    <3> QED BY <2>1, <3>1, <3>2 DEF TypeInv
  <2>3. CASE KnowsDocs
    <3>1. StartExecutor BY <1>2, <2>3 DEF LaunchExecutor
    <3>2. ControlTyped' BY <3>1, GotoTyped DEF StartExecutor, TypeInv, Places
    <3>3. art' \in Artifacts
      <4>1. "receipt" \in Kinds BY DEF Kinds
      <4>2. [NoTurn EXCEPT !.kind = "receipt", !.head = tgt.head, !.gov = gov,
                           !.rt = rt] \in Turn
        BY <4>1, BlankTyped DEF TypeInv, WorldTyped, Turn
      <4> QED BY <3>1, <4>2 DEF StartExecutor, Artifacts
    <3>4. workers' \in Nat /\ workers' > 0
      BY <3>1 DEF StartExecutor, TypeInv, TurnsTyped
    <3>5. TurnsTyped'
      BY <1>2, <3>1, <3>3, <3>4
      DEF LaunchExecutor, StartExecutor, TypeInv, TurnsTyped
    <3> QED BY <2>1, <3>2, <3>5 DEF TypeInv
  <2> QED BY <2>2, <2>3
<1>3. CASE RouteExecutor
  <2> DEFINE m == [mem EXCEPT !.state = EXECUTOR_COMMITTED, !.exec = art.turn,
                              !.ta = art.turn.head, !.active = 0,
                              !.recorded = FALSE]
  <2>1. m \in Checkpoint
    <3>1. EXECUTOR_COMMITTED \in States BY DEF States, Working
    <3>2. art.turn \in Turn /\ art.turn.head \in Nat
      BY DEF TypeInv, TurnsTyped, Artifacts, Turn
    <3> QED BY <3>1, <3>2 DEF TypeInv, ControlTyped, Checkpoint
  <2>2. Raise("inv") \/ Persist(m, "loop", "except") BY <1>3 DEF RouteExecutor
  <2> HIDE DEF m
  <2>3. ControlTyped' /\ pc' # "turn"
    BY <2>1, <2>2, RaiseTyped, PersistTyped DEF TypeInv, Places
  <2>4. TurnsTyped'
    BY <1>3, <2>3, QuietTyped DEF RouteExecutor, LeaveTurn, TypeInv
  <2>5. WorldTyped'
    BY <1>3 DEF RouteExecutor, TypeInv, WorldTyped, target, docs, repo, history
  <2> QED BY <2>3, <2>4, <2>5 DEF TypeInv
<1>4. CASE PlanReview
  <2> DEFINE m == [mem EXCEPT !.state = REVIEW_PENDING, !.active = 1]
  <2>1. m \in Checkpoint
    <3>1. REVIEW_PENDING \in States BY DEF States, Working
    <3> QED BY <3>1 DEF TypeInv, ControlTyped, Checkpoint
  <2>2. Raise("inv") \/ Persist(m, "loop", "except") BY <1>4 DEF PlanReview
  <2> HIDE DEF m
  <2>3. ControlTyped' /\ pc' # "turn"
    BY <2>1, <2>2, RaiseTyped, PersistTyped DEF TypeInv, Places
  <2>4. TurnsTyped' BY <1>4, <2>3, QuietTyped DEF PlanReview, TypeInv, turns
  <2>5. WorldTyped'
    BY <1>4 DEF PlanReview, TypeInv, WorldTyped, target, docs, repo, history
  <2> QED BY <2>3, <2>4, <2>5 DEF TypeInv
<1> QED BY <1>1, <1>2, <1>3, <1>4 DEF Executing

\* The branches REVIEW_PENDING and REVIEW_COMPLETED.
LEMMA ReviewingTyped == TypeInv /\ Reviewing => TypeInv'
<1> SUFFICES ASSUME TypeInv, Reviewing PROVE TypeInv' OBVIOUS
<1>1. CASE PrepareReview
  <2> DEFINE m == [mem EXCEPT !.rev = NoReviewer, !.active = @ + 1,
                              !.recorded = FALSE]
  <2>1. m \in Checkpoint
    <3>1. mem.active + 1 \in Nat BY DEF TypeInv, ControlTyped, Checkpoint
    <3> QED BY <3>1, BlankTyped DEF TypeInv, ControlTyped, Checkpoint
  <2>2. [mem EXCEPT !.rev = FromTurn(art.turn)] \in Checkpoint
    <3>1. FromTurn(art.turn) \in ReviewerState
      BY DEF TypeInv, TurnsTyped, Artifacts, Turn, FromTurn, ReviewerState
    <3> QED BY <3>1 DEF TypeInv, ControlTyped, Checkpoint
  <2>3. \/ Goto("launch") \/ Persist(m, "launch", "except")
        \/ /\ mem' = [mem EXCEPT !.rev = FromTurn(art.turn)]
           /\ pc' = "summary" /\ UNCHANGED <<ck, exc, log, budgets>>
    BY <1>1 DEF PrepareReview
  <2> HIDE DEF m
  <2>4. ControlTyped' /\ pc' # "turn"
    <3>1. CASE Goto("launch") BY <3>1, GotoTyped DEF TypeInv, Places
    <3>2. CASE Persist(m, "launch", "except")
      BY <2>1, <3>2, PersistTyped DEF TypeInv, Places
    <3>3. CASE /\ mem' = [mem EXCEPT !.rev = FromTurn(art.turn)]
               /\ pc' = "summary" /\ UNCHANGED <<ck, exc, log, budgets>>
      BY <2>2, <3>3 DEF TypeInv, ControlTyped, Places, budgets
    <3> QED BY <2>3, <3>1, <3>2, <3>3
  <2>5. TurnsTyped'
    BY <1>1, <2>4, QuietTyped DEF PrepareReview, LeaveTurn, TypeInv
  <2>6. WorldTyped'
    BY <1>1 DEF PrepareReview, TypeInv, WorldTyped, target, docs, repo, history
  <2> QED BY <2>4, <2>5, <2>6 DEF TypeInv
<1>2. CASE LaunchReview
  <2>1. WorldTyped'
    BY <1>2 DEF LaunchReview, TypeInv, WorldTyped, target, docs, repo, history
  <2>2. CASE ~AtTargetAfter
    <3>1. ControlTyped' /\ pc' # "turn"
      BY <1>2, <2>2, RaiseTyped DEF LaunchReview, TypeInv
    <3>2. TurnsTyped' BY <1>2, <2>2, <3>1, QuietTyped DEF LaunchReview, TypeInv
    <3> QED BY <2>1, <3>1, <3>2 DEF TypeInv
  <2>3. CASE AtTargetAfter
    <3>1. StartReviewer("review") BY <1>2, <2>3 DEF LaunchReview
    <3>2. TurnsTyped'
      BY <1>2, <3>1, StartReviewerTyped
      DEF LaunchReview, TypeInv, TurnsTyped, ExecutorTurn
    <3> QED BY <2>1, <3>1, <3>2, StartReviewerTyped DEF TypeInv
  <2> QED BY <2>2, <2>3
<1>3. CASE RouteReview
  <2> DEFINE m == [mem EXCEPT !.state = REVIEW_COMPLETED, !.instr = art.turn,
                              !.corr = NoCorrection, !.active = 0,
                              !.recorded = FALSE]
  <2>1. m \in Checkpoint
    <3>1. REVIEW_COMPLETED \in States BY DEF States, Working
    <3>2. art.turn \in Turn BY DEF TypeInv, TurnsTyped, Artifacts
    <3> QED BY <3>1, <3>2, BlankTyped DEF TypeInv, ControlTyped, Checkpoint
  <2>2. Raise("inv") \/ Persist(m, "loop", "except") BY <1>3 DEF RouteReview
  <2> HIDE DEF m
  <2>3. ControlTyped' /\ pc' # "turn"
    BY <2>1, <2>2, RaiseTyped, PersistTyped DEF TypeInv, Places
  <2>4. TurnsTyped'
    BY <1>3, <2>3, QuietTyped DEF RouteReview, LeaveTurn, TypeInv
  <2>5. WorldTyped'
    BY <1>3 DEF RouteReview, TypeInv, WorldTyped, target, docs, repo, history
  <2> QED BY <2>3, <2>4, <2>5 DEF TypeInv
<1>4. CASE RefuseVerdict
  <2>1. ControlTyped' /\ pc' # "turn"
    BY <1>4, RaiseTyped DEF RefuseVerdict, TypeInv
  <2>2. TurnsTyped' BY <1>4, <2>1, QuietTyped DEF RefuseVerdict, TypeInv, turns
  <2>3. WorldTyped'
    BY <1>4 DEF RefuseVerdict, TypeInv, WorldTyped, target, docs, repo, history
  <2> QED BY <2>1, <2>2, <2>3 DEF TypeInv
<1>5. CASE PlanCorrection
  <2> DEFINE corr == [mem.corr EXCEPT !.on = TRUE, !.thread = mem.instr.thread,
                                      !.guards = mem.corr.guards \cup {evid},
                                      !.pending = mem.corr.completed + 1]
             m == [mem EXCEPT !.state = REVIEW_CORRECTION_PENDING, !.corr = corr]
  <2>1. corr \in Correction
    <3>1. /\ mem.instr.thread \in Nat /\ mem.corr \in Correction
          /\ mem.corr.completed + 1 \in Nat
          /\ mem.corr.guards \cup {evid} \subseteq Nat
      BY DEF TypeInv, ControlTyped, WorldTyped, Checkpoint, Turn, Correction
    <3> QED BY <3>1 DEF Correction
  <2>2. REVIEW_CORRECTION_PENDING \in States BY DEF States, Working
  <2>3. Persist(m, "loop", "except") BY <1>5 DEF PlanCorrection
  <2> HIDE DEF corr
  <2>4. m \in Checkpoint
    BY <2>1, <2>2 DEF TypeInv, ControlTyped, Checkpoint
  <2> HIDE DEF m
  <2>5. ControlTyped' /\ pc' # "turn"
    BY <2>3, <2>4, PersistTyped DEF TypeInv, Places
  <2>6. TurnsTyped' BY <1>5, <2>5, QuietTyped DEF PlanCorrection, TypeInv, turns
  <2>7. WorldTyped'
    BY <1>5 DEF PlanCorrection, TypeInv, WorldTyped, target, docs, repo, history
  <2> QED BY <2>5, <2>6, <2>7 DEF TypeInv
<1>6. CASE FollowHumanGate
  <2>1. ControlTyped' /\ pc' # "turn"
    <3>1. mem \in Checkpoint BY DEF TypeInv, ControlTyped
    <3>2. ReachOutcome(mem, HUMAN_GATE, 0, "finish", "except")
      BY <1>6 DEF FollowHumanGate
    <3> QED BY <3>1, <3>2, OutcomeTyped DEF TypeInv, Places, Finishing
  <2>2. TurnsTyped' BY <1>6, <2>1, QuietTyped DEF FollowHumanGate, TypeInv, turns
  <2>3. WorldTyped'
    BY <1>6 DEF FollowHumanGate, TypeInv, WorldTyped, target, docs, repo, history
  <2> QED BY <2>1, <2>2, <2>3 DEF TypeInv
<1>7. CASE PlanTransition
  <2> DEFINE m == [mem EXCEPT !.state = RUNTIME_TRANSITION_PENDING,
                              !.plan = [id |-> fresh + 1, pre |-> rt]]
  <2>1. fresh + 1 \in Nat /\ fresh' = fresh + 1
    BY <1>7 DEF PlanTransition, TypeInv, TurnsTyped
  <2>2. m \in Checkpoint
    <3>1. RUNTIME_TRANSITION_PENDING \in States BY DEF States, Transition
    <3>2. [id |-> fresh + 1, pre |-> rt] \in [id: Nat, pre: Images]
      BY <2>1 DEF TypeInv, WorldTyped
    <3> QED BY <3>1, <3>2 DEF TypeInv, ControlTyped, Checkpoint
  <2>3. Persist(m, "loop", "except") BY <1>7 DEF PlanTransition
  <2> HIDE DEF m
  <2>4. ControlTyped' /\ pc' # "turn"
    BY <2>2, <2>3, PersistTyped DEF TypeInv, Places
  <2>5. TurnsTyped'
    BY <1>7, <2>1, <2>4 DEF PlanTransition, TypeInv, TurnsTyped, ExecutorTurn
  <2>6. WorldTyped'
    BY <1>7 DEF PlanTransition, TypeInv, WorldTyped, target, docs, repo, history
  <2> QED BY <2>4, <2>5, <2>6 DEF TypeInv
<1>8. CASE FollowReject
  <2> DEFINE m == [mem EXCEPT !.state = INSTRUCTION_READY, !.cycle = @ + 1,
                              !.corr = NoCorrection, !.exec = NoTurn,
                              !.tb = 0, !.ta = 0, !.active = 0]
  <2>1. m \in Checkpoint
    <3>1. mem.cycle + 1 \in Nat BY DEF TypeInv, ControlTyped, Checkpoint
    <3>2. INSTRUCTION_READY \in States BY DEF States, Working
    <3> QED BY <3>1, <3>2, BlankTyped DEF TypeInv, ControlTyped, Checkpoint
  <2>2. \/ ReachOutcome(mem, HUMAN_GATE, 0, "finish", "except")
        \/ Persist(m, "loop", "except")
    BY <1>8 DEF FollowReject
  <2> HIDE DEF m
  <2>3. ControlTyped' /\ pc' # "turn"
    <3>1. mem \in Checkpoint BY DEF TypeInv, ControlTyped
    <3> QED BY <2>1, <2>2, <3>1, PersistTyped, OutcomeTyped
            DEF TypeInv, Places, Finishing
  <2>4. TurnsTyped' BY <1>8, <2>3, QuietTyped DEF FollowReject, TypeInv, turns
  <2>5. corrections' \in Nat
    BY <1>8 DEF FollowReject, TypeInv, WorldTyped
  <2>6. WorldTyped'
    BY <1>8, <2>5 DEF FollowReject, TypeInv, WorldTyped, target, docs, repo
  <2> QED BY <2>3, <2>4, <2>6 DEF TypeInv
<1> QED BY <1>1, <1>2, <1>3, <1>4, <1>5, <1>6, <1>7, <1>8 DEF Reviewing

\* The branches of a correction of the verdict.
LEMMA CorrectingTyped == TypeInv /\ Correcting => TypeInv'
<1> SUFFICES ASSUME TypeInv, Correcting PROVE TypeInv' OBVIOUS
<1>1. CASE StartCorrection
  <2>1. CorrectionCheckpoint \in Checkpoint
    <3>1. REVIEW_CORRECTION_RUNNING \in States BY DEF States, Working
    <3>2. [mem.corr EXCEPT !.started = mem.corr.pending] \in Correction
      BY DEF TypeInv, ControlTyped, Checkpoint, Correction
    <3> QED BY <3>1, <3>2
            DEF CorrectionCheckpoint, TypeInv, ControlTyped, Checkpoint
  <2>2. Raise("inv") \/ Persist(CorrectionCheckpoint, "loop", "except")
    BY <1>1 DEF StartCorrection
  <2>3. ControlTyped' /\ pc' # "turn"
    BY <2>1, <2>2, RaiseTyped, PersistTyped DEF TypeInv, Places
  <2>4. TurnsTyped' BY <1>1, <2>3, QuietTyped DEF StartCorrection, TypeInv, turns
  <2>5. WorldTyped'
    BY <1>1 DEF StartCorrection, TypeInv, WorldTyped, target, docs, repo, history
  <2> QED BY <2>3, <2>4, <2>5 DEF TypeInv
<1>2. CASE RunCorrection
  <2>1. WorldTyped'
    BY <1>2 DEF RunCorrection, TypeInv, WorldTyped, target, docs, repo
  <2>2. CASE StartReviewer("review")
    <3>1. TurnsTyped'
      BY <1>2, <2>2, StartReviewerTyped
      DEF RunCorrection, TypeInv, TurnsTyped, ExecutorTurn
    <3> QED BY <2>1, <2>2, <3>1, StartReviewerTyped DEF TypeInv
  <2>3. CASE Raise("inv") /\ UNCHANGED <<art, fresh, workers>>
    <3>1. ControlTyped' /\ pc' # "turn" BY <2>3, RaiseTyped DEF TypeInv
    <3>2. TurnsTyped'
      BY <1>2, <2>3, <3>1, QuietTyped DEF RunCorrection, TypeInv
    <3> QED BY <2>1, <3>1, <3>2 DEF TypeInv
  <2>4. CASE /\ mem' = [mem EXCEPT !.rev = FromTurn(art.turn)]
             /\ pc' = "summary"
             /\ UNCHANGED <<ck, exc, log, art, fresh, workers, budgets>>
    <3>1. mem' \in Checkpoint
      <4>1. FromTurn(art.turn) \in ReviewerState
        BY DEF TypeInv, TurnsTyped, Artifacts, Turn, FromTurn, ReviewerState
      <4> QED BY <2>4, <4>1 DEF TypeInv, ControlTyped, Checkpoint
    <3>2. ControlTyped' /\ pc' # "turn"
      BY <2>4, <3>1 DEF TypeInv, ControlTyped, Places, budgets
    <3>3. TurnsTyped'
      BY <1>2, <2>4, <3>2, QuietTyped DEF RunCorrection, TypeInv
    <3> QED BY <2>1, <3>2, <3>3 DEF TypeInv
  <2> QED BY <1>2, <2>2, <2>3, <2>4 DEF RunCorrection
<1>3. CASE RouteCorrection
  <2> DEFINE corr == [mem.corr EXCEPT !.completed = @ + 1, !.pending = 0]
             m == [mem EXCEPT !.state = REVIEW_COMPLETED, !.instr = art.turn,
                              !.corr.completed = @ + 1, !.corr.pending = 0,
                              !.active = 0, !.recorded = FALSE]
  <2>1. m \in Checkpoint
    <3>1. REVIEW_COMPLETED \in States BY DEF States, Working
    <3>2. art.turn \in Turn BY DEF TypeInv, TurnsTyped, Artifacts
    <3>3. corr \in Correction
      <4>1. mem.corr \in Correction BY DEF TypeInv, ControlTyped, Checkpoint
      <4>2. mem.corr.completed + 1 \in Nat BY <4>1 DEF Correction
      <4> QED BY <4>1, <4>2 DEF Correction
    <3>4. m = [mem EXCEPT !.state = REVIEW_COMPLETED, !.instr = art.turn,
                          !.corr = corr, !.active = 0, !.recorded = FALSE]
      BY DEF TypeInv, ControlTyped, Checkpoint, Correction
    <3> HIDE DEF corr, m
    <3> QED BY <3>1, <3>2, <3>3, <3>4 DEF TypeInv, ControlTyped, Checkpoint
  <2>2. Raise("inv") \/ Persist(m, "loop", "except") BY <1>3 DEF RouteCorrection
  <2> HIDE DEF m
  <2>3. ControlTyped' /\ pc' # "turn"
    BY <2>1, <2>2, RaiseTyped, PersistTyped DEF TypeInv, Places
  <2>4. TurnsTyped'
    BY <1>3, <2>3, QuietTyped DEF RouteCorrection, LeaveTurn, TypeInv
  <2>5. WorldTyped'
    BY <1>3 DEF RouteCorrection, TypeInv, WorldTyped, target, docs, repo, history
  <2> QED BY <2>3, <2>4, <2>5 DEF TypeInv
<1> QED BY <1>1, <1>2, <1>3 DEF Correcting

\* The branches of the Runtime transition.
LEMMA AcceptingTyped == TypeInv /\ Accepting => TypeInv'
<1> SUFFICES ASSUME TypeInv, Accepting PROVE TypeInv' OBVIOUS
<1>1. CASE ReconcileRuntime
  <2>1. ControlTyped' /\ pc' # "turn"
    BY <1>1, RaiseTyped, GotoTyped DEF ReconcileRuntime, TypeInv, Places
  <2>2. TurnsTyped' BY <1>1, <2>1, QuietTyped DEF ReconcileRuntime, TypeInv, turns
  <2>3. WorldTyped'
    BY <1>1 DEF ReconcileRuntime, TypeInv, WorldTyped, target, docs, repo, history
  <2> QED BY <2>1, <2>2, <2>3 DEF TypeInv
<1>2. CASE ReplaceRuntime
  <2>1. ControlTyped' /\ pc' # "turn"
    BY <1>2, RaiseTyped, GotoTyped DEF ReplaceRuntime, TypeInv, Places
  <2>2. TurnsTyped' BY <1>2, <2>1, QuietTyped DEF ReplaceRuntime, TypeInv, turns
  <2>3. mem.plan.id \in Nat /\ mem.plan.id \in Images
    BY DEF TypeInv, ControlTyped, Checkpoint, Images
  <2>4. rt' \in Images /\ written' \subseteq Nat
    BY <1>2, <2>3 DEF ReplaceRuntime, TypeInv, WorldTyped
  <2>5. WorldTyped'
    BY <1>2, <2>4 DEF ReplaceRuntime, TypeInv, WorldTyped, target, repo
  <2> QED BY <2>1, <2>2, <2>5 DEF TypeInv
<1>3. CASE MarkApplied
  <2>1. Applied \in Checkpoint BY DEF Applied, TypeInv, ControlTyped, Checkpoint
  <2>2. ControlTyped' /\ pc' # "turn"
    BY <1>3, <2>1, OutcomeTyped DEF MarkApplied, TypeInv, Places, Finishing
  <2>3. TurnsTyped' BY <1>3, <2>2, QuietTyped DEF MarkApplied, TypeInv, turns
  <2>4. WorldTyped'
    BY <1>3 DEF MarkApplied, TypeInv, WorldTyped, target, docs, repo, history
  <2> QED BY <2>2, <2>3, <2>4 DEF TypeInv
<1> QED BY <1>1, <1>2, <1>3 DEF Accepting

\* finish_evidence.
LEMMA PublishingTyped == TypeInv /\ Publishing => TypeInv'
<1> SUFFICES ASSUME TypeInv, Publishing PROVE TypeInv' OBVIOUS
<1> USE DEF TypeInv
<1>1. pc \in Finishing
  BY DEF Publishing, BeginFinish, PlanCommit, MakeCommit, NoteCommit, Push, EndFinish
<1>2. FinishError("inv") /\ UNCHANGED budgets => ControlTyped' /\ pc' # "turn"
  BY FinishErrorTyped DEF budgets, ControlTyped
<1>3. /\ [mem EXCEPT !.state = EVIDENCE_FINALIZATION_PENDING] \in Checkpoint
      /\ [mem EXCEPT !.state = FRAMEWORK_EVIDENCE_COMMITTED] \in Checkpoint
      /\ [mem EXCEPT !.state = FRAMEWORK_EVIDENCE_PUSHED] \in Checkpoint
  <2>1. Finalizing \subseteq States BY DEF States
  <2>2. ASSUME NEW s \in States PROVE [mem EXCEPT !.state = s] \in Checkpoint
    BY DEF ControlTyped, Checkpoint
  <2> QED BY <2>1, <2>2 DEF Finalizing
<1>4. WorkingTree \in Contents BY DEF WorkingTree, WorldTyped, Contents
<1>5. ControlTyped' /\ pc' # "turn"
  <2>1. CASE BeginFinish
    BY <1>1, <1>2, <1>3, <2>1, FinishPersistTyped DEF BeginFinish
  <2>2. CASE PlanCommit
    <3>1. [mem EXCEPT !.pub = WorkingTree] \in Checkpoint
      BY <1>4 DEF ControlTyped, Checkpoint
    <3> QED BY <1>1, <1>2, <2>2, <3>1, FinishPersistTyped DEF PlanCommit
  <2>3. CASE MakeCommit
    BY <1>1, <1>2, <2>3 DEF MakeCommit, ControlTyped, budgets, Finishing
  <2>4. CASE NoteCommit
    BY <1>1, <1>2, <1>3, <2>4, FinishPersistTyped DEF NoteCommit
  <2>5. CASE Push
    <3>1. CASE UNCHANGED <<pc, exc, mem, ck, log, budgets>>
      BY <1>1, <3>1 DEF ControlTyped, budgets, Finishing
    <3> QED BY <1>1, <1>2, <1>3, <2>5, <3>1, FinishPersistTyped DEF Push
  <2>6. CASE EndFinish
    <3>1. CASE /\ pc' = "down" /\ exc' = "none" /\ mem' = ck
               /\ LeaveJournal /\ UNCHANGED ck
      BY <2>6, <3>1, JournalTyped DEF EndFinish, ControlTyped, budgets, Places
    <3> QED BY <1>2, <2>6, <3>1 DEF EndFinish
  <2> QED BY <2>1, <2>2, <2>3, <2>4, <2>5, <2>6 DEF Publishing
<1>6. TurnsTyped'
  BY <1>5, QuietTyped
  DEF Publishing, BeginFinish, PlanCommit, MakeCommit, NoteCommit, Push,
      EndFinish, turns
<1>7. WorldTyped'
  <2>1. commit' \in Contents /\ pushed' \in BOOLEAN
    BY DEF Publishing, BeginFinish, PlanCommit, MakeCommit, NoteCommit, Push,
           EndFinish, repo, WorldTyped, ControlTyped, Checkpoint
  <2> QED BY <2>1
          DEF Publishing, BeginFinish, PlanCommit, MakeCommit, NoteCommit, Push,
              EndFinish, WorldTyped, target, docs, history
<1> QED BY <1>5, <1>6, <1>7

\* The exception handler, and its failure.
LEMMA HandlingTyped == TypeInv /\ Handling => TypeInv'
<1> SUFFICES ASSUME TypeInv, Handling PROVE TypeInv' OBVIOUS
<1>1. CASE HandleFailure
  <2> DEFINE m == [mem EXCEPT !.active = 0]
             u == [m EXCEPT !.outcome = [state |-> "UNDETERMINED", exit |-> 1]]
  <2>1. m \in Checkpoint BY DEF TypeInv, ControlTyped, Checkpoint
  <2>2. u \in Checkpoint
    <3>1. [state |-> "UNDETERMINED", exit |-> 1] \in Outcomes BY DEF Outcomes
    <3> HIDE DEF m
    <3> QED BY <2>1, <3>1 DEF Checkpoint
  <2>3. \/ Persist(m, "down", "down")
        \/ Persist(u, "down", "down")
        \/ ReachOutcome(m, HUMAN_GATE, 1, "finishX", "exceptX")
        \/ ReachOutcome(m, FAILED_CLOSED, 1, "finishX", "exceptX")
    BY <1>1 DEF HandleFailure
  <2> HIDE DEF m, u
  <2>4. ControlTyped' /\ pc' # "turn"
    BY <2>1, <2>2, <2>3, PersistTyped, OutcomeTyped DEF TypeInv, Places, Finishing
  <2>5. TurnsTyped'
    BY <1>1, <2>4, QuietTyped DEF HandleFailure, LeaveTurn, TypeInv
  <2>6. WorldTyped'
    BY <1>1 DEF HandleFailure, TypeInv, WorldTyped, target, docs, repo, history
  <2> QED BY <2>4, <2>5, <2>6 DEF TypeInv
<1>2. CASE HandleFailureOfHandler
  <2>1. mem \in Checkpoint /\ Persist(mem, "down", "down")
    BY <1>2 DEF HandleFailureOfHandler, TypeInv, ControlTyped
  <2>2. ControlTyped' /\ pc' # "turn"
    BY <2>1, PersistTyped DEF TypeInv, Places
  <2>3. TurnsTyped'
    BY <1>2, <2>2, QuietTyped DEF HandleFailureOfHandler, LeaveTurn, TypeInv
  <2>4. WorldTyped'
    BY <1>2
    DEF HandleFailureOfHandler, TypeInv, WorldTyped, target, docs, repo, history
  <2> QED BY <2>2, <2>3, <2>4 DEF TypeInv
<1> QED BY <1>1, <1>2 DEF Handling

\* A resumed process.
LEMMA ResumeTyped == TypeInv /\ Resume => TypeInv'
<1> SUFFICES ASSUME TypeInv, Resume PROVE TypeInv' OBVIOUS
<1>1. pc' \in Places /\ pc' # "turn"
  BY DEF Resume, ResumePoint, Places, Finishing
<1>2. ControlTyped' BY <1>1 DEF Resume, TypeInv, ControlTyped, budgets
<1>3. TurnsTyped' BY <1>1, QuietTyped DEF Resume, TypeInv, turns
<1>4. WorldTyped'
  BY DEF Resume, TypeInv, WorldTyped, target, docs, repo, history
<1> QED BY <1>2, <1>3, <1>4 DEF TypeInv

\* The types are kept by every step, and by every stutter.
LEMMA TypeStep == TypeInv /\ Next => TypeInv'
BY AgentTyped, InstructingTyped, ExecutingTyped, ReviewingTyped,
   CorrectingTyped, AcceptingTyped, PublishingTyped, HandlingTyped,
   ResumeTyped, MishapTyped, EnvironmentTyped
DEF Next, Program

\* A stuttering step keeps the types.
LEMMA TypeStutter == TypeInv /\ UNCHANGED vars => TypeInv'
BY DEF vars, turns, target, docs, repo, budgets, history, TypeInv,
       ControlTyped, TurnsTyped, WorldTyped, ExecutorTurn

\* Every reachable state has the types TypeOK gives it, and while the process
\* waits for its Executor that Executor is among the live ones (no step of any
\* orphan, crash or I/O error takes it away twice).
THEOREM TypeCorrect == Spec => []TypeOK
<1>1. TypeInv => TypeOK
  BY DEF TypeInv, ControlTyped, TurnsTyped, WorldTyped, TypeOK
<1> QED BY <1>1, InitTyped, TypeStep, TypeStutter, PTL DEF Spec
=============================================================================
