---------------------------- MODULE MutationLoop ----------------------------
(***************************************************************************)
(* The orchestrator of 1PCloop/scripts/run_mutation_loop.py: one run of    *)
(* Reviewer -> fresh Executor -> Reviewer cycles driven by a checkpoint    *)
(* file, from the first durable checkpoint to the published evidence.      *)
(*                                                                         *)
(* "ck" is the checkpoint on disk, "mem" the same fields in the memory of  *)
(* the running process; they part whenever a write fails or the process    *)
(* dies.  "pc" says where the process is between two effects, so that a    *)
(* crash, an I/O error, an Agent process or a Human can come in between.   *)
(***************************************************************************)
EXTENDS Integers, FiniteSets

CONSTANTS
  MaxCycles,    \* --max-cycles
  Authorized,   \* CLI capability given and the Runtime machine block unused
  MaxHead,      \* bound: commits the target branch may reach
  MaxCrashes,   \* bound: times the process may be killed
  MaxFaults,    \* bound: I/O errors
  MaxEdits      \* bound: interventions from outside the run

ASSUME ConstantsAssumption ==
  /\ MaxCycles \in Nat \ {0}
  /\ Authorized \in BOOLEAN
  /\ MaxHead \in Nat \ {0}
  /\ MaxCrashes \in Nat
  /\ MaxFaults \in Nat
  /\ MaxEdits \in Nat

VARIABLES
  ck,           \* the checkpoint on disk
  mem,          \* the checkpoint fields in memory; equal to ck while down
  pc,           \* where the process is; "down": no process
  exc,          \* the exception on its way to the handler
  art,          \* artifacts in the directory of the active Agent turn
  refreshed,    \* cycles whose reviewer-pre-executor-refresh directory exists
  fresh,        \* identities given out (Reviewer threads, transition plans)
  tgt,          \* target repository: head and cleanliness
  irregular,    \* heads reached by a merge, a rewrite or a protected path
  gov,          \* version of the governance documents that are not rt
  rt,           \* bytes of the workload Runtime document
  evid,         \* version of the bytes the evidence locators point to
  summary,      \* tracked evidence summary: its entries, whether the file and
                \* the artifacts it cites are as the program wrote them
  workers,      \* live Executor processes, children or orphans
  log,          \* the progress journal, by what the next resume finds in it
  commit,       \* evidence commit in the framework repository: what it holds
  pushed,       \* the remote branch holds that commit
  crashes, faults, edits,     \* budgets left
  written,      \* history: plans ever written into the Runtime document
  corrections,  \* history: correction turns launched in the current cycle
  effect        \* history: cycles whose finished Executor moved the head

budgets == <<crashes, faults, edits>>
target  == <<tgt, irregular>>
docs    == <<gov, rt>>
history == <<written, corrections, effect>>
repo    == <<commit, pushed>>
turns   == <<art, refreshed, fresh, workers>>
vars == <<ck, mem, pc, exc, log, turns, target, docs, evid, summary, repo,
          budgets, history>>

-----------------------------------------------------------------------------
(***************************************************************************)
(* Checkpoint states and the shape of the state.                           *)
(***************************************************************************)

PREFLIGHT_PASSED              == "PREFLIGHT_PASSED"
REVIEWER_INSTRUCTION_RUNNING  == "REVIEWER_INSTRUCTION_RUNNING"
INSTRUCTION_READY             == "INSTRUCTION_READY"
EXECUTOR_RUNNING              == "EXECUTOR_RUNNING"
EXECUTOR_COMMITTED            == "EXECUTOR_COMMITTED"
REVIEW_PENDING                == "REVIEW_PENDING"
REVIEW_COMPLETED              == "REVIEW_COMPLETED"
REVIEW_CORRECTION_PENDING     == "REVIEW_CORRECTION_PENDING"
REVIEW_CORRECTION_RUNNING     == "REVIEW_CORRECTION_RUNNING"
RUNTIME_TRANSITION_PENDING    == "RUNTIME_TRANSITION_PENDING"
RUNTIME_TRANSITION_COMMITTED  == "RUNTIME_TRANSITION_COMMITTED"
HUMAN_GATE                    == "HUMAN_GATE"
FAILED_CLOSED                 == "FAILED_CLOSED"
EVIDENCE_FINALIZATION_PENDING == "EVIDENCE_FINALIZATION_PENDING"
FRAMEWORK_EVIDENCE_COMMITTED  == "FRAMEWORK_EVIDENCE_COMMITTED"
FRAMEWORK_EVIDENCE_PUSHED     == "FRAMEWORK_EVIDENCE_PUSHED"

Transition == {RUNTIME_TRANSITION_PENDING, RUNTIME_TRANSITION_COMMITTED}
Finalizing == {EVIDENCE_FINALIZATION_PENDING, FRAMEWORK_EVIDENCE_COMMITTED,
               FRAMEWORK_EVIDENCE_PUSHED}
Working == {PREFLIGHT_PASSED, REVIEWER_INSTRUCTION_RUNNING, INSTRUCTION_READY,
            EXECUTOR_RUNNING, EXECUTOR_COMMITTED, REVIEW_PENDING,
            REVIEW_COMPLETED, REVIEW_CORRECTION_PENDING,
            REVIEW_CORRECTION_RUNNING}
States == Working \cup Transition \cup Finalizing \cup {HUMAN_GATE, FAILED_CLOSED}

\* Roles of progress_role other than the orchestrator's.
AgentStates == {REVIEWER_INSTRUCTION_RUNNING, REVIEW_PENDING,
                REVIEW_CORRECTION_PENDING, REVIEW_CORRECTION_RUNNING,
                EXECUTOR_RUNNING}
\* Where validate_checkpoint_suffix lets a turn start.
TURN_CONTROL_STATES == AgentStates \ {REVIEW_CORRECTION_PENDING}

MAX_REVIEW_CORRECTION_ATTEMPTS == 2

\* Where the process is: at the head of the "while True" of orchestrate, about
\* to launch a turn, with an Agent running, before the audit of its turn, in
\* record_turn_summary (plan, append, note the append), before the branch's last
\* persist, around os.replace of the Runtime, in the exception handler, in
\* finish_evidence (called by the branch, by the handler, on resume), or
\* reconciling a pending summary entry on resume.
Finishing == {"finish", "finishX", "finishR"}
Places == {"down", "loop", "launch", "turn", "audit", "summary", "append",
           "appended", "route", "replace", "replaced", "except", "exceptX",
           "reconcile", "reconciled"} \cup Finishing

\* Runtime images: the bytes the run started from, bytes a Human put there,
\* and a positive number for the postimage of that transition plan.
Pre    == 0
Other  == -1
Images == Nat \cup {Other}

Verdicts == {"ACCEPT", "REJECT", "HUMAN_GATE"}
Kinds == {"none", "instruction", "receipt", "review"} \cup Verdicts

\* One Agent turn: final.txt with its process.json.  head, gov, rt and clean
\* are the target and governance it is bound to; declared says the verdict's
\* own declarations are right, evid which evidence bytes they were taken from.
Turn == [kind: Kinds, ok: BOOLEAN, thread: Nat, head: Nat, clean: BOOLEAN,
         gov: Nat, rt: Images, declared: BOOLEAN, evid: Nat]
NoTurn == [kind |-> "none", ok |-> FALSE, thread |-> 0, head |-> 0,
           clean |-> TRUE, gov |-> 0, rt |-> Pre, declared |-> FALSE,
           evid |-> 0]

\* What completed_turn_from_dir finds: no directory, an unfinished or failed
\* turn, a successful Reviewer turn not yet audited, a recoverable turn.
Artifacts == [st: {"none", "partial", "raw", "done"}, turn: Turn]
NoArt == [st |-> "none", turn |-> NoTurn]

ReviewerState == [thread: Nat, gov: Nat, rt: Images, head: Nat]
NoReviewer == [thread |-> 0, gov |-> 0, rt |-> Pre, head |-> 0]

Correction == [on: BOOLEAN, started: Nat, completed: Nat, pending: Nat,
               guards: SUBSET Nat, thread: Nat]
NoCorrection == [on |-> FALSE, started |-> 0, completed |-> 0, pending |-> 0,
                 guards |-> {}, thread |-> 0]

Outcomes == [state: {"none", "UNDETERMINED", RUNTIME_TRANSITION_COMMITTED,
                     HUMAN_GATE, FAILED_CLOSED}, exit: {0, 1}]
NoOutcome == [state |-> "none", exit |-> 0]

\* What the evidence commit, or the plan of it, holds: the Runtime document,
\* and the summary with its number of entries.
Contents == [set: BOOLEAN, n: Nat, rt: Images, intact: BOOLEAN]
NoContents == [set |-> FALSE, n |-> 0, rt |-> Pre, intact |-> TRUE]

\* The journal (module ProgressJournal has its events).  fits: a resume accepts
\* the events behind the cursor of the checkpoint on disk; closed: a turn of
\* this process was recorded as finished, so the role is the orchestrator's;
\* obs: events are recorded, or a failed append ended that ("off"), perhaps
\* with its line in the file all the same ("stray").
Journal == [fits: BOOLEAN, closed: BOOLEAN, obs: {"on", "off", "stray"}]
NewJournal == [fits |-> TRUE, closed |-> FALSE, obs |-> "on"]

Checkpoint ==
  [state: States, cycle: Nat, rev: ReviewerState, instr: Turn, exec: Turn,
   tb: Nat,             \* target_before head, 0: None
   ta: Nat,             \* target_after head, 0: None
   active: Nat,         \* attempt number of active_turn_relative, 0: None
   entries: Nat,        \* length of summary_progress
   pending: BOOLEAN,    \* summary_pending holds the entry of the active turn
   recorded: BOOLEAN,   \* summary_progress has the entry of the active turn
   corr: Correction, outcome: Outcomes,
   plan: [id: Nat, pre: Images],          \* runtime_transition, id 0: None
   applied: BOOLEAN,                      \* runtime_transition_applied
   pub: Contents]                         \* framework_commit_plan

TypeOK ==
  /\ ck \in Checkpoint
  /\ mem \in Checkpoint
  /\ pc \in Places
  /\ exc \in {"none", "os", "inv"}
  /\ art \in Artifacts
  /\ refreshed \subseteq Nat
  /\ fresh \in Nat
  /\ tgt \in [head: Nat, clean: BOOLEAN]
  /\ irregular \subseteq Nat
  /\ gov \in Nat /\ rt \in Images /\ evid \in Nat
  /\ summary \in [n: Nat, intact: BOOLEAN, cited: BOOLEAN]
  /\ workers \in Nat
  /\ log \in Journal
  /\ commit \in Contents /\ pushed \in BOOLEAN
  /\ crashes \in Nat /\ faults \in Nat /\ edits \in Nat
  /\ written \subseteq Nat /\ corrections \in Nat /\ effect \subseteq Nat

-----------------------------------------------------------------------------
(***************************************************************************)
(* The run begins: the preflight passed and persist(PREFLIGHT_PASSED) left *)
(* the first checkpoint.                                                   *)
(***************************************************************************)

FirstCheckpoint ==
  [state |-> PREFLIGHT_PASSED, cycle |-> 1, rev |-> NoReviewer,
   instr |-> NoTurn, exec |-> NoTurn, tb |-> 0, ta |-> 0, active |-> 0,
   entries |-> 0, pending |-> FALSE, recorded |-> FALSE,
   corr |-> NoCorrection, outcome |-> NoOutcome,
   plan |-> [id |-> 0, pre |-> Pre], applied |-> FALSE, pub |-> NoContents]

Init ==
  /\ ck = FirstCheckpoint /\ mem = FirstCheckpoint
  /\ pc = "loop" /\ exc = "none" /\ log = NewJournal
  /\ art = NoArt /\ refreshed = {} /\ fresh = 0 /\ workers = 0
  /\ tgt = [head |-> 1, clean |-> TRUE] /\ irregular = {}
  /\ gov = 0 /\ rt = Pre /\ evid = 0
  /\ summary = [n |-> 0, intact |-> TRUE, cited |-> TRUE]
  /\ commit = NoContents /\ pushed = FALSE
  /\ crashes = MaxCrashes /\ faults = MaxFaults /\ edits = MaxEdits
  /\ written = {} /\ corrections = 0 /\ effect = {}

-----------------------------------------------------------------------------
(***************************************************************************)
(* Recording events.  On resume, ProgressStatus compares every event       *)
(* behind the checkpoint's cursor with the checkpoint and refuses the run  *)
(* if one does not fit.                                                    *)
(***************************************************************************)

\* An event is appended that does or does not fit the checkpoint on disk.
Record(fitting) ==
  log' = [log EXCEPT !.fits = @ /\ (log.obs = "on" => fitting)]

\* The process ends, and with it what it knew of its journal.
LeaveJournal == log' = [NewJournal EXCEPT !.fits = log.fits]

\* An error event says it is the orchestrator's only when the branch's turn was
\* recorded as finished, or its state has no Agent.  One in an open turn, or
\* with an Agent's role, is refused.
ErrorFits == pc # "turn" /\ (log.closed \/ mem.state \notin AgentStates)

\* The checkpoint was replaced and its cursor is behind every event this
\* process knows of.  "fitting" is said of the event that comes next.
MoveCursor(place, fitting) ==
  \E fits \in IF log.obs = "stray" THEN BOOLEAN ELSE {TRUE} :
    log' = [fits   |-> fits /\ (log.obs = "on" => fitting),
            closed |-> FALSE,
            obs    |-> IF place = "down" THEN "on" ELSE log.obs]

\* progress_target_head
progress_target_head(m) ==
  IF m.ta # 0 THEN m.ta ELSE IF m.tb # 0 THEN m.tb
  ELSE IF m.rev.head # 0 THEN m.rev.head ELSE 1

\* An event projected from m says what the checkpoint c says.
Projects(m, c) ==
  /\ m.state = c.state /\ m.cycle = c.cycle /\ m.applied = c.applied
  /\ m.outcome.state = c.outcome.state
  /\ progress_target_head(m) = progress_target_head(c)

\* A write of m failed and left c on disk.  The loop goes on to an error event
\* of m's own role; the handlers to run_finished, with FAILED for a publication
\* that c calls pending; a resumed process to nothing.
EventAfterFailure(m, c, fail) ==
  CASE fail = "except" -> m.state \notin AgentStates /\ Projects(m, c)
    [] fail = "down" /\ pc \in {"except", "exceptX"} ->
         c = m \/ ( /\ Projects(m, c)
                   /\ m.state \in Transition \cup {FRAMEWORK_EVIDENCE_PUSHED})
    [] OTHER -> TRUE

JournalAfterFailure(m, fail) ==
  \/ ck' = m /\ MoveCursor(fail, EventAfterFailure(m, m, fail))
  \/ /\ ck' = ck
     /\ log' = [fits   |-> log.fits /\ (log.obs = "on" =>
                                        EventAfterFailure(m, ck, fail)),
                closed |-> FALSE,
                obs    |-> IF fail = "down" THEN "on" ELSE log.obs]

-----------------------------------------------------------------------------
(***************************************************************************)
(* Writing the checkpoint, and failing to.                                 *)
(***************************************************************************)

\* persist(): the memory has changed to m before the file is replaced by it.
\* An I/O error may come before or after the replacement; then control goes
\* to "fail" with the memory as it is, unless there is no process any more.
Persist(m, next, fail) ==
  \/ /\ ck' = m /\ mem' = m /\ pc' = next /\ exc' = "none"
     /\ MoveCursor(next, TRUE)
     /\ UNCHANGED budgets
  \/ /\ faults > 0 /\ faults' = faults - 1
     /\ ck' \in {ck, m}
     /\ mem' = IF fail = "down" THEN ck' ELSE m
     /\ pc' = fail
     /\ exc' = IF fail = "down" THEN "none" ELSE "os"
     /\ JournalAfterFailure(m, fail)
     /\ UNCHANGED <<crashes, edits>>

\* The turn directory the checkpoint names is left behind with the checkpoint.
LeaveTurn == art' = IF ck' = ck THEN art ELSE NoArt

ReachOutcome(m, o, code, next, fail) ==
  Persist([m EXCEPT !.state = o,
                    !.outcome = [state |-> o, exit |-> code]], next, fail)

\* The handler records its error event before it does anything else.
Raise(kind) == /\ pc' = "except" /\ exc' = kind
               /\ Record(ErrorFits)
               /\ UNCHANGED <<ck, mem, budgets>>

Goto(next) == /\ pc' = next
              /\ IF next = "down" THEN LeaveJournal ELSE UNCHANGED log
              /\ UNCHANGED <<ck, mem, exc, budgets>>

\* Mutants of the next two: each forgets states.
PendingTransition == mem.state = RUNTIME_TRANSITION_PENDING
LastPublication   == mem.state = FRAMEWORK_EVIDENCE_PUSHED

InterruptedTransition  == mem.state \in Transition
InterruptedPublication == mem.state \in Finalizing

\* One exception handler serves the whole loop.
HandleFailure ==
  /\ pc = "except"
  /\ LET m == [mem EXCEPT !.active = 0] IN
     \/ /\ InterruptedPublication
        /\ Persist(m, "down", "down")
     \/ /\ InterruptedTransition /\ exc = "os"
        /\ Persist([m EXCEPT !.outcome = [state |-> "UNDETERMINED", exit |-> 1]],
                   "down", "down")
     \/ /\ InterruptedTransition /\ exc # "os"
        /\ ReachOutcome(m, HUMAN_GATE, 1, "finishX", "exceptX")
     \/ /\ ~InterruptedTransition /\ ~InterruptedPublication
        /\ ReachOutcome(m, FAILED_CLOSED, 1, "finishX", "exceptX")
  /\ LeaveTurn
  /\ UNCHANGED <<refreshed, fresh, workers, target, docs, evid, summary, repo,
                 history>>

\* The handler failed too: it tries to leave a checkpoint and exits.
HandleFailureOfHandler ==
  /\ pc = "exceptX"
  /\ Persist(mem, "down", "down")
  /\ LeaveTurn
  /\ UNCHANGED <<refreshed, fresh, workers, target, docs, evid, summary, repo,
                 history>>

\* process.json is rewritten in place: the write may be cut short, and then
\* a summary entry that already cites the file no longer matches it.
RewritingTurn == pc = "audit" \/ (pc = "summary" /\ mem.state = REVIEW_CORRECTION_RUNNING)

CutShort ==
  \E torn \in BOOLEAN :
    /\ torn => RewritingTurn
    /\ art' = IF torn THEN [art EXCEPT !.st = "partial"] ELSE art
    /\ summary' = IF torn /\ mem.recorded THEN [summary EXCEPT !.cited = FALSE]
                  ELSE summary

AnyTurn == pc = "turn"   \* mutant of ExecutorTurn

ExecutorTurn == pc = "turn" /\ art.turn.kind = "receipt"

\* The process dies.  An interrupt it can handle kills the Agent process it
\* waits for; SIGKILL or a power cut does not, the Agent has a session of its own.
Crash ==
  /\ pc # "down" /\ crashes > 0
  /\ crashes' = crashes - 1
  /\ pc' = "down" /\ exc' = "none" /\ mem' = ck
  /\ CutShort /\ LeaveJournal
  /\ \/ UNCHANGED workers
     \/ ExecutorTurn /\ workers' = workers - 1
  /\ UNCHANGED <<ck, refreshed, fresh, target, docs, evid, repo, faults, edits,
                 history>>

\* An OSError between two effects of the loop; a running Agent is killed.
IOError ==
  /\ pc \in {"loop", "launch", "turn", "audit", "summary", "append", "appended",
             "route", "replace", "replaced"}
  /\ faults > 0 /\ faults' = faults - 1
  /\ pc' = "except" /\ exc' = "os"
  /\ CutShort /\ Record(ErrorFits)
  /\ workers' = IF ExecutorTurn THEN workers - 1 ELSE workers
  /\ UNCHANGED <<ck, mem, refreshed, fresh, target, docs, evid, repo, crashes,
                 edits, history>>

\* The append of an event fails and no more events are recorded.  Either this
\* event is not in the file, or the last one is and nobody knows.
EventLost ==
  /\ pc # "down" /\ log.obs = "on"
  /\ faults > 0 /\ faults' = faults - 1
  /\ log' \in {[log EXCEPT !.obs = o] : o \in {"off", "stray"}}
  /\ UNCHANGED <<ck, mem, pc, exc, turns, target, docs, evid, summary, repo,
                 crashes, edits, history>>

\* The output thread of a finished turn, which the runner does not wait for
\* longer than five seconds, records one more event of the Agent (before the
\* next checkpoint here).
LateEvent ==
  /\ log.closed /\ Record(FALSE)
  /\ UNCHANGED <<ck, mem, pc, exc, turns, target, docs, evid, summary, repo,
                 budgets, history>>

-----------------------------------------------------------------------------
(***************************************************************************)
(* One Agent turn: run_codex_turn, invoke_reviewer, record_turn_summary.   *)
(***************************************************************************)

\* choose_freshness_policy: resume the thread unless there is none or Static
\* governance changed; then every document is injected into a new thread.
ResumesThread == mem.rev.thread # 0 /\ mem.rev.gov = gov

StartReviewer(kind) ==
  /\ fresh' = IF ResumesThread THEN fresh ELSE fresh + 1
  /\ art' = [st |-> "partial",
             turn |-> [NoTurn EXCEPT
                         !.kind = kind, !.head = tgt.head, !.gov = gov, !.rt = rt,
                         !.thread = IF ResumesThread THEN mem.rev.thread
                                    ELSE fresh + 1]]
  /\ pc' = "turn" /\ Record(mem.state \in TURN_CONTROL_STATES)
  /\ UNCHANGED <<ck, mem, exc, budgets, workers>>

StartExecutor ==
  /\ art' = [st |-> "partial",
             turn |-> [NoTurn EXCEPT !.kind = "receipt", !.head = tgt.head,
                                     !.gov = gov, !.rt = rt]]
  /\ workers' = workers + 1
  /\ Goto("turn")   \* turn_started fits: EXECUTOR_RUNNING
  /\ UNCHANGED fresh

\* The Agent process ends: with a schema-valid final message, or with an error
\* or a timeout, after which it is killed.
TurnExits ==
  /\ pc = "turn"
  /\ LET t == art.turn IN
     \/ art' = [art EXCEPT !.turn.ok = FALSE]
     \/ /\ t.kind = "receipt"
        /\ art' = [st |-> "done", turn |-> [t EXCEPT !.ok = TRUE]]
     \/ /\ t.kind = "instruction"
        /\ art' = [st |-> "raw", turn |-> [t EXCEPT !.ok = TRUE]]
     \/ /\ t.kind = "review"
        /\ \E v \in Verdicts, d \in BOOLEAN :
             art' = [st |-> "raw",
                     turn |-> [t EXCEPT !.ok = TRUE, !.kind = v,
                                        !.declared = d, !.evid = evid]]
  /\ pc' = "audit" /\ log' = [log EXCEPT !.closed = TRUE]
  /\ UNCHANGED <<ck, mem, exc, budgets>>
  /\ workers' = IF ExecutorTurn THEN workers - 1 ELSE workers
  /\ effect' = IF ExecutorTurn /\ tgt.head # mem.tb THEN effect \cup {mem.cycle}
               ELSE effect
  /\ UNCHANGED <<refreshed, fresh, target, docs, evid, summary, repo, written,
                 corrections>>

\* After a Reviewer turn: the target and the governance sources are as they
\* were, or the turn failed.  ensure_instruction_fresh makes the refresh the
\* instruction whether or not it succeeded.
AuditReviewer ==
  /\ pc = "audit" /\ art.turn.kind # "receipt"
  /\ LET t    == art.turn
         good == art.st = "raw" /\ tgt = [head |-> t.head, clean |-> TRUE]
                 /\ gov = t.gov /\ rt = t.rt
         new  == [t EXCEPT !.ok = good]
     IN /\ art' = [st |-> IF good THEN "done" ELSE "partial", turn |-> new]
        /\ mem' = [mem EXCEPT
             !.rev = IF good THEN [thread |-> t.thread, gov |-> t.gov,
                                   rt |-> t.rt, head |-> t.head] ELSE @,
             !.instr = IF mem.state = INSTRUCTION_READY THEN new ELSE @]
  /\ pc' = "summary"
  /\ UNCHANGED <<ck, exc, log, refreshed, fresh, workers, target, docs, evid, summary,
                 repo, budgets, history>>

\* After an Executor turn, run or recovered: what it left behind is captured
\* and process.json rewritten, even under a summary entry that cites it.
CaptureExecutor ==
  /\ pc = "audit" /\ art.turn.kind = "receipt"
  /\ art' = [art EXCEPT !.turn.head = tgt.head, !.turn.clean = tgt.clean,
                        !.turn.gov = gov, !.turn.rt = rt]
  /\ summary' = [summary EXCEPT
                   !.cited = @ /\ (mem.recorded => art'.turn = art.turn)]
  /\ Goto("summary")
  /\ UNCHANGED <<refreshed, fresh, workers, target, docs, evid, repo, history>>

SummaryValid == summary = [n |-> mem.entries, intact |-> TRUE, cited |-> TRUE]
SummaryUntouched ==        \* mutant: its own postimage is not recognised
  summary.intact /\ summary.n = mem.entries
SummaryReconcilable ==
  summary.intact /\ summary.n \in {mem.entries, mem.entries + 1}

\* record_turn_summary: the entry is planned in the checkpoint, ...
PlanSummary ==
  /\ pc = "summary"
  /\ \/ ~SummaryValid /\ Raise("inv")
     \/ SummaryValid /\ mem.recorded /\ Goto("route")
     \/ /\ SummaryValid /\ ~mem.recorded
        /\ Persist([mem EXCEPT !.pending = TRUE], "append", "except")
  /\ UNCHANGED <<turns, target, docs, evid, summary, repo, history>>

\* ... the file replaced, unless it already is the postimage (on resume), ...
AppendSummary ==
  /\ pc \in {"append", "reconcile"}
  /\ \/ /\ SummaryReconcilable
        /\ summary' = [summary EXCEPT !.n = mem.entries + 1]
        /\ Goto(IF pc = "append" THEN "appended" ELSE "reconciled")
     \/ /\ ~SummaryReconcilable /\ pc = "append"
        /\ Raise("inv") /\ UNCHANGED summary
     \/ /\ ~SummaryReconcilable /\ pc = "reconcile"
        /\ Goto("down") /\ UNCHANGED summary
  /\ UNCHANGED <<turns, target, docs, evid, repo, history>>

Finalized == Finalizing \cup {HUMAN_GATE, FAILED_CLOSED}

\* load_turn_reference of the instruction, once there is one.
ReferencesLoad == mem.instr.kind # "none" => mem.instr.ok

\* Where a resumed process starts, or that it refuses to.
ResumePoint == IF mem.state \in Finalized THEN "finishR"
               ELSE IF ReferencesLoad THEN "loop" ELSE "down"

\* ... and the entry moved to summary_progress.
NoteSummary ==
  /\ pc \in {"appended", "reconciled"}
  /\ Persist([mem EXCEPT !.entries = @ + 1, !.pending = FALSE, !.recorded = TRUE],
             IF pc = "appended" THEN "route" ELSE ResumePoint,
             IF pc = "appended" THEN "except" ELSE "down")
  /\ UNCHANGED <<turns, target, docs, evid, summary, repo, history>>

-----------------------------------------------------------------------------
(***************************************************************************)
(* PREFLIGHT_PASSED, REVIEWER_INSTRUCTION_RUNNING: the first instruction.  *)
(***************************************************************************)

\* recover_reviewer_state_from_turn
FromTurn(t) == [thread |-> t.thread, gov |-> t.gov, rt |-> t.rt, head |-> t.head]

InstructionStates == {PREFLIGHT_PASSED, REVIEWER_INSTRUCTION_RUNNING}

\* A recoverable turn is used; any other directory makes way for a new attempt
\* by a Reviewer that knows nothing.
PrepareInstruction ==
  /\ pc = "loop" /\ mem.state \in InstructionStates
  /\ \/ /\ art.st = "done"
        /\ mem' = [mem EXCEPT !.rev = FromTurn(art.turn)]
        /\ pc' = "summary"
        /\ UNCHANGED <<ck, exc, log, art, budgets>>
     \/ /\ art.st # "done"
        /\ Persist([mem EXCEPT !.state = REVIEWER_INSTRUCTION_RUNNING,
                               !.rev = IF art.st = "none" THEN @ ELSE NoReviewer,
                               !.active = IF art.st = "none" /\ @ # 0 THEN @
                                          ELSE @ + 1,
                               !.recorded = FALSE],
                   "launch", "except")
        /\ LeaveTurn
  /\ UNCHANGED <<refreshed, fresh, workers, target, docs, evid, summary, repo,
                 history>>

LaunchInstruction ==
  /\ pc = "launch" /\ mem.state = REVIEWER_INSTRUCTION_RUNNING
  /\ \/ ~tgt.clean /\ Raise("inv") /\ UNCHANGED <<art, fresh, workers>>
     \/ tgt.clean /\ StartReviewer("instruction")
  /\ UNCHANGED <<refreshed, target, docs, evid, summary, repo, history>>

RouteInstruction ==
  /\ pc = "route" /\ mem.state \in InstructionStates
  /\ \/ ~art.turn.ok /\ Raise("inv") /\ UNCHANGED art
     \/ /\ art.turn.ok
        /\ Persist([mem EXCEPT !.state = INSTRUCTION_READY, !.instr = art.turn,
                               !.active = 0, !.recorded = FALSE],
                   "loop", "except")
        /\ LeaveTurn
  /\ UNCHANGED <<refreshed, fresh, workers, target, docs, evid, summary, repo,
                 history>>

-----------------------------------------------------------------------------
(***************************************************************************)
(* INSTRUCTION_READY: is the instruction still about this target and this  *)
(* governance?  One refresh per cycle, in a directory of fixed name.       *)
(***************************************************************************)

KnowsDocs == mem.rev.gov = gov /\ mem.rev.rt = rt
FreshDocs == KnowsDocs     \* mutant of Fresh: the target is not compared
Fresh == KnowsDocs /\ mem.rev.head = tgt.head

ExecutorCheckpoint ==
  [mem EXCEPT !.state = EXECUTOR_RUNNING, !.tb = tgt.head, !.ta = 0,
              !.exec = NoTurn, !.active = 1, !.recorded = FALSE]

CheckFreshness ==
  /\ pc = "loop" /\ mem.state = INSTRUCTION_READY
  /\ \/ /\ ~tgt.clean
        /\ Raise("inv") /\ UNCHANGED <<art, refreshed, fresh, workers>>
     \/ /\ tgt.clean /\ Fresh
        /\ Persist(ExecutorCheckpoint, "loop", "except")
        /\ LeaveTurn /\ UNCHANGED <<refreshed, fresh, workers>>
     \/ /\ tgt.clean /\ ~Fresh /\ mem.cycle \in refreshed
        /\ Raise("os") /\ UNCHANGED <<art, refreshed, fresh, workers>>
     \/ /\ tgt.clean /\ ~Fresh /\ mem.cycle \notin refreshed
        /\ StartReviewer("instruction")
        /\ refreshed' = refreshed \cup {mem.cycle}
  /\ UNCHANGED <<target, docs, evid, summary, repo, history>>

RouteRefresh ==
  /\ pc = "route" /\ mem.state = INSTRUCTION_READY
  /\ \/ /\ ~(art.turn.ok /\ Fresh /\ tgt.clean)
        /\ Raise("inv") /\ UNCHANGED art
     \/ /\ art.turn.ok /\ Fresh /\ tgt.clean
        /\ Persist(ExecutorCheckpoint, "loop", "except")
        /\ LeaveTurn
  /\ UNCHANGED <<refreshed, fresh, workers, target, docs, evid, summary, repo,
                 history>>

-----------------------------------------------------------------------------
(***************************************************************************)
(* EXECUTOR_RUNNING, EXECUTOR_COMMITTED.                                   *)
(***************************************************************************)

\* A turn with its evidence is used.  Without evidence, a target that moved
\* makes the outcome ambiguous: a Human decides.  Only an unmoved target lets
\* the Executor run, again if need be.
TargetMovedAfter ==       \* mutant: only a captured target_after counts
  mem.ta # 0 /\ tgt.head # mem.tb
TargetMoved == tgt.head # mem.tb

PrepareExecutor ==
  /\ pc = "loop" /\ mem.state = EXECUTOR_RUNNING
  /\ \/ art.st = "done" /\ Goto("audit") /\ UNCHANGED art
     \/ art.st # "done" /\ ~tgt.clean /\ Raise("inv") /\ UNCHANGED art
     \/ /\ art.st # "done" /\ tgt.clean /\ TargetMoved
        /\ ReachOutcome([mem EXCEPT !.active = 0, !.ta = tgt.head],
                        HUMAN_GATE, 0, "finish", "except")
        /\ LeaveTurn
     \/ /\ art.st # "done" /\ tgt.clean /\ ~TargetMoved
        /\ \/ art.st = "none" /\ Goto("launch") /\ UNCHANGED art
           \/ /\ art.st # "none"
              /\ Persist([mem EXCEPT !.active = @ + 1, !.recorded = FALSE],
                         "launch", "except")
              /\ LeaveTurn
  /\ UNCHANGED <<refreshed, fresh, workers, target, docs, evid, summary, repo,
                 history>>

LaunchExecutor ==
  /\ pc = "launch" /\ mem.state = EXECUTOR_RUNNING
  /\ \/ ~KnowsDocs /\ Raise("inv") /\ UNCHANGED <<art, fresh, workers>>
     \/ KnowsDocs /\ StartExecutor
  /\ UNCHANGED <<refreshed, target, docs, evid, summary, repo, history>>

ExecutorReported ==        \* mutant of ExecutorTrusted: the history is not read
  /\ art.turn.ok /\ art.turn.clean
  /\ mem.rev.gov = art.turn.gov /\ mem.rev.rt = art.turn.rt

\* The mechanical audit of what the Executor did, on the captured state.
ExecutorTrusted ==
  LET t == art.turn IN
  /\ t.ok /\ t.clean
  /\ mem.rev.gov = t.gov /\ mem.rev.rt = t.rt
  /\ irregular \cap (mem.tb + 1) .. t.head = {}

RouteExecutor ==
  /\ pc = "route" /\ mem.state = EXECUTOR_RUNNING
  /\ \/ ~ExecutorTrusted /\ Raise("inv") /\ UNCHANGED art
     \/ /\ ExecutorTrusted
        /\ Persist([mem EXCEPT !.state = EXECUTOR_COMMITTED, !.exec = art.turn,
                               !.ta = art.turn.head, !.active = 0,
                               !.recorded = FALSE], "loop", "except")
        /\ LeaveTurn
  /\ UNCHANGED <<refreshed, fresh, workers, target, docs, evid, summary, repo,
                 history>>

TargetClean == tgt.clean   \* mutant of AtTargetAfter: any head will do
AtTargetAfter == tgt = [head |-> mem.ta, clean |-> TRUE]

PlanReview ==
  /\ pc = "loop" /\ mem.state = EXECUTOR_COMMITTED
  /\ \/ ~(AtTargetAfter /\ KnowsDocs) /\ Raise("inv")
     \/ /\ AtTargetAfter /\ KnowsDocs
        /\ Persist([mem EXCEPT !.state = REVIEW_PENDING, !.active = 1],
                   "loop", "except")
  /\ UNCHANGED <<turns, target, docs, evid, summary, repo, history>>

-----------------------------------------------------------------------------
(***************************************************************************)
(* REVIEW_PENDING: the Reviewer judges the Executor's receipt.             *)
(***************************************************************************)

PrepareReview ==
  /\ pc = "loop" /\ mem.state = REVIEW_PENDING
  /\ \/ /\ art.st = "done"
        /\ mem' = [mem EXCEPT !.rev = FromTurn(art.turn)]
        /\ pc' = "summary"
        /\ UNCHANGED <<ck, exc, log, art, budgets>>
     \/ art.st = "none" /\ Goto("launch") /\ UNCHANGED art
     \/ /\ art.st \in {"partial", "raw"}
        /\ Persist([mem EXCEPT !.rev = NoReviewer, !.active = @ + 1,
                               !.recorded = FALSE], "launch", "except")
        /\ LeaveTurn
  /\ UNCHANGED <<refreshed, fresh, workers, target, docs, evid, summary, repo,
                 history>>

LaunchReview ==
  /\ pc = "launch" /\ mem.state = REVIEW_PENDING
  /\ \/ ~AtTargetAfter /\ Raise("inv") /\ UNCHANGED <<art, fresh, workers>>
     \/ AtTargetAfter /\ StartReviewer("review")
  /\ UNCHANGED <<refreshed, target, docs, evid, summary, repo, history>>

RouteReview ==
  /\ pc = "route" /\ mem.state = REVIEW_PENDING
  /\ \/ ~art.turn.ok /\ Raise("inv") /\ UNCHANGED art
     \/ /\ art.turn.ok
        /\ Persist([mem EXCEPT !.state = REVIEW_COMPLETED, !.instr = art.turn,
                               !.corr = NoCorrection, !.active = 0,
                               !.recorded = FALSE], "loop", "except")
        /\ LeaveTurn
  /\ UNCHANGED <<refreshed, fresh, workers, target, docs, evid, summary, repo,
                 history>>

-----------------------------------------------------------------------------
(***************************************************************************)
(* REVIEW_COMPLETED: the verdict is validated, corrected or followed.      *)
(***************************************************************************)

\* validate_review_process_authority, with "image" as the Runtime document.
ReviewCurrent(image) ==
  /\ mem.instr.kind \in Verdicts /\ mem.instr.ok
  /\ mem.instr.thread = mem.rev.thread
  /\ mem.instr.gov = gov /\ mem.rev.gov = gov
  /\ mem.instr.rt = image /\ mem.rev.rt = image
  /\ tgt = [head |-> mem.instr.head, clean |-> TRUE]
  /\ mem.rev.head = tgt.head

\* The capability is given, the machine block of the document is unused.
MayTransition(image) == Authorized /\ image \in {Pre, Other}

\* Failures of validate_review_authority and validate_accept the Reviewer may
\* correct: its own declarations, and evidence that is not what it declares.
Correctable ==
  \/ ~mem.instr.declared
  \/ mem.instr.kind = "ACCEPT" /\ MayTransition(rt) /\ mem.instr.evid # evid

\* validate_executor_for_correction
ExecutorCurrent ==
  /\ mem.exec.ok /\ mem.exec.gov = gov /\ mem.exec.rt = rt
  /\ tgt = [head |-> mem.exec.head, clean |-> mem.exec.clean]
  /\ tgt.head = mem.ta

\* validate_framework_for_correction: nothing changed but the summary.
FrameworkUntouched == gov = 0 /\ rt = Pre

GuardsHold == mem.corr.on => mem.corr.guards \subseteq {evid}

VerdictUsable == tgt.clean /\ GuardsHold /\ ReviewCurrent(rt)
VerdictFinal ==
  /\ ~Correctable
  /\ mem.instr.kind = "ACCEPT" => MayTransition(rt)
MayCorrectAgain ==         \* mutant of MayCorrect: attempts are not counted
  Correctable /\ ExecutorCurrent /\ FrameworkUntouched
MayCorrect ==
  /\ Correctable /\ ExecutorCurrent /\ FrameworkUntouched
  /\ mem.corr.completed < MAX_REVIEW_CORRECTION_ATTEMPTS

AtVerdict == pc = "loop" /\ mem.state = REVIEW_COMPLETED

RefuseVerdict ==
  /\ AtVerdict
  /\ ~(VerdictUsable /\ (VerdictFinal \/ MayCorrect))
  /\ Raise("inv")
  /\ UNCHANGED <<turns, target, docs, evid, summary, repo, history>>

\* plan_verdict_correction, with the evidence bytes as they are now.
PlanCorrection ==
  /\ AtVerdict /\ VerdictUsable /\ MayCorrect
  /\ Persist([mem EXCEPT
                !.state = REVIEW_CORRECTION_PENDING,
                !.corr = [mem.corr EXCEPT !.on = TRUE,
                                          !.thread = mem.instr.thread,
                                          !.guards = mem.corr.guards \cup {evid},
                                          !.pending = mem.corr.completed + 1]],
             "loop", "except")
  /\ UNCHANGED <<turns, target, docs, evid, summary, repo, history>>

FollowHumanGate ==
  /\ AtVerdict /\ VerdictUsable /\ VerdictFinal /\ mem.instr.kind = "HUMAN_GATE"
  /\ ReachOutcome(mem, HUMAN_GATE, 0, "finish", "except")
  /\ UNCHANGED <<turns, target, docs, evid, summary, repo, history>>

PlanTransitionUnsaved ==   \* mutant: the plan is kept in memory only
  /\ AtVerdict /\ VerdictUsable /\ VerdictFinal /\ mem.instr.kind = "ACCEPT"
  /\ fresh' = fresh + 1
  /\ mem' = [mem EXCEPT !.state = RUNTIME_TRANSITION_PENDING,
                         !.plan = [id |-> fresh + 1, pre |-> rt]]
  /\ UNCHANGED <<ck, pc, exc, log, art, refreshed, workers, target, docs, evid,
                 summary, repo, budgets, history>>

PlanTransition ==
  /\ AtVerdict /\ VerdictUsable /\ VerdictFinal /\ mem.instr.kind = "ACCEPT"
  /\ fresh' = fresh + 1
  /\ Persist([mem EXCEPT !.state = RUNTIME_TRANSITION_PENDING,
                         !.plan = [id |-> fresh + 1, pre |-> rt]],
             "loop", "except")
  /\ UNCHANGED <<art, refreshed, workers, target, docs, evid, summary, repo,
                 history>>

LastCycle == mem.ta = mem.tb \/ mem.cycle = MaxCycles

FollowReject ==
  /\ AtVerdict /\ VerdictUsable /\ VerdictFinal /\ mem.instr.kind = "REJECT"
  /\ \/ /\ LastCycle
        /\ ReachOutcome(mem, HUMAN_GATE, 0, "finish", "except")
        /\ UNCHANGED corrections
     \/ /\ ~LastCycle
        /\ Persist([mem EXCEPT !.state = INSTRUCTION_READY, !.cycle = @ + 1,
                               !.corr = NoCorrection, !.exec = NoTurn,
                               !.tb = 0, !.ta = 0, !.active = 0],
                   "loop", "except")
        /\ corrections' = IF ck' = ck THEN corrections ELSE 0
  /\ UNCHANGED <<turns, target, docs, evid, summary, repo, written, effect>>

-----------------------------------------------------------------------------
(***************************************************************************)
(* REVIEW_CORRECTION_PENDING, REVIEW_CORRECTION_RUNNING.                   *)
(***************************************************************************)

CorrectionAllowed ==
  /\ tgt.clean /\ FrameworkUntouched /\ GuardsHold
  /\ ReviewCurrent(rt) /\ ExecutorCurrent

CorrectionUncounted ==     \* mutant: the attempt started is not counted
  [mem EXCEPT !.state = REVIEW_CORRECTION_RUNNING, !.active = 1,
              !.recorded = FALSE]
CorrectionCheckpoint ==
  [mem EXCEPT !.state = REVIEW_CORRECTION_RUNNING, !.active = 1,
              !.recorded = FALSE, !.corr.started = mem.corr.pending]

StartCorrection ==
  /\ pc = "loop" /\ mem.state = REVIEW_CORRECTION_PENDING
  /\ \/ ~CorrectionAllowed /\ Raise("inv")
     \/ /\ CorrectionAllowed
        /\ Persist(CorrectionCheckpoint, "loop", "except")
  /\ UNCHANGED <<turns, target, docs, evid, summary, repo, history>>

\* An attempt has one directory: there is no second launch of it.
RunCorrection ==
  /\ pc = "loop" /\ mem.state = REVIEW_CORRECTION_RUNNING
  /\ \/ /\ ~CorrectionAllowed \/ art.st \in {"partial", "raw"}
        /\ Raise("inv") /\ UNCHANGED <<art, fresh, workers, corrections>>
     \/ /\ CorrectionAllowed /\ art.st = "done"
        /\ mem' = [mem EXCEPT !.rev = FromTurn(art.turn)]
        /\ pc' = "summary"
        /\ UNCHANGED <<ck, exc, log, art, fresh, workers, budgets, corrections>>
     \/ /\ CorrectionAllowed /\ art.st = "none"
        /\ StartReviewer("review")
        /\ corrections' = corrections + 1
  /\ UNCHANGED <<refreshed, target, docs, evid, summary, repo, written, effect>>

RouteCorrection ==
  /\ pc = "route" /\ mem.state = REVIEW_CORRECTION_RUNNING
  /\ \/ /\ ~(art.turn.ok /\ art.turn.thread = mem.corr.thread)
        /\ Raise("inv") /\ UNCHANGED art
     \/ /\ art.turn.ok /\ art.turn.thread = mem.corr.thread
        /\ Persist([mem EXCEPT !.state = REVIEW_COMPLETED, !.instr = art.turn,
                               !.corr.completed = @ + 1, !.corr.pending = 0,
                               !.active = 0, !.recorded = FALSE],
                   "loop", "except")
        /\ LeaveTurn
  /\ UNCHANGED <<refreshed, fresh, workers, target, docs, evid, summary, repo,
                 history>>

-----------------------------------------------------------------------------
(***************************************************************************)
(* RUNTIME_TRANSITION_PENDING, RUNTIME_TRANSITION_COMMITTED.               *)
(***************************************************************************)

\* validate_accept on the governance with the planned preimage put back.
StillAccepted ==
  /\ ReviewCurrent(mem.plan.pre) /\ mem.instr.declared
  /\ mem.instr.kind = "ACCEPT" /\ MayTransition(mem.plan.pre)
  /\ mem.instr.evid = evid

\* Only the exact postimage or, before the commitment, the exact preimage.
ReconcileRuntime ==
  /\ pc = "loop" /\ mem.state \in Transition
  /\ \/ /\ StillAccepted /\ rt = mem.plan.id
        /\ Goto("replaced")
     \/ /\ StillAccepted /\ rt = mem.plan.pre
        /\ mem.state = RUNTIME_TRANSITION_PENDING
        /\ Goto("replace")
     \/ /\ \/ ~StillAccepted
           \/ rt \notin {mem.plan.id, mem.plan.pre}
           \/ mem.state = RUNTIME_TRANSITION_COMMITTED /\ rt # mem.plan.id
        /\ Raise("inv")
  /\ UNCHANGED <<turns, target, docs, evid, summary, repo, history>>

ReplaceRuntime ==
  /\ pc = "replace"
  /\ \/ /\ rt # mem.plan.pre
        /\ Raise("inv") /\ UNCHANGED <<rt, written>>
     \/ /\ rt = mem.plan.pre
        /\ rt' = mem.plan.id /\ written' = written \cup {mem.plan.id}
        /\ Goto("replaced")
  /\ UNCHANGED <<turns, target, gov, evid, summary, repo, corrections, effect>>

NothingApplied == mem      \* mutant: runtime_transition_applied is not set
Applied == [mem EXCEPT !.applied = TRUE]

MarkApplied ==
  /\ pc = "replaced"
  /\ ReachOutcome(Applied, RUNTIME_TRANSITION_COMMITTED, 0, "finish", "except")
  /\ UNCHANGED <<turns, target, docs, evid, summary, repo, history>>

-----------------------------------------------------------------------------
(***************************************************************************)
(* finish_evidence: one commit in the framework repository, then its push. *)
(***************************************************************************)

FinishError(kind) ==
  /\ \/ /\ pc = "finish" /\ pc' = "except" /\ exc' = kind
        /\ Record(ErrorFits) /\ UNCHANGED mem
     \/ pc = "finishX" /\ pc' = "exceptX" /\ exc' = kind /\ UNCHANGED <<mem, log>>
     \/ pc = "finishR" /\ pc' = "down" /\ exc' = "none" /\ mem' = ck /\ LeaveJournal
  /\ UNCHANGED ck

FinishPersist(m) ==
  Persist(m, pc, CASE pc = "finish"  -> "except"
                   [] pc = "finishX" -> "exceptX"
                   [] OTHER          -> "down")

WorkingTree == [set |-> TRUE, n |-> summary.n, rt |-> rt,
                intact |-> summary.intact]

\* Changes to commit: the summary there, and nothing outside the allowlist.
MayCommitAnyRuntime ==     \* mutant: the Runtime is always on the allowlist
  ~commit.set /\ mem.entries > 0 /\ gov = 0
MayPlanCommit ==
  /\ ~commit.set /\ mem.entries > 0 /\ gov = 0
  /\ rt = Pre \/ mem.applied

\* The files are what the plan (before the commit) or the commit says.
MatchesPlan   == gov = 0 /\ WorkingTree = mem.pub
MatchesCommit == gov = 0 /\ WorkingTree = commit

BeginFinish ==
  /\ pc \in Finishing /\ mem.state \notin Finalizing
  /\ \/ ~SummaryValid /\ FinishError("inv") /\ UNCHANGED budgets
     \/ /\ SummaryValid
        /\ FinishPersist([mem EXCEPT !.state = EVIDENCE_FINALIZATION_PENDING])
  /\ UNCHANGED <<turns, target, docs, evid, summary, repo, history>>

PlanCommit ==
  /\ pc \in Finishing /\ mem.state = EVIDENCE_FINALIZATION_PENDING
  /\ ~mem.pub.set
  /\ \/ ~MayPlanCommit /\ FinishError("inv") /\ UNCHANGED budgets
     \/ MayPlanCommit /\ FinishPersist([mem EXCEPT !.pub = WorkingTree])
  /\ UNCHANGED <<turns, target, docs, evid, summary, repo, history>>

MakeCommit ==
  /\ pc \in Finishing /\ mem.state = EVIDENCE_FINALIZATION_PENDING
  /\ mem.pub.set /\ ~commit.set
  /\ \/ ~MatchesPlan /\ FinishError("inv") /\ UNCHANGED commit
     \/ MatchesPlan /\ commit' = mem.pub /\ UNCHANGED <<pc, exc, mem, ck, log>>
  /\ UNCHANGED <<turns, target, docs, evid, summary, pushed, budgets, history>>

\* The commit, made just now or by a process that died, is what was planned.
NoteCommit ==
  /\ pc \in Finishing /\ mem.state = EVIDENCE_FINALIZATION_PENDING
  /\ mem.pub.set /\ commit.set
  /\ \/ /\ ~(commit = mem.pub /\ MatchesCommit)
        /\ FinishError("inv") /\ UNCHANGED budgets
     \/ /\ commit = mem.pub /\ MatchesCommit
        /\ FinishPersist([mem EXCEPT !.state = FRAMEWORK_EVIDENCE_COMMITTED])
  /\ UNCHANGED <<turns, target, docs, evid, summary, repo, history>>

Push ==
  /\ pc \in Finishing /\ mem.state = FRAMEWORK_EVIDENCE_COMMITTED
  /\ \/ /\ ~MatchesCommit
        /\ FinishError("inv") /\ UNCHANGED <<pushed, budgets>>
     \/ /\ MatchesCommit /\ ~pushed
        /\ pushed' = TRUE /\ UNCHANGED <<pc, exc, mem, ck, log, budgets>>
     \/ /\ MatchesCommit /\ pushed
        /\ FinishPersist([mem EXCEPT !.state = FRAMEWORK_EVIDENCE_PUSHED])
        /\ UNCHANGED pushed
  /\ UNCHANGED <<turns, target, docs, evid, summary, commit, history>>

\* The last verification, and the process exits.
EndFinish ==
  /\ pc \in Finishing /\ mem.state = FRAMEWORK_EVIDENCE_PUSHED
  /\ \/ ~(MatchesCommit /\ pushed) /\ FinishError("inv")
     \/ /\ MatchesCommit /\ pushed
        /\ pc' = "down" /\ exc' = "none" /\ mem' = ck
        /\ LeaveJournal /\ UNCHANGED ck
  /\ UNCHANGED <<turns, target, docs, evid, summary, repo, budgets, history>>

FinishIOError ==
  /\ pc \in Finishing
  /\ faults > 0 /\ faults' = faults - 1
  /\ FinishError("os")
  /\ UNCHANGED <<turns, target, docs, evid, summary, repo, crashes, edits,
                 history>>

-----------------------------------------------------------------------------
(***************************************************************************)
(* --resume: validate_preflight, then what the checkpoint must match.      *)
(***************************************************************************)

RecoversPending == ck.state \in Transition   \* mutant: finalizing forgotten
RecoversTransition ==
  \/ ck.state \in Transition
  \/ ck.state \in Finalizing /\ ck.applied

GovernanceUnchanged ==
  /\ gov = 0
  /\ IF RecoversTransition
     THEN rt \in {Pre, ck.plan.id} /\ ck.plan.pre = Pre
     ELSE rt = Pre

\* validate_preflight, and ProgressStatus(resume=True) accepts the journal.
ResumeStarts == tgt.clean /\ GovernanceUnchanged /\ log.fits

\* A resume gets as far as finish_evidence or the loop.
Resumable ==
  /\ ResumeStarts /\ ResumePoint # "down"
  /\ IF ck.pending THEN SummaryReconcilable ELSE SummaryValid

\* run_resumed is recorded; it always fits.
Resume ==
  /\ pc = "down" /\ ResumeStarts
  /\ \/ ck.pending /\ pc' = "reconcile"
     \/ ~ck.pending /\ SummaryValid /\ pc' = ResumePoint /\ pc' # "down"
  /\ UNCHANGED <<ck, mem, exc, log, turns, target, docs, evid, summary, repo, budgets,
                 history>>

-----------------------------------------------------------------------------
(***************************************************************************)
(* What goes on around the program: Executor processes work in the target, *)
(* also after the process that waited for them died; a Human, or whatever  *)
(* else has the trees, commits, cleans, and edits.                         *)
(***************************************************************************)

OutsideProgram == UNCHANGED <<ck, mem, pc, exc, log, art, refreshed, fresh, repo,
                              crashes, faults, history>>

NextHead == [head |-> tgt.head + 1, clean |-> tgt.clean]

ExecutorCommits ==
  /\ workers > 0 /\ tgt.head < MaxHead
  /\ tgt' = NextHead
  /\ irregular' \in {irregular, irregular \cup {NextHead.head}}
  /\ UNCHANGED <<docs, evid, summary, workers, edits>> /\ OutsideProgram

ExecutorEditsFiles ==
  /\ workers > 0
  /\ tgt' = [tgt EXCEPT !.clean = ~@]
  /\ UNCHANGED <<irregular, docs, evid, summary, workers, edits>>
  /\ OutsideProgram

OrphanExits ==
  /\ workers > (IF ExecutorTurn THEN 1 ELSE 0)
  /\ workers' = workers - 1
  /\ UNCHANGED <<target, docs, evid, summary, edits>> /\ OutsideProgram

HumanCleans ==
  /\ pc = "down" /\ ~tgt.clean
  /\ tgt' = [tgt EXCEPT !.clean = TRUE]
  /\ UNCHANGED <<irregular, docs, evid, summary, workers, edits>>
  /\ OutsideProgram

\* Interventions in a tree the run relies on, "edits" of them in all.
Intervene ==
  /\ edits > 0 /\ edits' = edits - 1
  /\ \/ /\ tgt.head < MaxHead /\ tgt' = NextHead
        /\ UNCHANGED <<docs, evid, summary>>
     \/ /\ gov' = gov + 1 /\ UNCHANGED <<tgt, rt, evid, summary>>
     \/ /\ rt' \in {Pre, Other} \ {rt} /\ UNCHANGED <<tgt, gov, evid, summary>>
     \/ /\ evid' = evid + 1 /\ UNCHANGED <<tgt, docs, summary>>
     \/ /\ summary' \in {[summary EXCEPT !.intact = FALSE],
                         [summary EXCEPT !.cited = FALSE]}
        /\ UNCHANGED <<tgt, docs, evid>>
  /\ UNCHANGED <<irregular, workers>> /\ OutsideProgram

-----------------------------------------------------------------------------
Turns == TurnExits \/ AuditReviewer \/ CaptureExecutor
         \/ PlanSummary \/ AppendSummary \/ NoteSummary
Instructing == PrepareInstruction \/ LaunchInstruction \/ RouteInstruction
               \/ CheckFreshness \/ RouteRefresh
Executing == PrepareExecutor \/ LaunchExecutor \/ RouteExecutor \/ PlanReview
Reviewing == PrepareReview \/ LaunchReview \/ RouteReview \/ RefuseVerdict
             \/ PlanCorrection \/ FollowHumanGate \/ PlanTransition \/ FollowReject
Correcting == StartCorrection \/ RunCorrection \/ RouteCorrection
Accepting == ReconcileRuntime \/ ReplaceRuntime \/ MarkApplied
Publishing == BeginFinish \/ PlanCommit \/ MakeCommit \/ NoteCommit \/ Push
              \/ EndFinish
Handling == HandleFailure \/ HandleFailureOfHandler

Program == Turns \/ Instructing \/ Executing \/ Reviewing \/ Correcting
           \/ Accepting \/ Publishing \/ Handling
Mishap == Crash \/ IOError \/ FinishIOError \/ EventLost \/ LateEvent
Environment == ExecutorCommits \/ ExecutorEditsFiles \/ OrphanExits
               \/ HumanCleans \/ Intervene

Next == Program \/ Resume \/ Mishap \/ Environment

Spec == Init /\ [][Next]_vars

\* A running process goes on: its Agents have a timeout, its writes end.  The
\* Human resumes a run that can be resumed and cleans a target that cannot be
\* worked on.
Fairness == WF_vars(Program) /\ WF_vars(Resume) /\ WF_vars(HumanCleans)
FairSpec == Spec /\ Fairness

-----------------------------------------------------------------------------
(***************************************************************************)
(* What must not go wrong.                                                 *)
(***************************************************************************)

\* Write ahead: a postimage in the Runtime document is always that of the plan
\* in the checkpoint on disk, so that whoever resumes can tell what happened.
\* (persist(RUNTIME_TRANSITION_PENDING) before atomic_replace_runtime.)
WriteAhead == rt > 0 => ck.plan.id = rt

\* A run writes the Runtime document at most once, whatever is interrupted and
\* resumed.  (reconcile_runtime_transition recognises its own postimage.)
WrittenOnce == \A p, q \in written : p = q

\* The verdict behind a written Runtime is an ACCEPT of exactly the head whose
\* commits passed the mechanical audit of the Executor turn: ordinary commits
\* on top of the head the cycle began with.
AcceptedWhatWasAudited ==
  rt > 0 =>
    /\ ck.instr.kind = "ACCEPT" /\ ck.instr.declared
    /\ ck.instr.head = ck.ta /\ ck.exec.head = ck.ta
    /\ irregular \cap (ck.tb + 1) .. ck.ta = {}

\* No cycle launches more than two correction turns, over all the restarts
\* that fall between their plans, launches, audits and records.
CorrectionBudget == corrections <= MAX_REVIEW_CORRECTION_ATTEMPTS

\* The correction record a checkpoint holds is one that
\* validate_verdict_correction_record accepts, at every point where a process
\* may have died.
CorrectionRecordValid ==
  ck.corr.on =>
    /\ ck.corr.started \in {ck.corr.completed, ck.corr.completed + 1}
    /\ ck.corr.started <= MAX_REVIEW_CORRECTION_ATTEMPTS
    /\ ck.corr.pending \in {0, ck.corr.completed + 1}
    /\ ck.state \in {REVIEW_CORRECTION_PENDING, REVIEW_CORRECTION_RUNNING} =>
         ck.corr.pending # 0

\* Once the target moved under an Executor turn that ended, no Executor is
\* launched in that cycle again, with or without the evidence of the turn.
NoReplayAfterEffect ==
  [][LaunchExecutor /\ StartExecutor => mem.cycle \notin effect]_vars

\* An Executor only ever runs on an instruction (or a REJECT) that its Reviewer
\* gave for the head the cycle begins with (target_before) and for the
\* governance bytes the Executor meets, also when the instruction is found again
\* after a restart.  Of the target nothing is said at the launch itself: an edit
\* or an orphan may move it after the comparison with target_before.
InstructionIsCurrent ==
  [][LaunchExecutor /\ StartExecutor =>
       /\ mem.instr.ok /\ mem.instr.kind \in {"instruction", "REJECT"}
       /\ mem.instr.head = mem.tb
       /\ mem.instr.gov = gov /\ mem.instr.rt = rt]_vars

\* A checkpoint that reached finalization stays in it with its outcome; no
\* Agent is launched and no Runtime written any more, whoever resumes.
FinalizationIsFinal ==
  [][ck.state \in Finalizing =>
       /\ ck'.state \in Finalizing /\ ck'.outcome = ck.outcome
       /\ workers' <= workers /\ fresh' = fresh /\ written' = written]_vars

\* A run reported as failed closed, or as stopped for a Human by a decision
\* (exit code 0), has not written the Runtime document.
DeclinedRunsKeepRuntime ==
  \/ ck.outcome.state = FAILED_CLOSED
  \/ ck.outcome = [state |-> HUMAN_GATE, exit |-> 0]
  => written = {}

\* Wherever a process ended, a resume is refused for one of these reasons: the
\* target is not clean; the journal does not fit, which takes an I/O error or a
\* checkpoint an Agent may have been at work at; somebody intervened; a
\* transition was stopped for a Human with the Runtime changed; a process.json
\* was torn under a summary entry; the refresh of a ready instruction failed.
RefusedForCause ==
  pc = "down" /\ ~Resumable =>
    \/ ~tgt.clean
    \/ /\ ~log.fits
       /\ faults # MaxFaults \/ ck.state \in AgentStates \cup {INSTRUCTION_READY}
    \/ edits # MaxEdits
    \/ ~GovernanceUnchanged /\ ck.outcome.state = HUMAN_GATE
    \/ ~summary.cited
    \/ ~ReferencesLoad /\ ck.state = INSTRUCTION_READY

\* A run reported as committed has written the plan it reports.
CommittedIsWritten ==
  ck.outcome.state = RUNTIME_TRANSITION_COMMITTED =>
    ck.applied /\ written = {ck.plan.id}

\* What is pushed was committed as the checkpoint planned it, after a decided
\* outcome, and carries a changed Runtime only when the run applied one.
PublishedAsDecided ==
  /\ pushed => commit.set
  /\ commit.set => /\ commit = ck.pub /\ ck.state \in Finalizing
                   /\ ck.outcome.state \notin {"none", "UNDETERMINED"}
                   /\ commit.rt # Pre => ck.applied

\* The whole of it is an implementation of the run's contract: one plan in the
\* Runtime at most, an outcome that says so and is never taken back, and the
\* publication of exactly that.  (The durable checkpoint is what counts.)
Promise == INSTANCE RunContract WITH
  outcome   <- ck.outcome,
  final     <- ck.state \in Finalizing,
  written   <- written,
  published <- IF pushed THEN "pushed"
               ELSE IF commit.set THEN "committed" ELSE "no",
  carries   <- commit.set /\ commit.rt # Pre
KeepsContract == Promise!Spec

NoOrphans == workers <= IF ExecutorTurn THEN 1 ELSE 0
Undisturbed == NoOrphans /\ (pc = "down" => tgt.clean)

Published == ck.state = FRAMEWORK_EVIDENCE_PUSHED /\ pushed
Decided == ck.outcome.state \in {RUNTIME_TRANSITION_COMMITTED, HUMAN_GATE,
                                 FAILED_CLOSED}

\* Every resume is refused by ProgressStatus, for good.
JournalRefuses == pc = "down" /\ ~log.fits

\* Whatever dies or fails to be written, a run whose target is left alone
\* while nothing runs reaches an outcome, unless its journal refuses it.
EventuallyDecided == []Undisturbed => <>[](Decided \/ JournalRefuses)

\* If processes only die (with their Agents), the evidence is pushed as well:
\* the journal apart, no checkpoint of such a run is a dead end.
EventuallyPublished ==
  [](Undisturbed /\ faults = MaxFaults) => <>(Published \/ JournalRefuses)

-----------------------------------------------------------------------------
(***************************************************************************)
(* What the documentation says of the program and the code does not do.    *)
(***************************************************************************)

\* README.md: the runner runs one mutation Executor at a time.  An Executor
\* outlives a killed runner; a resumed run that finds the target unmoved
\* launches another.
OneExecutor == workers <= 1

\* README.md: the final result tells the Runtime transition apart from the
\* outcome.  NOT_APPLIED is what structured_final_result says of a decided run
\* that has not set runtime_transition_applied.
NotAppliedIsNotApplied ==
  Decided /\ ~ck.applied /\ ck.state \notin Transition => rt <= 0

\* README.md: at a logical terminal state the runner creates one evidence
\* commit and pushes it.  (Runs the journal does not refuse.)
TerminalIsPublished == []~JournalRefuses => [](Decided => <>Published)

\* The same of a run whose process dies once, together with its Executor, with
\* no I/O error, in a target nobody moves, and whose journal is accepted.
CrashedRunIsPublished == [](NoOrphans /\ ~JournalRefuses) => <>Published
=============================================================================
