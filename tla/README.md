# A TLA+ model of 1PCloop

1PCloop lets one Reviewer Agent and fresh, short-lived Executor Agents work on
a Git repository (the *target*) under governance documents, and keeps every
control decision in deterministic Python: what may run, what is believed, when
the workload *Runtime* document may change, and what is committed as evidence.
This directory holds the TLA+ modules that model it, the TLC runs that check
the model, and proofs for the TLA+ proof system (tlapm).

Paths in this file are relative to `1PCloop/scripts/` unless they say otherwise.

## 1. The system

### 1.1 Components

| Component | Code | State | Operations | Status |
|---|---|---|---|---|
| Mutation orchestrator | `run_mutation_loop.py` `orchestrate` (3134-4770) | checkpoint file, its copy in memory, run directory, Runtime document | one branch per checkpoint state, exception handler, `--resume` | modelled, see 1.4 |
| Agent turns | `run_codex_turn`, `stream_subprocess`, `invoke_reviewer` | a turn directory (`final.txt`, `process.json`), an OS process | launch, exit, timeout, audit, recovery of a finished turn | modelled |
| Evidence publication | `p63_evidence.py` | tracked summary file, one commit, remote branch | plan/append/reconcile an entry; plan, commit, push, reconcile | modelled as the orchestrator calls it |
| Message contracts | `mutation_contracts.py` | none | validation, correctable and other failures | modelled as data |
| Account binding | `codex_mix_account.py` | role homes, transaction directories, switch lock and role locks | one Agent turn with a borrowed credential, recovery, inspection | modelled, see 1.4 |
| Progress journal | `progress_status.py` | append-only event log, cursor and projection in the checkpoint | record, prepare, resume, validate the suffix | modelled, see 1.4 |
| Human Gate | `human_gate.py` | none | projection of a checkpoint to allowed actions | modelled |
| Operator | `workload_operator.py` | none of its own | `status`, `inspect`, `doctor`, `preflight`, run | `status` and `inspect` modelled |
| Dashboard | `local_tui.py` | last snapshot | read, compare, draw | modelled without layout and keys |
| Runtime home migration | `codex_runtime_migration.py`, `.sh` | two role homes | publish by rename, reconcile | not modelled |
| Text loop | `run_text_loop.py` | a run directory | two-Agent text experiment | not modelled; its `write_json` is |
| Entry point, schemas, roles, templates, workloads, `history/`, `runs/` | | data | | not modelled |

### 1.2 How they interact

The orchestrator is one process.  It calls everything else synchronously: it
starts one Agent process at a time and waits for it, appends to the summary
through `p63_evidence`, and writes the checkpoint (`persist`) whenever the
state changes.  Nothing is shared in memory with another actor, everything is
shared on disk: Agents work in the target repository; the Human may edit
target, governance documents and evidence at any time; a process may be killed
at any point and another one started with `--resume`, which has the checkpoint
and the files and nothing else.  The operator's `status` and `inspect`, the Human
Gate and the dashboard only read.

### 1.3 What is hard, and what makes each part correct

* *Crash and resume.*  Every effect (an Agent turn, a summary entry, the
  Runtime replacement, the commit, the push) is between two checkpoint writes.
  The run is correct when a resumed process can tell for each of them whether it
  happened, and does not repeat it.
* *Failed writes.*  `persist` changes the state in memory first.  After an
  I/O error the exception handler decides from a state the disk may not hold.
* *Stale state.* An instruction, a verdict and the evidence it cites are bound
  to a target head and to governance bytes.  Both can change between any two
  steps; no Executor may be started on an instruction for another head than the
  one its cycle begins with or for other governance bytes than it meets, and no
  transition may follow from an outdated binding. (That the target is still at
  that head is checked at 4089, the turn is launched at 4118: an orphan or an
  edit in between is not seen before the audit of the turn.)
* *Counted retries.*  Two correction turns per review, also over restarts.
* *Processes that outlive their parent.*  An Agent has a session of its own.
* *Publication.*  One commit, of what was planned, after the outcome is final.
* *Liveness.*  A checkpoint, or a journal beside it, that every resume refuses
  is a run nobody can end.
* *Account binding.*  A role's own credential must never be lost, nothing may
  stay projected, and a credential must not be taken from an Agent that still
  uses it, whichever of the file operations of a turn a kill hits.
* *Progress journal.*  Checkpoint and log are two files, written one after the
  other; whatever a kill leaves must fit together, or no resume is possible.
  Recorded time must not go back over restarts of the clock.
* *Operator, Human Gate and dashboard.*  They read five files while a run
  replaces them one by one.  The progress drawn must be of the state beside it,
  the advice must not be outdated by the run itself, and a run at rest must be
  shown as it is.
`PROJECT.json` lists each hazard at its line, with the properties that cover it
or the reason none does yet.

### 1.4 Modelled, and left out

`MutationLoop` models a run of the orchestrator from its first checkpoint to the
pushed evidence.  It has every branch of the state loop, both exception
handlers and the resume path, with evidence finalization on.  Left out:

* runs without evidence finalization (a shorter version of the same loop);
* a second run after the first, and the guard that refuses a used Runtime
  preimage;
* a second runner on the same checkpoint: nothing in the code prevents it, the
  documentation excludes it (`1PCloop/README.md`, "one active loop");
* foreign commits in the framework repository and on the remote;
* the framework Runtime document apart from the other governance documents
  (`gov` is one version for the three);
* `last_state_transition` and `evidence_finalization_error`, which no later
  decision of the loop depends on in the states modelled;
* compare-and-`os.replace` of the Runtime (lines 3036-3038), and the check and
  the act of `git commit` and `git push`, are one step each.  Edits in these
  windows of one system call are outside the model;
* the events of the journal: `log` says whether the next resume accepts them
  (`fits`), and what decides it for the next one (`ProgressJournal` has the
  events themselves).  An event that outlives its turn is recorded before the
  next checkpoint only;
* content: prompts, texts, hashes and JSON.  Of the summary file the number of
  entries and whether it is unaltered are kept, in the working tree, the plan
  and the commit: an entry appended behind a plan is a change the plan
  refuses.  A document is a version number, a turn the versions it is bound to,
  a verdict its kind and two facts (`declared`: its own declarations are right;
  `evid`: the version of the evidence it cites).

`AuthTransaction` models every file operation of `active_account_environment`
and of `recover_incomplete_transactions`, by any number of processes.  Left out:
the credential scan and the comparison of the projected bytes after the turn
(they decide what a finished turn reports), the baselines of retired homes,
role configuration files.  Of the temporary files `_atomic_write` leaves behind
when it is killed, the one beside the backup is in the model (`temp`), since a
directory without a record is refused for ever while it holds one (570-582).
Left out are those beside the record, which every recovery accepts and removes,
and those in the homes, which no code reads.

`ProgressJournal` models every event a run records, at the place where
`run_mutation_loop.py` records it, the test of the suffix on resume, and the
elapsed times.  Left out: time stamps, cycle, target head and Runtime
projection, which follow the same path through log, checkpoint and test as
outcome and state do; the bytes and hashes of the lines; `base` stands for all
of the log before the cursor, which the code does not look at again except for
its last event.  The orchestrator is cut down to the order of its checkpoints:
which branch it takes is a free choice.

`OperatorView` models the reads of `status`, `inspect_run` and of a refresh of
the dashboard, one file at a time, against a run that writes one file at a time.
The run is cut down to the states `project_human_gate` tells apart.  Left out:
`load_config`, `doctor`, `preflight`, `safe_next_action`, layout and keys.  The
evidence checks of `inspect_run` are one step (`CheckRest`), after the reads of
manifest and observation; the code has commit, push, correction and target
evidence before these.  Those checks are assumed to pass, and raw evidence once
lost or altered stays so, so that the summary check finds it in either order.
`SuffixFits` looks at the last event behind the cursor only; the rules for each
event are in `ProgressJournal`.

### 1.5 Not modelled

* *Text loop*: older, sequential, keeps nothing over a restart and shares no
  state with the rest; what its turns do is what their prompts say.
* *Runtime home migration*: run once by hand; one rename is its one hard step
  (listed as a hazard).
* *Entry point*: parses arguments and calls one of the others.
* *Schemas, roles, templates, workloads*: data.  *`history/`, `runs/`,
  `evidence-summaries/`*: earlier programs and records of past runs.

## 2. Modules

| Module | What it is |
|---|---|
| `MutationLoop` | the orchestrator, its properties, and the definitions the mutants use |
| `RunContract` | what a run promises, abstractly; `MutationLoop` implements it |
| `AuthTransaction` | credential projection around one Agent turn, recovery, locks, kills |
| `ProgressJournal` | event log, checkpoint projection, resume test |
| `OperatorView` | `status`, `inspect`, Human Gate and dashboard beside a running loop |
| `MCMutationLoop`, `MCAuthTransaction`, `MCProgressJournal`, `MCOperatorView` | the modules TLC runs; the `.cfg` files give them constants |
| `MutationLoopTypes`, `MutationLoopLedger` | proofs: the type invariant; the Runtime transition and publication |
| `MutationLoopTurns` | proofs: what a turn is bound to, corrections, no second Executor; why a resume is refused |
| `MutationLoopContract` | proof that `MutationLoop` implements `RunContract` |
| `AuthTransactionTypes`, `AuthTransactionSafety` | proofs: the type invariant; a role's own credential is never lost |
| `ProgressJournalProofs` | proofs: types, recorded times, the resume test |
| `OperatorViewProofs` | proofs: what a frame joins, its advice, a world that stands still |

The four models meet at the same interfaces of the code and are not composed
into one specification: `AuthTransaction` is what one "launch and exit" of
`MutationLoop` does to the role homes; `ProgressJournal` and `OperatorView` take
the checkpoint sequence of `MutationLoop` with its choices left open, so that
each allows every sequence `MutationLoop` has.

### 2.1 MutationLoop: state

| Variable | Code |
|---|---|
| `ck` | the checkpoint file (`CheckpointStore`, the dictionary in `persist`) |
| `mem` | the local variables of `orchestrate` that `persist` writes |
| `pc`, `exc` | where the process is between two effects; the exception in flight (`"os"`: an `OSError`, `"inv"`: `InvariantViolation`) |
| `art` | what `completed_turn_from_dir` finds in the active turn directory |
| `refreshed` | `reviewer-pre-executor-refresh` directories, one per cycle |
| `fresh` | thread and transition identities given out |
| `tgt`, `irregular` | the target branch: its head as a number, cleanliness; heads with a merge, rewrite or protected path behind them |
| `gov`, `rt`, `evid` | governance documents, workload Runtime, evidence files |
| `summary` | the tracked summary: entries, whether its bytes and the artifacts it cites are those written |
| `workers` | live Executor processes |
| `log` | the progress journal as a resume sees it: `fits` (the events behind the cursor of the checkpoint on disk are accepted), `closed` (a turn of this process was recorded as finished), `obs` (events are recorded, or a failed append ended that, perhaps with its line in the file) |
| `commit`, `pushed` | the evidence commit and the remote branch |
| `crashes`, `faults`, `edits` | what is left of the bounds on the environment |
| `written`, `corrections`, `effect` | history, read by properties only (`effect` and `corrections` restrict no action) |

While there is no process (`pc = "down"`) `mem` equals `ck`: a resumed process
starts from the file.

### 2.2 MutationLoop: actions

A branch of `while True` in `orchestrate` is split where another actor can come
in: before a turn is launched, while the Agent runs, between its exit and the
audit, between the three steps of a summary entry, around `os.replace`.  What
the code does without an effect in between is one action.

| Actions | Code |
|---|---|
| `PrepareInstruction`, `LaunchInstruction`, `RouteInstruction` | 3917-3987 |
| `CheckFreshness`, `RouteRefresh` | 3989-4069, `ensure_instruction_fresh` |
| `PrepareExecutor`, `LaunchExecutor`, `RouteExecutor`, `PlanReview` | 4071-4233 |
| `PrepareReview`, `LaunchReview`, `RouteReview` | 4235-4315 |
| `RefuseVerdict`, `PlanCorrection`, `FollowHumanGate`, `FollowReject`, `PlanTransition` | 4503-4655 |
| `StartCorrection`, `RunCorrection`, `RouteCorrection` | 4317-4501 |
| `ReconcileRuntime`, `ReplaceRuntime`, `MarkApplied` | 4657-4673, 3025-3100 |
| `TurnExits`, `AuditReviewer`, `CaptureExecutor` | `run_codex_turn`, `invoke_reviewer`, 4144-4162 |
| `PlanSummary`, `AppendSummary`, `NoteSummary` | `record_turn_summary`, `reconcile_summary_plan` |
| `BeginFinish`, `PlanCommit`, `MakeCommit`, `NoteCommit`, `Push`, `EndFinish` | `finish_evidence`, `commit_or_reconcile`, `push_or_reconcile` |
| `HandleFailure`, `HandleFailureOfHandler` | 4676-4770 |
| `Resume` | 3158-3258, 3354-3373 (`ProgressStatus` with `resume`), 3885-3916 |
| `Crash`, `IOError`, `FinishIOError` | a process killed, an `OSError` of any call |
| `EventLost`, `LateEvent` | the append of an event fails (`progress_status.py` 875-892); an output thread outlives its turn (1201-1232) |
| `ExecutorCommits`, `ExecutorEditsFiles`, `OrphanExits`, `HumanCleans`, `Intervene` | external |

`Persist(m, next, fail)` is `persist` as it stands: the memory changes to `m`,
then the file is replaced.  A fault can come before or after the replacement
(`atomic_write_json` may fail in the directory `fsync`), and control goes to the
handler with the memory changed either way.

Events of the journal are part of the action that records them: `Record` says
whether the event fits the checkpoint on disk, `MoveCursor` that a checkpoint was
written behind it, `LeaveJournal` that the process and its knowledge of the
journal are gone.  A `turn_started` fits in `TURN_CONTROL_STATES` only, and the
handler's error event (4683) only with the orchestrator's role and outside of a
turn (`ErrorFits`).  A journal that does not fit when the process is gone is
refused by every `--resume`.

A crash either takes the Executor with it (an interrupt the runner handles) or
leaves it running (SIGKILL: the Agent was started with `start_new_session`).

### 2.3 RunContract

Five variables: the durable outcome, whether finalization has begun, the set of
plans written into the Runtime, and the evidence commit.  Five actions: one
`Write` while nothing is decided, `Report` (an outcome may be replaced by a
failure on the way, never taken back), `Finalize`, `Commit`, `Push`.  The
refinement mapping (`Promise` in `MutationLoop`) reads them from the checkpoint
file, the history of writes and the repository; in-memory state, crashes and
handlers are stutters or one of the five.

### 2.4 AuthTransaction

| Variable | Code |
|---|---|
| `auth`, `active` | `auth.json` of each role home, account of the canonical home |
| `dirs`, `used` | transaction directories: `transaction.json`, backup, a temporary file of the backup; how many were made |
| `lock`, `roleLock` | `flock` on the switch lock and on each role's lock; they end with the process |
| `proc` | per process: place, role, bound account, and the variables of the context manager (`mem`: the record, `kept`: `original_auth`, `lent`: `active_auth`) |
| `live`, `home`, `reused` | Agent processes, the home each uses, process ids given to somebody else |
| `stray` | history: Agents whose runner was killed before recording them |

An action is one file operation or one lock: `Acquire`, `RecoverNext` (with the
four answers of `_recover_transaction`), `RecoverMark`, `RecoverRestore`,
`RecoverSeal`, `Remove` (one unlink at a time), `RecoverDone`, `Look`; `Begin`,
`MakeDirectory`, `WriteFirstRecord`, `WriteBackup`, `Prepare`, `Project`,
`Confirm`; `Launch`, `NoteChild`, `ChildStopped`; `Close`, `Mark`, `Restore`,
`Seal`, `Undo`, `VerifyUndo`.  `Fault` is an exception (what it leads to depends
on the `try` it is in), `Crash` a kill.  Agents write into their home and exit,
process ids are reused and freed, accounts are switched, at any time.

### 2.5 ProgressJournal

| Variable | Code |
|---|---|
| `ck` | `progress` and state of the checkpoint on disk |
| `base`, `suffix` | the event at the checkpoint's cursor, the events behind it |
| `mem` | the `ProgressStatus` object (`obs`: it still observes) |
| `mode`, `pc`, `then` | which handler catches an exception; the next effect; what follows the write under way |
| `kills`, `faults` | bounds |

`Write` is the checkpoint replacement, `Mark` the state marker after it,
`EventOf`/`Record` an append, which may fail before or after the line is in the
file; `Turn*`, `Heartbeat`, `ToolActivity`, `PumpOutlivesTurn` are the events of
an Agent turn, the last one of an output thread that outlives its join;
`Raising`, `Handle*`, `RaiseAgain` the exception path; `Accepts` is
`validate_checkpoint_suffix`, `Scans` the monotonicity `scan_events` demands.

### 2.6 OperatorView

`ck`, `log`, `live`, `manifest` are the files, `writing` what the run writes
next; `target`, `raw` what a Human may have changed.  `phase` is the next read of
the dashboard: for `status` the checkpoint, the manifest, the observation, the
rest and the progress, then the first four for `inspect`, a second look for a
checkpoint if `status` found none (`LookAgain`), comparison and drawing (`Draw`).
`st` and `ins` are the two results and `frame` what is on the screen.
`project_human_gate` is an operator over a checkpoint and what was read.

## 3. Properties

Each module has one type invariant `TypeOK`.

`MutationLoop`:

* `WriteAhead` - a postimage in the Runtime document is that of the plan on disk.
* `WrittenOnce` - a run writes the Runtime at most once.
* `AcceptedWhatWasAudited` - it is written only for an ACCEPT of exactly the
  head whose history passed the mechanical audit.
* `CorrectionBudget`, `CorrectionRecordValid` - two corrections per review over
  all restarts; the record in the checkpoint is one a resume accepts.
* `CommittedIsWritten`, `DeclinedRunsKeepRuntime` - the outcome reported says
  what was done to the Runtime.
* `PublishedAsDecided` - the commit is the planned one, of a decided run.
* `RefusedForCause` - wherever the process ended, a resume that is refused has
  one of six causes: the target is not clean; the journal does not fit, after an
  I/O error or at a checkpoint an Agent may have been at work at; somebody
  intervened; a transition was stopped for a Human with the Runtime changed; a
  `process.json` was torn under a summary entry; the refresh of a ready
  instruction failed.  In every other case it finds journal, Runtime, summary and
  references as the checkpoint says.
* `NoReplayAfterEffect` - no Executor is launched again in a cycle whose Executor
  ended with a moved head.
* `InstructionIsCurrent` - an Executor is launched on an instruction for the head
  its cycle begins with (`target_before`) and the governance bytes it meets.
* `FinalizationIsFinal` - finalization keeps the outcome, launches and writes
  nothing more.
* `KeepsContract` - the run is a behaviour of `RunContract`.
* Liveness: `EventuallyDecided`, `EventuallyPublished`, of runs whose journal is
  not one every resume refuses (`JournalRefuses`, in the formulas).

`AuthTransaction`:

* `OriginalRecoverable` - whenever a role's `auth.json` is not its own, a
  directory on disk has the original and recovery would take it.
* `OneTransaction` - one transaction and one recorded Agent at a time, over all
  homes, kills and restarts.
* `ProjectedWhileRunning` - no recovery or cleanup takes the credential from a
  recorded Agent that lives.
* `LaunchesBoundAccount` - an Agent starts with the account of its run.
* Liveness: `ProjectionEnds` - what was projected is taken back;
  `StaleIsRecovered` - no state of a stale directory is a dead end, except what
  a cleanup cut short between its unlinks leaves (`Remnant`: the backup or a
  temporary file of it without the record, or a record without the backup it must
  have): that is refused for ever, as `_recover_transaction` is written.

All of them except an Agent that was never recorded (`stray`); finding 5 is
about it.

`ProgressJournal`:

* `KilledRunResumes` - the log beside any checkpoint a kill leaves is accepted
  by the next resume.  Two places are excepted: the Reviewer's refresh turn
  (finding 6), and between a handler's error event and its checkpoint.
* `ElapsedNeverBack`, `TimeContinues` - recorded times never go back, in the log
  and from checkpoint to checkpoint, over kills and failed writes.
* `EndAgrees` - the log of a run that returned ends with what the checkpoint
  says.

`OperatorView`:

* `NewRunAdviceIsSafe`, `FinalizationAdviceIsSafe` - advice on the screen is
  still right for the checkpoint as it is now.
* `ProgressBelongsToState` - progress in a frame is of the state beside it, or of
  the last event before the checkpoint that entered that state.
* `RestIsShown` - a refresh nobody disturbs shows the checkpoint as it is, or
  that there is none.

Nothing is said of NO CHECKPOINT beside a run that has just begun: the code reads
status, inspect and status again and draws after that, and the first checkpoint
may be written in between.  The next refresh shows it.

## 4. Runs

Deadlock is not checked in the runs of `MutationLoop` and `ProgressJournal`: a
run does end, and one whose resume is refused stops.

| Run | Module | Bounds | Expected | Question |
|---|---|---|---|---|
| `loop_safety` | `MCMutationLoop` | 1 cycle, 2 heads, 1 crash, 1 I/O error, 1 edit | pass | all safety properties and the contract (2.5 million states) |
| `loop_cycles` | `MCMutationLoop` | 2, 3, 1, 0, 0 | pass | the properties that relate two cycles |
| `loop_liveness` | `MCMutationLoop` | 1, 2, 1, 1, 0 | pass | does every interrupted run end |
| `auth_safety` | `MCAuthTransaction` | 2 processes, roles, accounts and turns; 1 kill, 1 exception, 1 account switch or reused process id | pass | safety and liveness of the credential transaction (322,000 states) |
| `journal_safety` | `MCProgressJournal` | 2 kills or I/O errors, 1 tick, 1 tool call, 4 events behind the cursor | pass | does log and checkpoint fit after every kill (4.8 million states) |
| `view_safety` | `MCOperatorView` | 2 runs, 1 upset, 7 events | pass | what a dashboard shows beside a running loop (3.9 million states) |
| `one_executor` | `MCMutationLoop` | 1, 2, 1, 0, 0 | violation | finding 1 |
| `not_applied` | `MCMutationLoop` | 1, 2, 1, 0, 1 | violation | finding 2 |
| `terminal_published` | `MCMutationLoop` | 1, 2, 0, 1, 0 | violation | finding 3 |
| `crash_published` | `MCMutationLoop` | 1, 2, 1, 0, 0 | violation | finding 4 |
| `auth_stray` | `MCAuthTransaction` | 1 turn, 1 kill | violation | finding 5 |
| `journal_refresh` | `MCProgressJournal` | 1 kill or I/O error | violation | finding 6 |

Why the bounds are enough.

* `MutationLoop`: `MaxHead = 2` lets the head stay or move once in a cycle, with
  an orphan or an intervention able to use the same move; 3 gives two cycles a
  commit each.  One crash and one fault and one edit can fall anywhere and in
  every order, which covers the combinations of two recoveries the code
  distinguishes (a failing handler, a crash in a resumed process after a failed
  write).  The correction budget of two is reached within one cycle.
* `AuthTransaction`: the lock admits one process at a time, so two processes
  show every conflict; two turns show a stale transaction and the turn after
  it, and two accounts a switch between them.  A kill in a turn and an exception
  in the recovery of it (or the other way round) is the deepest nesting the code
  has a state for, since recovery restarts from the same record.
* `ProgressJournal`: the suffix test reads states, roles and types of events,
  never more than the neighbour of an event; four events hold a whole turn with
  its beginning, tool activity, heartbeat and end.  Two upsets give a failed
  write and a kill after it, or a kill in a resumed process.  `MaxSuffix` stops
  heartbeats and resumes, not the events of a turn.
* `OperatorView`: one refresh meets at most the end of one run and the start of
  the next; seven events take a run through all of its states.

For the properties proved in section 6 the bounds do not matter.

Every property of a passing run has a mutant in `PROJECT.json`: a definition of
the model with a plausible bug in it (a dropped guard, a plan kept in memory
only, a state forgotten in a handler) under which TLC finds the property
violated.  The replacement definitions stand next to the originals, marked
"mutant".

### 4.1 Fairness

`MutationLoop`: `Fairness` is weak fairness of `Program` (a running process
goes on: Agents have `timeout_seconds`, everything else is a finite call), of
`Resume` and of `HumanCleans`.  The last two are the Human's part: the
documentation asks the Human to resume an interrupted run and to leave the
target clean.  Nothing is assumed of crashes, faults and edits.  Both liveness
properties have a condition, stated in the formula: no Executor outlives its
runner, and the target is clean whenever no process runs (`Undisturbed`).  Both
end in their goal or in a journal every resume refuses (`JournalRefuses`),
which the code has no way out of: a failed turn, the handler's error event with
the Agent's role, and a kill before the handler's checkpoint are enough,
without any I/O error.  `RefusedForCause` says where that can come about.
`EventuallyPublished` also assumes that no I/O error happened; finding 3 shows
why.  The runs have no edits: most edits are refused by every resume until the
Human takes them back.

`AuthTransaction`: weak fairness of a living process going on, of somebody
acquiring the lock (a run or an operator command that is tried again), and of
Agents and unrelated processes ending (a reused process id is one of a finite
process).  The timeout of an Agent is its runner's
(`run_mutation_loop.py:1250`): that an orphan ends is assumed, the code does
not see to it.  Nothing is assumed of kills, exceptions and switches.  No
recovery runs by itself in the code: that somebody tries again is the Human's
part.

`ProgressJournal` and `OperatorView` have safety properties only.

## 5. Findings

1. `one_executor`.  An Executor outlives a runner killed by SIGKILL; a resumed
   runner that finds no turn evidence and an unmoved target launches another
   (4099-4143).  `1PCloop/README.md:69` says one mutation Executor runs at a
   time, the repository `README.md:165` that only one worker may operate on a
   target.
2. `not_applied`.  The process dies after `os.replace`; target, governance or
   evidence drifts; the resumed run ends in `HUMAN_GATE` with
   `runtime_transition="NOT_APPLIED"` while the document holds the postimage
   (3434-3439, 4689).  `1PCloop/README.md:491-492` and
   `1PCloop/docs/miniloop_runtime.md:1827` say that HUMAN_GATE leaves the Runtime
   unchanged.
3. `terminal_published`.  A run that fails before its first summary entry has
   no summary to commit; `build_framework_commit_plan` refuses
   (`p63_evidence.py:442`) and so does every resume.  `1PCloop/README.md:650`
   promises an evidence commit at every terminal state.
4. `crash_published`.  The Executor leaves a dirty target; its turn is entered
   in the summary; the process dies; the target is cleaned and the run resumed.
   The recovered turn's `process.json` is written again with another
   `target_after` (4162), the recorded entry cites a hash that no longer
   matches, and the run can neither continue nor publish.

5. `auth_stray`.  `child_started` records the Agent's process id after `Popen`
   returned (`run_mutation_loop.py:1164-1180`); a recovery takes a record
   without one for a child that is gone (`codex_mix_account.py:518-520`).  A
   runner killed between the two leaves an Agent in the role's home; recovery
   restores the home and removes the directory, the Agent then writes its
   credential file, and neither the original nor any evidence is left.
   `1PCloop/evidence-summaries/codex-mix-auth-projection-repair-20260924.md:44-45`
   says of the interruption cases that each restores the original or stops with
   persistent recovery evidence.
6. `journal_refresh`.  The Reviewer's refresh turn (`ensure_instruction_fresh`)
   runs with the checkpoint `INSTRUCTION_READY` and role `orchestrator`; its
   `turn_started` is not an event the suffix test allows there
   (`progress_status.py:424-432`).  After a kill during that turn every
   `--resume` is refused.  `progress_status.py:523-524` says that an active-turn
   suffix is valid after a process crash.

Observations without a property of their own: between the check that the target
has not moved (4089) and the launch of the Executor (4103-4143, where
governance is checked again and the target is not) an orphan or an edit may
move it; `status` recommends `RESUME_ALLOWED` in `safe_next_action` even where
its Human Gate says INVALID; a healthy running Executor is shown as an identity
that does not agree (the target head moves before the checkpoint says so);
`preflight` and `doctor` recover transactions, since `inspect_active_account`
does.

## 6. Proofs

`MutationLoopTypes` proves `TypeCorrect`: `Spec => []TypeOK`.  `TypeOK` is not
inductive: `TurnExits` takes one from `workers`, so the proof strengthens it
(`TypeInv`) with "a process that waits for its Executor has one".  One lemma per
group of actions.

`MutationLoopLedger` proves, for all values of the constants:
`WriteAheadHolds`, `WrittenOnceHolds`, `CommittedIsWrittenHolds`,
`DeclinedRunsKeepRuntimeHolds`, `PublishedAsDecidedHolds`,
`FinalizationIsFinalHolds`.  All follow from `LedgerInv` (theorem
`LedgerCorrect`):

* `CheckpointsOK` - the checkpoint on disk, and the one in memory, agree with
  the plans written so far, whatever the process has not said yet;
* `MemoryOK` - where the two must agree.  They part in `persist`, so the
  properties, which are about the disk, do not follow from the disk alone: the
  branches act on memory.  This part carries the agreement over every place of
  control but the handlers;
* `PlaceOK` - which states go with which place;
* `WrittenOK` - a written plan is the plan on disk, no plan is written while the
  disk is in a working state, so a new plan never replaces a written one;
* `FinalOK`, `CommitOK` - finalization in memory and on disk; what the commit
  holds.

Each action is one of a few kinds (work that leaves the ledger alone, a calm
step, the way into a handler, the plan of a transition, the death of the
process, a step of `finish_evidence`), each with a lemma of its own.  The
conjuncts of `LedgerInv` were checked with TLC before they were proved.

`MutationLoopTurns` proves `AcceptedWhatWasAuditedHolds`,
`CorrectionBudgetHolds`, `CorrectionRecordValidHolds`,
`NoReplayAfterEffectHolds` and `InstructionIsCurrentHolds` from `TurnInv`
(theorem `TurnsCorrect`), which is inductive together with the ledger's
invariant:

* `SoundOK` - a checkpoint is sound by itself: its state says which turns its
  instruction, review and correction record come from, and for which heads.
  This holds of the one on disk and of the one in memory, which a failed write
  may have parted.  It stays true whatever happens to the target, because heads
  only grow and a merge, rewrite or protected path makes a new head;
* `Agreed` - in the branches memory and disk agree on cycle, heads and
  corrections.  An action launches a turn from memory, a resumed process looks
  for its artifacts from disk;
* `ArtOK` - the artifacts in the active turn directory are of a turn of the
  state on disk, so that a recovered turn is the one that was launched;
* `WhereOK` - what a branch knows from its audit to its last write;
* `CountOK` - the correction turns launched are those the record on disk has
  completed, and one more only while its artifacts are there.

`RefusedForCauseHolds` needs two invariants more on top of these, `ResumeInv`
(theorem `ResumeCorrect`) and `JournalOK` (theorem `JournalCorrect`).  A
resumed process compares the summary, the documents and the references of turns
with the checkpoint on disk, but it is the memory of the process that wrote
them, and a failed write has parted the two.  Hence both are resumable at every
place: the summary is ahead of its checkpoint only by the entry that one has
pending (`Fits`, `EntryOK`), a branch whose turn failed raises before the state
moves on (`Loads`; only the refresh of a ready instruction is kept before it is
judged, and `WhereOK` says that no Executor follows it), an outcome is saved
with the state it ends (`StopSaid`), and a plan is made of the Runtime the run
started from as long as nobody intervened (`LeftAlone`).

`JournalOK` says where a journal may not fit.  Without an I/O error the state on
disk is the state in memory, and an event that does not fit is recorded only in
an open or just finished turn, hence at a checkpoint of an Agent or of a ready
instruction; a checkpoint of any other state leaves a journal that fits.

No other property follows without the others: the head of an ACCEPT is bound by
the artifacts, these by the checkpoint the turn was launched for, and this one
by the audit before it.

`MutationLoopContract` proves `ContractKept`: `Spec => KeepsContract`, the
refinement of `RunContract`.  The ledger's invariant says what the disk holds;
what can be written next is in memory, so `KeptOK` adds that the memory holds no
outcome only if the disk holds none, and that a memory that has begun to finalize
holds the outcome of the disk.  A step then saves work, decides, or finalizes,
and the invariant of the state after it says which action of the contract that
is.

The only assumption of these is `ConstantsAssumption` of `MutationLoop`.

`AuthTransactionTypes` proves `TypeCorrect`.  A step writes to disk what the
process has in memory, so the invariant `TypeInv` adds which part of the memory
is filled at which place (`Typed`).

`AuthTransactionSafety` proves `OneTransactionAlways`,
`OriginalRecoverableAlways`, `ProjectedWhileRunningAlways` and
`LaunchesBoundAccountAlways` from one inductive invariant, `SafetyInv`:

* `LockOK` - whoever is beyond its first step holds the switch lock, so one
  process at a time touches homes and directories;
* `DirOK`, `OneDirectory` - what is in a directory belongs to the home of its
  turn, and there is one directory at most, because a turn begins only when
  recovery has left none;
* `ProjectionSaved` - whatever is projected can be restored from the one
  directory; backup and record come before the projection, and their removal
  after the restoration was verified;
* `AgentsOK` - a recorded Agent that lives has its directory, since recovery
  looks for the child first;
* `PlaceOK` - what a process knows at each of its places.

One lemma per action, each by one of five lemmas about what a step may do to
the disk (`DataStays`, `AuthWritten`, `RecordWritten`, `FileRemoved`,
`TempLeft`) or as a new directory. The only assumption is `AuthAssumption`: the
special values are different.

`ProgressJournalProofs` proves `TypeOKHolds`, and two groups of properties
from two invariants.

`ElapsedNeverBackHolds` and `TimeContinuesHolds` follow from `TimeInv` (theorem
`ClocksInOrder`): a live process is ahead of both files (`Ahead`), its clock has
reached what the checkpoint and the last event say.  The clock of a stage starts
again when `persist` changes the state.  That is no step back only because the
new state is then neither on disk (`StateWritten`) nor in the last event
(`StateLogged`), whatever write has failed before.

`KilledRunResumesHolds` and `EndAgreesHolds` follow from `KillInv` (theorem
`JournalCorrect`).  Without an I/O error the process agrees with its checkpoint
and knows every event behind its cursor (`Agreed`), so that each checkpoint
write empties the suffix.  Where the process is says which event it appends
next (`OutcomeWhere`, `StateWhere`, `RoleWhere`, `TurnWhere`), and that event
keeps the suffix one the resume accepts (`Fitting`).

`OperatorViewProofs` proves all five properties of `OperatorView` from one
invariant (theorem `ViewCorrect`):

* `FilesOK` - a checkpoint says one thing (`Sound`): what is published was
  decided, an Executor at work has published nothing;
* `GotOK`, `StatusOK`, `FrameOK` - what the dashboard read of a decided run is
  still true of it (`Kept`), however old it is: outcome and Runtime stay, what is
  published stays published, until the checkpoint goes or belongs to another run.
  This carries over every step of the run at once (`KeptMoves`).  A gate's advice
  has its grounds in the projection beside it (`Advised`), and progress belongs
  to it (`Belongs`);
* `QuietInv` - while nothing else moves, what `status` and `inspect` have found
  after each of their reads is a function of the files, the same for both, so
  that they agree and the frame is drawn.  `RestIsShown` needs it: with another
  order of reads, or one finding that only one of the two makes, the dashboard
  would say that nothing can be shown of a run at rest.

The assumptions are the bounds' being natural numbers (`ConstantsAssumption` of
`ProgressJournal` and of `OperatorView`).  All invariants were checked with TLC,
with the bounds of the runs, before they were proved.

Model-checked only: the four liveness properties (`EventuallyDecided`,
`EventuallyPublished`, `ProjectionEnds`, `StaleIsRecovered`), since fairness and
ENABLED are out of the prover's reach.  Every safety and action property of a
passing run is proved.  No module uses induction over data or RECURSIVE
operators.

## 7. What is left

1. `p63_evidence` on its own: foreign commits, a remote that moves, a push that
   is reported lost; refining the `Commit` and `Push` of `RunContract`.
2. Two runs in sequence over one Runtime document (the guard on a used
   preimage).
3. The safety part of `StaleIsRecovered` could be proved, as `RefusedForCause`
   is for `EventuallyDecided`: recovery refuses a directory only when it was left
   by a cleanup killed between its two unlinks, or its Agent lives.
