-------------------------- MODULE ProgressJournal --------------------------
(***************************************************************************)
(* The event log of a run (1PCloop/scripts/progress_status.py) as          *)
(* run_mutation_loop.py drives it, and the test a resumed process puts the *)
(* log to before it may continue.                                          *)
(*                                                                         *)
(* The checkpoint and the log are two files.  A checkpoint holds a cursor  *)
(* into the log and a projection of the run; on resume every event behind  *)
(* the cursor (the suffix) must fit that projection.  A log that does not  *)
(* fit is refused, and with it the resume.                                 *)
(*                                                                         *)
(* The log before the cursor is never looked at again except for its last  *)
(* event, so "base" and "suffix" stand for the log.  Time stamps, cycle,   *)
(* target head and the Runtime projection follow the same path as outcome  *)
(* and state and are left out; an incomplete last line is a line that was  *)
(* not written, since scan_events cuts it off.  Evidence finalization is   *)
(* enabled.                                                                *)
(***************************************************************************)
EXTENDS Integers, Sequences

CONSTANTS
  MaxTime,      \* bound: clock ticks
  MaxTools,     \* bound: tool calls of one Agent turn
  MaxSuffix,    \* bound: suffix length at which heartbeats and resumes cease
  MaxUpsets     \* bound: kills and I/O errors together

ASSUME ConstantsAssumption ==
  {MaxTime, MaxTools, MaxSuffix, MaxUpsets} \subseteq Nat

VARIABLES
  ck,           \* "progress" of the checkpoint on disk
  base,         \* the event at the checkpoint's cursor
  suffix,       \* the events behind it
  mem,          \* the ProgressStatus object of the running process
  mode,         \* who catches an exception: "try", "handler", "last", "resume"
  pc,           \* where the process is; "down": killed or raised, "ended": returned
  then,         \* what follows the state marker of the persist under way
  kills, faults \* times the process was killed, I/O errors it met

log  == <<base, suffix>>
vars == <<ck, log, mem, mode, pc, then, kills, faults>>

-----------------------------------------------------------------------------
TURN_CONTROL_STATES ==
  {"REVIEWER_INSTRUCTION_RUNNING", "EXECUTOR_RUNNING", "REVIEW_PENDING",
   "REVIEW_CORRECTION_RUNNING"}
EVIDENCE_CONTROL_STATES ==
  {"EVIDENCE_FINALIZATION_PENDING", "FRAMEWORK_EVIDENCE_COMMITTED",
   "FRAMEWORK_EVIDENCE_PUSHED"}
Transition == {"RUNTIME_TRANSITION_PENDING", "RUNTIME_TRANSITION_COMMITTED"}
Stopped == {"HUMAN_GATE", "FAILED_CLOSED"}
States == TURN_CONTROL_STATES \cup EVIDENCE_CONTROL_STATES \cup Transition
            \cup Stopped
            \cup {"PREFLIGHT_PASSED", "INSTRUCTION_READY", "EXECUTOR_COMMITTED",
                  "REVIEW_COMPLETED", "REVIEW_CORRECTION_PENDING"}

\* Events whose rules agree share a type: "state_entered" is also run_started,
\* "heartbeat" also codex_activity.
EVENT_TYPES == {"state_entered", "run_resumed", "turn_started", "heartbeat",
                "tool_activity", "turn_finished", "correction",
                "logical_outcome", "evidence_finalization", "error",
                "run_finished"}
ROLES == {"reviewer", "executor", "orchestrator"}
Outcomes == {"none", "HUMAN_GATE", "FAILED_CLOSED",
             "RUNTIME_TRANSITION_COMMITTED", "UNDETERMINED"}
Publications == {"none", "PENDING", "COMMITTED", "FAILED", "PUSHED"}
Places == {"down", "ended", "mark", "go", "loop", "turn", "after", "route",
           "correction", "logical_outcome", "evidence_finalization", "finish",
           "raise", "handler", "again", "return"}

Time == 0 .. MaxTime

\* timed: timeout_remaining_seconds is a number, not null.
Event == [type: EVENT_TYPES, state: States, role: ROLES, out: Outcomes,
          pub: Publications, timed: BOOLEAN, tools: 0 .. MaxTools,
          run: Time, stage: Time]
NoEvent == [type |-> "run_finished", state |-> "PREFLIGHT_PASSED",
            role |-> "orchestrator", out |-> "none", pub |-> "none",
            timed |-> FALSE, tools |-> 0, run |-> 0, stage |-> 0]

\* open: a timeout deadline is set; known: events of the suffix this process
\* knows to be in the log; obs: observation_available.
Memory == [state: States, role: ROLES, out: Outcomes, pub: Publications,
           tools: 0 .. MaxTools, run: Time, stage: Time, open: BOOLEAN,
           known: Nat, obs: BOOLEAN]
Nobody == [state |-> "PREFLIGHT_PASSED", role |-> "orchestrator",
           out |-> "none", pub |-> "none", tools |-> 0, run |-> 0, stage |-> 0,
           open |-> FALSE, known |-> 0, obs |-> TRUE]

progress_role(s) ==
  IF s \in {"REVIEWER_INSTRUCTION_RUNNING", "REVIEW_PENDING",
            "REVIEW_CORRECTION_PENDING", "REVIEW_CORRECTION_RUNNING"}
  THEN "reviewer"
  ELSE IF s = "EXECUTOR_RUNNING" THEN "executor" ELSE "orchestrator"

\* Who runs a turn in state s; INSTRUCTION_READY runs the Reviewer's refresh.
TurnRole(s) == IF s = "EXECUTOR_RUNNING" THEN "executor" ELSE "reviewer"

\* evidence_publication of progress_projection; failed: a finalization error
\* is remembered.
Publication(s, out, failed) ==
  IF s = "FRAMEWORK_EVIDENCE_PUSHED" THEN "PUSHED"
  ELSE IF failed THEN "FAILED"
  ELSE IF s = "FRAMEWORK_EVIDENCE_COMMITTED" THEN "COMMITTED"
  ELSE IF out # "none" THEN "PENDING" ELSE "none"

-----------------------------------------------------------------------------
(***************************************************************************)
(* What a resume accepts: scan_events and validate_checkpoint_suffix.      *)
(***************************************************************************)

AnchorsHold(e) == e.run >= ck.run /\ e.stage >= ck.stage

Projects(e) == /\ e.state = ck.state /\ e.out = ck.out /\ e.pub = ck.pub
               /\ AnchorsHold(e)

\* active_turn when the i-th event of the suffix is reached.
InTurn(i) ==
  \E j \in 1 .. i - 1 :
    /\ suffix[j].type = "turn_started"
    /\ \A k \in j + 1 .. i - 1 :
         suffix[k].type \notin {"turn_finished", "run_resumed"}

ToolsBefore(i) == IF i = 1 THEN base.tools ELSE suffix[i - 1].tools

ToolsFit(i) ==
  LET e == suffix[i] IN
  IF e.type = "turn_started" THEN e.tools = 0
  ELSE IF InTurn(i) THEN e.tools >= ToolsBefore(i)
  ELSE e.tools = ToolsBefore(i)

\* The place of the i-th event in the life of a turn and of an invocation.
Placed(i) ==
  LET e == suffix[i] IN
  \/ /\ e.type = "state_entered"
     /\ i = 1 /\ e.role = ck.role /\ ~e.timed
  \/ /\ e.type = "run_resumed"
     /\ e.role = ck.role /\ ~e.timed
  \/ /\ e.type = "turn_started"
     /\ ~InTurn(i) /\ ck.state \in TURN_CONTROL_STATES
     /\ e.role = ck.role /\ e.role # "orchestrator" /\ e.timed
  \/ /\ e.type \in {"heartbeat", "tool_activity"}
     /\ InTurn(i) /\ e.role = ck.role /\ e.timed
     /\ e.type = "tool_activity" => e.tools >= 1
  \/ /\ e.type = "turn_finished"
     /\ InTurn(i) /\ e.role = "orchestrator" /\ ~e.timed
  \/ /\ e.type = "correction"
     /\ ~InTurn(i) /\ ck.state = "REVIEW_CORRECTION_PENDING"
     /\ e.role = "reviewer" /\ ~e.timed
  \/ /\ \/ e.type = "error"
        \/ e.type \in {"logical_outcome", "run_finished"} /\ ck.out # "none"
        \/ /\ e.type = "evidence_finalization"
           /\ ck.state \in EVIDENCE_CONTROL_STATES
     /\ ~InTurn(i) /\ e.role = "orchestrator" /\ ~e.timed

Fits(i) ==
  /\ Projects(suffix[i])
  /\ i > 1 /\ suffix[i - 1].type = "run_finished"
       => suffix[i].type = "run_resumed"
  /\ ToolsFit(i)
  /\ Placed(i)

Before(i) == IF i = 1 THEN base ELSE suffix[i - 1]

\* Elapsed times never go back from one event to the next.
Scans == \A i \in DOMAIN suffix :
           /\ suffix[i].run >= Before(i).run
           /\ suffix[i].state = Before(i).state
                => suffix[i].stage >= Before(i).stage

Accepts == Scans /\ \A i \in DOMAIN suffix : Fits(i)

-----------------------------------------------------------------------------
(***************************************************************************)
(* Recording an event and writing a checkpoint.                            *)
(***************************************************************************)

Upset == kills + faults < MaxUpsets

EventOf(type, m) ==
  [type |-> type, state |-> m.state, role |-> m.role, out |-> m.out,
   pub |-> m.pub, timed |-> m.open, tools |-> m.tools, run |-> m.run,
   stage |-> m.stage]

\* record through record_active_progress: an append that fails, before or
\* after its line is in the file, turns observation off; from then on the
\* methods of ProgressStatus are not called at all.
Record(type, m) ==
  \/ /\ m.obs
     /\ suffix' = Append(suffix, EventOf(type, m))
     /\ mem' = [m EXCEPT !.known = @ + 1]
     /\ UNCHANGED faults
  \/ /\ m.obs /\ Upset
     /\ faults' = faults + 1
     /\ suffix' \in {suffix, Append(suffix, EventOf(type, m))}
     /\ mem' = [m EXCEPT !.obs = FALSE]
  \/ ~m.obs /\ UNCHANGED <<suffix, mem, faults>>

\* mutant of Prepared: the stage's time starts anew at every checkpoint
PreparedAnew(s, out, failed) ==
  [mem EXCEPT !.state = s, !.role = progress_role(s), !.out = out,
              !.pub = Publication(s, out, failed), !.stage = 0]
\* prepare_state
Prepared(s, out, failed) ==
  [mem EXCEPT !.state = s, !.role = progress_role(s), !.out = out,
              !.pub = Publication(s, out, failed),
              !.stage = IF s = mem.state THEN @ ELSE 0]

\* mutant of Write: the events before the cursor are still counted
WriteStillCounts(m) ==
  /\ ck' = [state |-> m.state, role |-> m.role, out |-> m.out, pub |-> m.pub,
            run |-> m.run, stage |-> m.stage]
  /\ base' = IF m.known = 0 THEN base ELSE suffix[m.known]
  /\ suffix' = SubSeq(suffix, m.known + 1, Len(suffix))
  /\ mem' = m
\* checkpoint_store.write: the cursor moves behind the last event known.
Write(m) ==
  /\ ck' = [state |-> m.state, role |-> m.role, out |-> m.out, pub |-> m.pub,
            run |-> m.run, stage |-> m.stage]
  /\ base' = IF m.known = 0 THEN base ELSE suffix[m.known]
  /\ suffix' = SubSeq(suffix, m.known + 1, Len(suffix))
  /\ mem' = [m EXCEPT !.known = 0]

\* Where an OSError of a checkpoint write ends up.
Caught(how) == CASE how = "try"     -> "raise"
                 [] how = "handler" -> "again"
                 [] how = "last"    -> "return"
                 [] how = "resume"  -> "down"

\* persist up to commit_state; how: who catches an exception of it.
Persist(s, out, failed, how, next) ==
  LET m == Prepared(s, out, failed) IN
  \/ /\ Write(m)
     /\ pc' = "mark" /\ then' = next /\ mode' = how
     /\ UNCHANGED <<kills, faults>>
  \/ /\ Upset
     /\ faults' = faults + 1
     /\ \/ Write(m)
        \/ mem' = m /\ UNCHANGED <<ck, log>>
     /\ pc' = Caught(how) /\ mode' = how
     /\ UNCHANGED <<then, kills>>

\* commit_state, then write_manifest and the way on.
Mark ==
  /\ pc = "mark"
  /\ Record("state_entered", mem)
  /\ pc' = then
  /\ UNCHANGED <<ck, base, mode, then, kills>>

-----------------------------------------------------------------------------
(***************************************************************************)
(* An Agent turn.                                                          *)
(***************************************************************************)

\* A turn cut short by a restart, or a correction turn, is given a directory.
NewAttempt ==
  /\ pc = "loop" /\ mem.state \in TURN_CONTROL_STATES
  /\ Persist(mem.state, mem.out, FALSE, "try", "loop")

TurnStarted ==
  /\ pc = "loop"
  /\ mem.state \in TURN_CONTROL_STATES \cup {"INSTRUCTION_READY"}
  /\ Record("turn_started", [mem EXCEPT !.role = TurnRole(mem.state),
                                        !.open = TRUE, !.tools = 0])
  /\ pc' = "turn"
  /\ UNCHANGED <<ck, base, mode, then, kills>>

\* The turn was found complete in its directory after a restart.
TurnRecovered ==
  /\ pc = "loop" /\ mem.state \in TURN_CONTROL_STATES
  /\ pc' = "after"
  /\ UNCHANGED <<ck, log, mem, mode, then, kills, faults>>

\* heartbeat, codex_activity
Heartbeat ==
  /\ pc = "turn" /\ Len(suffix) < MaxSuffix
  /\ Record("heartbeat", mem)
  /\ UNCHANGED <<ck, base, mode, pc, then, kills>>

\* tool_activity: the count goes up, the event may be throttled.
ToolActivity ==
  /\ pc = "turn" /\ mem.tools < MaxTools
  /\ LET m == [mem EXCEPT !.tools = @ + 1] IN
     \/ Record("tool_activity", m)
     \/ mem.obs /\ mem' = m /\ UNCHANGED <<suffix, faults>>
  /\ UNCHANGED <<ck, base, mode, pc, then, kills>>

\* flush_tool_activity, first thing in turn_finished
FlushToolActivity ==
  /\ pc = "turn" /\ mem.tools > 0 /\ Len(suffix) < MaxSuffix
  /\ Record("tool_activity", mem)
  /\ UNCHANGED <<ck, base, mode, pc, then, kills>>

\* mutant of Closed: the deadline outlives the turn
ClosedLate(m) == [m EXCEPT !.role = "orchestrator"]
Closed(m) == [m EXCEPT !.role = "orchestrator", !.open = FALSE]

TurnFinished ==
  /\ pc = "turn"
  /\ Record("turn_finished", Closed(mem))
  /\ pc' = "after"
  /\ UNCHANGED <<ck, base, mode, then, kills>>

\* An OSError while the Agent runs: turn_finished is not reached.
TurnBreaks ==
  /\ pc = "turn" /\ Upset
  /\ faults' = faults + 1
  /\ pc' = "raise"
  /\ UNCHANGED <<ck, log, mem, mode, then, kills>>

\* A pump thread that outlived the join of stream_subprocess reports late.
PumpOutlivesTurn ==
  /\ pc \in {"after", "handler"} /\ Upset /\ mem.obs
  /\ faults' = faults + 1
  /\ suffix' = Append(suffix, EventOf("heartbeat", mem))
  /\ mem' = [mem EXCEPT !.known = @ + 1]
  /\ UNCHANGED <<ck, base, mode, pc, then, kills>>

\* record_turn_summary persists the state it finds.
RecordTurnSummary ==
  /\ pc = "after"
  /\ Persist(mem.state, mem.out, FALSE, "try", "route")

-----------------------------------------------------------------------------
(***************************************************************************)
(* The branches of orchestrate.                                            *)
(***************************************************************************)

\* Branches that persist a state and go round the loop.
Follows == {<<"PREFLIGHT_PASSED", "REVIEWER_INSTRUCTION_RUNNING">>,
            <<"REVIEWER_INSTRUCTION_RUNNING", "INSTRUCTION_READY">>,
            <<"INSTRUCTION_READY", "EXECUTOR_RUNNING">>,
            <<"EXECUTOR_RUNNING", "EXECUTOR_COMMITTED">>,
            <<"EXECUTOR_COMMITTED", "REVIEW_PENDING">>,
            <<"REVIEW_PENDING", "REVIEW_COMPLETED">>,
            <<"REVIEW_CORRECTION_PENDING", "REVIEW_CORRECTION_RUNNING">>,
            <<"REVIEW_CORRECTION_RUNNING", "REVIEW_COMPLETED">>,
            <<"REVIEW_COMPLETED", "RUNTIME_TRANSITION_PENDING">>,
            <<"REVIEW_COMPLETED", "INSTRUCTION_READY">>}

\* Branches that decide the run, with the outcome they reach.
Decides == {<<"EXECUTOR_RUNNING", "HUMAN_GATE">>,
            <<"REVIEW_COMPLETED", "HUMAN_GATE">>,
            <<"RUNTIME_TRANSITION_PENDING", "RUNTIME_TRANSITION_COMMITTED">>,
            <<"RUNTIME_TRANSITION_COMMITTED", "RUNTIME_TRANSITION_COMMITTED">>}

\* The branch has no turn to run, or its turn and summary are done.
TurnOver == \/ pc = "route"
            \/ pc = "loop" /\ mem.state \notin TURN_CONTROL_STATES

Advance ==
  /\ TurnOver
  /\ \E s \in States :
       /\ <<mem.state, s>> \in Follows
       /\ Persist(s, mem.out, FALSE, "try", "loop")

PlanCorrection ==
  /\ TurnOver /\ mem.state = "REVIEW_COMPLETED"
  /\ Persist("REVIEW_CORRECTION_PENDING", mem.out, FALSE, "try", "correction")

\* reach_logical_outcome from a branch; an Executor whose outcome is unclear
\* after a restart is a Human Gate before any turn.
ReachLogicalOutcome ==
  /\ TurnOver \/ pc = "loop"
  /\ \E s \in States :
       /\ <<mem.state, s>> \in Decides
       /\ Persist(s, s, FALSE, "try", "logical_outcome")

\* The event recorded right after a persist.
Announce ==
  /\ pc \in {"correction", "logical_outcome", "evidence_finalization"}
  /\ Record(pc, mem)
  /\ pc' = IF pc = "correction" THEN "loop" ELSE "finish"
  /\ UNCHANGED <<ck, base, mode, then, kills>>

-----------------------------------------------------------------------------
(***************************************************************************)
(* finish_evidence and finish_return.                                      *)
(***************************************************************************)

FinishEvidence ==
  /\ pc = "finish"
  /\ \/ /\ mem.state \notin EVIDENCE_CONTROL_STATES
        /\ Persist("EVIDENCE_FINALIZATION_PENDING", mem.out, FALSE, mode,
                   "evidence_finalization")
     \/ /\ mem.state = "EVIDENCE_FINALIZATION_PENDING"      \* commit plan
        /\ Persist("EVIDENCE_FINALIZATION_PENDING", mem.out, FALSE, mode,
                   "finish")
     \/ /\ mem.state = "EVIDENCE_FINALIZATION_PENDING"
        /\ Persist("FRAMEWORK_EVIDENCE_COMMITTED", mem.out, FALSE, mode,
                   "evidence_finalization")
     \/ /\ mem.state = "FRAMEWORK_EVIDENCE_COMMITTED"
        /\ Persist("FRAMEWORK_EVIDENCE_PUSHED", mem.out, FALSE, mode,
                   "evidence_finalization")
     \/ /\ mem.state = "FRAMEWORK_EVIDENCE_PUSHED"
        /\ pc' = "return"
        /\ UNCHANGED <<ck, log, mem, mode, then, kills, faults>>

\* mutant of Returning: the projection is taken afresh without the error
ReturningAnew(m) ==
  [m EXCEPT !.role = "orchestrator", !.pub = Publication(m.state, m.out, FALSE)]
Returning(m) == [m EXCEPT !.role = "orchestrator"]

FinishReturn ==
  /\ pc = "return"
  /\ Record("run_finished", Returning(mem))
  /\ pc' = "ended"
  /\ UNCHANGED <<ck, base, mode, then, kills>>

-----------------------------------------------------------------------------
(***************************************************************************)
(* Exceptions: the handler of orchestrate, which decides the run.          *)
(***************************************************************************)

Raising == {"loop", "after", "route", "correction", "logical_outcome",
            "evidence_finalization", "finish"}

\* Code of a branch raises, or a persist did: the error event is recorded.
RecordError ==
  /\ mode = "try" /\ pc \in Raising \cup {"raise"}
  /\ Record("error", mem)
  /\ pc' = "handler"
  /\ UNCHANGED <<ck, base, mode, then, kills>>

\* finish_evidence raises again under the handler: no event, another persist.
RaiseAgain ==
  /\ mode = "handler" /\ pc \in Raising
  /\ pc' = "again"
  /\ UNCHANGED <<ck, log, mem, mode, then, kills, faults>>

\* Before the try, on resume: nobody catches.
RaiseOut ==
  /\ mode = "resume" /\ pc \in Raising \cup {"go"}
  /\ pc' = "down" /\ mem' = Nobody
  /\ UNCHANGED <<ck, log, mode, then, kills, faults>>

Handle ==
  /\ pc = "handler"
  /\ \/ /\ mem.state \in EVIDENCE_CONTROL_STATES
        /\ Persist(mem.state, mem.out, TRUE, "last", "return")
     \/ /\ mem.state \in Transition                         \* OSError
        /\ Persist(mem.state, "UNDETERMINED", FALSE, "last", "return")
     \/ /\ mem.state \notin EVIDENCE_CONTROL_STATES
        /\ LET s == IF mem.state \in Transition THEN "HUMAN_GATE"
                    ELSE "FAILED_CLOSED"
           IN Persist(s, s, FALSE, "handler", "logical_outcome")

HandleAgain ==
  /\ pc = "again"
  /\ Persist(mem.state, mem.out, TRUE, "last", "return")

-----------------------------------------------------------------------------
(***************************************************************************)
(* Kill and resume.                                                        *)
(***************************************************************************)

Kill ==
  /\ pc \notin {"down", "ended"} /\ Upset
  /\ kills' = kills + 1
  /\ pc' = "down" /\ mem' = Nobody /\ mode' = "try"
  /\ UNCHANGED <<ck, log, then, faults>>

MaxOf(a, b) == IF a >= b THEN a ELSE b
Last == IF suffix = <<>> THEN base ELSE suffix[Len(suffix)]

\* mutant of Reconstructed: time continues from the checkpoint alone
ReconstructedFromCheckpoint ==
  [state |-> ck.state, role |-> ck.role, out |-> ck.out, pub |-> ck.pub,
   tools |-> Last.tools, run |-> ck.run, stage |-> ck.stage,
   open |-> FALSE, known |-> Len(suffix), obs |-> TRUE]
\* _resume
Reconstructed ==
  [state |-> ck.state, role |-> ck.role, out |-> ck.out, pub |-> ck.pub,
   tools |-> Last.tools,
   run |-> MaxOf(ck.run, Last.run),
   stage |-> MaxOf(ck.stage, IF Last.state = ck.state THEN Last.stage ELSE 0),
   open |-> FALSE, known |-> Len(suffix), obs |-> TRUE]

\* ProgressStatus(resume=True); an append that fails here is not caught.
Resume ==
  /\ pc \in {"down", "ended"} /\ Len(suffix) < MaxSuffix
  /\ Accepts
  /\ \/ /\ suffix' = Append(suffix, EventOf("run_resumed", Reconstructed))
        /\ mem' = [Reconstructed EXCEPT !.known = @ + 1]
        /\ pc' = "go"
        /\ UNCHANGED faults
     \/ /\ Upset
        /\ faults' = faults + 1
        /\ suffix' \in {suffix,
                        Append(suffix, EventOf("run_resumed", Reconstructed))}
        /\ mem' = Nobody /\ pc' = "down"
  /\ mode' = "resume"
  /\ UNCHANGED <<ck, base, then, kills>>

\* reconcile_pending_summary
ReconcileSummary ==
  /\ pc = "go"
  /\ Persist(mem.state, mem.out, mem.pub = "FAILED", "resume", "go")

\* A decided run only publishes; any other goes on in the loop.
GoOn ==
  /\ pc = "go"
  /\ IF mem.state \in Stopped \cup EVIDENCE_CONTROL_STATES
     THEN pc' = "finish" /\ UNCHANGED mode
     ELSE pc' = "loop" /\ mode' = "try"
  /\ UNCHANGED <<ck, log, mem, then, kills, faults>>

Tick ==
  /\ pc \notin {"down", "ended"} /\ mem.run < MaxTime
  /\ mem' = [mem EXCEPT !.run = @ + 1, !.stage = @ + 1]
  /\ UNCHANGED <<ck, log, mode, pc, then, kills, faults>>

-----------------------------------------------------------------------------
\* A fresh run right after its first checkpoint write.
Init ==
  /\ ck = [state |-> "PREFLIGHT_PASSED", role |-> "orchestrator",
           out |-> "none", pub |-> "none", run |-> 0, stage |-> 0]
  /\ base = NoEvent /\ suffix = <<>>
  /\ mem = Nobody /\ mode = "try" /\ pc = "mark" /\ then = "loop"
  /\ kills = 0 /\ faults = 0

Turn == \/ NewAttempt \/ TurnStarted \/ TurnRecovered \/ Heartbeat
        \/ ToolActivity \/ FlushToolActivity \/ TurnFinished \/ TurnBreaks
        \/ PumpOutlivesTurn \/ RecordTurnSummary
Branch == Advance \/ PlanCorrection \/ ReachLogicalOutcome \/ Announce
Finish == FinishEvidence \/ FinishReturn
Exception == RecordError \/ RaiseAgain \/ RaiseOut \/ Handle \/ HandleAgain
Restart == Kill \/ Resume \/ ReconcileSummary \/ GoOn

Next == Mark \/ Turn \/ Branch \/ Finish \/ Exception \/ Restart \/ Tick

Spec == Init /\ [][Next]_vars

-----------------------------------------------------------------------------
(***************************************************************************)
(* Properties.                                                             *)
(***************************************************************************)

\* The variables keep their types.
TypeOK ==
  /\ ck \in [state: States, role: ROLES, out: Outcomes, pub: Publications,
             run: Time, stage: Time]
  /\ base \in Event
  /\ suffix \in Seq(Event)
  /\ mem \in Memory /\ mem.known <= Len(suffix)
  /\ mode \in {"try", "handler", "last", "resume"}
  /\ pc \in Places
  /\ then \in Places
  /\ {kills, faults} \subseteq Nat /\ kills + faults <= MaxUpsets

\* The log holds the error event of a handler whose checkpoint is missing.
Erring == \E i \in DOMAIN suffix : suffix[i].type = "error"

\* The log holds a turn in INSTRUCTION_READY: the Reviewer's refresh.
Refreshing == /\ ck.state = "INSTRUCTION_READY"
              /\ \E i \in DOMAIN suffix : suffix[i].type = "turn_started"

\* A run that only suffered kills can be resumed: whatever instant each of
\* them hit, the log fits the checkpoint beside it, except in the middle of a
\* refresh turn and between the error event and the handler's checkpoint.
KilledRunResumes ==
  pc = "down" /\ faults = 0 /\ ~Erring /\ ~Refreshing => Accepts

\* Elapsed times in the log never go back, across kills, resumes, failed
\* writes and lost events.
ElapsedNeverBack == Scans

\* The log of a run that returned ends with a run_finished that says what the
\* checkpoint says, the publication error included.
EndAgrees ==
  pc = "ended" /\ mem.obs /\ faults = 0 =>
    /\ suffix # <<>> /\ Last.type = "run_finished"
    /\ Last.state = ck.state /\ Last.out = ck.out /\ Last.pub = ck.pub

\* A checkpoint never holds less time than the one before it or than an event
\* recorded before it; the stage's time starts anew only with a new state.  (A
\* run that stopped observing may come back to the state of its last event.)
TimeContinues ==
  [][/\ ck'.run >= ck.run /\ ck'.run >= Last.run
     /\ ck'.state = ck.state => ck'.stage >= ck.stage
     /\ mem.obs /\ ck'.state = Last.state => ck'.stage >= Last.stage]_ck

\* "An active-turn suffix is valid after a process crash": a log whose last
\* events are an unfinished turn, with no error and no failed write in it, is
\* accepted.
ActiveTurnSuffixResumes ==
  pc = "down" /\ faults = 0 /\ ~Erring /\ InTurn(Len(suffix) + 1)
    => Accepts
=============================================================================
