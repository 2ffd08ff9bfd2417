---------------------------- MODULE OperatorView ----------------------------
(***************************************************************************)
(* What a Human sees of a run: status and inspect_run of                   *)
(* 1PCloop/scripts/workload_operator.py, project_human_gate of             *)
(* human_gate.py, and the dashboard of local_tui.py that reads both.       *)
(*                                                                         *)
(* A run goes on writing checkpoint, event log, live status and manifest,  *)
(* one file after the other, while the dashboard reads them one after the  *)
(* other; nothing locks them.  The path of the run is cut down to the      *)
(* checkpoint states the projections tell apart (MutationLoop has the      *)
(* whole of it), to one cycle, and evidence finalization is enabled.       *)
(***************************************************************************)
EXTENDS Integers, FiniteSetsExt

CONSTANTS
  MaxRuns,      \* bound: runs started one after the other
  MaxUpsets,    \* bound: heartbeats, kills and changes by a Human, together
  MaxEvents     \* bound: events after which nothing is started or decided

ASSUME ConstantsAssumption ==
  /\ MaxRuns \in Nat \ {0}
  /\ {MaxUpsets, MaxEvents} \subseteq Nat

VARIABLES
  ck,           \* the checkpoint file
  log,          \* per run: length of the event log, projection of its last event
  live,         \* per run: live-status.json, the event it shows
  manifest,     \* per run: final_result in manifest.json
  target,       \* the target repository is as the checkpoint says
  raw,          \* the run's raw evidence: "kept", "absent", "altered"
  writing,      \* what the live run writes next; "dead": no process
  runs, upsets, \* runs started, upsets still to come
  phase,        \* which of its reads the dashboard does next
  got,          \* what the status or inspect under way has read
  st, ins,      \* the results of this refresh
  frame,        \* what is on the screen
  quiet         \* history: nothing but the dashboard moved since this refresh

files   == <<ck, log, live, manifest>>
outside == <<target, raw>>
bounds  == <<runs, upsets>>
reader  == <<phase, got, st, ins, frame>>
vars    == <<files, outside, writing, bounds, reader, quiet>>

-----------------------------------------------------------------------------
Transition == {"RUNTIME_TRANSITION_PENDING", "RUNTIME_TRANSITION_COMMITTED"}
Stopped    == {"HUMAN_GATE", "FAILED_CLOSED"}
Finalizing == {"EVIDENCE_FINALIZATION_PENDING", "FRAMEWORK_EVIDENCE_COMMITTED",
               "FRAMEWORK_EVIDENCE_PUSHED"}
States     == {"EXECUTOR_RUNNING"} \cup Transition \cup Stopped \cup Finalizing
Outcomes   == {"none", "HUMAN_GATE", "FAILED_CLOSED",
               "RUNTIME_TRANSITION_COMMITTED", "UNDETERMINED"}
Publications == {"NOT_STARTED", "PENDING", "COMMITTED", "FAILED", "PUSHED"}
RunIds == 1 .. MaxRuns

\* run_id, state, logical outcome, runtime_transition and evidence_publication
\* of the final result.  A Human Gate has one of KNOWN_GATE_CODES; so has a
\* FAILED_CLOSED after exhausted corrections, which is left out.
Projection == [run: RunIds, state: States, out: Outcomes,
               rt: {"NOT_APPLIED", "PENDING", "APPLIED"}, pub: Publications]

\* cursor: the length of the log at the write; bound: the checkpoint carries
\* the config identity (a run started without the config does not).
Checkpoints == [p: Projection, cursor: Nat, bound: BOOLEAN]
NoCheckpoint == [cursor |-> -1]
NoEvent == [len |-> 0]
NoManifest == [out |-> "absent"]

\* final_result in checkpoint and manifest.
FinalResult(p) == [out |-> p.out, rt |-> p.rt, pub |-> p.pub]

\* mutant of Publication: the state's name instead of the publication's
PublicationIsState(s, out, failed) ==
  IF failed THEN "FAILED" ELSE IF out # "none" THEN s ELSE "NOT_STARTED"
\* evidence_publication of structured_final_result.
Publication(s, out, failed) ==
  IF s = "FRAMEWORK_EVIDENCE_PUSHED" THEN "PUSHED"
  ELSE IF failed THEN "FAILED"
  ELSE IF s = "FRAMEWORK_EVIDENCE_COMMITTED" THEN "COMMITTED"
  ELSE IF out # "none" THEN "PENDING" ELSE "NOT_STARTED"

\* runtime_transition of structured_final_result.
RuntimeTransition(s, rt) ==
  IF rt = "APPLIED" \/ s = "RUNTIME_TRANSITION_COMMITTED" THEN "APPLIED"
  ELSE IF s = "RUNTIME_TRANSITION_PENDING" THEN "PENDING" ELSE "NOT_APPLIED"

\* mutant of SuffixFits: events of a later state are taken for this one's
SuffixAnything(c, l) == TRUE
\* validate_checkpoint_suffix against the log as read, simplified: the last
\* event tells.  ProgressJournal has the rules for single events of the suffix.
SuffixFits(c, l) == l.len >= c.cursor /\ (l.len > c.cursor => l.p = c.p)

-----------------------------------------------------------------------------
(***************************************************************************)
(* The run and the world around it.                                        *)
(***************************************************************************)

Here == ck.p.run
Room == MapThenSumSet(LAMBDA r : log[r].len, RunIds) < MaxEvents

\* checkpoint_store.write, the first file persist writes.
Persist(s, out, failed) ==
  /\ writing = "idle" /\ Room
  /\ ck' = [ck EXCEPT !.p = [run |-> Here, state |-> s, out |-> out,
                             rt |-> RuntimeTransition(s, ck.p.rt),
                             pub |-> Publication(s, out, failed)],
                      !.cursor = log[Here].len]
  /\ writing' = "event"
  /\ UNCHANGED <<log, live, manifest, raw, bounds, reader>>

\* A fresh run: nothing there, or a run that is over (orchestrate refuses else).
StartRun ==
  /\ runs < MaxRuns /\ target /\ Room
  /\ \/ ck = NoCheckpoint
     \/ ck # NoCheckpoint /\ ck.p.state = "FRAMEWORK_EVIDENCE_PUSHED"
  /\ writing \in {"idle", "dead"}
  /\ runs' = runs + 1
  /\ \E b \in BOOLEAN :
       ck' = [p |-> [run |-> runs + 1, state |-> "EXECUTOR_RUNNING",
                     out |-> "none", rt |-> "NOT_APPLIED",
                     pub |-> "NOT_STARTED"],
              cursor |-> 0, bound |-> b]
  /\ raw' = "kept" /\ writing' = "event"
  /\ UNCHANGED <<log, live, manifest, target, upsets, reader>>

\* The Executor changes the target; its checkpoint says so only afterwards.
ExecutorWorks ==
  /\ writing = "idle" /\ ck.p.state = "EXECUTOR_RUNNING" /\ target
  /\ target' = FALSE
  /\ UNCHANGED <<files, raw, writing, bounds, reader>>

\* The checkpoints between Executor and transition are left out.
PlanTransition ==
  /\ writing = "idle" /\ ck.p.state = "EXECUTOR_RUNNING"
  /\ Persist("RUNTIME_TRANSITION_PENDING", "none", FALSE)
  /\ target' = TRUE

\* reach_logical_outcome, from a branch or from the handler.
Decide ==
  /\ writing = "idle"
  /\ \/ /\ ck.p.state \in {"EXECUTOR_RUNNING"} \cup Transition
        /\ Persist("HUMAN_GATE", "HUMAN_GATE", FALSE)
     \/ /\ ck.p.state = "EXECUTOR_RUNNING"
        /\ Persist("FAILED_CLOSED", "FAILED_CLOSED", FALSE)
     \/ /\ ck.p.state \in Transition
        /\ ck.p.out # "RUNTIME_TRANSITION_COMMITTED"
        /\ Persist("RUNTIME_TRANSITION_COMMITTED",
                   "RUNTIME_TRANSITION_COMMITTED", FALSE)
  /\ UNCHANGED target

\* The handler keeps a transition that met an OSError.
LeaveUndetermined ==
  /\ writing = "idle" /\ ck.p.state \in Transition /\ ck.p.out # "UNDETERMINED"
  /\ Persist(ck.p.state, "UNDETERMINED", FALSE)
  /\ UNCHANGED target

\* finish_evidence; a finalization that failed is remembered as such.
FinalizeEvidence ==
  /\ writing = "idle"
  /\ \/ /\ \/ ck.p.state \in Stopped
           \/ /\ ck.p.state = "RUNTIME_TRANSITION_COMMITTED"
              /\ ck.p.out = "RUNTIME_TRANSITION_COMMITTED"
        /\ Persist("EVIDENCE_FINALIZATION_PENDING", ck.p.out, FALSE)
     \/ /\ ck.p.state = "EVIDENCE_FINALIZATION_PENDING"
        /\ Persist("FRAMEWORK_EVIDENCE_COMMITTED", ck.p.out, FALSE)
     \/ /\ ck.p.state = "FRAMEWORK_EVIDENCE_COMMITTED"
        /\ Persist("FRAMEWORK_EVIDENCE_PUSHED", ck.p.out, FALSE)
     \/ /\ ck.p.state \in Finalizing /\ ck.p.pub \notin {"FAILED", "PUSHED"}
        /\ Persist(ck.p.state, ck.p.out, TRUE)
  /\ UNCHANGED target

\* The files that follow a checkpoint write: event, live status, manifest.
AppendEvent ==
  /\ writing \in {"event", "note"}
  /\ log' = [log EXCEPT ![Here] = [len |-> log[Here].len + 1, p |-> ck.p]]
  /\ writing' = IF writing = "event" THEN "live" ELSE "show"
  /\ UNCHANGED <<ck, live, manifest, outside, bounds, reader>>

WriteLiveStatus ==
  /\ writing \in {"live", "show"}
  /\ live' = [live EXCEPT ![Here] = log[Here]]
  /\ writing' = IF writing = "live" THEN "manifest" ELSE "idle"
  /\ UNCHANGED <<ck, log, manifest, outside, bounds, reader>>

\* A run returns when it is published, or when its handler gave up.
Returned(p) == p.pub \in {"PUSHED", "FAILED"} \/ p.out = "UNDETERMINED"

WriteManifest ==
  /\ writing = "manifest"
  /\ manifest' = [manifest EXCEPT ![Here] = FinalResult(ck.p)]
  /\ writing' = IF Returned(ck.p) THEN "dead" ELSE "idle"
  /\ UNCHANGED <<ck, log, live, outside, bounds, reader>>

Heartbeat ==
  /\ writing = "idle" /\ upsets > 0 /\ ck.p.state = "EXECUTOR_RUNNING"
  /\ upsets' = upsets - 1
  /\ writing' = "note"
  /\ UNCHANGED <<files, outside, runs, reader>>

Kill ==
  /\ writing # "dead" /\ upsets > 0
  /\ upsets' = upsets - 1
  /\ writing' = "dead"
  /\ UNCHANGED <<files, outside, runs, reader>>

\* --resume records run_resumed first; it needs the log to fit.
Resume ==
  /\ writing = "dead" /\ ck # NoCheckpoint
  /\ SuffixFits(ck, log[Here]) /\ Room
  /\ writing' = "note"
  /\ UNCHANGED <<files, outside, bounds, reader>>

\* A Human changes the target or puts it right, loses or edits raw evidence,
\* or removes the checkpoint of a run that is not running.
HumanEdits ==
  /\ upsets > 0 /\ upsets' = upsets - 1
  /\ \/ target' = ~target /\ UNCHANGED <<ck, raw>>
     \/ raw = "kept" /\ raw' \in {"absent", "altered"} /\ UNCHANGED <<ck, target>>
     \/ writing = "dead" /\ ck' = NoCheckpoint /\ UNCHANGED <<target, raw>>
  /\ UNCHANGED <<log, live, manifest, writing, runs, reader>>

-----------------------------------------------------------------------------
(***************************************************************************)
(* project_human_gate and safe_next_action: pure functions of what was     *)
(* read.                                                                   *)
(***************************************************************************)

Gate(status, reason, mode) == [status |-> status, reason |-> reason, mode |-> mode]
Remediate == "HUMAN_REMEDIATION_REQUIRED"

\* identity_status or evidence_availability INVALID.
InvalidGate == Gate("INVALID", "IDENTITY_CONFLICT", Remediate)
AbsentGate  == Gate("NOT_APPLICABLE", "NO_CHECKPOINT", "NO_ACTION")

Active(p) == p.state \in Stopped \cup Transition \/ p.out \in Stopped

\* mutant of Unfinished: whatever is not published is to be finalized
UnfinishedUnlessPushed(p) == p.pub # "PUSHED"
\* finalization_incomplete
Unfinished(p) ==
  \/ p.state \in {"EVIDENCE_FINALIZATION_PENDING", "FRAMEWORK_EVIDENCE_COMMITTED"}
  \/ p.pub \in {"PENDING", "FAILED", "COMMITTED"}

Reason(p) == IF p.out = "HUMAN_GATE" THEN "KNOWN_GATE_CODE"
             ELSE IF p.state \in Transition THEN "RUNTIME_TRANSITION_INTERRUPTED"
             ELSE IF Active(p) THEN "HUMAN_GATE_REASON_UNAVAILABLE"
             ELSE "NOT_A_HUMAN_GATE"

\* mutant of ReviewedMode: a new run is offered whatever is published
EagerMode(p) == IF Active(p) THEN "NEW_RUN_AFTER_REVIEW" ELSE "NO_ACTION"
\* The recovery mode of a run with nothing left to finalize.
ReviewedMode(p) ==
  IF ~Active(p) THEN "NO_ACTION"
  ELSE IF p.pub = "PUSHED" /\ Reason(p) # "HUMAN_GATE_REASON_UNAVAILABLE"
  THEN "NEW_RUN_AFTER_REVIEW" ELSE Remediate

project_human_gate(p, bad, missing) ==
  IF bad THEN InvalidGate
  ELSE IF missing /\ (Active(p) \/ Unfinished(p))
  THEN Gate("UNAVAILABLE", "REQUIRED_EVIDENCE_UNAVAILABLE", Remediate)
  ELSE Gate(IF Active(p) THEN "ACTIVE" ELSE "NOT_APPLICABLE", Reason(p),
            IF Unfinished(p) THEN "FINALIZATION_ONLY" ELSE ReviewedMode(p))

-----------------------------------------------------------------------------
(***************************************************************************)
(* status and inspect_run: one read after the other.                       *)
(***************************************************************************)

Nothing == [kind |-> "nothing"]
Blank   == [kind |-> "blank"]

\* load_bound_checkpoint, for a status or an inspect.
LoadCheckpoint ==
  /\ phase \in {"status", "inspect"}
  /\ LET fail == [kind |-> "invalid", gate |-> InvalidGate] IN
     IF ck # NoCheckpoint /\ ck.bound
     THEN /\ got' = [c |-> ck, bad |-> FALSE, missing |-> FALSE]
          /\ phase' = IF phase = "status" THEN "s manifest" ELSE "i manifest"
          /\ UNCHANGED <<st, ins>>
     ELSE /\ IF phase = "status"
             THEN /\ st' = IF ck = NoCheckpoint
                           THEN [kind |-> "absent", gate |-> AbsentGate]
                           ELSE fail
                  /\ UNCHANGED ins
             ELSE ins' = fail /\ UNCHANGED st
          /\ phase' = IF phase = "status" THEN "inspect" ELSE "compare"
          /\ UNCHANGED got
  /\ UNCHANGED <<files, outside, writing, bounds, frame>>

\* The checks of _authoritative_integrity_checks; they go on after a failure.
CheckManifest ==
  /\ phase \in {"s manifest", "i manifest"}
  /\ LET m == manifest[got.c.p.run] IN
     got' = [got EXCEPT !.missing = @ \/ m = NoManifest,
                        !.bad = @ \/ m \notin {NoManifest, FinalResult(got.c.p)}]
  /\ phase' = IF phase = "s manifest" THEN "s observe" ELSE "i observe"
  /\ UNCHANGED <<files, outside, writing, bounds, st, ins, frame>>

\* event_check of _validate_observation: both files are there, the log fits,
\* the live status is its end.  The log is scanned first; as the live status
\* follows the log, what the two reads give was so at one moment between them.
Observed(c) == LET l == log[c.p.run]
                   v == live[c.p.run]
               IN IF l = NoEvent \/ v = NoEvent THEN "missing"
                  ELSE IF SuffixFits(c, l) /\ v = l THEN "fits" ELSE "conflict"

CheckObservation ==
  /\ phase \in {"s observe", "i observe"}
  /\ got' = [got EXCEPT !.missing = @ \/ Observed(got.c) = "missing",
                        !.bad = @ \/ Observed(got.c) = "conflict"]
  /\ phase' = IF phase = "s observe" THEN "s rest" ELSE "i rest"
  /\ UNCHANGED <<files, outside, writing, bounds, st, ins, frame>>

\* summary_check of the raw artifacts behind the tracked summary.
SummaryDiffers == raw = "altered"
SummaryMissing == raw = "absent"

\* Summary, then target.  Commit, push, correction and target evidence are
\* checked before the manifest: the framework's repository is assumed to be as
\* the checkpoint says, and raw evidence that is lost or altered then is still
\* so, and found, when the summary is checked.
CheckRest ==
  /\ phase \in {"s rest", "i rest"}
  /\ LET bad == got.bad \/ ~target \/ SummaryDiffers
         missing == got.missing \/ SummaryMissing
     IN IF phase = "s rest"
        THEN /\ got' = [got EXCEPT !.bad = bad, !.missing = missing]
             /\ phase' = "s progress" /\ UNCHANGED ins
        ELSE /\ ins' = [kind |-> "run", p |-> got.c.p,
                        gate |-> project_human_gate(got.c.p, bad, missing),
                        failed |-> bad]
             /\ got' = Nothing /\ phase' = "compare"
  /\ UNCHANGED <<files, outside, writing, bounds, st, frame>>

\* The second _validate_observation of status: progress is shown or hidden.
ObserveProgress ==
  /\ phase = "s progress"
  /\ st' = [kind |-> "run", p |-> got.c.p, cursor |-> got.c.cursor,
            gate |-> project_human_gate(got.c.p, got.bad, got.missing),
            live |-> IF Observed(got.c) = "fits" THEN live[got.c.p.run]
                     ELSE NoEvent]
  /\ got' = Nothing /\ phase' = "inspect"
  /\ UNCHANGED <<files, outside, writing, bounds, ins, frame>>

-----------------------------------------------------------------------------
(***************************************************************************)
(* The dashboard: read, compare, draw, and once more a second later.       *)
(***************************************************************************)

Fields(p) == [state |-> p.state, out |-> p.out, rt |-> p.rt, pub |-> p.pub]

\* mutant of existing_run_consistent: a failed inspect is never consistent
NeverFailed ==
  /\ st.kind = "run" /\ ins.kind = "run"
  /\ st.p.run = ins.p.run /\ Fields(st.p) = Fields(ins.p)
  /\ st.gate = ins.gate
  /\ ~ins.failed
existing_run_consistent ==
  /\ st.kind = "run" /\ ins.kind = "run"
  /\ st.p.run = ins.p.run /\ Fields(st.p) = Fields(ins.p)
  /\ st.gate = ins.gate
  /\ ins.failed => st.gate.status = "INVALID"

\* A status that found no checkpoint is read once more, after inspect; a
\* checkpoint that is there by now is no candidate, whatever else is read of it.
LookAgain ==
  /\ phase = "compare" /\ st.kind = "absent"
  /\ st' = [kind |-> IF ck = NoCheckpoint THEN "still absent" ELSE "appeared"]
  /\ UNCHANGED <<files, outside, writing, bounds, phase, got, ins, frame>>

\* _snapshot_parts and the frame drawn from it.
Draw ==
  /\ phase = "compare" /\ st.kind # "absent"
  /\ frame' =
       IF st.kind = "still absent" /\ ins.kind = "invalid"
       THEN [kind |-> "no checkpoint"]
       ELSE IF existing_run_consistent
       THEN [kind |-> "run", p |-> st.p, mode |-> st.gate.mode,
             cursor |-> st.cursor, live |-> st.live]
       ELSE [kind |-> "unavailable"]
  /\ st' = Nothing /\ ins' = Nothing
  /\ phase' = "drawn"
  /\ UNCHANGED <<files, outside, writing, bounds, got>>

\* One second without a key, or "r".  The old frame stays on the screen while
\* the new one is read; what it says then it also says before, at "drawn".
Refresh ==
  /\ phase = "drawn"
  /\ phase' = "status" /\ frame' = Blank
  /\ UNCHANGED <<files, outside, writing, bounds, got, st, ins>>

-----------------------------------------------------------------------------
Init ==
  /\ ck = NoCheckpoint
  /\ log = [r \in RunIds |-> NoEvent] /\ live = [r \in RunIds |-> NoEvent]
  /\ manifest = [r \in RunIds |-> NoManifest]
  /\ target = TRUE /\ raw = "kept" /\ writing = "dead"
  /\ runs = 0 /\ upsets = MaxUpsets
  /\ phase = "status" /\ got = Nothing /\ st = Nothing /\ ins = Nothing
  /\ frame = Blank /\ quiet = TRUE

Run == \/ StartRun \/ ExecutorWorks \/ PlanTransition
       \/ Decide \/ LeaveUndetermined \/ FinalizeEvidence
       \/ AppendEvent \/ WriteLiveStatus \/ WriteManifest \/ Heartbeat
       \/ Kill \/ Resume \/ HumanEdits
Look == \/ LoadCheckpoint \/ CheckManifest \/ CheckObservation
        \/ CheckRest \/ ObserveProgress \/ LookAgain \/ Draw \/ Refresh

Next ==
  \/ Run /\ quiet' = FALSE
  \/ Look /\ quiet' = (quiet \/ phase = "drawn")

Spec == Init /\ [][Next]_vars

-----------------------------------------------------------------------------
(***************************************************************************)
(* Properties.                                                             *)
(***************************************************************************)

Events == [len: Nat \ {0}, p: Projection] \cup {NoEvent}

\* The variables keep their types.
TypeOK ==
  /\ ck \in Checkpoints \cup {NoCheckpoint}
  /\ DOMAIN log = RunIds /\ DOMAIN live = RunIds /\ DOMAIN manifest = RunIds
  /\ \A r \in RunIds : log[r] \in Events /\ live[r] \in Events
  /\ target \in BOOLEAN /\ raw \in {"kept", "absent", "altered"}
  /\ writing \in {"dead", "idle", "event", "live", "manifest", "note", "show"}
  /\ runs \in 0 .. MaxRuns
  /\ upsets \in 0 .. MaxUpsets /\ quiet \in BOOLEAN
  /\ st.kind \in {"nothing", "absent", "still absent", "appeared", "invalid",
                  "run"}
  /\ ins.kind \in {"nothing", "invalid", "run"}
  /\ frame.kind \in {"blank", "no checkpoint", "unavailable", "run"}

Offers(mode) == frame.kind = "run" /\ frame.mode = mode
StillThere == ck # NoCheckpoint /\ ck.p.run = frame.p.run

\* The advice to start a new run after review does not outlive its grounds:
\* while it is on the screen the run it speaks of is over and published.
NewRunAdviceIsSafe ==
  Offers("NEW_RUN_AFTER_REVIEW") /\ StillThere
    => ck.p.state = "FRAMEWORK_EVIDENCE_PUSHED" /\ ck.p.out = frame.p.out

\* The advice that only finalization is left stays true while it is on the
\* screen: outcome and Runtime are as shown.  A transition that was interrupted
\* is left out: there a resume still writes the Runtime or decides anew.
FinalizationAdviceIsSafe ==
  Offers("FINALIZATION_ONLY") /\ StillThere /\ frame.p.state \notin Transition
    => ck.p.out = frame.p.out /\ ck.p.rt = frame.p.rt

\* Progress on the screen belongs to the state beside it, or is the last event
\* before the checkpoint that entered the state.
ProgressBelongsToState ==
  frame.kind = "run" /\ frame.live # NoEvent =>
    \/ frame.live.p = frame.p
    \/ frame.live.len = frame.cursor

\* A refresh during which nothing else moved ends with the checkpoint as it is
\* on the screen, wherever the run stands between its writes.
Agrees == CASE ck = NoCheckpoint -> frame.kind = "no checkpoint"
            [] ck # NoCheckpoint /\ ck.bound ->
                 frame.kind = "run" /\ frame.p = ck.p
            [] OTHER -> frame.kind = "unavailable"
RestIsShown == phase = "drawn" /\ quiet => Agrees
=============================================================================
