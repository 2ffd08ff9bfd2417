------------------------- MODULE OperatorViewProofs -------------------------
(***************************************************************************)
(* What a Human sees of a run, for any number of runs, events, kills and   *)
(* edits: progress belongs to the state beside it, advice keeps its        *)
(* grounds, and a look at a world that stands still shows it.              *)
(*                                                                         *)
(* The argument.  A decided run only moves on to its publication: outcome  *)
(* and Runtime stay, and what is published stays published, until the      *)
(* checkpoint goes or belongs to a later run ("Kept").  That holds of      *)
(* every projection the dashboard carries through its reads, however old   *)
(* it is by the time the frame is drawn.  A gate's mode has its grounds in *)
(* the projection it was made from ("Advised").  While nothing else moves, *)
(* the findings of both looks are functions of the same files ("QuietInv").*)
(***************************************************************************)
EXTENDS OperatorView, TLAPS

Decided(p) == p.state \in Stopped \cup Finalizing

\* A checkpoint's projection says one thing: what is published was decided, an
\* Executor at work has published nothing, and a decision settles the Runtime.
Sound(p) == /\ p.pub = "PUSHED" <=> p.state = "FRAMEWORK_EVIDENCE_PUSHED"
            /\ p.state = "EXECUTOR_RUNNING" => p.pub = "NOT_STARTED"
            /\ Decided(p) => p.rt # "PENDING"

Same(p, q) == Decided(p) /\ p.out = q.out /\ p.rt = q.rt

\* What was read of a run that was decided is still so: c is the checkpoint, n
\* the number of runs.
Kept(q, c, n) ==
  /\ q \in Projection /\ q.run <= n /\ Sound(q)
  /\ c \in Checkpoints /\ c.p.run = q.run /\ Decided(q) =>
       /\ Same(c.p, q)
       /\ q.state = "FRAMEWORK_EVIDENCE_PUSHED" =>
            c.p.state = "FRAMEWORK_EVIDENCE_PUSHED"

Writings == {"dead", "idle", "event", "live", "manifest", "note", "show"}

FilesOK ==
  /\ ck \in Checkpoints \cup {NoCheckpoint}
  /\ ck \in Checkpoints => ck.p.run <= runs /\ Sound(ck.p)
  /\ writing # "dead" => ck \in Checkpoints
  /\ log \in [RunIds -> Events] /\ live \in [RunIds -> Events]
  /\ DOMAIN manifest = RunIds
  /\ target \in BOOLEAN /\ raw \in {"kept", "absent", "altered"}
  /\ writing \in Writings
  /\ runs \in 0 .. MaxRuns /\ upsets \in 0 .. MaxUpsets /\ quiet \in BOOLEAN

FirstReads  == {"s manifest", "s observe", "s rest", "s progress"}
SecondReads == {"i manifest", "i observe", "i rest"}
Reads  == FirstReads \cup SecondReads
Phases == Reads \cup {"status", "inspect", "compare", "drawn"}

GotOK == /\ phase \in Phases
         /\ phase \in Reads =>
              /\ got \in [c: Checkpoints, bad: BOOLEAN, missing: BOOLEAN]
              /\ Kept(got.c.p, ck, runs)

\* The mode of a gate has its grounds in the projection beside it.
Advised(mode, p) ==
  /\ mode = "NEW_RUN_AFTER_REVIEW" => p.pub = "PUSHED"
  /\ mode = "FINALIZATION_ONLY" => Unfinished(p)

Belongs(l, p, cursor) == l # NoEvent => l.p = p \/ l.len = cursor

StatusOK ==
  /\ st.kind \in {"nothing", "absent", "still absent", "appeared", "invalid",
                  "run"}
  /\ st.kind = "run" => /\ Kept(st.p, ck, runs) /\ Advised(st.gate.mode, st.p)
                        /\ Belongs(st.live, st.p, st.cursor)
  /\ ins.kind \in {"nothing", "invalid", "run"}

FrameOK ==
  /\ frame.kind \in {"blank", "no checkpoint", "unavailable", "run"}
  /\ frame.kind = "run" =>
       /\ Kept(frame.p, ck, runs) /\ Advised(frame.mode, frame.p)
       /\ Belongs(frame.live, frame.p, frame.cursor)

ViewInv == FilesOK /\ GotOK /\ StatusOK /\ FrameOK

\* The findings of one look at a world that stands still.
Found(c) == manifest[c.p.run]
BadManifest  == Found(ck) \notin {NoManifest, FinalResult(ck.p)}
Conflict     == Observed(ck) = "conflict"
BadRest      == ~target \/ SummaryDiffers
Bad          == BadManifest \/ Conflict \/ BadRest
NoManifestYet == Found(ck) = NoManifest
Unobserved   == Observed(ck) = "missing"
Missing      == NoManifestYet \/ Unobserved \/ SummaryMissing
Ready        == ck \in Checkpoints /\ ck.bound

StatusFresh ==
  IF Ready THEN /\ st.kind = "run" /\ st.p = ck.p
                /\ st.gate = project_human_gate(ck.p, Bad, Missing)
  ELSE IF ck = NoCheckpoint THEN st.kind \in {"absent", "still absent"}
  ELSE st.kind = "invalid"
InspectFresh ==
  IF Ready THEN /\ ins.kind = "run" /\ ins.p = ck.p
                /\ ins.gate = project_human_gate(ck.p, Bad, Missing)
                /\ ins.failed => Bad
  ELSE ins.kind = "invalid"

QuietInv == quiet =>
  /\ phase \in Reads => Ready /\ got.c = ck
  /\ phase \in {"s manifest", "i manifest"} => ~got.bad /\ ~got.missing
  /\ phase \in {"s observe", "i observe"} =>
       (got.bad <=> BadManifest) /\ (got.missing <=> NoManifestYet)
  /\ phase \in {"s rest", "i rest"} =>
       /\ got.bad <=> BadManifest \/ Conflict
       /\ got.missing <=> NoManifestYet \/ Unobserved
  /\ phase = "s progress" => (got.bad <=> Bad) /\ (got.missing <=> Missing)
  /\ phase \in SecondReads \cup {"inspect", "compare"} => StatusFresh
  /\ phase = "compare" => InspectFresh
  /\ phase = "drawn" => Agrees

-----------------------------------------------------------------------------
(***************************************************************************)
(* Checkpoints and what may become of them.                                *)
(***************************************************************************)

\* Runs are numbered from one.
LEMMA RunFacts == /\ MaxRuns \in Nat /\ RunIds \subseteq Nat /\ MaxUpsets \in Nat
                  /\ \A r \in RunIds : 1 <= r /\ r <= MaxRuns
                  /\ \A n \in 0 .. MaxRuns : n < MaxRuns => n + 1 \in RunIds
BY ConstantsAssumption DEF RunIds

\* A checkpoint and its fields.
LEMMA CheckpointFacts ==
  /\ NoCheckpoint \notin Checkpoints
  /\ \A c \in Checkpoints :
       /\ c # NoCheckpoint /\ c.p \in Projection /\ c.cursor \in Nat
       /\ c.bound \in BOOLEAN
       /\ c.p.run \in RunIds /\ c.p.state \in States /\ c.p.out \in Outcomes
       /\ c.p.rt \in {"NOT_APPLIED", "PENDING", "APPLIED"}
       /\ c.p.pub \in Publications
<1>1. NoCheckpoint \notin Checkpoints
  BY DEF NoCheckpoint, Checkpoints
<1>2. \A c \in Checkpoints : /\ c.p \in Projection /\ c.cursor \in Nat
                             /\ c.bound \in BOOLEAN
  BY DEF Checkpoints
<1>3. \A p \in Projection :
        /\ p.run \in RunIds /\ p.state \in States /\ p.out \in Outcomes
        /\ p.rt \in {"NOT_APPLIED", "PENDING", "APPLIED"}
        /\ p.pub \in Publications
  BY DEF Projection
<1> QED
  BY <1>1, <1>2, <1>3

\* What one step may make of checkpoint c and number of runs n.
Moves(c, n, d, m) ==
  \/ d = c /\ m = n
  \/ d \notin Checkpoints /\ m = n
  \/ d \in Checkpoints /\ d.p.run = n + 1 /\ m = n + 1
  \/ /\ c \in Checkpoints /\ d \in Checkpoints /\ m = n
     /\ d.p.run = c.p.run
     /\ Decided(c.p) => Same(d.p, c.p)
     /\ c.p.state # "FRAMEWORK_EVIDENCE_PUSHED"

\* What was read of a run stays true of it.
LEMMA KeptMoves ==
  ASSUME NEW q, NEW c, NEW n \in Nat, NEW d, NEW m, Kept(q, c, n),
         Moves(c, n, d, m)
  PROVE  Kept(q, d, m)
<1>1. q \in Projection /\ q.run <= n /\ Sound(q) /\ q.run \in Nat
  BY RunFacts DEF Kept, Projection
<1>2. CASE d = c /\ m = n
  BY <1>2
<1>3. CASE d \notin Checkpoints /\ m = n
  BY <1>1, <1>3 DEF Kept
<1>4. CASE d \in Checkpoints /\ d.p.run = n + 1 /\ m = n + 1
  <2>1. q.run <= m /\ d.p.run # q.run
    BY <1>1, <1>4
  <2> QED
    BY <1>1, <2>1 DEF Kept
<1>5. CASE /\ c \in Checkpoints /\ d \in Checkpoints /\ m = n
           /\ d.p.run = c.p.run
           /\ Decided(c.p) => Same(d.p, c.p)
           /\ c.p.state # "FRAMEWORK_EVIDENCE_PUSHED"
  BY <1>1, <1>5 DEF Kept, Same
<1> QED
  BY <1>2, <1>3, <1>4, <1>5 DEF Moves

\* The checkpoint that is read is as it is.
LEMMA KeptNow ==
  ASSUME FilesOK, ck \in Checkpoints
  PROVE  Kept(ck.p, ck, runs)
BY CheckpointFacts DEF FilesOK, Kept, Same

\* Whatever a run does, what the dashboard carries keeps its grounds.
LEMMA ReaderKept ==
  ASSUME ViewInv, Moves(ck, runs, ck', runs'), UNCHANGED reader
  PROVE  GotOK' /\ StatusOK' /\ FrameOK'
<1>1. runs \in Nat
  BY RunFacts DEF ViewInv, FilesOK
<1>2. \A q : Kept(q, ck, runs) => Kept(q, ck', runs')
  BY <1>1, KeptMoves
<1>3. UNCHANGED <<phase, got, st, ins, frame>>
  BY DEF reader
<1>4. GotOK'
  BY <1>2, <1>3 DEF ViewInv, GotOK
<1>5. StatusOK'
  BY <1>2, <1>3 DEF ViewInv, StatusOK
<1>6. FrameOK'
  BY <1>2, <1>3 DEF ViewInv, FrameOK
<1> QED
  BY <1>4, <1>5, <1>6

\* The names the run uses are states, outcomes and publications.
LEMMA ViewNames ==
  /\ {"EXECUTOR_RUNNING"} \cup Transition \cup Stopped \cup Finalizing \subseteq States
  /\ Stopped \cup {"none", "UNDETERMINED", "RUNTIME_TRANSITION_COMMITTED"}
       \subseteq Outcomes
  /\ Transition \cap (Stopped \cup Finalizing) = {}
  /\ "EXECUTOR_RUNNING" \notin Transition \cup Stopped \cup Finalizing
  /\ \A s, out : \A failed \in BOOLEAN :
       /\ Publication(s, out, failed) \in Publications
       /\ Publication(s, out, failed) = "PUSHED" <=> s = "FRAMEWORK_EVIDENCE_PUSHED"
  /\ \A s : \A rt \in {"NOT_APPLIED", "PENDING", "APPLIED"} :
       /\ RuntimeTransition(s, rt) \in {"NOT_APPLIED", "PENDING", "APPLIED"}
       /\ s \in Stopped \cup Finalizing =>
            /\ RuntimeTransition(s, rt) # "PENDING"
            /\ rt # "PENDING" => RuntimeTransition(s, rt) = rt
BY DEF Transition, Stopped, Finalizing, States, Outcomes, Publications,
       Publication, RuntimeTransition

\* A persist of a run moves its checkpoint on.
LEMMA PersistMoves ==
  ASSUME FilesOK, NEW s \in States, NEW out \in Outcomes, NEW failed \in BOOLEAN,
         Persist(s, out, failed), s # "EXECUTOR_RUNNING",
         Decided(ck.p) => s \in Stopped \cup Finalizing /\ out = ck.p.out,
         ck.p.state # "FRAMEWORK_EVIDENCE_PUSHED",
         target' \in BOOLEAN, quiet' \in BOOLEAN
  PROVE  FilesOK' /\ Moves(ck, runs, ck', runs')
<1> DEFINE p == [run |-> Here, state |-> s, out |-> out,
                 rt |-> RuntimeTransition(s, ck.p.rt),
                 pub |-> Publication(s, out, failed)]
           k == log[Here].len
<1>1. ck \in Checkpoints /\ Sound(ck.p) /\ ck.p.run <= runs
  BY DEF Persist, FilesOK
<1>2. Here \in RunIds /\ ck.p.rt \in {"NOT_APPLIED", "PENDING", "APPLIED"}
  BY <1>1, CheckpointFacts DEF Here
<1>3. k \in Nat
  BY <1>2 DEF FilesOK, Events, NoEvent
<1>4. p \in Projection
  BY <1>2, ViewNames DEF Projection
<1>5. /\ ck' = [ck EXCEPT !.p = p, !.cursor = k] /\ writing' = "event"
      /\ UNCHANGED <<log, live, manifest, raw, runs, upsets>>
  BY DEF Persist, bounds
<1>6. /\ p.run = Here /\ p.state = s /\ p.out = out
      /\ p.rt = RuntimeTransition(s, ck.p.rt)
      /\ p.pub = Publication(s, out, failed)
  OBVIOUS
<1> HIDE DEF p, k
<1>7. ck' \in Checkpoints /\ ck'.p = p
  BY <1>1, <1>3, <1>4, <1>5 DEF Checkpoints
<1>8. Sound(p)
  BY <1>2, <1>6, ViewNames DEF Sound, Decided
<1>9. Decided(ck.p) => Same(p, ck.p)
  BY <1>1, <1>2, <1>6, ViewNames DEF Sound, Same, Decided
<1>10. FilesOK'
  BY <1>1, <1>5, <1>6, <1>7, <1>8 DEF FilesOK, Here, Writings
<1>11. Moves(ck, runs, ck', runs')
  BY <1>1, <1>5, <1>6, <1>7, <1>9 DEF Moves, Here
<1> QED
  BY <1>10, <1>11

-----------------------------------------------------------------------------
(***************************************************************************)
(* The run and the world.                                                  *)
(***************************************************************************)

\* Every step of the run and of a Human keeps the files in order.
LEMMA RunMoves ==
  ASSUME FilesOK, Run, quiet' \in BOOLEAN
  PROVE  FilesOK' /\ Moves(ck, runs, ck', runs') /\ UNCHANGED reader
<1>1. /\ ck \in Checkpoints \cup {NoCheckpoint} /\ runs \in 0 .. MaxRuns
      /\ ck \in Checkpoints => ck.p.run <= runs /\ Sound(ck.p)
      /\ writing # "dead" => ck \in Checkpoints
      /\ target \in BOOLEAN /\ upsets \in 0 .. MaxUpsets /\ MaxUpsets \in Nat
  BY RunFacts DEF FilesOK
<1>2. FALSE \in BOOLEAN /\ TRUE \in BOOLEAN
  OBVIOUS
<1>3. ck \in Checkpoints =>
        /\ ck.p.state = "EXECUTOR_RUNNING" => ~Decided(ck.p)
        /\ ck.p.state \in Transition => ~Decided(ck.p)
  BY ViewNames DEF Decided
<1>4. CASE StartRun
  <2>1. /\ runs < MaxRuns /\ runs' = runs + 1 /\ raw' = "kept"
        /\ writing' = "event"
        /\ UNCHANGED <<log, live, manifest, target, upsets, reader>>
    BY <1>4 DEF StartRun
  <2>2. PICK b \in BOOLEAN :
          ck' = [p |-> [run |-> runs + 1, state |-> "EXECUTOR_RUNNING",
                        out |-> "none", rt |-> "NOT_APPLIED",
                        pub |-> "NOT_STARTED"],
                 cursor |-> 0, bound |-> b]
    BY <1>4 DEF StartRun
  <2> DEFINE p == [run |-> runs + 1, state |-> "EXECUTOR_RUNNING",
                   out |-> "none", rt |-> "NOT_APPLIED", pub |-> "NOT_STARTED"]
  <2>3. p \in Projection
    BY <1>1, <2>1, RunFacts, ViewNames DEF Projection, Publications
  <2>4. Sound(p) /\ p.run = runs + 1
    BY DEF Sound, Decided, Stopped, Finalizing
  <2>5. ck' = [p |-> p, cursor |-> 0, bound |-> b]
    BY <2>2
  <2> HIDE DEF p
  <2>6. ck' \in Checkpoints /\ ck'.p = p
    BY <2>3, <2>5 DEF Checkpoints
  <2>7. runs' \in 0 .. MaxRuns /\ runs' = runs + 1
    BY <1>1, <2>1, RunFacts
  <2>8. FilesOK'
    BY <1>1, <2>1, <2>4, <2>6, <2>7, RunFacts DEF FilesOK, Writings
  <2> QED
    BY <2>1, <2>4, <2>6, <2>8 DEF Moves
<1>5. CASE ExecutorWorks
  BY <1>5 DEF ExecutorWorks, files, bounds, FilesOK, Writings, Moves
<1>6. CASE PlanTransition
  <2>1. /\ Persist("RUNTIME_TRANSITION_PENDING", "none", FALSE)
        /\ ck.p.state = "EXECUTOR_RUNNING" /\ target' \in BOOLEAN
        /\ ck \in Checkpoints
    BY <1>1, <1>6 DEF PlanTransition
  <2>2. "RUNTIME_TRANSITION_PENDING" \in States /\ "none" \in Outcomes
    BY ViewNames DEF Transition
  <2>3. UNCHANGED reader
    BY <2>1 DEF Persist
  <2> QED
    BY <1>2, <1>3, <2>1, <2>2, <2>3, PersistMoves
<1>7. CASE Decide
  <2>1. /\ ck \in Checkpoints /\ target' \in BOOLEAN
        /\ ck.p.state \in {"EXECUTOR_RUNNING"} \cup Transition
        /\ \/ Persist("HUMAN_GATE", "HUMAN_GATE", FALSE)
           \/ Persist("FAILED_CLOSED", "FAILED_CLOSED", FALSE)
           \/ Persist("RUNTIME_TRANSITION_COMMITTED",
                      "RUNTIME_TRANSITION_COMMITTED", FALSE)
    BY <1>1, <1>7 DEF Decide
  <2>2. /\ ~Decided(ck.p) /\ ck.p.state # "FRAMEWORK_EVIDENCE_PUSHED"
    BY <1>3, <2>1 DEF Transition
  <2>3. \A s \in {"HUMAN_GATE", "FAILED_CLOSED", "RUNTIME_TRANSITION_COMMITTED"} :
          s \in States /\ s \in Outcomes /\ s # "EXECUTOR_RUNNING"
    BY ViewNames DEF Stopped, Transition
  <2>4. UNCHANGED reader
    BY <2>1 DEF Persist
  <2> QED
    BY <1>2, <2>1, <2>2, <2>3, <2>4, PersistMoves
<1>8. CASE LeaveUndetermined
  <2>1. /\ ck \in Checkpoints /\ target' \in BOOLEAN /\ ck.p.state \in Transition
        /\ Persist(ck.p.state, "UNDETERMINED", FALSE)
    BY <1>1, <1>8 DEF LeaveUndetermined
  <2>2. /\ ~Decided(ck.p) /\ ck.p.state # "FRAMEWORK_EVIDENCE_PUSHED"
        /\ ck.p.state \in States /\ ck.p.state # "EXECUTOR_RUNNING"
    BY <1>3, <2>1, ViewNames DEF Transition
  <2>3. UNCHANGED reader
    BY <2>1 DEF Persist
  <2> QED
    BY <1>2, <2>1, <2>2, <2>3, ViewNames, PersistMoves
<1>9. CASE FinalizeEvidence
  <2>1. ck \in Checkpoints /\ target' \in BOOLEAN
    BY <1>1, <1>9 DEF FinalizeEvidence
  <2>2. ck.p.out \in Outcomes /\ Sound(ck.p)
    BY <1>1, <2>1, CheckpointFacts
  <2>3. PICK s \in Finalizing, failed \in BOOLEAN :
          /\ Persist(s, ck.p.out, failed)
          /\ ck.p.state # "FRAMEWORK_EVIDENCE_PUSHED"
    <3>1. CASE /\ \/ ck.p.state \in Stopped
                  \/ ck.p.state = "RUNTIME_TRANSITION_COMMITTED"
               /\ Persist("EVIDENCE_FINALIZATION_PENDING", ck.p.out, FALSE)
      BY <3>1 DEF Stopped, Finalizing
    <3>2. CASE /\ ck.p.state = "EVIDENCE_FINALIZATION_PENDING"
               /\ Persist("FRAMEWORK_EVIDENCE_COMMITTED", ck.p.out, FALSE)
      BY <3>2 DEF Finalizing
    <3>3. CASE /\ ck.p.state = "FRAMEWORK_EVIDENCE_COMMITTED"
               /\ Persist("FRAMEWORK_EVIDENCE_PUSHED", ck.p.out, FALSE)
      BY <3>3 DEF Finalizing
    <3>4. CASE /\ ck.p.state \in Finalizing /\ ck.p.pub \notin {"FAILED", "PUSHED"}
               /\ Persist(ck.p.state, ck.p.out, TRUE)
      BY <2>2, <3>4 DEF Sound
    <3> QED
      BY <1>9, <3>1, <3>2, <3>3, <3>4 DEF FinalizeEvidence
  <2>4. s \in States /\ s # "EXECUTOR_RUNNING"
    BY ViewNames
  <2>5. UNCHANGED reader
    BY <2>3 DEF Persist
  <2> QED
    BY <2>1, <2>2, <2>3, <2>4, <2>5, PersistMoves
<1>10. CASE AppendEvent
  <2>1. /\ log' = [log EXCEPT ![Here] = [len |-> log[Here].len + 1, p |-> ck.p]]
        /\ writing \in {"event", "note"} /\ writing' \in {"live", "show"}
        /\ UNCHANGED <<ck, live, manifest, outside, bounds, reader>>
    BY <1>10 DEF AppendEvent
  <2>2. ck \in Checkpoints /\ Here \in RunIds /\ ck.p \in Projection
    BY <1>1, <2>1, CheckpointFacts DEF Here
  <2>3. log[Here].len + 1 \in Nat \ {0}
    BY <2>2 DEF FilesOK, Events, NoEvent
  <2>4. [len |-> log[Here].len + 1, p |-> ck.p] \in Events
    BY <2>2, <2>3 DEF Events
  <2>5. log' \in [RunIds -> Events]
    BY <2>1, <2>4 DEF FilesOK
  <2> QED
    BY <1>1, <2>1, <2>2, <2>5
    DEF FilesOK, outside, bounds, Writings, Moves
<1>11. CASE WriteLiveStatus
  <2>1. /\ live' = [live EXCEPT ![Here] = log[Here]]
        /\ writing \in {"live", "show"} /\ writing' \in {"manifest", "idle"}
        /\ UNCHANGED <<ck, log, manifest, outside, bounds, reader>>
    BY <1>11 DEF WriteLiveStatus
  <2>2. ck \in Checkpoints /\ Here \in RunIds
    BY <1>1, <2>1, CheckpointFacts DEF Here
  <2>3. live' \in [RunIds -> Events]
    BY <2>1, <2>2 DEF FilesOK
  <2> QED
    BY <1>1, <2>1, <2>2, <2>3
    DEF FilesOK, outside, bounds, Writings, Moves
<1>12. CASE WriteManifest
  <2>1. /\ manifest' = [manifest EXCEPT ![Here] = FinalResult(ck.p)]
        /\ writing = "manifest" /\ writing' \in {"dead", "idle"}
        /\ UNCHANGED <<ck, log, live, outside, bounds, reader>>
    BY <1>12 DEF WriteManifest
  <2>2. ck \in Checkpoints
    BY <1>1, <2>1
  <2>3. DOMAIN manifest' = RunIds
    BY <2>1 DEF FilesOK
  <2> QED
    BY <1>1, <2>1, <2>2, <2>3
    DEF FilesOK, outside, bounds, Writings, Moves
<1>13. CASE Heartbeat
  <2>1. upsets' \in 0 .. MaxUpsets
    BY <1>1, <1>13 DEF Heartbeat
  <2> QED
    BY <1>1, <1>13, <2>1 DEF Heartbeat, files, outside, FilesOK, Writings, Moves
<1>14. CASE Kill
  <2>1. upsets' \in 0 .. MaxUpsets
    BY <1>1, <1>14 DEF Kill
  <2> QED
    BY <1>1, <1>14, <2>1 DEF Kill, files, outside, FilesOK, Writings, Moves
<1>15. CASE Resume
  BY <1>1, <1>15 DEF Resume, files, outside, bounds, FilesOK, Writings, Moves
<1>16. CASE HumanEdits
  <2>1. upsets' \in 0 .. MaxUpsets
    BY <1>1, <1>16 DEF HumanEdits
  <2>2. /\ UNCHANGED <<log, live, manifest, writing, runs, reader>>
        /\ target' \in BOOLEAN /\ raw' \in {"kept", "absent", "altered"}
        /\ ck' = ck \/ (writing = "dead" /\ ck' = NoCheckpoint)
    BY <1>1, <1>16 DEF HumanEdits, FilesOK
  <2> QED
    BY <1>1, <2>1, <2>2, CheckpointFacts DEF FilesOK, Moves
<1> QED
  BY <1>4, <1>5, <1>6, <1>7, <1>8, <1>9, <1>10, <1>11, <1>12, <1>13, <1>14,
     <1>15, <1>16 DEF Run

-----------------------------------------------------------------------------
(***************************************************************************)
(* The dashboard.                                                          *)
(***************************************************************************)

\* A look changes no file, no bound and nothing outside.
LEMMA LookOnly ==
  ASSUME FilesOK, Look, quiet' \in BOOLEAN
  PROVE  /\ FilesOK' /\ Moves(ck, runs, ck', runs')
         /\ UNCHANGED <<ck, log, live, manifest, target, raw, writing, runs, upsets>>
<1>1. UNCHANGED <<files, outside, writing, bounds>>
  BY DEF Look, LoadCheckpoint, CheckManifest, CheckObservation, CheckRest,
         ObserveProgress, LookAgain, Draw, Refresh
<1> QED
  BY <1>1 DEF files, outside, bounds, FilesOK, Moves

\* The advice of a gate has its grounds in what it was made from.
LEMMA GateAdvised ==
  ASSUME NEW p, NEW bad, NEW missing
  PROVE  Advised(project_human_gate(p, bad, missing).mode, p)
BY DEF Advised, project_human_gate, Gate, InvalidGate, ReviewedMode, Remediate

\* Progress that fits a checkpoint belongs to it.
LEMMA ObservedBelongs ==
  ASSUME FilesOK, NEW c \in Checkpoints, Observed(c) = "fits"
  PROVE  Belongs(live[c.p.run], c.p, c.cursor)
<1> DEFINE l == log[c.p.run]
<1>1. SuffixFits(c, l) /\ live[c.p.run] = l /\ l # NoEvent
  BY DEF Observed
<1>2. c.p.run \in RunIds /\ c.cursor \in Nat
  BY CheckpointFacts
<1>3. l.len \in Nat
  BY <1>1, <1>2 DEF FilesOK, Events
<1> HIDE DEF l
<1> QED
  BY <1>1, <1>2, <1>3 DEF SuffixFits, Belongs

\* A finding more, in what has been read.
LEMMA GotMore ==
  ASSUME NEW g \in [c: Checkpoints, bad: BOOLEAN, missing: BOOLEAN],
         NEW b, NEW m
  PROVE  LET h == [g EXCEPT !.missing = @ \/ m, !.bad = @ \/ b]
         IN /\ h \in [c: Checkpoints, bad: BOOLEAN, missing: BOOLEAN]
            /\ h.c = g.c
            /\ h.bad <=> g.bad \/ b
            /\ h.missing <=> g.missing \/ m
<1> DEFINE bb == g.bad \/ b
           mm == g.missing \/ m
           h == [g EXCEPT !.missing = mm, !.bad = bb]
<1>1. bb \in BOOLEAN /\ mm \in BOOLEAN
  OBVIOUS
<1>2. (bb <=> g.bad \/ b) /\ (mm <=> g.missing \/ m)
  OBVIOUS
<1> HIDE DEF bb, mm
<1>3. /\ h \in [c: Checkpoints, bad: BOOLEAN, missing: BOOLEAN]
      /\ h.c = g.c /\ h.bad = bb /\ h.missing = mm
  BY <1>1
<1>4. h = [g EXCEPT !.missing = @ \/ m, !.bad = @ \/ b]
  BY DEF bb, mm
<1> HIDE DEF h
<1>5. /\ h.bad <=> g.bad \/ b
      /\ h.missing <=> g.missing \/ m
  BY <1>2, <1>3
<1> QED
  BY <1>3, <1>4, <1>5

\* Each read takes what it reads as it is, and each result carries it on.
LEMMA LookKeeps ==
  ASSUME ViewInv, Look, quiet' \in BOOLEAN
  PROVE  GotOK' /\ StatusOK' /\ FrameOK'
<1>1. FilesOK /\ GotOK /\ StatusOK /\ FrameOK
  BY DEF ViewInv
<1>2. UNCHANGED <<ck, log, live, manifest, target, raw, writing, runs, upsets>>
  BY <1>1, LookOnly
<1>3. \A q : Kept(q, ck, runs) => Kept(q, ck', runs')
  BY <1>2
<1>4. UNCHANGED <<got, phase>> => GotOK'
  BY <1>1, <1>3 DEF GotOK
<1>5. UNCHANGED <<st, ins>> => StatusOK'
  BY <1>1, <1>3 DEF StatusOK
<1>6. UNCHANGED frame => FrameOK'
  BY <1>1, <1>3 DEF FrameOK
<1>7. CASE LoadCheckpoint
  <2>1. UNCHANGED frame
    BY <1>7 DEF LoadCheckpoint
  <2>2. CASE ck # NoCheckpoint /\ ck.bound
    <3>1. /\ got' = [c |-> ck, bad |-> FALSE, missing |-> FALSE]
          /\ phase' \in {"s manifest", "i manifest"} /\ UNCHANGED <<st, ins>>
      BY <1>7, <2>2 DEF LoadCheckpoint
    <3>2. ck \in Checkpoints /\ Kept(ck.p, ck, runs)
      BY <1>1, <2>2, KeptNow DEF FilesOK
    <3>3. /\ got' \in [c: Checkpoints, bad: BOOLEAN, missing: BOOLEAN]
          /\ got'.c = ck
      BY <3>1, <3>2
    <3>4. Kept(got'.c.p, ck', runs')
      BY <1>3, <3>2, <3>3
    <3>5. GotOK'
      BY <3>1, <3>3, <3>4 DEF GotOK, Phases, Reads, FirstReads, SecondReads
    <3> QED
      BY <1>5, <1>6, <2>1, <3>1, <3>5
  <2>3. CASE ~(ck # NoCheckpoint /\ ck.bound)
    <3>1. phase' \in {"inspect", "compare"}
      BY <1>7, <2>3 DEF LoadCheckpoint
    <3>2. GotOK'
      BY <3>1 DEF GotOK, Phases, Reads, FirstReads, SecondReads
    <3>3. \/ UNCHANGED ins /\ st'.kind \in {"absent", "invalid"}
          \/ UNCHANGED st /\ ins'.kind = "invalid"
      <4>1. phase = "status" \/ phase = "inspect"
        BY <1>7 DEF LoadCheckpoint
      <4>2. CASE phase = "status"
        <5>1. UNCHANGED ins
          BY <1>7, <2>3, <4>2 DEF LoadCheckpoint
        <5>2. \/ st' = [kind |-> "absent", gate |-> AbsentGate]
              \/ st' = [kind |-> "invalid", gate |-> InvalidGate]
          BY <1>7, <2>3, <4>2, Zenon DEF LoadCheckpoint
        <5>3. st'.kind \in {"absent", "invalid"}
          BY <5>2
        <5> QED
          BY <5>1, <5>3
      <4>3. CASE phase = "inspect"
        <5>1. UNCHANGED st
          BY <1>7, <2>3, <4>3 DEF LoadCheckpoint
        <5>2. ins' = [kind |-> "invalid", gate |-> InvalidGate]
          BY <1>7, <2>3, <4>3, Zenon DEF LoadCheckpoint
        <5>3. ins'.kind = "invalid"
          BY <5>2
        <5> QED
          BY <5>1, <5>3
      <4> QED
        BY <4>1, <4>2, <4>3
    <3>4. StatusOK'
      BY <1>1, <1>3, <3>3 DEF StatusOK
    <3> QED
      BY <1>6, <2>1, <3>2, <3>4
  <2> QED
    BY <2>2, <2>3
<1>8. CASE CheckManifest
  <2> DEFINE f == manifest[got.c.p.run]
  <2>1. PICK b, m : got' = [got EXCEPT !.missing = @ \/ m, !.bad = @ \/ b]
    <3>1. got' = [got EXCEPT !.missing = @ \/ f = NoManifest,
                             !.bad = @ \/ f \notin {NoManifest, FinalResult(got.c.p)}]
      BY <1>8 DEF CheckManifest
    <3> HIDE DEF f
    <3> QED
      BY <3>1, Zenon
  <2>2. /\ phase \in Reads /\ phase' \in Phases /\ UNCHANGED <<st, ins, frame>>
    BY <1>8 DEF CheckManifest, Phases, Reads, FirstReads, SecondReads
  <2>3. /\ got' \in [c: Checkpoints, bad: BOOLEAN, missing: BOOLEAN]
        /\ got'.c = got.c
    BY <1>1, <2>1, <2>2, GotMore DEF GotOK
  <2>4. GotOK'
    BY <1>1, <1>3, <2>2, <2>3 DEF GotOK
  <2> QED
    BY <1>5, <1>6, <2>2, <2>4
<1>9. CASE CheckObservation
  <2>1. PICK b, m : got' = [got EXCEPT !.missing = @ \/ m, !.bad = @ \/ b]
    BY <1>9, Zenon DEF CheckObservation
  <2>2. /\ phase \in Reads /\ phase' \in Phases /\ UNCHANGED <<st, ins, frame>>
    BY <1>9 DEF CheckObservation, Phases, Reads, FirstReads, SecondReads
  <2>3. /\ got' \in [c: Checkpoints, bad: BOOLEAN, missing: BOOLEAN]
        /\ got'.c = got.c
    BY <1>1, <2>1, <2>2, GotMore DEF GotOK
  <2>4. GotOK'
    BY <1>1, <1>3, <2>2, <2>3 DEF GotOK
  <2> QED
    BY <1>5, <1>6, <2>2, <2>4
<1>10. CASE CheckRest
  <2>1. phase \in Reads /\ UNCHANGED <<st, frame>>
    BY <1>10 DEF CheckRest, Reads, FirstReads, SecondReads
  <2>2. CASE phase = "s rest"
    <3>1. /\ phase' = "s progress" /\ UNCHANGED ins
          /\ got' = [got EXCEPT !.bad = got.bad \/ ~target \/ SummaryDiffers,
                                !.missing = got.missing \/ SummaryMissing]
      BY <1>10, <2>2 DEF CheckRest
    <3>2. got' = [got EXCEPT !.missing = @ \/ SummaryMissing,
                             !.bad = @ \/ (~target \/ SummaryDiffers)]
      BY <1>1, <2>1, <3>1 DEF GotOK
    <3>3. /\ got' \in [c: Checkpoints, bad: BOOLEAN, missing: BOOLEAN]
          /\ got'.c = got.c
      BY <1>1, <2>1, <3>2, GotMore DEF GotOK
    <3>4. GotOK'
      BY <1>1, <1>3, <2>1, <3>1, <3>3 DEF GotOK, Phases, Reads, FirstReads
    <3> QED
      BY <1>5, <1>6, <2>1, <3>1, <3>4
  <2>3. CASE phase # "s rest"
    <3> PICK f : /\ phase' = "compare"
                 /\ ins' = [kind |-> "run", p |-> got.c.p,
                            gate |-> project_human_gate(got.c.p, f,
                                       got.missing \/ SummaryMissing),
                            failed |-> f]
      BY <1>10, <2>3, Zenon DEF CheckRest
    <3> DEFINE g == project_human_gate(got.c.p, f, got.missing \/ SummaryMissing)
    <3> HIDE DEF g
    <3>1. phase' = "compare" /\ ins'.kind = "run"
      BY DEF g
    <3>2. GotOK'
      BY <3>1 DEF GotOK, Phases, Reads, FirstReads, SecondReads
    <3>3. StatusOK'
      BY <1>1, <1>3, <2>1, <3>1 DEF StatusOK
    <3> QED
      BY <1>6, <2>1, <3>2, <3>3
  <2> QED
    BY <2>2, <2>3
<1>11. CASE ObserveProgress
  <2>1. /\ phase \in Reads /\ phase' = "inspect" /\ UNCHANGED <<ins, frame>>
        /\ st'.kind = "run" /\ st'.p = got.c.p /\ st'.cursor = got.c.cursor
        /\ st'.gate = project_human_gate(got.c.p, got.bad, got.missing)
        /\ st'.live = IF Observed(got.c) = "fits" THEN live[got.c.p.run]
                      ELSE NoEvent
    BY <1>11 DEF ObserveProgress, Reads, FirstReads
  <2>2. got.c \in Checkpoints /\ Kept(got.c.p, ck, runs)
    BY <1>1, <2>1 DEF GotOK
  <2>3. Kept(st'.p, ck', runs') /\ Advised(st'.gate.mode, st'.p)
    BY <1>3, <2>1, <2>2, GateAdvised
  <2>4. Belongs(st'.live, st'.p, st'.cursor)
    <3>1. CASE Observed(got.c) = "fits"
      BY <1>1, <2>1, <2>2, <3>1, ObservedBelongs
    <3>2. CASE Observed(got.c) # "fits"
      BY <2>1, <3>2 DEF Belongs
    <3> QED
      BY <3>1, <3>2
  <2>5. StatusOK'
    BY <1>1, <2>1, <2>3, <2>4 DEF StatusOK
  <2>6. GotOK'
    BY <2>1 DEF GotOK, Phases, Reads, FirstReads, SecondReads
  <2> QED
    BY <1>6, <2>1, <2>5, <2>6
<1>14. CASE LookAgain
  <2>1. /\ st'.kind \in {"still absent", "appeared"}
        /\ phase' = phase /\ phase = "compare" /\ UNCHANGED <<ins, frame>>
    BY <1>14 DEF LookAgain
  <2>2. GotOK'
    BY <2>1 DEF GotOK, Phases, Reads, FirstReads, SecondReads
  <2>3. StatusOK'
    BY <1>1, <2>1 DEF StatusOK
  <2> QED
    BY <1>6, <2>1, <2>2, <2>3
<1>12. CASE Draw
  <2>1. /\ st'.kind = "nothing" /\ ins'.kind = "nothing" /\ phase' = "drawn"
    BY <1>12 DEF Draw, Nothing
  <2>2. GotOK'
    BY <2>1 DEF GotOK, Phases, Reads, FirstReads, SecondReads
  <2>3. StatusOK'
    BY <2>1 DEF StatusOK
  <2>4. CASE existing_run_consistent
    <3>1. frame' = [kind |-> "run", p |-> st.p, mode |-> st.gate.mode,
                    cursor |-> st.cursor, live |-> st.live]
      BY <1>12, <2>4 DEF Draw, existing_run_consistent
    <3>2. /\ frame'.kind = "run" /\ frame'.p = st.p
          /\ frame'.mode = st.gate.mode /\ frame'.cursor = st.cursor
          /\ frame'.live = st.live
      BY <3>1
    <3>3. st.kind = "run"
      BY <2>4 DEF existing_run_consistent
    <3>4. FrameOK'
      BY <1>1, <1>3, <3>2, <3>3 DEF StatusOK, FrameOK
    <3> QED
      BY <2>2, <2>3, <3>4
  <2>5. CASE ~existing_run_consistent
    <3>1. frame'.kind \in {"no checkpoint", "unavailable"}
      BY <1>12, <2>5 DEF Draw
    <3>2. FrameOK'
      BY <3>1 DEF FrameOK
    <3> QED
      BY <2>2, <2>3, <3>2
  <2> QED
    BY <2>4, <2>5
<1>13. CASE Refresh
  <2>1. /\ phase' = "status" /\ frame'.kind = "blank" /\ UNCHANGED <<st, ins>>
    BY <1>13 DEF Refresh, Blank
  <2>2. GotOK' /\ FrameOK'
    BY <2>1 DEF GotOK, FrameOK, Phases, Reads, FirstReads, SecondReads
  <2> QED
    BY <1>5, <2>1, <2>2
<1> QED
  BY <1>7, <1>8, <1>9, <1>10, <1>11, <1>12, <1>13, <1>14 DEF Look

-----------------------------------------------------------------------------
(***************************************************************************)
(* A look at a world that stands still.                                    *)
(***************************************************************************)

\* The gate depends on whether something failed or is missing, and no more.
LEMMA GateSame ==
  ASSUME NEW p, NEW b1, NEW b2, NEW m1, NEW m2, b1 <=> b2, m1 <=> m2
  PROVE  project_human_gate(p, b1, m1) = project_human_gate(p, b2, m2)
<1>1. CASE b1 /\ b2
  BY <1>1 DEF project_human_gate
<1>2. CASE ~b1 /\ ~b2 /\ m1 /\ m2
  BY <1>2 DEF project_human_gate
<1>3. CASE ~b1 /\ ~b2 /\ ~m1 /\ ~m2
  BY <1>3 DEF project_human_gate
<1> QED
  BY <1>1, <1>2, <1>3

\* What is found in files that stay is what was found in them.
LEMMA FoundAgain ==
  ASSUME UNCHANGED <<ck, log, live, manifest, target, raw>>
  PROVE  /\ Ready' <=> Ready
         /\ BadManifest' <=> BadManifest
         /\ NoManifestYet' <=> NoManifestYet
         /\ Conflict' <=> Conflict
         /\ Unobserved' <=> Unobserved
         /\ Bad' <=> Bad
         /\ Missing' <=> Missing
         /\ UNCHANGED st /\ StatusFresh => StatusFresh'
         /\ UNCHANGED ins /\ InspectFresh => InspectFresh'
<1>1. Ready' <=> Ready
  BY DEF Ready
<1>2. (BadManifest' <=> BadManifest) /\ (NoManifestYet' <=> NoManifestYet)
  BY DEF BadManifest, NoManifestYet, Found
<1>3. (Conflict' <=> Conflict) /\ (Unobserved' <=> Unobserved)
  BY DEF Conflict, Unobserved, Observed
<1>4. (BadRest' <=> BadRest) /\ (SummaryMissing' <=> SummaryMissing)
  BY DEF BadRest, SummaryDiffers, SummaryMissing
<1>5. (Bad' <=> Bad) /\ (Missing' <=> Missing)
  BY <1>2, <1>3, <1>4 DEF Bad, Missing
<1>6. project_human_gate(ck.p, Bad, Missing)'
        = project_human_gate(ck.p, Bad, Missing)
  BY <1>5, GateSame
<1>7. UNCHANGED st /\ StatusFresh => StatusFresh'
  BY <1>1, <1>6 DEF StatusFresh
<1>8. UNCHANGED ins /\ InspectFresh => InspectFresh'
  BY <1>1, <1>5, <1>6 DEF InspectFresh
<1> QED
  BY <1>1, <1>2, <1>3, <1>5, <1>7, <1>8

\* While nothing else moves, a refresh ends with what there is.
LEMMA QuietNext ==
  ASSUME ViewInv, QuietInv, Look, quiet' = (quiet \/ phase = "drawn")
  PROVE  QuietInv'
<1> USE DEF Reads, FirstReads, SecondReads
<1>1. FilesOK /\ GotOK /\ StatusOK /\ quiet' \in BOOLEAN
  BY DEF ViewInv
<1>2. UNCHANGED <<ck, log, live, manifest, target, raw, writing, runs, upsets>>
  BY <1>1, LookOnly
<1>3. /\ Ready' <=> Ready
      /\ BadManifest' <=> BadManifest
      /\ NoManifestYet' <=> NoManifestYet
      /\ Conflict' <=> Conflict
      /\ Unobserved' <=> Unobserved
      /\ Bad' <=> Bad
      /\ Missing' <=> Missing
      /\ UNCHANGED st /\ StatusFresh => StatusFresh'
      /\ UNCHANGED ins /\ InspectFresh => InspectFresh'
  BY <1>2, FoundAgain
<1>4. phase # "drawn" /\ quiet' => quiet
  OBVIOUS
<1>5. ck \in Checkpoints \cup {NoCheckpoint} /\ NoCheckpoint \notin Checkpoints
  BY <1>1, CheckpointFacts DEF FilesOK
<1>6. ASSUME ~quiet' PROVE QuietInv'
  BY <1>6 DEF QuietInv
<1>7. CASE LoadCheckpoint /\ quiet'
  <2>1. quiet /\ phase \in {"status", "inspect"}
    BY <1>4, <1>7 DEF LoadCheckpoint
  <2>2. phase = "inspect" => StatusFresh
    BY <2>1 DEF QuietInv
  <2>3. CASE ck # NoCheckpoint /\ ck.bound
    <3>1. /\ got' = [c |-> ck, bad |-> FALSE, missing |-> FALSE]
          /\ phase' = IF phase = "status" THEN "s manifest" ELSE "i manifest"
          /\ UNCHANGED st
      BY <1>7, <2>3 DEF LoadCheckpoint
    <3>2. got'.c = ck /\ ~got'.bad /\ ~got'.missing
      BY <3>1
    <3>3. Ready
      BY <1>5, <2>3 DEF Ready
    <3> QED
      BY <1>2, <1>3, <2>1, <2>2, <3>1, <3>2, <3>3 DEF QuietInv
  <2>4. CASE ~(ck # NoCheckpoint /\ ck.bound)
    <3>1. ~Ready
      BY <1>5, <2>4 DEF Ready
    <3>2. CASE phase = "status"
      <4>1. phase' = "inspect"
        BY <1>7, <2>4, <3>2 DEF LoadCheckpoint
      <4>2. st' = IF ck = NoCheckpoint
                  THEN [kind |-> "absent", gate |-> AbsentGate]
                  ELSE [kind |-> "invalid", gate |-> InvalidGate]
        BY <1>7, <2>4, <3>2, Zenon DEF LoadCheckpoint
      <4>3. st'.kind = IF ck = NoCheckpoint THEN "absent" ELSE "invalid"
        BY <4>2
      <4>4. StatusFresh'
        BY <1>2, <1>3, <3>1, <4>3 DEF StatusFresh
      <4> QED
        BY <4>1, <4>4 DEF QuietInv
    <3>3. CASE phase = "inspect"
      <4>1. phase' = "compare" /\ UNCHANGED st
        BY <1>7, <2>4, <3>3 DEF LoadCheckpoint
      <4>2. ins' = [kind |-> "invalid", gate |-> InvalidGate]
        BY <1>7, <2>4, <3>3, Zenon DEF LoadCheckpoint
      <4>3. ins'.kind = "invalid"
        BY <4>2
      <4>4. StatusFresh' /\ InspectFresh'
        BY <1>3, <2>2, <3>1, <3>3, <4>1, <4>3 DEF InspectFresh
      <4> QED
        BY <4>1, <4>4 DEF QuietInv
    <3> QED
      BY <2>1, <3>2, <3>3
  <2> QED
    BY <2>3, <2>4
<1>8. CASE CheckManifest /\ quiet'
  <2>1. /\ quiet /\ phase \in {"s manifest", "i manifest"} /\ UNCHANGED st
        /\ phase' = IF phase = "s manifest" THEN "s observe" ELSE "i observe"
    BY <1>4, <1>8 DEF CheckManifest
  <2>2. Ready /\ got.c = ck /\ ~got.bad /\ ~got.missing
    BY <2>1 DEF QuietInv
  <2>3. got' = [got EXCEPT !.missing = @ \/ NoManifestYet, !.bad = @ \/ BadManifest]
    BY <1>8, <2>2, Zenon DEF CheckManifest, NoManifestYet, BadManifest, Found
  <2>4. got'.c = ck /\ (got'.bad <=> BadManifest) /\ (got'.missing <=> NoManifestYet)
    BY <1>1, <2>1, <2>2, <2>3, GotMore DEF GotOK
  <2>5. phase = "i manifest" => StatusFresh'
    BY <1>3, <2>1 DEF QuietInv
  <2> QED
    BY <1>2, <1>3, <2>1, <2>2, <2>4, <2>5 DEF QuietInv
<1>9. CASE CheckObservation /\ quiet'
  <2>1. /\ quiet /\ phase \in {"s observe", "i observe"} /\ UNCHANGED st
        /\ phase' = IF phase = "s observe" THEN "s rest" ELSE "i rest"
    BY <1>4, <1>9 DEF CheckObservation
  <2>2. /\ Ready /\ got.c = ck
        /\ (got.bad <=> BadManifest) /\ (got.missing <=> NoManifestYet)
    BY <2>1 DEF QuietInv
  <2>3. got' = [got EXCEPT !.missing = @ \/ Unobserved, !.bad = @ \/ Conflict]
    BY <1>9, <2>2, Zenon DEF CheckObservation, Unobserved, Conflict
  <2>4. /\ got'.c = ck /\ (got'.bad <=> BadManifest \/ Conflict)
        /\ (got'.missing <=> NoManifestYet \/ Unobserved)
    BY <1>1, <2>1, <2>2, <2>3, GotMore DEF GotOK
  <2>5. phase = "i observe" => StatusFresh'
    BY <1>3, <2>1 DEF QuietInv
  <2> QED
    BY <1>2, <1>3, <2>1, <2>2, <2>4, <2>5 DEF QuietInv
<1>10. CASE CheckRest /\ quiet'
  <2>1. quiet /\ phase \in {"s rest", "i rest"} /\ UNCHANGED st
    BY <1>4, <1>10 DEF CheckRest
  <2>2. /\ Ready /\ got.c = ck
        /\ (got.bad <=> BadManifest \/ Conflict)
        /\ (got.missing <=> NoManifestYet \/ Unobserved)
    BY <2>1 DEF QuietInv
  <2> DEFINE bad == got.bad \/ ~target \/ SummaryDiffers
             missing == got.missing \/ SummaryMissing
  <2>3. (bad <=> Bad) /\ (missing <=> Missing)
    BY <2>2 DEF Bad, Missing, BadRest
  <2>4. CASE phase = "s rest"
    <3>1. phase' = "s progress"
      BY <1>10, <2>4 DEF CheckRest
    <3>2. got' = [got EXCEPT !.missing = @ \/ SummaryMissing, !.bad = @ \/ BadRest]
      <4>1. got' = [got EXCEPT !.bad = bad, !.missing = missing]
        BY <1>10, <2>4 DEF CheckRest
      <4> QED
        BY <1>1, <2>1, <4>1 DEF GotOK, BadRest
    <3>3. got'.c = ck /\ (got'.bad <=> Bad) /\ (got'.missing <=> Missing)
      <4>1. /\ got'.c = ck /\ (got'.bad <=> got.bad \/ BadRest)
            /\ got'.missing <=> got.missing \/ SummaryMissing
        BY <1>1, <2>1, <2>2, <3>2, GotMore DEF GotOK
      <4> QED
        BY <2>2, <4>1 DEF Bad, Missing
    <3> QED
      BY <1>2, <1>3, <2>2, <3>1, <3>3 DEF QuietInv
  <2>5. CASE phase = "i rest"
    <3>1. phase' = "compare"
      BY <1>10, <2>5 DEF CheckRest
    <3>2. ins' = [kind |-> "run", p |-> got.c.p,
                  gate |-> project_human_gate(got.c.p, bad, missing),
                  failed |-> bad]
      BY <1>10, <2>5, Zenon DEF CheckRest
    <3> HIDE DEF bad, missing
    <3>3. project_human_gate(ck.p, bad, missing)
            = project_human_gate(ck.p, Bad, Missing)
      BY <2>3, GateSame
    <3> DEFINE g == project_human_gate(ck.p, bad, missing)
    <3>4. ins' = [kind |-> "run", p |-> ck.p, gate |-> g, failed |-> bad]
      BY <2>2, <3>2
    <3> HIDE DEF g
    <3>5. /\ ins'.kind = "run" /\ ins'.p = ck.p /\ ins'.gate = g
          /\ ins'.failed <=> bad
      BY <3>4
    <3>6. project_human_gate(ck.p, Bad, Missing)'
            = project_human_gate(ck.p, Bad, Missing)
      BY <1>2, <1>3, GateSame
    <3>7. InspectFresh'
      BY <1>2, <1>3, <2>2, <2>3, <3>3, <3>5, <3>6 DEF InspectFresh, g
    <3>8. StatusFresh'
      BY <1>3, <2>1, <2>5 DEF QuietInv
    <3> QED
      BY <3>1, <3>7, <3>8 DEF QuietInv
  <2> QED
    BY <2>1, <2>4, <2>5
<1>11. CASE ObserveProgress /\ quiet'
  <2>1. /\ quiet /\ phase = "s progress" /\ phase' = "inspect"
        /\ st'.kind = "run" /\ st'.p = got.c.p
        /\ st'.gate = project_human_gate(got.c.p, got.bad, got.missing)
    BY <1>4, <1>11 DEF ObserveProgress
  <2>2. Ready /\ got.c = ck /\ (got.bad <=> Bad) /\ (got.missing <=> Missing)
    BY <2>1 DEF QuietInv
  <2>3. project_human_gate(ck.p, got.bad, got.missing)
          = project_human_gate(ck.p, Bad, Missing)
    BY <2>2, GateSame
  <2>4. project_human_gate(ck.p, Bad, Missing)'
          = project_human_gate(ck.p, Bad, Missing)
    BY <1>2, <1>3, GateSame
  <2>5. StatusFresh'
    BY <1>2, <1>3, <2>1, <2>2, <2>3, <2>4 DEF StatusFresh
  <2> QED
    BY <2>1, <2>5 DEF QuietInv
<1>14. CASE LookAgain /\ quiet'
  <2>1. quiet /\ phase = "compare" /\ phase' = "compare" /\ st.kind = "absent"
        /\ StatusFresh /\ InspectFresh /\ UNCHANGED <<ins, got>>
        /\ st'.kind = IF ck = NoCheckpoint THEN "still absent" ELSE "appeared"
    BY <1>4, <1>14 DEF LookAgain, QuietInv
  <2>2. ~Ready /\ ck = NoCheckpoint
    BY <2>1 DEF StatusFresh
  <2>3. StatusFresh'
    BY <1>2, <1>3, <2>1, <2>2 DEF StatusFresh
  <2>4. InspectFresh'
    BY <1>2, <1>3, <2>1, <2>2 DEF InspectFresh
  <2> QED
    BY <2>1, <2>3, <2>4 DEF QuietInv, Reads, FirstReads, SecondReads
<1>12. CASE Draw /\ quiet'
  <2>1. quiet /\ phase = "compare" /\ phase' = "drawn" /\ StatusFresh /\ InspectFresh
    BY <1>4, <1>12 DEF Draw, QuietInv
  <2>2. CASE Ready
    <3>1. /\ st.kind = "run" /\ ins.kind = "run" /\ st.p = ck.p /\ ins.p = ck.p
          /\ st.gate = project_human_gate(ck.p, Bad, Missing)
          /\ ins.gate = st.gate
          /\ ins.failed => Bad
      BY <2>1, <2>2 DEF StatusFresh, InspectFresh
    <3>2. Bad => st.gate.status = "INVALID"
      BY <3>1 DEF project_human_gate, InvalidGate, Gate
    <3>3. existing_run_consistent
      BY <3>1, <3>2 DEF existing_run_consistent
    <3>4. frame' = [kind |-> "run", p |-> st.p, mode |-> st.gate.mode,
                    cursor |-> st.cursor, live |-> st.live]
      BY <1>12, <3>1, <3>3 DEF Draw
    <3>5. frame'.kind = "run" /\ frame'.p = ck.p
      BY <3>1, <3>4
    <3>6. ck # NoCheckpoint /\ ck.bound
      BY <1>5, <2>2 DEF Ready
    <3>7. Agrees'
      BY <1>2, <3>5, <3>6 DEF Agrees
    <3> QED
      BY <2>1, <3>7 DEF QuietInv
  <2>3. CASE ~Ready /\ ck = NoCheckpoint
    <3>1. st.kind = "still absent" /\ ins.kind = "invalid"
      BY <1>12, <2>1, <2>3 DEF StatusFresh, InspectFresh, Draw
    <3>2. frame' = [kind |-> "no checkpoint"]
      BY <1>12, <3>1 DEF Draw
    <3>3. frame'.kind = "no checkpoint"
      BY <3>2
    <3>4. Agrees'
      BY <1>2, <2>3, <3>3 DEF Agrees
    <3> QED
      BY <2>1, <3>4 DEF QuietInv
  <2>4. CASE ~Ready /\ ck # NoCheckpoint
    <3>1. st.kind = "invalid" /\ ~existing_run_consistent
      BY <2>1, <2>4 DEF StatusFresh, existing_run_consistent
    <3>2. frame' = [kind |-> "unavailable"]
      BY <1>12, <3>1 DEF Draw
    <3>3. frame'.kind = "unavailable" /\ ck # NoCheckpoint /\ ~ck.bound
      BY <1>5, <2>4, <3>2 DEF Ready
    <3>4. Agrees'
      BY <1>2, <3>3 DEF Agrees
    <3> QED
      BY <2>1, <3>4 DEF QuietInv
  <2> QED
    BY <2>2, <2>3, <2>4
<1>13. CASE Refresh /\ quiet'
  BY <1>13 DEF Refresh, QuietInv
<1> QED
  BY <1>6, <1>7, <1>8, <1>9, <1>10, <1>11, <1>12, <1>13, <1>14 DEF Look

-----------------------------------------------------------------------------
(***************************************************************************)
(* The theorems.                                                           *)
(***************************************************************************)

\* At first there is no run, and nothing has been read.
LEMMA ViewInit == Init => ViewInv /\ QuietInv
<1> SUFFICES ASSUME Init PROVE ViewInv /\ QuietInv
  OBVIOUS
<1>1. NoEvent \in Events /\ MaxRuns \in Nat /\ MaxUpsets \in Nat
  BY RunFacts DEF Events
<1>2. FilesOK
  BY <1>1, CheckpointFacts DEF Init, FilesOK, Writings
<1>3. GotOK
  BY DEF Init, GotOK, Phases, Reads, FirstReads, SecondReads
<1>4. StatusOK /\ FrameOK
  BY DEF Init, Nothing, Blank, StatusOK, FrameOK
<1>5. QuietInv
  BY DEF Init, QuietInv, Reads, FirstReads, SecondReads
<1> QED
  BY <1>2, <1>3, <1>4, <1>5 DEF ViewInv

\* Every step of the run, of a Human and of the dashboard keeps the invariant.
LEMMA ViewNext == ViewInv /\ QuietInv /\ [Next]_vars => ViewInv' /\ QuietInv'
<1> SUFFICES ASSUME ViewInv, QuietInv, [Next]_vars PROVE ViewInv' /\ QuietInv'
  OBVIOUS
<1>1. FilesOK /\ quiet \in BOOLEAN
  BY DEF ViewInv, FilesOK
<1>2. CASE Run /\ quiet' = FALSE
  <2>1. quiet' \in BOOLEAN
    BY <1>2
  <2>2. FilesOK' /\ Moves(ck, runs, ck', runs') /\ UNCHANGED reader
    BY <1>1, <1>2, <2>1, RunMoves
  <2>3. ViewInv'
    BY <2>2, ReaderKept DEF ViewInv
  <2> QED
    BY <1>2, <2>3 DEF QuietInv
<1>3. CASE Look /\ quiet' = (quiet \/ phase = "drawn")
  <2>1. quiet' \in BOOLEAN
    BY <1>1, <1>3
  <2>2. ViewInv'
    BY <1>1, <1>3, <2>1, LookOnly, LookKeeps DEF ViewInv
  <2> QED
    BY <1>3, <2>2, QuietNext
<1>4. CASE UNCHANGED vars
  <2>1. /\ UNCHANGED <<ck, log, live, manifest, target, raw, writing, runs, upsets>>
        /\ UNCHANGED <<phase, got, st, ins, frame, quiet>> /\ UNCHANGED reader
    BY <1>4 DEF vars, files, outside, bounds, reader
  <2>2. FilesOK' /\ Moves(ck, runs, ck', runs')
    BY <1>1, <2>1 DEF FilesOK, Moves
  <2>3. ViewInv'
    BY <2>1, <2>2, ReaderKept DEF ViewInv
  <2>4. /\ Ready' <=> Ready
        /\ BadManifest' <=> BadManifest
        /\ NoManifestYet' <=> NoManifestYet
        /\ Conflict' <=> Conflict
        /\ Unobserved' <=> Unobserved
        /\ Bad' <=> Bad
        /\ Missing' <=> Missing
        /\ StatusFresh => StatusFresh'
        /\ InspectFresh => InspectFresh'
    BY <2>1, FoundAgain
  <2>5. Agrees => Agrees'
    BY <2>1 DEF Agrees
  <2>6. QuietInv'
    BY <2>1, <2>4, <2>5 DEF QuietInv, Reads, FirstReads, SecondReads
  <2> QED
    BY <2>3, <2>6
<1> QED
  BY <1>2, <1>3, <1>4 DEF Next

\* What a decided run showed stays so, every gate's advice has its grounds, and
\* the findings of a look at a world that stands still are those of its files:
\* the invariant of the run and the dashboard together.
THEOREM ViewCorrect == Spec => [](ViewInv /\ QuietInv)
<1>1. Init => ViewInv /\ QuietInv
  BY ViewInit
<1>2. ViewInv /\ QuietInv /\ [Next]_vars => (ViewInv /\ QuietInv)'
  BY ViewNext
<1> QED
  BY <1>1, <1>2, PTL DEF Spec

\* The variables keep their types.
THEOREM TypeOKHolds == Spec => []TypeOK
<1>1. ViewInv => TypeOK
  <2> SUFFICES ASSUME ViewInv PROVE TypeOK
    OBVIOUS
  <2>1. FilesOK /\ StatusOK /\ FrameOK
    BY DEF ViewInv
  <2> QED
    BY <2>1 DEF FilesOK, StatusOK, FrameOK, TypeOK, Writings
<1> QED
  BY <1>1, ViewCorrect, PTL

\* The advice to start a new run after review does not outlive its grounds: the
\* gate was made from a published projection, and what is published stays so.
THEOREM NewRunAdviceIsSafeHolds == Spec => []NewRunAdviceIsSafe
<1>1. ViewInv => NewRunAdviceIsSafe
  <2> SUFFICES ASSUME ViewInv, Offers("NEW_RUN_AFTER_REVIEW"), StillThere
               PROVE  ck.p.state = "FRAMEWORK_EVIDENCE_PUSHED"
                      /\ ck.p.out = frame.p.out
    BY DEF NewRunAdviceIsSafe
  <2>1. ck \in Checkpoints /\ ck.p.run = frame.p.run
    BY DEF ViewInv, FilesOK, StillThere
  <2>2. /\ Kept(frame.p, ck, runs)
        /\ Advised("NEW_RUN_AFTER_REVIEW", frame.p)
    BY DEF ViewInv, FrameOK, Offers
  <2>3. Sound(frame.p) /\ frame.p.pub = "PUSHED"
    BY <2>2 DEF Kept, Advised
  <2>4. frame.p.state = "FRAMEWORK_EVIDENCE_PUSHED" /\ Decided(frame.p)
    BY <2>3 DEF Sound, Decided, Finalizing
  <2> QED
    BY <2>1, <2>2, <2>4 DEF Kept, Same
<1> QED
  BY <1>1, ViewCorrect, PTL

\* The advice that only finalization is left stays true while it is shown: a
\* run with something left to finalize is decided, or in its transition.
THEOREM FinalizationAdviceIsSafeHolds == Spec => []FinalizationAdviceIsSafe
<1>1. ViewInv => FinalizationAdviceIsSafe
  <2> SUFFICES ASSUME ViewInv, Offers("FINALIZATION_ONLY"), StillThere,
                      frame.p.state \notin Transition
               PROVE  ck.p.out = frame.p.out /\ ck.p.rt = frame.p.rt
    BY DEF FinalizationAdviceIsSafe
  <2>1. ck \in Checkpoints /\ ck.p.run = frame.p.run
    BY DEF ViewInv, FilesOK, StillThere
  <2>2. /\ Kept(frame.p, ck, runs)
        /\ Advised("FINALIZATION_ONLY", frame.p)
    BY DEF ViewInv, FrameOK, Offers
  <2>3. Sound(frame.p) /\ Unfinished(frame.p) /\ frame.p.state \in States
    BY <2>2 DEF Kept, Advised, Projection
  <2>4. frame.p.state # "EXECUTOR_RUNNING"
    BY <2>3 DEF Sound, Unfinished
  <2>5. Decided(frame.p)
    BY <2>3, <2>4 DEF Decided, States
  <2> QED
    BY <2>1, <2>2, <2>5 DEF Kept, Same
<1> QED
  BY <1>1, ViewCorrect, PTL

\* Progress on the screen belongs to the state beside it.
THEOREM ProgressBelongsToStateHolds == Spec => []ProgressBelongsToState
<1>1. ViewInv => ProgressBelongsToState
  BY DEF ViewInv, FrameOK, Belongs, ProgressBelongsToState
<1> QED
  BY <1>1, ViewCorrect, PTL

\* A refresh of a world that stands still ends with the checkpoint as it is.
THEOREM RestIsShownHolds == Spec => []RestIsShown
<1>1. QuietInv => RestIsShown
  BY DEF QuietInv, RestIsShown
<1> QED
  BY <1>1, ViewCorrect, PTL
=============================================================================
