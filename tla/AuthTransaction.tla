--------------------------- MODULE AuthTransaction ---------------------------
(***************************************************************************)
(* The credential transactions of 1PCloop/scripts/codex_mix_account.py: for *)
(* one Agent turn the active account's auth.json is put into the home of   *)
(* the Agent's role, and taken out again, under a switch lock and a role   *)
(* lock, with a directory on disk from which whoever comes next recovers.  *)
(*                                                                         *)
(* A process is a runner or an operator command; it holds its locks only   *)
(* as long as it lives.  Its Agent lives on when it is killed.  A kill in  *)
(* _atomic_write leaves a temporary file.  Beside the backup it is kept in *)
(* the model, because recovery refuses it once the record is gone; beside  *)
(* the record (removed or accepted by every recovery) and in the homes (of *)
(* no account) it is left out.  So are the credential scan and the         *)
(* comparison of the projected bytes after the turn, which decide only     *)
(* what a finished turn reports.                                           *)
(***************************************************************************)
EXTENDS Naturals, FiniteSets

CONSTANTS
  Procs, Roles, Accounts,
  Own,          \* bytes of a role's auth.json outside of transactions
  Changed,      \* bytes an Agent wrote into the auth.json of its home
  None,         \* no account, role, process or file
  MaxTurns,     \* bound: transactions
  MaxCrashes,   \* bound: processes killed
  MaxFaults,    \* bound: exceptions (I/O errors, timeouts, interrupts)
  MaxMoves      \* bound: accounts switched, process ids given out again

ASSUME AuthAssumption ==
  /\ Own \notin Accounts /\ Changed \notin Accounts /\ Own # Changed
  /\ None \notin Accounts \cup Procs \cup Roles \cup {Own, Changed, "turn"}
  /\ MaxTurns \in Nat /\ MaxCrashes \in Nat /\ MaxFaults \in Nat
  /\ MaxMoves \in Nat

VARIABLES
  auth,      \* auth.json in the home of each role
  active,    \* the account of the canonical home
  dirs,      \* transaction directories
  used,      \* directories made so far
  lock,      \* holder of the switch lock
  roleLock,  \* holder of each role lock
  proc,      \* processes: where they are, and what they keep in memory
  live,      \* turns whose Agent process lives
  home,      \* the role whose home the Agent of a turn uses
  reused,    \* turns whose Agent's process id belongs to another process
  stray,     \* history: turns whose runner was killed between starting the
             \* Agent and recording it
  crashes, faults, moves

locks   == <<lock, roleLock>>
agents  == <<live, home, reused>>
budgets == <<crashes, faults, moves>>
vars == <<auth, active, dirs, used, locks, proc, agents, stray, budgets>>

-----------------------------------------------------------------------------
INITIALIZED   == "INITIALIZED"
PREPARED      == "PREPARED"
PROJECTED     == "PROJECTED"
CHILD_RUNNING == "CHILD_RUNNING"
CHILD_EXITED  == "CHILD_EXITED"
RESTORING     == "RESTORING"
RESTORED      == "RESTORED"
RECOVERED     == "RECOVERED"
States == {INITIALIZED, PREPARED, PROJECTED, CHILD_RUNNING, CHILD_EXITED,
           RESTORING, RESTORED, RECOVERED}

Ids      == 1 .. MaxTurns
Contents == Accounts \cup {Own, Changed}

\* transaction.json; child: the identity of the Agent process is in it.
Record   == [state: States, role: Roles, sha: Contents, child: BOOLEAN]
NoRecord == [state |-> None, role |-> None, sha |-> None, child |-> FALSE]

\* temp: a temporary file of the backup, .original-role-auth.json.1pcloop-*.
Directory == [there: BOOLEAN, rec: Record \cup {NoRecord},
              backup: Contents \cup {None}, temp: BOOLEAN]
NoDirectory ==
  [there |-> FALSE, rec |-> NoRecord, backup |-> None, temp |-> FALSE]

Setup    == {"init", "backup", "prepare", "project", "confirm"}
Body     == {"launch", "note", "agent"}
Cleanup  == {"close", "mark", "restore", "seal", "remove"}
Undoing  == {"undo", "verify", "uRemove"}
Recovery == {"recover", "rMark", "rRestore", "rSeal", "rRemove"}
InTurn   == Setup \cup Body \cup Cleanup \cup Undoing
Places   == {"idle", "look", "begin", "mkdir"} \cup InTurn \cup Recovery

Process == [at: Places, job: {"turn", "inspect", None}, role: Roles \cup {None},
            bound: Accounts \cup {None},   \* the account the run is bound to
            tx: Nat, mem: Record \cup {NoRecord},
            kept: Contents \cup {None},    \* original_auth, or the backup read
            lent: Contents \cup {None}]    \* active_auth
Rested(account) ==
  [at |-> "idle", job |-> None, role |-> None, bound |-> account, tx |-> 0,
   mem |-> NoRecord, kept |-> None, lent |-> None]

TypeOK ==
  /\ auth \in [Roles -> Contents] /\ active \in Accounts
  /\ dirs \in [Ids -> Directory] /\ used \in 0 .. MaxTurns
  /\ lock \in Procs \cup {None} /\ roleLock \in [Roles -> Procs \cup {None}]
  /\ proc \in [Procs -> Process]
  /\ live \subseteq Ids /\ reused \subseteq Ids /\ stray \subseteq Ids
  /\ home \in [Ids -> Roles \cup {None}]
  /\ crashes \in Nat /\ faults \in Nat /\ moves \in Nat

Init ==
  /\ auth = [r \in Roles |-> Own] /\ active \in Accounts
  /\ dirs = [d \in Ids |-> NoDirectory] /\ used = 0
  /\ lock = None /\ roleLock = [r \in Roles |-> None]
  /\ proc = [p \in Procs |-> Rested(None)]
  /\ live = {} /\ home = [d \in Ids |-> None] /\ reused = {} /\ stray = {}
  /\ crashes = MaxCrashes /\ faults = MaxFaults /\ moves = MaxMoves

-----------------------------------------------------------------------------
(***************************************************************************)
(* One process: going on, letting go of its locks, writing its record.     *)
(***************************************************************************)
Here(p)     == proc[p].at
Go(p, next) == proc' = [proc EXCEPT ![p].at = next]

Unlock(p) ==
  /\ lock' = IF lock = p THEN None ELSE lock
  /\ roleLock' = [r \in Roles |-> IF roleLock[r] = p THEN None ELSE roleLock[r]]

Leave(p) == /\ proc' = [proc EXCEPT ![p] = Rested(@.bound)]
            /\ Unlock(p)

\* _atomic_json of the record in memory, with its new state.
Save(p, m, next) ==
  /\ proc' = [proc EXCEPT ![p].mem = m, ![p].at = next]
  /\ dirs' = [dirs EXCEPT ![proc[p].tx].rec = m]

InState(p, s) == [proc[p].mem EXCEPT !.state = s]

-----------------------------------------------------------------------------
(***************************************************************************)
(* recover_incomplete_transactions, at the beginning of a turn and of      *)
(* inspect_active_account.                                                 *)
(***************************************************************************)

\* A lock that is held is refused, and nothing happens.
Acquire(p) ==
  /\ Here(p) = "idle" /\ lock = None
  /\ lock' = p
  /\ \/ proc' = [proc EXCEPT ![p].at = "recover", ![p].job = "inspect"]
     \/ /\ proc[p].bound # None /\ used < MaxTurns
        /\ \E r \in Roles :
             proc' = [proc EXCEPT ![p].at = "recover", ![p].job = "turn",
                                  ![p].role = r]
  /\ UNCHANGED <<auth, active, dirs, used, roleLock, agents, stray, budgets>>

\* mutant of ChildInTheWay: only another owner of the process id counts
ReusedInTheWay(d) == dirs[d].rec.child /\ d \in reused
\* _recorded_child_is_running: true, or ambiguous because another process has
\* the process id now.
ChildInTheWay(d) == dirs[d].rec.child /\ d \in live \cup reused

Examines(d) == /\ dirs[d].rec # NoRecord
               /\ roleLock[dirs[d].rec.role] = None
               /\ ~ChildInTheWay(d)
\* Without a record only temporary files of the record may be there.
Unmarked(d) ==
  dirs[d].rec = NoRecord /\ dirs[d].backup = None /\ ~dirs[d].temp
Unchanged(d) == auth[dirs[d].rec.role] = dirs[d].rec.sha
\* mutant of Completed: a transaction that only began is not complete
CompletedAtEnd(d) ==
  Examines(d) /\ Unchanged(d) /\ dirs[d].rec.state \in {RESTORED, RECOVERED}
Completed(d) ==
  /\ Examines(d) /\ Unchanged(d)
  /\ \/ dirs[d].rec.state \in {RESTORED, RECOVERED}
     \/ dirs[d].rec.state = INITIALIZED /\ dirs[d].backup = None
\* mutant of Restorable: a restoration that was begun is not begun again
RestorableOnce(d) ==
  /\ Examines(d)
  /\ dirs[d].rec.state \notin {RESTORING, RESTORED, RECOVERED}
  /\ dirs[d].backup = dirs[d].rec.sha
Restorable(d) ==
  /\ Examines(d)
  /\ dirs[d].rec.state \notin {RESTORED, RECOVERED}
  /\ dirs[d].backup = dirs[d].rec.sha

\* Nothing was written yet: the directory goes.
DropUnmarked(p, d) ==
  /\ Unmarked(d)
  /\ dirs' = [dirs EXCEPT ![d] = NoDirectory]
  /\ UNCHANGED <<proc, locks>>

TakeCompleted(p, d) ==
  /\ Completed(d)
  /\ proc' = [proc EXCEPT ![p].at = "rRemove", ![p].tx = d]
  /\ roleLock' = [roleLock EXCEPT ![dirs[d].rec.role] = p]
  /\ UNCHANGED <<dirs, lock>>

TakeRestorable(p, d) ==
  /\ Restorable(d)
  /\ proc' = [proc EXCEPT ![p].at = "rMark", ![p].tx = d,
                          ![p].mem = dirs[d].rec, ![p].kept = dirs[d].backup]
  /\ roleLock' = [roleLock EXCEPT ![dirs[d].rec.role] = p]
  /\ UNCHANGED <<dirs, lock>>

RefuseDirectory(p, d) ==
  /\ ~(Unmarked(d) \/ Completed(d) \/ Restorable(d))
  /\ Leave(p) /\ UNCHANGED dirs

RecoverNext(p) ==
  /\ Here(p) = "recover"
  /\ \E d \in Ids :
       /\ dirs[d].there
       /\ DropUnmarked(p, d) \/ TakeCompleted(p, d) \/ TakeRestorable(p, d)
          \/ RefuseDirectory(p, d)
  /\ UNCHANGED <<auth, active, used, agents, stray, budgets>>

RecoverMark(p) ==
  /\ Here(p) = "rMark"
  /\ Save(p, InState(p, RESTORING), "rRestore")
  /\ UNCHANGED <<auth, active, used, locks, agents, stray, budgets>>

RecoverRestore(p) ==
  /\ Here(p) = "rRestore"
  /\ auth' = [auth EXCEPT ![proc[p].mem.role] = proc[p].kept]
  /\ Go(p, "rSeal")
  /\ UNCHANGED <<active, dirs, used, locks, agents, stray, budgets>>

RecoverSeal(p) ==
  /\ Here(p) = "rSeal"
  /\ IF auth[proc[p].mem.role] = proc[p].mem.sha
     THEN Save(p, InState(p, RECOVERED), "rRemove") /\ UNCHANGED locks
     ELSE Leave(p) /\ UNCHANGED dirs
  /\ UNCHANGED <<auth, active, used, agents, stray, budgets>>

\* _remove_transaction unlinks the files in the order the directory lists
\* them; whoever called it goes on when the directory is gone.
Unlink(p, d) ==
  /\ \/ dirs[d].rec # NoRecord /\ dirs' = [dirs EXCEPT ![d].rec = NoRecord]
     \/ dirs[d].backup # None /\ dirs' = [dirs EXCEPT ![d].backup = None]
     \/ dirs[d].temp /\ dirs' = [dirs EXCEPT ![d].temp = FALSE]
  /\ UNCHANGED <<proc, locks>>

RemoveDirectory(p, d) ==
  /\ Unmarked(d)
  /\ dirs' = [dirs EXCEPT ![d] = NoDirectory]
  /\ \/ /\ Here(p) = "rRemove"
        /\ proc' = [proc EXCEPT ![p].at = "recover", ![p].tx = 0,
                                ![p].mem = NoRecord, ![p].kept = None]
        /\ roleLock' = [r \in Roles |->
                          IF roleLock[r] = p THEN None ELSE roleLock[r]]
        /\ UNCHANGED lock
     \/ Here(p) # "rRemove" /\ Leave(p)

Remove(p) ==
  /\ Here(p) \in {"rRemove", "remove", "uRemove"}
  /\ Unlink(p, proc[p].tx) \/ RemoveDirectory(p, proc[p].tx)
  /\ UNCHANGED <<auth, active, used, agents, stray, budgets>>

\* mutant of NothingLeft: a turn begins beside an unfinished transaction
NothingAsked == TRUE
NothingLeft == \A d \in Ids : ~dirs[d].there

RecoverDone(p) ==
  /\ Here(p) = "recover" /\ NothingLeft
  /\ \/ proc[p].job = "turn" /\ Go(p, "begin") /\ UNCHANGED locks
     \/ proc[p].job = "inspect" /\ Go(p, "look") /\ Unlock(p)
  /\ UNCHANGED <<auth, active, dirs, used, agents, stray, budgets>>

\* inspect_active_account reads the active account after the lock is gone.
Look(p) ==
  /\ Here(p) = "look"
  /\ proc' = [proc EXCEPT ![p] = Rested(active)]
  /\ UNCHANGED <<auth, active, dirs, used, locks, agents, stray, budgets>>

-----------------------------------------------------------------------------
(***************************************************************************)
(* active_account_environment: setting up, the turn, cleaning up.          *)
(***************************************************************************)
\* mutant of BoundAccount: whatever account is active is good
AnyAccount(p) == TRUE
BoundAccount(p) == active = proc[p].bound

Begin(p) ==
  /\ Here(p) = "begin"
  /\ IF roleLock[proc[p].role] = None /\ BoundAccount(p)
     THEN /\ proc' = [proc EXCEPT ![p].at = "mkdir", ![p].lent = active,
                                  ![p].kept = auth[proc[p].role]]
          /\ roleLock' = [roleLock EXCEPT ![proc[p].role] = p]
          /\ UNCHANGED lock
     ELSE Leave(p)
  /\ UNCHANGED <<auth, active, dirs, used, agents, stray, budgets>>

MakeDirectory(p) ==
  /\ Here(p) = "mkdir" /\ used < MaxTurns
  /\ used' = used + 1
  /\ dirs' = [dirs EXCEPT ![used + 1].there = TRUE]
  /\ home' = [home EXCEPT ![used + 1] = proc[p].role]
  /\ proc' = [proc EXCEPT ![p].at = "init", ![p].tx = used + 1,
                ![p].mem = [state |-> INITIALIZED, role |-> proc[p].role,
                            sha |-> proc[p].kept, child |-> FALSE]]
  /\ UNCHANGED <<auth, active, locks, live, reused, stray, budgets>>

WriteFirstRecord(p) ==
  /\ Here(p) = "init"
  /\ Save(p, proc[p].mem, "backup")
  /\ UNCHANGED <<auth, active, used, locks, agents, stray, budgets>>

WriteBackup(p) ==
  /\ Here(p) = "backup"
  /\ dirs' = [dirs EXCEPT ![proc[p].tx].backup = proc[p].kept]
  /\ Go(p, "prepare")
  /\ UNCHANGED <<auth, active, used, locks, agents, stray, budgets>>

Prepare(p) ==
  /\ Here(p) = "prepare"
  /\ Save(p, InState(p, PREPARED), "project")
  /\ UNCHANGED <<auth, active, used, locks, agents, stray, budgets>>

Project(p) ==
  /\ Here(p) = "project"
  /\ auth' = [auth EXCEPT ![proc[p].role] = proc[p].lent]
  /\ Go(p, "confirm")
  /\ UNCHANGED <<active, dirs, used, locks, agents, stray, budgets>>

\* The projected file is read back; bytes an unrecorded Agent put there may
\* name another account.
Confirm(p) ==
  /\ Here(p) = "confirm"
  /\ \/ Save(p, InState(p, PROJECTED), "launch")
     \/ auth[proc[p].role] # proc[p].lent /\ Go(p, "undo") /\ UNCHANGED dirs
  /\ UNCHANGED <<auth, active, used, locks, agents, stray, budgets>>

\* The context manager's body, stream_subprocess: Popen, then child_started.
Launch(p) ==
  /\ Here(p) = "launch"
  /\ live' = live \cup {proc[p].tx}
  /\ Go(p, "note")
  /\ UNCHANGED <<auth, active, dirs, used, locks, home, reused, stray, budgets>>

\* mutant of Identified: a state recovery does not know
IdentifiedAsStarted(p) ==
  [proc[p].mem EXCEPT !.state = "CHILD_STARTED", !.child = TRUE]
Identified(p) == [proc[p].mem EXCEPT !.state = CHILD_RUNNING, !.child = TRUE]

NoteChild(p) ==
  /\ Here(p) = "note"
  /\ Save(p, Identified(p), "agent")
  /\ UNCHANGED <<auth, active, used, locks, agents, stray, budgets>>

\* The Agent ended, or was killed at its timeout: child_stopped.
ChildStopped(p) ==
  /\ Here(p) = "agent" /\ proc[p].tx \notin live
  /\ Save(p, InState(p, CHILD_EXITED), "close")
  /\ UNCHANGED <<auth, active, used, locks, agents, stray, budgets>>

\* A child recorded as running after an exception must be gone; a process id
\* that has another owner by now is ambiguous.
Close(p) ==
  /\ Here(p) = "close"
  /\ \/ /\ proc[p].mem.state # CHILD_RUNNING
        /\ Go(p, "mark") /\ UNCHANGED <<dirs, locks>>
     \/ /\ proc[p].mem.state = CHILD_RUNNING
        /\ proc[p].tx \notin live \cup reused
        /\ Save(p, InState(p, CHILD_EXITED), "mark") /\ UNCHANGED locks
     \/ /\ proc[p].mem.state = CHILD_RUNNING
        /\ proc[p].tx \in live \cup reused
        /\ Leave(p) /\ UNCHANGED dirs
  /\ UNCHANGED <<auth, active, used, agents, stray, budgets>>

Mark(p) ==
  /\ Here(p) = "mark"
  /\ Save(p, InState(p, RESTORING), "restore")
  /\ UNCHANGED <<auth, active, used, locks, agents, stray, budgets>>

Restore(p) ==
  /\ Here(p) = "restore"
  /\ auth' = [auth EXCEPT ![proc[p].role] = proc[p].kept]
  /\ Go(p, "seal")
  /\ UNCHANGED <<active, dirs, used, locks, agents, stray, budgets>>

Seal(p) ==
  /\ Here(p) = "seal"
  /\ IF auth[proc[p].role] = proc[p].mem.sha /\ BoundAccount(p)
     THEN Save(p, InState(p, RESTORED), "remove") /\ UNCHANGED locks
     ELSE Leave(p) /\ UNCHANGED dirs
  /\ UNCHANGED <<auth, active, used, agents, stray, budgets>>

\* The setup failed: the original goes back and the directory is removed,
\* whatever state its record is in.
Undo(p) ==
  /\ Here(p) = "undo"
  /\ auth' = [auth EXCEPT ![proc[p].role] = proc[p].kept]
  /\ Go(p, "verify")
  /\ UNCHANGED <<active, dirs, used, locks, agents, stray, budgets>>

VerifyUndo(p) ==
  /\ Here(p) = "verify"
  /\ IF auth[proc[p].role] = proc[p].kept
     THEN Go(p, "uRemove") /\ UNCHANGED locks
     ELSE Leave(p)
  /\ UNCHANGED <<auth, active, dirs, used, agents, stray, budgets>>

-----------------------------------------------------------------------------
(***************************************************************************)
(* Exceptions and kills.                                                   *)
(***************************************************************************)
\* Outside of setup and turn nothing is done about it.
FaultLeaves(p) ==
  /\ Here(p) \in {"begin", "mkdir"} \cup Recovery \cup Cleanup \cup Undoing
  /\ Leave(p) /\ UNCHANGED <<live, dirs>>

\* The last record may be on disk already when its directory cannot be synced;
\* after any other write this is the fault of the step that follows.
FaultInSetup(p) ==
  /\ Here(p) \in Setup
  /\ Go(p, "undo") /\ UNCHANGED <<live, locks>>
  /\ \/ UNCHANGED dirs
     \/ /\ Here(p) = "confirm"
        /\ dirs' = [dirs EXCEPT ![proc[p].tx].rec = InState(p, PROJECTED)]

\* Popen itself failed.
FaultInLaunch(p) ==
  /\ Here(p) = "launch"
  /\ Go(p, "close") /\ UNCHANGED <<live, dirs, locks>>

\* stream_subprocess kills the Agent's process group first; the record in
\* memory may be ahead of the one on disk.
FaultKills(p) ==
  /\ Here(p) \in {"note", "agent"}
  /\ live' = live \ {proc[p].tx}
  /\ \E m \in {proc[p].mem, IF Here(p) = "note" THEN Identified(p)
                             ELSE InState(p, CHILD_EXITED)} :
       proc' = [proc EXCEPT ![p].at = "close", ![p].mem = m]
  /\ UNCHANGED <<dirs, locks>>

\* While it starts its threads, between its two try blocks, it does not.
FaultSpares(p) ==
  /\ Here(p) = "agent"
  /\ Go(p, "close") /\ UNCHANGED <<live, dirs, locks>>

Fault(p) ==
  /\ faults > 0 /\ faults' = faults - 1
  /\ FaultLeaves(p) \/ FaultInSetup(p) \/ FaultInLaunch(p)
     \/ FaultKills(p) \/ FaultSpares(p)
  /\ UNCHANGED <<auth, active, used, home, reused, stray, crashes, moves>>

Crash(p) ==
  /\ Here(p) # "idle" /\ crashes > 0
  /\ crashes' = crashes - 1
  /\ proc' = [proc EXCEPT ![p] = Rested(None)]
  /\ Unlock(p)
  /\ stray' = IF Here(p) = "note" THEN stray \cup {proc[p].tx} ELSE stray
  /\ \/ UNCHANGED dirs
     \/ /\ Here(p) = "backup"
        /\ dirs' = [dirs EXCEPT ![proc[p].tx].temp = TRUE]
  /\ UNCHANGED <<auth, active, used, agents, faults, moves>>

-----------------------------------------------------------------------------
(***************************************************************************)
(* Agents, the process table, and the tool that switches accounts.         *)
(***************************************************************************)
AgentWrites(d) ==
  /\ d \in live
  /\ auth' = [auth EXCEPT ![home[d]] = Changed]
  /\ UNCHANGED <<active, dirs, used, locks, proc, agents, stray, budgets>>

AgentExits(d) ==
  /\ d \in live
  /\ live' = live \ {d}
  /\ UNCHANGED <<auth, active, dirs, used, locks, proc, home, reused, stray,
                 budgets>>

PidReused(d) ==
  /\ home[d] # None /\ d \notin live \cup reused
  /\ dirs[d].rec.child
  /\ moves > 0 /\ moves' = moves - 1
  /\ reused' = reused \cup {d}
  /\ UNCHANGED <<auth, active, dirs, used, locks, proc, live, home, stray,
                 crashes, faults>>

PidFreed(d) ==
  /\ d \in reused
  /\ reused' = reused \ {d}
  /\ UNCHANGED <<auth, active, dirs, used, locks, proc, live, home, stray,
                 budgets>>

\* The switching tool takes the lock and refuses unfinished transactions; a
\* login by hand does neither.
AccountChanges ==
  /\ moves > 0 /\ moves' = moves - 1
  /\ active' \in Accounts \ {active}
  /\ UNCHANGED <<auth, dirs, used, locks, proc, agents, stray, crashes, faults>>

-----------------------------------------------------------------------------
Recovers(p) == RecoverNext(p) \/ RecoverMark(p) \/ RecoverRestore(p)
               \/ RecoverSeal(p) \/ RecoverDone(p) \/ Look(p)
SetsUp(p) == Begin(p) \/ MakeDirectory(p) \/ WriteFirstRecord(p)
             \/ WriteBackup(p) \/ Prepare(p) \/ Project(p) \/ Confirm(p)
Runs(p) == Launch(p) \/ NoteChild(p) \/ ChildStopped(p)
CleansUp(p) == Close(p) \/ Mark(p) \/ Restore(p) \/ Seal(p)
               \/ Undo(p) \/ VerifyUndo(p)
GoesOn(p) == Recovers(p) \/ SetsUp(p) \/ Runs(p) \/ CleansUp(p) \/ Remove(p)

Environment == \/ \E d \in Ids : AgentWrites(d) \/ AgentExits(d)
                                 \/ PidReused(d) \/ PidFreed(d)
               \/ AccountChanges

Next == \/ \E p \in Procs : Acquire(p) \/ GoesOn(p) \/ Fault(p) \/ Crash(p)
        \/ Environment

Spec == Init /\ [][Next]_vars

\* A process that lives goes on, an Agent ends (its timeout is its runner's: of
\* an Agent whose runner was killed this is assumed, not enforced), so does an
\* unrelated process, and somebody tries again.
Fairness ==
  /\ WF_vars(\E p \in Procs : GoesOn(p))
  /\ WF_vars(\E p \in Procs : Acquire(p))
  /\ WF_vars(\E d \in Ids : AgentExits(d) \/ PidFreed(d))
FairSpec == Spec /\ Fairness

-----------------------------------------------------------------------------
(***************************************************************************)
(* What must not go wrong.                                                 *)
(***************************************************************************)
\* From directory d the original bytes of role r can be put back.
Recoverable(d, r) ==
  /\ dirs[d].there /\ dirs[d].rec # NoRecord
  /\ dirs[d].rec.role = r /\ dirs[d].rec.sha = Own /\ dirs[d].backup = Own
  /\ dirs[d].rec.state \notin {RESTORED, RECOVERED}

\* The same for a role whose Agent was started and never recorded.
StrayIn(r) == \E d \in stray : home[d] = r

\* Whenever a role's auth.json is not its own, a directory on disk says how to
\* put it back, however many processes were killed in whatever step: the
\* original is never overwritten by a copy of a projection.
OriginalRecoverable ==
  \A r \in Roles : auth[r] # Own => StrayIn(r) \/ \E d \in Ids : Recoverable(d, r)

\* The locks, and recovery before setup, leave at most one transaction and one
\* Agent at a time in all homes together, over kills and restarts; an Agent
\* outlives its transaction only if it was never recorded.
OneTransaction ==
  /\ \A d, e \in Ids : dirs[d].there /\ dirs[e].there => d = e
  /\ \A d, e \in live \ stray : d = e
  /\ \A d \in live \ stray : dirs[d].there

\* The credential is not taken away from a recorded Agent that still runs.
ProjectedWhileRunning ==
  \A d \in live : dirs[d].rec.child => auth[home[d]] # Own

\* An Agent starts with the account its run was bound to, although the account
\* may be switched between any two steps.
LaunchesBoundAccount ==
  [][\A p \in Procs : Launch(p) /\ stray = {} =>
       auth[proc[p].role] = proc[p].bound]_vars

\* A projected credential is taken back after every kill and exception, if
\* only somebody tries again.
ProjectionEnds ==
  \A r \in Roles : auth[r] # Own /\ stray = {} ~> auth[r] = Own \/ stray # {}

\* A cleanup that was cut short between two unlinks: what is left of the
\* directory (the backup or a temporary file of it without the record, or a
\* record that has to have its backup) is refused by every later recovery.
Remnant(d) ==
  \/ dirs[d].rec = NoRecord /\ (dirs[d].backup # None \/ dirs[d].temp)
  \/ /\ dirs[d].rec # NoRecord /\ dirs[d].backup = None
     /\ dirs[d].rec.state \in {PREPARED, PROJECTED}

\* Any other stale transaction is recovered: except for a cleanup cut short, no
\* state of its record and no step of an interrupted recovery is a dead end.
StaleIsRecovered ==
  \A d \in Ids : dirs[d].there /\ stray = {}
                   ~> ~dirs[d].there \/ Remnant(d) \/ stray # {}

-----------------------------------------------------------------------------
(***************************************************************************)
(* What the documentation says of it and the code does not do.             *)
(***************************************************************************)
\* codex-mix-auth-projection-repair-20260924.md: every crash either restores
\* the original bytes or stops with persistent recovery evidence.
RestoredOrEvidence ==
  \A r \in Roles : auth[r] # Own => \E d \in Ids : dirs[d].there
=============================================================================
