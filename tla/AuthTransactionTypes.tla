------------------------- MODULE AuthTransactionTypes -------------------------
(***************************************************************************)
(* Type correctness of AuthTransaction.                                    *)
(*                                                                         *)
(* The argument.  TypeOK allows a process any place with any memory, but a *)
(* step writes to disk what the process has in memory; so the invariant    *)
(* also says which part of the memory is filled at which place (Typed).    *)
(***************************************************************************)
EXTENDS AuthTransaction, TLAPS

Holding == Recovery \ {"recover"}           \* recovering one directory
Reading == {"rMark", "rRestore", "rSeal"}   \* with its record in memory

\* What a process keeps in memory at its place.
Typed(x) ==
  /\ x.job = "turn" => x.role \in Roles /\ x.bound \in Accounts
  /\ x.at \in {"begin", "mkdir"} \cup InTurn => x.job = "turn"
  /\ x.at \in {"mkdir"} \cup InTurn => x.kept \in Contents /\ x.lent \in Accounts
  /\ x.at \in InTurn \cup Holding => x.tx \in Ids
  /\ x.at \in InTurn \cup Reading => x.mem \in Record
  /\ x.at \in Reading => x.kept \in Contents

TypeInv == TypeOK /\ \A p \in Procs : Typed(proc[p])

USE AuthAssumption

-----------------------------------------------------------------------------

\* A record and the absence of one are told apart by the role.
LEMMA NoRecordIsNone == NoRecord \notin Record
BY DEF NoRecord, Record

\* A process that leaves is at rest again, with the account it is bound to.
LEMMA RestedTyped ==
  ASSUME NEW a \in Accounts \cup {None}
  PROVE  Rested(a) \in Process /\ Typed(Rested(a))
BY DEF Rested, Process, Typed, Places, InTurn, Setup, Body, Cleanup, Undoing,
       Recovery, Holding, Reading

\* One process changes, to something of the right type.
LEMMA ProcessStep ==
  ASSUME TypeInv, NEW p \in Procs, NEW x \in Process, Typed(x),
         proc' = [proc EXCEPT ![p] = x]
  PROVE  /\ proc' \in [Procs -> Process]
         /\ \A q \in Procs : Typed(proc'[q])
BY DEF TypeInv, TypeOK

\* Letting go of locks keeps them well typed.
LEMMA UnlockTyped ==
  ASSUME TypeOK, NEW p \in Procs, Unlock(p)
  PROVE  lock' \in Procs \cup {None} /\ roleLock' \in [Roles -> Procs \cup {None}]
BY DEF TypeOK, Unlock

\* Leaving does, too.
LEMMA LeaveTyped ==
  ASSUME TypeInv, NEW p \in Procs, Leave(p)
  PROVE  /\ proc' \in [Procs -> Process] /\ \A q \in Procs : Typed(proc'[q])
         /\ lock' \in Procs \cup {None}
         /\ roleLock' \in [Roles -> Procs \cup {None}]
<1>1. proc[p].bound \in Accounts \cup {None} BY DEF TypeInv, TypeOK, Process
<1>2. proc' = [proc EXCEPT ![p] = Rested(proc[p].bound)]
  BY DEF Leave, TypeInv, TypeOK
<1> QED BY <1>1, <1>2, RestedTyped, ProcessStep, UnlockTyped DEF Leave, TypeInv

\* A process that goes on without a change of its memory.
LEMMA GoTyped ==
  ASSUME TypeInv, NEW p \in Procs, NEW next \in Places, Go(p, next),
         Typed([proc[p] EXCEPT !.at = next])
  PROVE  proc' \in [Procs -> Process] /\ \A q \in Procs : Typed(proc'[q])
<1> DEFINE x == [proc[p] EXCEPT !.at = next]
<1>1. x \in Process BY DEF TypeInv, TypeOK, Process
<1>2. proc' = [proc EXCEPT ![p] = x] BY DEF Go, TypeInv, TypeOK
<1> QED BY <1>1, <1>2, ProcessStep

\* A directory with another record or backup in it is a directory.
LEMMA DirectoryWritten ==
  ASSUME TypeOK, NEW d \in Ids, NEW x \in Directory
  PROVE  [dirs EXCEPT ![d] = x] \in [Ids -> Directory]
BY DEF TypeOK

\* So is one with another record in it.
LEMMA RecordTyped ==
  ASSUME TypeInv, NEW d \in Ids, NEW m \in Record
  PROVE  [dirs EXCEPT ![d].rec = m] \in [Ids -> Directory]
<1>1. dirs[d] \in Directory BY DEF TypeInv, TypeOK
<1>2. [dirs[d] EXCEPT !.rec = m] \in Directory BY <1>1 DEF Directory
<1> QED BY <1>2, DirectoryWritten DEF TypeInv

\* A process that writes a record it has in memory.
LEMMA SaveTyped ==
  ASSUME TypeInv, NEW p \in Procs, NEW next \in Places, NEW m \in Record,
         Save(p, m, next), Typed([proc[p] EXCEPT !.mem = m, !.at = next]),
         proc[p].tx \in Ids
  PROVE  /\ proc' \in [Procs -> Process] /\ \A q \in Procs : Typed(proc'[q])
         /\ dirs' \in [Ids -> Directory]
<1> DEFINE x == [proc[p] EXCEPT !.mem = m, !.at = next]
<1>0. proc[p] \in Process BY DEF TypeInv, TypeOK
<1>1. x \in Process BY <1>0 DEF Process
<1>2. proc' = [proc EXCEPT ![p] = x] BY DEF Save, TypeInv, TypeOK
<1>3. dirs' \in [Ids -> Directory] BY RecordTyped DEF Save
<1> QED BY <1>1, <1>2, <1>3, ProcessStep

\* The places, for the many steps that tell them apart.
USE DEF Places, InTurn, Setup, Body, Cleanup, Undoing, Recovery, Holding, Reading

-----------------------------------------------------------------------------
(***************************************************************************)
(* Recovery.                                                               *)
(***************************************************************************)

\* A process that begins may have a role to begin a turn in.
LEMMA AcquireTyped ==
  ASSUME TypeInv, NEW p \in Procs, Acquire(p)
  PROVE  TypeInv'
<1>0. proc[p] \in Process /\ Typed(proc[p]) BY DEF TypeInv, TypeOK
<1> DEFINE i == [proc[p] EXCEPT !.at = "recover", !.job = "inspect"]
           t(r) == [proc[p] EXCEPT !.at = "recover", !.job = "turn", !.role = r]
<1>1. i \in Process /\ Typed(i)
  BY <1>0 DEF Process, Typed, Acquire, Here
<1>2. \A r \in Roles : proc[p].bound # None => t(r) \in Process /\ Typed(t(r))
  BY <1>0 DEF Process, Typed, Acquire, Here
<1>3. \/ proc' = [proc EXCEPT ![p] = i]
      \/ /\ proc[p].bound # None
         /\ \E r \in Roles : proc' = [proc EXCEPT ![p] = t(r)]
  BY DEF Acquire
<1>4. proc' \in [Procs -> Process] /\ \A q \in Procs : Typed(proc'[q])
  BY <1>1, <1>2, <1>3, ProcessStep
<1> QED BY <1>4 DEF Acquire, TypeInv, TypeOK, agents, budgets

\* A completed transaction is removed.
LEMMA TakeCompletedTyped ==
  ASSUME TypeInv, NEW p \in Procs, NEW d \in Ids, TakeCompleted(p, d),
         Here(p) = "recover"
  PROVE  /\ proc' \in [Procs -> Process] /\ \A q \in Procs : Typed(proc'[q])
         /\ lock' \in Procs \cup {None}
         /\ roleLock' \in [Roles -> Procs \cup {None}]
         /\ dirs' \in [Ids -> Directory]
<1>0. proc[p] \in Process /\ Typed(proc[p]) BY DEF TypeInv, TypeOK
<1> DEFINE x == [proc[p] EXCEPT !.at = "rRemove", !.tx = d]
<1>d. d \in Nat BY DEF Ids
<1>1. x \in Process /\ Typed(x) BY <1>0, <1>d DEF Process, Typed, Here
<1>2. proc' = [proc EXCEPT ![p] = x] BY DEF TakeCompleted
<1>3. dirs[d].rec.role \in Roles
  BY NoRecordIsNone
  DEF TypeInv, TypeOK, TakeCompleted, Completed, Examines, Directory, Record
<1> QED BY <1>1, <1>2, <1>3, ProcessStep DEF TakeCompleted, TypeInv, TypeOK

\* An interrupted transaction is read into memory.
LEMMA TakeRestorableTyped ==
  ASSUME TypeInv, NEW p \in Procs, NEW d \in Ids, TakeRestorable(p, d),
         Here(p) = "recover"
  PROVE  /\ proc' \in [Procs -> Process] /\ \A q \in Procs : Typed(proc'[q])
         /\ lock' \in Procs \cup {None}
         /\ roleLock' \in [Roles -> Procs \cup {None}]
         /\ dirs' \in [Ids -> Directory]
<1>0. proc[p] \in Process /\ Typed(proc[p]) BY DEF TypeInv, TypeOK
<1>a. dirs[d].rec \in Record /\ dirs[d].backup = dirs[d].rec.sha
  BY NoRecordIsNone
  DEF TypeInv, TypeOK, TakeRestorable, Restorable, Examines, Directory
<1>b. dirs[d].rec.role \in Roles /\ dirs[d].backup \in Contents BY <1>a DEF Record
<1> DEFINE x == [proc[p] EXCEPT !.at = "rMark", !.tx = d, !.mem = dirs[d].rec,
                                !.kept = dirs[d].backup]
<1>d. d \in Nat BY DEF Ids
<1>1. x \in Process BY <1>0, <1>a, <1>b, <1>d DEF Process
<1>c. Typed(x) BY <1>0, <1>a, <1>b DEF Process, Typed, Here
<1>2. proc' = [proc EXCEPT ![p] = x] BY DEF TakeRestorable
<1> QED BY <1>b, <1>1, <1>c, <1>2, ProcessStep DEF TakeRestorable, TypeInv, TypeOK

\* What recovery finds out about a directory.
LEMMA RecoverNextTyped ==
  ASSUME TypeInv, NEW p \in Procs, RecoverNext(p)
  PROVE  TypeInv'
<1> PICK d \in Ids : \/ DropUnmarked(p, d) \/ TakeCompleted(p, d)
                     \/ TakeRestorable(p, d) \/ RefuseDirectory(p, d)
  BY DEF RecoverNext
<1>1. CASE DropUnmarked(p, d)
  <2>1. dirs' \in [Ids -> Directory]
    BY <1>1, DirectoryWritten DEF DropUnmarked, TypeInv, Directory, NoDirectory
  <2> QED BY <1>1, <2>1
          DEF DropUnmarked, RecoverNext, TypeInv, TypeOK, agents, budgets, locks
<1>2. CASE TakeCompleted(p, d)
  BY <1>2, TakeCompletedTyped DEF RecoverNext, TypeInv, TypeOK, agents, budgets
<1>3. CASE TakeRestorable(p, d)
  BY <1>3, TakeRestorableTyped DEF RecoverNext, TypeInv, TypeOK, agents, budgets
<1>4. CASE RefuseDirectory(p, d)
  BY <1>4, LeaveTyped
  DEF RefuseDirectory, RecoverNext, TypeInv, TypeOK, agents, budgets
<1> QED BY <1>1, <1>2, <1>3, <1>4

\* Recovery marks what it restores.
LEMMA RecoverMarkTyped ==
  ASSUME TypeInv, NEW p \in Procs, RecoverMark(p)
  PROVE  TypeInv'
<1>0. proc[p] \in Process /\ Typed(proc[p]) BY DEF TypeInv, TypeOK
<1> DEFINE m == InState(p, RESTORING)
<1>1. m \in Record /\ proc[p].tx \in Ids
  BY <1>0 DEF RecoverMark, Here, Typed, InState, Record, States, RESTORING
<1>2. Typed([proc[p] EXCEPT !.mem = m, !.at = "rRestore"])
  BY <1>0, <1>1 DEF Process, Typed, RecoverMark, Here
<1>3. SUFFICES ASSUME Save(p, m, "rRestore") PROVE TypeInv'
  BY DEF RecoverMark, TypeInv, TypeOK, agents, budgets, locks
<1> QED BY <1>1, <1>2, <1>3, SaveTyped
        DEF RecoverMark, TypeInv, TypeOK, agents, budgets, locks

\* The backup goes back into the role's home.
LEMMA RecoverRestoreTyped ==
  ASSUME TypeInv, NEW p \in Procs, RecoverRestore(p)
  PROVE  TypeInv'
<1>0. proc[p] \in Process /\ Typed(proc[p]) BY DEF TypeInv, TypeOK
<1>1. Typed([proc[p] EXCEPT !.at = "rSeal"])
  BY <1>0 DEF Process, Typed, RecoverRestore, Here
<1>2. proc[p].kept \in Contents BY <1>0 DEF Typed, RecoverRestore, Here, Contents
<1>3. auth' \in [Roles -> Contents] BY <1>2 DEF RecoverRestore, TypeInv, TypeOK
<1> QED BY <1>1, <1>3, GoTyped
        DEF RecoverRestore, TypeInv, TypeOK, agents, budgets, locks

\* Recovery seals what it restored.
LEMMA RecoverSealTyped ==
  ASSUME TypeInv, NEW p \in Procs, RecoverSeal(p)
  PROVE  TypeInv'
<1>0. proc[p] \in Process /\ Typed(proc[p]) BY DEF TypeInv, TypeOK
<1> DEFINE m == InState(p, RECOVERED)
<1>1. m \in Record /\ proc[p].tx \in Ids
  BY <1>0 DEF RecoverSeal, Here, Typed, InState, Record, States, RECOVERED
<1>2. Typed([proc[p] EXCEPT !.mem = m, !.at = "rRemove"])
  BY <1>0, <1>1 DEF Process, Typed, RecoverSeal, Here
<1>3. CASE Save(p, m, "rRemove") /\ UNCHANGED locks
  BY <1>1, <1>2, <1>3, SaveTyped
  DEF RecoverSeal, TypeInv, TypeOK, agents, budgets, locks
<1>4. CASE Leave(p) /\ UNCHANGED dirs
  BY <1>4, LeaveTyped DEF RecoverSeal, TypeInv, TypeOK, agents, budgets
<1> QED BY <1>3, <1>4 DEF RecoverSeal

\* A file of the directory goes.
LEMMA UnlinkTyped ==
  ASSUME TypeInv, NEW p \in Procs, NEW d \in Ids, Unlink(p, d)
  PROVE  /\ proc' \in [Procs -> Process] /\ \A q \in Procs : Typed(proc'[q])
         /\ lock' \in Procs \cup {None}
         /\ roleLock' \in [Roles -> Procs \cup {None}]
         /\ dirs' \in [Ids -> Directory]
<1>1. dirs[d] \in Directory BY DEF TypeInv, TypeOK
<1>2. /\ [dirs[d] EXCEPT !.rec = NoRecord] \in Directory
      /\ [dirs[d] EXCEPT !.backup = None] \in Directory
      /\ [dirs[d] EXCEPT !.temp = FALSE] \in Directory
  BY <1>1 DEF Directory
<1>3. \/ dirs' = [dirs EXCEPT ![d] = [dirs[d] EXCEPT !.rec = NoRecord]]
      \/ dirs' = [dirs EXCEPT ![d] = [dirs[d] EXCEPT !.backup = None]]
      \/ dirs' = [dirs EXCEPT ![d] = [dirs[d] EXCEPT !.temp = FALSE]]
  BY DEF Unlink
<1>4. dirs' \in [Ids -> Directory]
  <2>1. PICK y \in Directory : dirs' = [dirs EXCEPT ![d] = y] BY <1>2, <1>3
  <2> QED BY <2>1, DirectoryWritten DEF TypeInv
<1> QED BY <1>4 DEF Unlink, TypeInv, TypeOK, locks

\* The directory goes, and with it what recovery had in memory.
LEMMA RemoveDirectoryTyped ==
  ASSUME TypeInv, NEW p \in Procs, NEW d \in Ids, RemoveDirectory(p, d)
  PROVE  /\ proc' \in [Procs -> Process] /\ \A q \in Procs : Typed(proc'[q])
         /\ lock' \in Procs \cup {None}
         /\ roleLock' \in [Roles -> Procs \cup {None}]
         /\ dirs' \in [Ids -> Directory]
<1>0. proc[p] \in Process /\ Typed(proc[p]) BY DEF TypeInv, TypeOK
<1> DEFINE x == [proc[p] EXCEPT !.at = "recover", !.tx = 0, !.mem = NoRecord,
                                !.kept = None]
<1>1. dirs' \in [Ids -> Directory]
  BY DirectoryWritten DEF RemoveDirectory, TypeInv, Directory, NoDirectory
<1>2. CASE Here(p) = "rRemove"
  <2>1. x \in Process /\ Typed(x) BY <1>0, <1>2 DEF Process, Typed, Here
  <2>2. proc' = [proc EXCEPT ![p] = x] BY <1>2 DEF RemoveDirectory
  <2>3. /\ roleLock' = [r \in Roles |->
                         IF roleLock[r] = p THEN None ELSE roleLock[r]]
        /\ lock' = lock
    BY <1>2 DEF RemoveDirectory
  <2>4. roleLock' \in [Roles -> Procs \cup {None}] BY <2>3 DEF TypeInv, TypeOK
  <2> QED BY <1>1, <2>1, <2>2, <2>3, <2>4, ProcessStep DEF TypeInv, TypeOK
<1>3. CASE Here(p) # "rRemove"
  BY <1>1, <1>3, LeaveTyped DEF RemoveDirectory
<1> QED BY <1>2, <1>3

\* The files of a directory go one after the other.
LEMMA RemoveTyped ==
  ASSUME TypeInv, NEW p \in Procs, Remove(p)
  PROVE  TypeInv'
<1>1. proc[p].tx \in Ids BY DEF TypeInv, TypeOK, Remove, Here, Typed
<1> QED BY <1>1, UnlinkTyped, RemoveDirectoryTyped
        DEF Remove, TypeInv, TypeOK, agents, budgets

\* Recovery is over.
LEMMA RecoverDoneTyped ==
  ASSUME TypeInv, NEW p \in Procs, RecoverDone(p)
  PROVE  TypeInv'
<1>0. proc[p] \in Process /\ Typed(proc[p]) BY DEF TypeInv, TypeOK
<1>1. CASE proc[p].job = "turn" /\ Go(p, "begin") /\ UNCHANGED locks
  <2>1. Typed([proc[p] EXCEPT !.at = "begin"]) BY <1>0, <1>1 DEF Process, Typed
  <2> QED BY <1>1, <2>1, GoTyped
          DEF RecoverDone, TypeInv, TypeOK, agents, budgets, locks
<1>2. CASE Go(p, "look") /\ Unlock(p)
  <2>1. Typed([proc[p] EXCEPT !.at = "look"]) BY <1>0 DEF Process, Typed
  <2> QED BY <1>2, <2>1, GoTyped, UnlockTyped
          DEF RecoverDone, TypeInv, TypeOK, agents, budgets
<1> QED BY <1>1, <1>2 DEF RecoverDone

\* The active account becomes the account of the run.
LEMMA LookTyped ==
  ASSUME TypeInv, NEW p \in Procs, Look(p)
  PROVE  TypeInv'
<1>1. Rested(active) \in Process /\ Typed(Rested(active))
  BY RestedTyped DEF TypeInv, TypeOK
<1> QED BY <1>1, ProcessStep DEF Look, TypeInv, TypeOK, agents, budgets, locks

-----------------------------------------------------------------------------
(***************************************************************************)
(* Setting up, the turn, cleaning up.                                      *)
(***************************************************************************)

\* The role's and the account's credential are in memory.
LEMMA BeginTyped ==
  ASSUME TypeInv, NEW p \in Procs, Begin(p)
  PROVE  TypeInv'
<1>0. proc[p] \in Process /\ Typed(proc[p]) /\ Here(p) = "begin"
  BY DEF TypeInv, TypeOK, Begin
<1> DEFINE x == [proc[p] EXCEPT !.at = "mkdir", !.lent = active,
                                !.kept = auth[proc[p].role]]
<1>1. proc[p].role \in Roles /\ active \in Accounts
  BY <1>0 DEF Typed, Here, TypeInv, TypeOK
<1>2. auth[proc[p].role] \in Contents BY <1>1 DEF TypeInv, TypeOK
<1>3. x \in Process /\ Typed(x)
  BY <1>0, <1>1, <1>2 DEF Process, Typed, Here, Contents
<1>4. CASE roleLock[proc[p].role] = None /\ BoundAccount(p)
  <2>1. proc' = [proc EXCEPT ![p] = x] BY <1>4 DEF Begin
  <2> QED BY <1>3, <1>4, <2>1, ProcessStep
          DEF Begin, TypeInv, TypeOK, agents, budgets
<1>5. CASE Leave(p)
  BY <1>5, LeaveTyped DEF Begin, TypeInv, TypeOK, agents, budgets
<1> QED BY <1>4, <1>5 DEF Begin

\* The record to be written is in memory.
LEMMA MakeDirectoryTyped ==
  ASSUME TypeInv, NEW p \in Procs, MakeDirectory(p)
  PROVE  TypeInv'
<1>0. proc[p] \in Process /\ Typed(proc[p]) /\ Here(p) = "mkdir"
  BY DEF TypeInv, TypeOK, MakeDirectory
<1> DEFINE m == [state |-> INITIALIZED, role |-> proc[p].role,
                 sha |-> proc[p].kept, child |-> FALSE]
           x == [proc[p] EXCEPT !.at = "init", !.tx = used + 1, !.mem = m]
<1>1. used + 1 \in Ids /\ used + 1 \in 0 .. MaxTurns /\ used + 1 \in Nat
  BY DEF MakeDirectory, TypeInv, TypeOK, Ids
<1>2. m \in Record BY <1>0 DEF Typed, Here, Record, States
<1>3. x \in Process BY <1>0, <1>1, <1>2 DEF Process
<1>a. Typed(x) BY <1>0, <1>1, <1>2 DEF Process, Typed, Here
<1>4. proc' = [proc EXCEPT ![p] = x] BY DEF MakeDirectory
<1>5. dirs' \in [Ids -> Directory]
  <2>0. dirs[used + 1] \in Directory BY <1>1 DEF TypeInv, TypeOK
  <2>1. [dirs[used + 1] EXCEPT !.there = TRUE] \in Directory
    BY <2>0 DEF Directory
  <2>2. dirs' = [dirs EXCEPT ![used + 1] = [dirs[used + 1] EXCEPT !.there = TRUE]]
    BY DEF MakeDirectory
  <2> QED BY <1>1, <2>1, <2>2, DirectoryWritten DEF TypeInv
<1>6. home' \in [Ids -> Roles \cup {None}]
  BY <1>0 DEF MakeDirectory, TypeInv, TypeOK, Typed, Here
<1> QED BY <1>1, <1>3, <1>a, <1>4, <1>5, <1>6, ProcessStep
        DEF MakeDirectory, TypeInv, TypeOK, budgets, locks

\* The first record is written.
LEMMA WriteFirstRecordTyped ==
  ASSUME TypeInv, NEW p \in Procs, WriteFirstRecord(p)
  PROVE  TypeInv'
<1>0. proc[p] \in Process /\ Typed(proc[p]) BY DEF TypeInv, TypeOK
<1> DEFINE m == proc[p].mem
<1>1. m \in Record /\ proc[p].tx \in Ids
  BY <1>0 DEF WriteFirstRecord, Here, Typed
<1>2. Typed([proc[p] EXCEPT !.mem = m, !.at = "backup"])
  BY <1>0, <1>1 DEF Process, Typed, WriteFirstRecord, Here
<1> QED BY <1>1, <1>2, SaveTyped
        DEF WriteFirstRecord, TypeInv, TypeOK, agents, budgets, locks

\* The backup is written.
LEMMA WriteBackupTyped ==
  ASSUME TypeInv, NEW p \in Procs, WriteBackup(p)
  PROVE  TypeInv'
<1>0. proc[p] \in Process /\ Typed(proc[p]) BY DEF TypeInv, TypeOK
<1>1. Typed([proc[p] EXCEPT !.at = "prepare"])
  BY <1>0 DEF Process, Typed, WriteBackup, Here
<1>2. proc[p].kept \in Contents /\ proc[p].tx \in Ids
  BY <1>0 DEF Typed, WriteBackup, Here
<1>3. dirs' \in [Ids -> Directory]
  <2> DEFINE d == proc[p].tx
             y == [dirs[d] EXCEPT !.backup = proc[p].kept]
  <2>1. dirs[d] \in Directory BY <1>2 DEF TypeInv, TypeOK
  <2>2. y \in Directory BY <1>2, <2>1 DEF Directory
  <2>3. dirs' = [dirs EXCEPT ![d] = y] BY DEF WriteBackup
  <2> QED BY <1>2, <2>2, <2>3, DirectoryWritten DEF TypeInv
<1> QED BY <1>1, <1>3, GoTyped
        DEF WriteBackup, TypeInv, TypeOK, agents, budgets, locks

\* The record says so.
LEMMA PrepareTyped ==
  ASSUME TypeInv, NEW p \in Procs, Prepare(p)
  PROVE  TypeInv'
<1>0. proc[p] \in Process /\ Typed(proc[p]) BY DEF TypeInv, TypeOK
<1> DEFINE m == InState(p, PREPARED)
<1>1. m \in Record /\ proc[p].tx \in Ids
  BY <1>0 DEF Prepare, Here, Typed, InState, Record, States, PREPARED
<1>2. Typed([proc[p] EXCEPT !.mem = m, !.at = "project"])
  BY <1>0, <1>1 DEF Process, Typed, Prepare, Here
<1>3. SUFFICES ASSUME Save(p, m, "project") PROVE TypeInv'
  BY DEF Prepare, TypeInv, TypeOK, agents, budgets, locks
<1> QED BY <1>1, <1>2, <1>3, SaveTyped
        DEF Prepare, TypeInv, TypeOK, agents, budgets, locks

\* The account's credential goes into the role's home.
LEMMA ProjectTyped ==
  ASSUME TypeInv, NEW p \in Procs, Project(p)
  PROVE  TypeInv'
<1>0. proc[p] \in Process /\ Typed(proc[p]) BY DEF TypeInv, TypeOK
<1>1. Typed([proc[p] EXCEPT !.at = "confirm"])
  BY <1>0 DEF Process, Typed, Project, Here
<1>2. proc[p].lent \in Contents BY <1>0 DEF Typed, Project, Here, Contents
<1>3. auth' \in [Roles -> Contents] BY <1>2 DEF Project, TypeInv, TypeOK
<1> QED BY <1>1, <1>3, GoTyped
        DEF Project, TypeInv, TypeOK, agents, budgets, locks

\* The record says so.
LEMMA ConfirmTyped ==
  ASSUME TypeInv, NEW p \in Procs, Confirm(p)
  PROVE  TypeInv'
<1>0. proc[p] \in Process /\ Typed(proc[p]) BY DEF TypeInv, TypeOK
<1> DEFINE m == InState(p, PROJECTED)
<1>1. m \in Record /\ proc[p].tx \in Ids
  BY <1>0 DEF Confirm, Here, Typed, InState, Record, States, PROJECTED
<1>2. Typed([proc[p] EXCEPT !.mem = m, !.at = "launch"])
  BY <1>0, <1>1 DEF Process, Typed, Confirm, Here
<1>3. CASE Save(p, m, "launch")
  BY <1>1, <1>2, <1>3, SaveTyped
  DEF Confirm, TypeInv, TypeOK, agents, budgets, locks
<1>4. CASE Go(p, "undo") /\ UNCHANGED dirs
  <2>1. Typed([proc[p] EXCEPT !.at = "undo"])
    BY <1>0 DEF Process, Typed, Confirm, Here
  <2> QED BY <1>4, <2>1, GoTyped
          DEF Confirm, TypeInv, TypeOK, agents, budgets, locks
<1> QED BY <1>3, <1>4 DEF Confirm

\* An Agent starts.
LEMMA LaunchTyped ==
  ASSUME TypeInv, NEW p \in Procs, Launch(p)
  PROVE  TypeInv'
<1>0. proc[p] \in Process /\ Typed(proc[p]) BY DEF TypeInv, TypeOK
<1>1. Typed([proc[p] EXCEPT !.at = "note"])
  BY <1>0 DEF Process, Typed, Launch, Here
<1>2. live' \subseteq Ids BY <1>0 DEF Typed, Launch, Here, TypeInv, TypeOK
<1> QED BY <1>1, <1>2, GoTyped DEF Launch, TypeInv, TypeOK, budgets, locks

\* Its identity is recorded.
LEMMA NoteChildTyped ==
  ASSUME TypeInv, NEW p \in Procs, NoteChild(p)
  PROVE  TypeInv'
<1>0. proc[p] \in Process /\ Typed(proc[p]) BY DEF TypeInv, TypeOK
<1> DEFINE m == Identified(p)
<1>1. m \in Record /\ proc[p].tx \in Ids
  BY <1>0 DEF NoteChild, Here, Typed, Identified, Record, States
<1>2. Typed([proc[p] EXCEPT !.mem = m, !.at = "agent"])
  BY <1>0, <1>1 DEF Process, Typed, NoteChild, Here
<1> HIDE DEF m
<1>3. Save(p, m, "agent") BY DEF NoteChild, m
<1> QED BY <1>1, <1>2, <1>3, SaveTyped
        DEF NoteChild, TypeInv, TypeOK, agents, budgets, locks

\* So is its end.
LEMMA ChildStoppedTyped ==
  ASSUME TypeInv, NEW p \in Procs, ChildStopped(p)
  PROVE  TypeInv'
<1>0. proc[p] \in Process /\ Typed(proc[p]) BY DEF TypeInv, TypeOK
<1> DEFINE m == InState(p, CHILD_EXITED)
<1>1. m \in Record /\ proc[p].tx \in Ids
  BY <1>0 DEF ChildStopped, Here, Typed, InState, Record, States, CHILD_EXITED
<1>2. Typed([proc[p] EXCEPT !.mem = m, !.at = "close"])
  BY <1>0, <1>1 DEF Process, Typed, ChildStopped, Here
<1>3. SUFFICES ASSUME Save(p, m, "close") PROVE TypeInv'
  BY DEF ChildStopped, TypeInv, TypeOK, agents, budgets, locks
<1> QED BY <1>1, <1>2, <1>3, SaveTyped
        DEF ChildStopped, TypeInv, TypeOK, agents, budgets, locks

\* The child is gone.
LEMMA CloseTyped ==
  ASSUME TypeInv, NEW p \in Procs, Close(p)
  PROVE  TypeInv'
<1>0. proc[p] \in Process /\ Typed(proc[p]) BY DEF TypeInv, TypeOK
<1> DEFINE m == InState(p, CHILD_EXITED)
<1>1. m \in Record /\ proc[p].tx \in Ids
  BY <1>0 DEF Close, Here, Typed, InState, Record, States, CHILD_EXITED
<1>2. /\ Typed([proc[p] EXCEPT !.mem = m, !.at = "mark"])
      /\ Typed([proc[p] EXCEPT !.at = "mark"])
  BY <1>0, <1>1 DEF Process, Typed, Close, Here
<1>3. CASE Go(p, "mark") /\ UNCHANGED <<dirs, locks>>
  BY <1>2, <1>3, GoTyped DEF Close, TypeInv, TypeOK, agents, budgets, locks
<1>4. CASE Save(p, m, "mark") /\ UNCHANGED locks
  BY <1>1, <1>2, <1>4, SaveTyped
  DEF Close, TypeInv, TypeOK, agents, budgets, locks
<1>5. CASE Leave(p) /\ UNCHANGED dirs
  BY <1>5, LeaveTyped DEF Close, TypeInv, TypeOK, agents, budgets
<1> QED BY <1>3, <1>4, <1>5 DEF Close

\* The restoration is marked.
LEMMA MarkTyped ==
  ASSUME TypeInv, NEW p \in Procs, Mark(p)
  PROVE  TypeInv'
<1>0. proc[p] \in Process /\ Typed(proc[p]) BY DEF TypeInv, TypeOK
<1> DEFINE m == InState(p, RESTORING)
<1>1. m \in Record /\ proc[p].tx \in Ids
  BY <1>0 DEF Mark, Here, Typed, InState, Record, States, RESTORING
<1>2. Typed([proc[p] EXCEPT !.mem = m, !.at = "restore"])
  BY <1>0, <1>1 DEF Process, Typed, Mark, Here
<1>3. SUFFICES ASSUME Save(p, m, "restore") PROVE TypeInv'
  BY DEF Mark, TypeInv, TypeOK, agents, budgets, locks
<1> QED BY <1>1, <1>2, <1>3, SaveTyped
        DEF Mark, TypeInv, TypeOK, agents, budgets, locks

\* The role's own credential goes back.
LEMMA RestoreTyped ==
  ASSUME TypeInv, NEW p \in Procs, Restore(p)
  PROVE  TypeInv'
<1>0. proc[p] \in Process /\ Typed(proc[p]) BY DEF TypeInv, TypeOK
<1>1. Typed([proc[p] EXCEPT !.at = "seal"])
  BY <1>0 DEF Process, Typed, Restore, Here
<1>2. proc[p].kept \in Contents BY <1>0 DEF Typed, Restore, Here, Contents
<1>3. auth' \in [Roles -> Contents] BY <1>2 DEF Restore, TypeInv, TypeOK
<1> QED BY <1>1, <1>3, GoTyped
        DEF Restore, TypeInv, TypeOK, agents, budgets, locks

\* The restoration is sealed.
LEMMA SealTyped ==
  ASSUME TypeInv, NEW p \in Procs, Seal(p)
  PROVE  TypeInv'
<1>0. proc[p] \in Process /\ Typed(proc[p]) BY DEF TypeInv, TypeOK
<1> DEFINE m == InState(p, RESTORED)
<1>1. m \in Record /\ proc[p].tx \in Ids
  BY <1>0 DEF Seal, Here, Typed, InState, Record, States, RESTORED
<1>2. Typed([proc[p] EXCEPT !.mem = m, !.at = "remove"])
  BY <1>0, <1>1 DEF Process, Typed, Seal, Here
<1>3. CASE Save(p, m, "remove") /\ UNCHANGED locks
  BY <1>1, <1>2, <1>3, SaveTyped DEF Seal, TypeInv, TypeOK, agents, budgets, locks
<1>4. CASE Leave(p) /\ UNCHANGED dirs
  BY <1>4, LeaveTyped DEF Seal, TypeInv, TypeOK, agents, budgets
<1> QED BY <1>3, <1>4 DEF Seal

\* The role's own credential goes back after a failed setup.
LEMMA UndoTyped ==
  ASSUME TypeInv, NEW p \in Procs, Undo(p)
  PROVE  TypeInv'
<1>0. proc[p] \in Process /\ Typed(proc[p]) BY DEF TypeInv, TypeOK
<1>1. Typed([proc[p] EXCEPT !.at = "verify"])
  BY <1>0 DEF Process, Typed, Undo, Here
<1>2. proc[p].kept \in Contents BY <1>0 DEF Typed, Undo, Here, Contents
<1>3. auth' \in [Roles -> Contents] BY <1>2 DEF Undo, TypeInv, TypeOK
<1> QED BY <1>1, <1>3, GoTyped DEF Undo, TypeInv, TypeOK, agents, budgets, locks

\* It did.
LEMMA VerifyUndoTyped ==
  ASSUME TypeInv, NEW p \in Procs, VerifyUndo(p)
  PROVE  TypeInv'
<1>0. proc[p] \in Process /\ Typed(proc[p]) BY DEF TypeInv, TypeOK
<1>1. Typed([proc[p] EXCEPT !.at = "uRemove"])
  BY <1>0 DEF Process, Typed, VerifyUndo, Here
<1> QED BY <1>1, GoTyped, LeaveTyped
        DEF VerifyUndo, TypeInv, TypeOK, agents, budgets, locks

-----------------------------------------------------------------------------
(***************************************************************************)
(* Exceptions, kills and the environment.                                  *)
(***************************************************************************)

\* The Agent is killed, and the record in memory is written later.
LEMMA FaultKillsTyped ==
  ASSUME TypeInv, NEW p \in Procs, FaultKills(p)
  PROVE  proc' \in [Procs -> Process] /\ \A q \in Procs : Typed(proc'[q])
<1>0. proc[p] \in Process /\ Typed(proc[p]) BY DEF TypeInv, TypeOK
<1> DEFINE x(m) == [proc[p] EXCEPT !.at = "close", !.mem = m]
<1>1. {proc[p].mem, Identified(p), InState(p, CHILD_EXITED)} \subseteq Record
  BY <1>0
  DEF FaultKills, Here, Typed, InState, Identified, Record, States, CHILD_EXITED
<1>2. PICK m \in Record : proc' = [proc EXCEPT ![p] = x(m)]
  BY <1>1 DEF FaultKills
<1>3. x(m) \in Process /\ Typed(x(m)) BY <1>0 DEF Process, Typed, FaultKills, Here
<1> QED BY <1>2, <1>3, ProcessStep

\* An exception, wherever it is raised.
LEMMA FaultTyped ==
  ASSUME TypeInv, NEW p \in Procs, Fault(p)
  PROVE  TypeInv'
<1>0. proc[p] \in Process /\ Typed(proc[p]) BY DEF TypeInv, TypeOK
<1>1. CASE FaultLeaves(p)
  BY <1>1, LeaveTyped DEF FaultLeaves, Fault, TypeInv, TypeOK
<1>2. CASE FaultInSetup(p)
  <2>1. Typed([proc[p] EXCEPT !.at = "undo"])
    BY <1>0, <1>2 DEF Process, Typed, FaultInSetup, Here
  <2>2. proc' \in [Procs -> Process] /\ \A q \in Procs : Typed(proc'[q])
    BY <1>2, <2>1, GoTyped DEF FaultInSetup
  <2>3. dirs' \in [Ids -> Directory]
    <3>1. CASE UNCHANGED dirs BY <3>1 DEF TypeInv, TypeOK
    <3>2. CASE /\ Here(p) = "confirm"
               /\ dirs' = [dirs EXCEPT ![proc[p].tx].rec = InState(p, PROJECTED)]
      <4>1. InState(p, PROJECTED) \in Record /\ proc[p].tx \in Ids
        BY <1>0, <3>2 DEF Here, Typed, InState, Record, States, PROJECTED
      <4> QED BY <3>2, <4>1, RecordTyped
    <3> QED BY <1>2, <3>1, <3>2 DEF FaultInSetup
  <2> QED BY <1>2, <2>2, <2>3 DEF FaultInSetup, locks, Fault, TypeInv, TypeOK
<1>3. CASE FaultInLaunch(p)
  <2>1. Typed([proc[p] EXCEPT !.at = "close"])
    BY <1>0, <1>3 DEF Process, Typed, FaultInLaunch, Here
  <2>2. proc' \in [Procs -> Process] /\ \A q \in Procs : Typed(proc'[q])
    BY <1>3, <2>1, GoTyped DEF FaultInLaunch
  <2> QED BY <1>3, <2>2 DEF FaultInLaunch, locks, Fault, TypeInv, TypeOK
<1>4. CASE FaultKills(p)
  <2>1. live' \subseteq Ids /\ UNCHANGED <<lock, roleLock, dirs>>
    BY <1>4 DEF FaultKills, locks, TypeInv, TypeOK
  <2> QED BY <1>4, <2>1, FaultKillsTyped DEF Fault, TypeInv, TypeOK
<1>5. CASE FaultSpares(p)
  <2>1. Typed([proc[p] EXCEPT !.at = "close"])
    BY <1>0, <1>5 DEF Process, Typed, FaultSpares, Here
  <2>2. proc' \in [Procs -> Process] /\ \A q \in Procs : Typed(proc'[q])
    BY <1>5, <2>1, GoTyped DEF FaultSpares
  <2> QED BY <1>5, <2>2 DEF FaultSpares, locks, Fault, TypeInv, TypeOK
<1> QED BY <1>1, <1>2, <1>3, <1>4, <1>5 DEF Fault

\* A process is killed.
LEMMA CrashTyped ==
  ASSUME TypeInv, NEW p \in Procs, Crash(p)
  PROVE  TypeInv'
<1>1. Rested(None) \in Process /\ Typed(Rested(None)) BY RestedTyped
<1>2. proc' \in [Procs -> Process] /\ \A q \in Procs : Typed(proc'[q])
  BY <1>1, ProcessStep DEF Crash
<1>3. stray' \subseteq Ids BY DEF Crash, TypeInv, TypeOK, Here, Typed
<1>4. dirs' \in [Ids -> Directory]
  <2>1. CASE UNCHANGED dirs BY <2>1 DEF TypeInv, TypeOK
  <2>2. CASE /\ Here(p) = "backup"
             /\ dirs' = [dirs EXCEPT ![proc[p].tx].temp = TRUE]
    <3> DEFINE d == proc[p].tx
               y == [dirs[d] EXCEPT !.temp = TRUE]
    <3>1. d \in Ids BY <2>2 DEF TypeInv, TypeOK, Typed, Here
    <3>2. y \in Directory
      <4>1. dirs[d] \in Directory BY <3>1 DEF TypeInv, TypeOK
      <4> HIDE DEF d
      <4> QED BY <4>1 DEF Directory
    <3>3. dirs' = [dirs EXCEPT ![d] = y] BY <2>2
    <3> QED BY <3>1, <3>2, <3>3, DirectoryWritten DEF TypeInv
  <2> QED BY <2>1, <2>2 DEF Crash
<1> QED BY <1>2, <1>3, <1>4, UnlockTyped DEF Crash, TypeInv, TypeOK, agents

\* Agents, process ids and accounts change nothing but themselves.
LEMMA EnvironmentTyped ==
  ASSUME TypeInv, Environment
  PROVE  TypeInv'
<1> USE DEF TypeInv, TypeOK, agents, budgets, locks
<1>1. ASSUME NEW d \in Ids, AgentWrites(d) PROVE TypeInv'
  BY <1>1 DEF AgentWrites, Contents
<1>2. ASSUME NEW d \in Ids, AgentExits(d) PROVE TypeInv' BY <1>2 DEF AgentExits
<1>3. ASSUME NEW d \in Ids, PidReused(d) PROVE TypeInv' BY <1>3 DEF PidReused
<1>4. ASSUME NEW d \in Ids, PidFreed(d) PROVE TypeInv' BY <1>4 DEF PidFreed
<1>5. CASE AccountChanges BY <1>5 DEF AccountChanges
<1> QED BY <1>1, <1>2, <1>3, <1>4, <1>5 DEF Environment

-----------------------------------------------------------------------------
\* At the beginning all is typed.
LEMMA InitTyped == Init => TypeInv
<1> SUFFICES ASSUME Init PROVE TypeInv OBVIOUS
<1>1. Rested(None) \in Process /\ Typed(Rested(None)) BY RestedTyped
<1>2. NoDirectory \in Directory BY DEF NoDirectory, Directory
<1> QED BY <1>1, <1>2 DEF Init, TypeInv, TypeOK, Contents, Ids

\* Every step keeps it so.
LEMMA NextTyped == TypeInv /\ [Next]_vars => TypeInv'
<1> SUFFICES ASSUME TypeInv, [Next]_vars PROVE TypeInv' OBVIOUS
<1>1. CASE UNCHANGED vars
  BY <1>1 DEF vars, locks, agents, budgets, TypeInv, TypeOK
<1>2. CASE Environment BY <1>2, EnvironmentTyped
<1>3. ASSUME NEW p \in Procs, Acquire(p) \/ Fault(p) \/ Crash(p) PROVE TypeInv'
  BY <1>3, AcquireTyped, FaultTyped, CrashTyped
<1>4. ASSUME NEW p \in Procs, Recovers(p) PROVE TypeInv'
  BY <1>4, RecoverNextTyped, RecoverMarkTyped, RecoverRestoreTyped,
     RecoverSealTyped, RecoverDoneTyped, LookTyped DEF Recovers
<1>5. ASSUME NEW p \in Procs, SetsUp(p) PROVE TypeInv'
  BY <1>5, BeginTyped, MakeDirectoryTyped, WriteFirstRecordTyped,
     WriteBackupTyped, PrepareTyped, ProjectTyped, ConfirmTyped DEF SetsUp
<1>6. ASSUME NEW p \in Procs, Runs(p) PROVE TypeInv'
  BY <1>6, LaunchTyped, NoteChildTyped, ChildStoppedTyped DEF Runs
<1>7. ASSUME NEW p \in Procs, CleansUp(p) PROVE TypeInv'
  BY <1>7, CloseTyped, MarkTyped, RestoreTyped, SealTyped, UndoTyped,
     VerifyUndoTyped DEF CleansUp
<1> QED BY <1>1, <1>2, <1>3, <1>4, <1>5, <1>6, <1>7, RemoveTyped DEF Next, GoesOn

\* So it stays.
LEMMA TypeInvariant == Spec => []TypeInv
<1> QED BY InitTyped, NextTyped, PTL DEF Spec

\* The variables keep their types, for any processes, roles and accounts.
THEOREM TypeCorrect == Spec => []TypeOK
<1>1. TypeInv => TypeOK BY DEF TypeInv
<1> QED BY <1>1, TypeInvariant, PTL
=============================================================================
