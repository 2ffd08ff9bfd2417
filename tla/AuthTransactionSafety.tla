------------------------ MODULE AuthTransactionSafety ------------------------
(***************************************************************************)
(* A role's own credential is never lost, for any number of processes,     *)
(* roles, accounts, turns, kills and exceptions.                           *)
(*                                                                         *)
(* The argument.  A process beyond its first step holds the switch lock    *)
(* (LockOK), so one process at a time touches homes and directories, and a *)
(* turn begins only when no directory is left (PlaceOK at "begin"): there  *)
(* is never more than one directory (OneDirectory).  From its backup the   *)
(* original can be restored (Saved) before anything is projected           *)
(* (ProjectionSaved), and until the original is back (PlaceOK at the       *)
(* removal).  Only Agents write besides; one that was recorded keeps its   *)
(* directory saved (AgentsOK), because whoever recovers looks for it       *)
(* first.  What an Agent does that was never recorded is excepted          *)
(* (StrayIn).                                                              *)
(***************************************************************************)
EXTENDS AuthTransactionTypes

\* Between two transactions a process holds no lock.
Free == {"idle", "look"}
LockOK == \A p \in Procs : Here(p) \notin Free <=> lock = p

\* Directories and what is in them.
Settled == {RESTORED, RECOVERED}
Original(content, r) == content = Own \/ StrayIn(r)
DirOK(d) ==
  /\ ~dirs[d].there => dirs[d].rec = NoRecord /\ dirs[d].backup = None
  /\ dirs[d].there \/ d \in live \/ d \in stray => d <= used /\ home[d] \in Roles
  /\ dirs[d].rec # NoRecord => /\ dirs[d].rec.role = home[d]
                               /\ Original(dirs[d].rec.sha, home[d])
  /\ dirs[d].backup # None => Original(dirs[d].backup, home[d])
  /\ d \in stray => ~dirs[d].rec.child

OneDirectory == \A d, e \in Ids : dirs[d].there /\ dirs[e].there => d = e

\* A directory the original can be restored from.
Saved(d) == /\ dirs[d].there /\ dirs[d].rec # NoRecord /\ dirs[d].backup # None
            /\ dirs[d].rec.state \notin Settled
ProjectionSaved ==
  \A r \in Roles : auth[r] # Own =>
    StrayIn(r) \/ \E d \in Ids : Saved(d) /\ home[d] = r

\* An Agent that was recorded, or is about to be.
Known(d) == \/ dirs[d].rec.child
            \/ \E p \in Procs : Here(p) = "note" /\ proc[p].tx = d
AgentsOK == \A d \in live \ stray : Saved(d) /\ Known(d) /\ auth[home[d]] # Own

\* What holds where a process is.
RestoredIn(d) == Original(auth[home[d]], home[d])
PlaceOK(p) ==
  LET x == proc[p]
      d == x.tx
  IN /\ x.at \in {"begin", "mkdir"} => NothingLeft
     /\ x.at = "mkdir" => Original(x.kept, x.role)
     /\ x.at \in {"mkdir"} \cup Setup \cup {"launch"} => x.lent = x.bound
     /\ x.at \in InTurn \cup Holding => dirs[d].there
     /\ x.at \in InTurn =>
          /\ home[d] = x.role /\ d \notin stray
          /\ x.mem.role = x.role /\ x.mem.sha = x.kept
          /\ Original(x.kept, x.role)
     /\ x.at \in Setup \cup {"launch", "note"} =>
          ~x.mem.child /\ ~dirs[d].rec.child
     /\ x.at \in {"init", "backup", "prepare", "project", "confirm", "launch",
                  "note", "agent", "close", "mark", "restore", "seal"}
          => x.mem.state \notin Settled
     /\ x.at \in {"backup", "prepare"} =>
          dirs[d].rec # NoRecord /\ dirs[d].rec.state \notin Settled
     /\ x.at = "prepare" => dirs[d].backup # None
     /\ x.at \in {"project", "confirm"} \cup Body \cup (Cleanup \ {"remove"})
          => Saved(d)
     /\ x.at = "agent" => x.mem.state = CHILD_RUNNING
     /\ x.at \in {"confirm", "launch"} => stray # {} \/ auth[x.role] = x.lent
     /\ x.at \in {"confirm", "launch", "note", "agent"} => auth[x.role] # Own
     /\ x.at \in InTurn \ {"note", "agent", "close"} => d \notin live
     /\ x.at = "close" => d \notin live \/ x.mem.state = CHILD_RUNNING
     /\ x.at \in {"remove", "uRemove", "rRemove"} => RestoredIn(d)
     /\ x.at \in Holding => d \notin live \ stray
     /\ x.at \in Reading =>
          /\ Saved(d)
          /\ x.mem.role = home[d] /\ x.mem.child = dirs[d].rec.child
          /\ x.mem.sha = x.kept /\ Original(x.kept, home[d])

\* Files, homes and Agents.
DataOK == /\ \A d \in Ids : DirOK(d)
          /\ OneDirectory /\ ProjectionSaved /\ AgentsOK

SafetyInv == /\ TypeInv /\ LockOK /\ DataOK
             /\ \A p \in Procs : PlaceOK(p)

USE AuthAssumption
USE DEF Places, InTurn, Setup, Body, Cleanup, Undoing, Recovery, Holding,
        Reading, Free

-----------------------------------------------------------------------------
(***************************************************************************)
(* Locks and places.                                                       *)
(***************************************************************************)

\* While one process holds the lock all others are at rest.
LEMMA Alone ==
  ASSUME LockOK, NEW p \in Procs, Here(p) \notin Free
  PROVE  lock = p /\ \A q \in Procs : q # p => Here(q) \in Free
BY DEF LockOK

\* The holder goes on.
LEMMA Goes ==
  ASSUME SafetyInv, NEW p \in Procs, Here(p) \notin Free, NEW x,
         proc' = [proc EXCEPT ![p] = x], x.at \notin Free, lock' = lock,
         PlaceOK(p)'
  PROVE  LockOK' /\ \A q \in Procs : PlaceOK(q)'
<1>1. proc'[p] = x /\ \A q \in Procs : q # p => proc'[q] = proc[q]
  BY DEF SafetyInv, TypeInv, TypeOK
<1>2. LockOK' BY <1>1, Alone DEF SafetyInv, LockOK, Here
<1>3. ASSUME NEW q \in Procs, q # p PROVE PlaceOK(q)'
  <2>1. Here(q)' \in Free BY <1>1, <1>3, Alone DEF SafetyInv, Here
  <2> QED BY <2>1 DEF PlaceOK, Here
<1> QED BY <1>2, <1>3

\* The holder leaves.
LEMMA Leaves ==
  ASSUME SafetyInv, NEW p \in Procs, Here(p) \notin Free, NEW x,
         proc' = [proc EXCEPT ![p] = x], x.at \in Free, Unlock(p)
  PROVE  LockOK' /\ \A q \in Procs : PlaceOK(q)'
<1>1. proc'[p] = x /\ \A q \in Procs : q # p => proc'[q] = proc[q]
  BY DEF SafetyInv, TypeInv, TypeOK
<1>2. \A q \in Procs : Here(q)' \in Free BY <1>1, Alone DEF SafetyInv, Here
<1>3. lock' = None BY Alone DEF SafetyInv, Unlock
<1>4. LockOK' BY <1>2, <1>3 DEF LockOK
<1>5. ASSUME NEW q \in Procs PROVE PlaceOK(q)'
  BY <1>2, <1>5 DEF PlaceOK, Here
<1> QED BY <1>4, <1>5

-----------------------------------------------------------------------------
(***************************************************************************)
(* Files, homes and Agents.                                                *)
(***************************************************************************)
strays == <<home, stray>>

\* Who was never recorded depends on nothing else.
LEMMA SameStrays ==
  ASSUME UNCHANGED strays
  PROVE  \A r : StrayIn(r)' <=> StrayIn(r)
BY DEF strays, StrayIn

\* An Agent about to be recorded stays so while its process stays there.
NoterStays == \A q \in Procs : Here(q) = "note" =>
                proc'[q].at = "note" /\ proc'[q].tx = proc[q].tx

\* Nothing on disk changes, Agents may end.
LEMMA DataStays ==
  ASSUME TypeInv, DataOK, UNCHANGED <<auth, dirs, used, strays>>,
         live' \subseteq live,
         \A q \in Procs : Here(q) = "note" /\ proc[q].tx \in live' \ stray =>
           proc'[q].at = "note" /\ proc'[q].tx = proc[q].tx
  PROVE  DataOK'
<1>1. \A r : StrayIn(r)' <=> StrayIn(r) BY SameStrays
<1>2. \A d \in Ids : DirOK(d)'
  BY <1>1 DEF DataOK, DirOK, Original, strays
<1>3. OneDirectory' BY DEF DataOK, OneDirectory
<1>4. ProjectionSaved' BY <1>1 DEF DataOK, ProjectionSaved, Saved, strays
<1>5. AgentsOK'
  <2> SUFFICES ASSUME NEW d \in live' \ stray'
               PROVE  Saved(d)' /\ Known(d)' /\ (auth[home[d]] # Own)'
    BY DEF AgentsOK
  <2>1. d \in live \ stray BY DEF strays
  <2>2. Saved(d) /\ Known(d) /\ auth[home[d]] # Own BY <2>1 DEF DataOK, AgentsOK
  <2>3. Saved(d)' /\ (auth[home[d]] # Own)' BY <2>2 DEF Saved, strays
  <2>4. Known(d)' BY <2>2 DEF Known, Here, strays
  <2> QED BY <2>3, <2>4
<1> QED BY <1>2, <1>3, <1>4, <1>5 DEF DataOK

\* A credential is written into one role's home.
LEMMA AuthWritten ==
  ASSUME TypeInv, DataOK, NEW r \in Roles, NEW v \in Contents,
         auth' = [auth EXCEPT ![r] = v],
         UNCHANGED <<dirs, used, live, strays>>, NoterStays,
         Original(v, r) \/ \E d \in Ids : Saved(d) /\ home[d] = r,
         \A d \in live \ stray : home[d] = r => v # Own
  PROVE  DataOK'
<1>1. \A q : StrayIn(q)' <=> StrayIn(q) BY SameStrays
<1>2. \A d \in Ids : DirOK(d)'
  BY <1>1 DEF DataOK, DirOK, Original, strays
<1>3. OneDirectory' BY DEF DataOK, OneDirectory
<1>4. ProjectionSaved'
  <2>1. \A d \in Ids : Saved(d)' <=> Saved(d) BY DEF Saved
  <2>2. \A q \in Roles : auth'[q] = IF q = r THEN v ELSE auth[q]
    BY DEF TypeInv, TypeOK
  <2> QED BY <1>1, <2>1, <2>2 DEF DataOK, ProjectionSaved, Original, strays
<1>5. AgentsOK'
  <2> SUFFICES ASSUME NEW d \in live \ stray
               PROVE  Saved(d)' /\ Known(d)' /\ (auth[home[d]] # Own)'
    BY DEF AgentsOK, strays
  <2>1. Saved(d) /\ Known(d) /\ auth[home[d]] # Own BY DEF DataOK, AgentsOK
  <2>2. Saved(d)' BY <2>1 DEF Saved
  <2>3. Known(d)' BY <2>1 DEF Known, Here, NoterStays
  <2>4. home[d] \in Roles BY DEF DataOK, DirOK, TypeInv, TypeOK
  <2>5. (auth[home[d]] # Own)' BY <2>1, <2>4 DEF TypeInv, TypeOK, strays
  <2> QED BY <2>2, <2>3, <2>5
<1> QED BY <1>2, <1>3, <1>4, <1>5 DEF DataOK

\* An Agent of a turn that is the only one in a home is in the one directory.
LEMMA AgentIn ==
  ASSUME DataOK, NEW d \in Ids, dirs[d].there, TypeInv
  PROVE  live \ stray \subseteq {d}
BY DEF DataOK, AgentsOK, Saved, OneDirectory, TypeInv, TypeOK

\* A record is written, about what can be restored or what has been.
LEMMA RecordWritten ==
  ASSUME TypeInv, DataOK, NEW d \in Ids, dirs[d].there, NEW m \in Record,
         dirs' = [dirs EXCEPT ![d].rec = m],
         UNCHANGED <<auth, used, live, strays>>,
         m.role = home[d], Original(m.sha, home[d]),
         d \in stray => ~m.child,
         m.state \in Settled => RestoredIn(d),
         d \in live \ stray => m.child /\ m.state \notin Settled
  PROVE  DataOK'
<1>0. \A r : StrayIn(r)' <=> StrayIn(r) BY SameStrays
<1>1. /\ dirs'[d] = [dirs[d] EXCEPT !.rec = m]
      /\ \A e \in Ids : e # d => dirs'[e] = dirs[e]
  BY DEF TypeInv, TypeOK
<1>2. dirs[d] \in Directory BY DEF TypeInv, TypeOK
<1>3. dirs'[d].rec = m /\ dirs'[d].there /\ dirs'[d].backup = dirs[d].backup
  BY <1>1, <1>2 DEF Directory
<1>4. \A e \in Ids : DirOK(e)'
  <2>1. DirOK(d)' BY <1>0, <1>3 DEF DataOK, DirOK, Original, strays
  <2>2. ASSUME NEW e \in Ids, e # d PROVE DirOK(e)'
    BY <1>0, <1>1, <2>2 DEF DataOK, DirOK, Original, strays
  <2> QED BY <2>1, <2>2
<1>5. OneDirectory'
  <2>1. \A e \in Ids : dirs'[e].there => dirs[e].there BY <1>1
  <2> QED BY <2>1 DEF DataOK, OneDirectory
<1>6. m # NoRecord BY NoRecordIsNone
<1>7. ProjectionSaved'
  <2> SUFFICES ASSUME NEW r \in Roles, auth[r] # Own, ~StrayIn(r)
               PROVE  \E e \in Ids : Saved(e)' /\ home[e] = r
    BY <1>0 DEF ProjectionSaved, strays
  <2>1. PICK e \in Ids : Saved(e) /\ home[e] = r BY DEF DataOK, ProjectionSaved
  <2>2. e = d BY <2>1 DEF Saved, DataOK, OneDirectory
  <2>3. m.state \notin Settled BY <2>1, <2>2 DEF RestoredIn, Original
  <2> QED BY <1>3, <1>6, <2>1, <2>2, <2>3 DEF Saved
<1>8. AgentsOK'
  <2> SUFFICES ASSUME NEW e \in live \ stray
               PROVE  Saved(e)' /\ Known(e)' /\ (auth[home[e]] # Own)'
    BY DEF AgentsOK, strays
  <2>1. e = d BY AgentIn
  <2>2. Saved(d) /\ auth[home[d]] # Own BY <2>1 DEF DataOK, AgentsOK
  <2>3. Saved(d)' BY <1>3, <1>6, <2>1, <2>2 DEF Saved
  <2>4. Known(d)' BY <1>3, <2>1 DEF Known
  <2> QED BY <2>1, <2>2, <2>3, <2>4 DEF strays
<1> QED BY <1>4, <1>5, <1>7, <1>8 DEF DataOK

\* A file of the one directory goes, or the directory: nothing is lost when
\* the original is back, or when there was nothing to restore from.
LEMMA FileRemoved ==
  ASSUME TypeInv, DataOK, NEW d \in Ids, NEW y \in Directory,
         dirs[d].there, d \notin live \ stray,
         dirs' = [dirs EXCEPT ![d] = y],
         y.rec \in {dirs[d].rec, NoRecord}, y.backup \in {dirs[d].backup, None},
         y.there \/ y = NoDirectory,
         UNCHANGED <<auth, used, live, strays>>,
         RestoredIn(d) \/ ~Saved(d)
  PROVE  DataOK'
<1>0. \A r : StrayIn(r)' <=> StrayIn(r) BY SameStrays
<1>1. dirs'[d] = y /\ \A e \in Ids : e # d => dirs'[e] = dirs[e]
  BY DEF TypeInv, TypeOK
<1>4. \A e \in Ids : DirOK(e)'
  <2>1. DirOK(d)'
    <3>1. DirOK(d) BY DEF DataOK
    <3>2. ~NoRecord.child BY DEF NoRecord
    <3>3. y = NoDirectory => y.rec = NoRecord /\ y.backup = None
      BY DEF NoDirectory
    <3>4. y.rec = dirs[d].rec \/ y.rec = NoRecord OBVIOUS
    <3>5. y.backup = dirs[d].backup \/ y.backup = None OBVIOUS
    <3>6. (d \in stray => ~dirs[d].rec.child)'
      BY <1>1, <3>1, <3>2, <3>4 DEF DirOK, strays
    <3>7. (dirs[d].rec # NoRecord => /\ dirs[d].rec.role = home[d]
                                    /\ Original(dirs[d].rec.sha, home[d]))'
      BY <1>0, <1>1, <3>1, <3>4 DEF DirOK, Original, strays
    <3>8. (dirs[d].backup # None => Original(dirs[d].backup, home[d]))'
      BY <1>0, <1>1, <3>1, <3>5 DEF DirOK, Original, strays
    <3>9. (~dirs[d].there => dirs[d].rec = NoRecord /\ dirs[d].backup = None)'
      BY <1>1, <3>3
    <3>10. (dirs[d].there \/ d \in live \/ d \in stray
              => d <= used /\ home[d] \in Roles)'
      BY <3>1 DEF DirOK, strays
    <3> QED BY <3>6, <3>7, <3>8, <3>9, <3>10 DEF DirOK
  <2>2. ASSUME NEW e \in Ids, e # d PROVE DirOK(e)'
    BY <1>0, <1>1, <2>2 DEF DataOK, DirOK, Original, strays
  <2> QED BY <2>1, <2>2
<1>5. OneDirectory'
  <2>1. \A e \in Ids : dirs'[e].there => dirs[e].there BY <1>1
  <2> QED BY <2>1 DEF DataOK, OneDirectory
<1>7. ProjectionSaved'
  <2> SUFFICES ASSUME NEW r \in Roles, auth[r] # Own, ~StrayIn(r) PROVE FALSE
    BY <1>0 DEF ProjectionSaved, strays
  <2>1. PICK e \in Ids : Saved(e) /\ home[e] = r BY DEF DataOK, ProjectionSaved
  <2>2. e = d BY <2>1 DEF Saved, DataOK, OneDirectory
  <2> QED BY <2>1, <2>2 DEF RestoredIn, Original
<1>8. AgentsOK'
  BY AgentIn DEF AgentsOK, strays
<1> QED BY <1>4, <1>5, <1>7, <1>8 DEF DataOK

\* A temporary file beside the backup loses nothing.
LEMMA TempLeft ==
  ASSUME TypeInv, DataOK, NEW d \in Ids, dirs' = [dirs EXCEPT ![d].temp = TRUE],
         UNCHANGED <<auth, used, live, strays>>, live \ stray = {}
  PROVE  DataOK'
<1>0. \A r : StrayIn(r)' <=> StrayIn(r) BY SameStrays
<1>1. \A e \in Ids : /\ dirs'[e].there = dirs[e].there
                      /\ dirs'[e].rec = dirs[e].rec
                      /\ dirs'[e].backup = dirs[e].backup
  BY DEF TypeInv, TypeOK, Directory
<1>2. \A e \in Ids : DirOK(e)'
  BY <1>0, <1>1 DEF DataOK, DirOK, Original, strays
<1>3. OneDirectory' BY <1>1 DEF DataOK, OneDirectory
<1>4. ProjectionSaved'
  BY <1>0, <1>1 DEF DataOK, ProjectionSaved, Saved, strays
<1>5. AgentsOK' BY DEF AgentsOK, strays
<1> QED BY <1>2, <1>3, <1>4, <1>5 DEF DataOK

-----------------------------------------------------------------------------
StepOK == LockOK /\ DataOK /\ \A p \in Procs : PlaceOK(p)

\* What is known where a process is.
LEMMA InTurnFacts ==
  ASSUME SafetyInv, NEW p \in Procs, Here(p) \in InTurn
  PROVE  /\ proc[p].tx \in Ids /\ dirs[proc[p].tx].there
         /\ dirs[proc[p].tx] \in Directory
         /\ proc[p].role \in Roles /\ home[proc[p].tx] = proc[p].role
         /\ proc[p].tx \notin stray
         /\ proc[p].mem \in Record /\ proc[p].mem.role = proc[p].role
         /\ proc[p].mem.sha = proc[p].kept
         /\ proc[p].kept \in Contents /\ Original(proc[p].kept, proc[p].role)
         /\ proc[p].lent \in Accounts
<1>1. Typed(proc[p]) /\ PlaceOK(p) /\ TypeOK BY DEF SafetyInv, TypeInv
<1>2. proc[p].tx \in Ids BY <1>1 DEF Typed, Here
<1> QED BY <1>1, <1>2 DEF Typed, PlaceOK, TypeOK, Here

\* The same for a process that recovers a directory it has read.
LEMMA ReadingFacts ==
  ASSUME SafetyInv, NEW p \in Procs, Here(p) \in Reading
  PROVE  /\ proc[p].tx \in Ids /\ dirs[proc[p].tx].there
         /\ dirs[proc[p].tx] \in Directory
         /\ proc[p].tx \notin live \ stray
         /\ Saved(proc[p].tx)
         /\ proc[p].mem \in Record /\ proc[p].mem.role = home[proc[p].tx]
         /\ proc[p].mem.child = dirs[proc[p].tx].rec.child
         /\ proc[p].mem.sha = proc[p].kept
         /\ proc[p].kept \in Contents /\ Original(proc[p].kept, home[proc[p].tx])
         /\ home[proc[p].tx] \in Roles
<1>1. Typed(proc[p]) /\ PlaceOK(p) /\ TypeOK BY DEF SafetyInv, TypeInv
<1>2. proc[p].tx \in Ids BY <1>1 DEF Typed, Here
<1>3. DirOK(proc[p].tx) BY <1>2 DEF SafetyInv, DataOK
<1> QED BY <1>1, <1>2, <1>3 DEF Typed, PlaceOK, TypeOK, Here, DirOK

-----------------------------------------------------------------------------
(***************************************************************************)
(* Recovery.                                                               *)
(***************************************************************************)

\* A process that takes the lock finds nobody else.
LEMMA AcquireSafe ==
  ASSUME SafetyInv, NEW p \in Procs, Acquire(p)
  PROVE  StepOK'
<1>1. \A q \in Procs : Here(q) \in Free
  BY DEF Acquire, SafetyInv, LockOK
<1>2. /\ proc'[p].at = "recover" /\ \A q \in Procs : q # p => proc'[q] = proc[q]
      /\ lock' = p
  <2>1. PICK x : proc' = [proc EXCEPT ![p] = x] /\ x.at = "recover"
    <3>1. proc[p] \in Process BY DEF SafetyInv, TypeInv, TypeOK
    <3> DEFINE i == [proc[p] EXCEPT !.at = "recover", !.job = "inspect"]
               t(r) == [proc[p] EXCEPT !.at = "recover", !.job = "turn", !.role = r]
    <3>2. i.at = "recover" /\ \A r \in Roles : t(r).at = "recover"
      BY <3>1 DEF Process
    <3>3. \/ proc' = [proc EXCEPT ![p] = i]
          \/ \E r \in Roles : proc' = [proc EXCEPT ![p] = t(r)]
      BY DEF Acquire
    <3> QED BY <3>2, <3>3
  <2> QED BY <2>1 DEF Acquire, SafetyInv, TypeInv, TypeOK
<1>3. LockOK' BY <1>1, <1>2 DEF LockOK, Here
<1>4. DataOK'
  BY <1>1, DataStays DEF Acquire, SafetyInv, agents, strays, Here
<1>5. ASSUME NEW q \in Procs PROVE PlaceOK(q)'
  <2>1. Here(q)' \in Free \cup {"recover"} BY <1>1, <1>2 DEF Here
  <2> QED BY <2>1 DEF PlaceOK, Here
<1> QED BY <1>3, <1>4, <1>5 DEF StepOK

\* The original of a completed transaction is back.
LEMMA TakeCompletedSafe ==
  ASSUME SafetyInv, NEW p \in Procs, NEW d \in Ids, TakeCompleted(p, d),
         Here(p) = "recover", dirs[d].there,
         UNCHANGED <<auth, active, used, agents, stray, budgets>>
  PROVE  StepOK'
<1> DEFINE x == [proc[p] EXCEPT !.at = "rRemove", !.tx = d]
<1>1. proc' = [proc EXCEPT ![p] = x] /\ lock' = lock BY DEF TakeCompleted
<1>2. proc'[p] = x /\ x.at = "rRemove" /\ x.tx = d
  BY <1>1 DEF SafetyInv, TypeInv, TypeOK, Process
<1>3. DirOK(d) /\ AgentsOK BY DEF SafetyInv, DataOK
<1>4. RestoredIn(d)
  BY <1>3
  DEF TakeCompleted, Completed, Examines, Unchanged, DirOK, RestoredIn, Original
<1>5. d \notin live \ stray
  <2> SUFFICES ASSUME d \in live \ stray PROVE FALSE OBVIOUS
  <2>1. Known(d) BY <1>3 DEF AgentsOK
  <2>2. \A q \in Procs : Here(q) # "note"
    BY Alone DEF SafetyInv
  <2> QED BY <2>1, <2>2
          DEF Known, TakeCompleted, Completed, Examines, ChildInTheWay
<1>6. PlaceOK(p)'
  BY <1>2, <1>4, <1>5, SameStrays
  DEF PlaceOK, RestoredIn, Original, strays, agents,
     TakeCompleted
<1>7. LockOK' /\ \A q \in Procs : PlaceOK(q)' BY <1>1, <1>2, <1>6, Goes
<1>8. DataOK'
  BY <1>1, <1>2, DataStays, Alone
  DEF SafetyInv, strays, agents, TakeCompleted, Here
<1> QED BY <1>7, <1>8 DEF StepOK

\* A transaction is restored from the backup it has, when its Agent is gone.
LEMMA TakeRestorableSafe ==
  ASSUME SafetyInv, NEW p \in Procs, NEW d \in Ids, TakeRestorable(p, d),
         Here(p) = "recover", dirs[d].there,
         UNCHANGED <<auth, active, used, agents, stray, budgets>>
  PROVE  StepOK'
<1> DEFINE x == [proc[p] EXCEPT !.at = "rMark", !.tx = d, !.mem = dirs[d].rec,
                                !.kept = dirs[d].backup]
<1>1. proc' = [proc EXCEPT ![p] = x] /\ UNCHANGED <<lock, dirs>>
  BY DEF TakeRestorable
<1>2. proc'[p] = x /\ x.at = "rMark" /\ x.tx = d /\ x.mem = dirs[d].rec
      /\ x.kept = dirs[d].backup
  BY <1>1 DEF SafetyInv, TypeInv, TypeOK, Process
<1>3. DirOK(d) /\ AgentsOK BY DEF SafetyInv, DataOK
<1>4. /\ dirs[d].rec # NoRecord /\ dirs[d].backup = dirs[d].rec.sha
      /\ dirs[d].rec.state \notin Settled /\ ~ChildInTheWay(d)
  BY DEF TakeRestorable, Restorable, Examines, Settled
<1>5. dirs[d].backup # None /\ dirs[d].rec \in Record
  BY <1>4, NoRecordIsNone
  DEF SafetyInv, TypeInv, TypeOK, Directory, Record, Contents
<1>6. Saved(d) BY <1>4, <1>5 DEF Saved
<1>7. d \notin live \ stray
  <2> SUFFICES ASSUME d \in live \ stray PROVE FALSE OBVIOUS
  <2>1. Known(d) BY <1>3 DEF AgentsOK
  <2>2. \A q \in Procs : Here(q) # "note"
    BY Alone DEF SafetyInv
  <2> QED BY <1>4, <2>1, <2>2 DEF Known, ChildInTheWay
<1>9. dirs[d].rec.role = home[d] /\ Original(dirs[d].backup, home[d])
  BY <1>3, <1>4, <1>5 DEF DirOK
<1>10. PlaceOK(p)'
  <2>1. (d \in live \ stray <=> (d \in live \ stray)') /\ UNCHANGED strays
    BY DEF agents, strays
  <2>2. Original(dirs[d].backup, home[d])'
    BY <1>1, <1>9, <2>1, SameStrays DEF Original, strays
  <2>3. Here(p)' = "rMark" /\ proc'[p] = x BY <1>2 DEF Here
  <2> HIDE DEF x
  <2> QED BY <1>1, <1>2, <1>4, <1>6, <1>7, <1>9, <2>1, <2>2, <2>3
          DEF PlaceOK, Saved, strays
<1>11. LockOK' /\ \A q \in Procs : PlaceOK(q)' BY <1>1, <1>2, <1>10, Goes
<1>12. DataOK'
  BY <1>1, <1>2, DataStays, Alone DEF SafetyInv, strays, agents, Here
<1> QED BY <1>11, <1>12 DEF StepOK

\* A process leaves everything as it is; the Agent it was about to record must
\* not be there.
LEMMA LeaveSafe ==
  ASSUME SafetyInv, NEW p \in Procs, Here(p) \notin Free, Leave(p),
         UNCHANGED <<auth, dirs, used, strays>>, live' \subseteq live,
         Here(p) # "note"
  PROVE  StepOK'
<1> DEFINE x == Rested(proc[p].bound)
<1>1. proc' = [proc EXCEPT ![p] = x] /\ Unlock(p) /\ x.at = "idle"
  BY DEF Leave, Rested, SafetyInv, TypeInv, TypeOK
<1>2. \A q \in Procs : q # p => Here(q) \in Free BY Alone DEF SafetyInv
<1>3. DataOK' BY <1>2, DataStays DEF SafetyInv
<1>4. LockOK' /\ \A q \in Procs : PlaceOK(q)' BY <1>1, Leaves
<1> QED BY <1>3, <1>4 DEF StepOK

\* What recovery finds out about a directory.
LEMMA RecoverNextSafe ==
  ASSUME SafetyInv, NEW p \in Procs, RecoverNext(p)
  PROVE  StepOK'
<1> PICK d \in Ids : /\ dirs[d].there
                     /\ \/ DropUnmarked(p, d) \/ TakeCompleted(p, d)
                        \/ TakeRestorable(p, d) \/ RefuseDirectory(p, d)
  BY DEF RecoverNext
<1>1. Here(p) = "recover"
      /\ UNCHANGED <<auth, active, used, agents, stray, budgets>>
  BY DEF RecoverNext
<1>2. UNCHANGED <<auth, used, live, strays>> BY <1>1 DEF strays, agents
<1>3. CASE DropUnmarked(p, d)
  <2>1. d \notin live \ stray /\ ~Saved(d)
    BY <1>3 DEF SafetyInv, DataOK, AgentsOK, DropUnmarked, Unmarked, Saved
  <2>2. NoDirectory \in Directory /\ NoDirectory.rec = NoRecord
        /\ NoDirectory.backup = None
    BY DEF NoDirectory, Directory
  <2>3. DataOK' BY <1>2, <1>3, <2>1, <2>2, FileRemoved DEF DropUnmarked, SafetyInv
  <2>4. proc' = [proc EXCEPT ![p] = proc[p]] /\ lock' = lock
    BY <1>3 DEF DropUnmarked, locks, SafetyInv, TypeInv, TypeOK
  <2>5. PlaceOK(p)' BY <1>1, <1>3 DEF PlaceOK, Here, DropUnmarked
  <2> QED BY <1>1, <2>3, <2>4, <2>5, Goes DEF StepOK, Here
<1>4. CASE TakeCompleted(p, d) BY <1>1, <1>4, TakeCompletedSafe
<1>5. CASE TakeRestorable(p, d) BY <1>1, <1>5, TakeRestorableSafe
<1>6. CASE RefuseDirectory(p, d)
  BY <1>1, <1>2, <1>6, LeaveSafe DEF RefuseDirectory
<1> QED BY <1>3, <1>4, <1>5, <1>6

\* Recovery marks what it restores.
LEMMA RecoverMarkSafe ==
  ASSUME SafetyInv, NEW p \in Procs, RecoverMark(p)
  PROVE  StepOK'
<1> DEFINE d == proc[p].tx
           m == InState(p, RESTORING)
           x == [proc[p] EXCEPT !.mem = m, !.at = "rRestore"]
<1>1. Here(p) = "rMark" /\ Save(p, m, "rRestore")
      /\ UNCHANGED <<auth, active, used, locks, agents, stray, budgets>>
  BY DEF RecoverMark
<1>2. Here(p) \in Reading BY <1>1
<1>3. m \in Record /\ m.role = home[d] /\ m.child = dirs[d].rec.child
      /\ m.sha = proc[p].kept /\ m.state = RESTORING
  BY <1>2, ReadingFacts DEF InState, Record, States
<1>4. proc' = [proc EXCEPT ![p] = x] /\ dirs' = [dirs EXCEPT ![d].rec = m]
  BY <1>1 DEF Save
<1>5. m.state \notin Settled BY <1>3 DEF Settled, RESTORING, RESTORED, RECOVERED
<1> HIDE DEF m
<1>6. proc'[p] = x /\ x.at = "rRestore" /\ x.tx = d /\ x.mem = m
      /\ x.kept = proc[p].kept
  BY <1>4 DEF SafetyInv, TypeInv, TypeOK, Process
<1>7. dirs'[d].rec = m /\ dirs'[d].there /\ dirs'[d].backup = dirs[d].backup
  BY <1>2, <1>4, ReadingFacts DEF SafetyInv, TypeInv, TypeOK, Directory
<1>8. d \in stray => ~m.child
  BY <1>2, <1>3, ReadingFacts DEF SafetyInv, DataOK, DirOK
<1>9. UNCHANGED <<auth, used, live, strays>> BY <1>1 DEF agents, strays
<1>10. DataOK'
  BY <1>2, <1>3, <1>4, <1>5, <1>8, <1>9, ReadingFacts, RecordWritten DEF SafetyInv
<1>11. PlaceOK(p)'
  <2>1. m # NoRecord BY <1>3, NoRecordIsNone
  <2>2. Saved(d)' BY <1>2, <1>5, <1>6, <1>7, <2>1, ReadingFacts DEF Saved
  <2> QED BY <1>2, <1>3, <1>6, <1>7, <1>9, <2>2, ReadingFacts, SameStrays
          DEF PlaceOK, Original, strays, Saved
<1> QED BY <1>1, <1>4, <1>6, <1>10, <1>11, Goes DEF StepOK, locks

\* The original goes back.
LEMMA RecoverRestoreSafe ==
  ASSUME SafetyInv, NEW p \in Procs, RecoverRestore(p)
  PROVE  StepOK'
<1> DEFINE d == proc[p].tx
           r == proc[p].mem.role
           x == [proc[p] EXCEPT !.at = "rSeal"]
<1>1. Here(p) = "rRestore"
      /\ UNCHANGED <<active, dirs, used, locks, agents, stray, budgets>>
  BY DEF RecoverRestore
<1>2. Here(p) \in Reading BY <1>1
<1>3. proc' = [proc EXCEPT ![p] = x] /\ auth' = [auth EXCEPT ![r] = proc[p].kept]
  BY DEF RecoverRestore, Go
<1>4. proc'[p] = x /\ x.at = "rSeal" /\ x.tx = d /\ x.mem = proc[p].mem
      /\ x.kept = proc[p].kept
  BY <1>3 DEF SafetyInv, TypeInv, TypeOK, Process
<1> HIDE DEF x
<1>5. r = home[d] /\ r \in Roles BY <1>2, ReadingFacts
<1>6. UNCHANGED <<dirs, used, live, strays>> /\ lock' = lock
  BY <1>1 DEF agents, strays, locks
<1>7. live \ stray = {} BY <1>2, ReadingFacts, AgentIn DEF SafetyInv
<1>8. NoterStays BY <1>1, <1>3, Alone DEF NoterStays, SafetyInv, Here
<1>9. DataOK'
  BY <1>2, <1>3, <1>5, <1>6, <1>7, <1>8, ReadingFacts, AuthWritten DEF SafetyInv
<1>10. PlaceOK(p)'
  BY <1>2, <1>4, <1>6, <1>7, ReadingFacts, SameStrays
  DEF PlaceOK, Original, strays, Saved
<1> QED BY <1>1, <1>3, <1>4, <1>6, <1>9, <1>10, Goes DEF StepOK

\* The record says that it is back.
LEMMA RecoverSealSafe ==
  ASSUME SafetyInv, NEW p \in Procs, RecoverSeal(p)
  PROVE  StepOK'
<1> DEFINE d == proc[p].tx
           m == InState(p, RECOVERED)
           x == [proc[p] EXCEPT !.mem = m, !.at = "rRemove"]
<1>1. Here(p) = "rSeal"
      /\ UNCHANGED <<auth, active, used, agents, stray, budgets>>
  BY DEF RecoverSeal
<1>2. Here(p) \in Reading BY <1>1
<1>3. m \in Record /\ m.role = home[d] /\ m.child = dirs[d].rec.child
      /\ m.sha = proc[p].kept
  BY <1>2, ReadingFacts DEF InState, Record, States
<1>4. UNCHANGED <<auth, used, live, strays>> BY <1>1 DEF agents, strays
<1>5. CASE Leave(p) /\ UNCHANGED dirs BY <1>1, <1>4, <1>5, LeaveSafe
<1>6. CASE /\ auth[proc[p].mem.role] = proc[p].mem.sha
           /\ Save(p, m, "rRemove") /\ UNCHANGED locks
  <2> HIDE DEF m
  <2>1. proc' = [proc EXCEPT ![p] = x] /\ dirs' = [dirs EXCEPT ![d].rec = m]
    BY <1>6 DEF Save
  <2>2. proc'[p] = x /\ x.at = "rRemove" /\ x.tx = d
    BY <2>1 DEF SafetyInv, TypeInv, TypeOK, Process
  <2> HIDE DEF x
  <2>3. dirs'[d].there
    BY <1>2, <2>1, ReadingFacts DEF SafetyInv, TypeInv, TypeOK, Directory
  <2>4. RestoredIn(d) BY <1>2, <1>6, ReadingFacts DEF RestoredIn
  <2>5. d \in stray => ~m.child
    BY <1>2, <1>3, ReadingFacts DEF SafetyInv, DataOK, DirOK
  <2>6. DataOK'
    BY <1>2, <1>3, <1>4, <2>1, <2>4, <2>5, ReadingFacts, RecordWritten
    DEF SafetyInv
  <2>7. PlaceOK(p)'
    BY <1>2, <1>4, <2>2, <2>3, <2>4, ReadingFacts, SameStrays
    DEF PlaceOK, RestoredIn, Original, strays
  <2> QED BY <1>1, <1>6, <2>1, <2>2, <2>6, <2>7, Goes DEF StepOK, locks
<1> QED BY <1>5, <1>6 DEF RecoverSeal

\* What is removed is no longer needed.
LEMMA RemovalFacts ==
  ASSUME SafetyInv, NEW p \in Procs, Here(p) \in {"rRemove", "remove", "uRemove"}
  PROVE  /\ proc[p].tx \in Ids /\ dirs[proc[p].tx].there
         /\ dirs[proc[p].tx] \in Directory
         /\ proc[p].tx \notin live \ stray /\ RestoredIn(proc[p].tx)
<1>1. Typed(proc[p]) /\ PlaceOK(p) /\ TypeOK BY DEF SafetyInv, TypeInv
<1>2. proc[p].tx \in Ids BY <1>1 DEF Typed, Here
<1> QED BY <1>1, <1>2 DEF PlaceOK, TypeOK, Here

\* What is removed is not needed any more.
LEMMA RemoveSafe ==
  ASSUME SafetyInv, NEW p \in Procs, Remove(p)
  PROVE  StepOK'
<1> DEFINE d == proc[p].tx
<1>1. Here(p) \in {"rRemove", "remove", "uRemove"}
      /\ UNCHANGED <<auth, active, used, agents, stray, budgets>>
  BY DEF Remove
<1>2. UNCHANGED <<auth, used, live, strays>> BY <1>1 DEF agents, strays
<1>3. d \in Ids /\ dirs[d].there /\ dirs[d] \in Directory /\ d \notin live \ stray
      /\ RestoredIn(d)
  BY <1>1, RemovalFacts
<1>4. CASE Unlink(p, d)
  <2>1. PICK y \in Directory :
          /\ dirs' = [dirs EXCEPT ![d] = y] /\ y.there
          /\ y.rec \in {dirs[d].rec, NoRecord}
          /\ y.backup \in {dirs[d].backup, None}
    <3> DEFINE a == [dirs[d] EXCEPT !.rec = NoRecord]
               b == [dirs[d] EXCEPT !.backup = None]
               t == [dirs[d] EXCEPT !.temp = FALSE]
    <3>1. /\ a \in Directory /\ a.there /\ a.rec = NoRecord
          /\ a.backup = dirs[d].backup
          /\ b \in Directory /\ b.there /\ b.rec = dirs[d].rec /\ b.backup = None
          /\ t \in Directory /\ t.there /\ t.rec = dirs[d].rec
          /\ t.backup = dirs[d].backup
      BY <1>3 DEF Directory
    <3>2. \/ dirs' = [dirs EXCEPT ![d] = a] \/ dirs' = [dirs EXCEPT ![d] = b]
          \/ dirs' = [dirs EXCEPT ![d] = t]
      BY <1>4 DEF Unlink
    <3> QED BY <3>1, <3>2
  <2>2. DataOK' BY <1>2, <1>3, <2>1, FileRemoved DEF SafetyInv
  <2>3. proc' = [proc EXCEPT ![p] = proc[p]] /\ lock' = lock /\ UNCHANGED proc
    BY <1>4 DEF Unlink, locks, SafetyInv, TypeInv, TypeOK
  <2>4. dirs'[d] = y BY <1>3, <2>1 DEF SafetyInv, TypeInv, TypeOK
  <2>5. PlaceOK(p)'
    <3>1. PlaceOK(p) BY DEF SafetyInv
    <3> QED BY <1>1, <1>2, <1>3, <2>1, <2>3, <2>4, <3>1, SameStrays
            DEF PlaceOK, Here, RestoredIn, Original, strays
  <2> QED BY <1>1, <2>2, <2>3, <2>5, Goes DEF StepOK, Here
<1>5. CASE RemoveDirectory(p, d)
  <2>1. NoDirectory \in Directory /\ NoDirectory.rec = NoRecord
        /\ NoDirectory.backup = None
    BY DEF NoDirectory, Directory
  <2>2. DataOK'
    BY <1>2, <1>3, <1>5, <2>1, FileRemoved DEF RemoveDirectory, SafetyInv
  <2>3. CASE Here(p) = "rRemove"
    <3> DEFINE x == [proc[p] EXCEPT !.at = "recover", !.tx = 0, !.mem = NoRecord,
                                    !.kept = None]
    <3>1. proc' = [proc EXCEPT ![p] = x] /\ lock' = lock
      BY <1>5, <2>3 DEF RemoveDirectory
    <3>2. proc'[p] = x /\ x.at = "recover"
      BY <3>1 DEF SafetyInv, TypeInv, TypeOK, Process
    <3> HIDE DEF x
    <3>3. PlaceOK(p)' BY <3>2 DEF PlaceOK
    <3> QED BY <1>1, <2>2, <3>1, <3>2, <3>3, Goes DEF StepOK
  <2>4. CASE Leave(p)
    <3>1. proc' = [proc EXCEPT ![p] = Rested(proc[p].bound)] /\ Unlock(p)
          /\ Rested(proc[p].bound).at = "idle"
      BY <2>4 DEF Leave, Rested, SafetyInv, TypeInv, TypeOK
    <3> QED BY <1>1, <2>2, <3>1, Leaves DEF StepOK
  <2> QED BY <1>5, <2>3, <2>4 DEF RemoveDirectory
<1> QED BY <1>4, <1>5 DEF Remove

\* A turn begins when nothing is left.
LEMMA RecoverDoneSafe ==
  ASSUME SafetyInv, NEW p \in Procs, RecoverDone(p)
  PROVE  StepOK'
<1>1. Here(p) = "recover" /\ NothingLeft
      /\ UNCHANGED <<auth, active, dirs, used, agents, stray, budgets>>
  BY DEF RecoverDone
<1>2. \A q \in Procs : Here(q) # "note" BY <1>1, Alone DEF SafetyInv
<1>3. DataOK' BY <1>1, <1>2, DataStays DEF SafetyInv, strays, agents
<1>4. CASE Go(p, "begin") /\ UNCHANGED locks
  <2> DEFINE x == [proc[p] EXCEPT !.at = "begin"]
  <2>1. proc' = [proc EXCEPT ![p] = x] /\ lock' = lock BY <1>4 DEF Go, locks
  <2>2. proc'[p] = x /\ x.at = "begin"
    BY <2>1 DEF SafetyInv, TypeInv, TypeOK, Process
  <2> HIDE DEF x
  <2>3. PlaceOK(p)' BY <1>1, <2>2 DEF PlaceOK, NothingLeft
  <2> QED BY <1>1, <1>3, <2>1, <2>2, <2>3, Goes DEF StepOK
<1>5. CASE Go(p, "look") /\ Unlock(p)
  <2> DEFINE x == [proc[p] EXCEPT !.at = "look"]
  <2>1. proc' = [proc EXCEPT ![p] = x] BY <1>5 DEF Go
  <2>2. x.at = "look" BY DEF SafetyInv, TypeInv, TypeOK, Process
  <2> QED BY <1>1, <1>3, <1>5, <2>1, <2>2, Leaves DEF StepOK
<1> QED BY <1>4, <1>5 DEF RecoverDone

\* What holds of a process that does not move, while nothing on disk does.
LEMMA PlaceStays ==
  ASSUME NEW q \in Procs, PlaceOK(q), proc'[q] = proc[q],
         UNCHANGED <<auth, dirs, live, home, stray>>
  PROVE  PlaceOK(q)'
<1>1. \A r : StrayIn(r)' <=> StrayIn(r) BY SameStrays DEF strays
<1> QED BY <1>1 DEF PlaceOK, NothingLeft, Original, RestoredIn, Saved

\* Who looks holds no lock.
LEMMA LookSafe ==
  ASSUME SafetyInv, NEW p \in Procs, Look(p)
  PROVE  StepOK'
<1> DEFINE x == Rested(active)
<1>1. proc' = [proc EXCEPT ![p] = x] /\ x.at = "idle" /\ Here(p) = "look"
      /\ UNCHANGED <<auth, active, dirs, used, locks, agents, stray, budgets>>
  BY DEF Look, Rested
<1>2. proc'[p] = x /\ \A q \in Procs : q # p => proc'[q] = proc[q]
  BY <1>1 DEF SafetyInv, TypeInv, TypeOK
<1> HIDE DEF x
<1>3. UNCHANGED <<auth, dirs, used, lock, live, home, stray>>
  BY <1>1 DEF locks, agents
<1>4. LockOK' BY <1>1, <1>2, <1>3 DEF SafetyInv, LockOK, Here
<1>5. DataOK' BY <1>1, <1>2, <1>3, DataStays DEF SafetyInv, strays, Here
<1>6. ASSUME NEW q \in Procs PROVE PlaceOK(q)'
  <2>1. CASE q = p BY <1>1, <1>2, <2>1 DEF PlaceOK
  <2>2. CASE q # p BY <1>2, <1>3, <2>2, PlaceStays DEF SafetyInv
  <2> QED BY <2>1, <2>2
<1> QED BY <1>4, <1>5, <1>6 DEF StepOK

-----------------------------------------------------------------------------
(***************************************************************************)
(* Setting up.                                                             *)
(***************************************************************************)

\* With no directory left every home is as it was, and no recorded Agent lives.
LEMMA NothingIsLeft ==
  ASSUME SafetyInv, NothingLeft
  PROVE  live \ stray = {} /\ \A r \in Roles : Original(auth[r], r)
BY DEF SafetyInv, DataOK, AgentsOK, ProjectionSaved, Saved, NothingLeft, Original,
       TypeInv, TypeOK

\* A turn begins with the original in memory.
LEMMA BeginSafe ==
  ASSUME SafetyInv, NEW p \in Procs, Begin(p)
  PROVE  StepOK'
<1>1. Here(p) = "begin" /\ NothingLeft /\ proc[p].role \in Roles
  BY DEF Begin, SafetyInv, TypeInv, PlaceOK, Typed, Here
<1>2. UNCHANGED <<auth, dirs, used, live, home, stray>> BY DEF Begin, agents
<1>3. \A q \in Procs : Here(q) # "note" BY <1>1, Alone DEF SafetyInv
<1>4. DataOK' BY <1>2, <1>3, DataStays DEF SafetyInv, strays
<1>5. CASE BoundAccount(p) /\ ~Leave(p)
  <2> DEFINE x == [proc[p] EXCEPT !.at = "mkdir", !.lent = active,
                                  !.kept = auth[proc[p].role]]
  <2>1. proc' = [proc EXCEPT ![p] = x] /\ lock' = lock BY <1>5 DEF Begin
  <2>2. proc'[p] = x /\ x.at = "mkdir" /\ x.lent = active
        /\ x.bound = proc[p].bound
        /\ x.kept = auth[proc[p].role] /\ x.role = proc[p].role
    BY <2>1 DEF SafetyInv, TypeInv, TypeOK, Process
  <2> HIDE DEF x
  <2>3. Original(auth[proc[p].role], proc[p].role) BY <1>1, NothingIsLeft
  <2>4. PlaceOK(p)'
    BY <1>1, <1>2, <1>5, <2>2, <2>3, SameStrays
    DEF PlaceOK, NothingLeft, Original, BoundAccount, strays
  <2> QED BY <1>1, <1>4, <2>1, <2>2, <2>4, Goes DEF StepOK
<1>6. CASE Leave(p) BY <1>1, <1>2, <1>6, LeaveSafe DEF strays
<1> QED BY <1>5, <1>6 DEF Begin

\* The new directory is the only one.
LEMMA MakeDirectorySafe ==
  ASSUME SafetyInv, NEW p \in Procs, MakeDirectory(p)
  PROVE  StepOK'
<1> DEFINE d == used + 1
           m == [state |-> INITIALIZED, role |-> proc[p].role,
                 sha |-> proc[p].kept, child |-> FALSE]
           x == [proc[p] EXCEPT !.at = "init", !.tx = d, !.mem = m]
<1>1. Here(p) = "mkdir" /\ NothingLeft /\ proc[p].role \in Roles
      /\ Original(proc[p].kept, proc[p].role) /\ proc[p].lent = proc[p].bound
  BY DEF MakeDirectory, SafetyInv, TypeInv, PlaceOK, Typed, Here
<1>2. d \in Ids /\ used \in Nat /\ used' = d
  BY DEF MakeDirectory, SafetyInv, TypeInv, TypeOK, Ids
<1>3. UNCHANGED <<auth, live, stray>> /\ lock' = lock BY DEF MakeDirectory, locks
<1>4. /\ ~dirs[d].there /\ dirs[d].rec = NoRecord /\ dirs[d].backup = None
      /\ d \notin live /\ d \notin stray
  BY <1>1, <1>2 DEF SafetyInv, DataOK, DirOK, NothingLeft
<1>5. /\ home'[d] = proc[p].role /\ \A e \in Ids : e # d => home'[e] = home[e]
      /\ dirs'[d] = [dirs[d] EXCEPT !.there = TRUE]
      /\ \A e \in Ids : e # d => dirs'[e] = dirs[e]
  BY <1>2 DEF MakeDirectory, SafetyInv, TypeInv, TypeOK
<1>6. dirs'[d].there /\ dirs'[d].rec = NoRecord /\ dirs'[d].backup = None
  BY <1>2, <1>4, <1>5 DEF SafetyInv, TypeInv, TypeOK, Directory
<1>7. \A r : StrayIn(r)' <=> StrayIn(r)
  <2>1. stray \subseteq Ids BY DEF SafetyInv, TypeInv, TypeOK
  <2> QED BY <1>3, <1>4, <1>5, <2>1 DEF StrayIn
<1>8. DataOK'
  <2>1. ASSUME NEW e \in Ids PROVE DirOK(e)'
    <3>1. CASE e = d
      <4>1. d <= used' /\ home'[d] \in Roles /\ dirs'[d].there
            /\ dirs'[d].rec = NoRecord /\ dirs'[d].backup = None
            /\ d \notin stray'
        BY <1>1, <1>2, <1>3, <1>4, <1>5, <1>6
      <4> HIDE DEF d
      <4> QED BY <3>1, <4>1 DEF DirOK
    <3>2. CASE e # d
      <4>1. DirOK(e) BY DEF SafetyInv, DataOK
      <4>2. e \in Nat /\ (e <= used => e <= d) BY <1>2 DEF Ids
      <4> QED BY <1>2, <1>3, <1>5, <1>7, <3>2, <4>1, <4>2 DEF DirOK, Original
    <3> QED BY <3>1, <3>2
  <2>2. OneDirectory' BY <1>1, <1>5 DEF OneDirectory, NothingLeft
  <2>3. ProjectionSaved'
    BY <1>1, <1>3, <1>7, NothingIsLeft DEF ProjectionSaved, Original
  <2>4. AgentsOK' BY <1>1, <1>3, NothingIsLeft DEF AgentsOK
  <2> QED BY <2>1, <2>2, <2>3, <2>4 DEF DataOK
<1>9. proc' = [proc EXCEPT ![p] = x] BY DEF MakeDirectory
<1>10. proc'[p] = x /\ x.at = "init" /\ x.tx = d /\ x.mem = m
       /\ x.role = proc[p].role
       /\ x.kept = proc[p].kept /\ x.lent = proc[p].lent
       /\ x.bound = proc[p].bound
  BY <1>9 DEF SafetyInv, TypeInv, TypeOK, Process
<1> HIDE DEF x
<1>11. PlaceOK(p)'
  <2>1. ~dirs'[d].rec.child BY <1>6 DEF NoRecord
  <2>2. m.state \notin Settled /\ ~m.child /\ m.role = proc[p].role
        /\ m.sha = proc[p].kept
    BY DEF Settled, INITIALIZED, RESTORED, RECOVERED
  <2> HIDE DEF m
  <2>3. d \notin live' /\ d \notin stray' BY <1>3, <1>4
  <2> HIDE DEF d
  <2> QED BY <1>1, <1>5, <1>6, <1>7, <1>10, <2>1, <2>2, <2>3 DEF PlaceOK, Original
<1> QED BY <1>1, <1>3, <1>8, <1>9, <1>10, <1>11, Goes DEF StepOK

\* Before the turn no recorded Agent lives.
LEMMA SetupFacts ==
  ASSUME SafetyInv, NEW p \in Procs, Here(p) \in Setup
  PROVE  /\ live \ stray = {} /\ proc[p].tx \notin live
         /\ ~proc[p].mem.child /\ ~dirs[proc[p].tx].rec.child
         /\ proc[p].mem.state \notin Settled /\ proc[p].lent = proc[p].bound
<1>1. PlaceOK(p) BY DEF SafetyInv
<1>2. proc[p].tx \notin live BY <1>1 DEF PlaceOK, Here
<1>3. live \ stray \subseteq {proc[p].tx} BY InTurnFacts, AgentIn DEF SafetyInv
<1> QED BY <1>1, <1>2, <1>3 DEF PlaceOK, Here

\* A turn writes its record.
LEMMA Saves ==
  ASSUME SafetyInv, NEW p \in Procs, Here(p) \in InTurn,
         NEW m \in Record, NEW next \in Places \ Free,
         m.role = proc[p].role, m.sha = proc[p].kept,
         proc[p].tx \in live => m.child /\ m.state \notin Settled,
         m.state \in Settled => RestoredIn(proc[p].tx),
         Save(p, m, next),
         UNCHANGED <<auth, active, used, locks, agents, stray, budgets>>
  PROVE  /\ proc'[p].at = next /\ proc'[p].tx = proc[p].tx /\ proc'[p].mem = m
         /\ proc'[p].kept = proc[p].kept /\ proc'[p].role = proc[p].role
         /\ proc'[p].lent = proc[p].lent /\ proc'[p].bound = proc[p].bound
         /\ dirs'[proc[p].tx].rec = m /\ dirs'[proc[p].tx].there /\ m # NoRecord
         /\ dirs'[proc[p].tx].backup = dirs[proc[p].tx].backup
         /\ UNCHANGED <<auth, live, home, stray>>
         /\ \A r : StrayIn(r)' <=> StrayIn(r)
         /\ PlaceOK(p)' => StepOK'
<1> DEFINE d == proc[p].tx
           x == [proc[p] EXCEPT !.mem = m, !.at = next]
<1>1. /\ d \in Ids /\ dirs[d].there /\ dirs[d] \in Directory /\ d \notin stray
      /\ m.role = home[d] /\ Original(m.sha, home[d])
  BY InTurnFacts
<1>2. proc' = [proc EXCEPT ![p] = x] /\ dirs' = [dirs EXCEPT ![d].rec = m]
  BY DEF Save
<1>3. /\ proc'[p] = x /\ x.at = next /\ x.tx = d /\ x.mem = m
      /\ x.kept = proc[p].kept /\ x.role = proc[p].role /\ x.lent = proc[p].lent
      /\ x.bound = proc[p].bound
  BY <1>2 DEF SafetyInv, TypeInv, TypeOK, Process
<1> HIDE DEF x
<1>4. dirs'[d].rec = m /\ dirs'[d].there /\ dirs'[d].backup = dirs[d].backup
  BY <1>1, <1>2 DEF SafetyInv, TypeInv, TypeOK, Directory
<1>5. UNCHANGED <<auth, used, live, strays>> /\ lock' = lock
  BY DEF agents, strays, locks
<1> HIDE DEF d
<1>6. TypeInv /\ DataOK BY DEF SafetyInv
<1>7. d \in live \ stray => m.child /\ m.state \notin Settled BY DEF d
<1>8. m.state \in Settled => RestoredIn(d) BY DEF d
<1>9. DataOK' BY <1>1, <1>2, <1>5, <1>6, <1>7, <1>8, RecordWritten
<1>10. \A r : StrayIn(r)' <=> StrayIn(r) BY <1>5, SameStrays
<1>11. PlaceOK(p)' => StepOK'
  <2>1. x.at \notin Free BY <1>3
  <2> QED BY <1>2, <1>5, <1>9, <2>1, Goes DEF StepOK
<1> QED BY <1>1, <1>3, <1>4, <1>5, <1>10, <1>11, NoRecordIsNone DEF d, strays

\* The first record is written.
LEMMA WriteFirstRecordSafe ==
  ASSUME SafetyInv, NEW p \in Procs, WriteFirstRecord(p)
  PROVE  StepOK'
<1> DEFINE m == proc[p].mem
<1>1. Here(p) = "init" /\ Here(p) \in InTurn /\ PlaceOK(p) /\ Save(p, m, "backup")
      /\ UNCHANGED <<auth, active, used, locks, agents, stray, budgets>>
  BY DEF WriteFirstRecord, SafetyInv
<1>2. /\ m \in Record /\ m.role = proc[p].role /\ m.sha = proc[p].kept
      /\ m.state \notin Settled /\ ~m.child
  BY <1>1, InTurnFacts
  DEF PlaceOK, Here
<1>3. proc[p].tx \notin live BY <1>1 DEF PlaceOK, Here
<1> HIDE DEF m
<1>4. PlaceOK(p)'
  <2> DEFINE d == proc[p].tx
  <2>1. /\ proc'[p].at = "backup" /\ proc'[p].tx = d /\ proc'[p].mem = m
        /\ proc'[p].kept = proc[p].kept /\ proc'[p].role = proc[p].role
        /\ proc'[p].lent = proc[p].lent /\ proc'[p].bound = proc[p].bound
        /\ dirs'[d].rec = m /\ dirs'[d].there /\ m # NoRecord
        /\ dirs'[d].backup = dirs[d].backup
        /\ UNCHANGED <<auth, live, home, stray>>
        /\ \A r : StrayIn(r)' <=> StrayIn(r)
    BY <1>1, <1>2, <1>3, Saves
  <2>2. home[d] = proc[p].role /\ d \notin stray
        /\ Original(proc[p].kept, proc[p].role)
    BY <1>1, InTurnFacts
  <2> QED BY <1>1, <1>2, <1>3, <2>1, <2>2 DEF PlaceOK, Here, Original, Saved
<1> QED BY <1>1, <1>2, <1>3, <1>4, Saves

\* The record says that there is a backup.
LEMMA PrepareSafe ==
  ASSUME SafetyInv, NEW p \in Procs, Prepare(p)
  PROVE  StepOK'
<1> DEFINE m == InState(p, PREPARED)
<1>1. Here(p) = "prepare" /\ Here(p) \in InTurn /\ PlaceOK(p)
      /\ Save(p, m, "project")
      /\ UNCHANGED <<auth, active, used, locks, agents, stray, budgets>>
  BY DEF Prepare, SafetyInv
<1>2. /\ m \in Record /\ m.role = proc[p].role /\ m.sha = proc[p].kept
      /\ m.state \notin Settled /\ ~m.child
  BY <1>1, InTurnFacts
  DEF InState, Record, States, PlaceOK, Here,
      Settled, INITIALIZED, PREPARED, PROJECTED, CHILD_RUNNING, CHILD_EXITED,
      RESTORING, RESTORED, RECOVERED
<1>3. proc[p].tx \notin live BY <1>1 DEF PlaceOK, Here
<1> HIDE DEF m
<1>4. PlaceOK(p)'
  <2> DEFINE d == proc[p].tx
  <2>1. /\ proc'[p].at = "project" /\ proc'[p].tx = d /\ proc'[p].mem = m
        /\ proc'[p].kept = proc[p].kept /\ proc'[p].role = proc[p].role
        /\ proc'[p].lent = proc[p].lent /\ proc'[p].bound = proc[p].bound
        /\ dirs'[d].rec = m /\ dirs'[d].there /\ m # NoRecord
        /\ dirs'[d].backup = dirs[d].backup
        /\ UNCHANGED <<auth, live, home, stray>>
        /\ \A r : StrayIn(r)' <=> StrayIn(r)
    BY <1>1, <1>2, <1>3, Saves
  <2>2. home[d] = proc[p].role /\ d \notin stray
        /\ Original(proc[p].kept, proc[p].role)
    BY <1>1, InTurnFacts
  <2> QED BY <1>1, <1>2, <1>3, <2>1, <2>2 DEF PlaceOK, Here, Original, Saved
<1> QED BY <1>1, <1>2, <1>3, <1>4, Saves

\* The record says that the account is in the home.
LEMMA ConfirmSavesSafe ==
  ASSUME SafetyInv, NEW p \in Procs, Confirm(p),
         Save(p, InState(p, PROJECTED), "launch")
  PROVE  StepOK'
<1> DEFINE m == InState(p, PROJECTED)
<1>1. Here(p) = "confirm" /\ Here(p) \in InTurn /\ PlaceOK(p)
      /\ Save(p, m, "launch")
      /\ UNCHANGED <<auth, active, used, locks, agents, stray, budgets>>
  BY DEF Confirm, SafetyInv
<1>2. /\ m \in Record /\ m.role = proc[p].role /\ m.sha = proc[p].kept
      /\ m.state \notin Settled /\ ~m.child
  BY <1>1, InTurnFacts
  DEF InState, Record, States, PlaceOK, Here,
      Settled, INITIALIZED, PREPARED, PROJECTED, CHILD_RUNNING, CHILD_EXITED,
      RESTORING, RESTORED, RECOVERED
<1>3. proc[p].tx \notin live BY <1>1 DEF PlaceOK, Here
<1> HIDE DEF m
<1>4. PlaceOK(p)'
  <2> DEFINE d == proc[p].tx
  <2>1. /\ proc'[p].at = "launch" /\ proc'[p].tx = d /\ proc'[p].mem = m
        /\ proc'[p].kept = proc[p].kept /\ proc'[p].role = proc[p].role
        /\ proc'[p].lent = proc[p].lent /\ proc'[p].bound = proc[p].bound
        /\ dirs'[d].rec = m /\ dirs'[d].there /\ m # NoRecord
        /\ dirs'[d].backup = dirs[d].backup
        /\ UNCHANGED <<auth, live, home, stray>>
        /\ \A r : StrayIn(r)' <=> StrayIn(r)
    BY <1>1, <1>2, <1>3, Saves
  <2>2. home[d] = proc[p].role /\ d \notin stray
        /\ Original(proc[p].kept, proc[p].role)
    BY <1>1, InTurnFacts
  <2> QED BY <1>1, <1>2, <1>3, <2>1, <2>2 DEF PlaceOK, Here, Original, Saved
<1> QED BY <1>1, <1>2, <1>3, <1>4, Saves

\* The backup is the original.
LEMMA WriteBackupSafe ==
  ASSUME SafetyInv, NEW p \in Procs, WriteBackup(p)
  PROVE  StepOK'
<1> DEFINE d == proc[p].tx
           y == [dirs[d] EXCEPT !.backup = proc[p].kept]
           x == [proc[p] EXCEPT !.at = "prepare"]
<1>1. Here(p) = "backup"
      /\ UNCHANGED <<auth, active, used, locks, agents, stray, budgets>>
  BY DEF WriteBackup
<1>2. Here(p) \in Setup /\ Here(p) \in InTurn /\ PlaceOK(p) BY <1>1 DEF SafetyInv
<1>3. proc' = [proc EXCEPT ![p] = x] /\ dirs' = [dirs EXCEPT ![d] = y]
  BY DEF WriteBackup, Go
<1>4. /\ proc'[p] = x /\ x.at = "prepare" /\ x.tx = d /\ x.mem = proc[p].mem
      /\ x.kept = proc[p].kept /\ x.role = proc[p].role /\ x.lent = proc[p].lent
      /\ x.bound = proc[p].bound
  BY <1>3 DEF SafetyInv, TypeInv, TypeOK, Process
<1>5. dirs'[d] = y /\ \A e \in Ids : e # d => dirs'[e] = dirs[e]
  BY <1>2, <1>3, InTurnFacts DEF SafetyInv, TypeInv, TypeOK
<1>6. y.there /\ y.rec = dirs[d].rec /\ y.backup = proc[p].kept
  BY <1>2, InTurnFacts DEF Directory
<1> HIDE DEF x, y
<1>7. UNCHANGED <<auth, used, live, strays>> /\ lock' = lock
  BY <1>1 DEF agents, strays, locks
<1>8. \A r : StrayIn(r)' <=> StrayIn(r) BY <1>7, SameStrays
<1>9. DataOK'
  <2>1. ASSUME NEW e \in Ids PROVE DirOK(e)'
    <3>1. DirOK(e) BY DEF SafetyInv, DataOK
    <3>2. CASE e = d
      BY <1>2, <1>5, <1>6, <1>7, <1>8, <3>1, <3>2, InTurnFacts
      DEF DirOK, Original, strays
    <3>3. CASE e # d
      BY <1>5, <1>7, <1>8, <3>1, <3>3 DEF DirOK, Original, strays
    <3> QED BY <3>2, <3>3
  <2>2. OneDirectory'
    <3>1. \A e \in Ids : dirs'[e].there <=> dirs[e].there
      BY <1>2, <1>5, <1>6, InTurnFacts
    <3> QED BY <3>1 DEF SafetyInv, DataOK, OneDirectory
  <2>3. ProjectionSaved'
    <3>1. proc[p].kept # None BY <1>2, InTurnFacts DEF Contents
    <3>2. ASSUME NEW e \in Ids, Saved(e) PROVE Saved(e)'
      BY <1>5, <1>6, <3>1, <3>2 DEF Saved
    <3>3. ASSUME NEW r \in Roles, auth'[r] # Own, ~StrayIn(r)'
          PROVE  \E e \in Ids : Saved(e)' /\ home'[e] = r
      <4>1. auth[r] # Own /\ ~StrayIn(r) BY <1>7, <1>8, <3>3
      <4>2. PICK e \in Ids : Saved(e) /\ home[e] = r
        BY <4>1 DEF SafetyInv, DataOK, ProjectionSaved
      <4> QED BY <1>7, <3>2, <4>2 DEF strays
    <3> QED BY <3>3 DEF ProjectionSaved
  <2>4. AgentsOK' BY <1>2, <1>7, SetupFacts DEF AgentsOK, strays
  <2> QED BY <2>1, <2>2, <2>3, <2>4 DEF DataOK
<1>10. PlaceOK(p)'
  <2>1. proc[p].kept # None BY <1>2, InTurnFacts DEF Contents
  <2> QED BY <1>1, <1>2, <1>4, <1>5, <1>6, <1>7, <1>8, <2>1, InTurnFacts
          DEF PlaceOK, Here, Original, strays
<1> QED BY <1>1, <1>3, <1>4, <1>7, <1>9, <1>10, Goes DEF StepOK

\* The account's credential goes in when there is a backup.
LEMMA ProjectSafe ==
  ASSUME SafetyInv, NEW p \in Procs, Project(p)
  PROVE  StepOK'
<1> DEFINE d == proc[p].tx
           r == proc[p].role
           x == [proc[p] EXCEPT !.at = "confirm"]
<1>1. Here(p) = "project"
      /\ UNCHANGED <<active, dirs, used, locks, agents, stray, budgets>>
  BY DEF Project
<1>2. Here(p) \in InTurn /\ PlaceOK(p) BY <1>1 DEF SafetyInv
<1>3. proc' = [proc EXCEPT ![p] = x] /\ auth' = [auth EXCEPT ![r] = proc[p].lent]
  BY DEF Project, Go
<1>4. /\ proc'[p] = x /\ x.at = "confirm" /\ x.tx = d /\ x.mem = proc[p].mem
      /\ x.kept = proc[p].kept /\ x.role = r /\ x.lent = proc[p].lent
      /\ x.bound = proc[p].bound
  BY <1>3 DEF SafetyInv, TypeInv, TypeOK, Process
<1> HIDE DEF x
<1>5. UNCHANGED <<dirs, used, live, strays>> /\ lock' = lock
  BY <1>1 DEF agents, strays, locks
<1>6. d \notin live /\ live \ stray = {}
  <2>1. d \notin live BY <1>1, <1>2 DEF PlaceOK, Here
  <2> QED BY <1>2, <2>1, InTurnFacts, AgentIn DEF SafetyInv
<1>7. NoterStays BY <1>1, <1>3, Alone DEF NoterStays, SafetyInv, Here
<1>8. proc[p].lent \in Contents /\ auth'[r] = proc[p].lent
  BY <1>2, <1>3, InTurnFacts DEF Contents, SafetyInv, TypeInv, TypeOK
<1>9. Original(proc[p].lent, r) \/ (Saved(d) /\ home[d] = r)
  BY <1>1, <1>2, InTurnFacts DEF PlaceOK, Here
<1>10. DataOK'
  BY <1>2, <1>3, <1>5, <1>6, <1>7, <1>8, <1>9, InTurnFacts, AuthWritten
  DEF SafetyInv
<1>11. \A q : StrayIn(q)' <=> StrayIn(q) BY <1>5, SameStrays
<1>12. PlaceOK(p)'
  <2>1. Accounts \cap {Own} = {} OBVIOUS
  <2> QED BY <1>1, <1>2, <1>4, <1>5, <1>6, <1>8, <1>11, <2>1, InTurnFacts
          DEF PlaceOK, Here, Original, strays, Saved
<1> QED BY <1>1, <1>3, <1>4, <1>5, <1>10, <1>12, Goes DEF StepOK

-----------------------------------------------------------------------------
(***************************************************************************)
(* The turn and its cleanup.                                               *)
(***************************************************************************)

\* A process moves on, nothing on disk changes.
LEMMA Moves ==
  ASSUME SafetyInv, NEW p \in Procs, Here(p) \notin Free, NEW x,
         proc' = [proc EXCEPT ![p] = x], x.at \notin Free,
         UNCHANGED <<auth, dirs, used, lock, home, stray>>, live' \subseteq live,
         Here(p) = "note" => proc[p].tx \notin live'
  PROVE  /\ proc'[p] = x /\ \A r : StrayIn(r)' <=> StrayIn(r)
         /\ PlaceOK(p)' => StepOK'
<1>1. \A q \in Procs : q # p => Here(q) \in Free BY Alone DEF SafetyInv
<1>2. DataOK' BY <1>1, DataStays DEF SafetyInv, strays, Here
<1>3. PlaceOK(p)' => StepOK' BY <1>2, Goes DEF StepOK
<1> QED BY <1>3, SameStrays DEF strays, SafetyInv, TypeInv, TypeOK

\* Going on changes the place only.
LEMMA GoFacts ==
  ASSUME SafetyInv, NEW p \in Procs, NEW next, Go(p, next)
  PROVE  \E x : /\ proc' = [proc EXCEPT ![p] = x] /\ proc'[p] = x /\ x.at = next
                /\ x.tx = proc[p].tx /\ x.mem = proc[p].mem
                /\ x.kept = proc[p].kept
                /\ x.role = proc[p].role /\ x.lent = proc[p].lent
                /\ x.bound = proc[p].bound
<1> DEFINE x == [proc[p] EXCEPT !.at = next]
<1>1. /\ proc' = [proc EXCEPT ![p] = x] /\ proc'[p] = x /\ x.at = next
      /\ x.tx = proc[p].tx /\ x.mem = proc[p].mem /\ x.kept = proc[p].kept
      /\ x.role = proc[p].role /\ x.lent = proc[p].lent /\ x.bound = proc[p].bound
  BY DEF Go, SafetyInv, TypeInv, TypeOK, Process
<1> QED BY <1>1

\* A setup that failed, or whose file names another account, is undone.
LEMMA GoesToUndo ==
  ASSUME SafetyInv, NEW p \in Procs, Here(p) \in Setup, Go(p, "undo"),
         UNCHANGED <<auth, dirs, used, live, home, stray, lock>>
  PROVE  StepOK'
<1>1. UNCHANGED strays /\ PlaceOK(p) BY DEF strays, SafetyInv
<1>2. PICK x : /\ proc' = [proc EXCEPT ![p] = x] /\ proc'[p] = x
               /\ x.at = "undo"
               /\ x.tx = proc[p].tx /\ x.mem = proc[p].mem
               /\ x.kept = proc[p].kept
               /\ x.role = proc[p].role
  BY GoFacts
<1>3. (\A r : StrayIn(r)' <=> StrayIn(r)) /\ (PlaceOK(p)' => StepOK')
  BY <1>1, <1>2, Moves
<1>4. PlaceOK(p)' BY <1>1, <1>2, <1>3 DEF PlaceOK, Here, Original
<1> QED BY <1>3, <1>4

\* So is one whose last record is on disk and not in memory.
LEMMA ProjectedThenUndo ==
  ASSUME SafetyInv, NEW p \in Procs, Here(p) = "confirm", Go(p, "undo"),
         dirs' = [dirs EXCEPT ![proc[p].tx].rec = InState(p, PROJECTED)],
         UNCHANGED <<auth, active, used, live, home, stray, lock>>
  PROVE  StepOK'
<1> DEFINE d == proc[p].tx
           m == InState(p, PROJECTED)
<1>1. UNCHANGED strays /\ PlaceOK(p) /\ Here(p) \in InTurn
  BY DEF strays, SafetyInv
<1>2. /\ m \in Record /\ m.role = proc[p].role /\ m.sha = proc[p].kept
      /\ m.state \notin Settled /\ ~m.child
  BY <1>1, InTurnFacts
  DEF InState, Record, States, PlaceOK, Here,
      Settled, INITIALIZED, PREPARED, PROJECTED, CHILD_RUNNING, CHILD_EXITED,
      RESTORING, RESTORED, RECOVERED
<1>3. /\ d \in Ids /\ dirs[d].there /\ dirs[d] \in Directory /\ d \notin stray
      /\ home[d] = proc[p].role /\ Original(proc[p].kept, proc[p].role)
  BY <1>1, InTurnFacts
<1>4. d \notin live BY <1>1 DEF PlaceOK, Here
<1>5. PICK x : /\ proc' = [proc EXCEPT ![p] = x] /\ proc'[p] = x
               /\ x.at = "undo" /\ x.tx = d
               /\ x.mem = proc[p].mem /\ x.kept = proc[p].kept
               /\ x.role = proc[p].role
  BY GoFacts
<1>6. dirs' = [dirs EXCEPT ![d].rec = m] OBVIOUS
<1> HIDE DEF m
<1>7. dirs'[d].rec = m /\ dirs'[d].there
  BY <1>3, <1>6 DEF SafetyInv, TypeInv, TypeOK, Directory
<1>8. PlaceOK(p)'
  <2>1. \A r : StrayIn(r)' <=> StrayIn(r) BY <1>1, SameStrays
  <2> QED BY <1>1, <1>3, <1>4, <1>5, <1>7, <2>1 DEF PlaceOK, Here, Original
<1> HIDE DEF d
<1>9. DataOK'
  BY <1>1, <1>2, <1>3, <1>4, <1>6, RecordWritten DEF SafetyInv
<1>10. x.at \notin Free /\ Here(p) \notin Free BY <1>5
<1> QED BY <1>5, <1>8, <1>9, <1>10, Goes DEF StepOK

\* The record says that the account is in the home, or the setup is undone.
LEMMA ConfirmSafe ==
  ASSUME SafetyInv, NEW p \in Procs, Confirm(p)
  PROVE  StepOK'
<1>1. /\ Here(p) \in Setup
      /\ UNCHANGED <<auth, active, used, locks, agents, stray, budgets>>
  BY DEF Confirm
<1>2. CASE Go(p, "undo") /\ UNCHANGED dirs
  BY <1>1, <1>2, GoesToUndo DEF locks, agents
<1>3. CASE Save(p, InState(p, PROJECTED), "launch") BY <1>3, ConfirmSavesSafe
<1> QED BY <1>2, <1>3 DEF Confirm

\* The Agent starts when its home can be restored, and is about to be recorded.
LEMMA LaunchSafe ==
  ASSUME SafetyInv, NEW p \in Procs, Launch(p)
  PROVE  StepOK'
<1> DEFINE d == proc[p].tx
<1>1. /\ Here(p) = "launch" /\ Go(p, "note") /\ live' = live \cup {d}
      /\ UNCHANGED <<auth, active, dirs, used, locks, home, reused, stray, budgets>>
  BY DEF Launch
<1>2. PICK x : /\ proc' = [proc EXCEPT ![p] = x] /\ proc'[p] = x /\ x.at = "note"
               /\ x.tx = d /\ x.mem = proc[p].mem /\ x.kept = proc[p].kept
               /\ x.role = proc[p].role /\ x.lent = proc[p].lent
               /\ x.bound = proc[p].bound
  BY <1>1, GoFacts
<1>3. Here(p) \in InTurn /\ PlaceOK(p) BY <1>1 DEF SafetyInv
<1>4. /\ d \in Ids /\ dirs[d].there /\ home[d] = proc[p].role /\ d \notin stray
      /\ Original(proc[p].kept, proc[p].role) /\ proc[p].mem.role = proc[p].role
      /\ proc[p].mem.sha = proc[p].kept
  BY <1>3, InTurnFacts
<1>5. Saved(d) /\ auth[home[d]] # Own BY <1>1, <1>3, <1>4 DEF PlaceOK, Here
<1>6. \A r : StrayIn(r)' <=> StrayIn(r) BY <1>1, SameStrays DEF strays
<1>7. DataOK'
  <2>1. \A e \in Ids : DirOK(e)'
    BY <1>1, <1>4, <1>6 DEF SafetyInv, DataOK, DirOK, Original
  <2>2. OneDirectory' BY <1>1 DEF SafetyInv, DataOK, OneDirectory
  <2>3. ProjectionSaved'
    BY <1>1, <1>6 DEF SafetyInv, DataOK, ProjectionSaved, Saved
  <2>4. AgentsOK'
    <3> SUFFICES ASSUME NEW e \in live' \ stray'
                 PROVE  Saved(e)' /\ Known(e)' /\ (auth[home[e]] # Own)'
      BY DEF AgentsOK
    <3>1. live \ stray \subseteq {d} BY <1>4, AgentIn DEF SafetyInv
    <3>2. e = d BY <1>1, <3>1
    <3>3. Known(e)' BY <1>2, <3>2 DEF Known, Here
    <3>4. Saved(e)' /\ (auth[home[e]] # Own)' BY <1>1, <1>5, <3>2 DEF Saved
    <3> QED BY <3>3, <3>4
  <2> QED BY <2>1, <2>2, <2>3, <2>4 DEF DataOK
<1>8. PlaceOK(p)'
  BY <1>1, <1>2, <1>3, <1>4, <1>5, <1>6 DEF PlaceOK, Here, Original, Saved
<1> QED BY <1>1, <1>2, <1>7, <1>8, Goes DEF StepOK, locks

\* The Agent is recorded while its home can be restored.
LEMMA NoteChildSafe ==
  ASSUME SafetyInv, NEW p \in Procs, NoteChild(p)
  PROVE  StepOK'
<1> DEFINE m == Identified(p)
<1>1. Here(p) = "note" /\ Here(p) \in InTurn /\ PlaceOK(p) /\ Save(p, m, "agent")
      /\ UNCHANGED <<auth, active, used, locks, agents, stray, budgets>>
  BY DEF NoteChild, SafetyInv
<1>2. /\ m \in Record /\ m.role = proc[p].role /\ m.sha = proc[p].kept
      /\ m.state \notin Settled /\ m.child /\ m.state = CHILD_RUNNING
  BY <1>1, InTurnFacts
  DEF Identified, Record, States, PlaceOK, Here,
      Settled, INITIALIZED, PREPARED, PROJECTED, CHILD_RUNNING, CHILD_EXITED,
      RESTORING, RESTORED, RECOVERED
<1>3. proc[p].tx \in live => m.child BY <1>2
<1> HIDE DEF m
<1>4. PlaceOK(p)'
  <2> DEFINE d == proc[p].tx
  <2>1. /\ proc'[p].at = "agent" /\ proc'[p].tx = d /\ proc'[p].mem = m
        /\ proc'[p].kept = proc[p].kept /\ proc'[p].role = proc[p].role
        /\ proc'[p].lent = proc[p].lent /\ proc'[p].bound = proc[p].bound
        /\ dirs'[d].rec = m /\ dirs'[d].there /\ m # NoRecord
        /\ dirs'[d].backup = dirs[d].backup
        /\ UNCHANGED <<auth, live, home, stray>>
        /\ \A r : StrayIn(r)' <=> StrayIn(r)
    BY <1>1, <1>2, <1>3, Saves
  <2>2. home[d] = proc[p].role /\ d \notin stray
        /\ Original(proc[p].kept, proc[p].role)
    BY <1>1, InTurnFacts
  <2> QED BY <1>1, <1>2, <1>3, <2>1, <2>2 DEF PlaceOK, Here, Original, Saved
<1> QED BY <1>1, <1>2, <1>3, <1>4, Saves

\* The record says that the Agent is gone.
LEMMA ChildStoppedSafe ==
  ASSUME SafetyInv, NEW p \in Procs, ChildStopped(p)
  PROVE  StepOK'
<1> DEFINE m == InState(p, CHILD_EXITED)
<1>1. Here(p) = "agent" /\ Here(p) \in InTurn /\ PlaceOK(p) /\ Save(p, m, "close")
      /\ UNCHANGED <<auth, active, used, locks, agents, stray, budgets>>
  BY DEF ChildStopped, SafetyInv
<1>2. /\ m \in Record /\ m.role = proc[p].role /\ m.sha = proc[p].kept
      /\ m.state \notin Settled /\ TRUE
  BY <1>1, InTurnFacts
  DEF InState, Record, States, PlaceOK, Here,
      Settled, INITIALIZED, PREPARED, PROJECTED, CHILD_RUNNING, CHILD_EXITED,
      RESTORING, RESTORED, RECOVERED
<1>3. proc[p].tx \notin live BY DEF ChildStopped
<1> HIDE DEF m
<1>4. PlaceOK(p)'
  <2> DEFINE d == proc[p].tx
  <2>1. /\ proc'[p].at = "close" /\ proc'[p].tx = d /\ proc'[p].mem = m
        /\ proc'[p].kept = proc[p].kept /\ proc'[p].role = proc[p].role
        /\ proc'[p].lent = proc[p].lent /\ proc'[p].bound = proc[p].bound
        /\ dirs'[d].rec = m /\ dirs'[d].there /\ m # NoRecord
        /\ dirs'[d].backup = dirs[d].backup
        /\ UNCHANGED <<auth, live, home, stray>>
        /\ \A r : StrayIn(r)' <=> StrayIn(r)
    BY <1>1, <1>2, <1>3, Saves
  <2>2. home[d] = proc[p].role /\ d \notin stray
        /\ Original(proc[p].kept, proc[p].role)
    BY <1>1, InTurnFacts
  <2> QED BY <1>1, <1>2, <1>3, <2>1, <2>2 DEF PlaceOK, Here, Original, Saved
<1> QED BY <1>1, <1>2, <1>3, <1>4, Saves

\* The restoration begins when the Agent is gone.
LEMMA MarkSafe ==
  ASSUME SafetyInv, NEW p \in Procs, Mark(p)
  PROVE  StepOK'
<1> DEFINE m == InState(p, RESTORING)
<1>1. Here(p) = "mark" /\ Here(p) \in InTurn /\ PlaceOK(p)
      /\ Save(p, m, "restore")
      /\ UNCHANGED <<auth, active, used, locks, agents, stray, budgets>>
  BY DEF Mark, SafetyInv
<1>2. /\ m \in Record /\ m.role = proc[p].role /\ m.sha = proc[p].kept
      /\ m.state \notin Settled /\ TRUE
  BY <1>1, InTurnFacts
  DEF InState, Record, States, PlaceOK, Here,
      Settled, INITIALIZED, PREPARED, PROJECTED, CHILD_RUNNING, CHILD_EXITED,
      RESTORING, RESTORED, RECOVERED
<1>3. proc[p].tx \notin live BY <1>1 DEF PlaceOK, Here
<1> HIDE DEF m
<1>4. PlaceOK(p)'
  <2> DEFINE d == proc[p].tx
  <2>1. /\ proc'[p].at = "restore" /\ proc'[p].tx = d /\ proc'[p].mem = m
        /\ proc'[p].kept = proc[p].kept /\ proc'[p].role = proc[p].role
        /\ proc'[p].lent = proc[p].lent /\ proc'[p].bound = proc[p].bound
        /\ dirs'[d].rec = m /\ dirs'[d].there /\ m # NoRecord
        /\ dirs'[d].backup = dirs[d].backup
        /\ UNCHANGED <<auth, live, home, stray>>
        /\ \A r : StrayIn(r)' <=> StrayIn(r)
    BY <1>1, <1>2, <1>3, Saves
  <2>2. home[d] = proc[p].role /\ d \notin stray
        /\ Original(proc[p].kept, proc[p].role)
    BY <1>1, InTurnFacts
  <2> QED BY <1>1, <1>2, <1>3, <2>1, <2>2 DEF PlaceOK, Here, Original, Saved
<1> QED BY <1>1, <1>2, <1>3, <1>4, Saves

\* The original goes back.
LEMMA RestoreSafe ==
  ASSUME SafetyInv, NEW p \in Procs, Restore(p)
  PROVE  StepOK'
<1> DEFINE d == proc[p].tx
           r == proc[p].role
           x == [proc[p] EXCEPT !.at = "seal"]
<1>1. Here(p) = "restore"
      /\ UNCHANGED <<active, dirs, used, locks, agents, stray, budgets>>
  BY DEF Restore
<1>2. Here(p) \in InTurn /\ PlaceOK(p) BY <1>1 DEF SafetyInv
<1>3. proc' = [proc EXCEPT ![p] = x] /\ auth' = [auth EXCEPT ![r] = proc[p].kept]
  BY DEF Restore, Go
<1>4. /\ proc'[p] = x /\ x.at = "seal" /\ x.tx = d /\ x.mem = proc[p].mem
      /\ x.kept = proc[p].kept /\ x.role = r /\ x.lent = proc[p].lent
      /\ x.bound = proc[p].bound
  BY <1>3 DEF SafetyInv, TypeInv, TypeOK, Process
<1> HIDE DEF x
<1>5. UNCHANGED <<dirs, used, live, strays>> /\ lock' = lock
  BY <1>1 DEF agents, strays, locks
<1>6. d \notin live /\ live \ stray = {}
  <2>1. d \notin live BY <1>1, <1>2 DEF PlaceOK, Here
  <2> QED BY <1>2, <2>1, InTurnFacts, AgentIn DEF SafetyInv
<1>7. NoterStays BY <1>1, <1>3, Alone DEF NoterStays, SafetyInv, Here
<1>8. proc[p].kept \in Contents /\ auth'[r] = proc[p].kept
  BY <1>2, <1>3, InTurnFacts DEF Contents, SafetyInv, TypeInv, TypeOK
<1>9. Original(proc[p].kept, r) \/ (Saved(d) /\ home[d] = r)
  BY <1>1, <1>2, InTurnFacts DEF PlaceOK, Here
<1>10. DataOK'
  BY <1>2, <1>3, <1>5, <1>6, <1>7, <1>8, <1>9, InTurnFacts, AuthWritten
  DEF SafetyInv
<1>11. \A q : StrayIn(q)' <=> StrayIn(q) BY <1>5, SameStrays
<1>12. PlaceOK(p)'
  <2>1. Accounts \cap {Own} = {} OBVIOUS
  <2> QED BY <1>1, <1>2, <1>4, <1>5, <1>6, <1>8, <1>11, <2>1, InTurnFacts
          DEF PlaceOK, Here, Original, strays, Saved
<1> QED BY <1>1, <1>3, <1>4, <1>5, <1>10, <1>12, Goes DEF StepOK

\* The original goes back.
LEMMA UndoSafe ==
  ASSUME SafetyInv, NEW p \in Procs, Undo(p)
  PROVE  StepOK'
<1> DEFINE d == proc[p].tx
           r == proc[p].role
           x == [proc[p] EXCEPT !.at = "verify"]
<1>1. Here(p) = "undo"
      /\ UNCHANGED <<active, dirs, used, locks, agents, stray, budgets>>
  BY DEF Undo
<1>2. Here(p) \in InTurn /\ PlaceOK(p) BY <1>1 DEF SafetyInv
<1>3. proc' = [proc EXCEPT ![p] = x] /\ auth' = [auth EXCEPT ![r] = proc[p].kept]
  BY DEF Undo, Go
<1>4. /\ proc'[p] = x /\ x.at = "verify" /\ x.tx = d /\ x.mem = proc[p].mem
      /\ x.kept = proc[p].kept /\ x.role = r /\ x.lent = proc[p].lent
      /\ x.bound = proc[p].bound
  BY <1>3 DEF SafetyInv, TypeInv, TypeOK, Process
<1> HIDE DEF x
<1>5. UNCHANGED <<dirs, used, live, strays>> /\ lock' = lock
  BY <1>1 DEF agents, strays, locks
<1>6. d \notin live /\ live \ stray = {}
  <2>1. d \notin live BY <1>1, <1>2 DEF PlaceOK, Here
  <2> QED BY <1>2, <2>1, InTurnFacts, AgentIn DEF SafetyInv
<1>7. NoterStays BY <1>1, <1>3, Alone DEF NoterStays, SafetyInv, Here
<1>8. proc[p].kept \in Contents /\ auth'[r] = proc[p].kept
  BY <1>2, <1>3, InTurnFacts DEF Contents, SafetyInv, TypeInv, TypeOK
<1>9. Original(proc[p].kept, r) \/ (Saved(d) /\ home[d] = r)
  BY <1>1, <1>2, InTurnFacts DEF PlaceOK, Here
<1>10. DataOK'
  BY <1>2, <1>3, <1>5, <1>6, <1>7, <1>8, <1>9, InTurnFacts, AuthWritten
  DEF SafetyInv
<1>11. \A q : StrayIn(q)' <=> StrayIn(q) BY <1>5, SameStrays
<1>12. PlaceOK(p)'
  <2>1. Accounts \cap {Own} = {} OBVIOUS
  <2> QED BY <1>1, <1>2, <1>4, <1>5, <1>6, <1>8, <1>11, <2>1, InTurnFacts
          DEF PlaceOK, Here, Original, strays, Saved
<1> QED BY <1>1, <1>3, <1>4, <1>5, <1>10, <1>12, Goes DEF StepOK

\* The restoration begins only when the Agent is known to be gone.
LEMMA CloseSafe ==
  ASSUME SafetyInv, NEW p \in Procs, Close(p)
  PROVE  StepOK'
<1> DEFINE m == InState(p, CHILD_EXITED)
<1>1. Here(p) = "close" /\ Here(p) \in InTurn /\ PlaceOK(p)
      /\ UNCHANGED <<auth, active, used, agents, stray, budgets>>
  BY DEF Close, SafetyInv
<1>2. UNCHANGED <<auth, used, live, home, stray, strays>>
  BY <1>1 DEF agents, strays
<1>3. CASE proc[p].mem.state # CHILD_RUNNING /\ Go(p, "mark")
           /\ UNCHANGED <<dirs, locks>>
  <2>1. PICK x : /\ proc' = [proc EXCEPT ![p] = x] /\ proc'[p] = x
                 /\ x.at = "mark"
                 /\ x.tx = proc[p].tx /\ x.mem = proc[p].mem
                 /\ x.kept = proc[p].kept
                 /\ x.role = proc[p].role /\ x.lent = proc[p].lent
                 /\ x.bound = proc[p].bound
    BY <1>3, GoFacts
  <2>2. proc[p].tx \notin live BY <1>1, <1>3 DEF PlaceOK, Here
  <2>3. (\A r : StrayIn(r)' <=> StrayIn(r)) /\ (PlaceOK(p)' => StepOK')
    BY <1>1, <1>2, <1>3, <2>1, Moves DEF locks
  <2>4. PlaceOK(p)'
    BY <1>1, <1>2, <1>3, <2>1, <2>2, <2>3 DEF PlaceOK, Here, Original, Saved
  <2> QED BY <2>3, <2>4
<1>4. CASE /\ proc[p].tx \notin live /\ Save(p, m, "mark") /\ UNCHANGED locks
  <2>1. /\ m \in Record /\ m.role = proc[p].role /\ m.sha = proc[p].kept
        /\ m.state \notin Settled
    BY <1>1, InTurnFacts
    DEF InState, Record, States, Settled, INITIALIZED, PREPARED, PROJECTED,
        CHILD_RUNNING, CHILD_EXITED,
      RESTORING, RESTORED, RECOVERED
  <2> HIDE DEF m
  <2>2. PlaceOK(p)'
    <3>1. /\ proc'[p].at = "mark" /\ proc'[p].tx = proc[p].tx /\ proc'[p].mem = m
          /\ proc'[p].kept = proc[p].kept /\ proc'[p].role = proc[p].role
          /\ dirs'[proc[p].tx].rec = m /\ dirs'[proc[p].tx].there /\ m # NoRecord
          /\ dirs'[proc[p].tx].backup = dirs[proc[p].tx].backup
          /\ \A r : StrayIn(r)' <=> StrayIn(r)
      BY <1>1, <1>4, <2>1, Saves
    <3>2. home[proc[p].tx] = proc[p].role /\ proc[p].tx \notin stray
          /\ Original(proc[p].kept, proc[p].role)
      BY <1>1, InTurnFacts
    <3> QED BY <1>1, <1>2, <1>4, <2>1, <3>1, <3>2
            DEF PlaceOK, Here, Original, Saved
  <2> QED BY <1>1, <1>4, <2>1, <2>2, Saves
<1>5. CASE Leave(p) /\ UNCHANGED dirs BY <1>1, <1>2, <1>5, LeaveSafe
<1> QED BY <1>3, <1>4, <1>5 DEF Close

\* The record says that the original is back when it is.
LEMMA SealSafe ==
  ASSUME SafetyInv, NEW p \in Procs, Seal(p)
  PROVE  StepOK'
<1> DEFINE m == InState(p, RESTORED)
<1>1. Here(p) = "seal" /\ Here(p) \in InTurn /\ PlaceOK(p)
      /\ UNCHANGED <<auth, active, used, agents, stray, budgets>>
  BY DEF Seal, SafetyInv
<1>2. UNCHANGED <<auth, used, live, home, stray, strays>>
  BY <1>1 DEF agents, strays
<1>3. CASE /\ auth[proc[p].role] = proc[p].mem.sha
           /\ Save(p, m, "remove") /\ UNCHANGED locks
  <2>1. /\ m \in Record /\ m.role = proc[p].role /\ m.sha = proc[p].kept
    BY <1>1, InTurnFacts DEF InState, Record, States
  <2>2. proc[p].tx \notin live BY <1>1 DEF PlaceOK, Here
  <2>3. home[proc[p].tx] = proc[p].role /\ proc[p].tx \notin stray
        /\ Original(proc[p].kept, proc[p].role) /\ proc[p].mem.sha = proc[p].kept
    BY <1>1, InTurnFacts
  <2>4. RestoredIn(proc[p].tx) BY <1>3, <2>3 DEF RestoredIn
  <2> HIDE DEF m
  <2>5. PlaceOK(p)'
    <3>1. /\ proc'[p].at = "remove" /\ proc'[p].tx = proc[p].tx
          /\ proc'[p].mem = m
          /\ proc'[p].kept = proc[p].kept /\ proc'[p].role = proc[p].role
          /\ dirs'[proc[p].tx].there
          /\ \A r : StrayIn(r)' <=> StrayIn(r)
      BY <1>1, <1>3, <2>1, <2>2, <2>4, Saves
    <3> QED BY <1>1, <1>2, <2>1, <2>2, <2>3, <2>4, <3>1
            DEF PlaceOK, Here, Original, RestoredIn
  <2> QED BY <1>1, <1>3, <2>1, <2>2, <2>4, <2>5, Saves
<1>4. CASE Leave(p) /\ UNCHANGED dirs BY <1>1, <1>2, <1>4, LeaveSafe
<1> QED BY <1>3, <1>4 DEF Seal

\* The directory goes when the original is back.
LEMMA VerifyUndoSafe ==
  ASSUME SafetyInv, NEW p \in Procs, VerifyUndo(p)
  PROVE  StepOK'
<1>1. Here(p) = "verify" /\ Here(p) \in InTurn /\ PlaceOK(p)
      /\ UNCHANGED <<auth, active, dirs, used, agents, stray, budgets>>
  BY DEF VerifyUndo, SafetyInv
<1>2. UNCHANGED <<auth, used, live, home, stray, strays>>
  BY <1>1 DEF agents, strays
<1>3. CASE auth[proc[p].role] = proc[p].kept /\ Go(p, "uRemove")
           /\ UNCHANGED locks
  <2>1. PICK x : /\ proc' = [proc EXCEPT ![p] = x] /\ proc'[p] = x
                 /\ x.at = "uRemove"
                 /\ x.tx = proc[p].tx /\ x.mem = proc[p].mem
                 /\ x.kept = proc[p].kept
                 /\ x.role = proc[p].role /\ x.lent = proc[p].lent
                 /\ x.bound = proc[p].bound
    BY <1>3, GoFacts
  <2>2. home[proc[p].tx] = proc[p].role /\ Original(proc[p].kept, proc[p].role)
    BY <1>1, InTurnFacts
  <2>3. (\A r : StrayIn(r)' <=> StrayIn(r)) /\ (PlaceOK(p)' => StepOK')
    BY <1>1, <1>2, <1>3, <2>1, Moves DEF locks
  <2>4. PlaceOK(p)'
    BY <1>1, <1>2, <1>3, <2>1, <2>2, <2>3 DEF PlaceOK, Here, Original, RestoredIn
  <2> QED BY <2>3, <2>4
<1>4. CASE Leave(p) BY <1>1, <1>2, <1>4, LeaveSafe
<1> QED BY <1>3, <1>4 DEF VerifyUndo

-----------------------------------------------------------------------------
(***************************************************************************)
(* Exceptions, kills, and everything else.                                 *)
(***************************************************************************)

\* An exception in the turn kills the Agent first.
LEMMA FaultKillsSafe ==
  ASSUME SafetyInv, NEW p \in Procs, FaultKills(p), Fault(p)
  PROVE  StepOK'
<1> DEFINE d == proc[p].tx
<1>1. /\ Here(p) \in {"note", "agent"} /\ Here(p) \in InTurn /\ PlaceOK(p)
      /\ live' = live \ {d}
      /\ UNCHANGED <<auth, active, dirs, used, locks, home, reused, stray>>
  BY DEF FaultKills, Fault, SafetyInv
<1>2. PICK m \in {proc[p].mem, IF Here(p) = "note" THEN Identified(p)
                               ELSE InState(p, CHILD_EXITED)} :
        proc' = [proc EXCEPT ![p].at = "close", ![p].mem = m]
  BY DEF FaultKills
<1>3. m.role = proc[p].role /\ m.sha = proc[p].kept /\ m.state \notin Settled
  <2>1. PlaceOK(p) /\ proc[p].mem \in Record /\ proc[p].mem.role = proc[p].role
        /\ proc[p].mem.sha = proc[p].kept
    BY <1>1, InTurnFacts
  <2>2. proc[p].mem.state \notin Settled BY <1>1, <2>1 DEF PlaceOK, Here
  <2> QED BY <1>2, <2>1, <2>2
          DEF Identified, InState, Record, Settled, INITIALIZED, PREPARED,
              PROJECTED, CHILD_RUNNING, CHILD_EXITED,
      RESTORING, RESTORED, RECOVERED
<1> DEFINE x == [proc[p] EXCEPT !.at = "close", !.mem = m]
<1>4. /\ proc' = [proc EXCEPT ![p] = x] /\ x.at = "close" /\ x.tx = d /\ x.mem = m
      /\ x.kept = proc[p].kept /\ x.role = proc[p].role
  <2>1. proc' = [proc EXCEPT ![p] = x] BY <1>2
  <2>2. proc[p] \in Process BY DEF SafetyInv, TypeInv, TypeOK
  <2> HIDE DEF d
  <2> QED BY <2>1, <2>2 DEF Process, d
<1> HIDE DEF x
<1>5. proc'[p] = x /\ (\A r : StrayIn(r)' <=> StrayIn(r)) /\ (PlaceOK(p)' => StepOK')
  BY <1>1, <1>4, Moves DEF locks
<1>6. home[d] = proc[p].role /\ d \notin stray
      /\ Original(proc[p].kept, proc[p].role)
      /\ dirs[d].there
  BY <1>1, InTurnFacts
<1>7. Saved(d) BY <1>1 DEF PlaceOK, Here
<1>8. PlaceOK(p)'
  BY <1>1, <1>3, <1>4, <1>5, <1>6, <1>7 DEF PlaceOK, Original, Saved
<1> QED BY <1>5, <1>8

\* Any other exception leaves, or moves on to the cleanup.
LEMMA FaultSafe ==
  ASSUME SafetyInv, NEW p \in Procs, Fault(p)
  PROVE  StepOK'
<1>1. UNCHANGED <<auth, active, used, home, stray, strays>>
  BY DEF Fault, strays
<1>2. CASE FaultLeaves(p)
  BY <1>1, <1>2, LeaveSafe DEF FaultLeaves
<1>3. CASE FaultInSetup(p)
  <2>1. Here(p) \in Setup /\ PlaceOK(p) /\ Go(p, "undo")
        /\ UNCHANGED <<live, lock>>
    BY <1>3 DEF FaultInSetup, SafetyInv, locks
  <2>5. CASE UNCHANGED dirs
    BY <1>1, <2>1, <2>5, GoesToUndo DEF strays
  <2>6. CASE /\ Here(p) = "confirm"
             /\ dirs' = [dirs EXCEPT ![proc[p].tx].rec = InState(p, PROJECTED)]
    BY <1>1, <2>1, <2>6, ProjectedThenUndo DEF strays
  <2> QED BY <1>3, <2>5, <2>6 DEF FaultInSetup
<1>4. CASE FaultInLaunch(p) \/ FaultSpares(p)
  <2>1. Here(p) \in {"launch", "agent"} /\ PlaceOK(p) /\ Go(p, "close")
        /\ UNCHANGED <<live, lock, dirs>>
    BY <1>4 DEF FaultInLaunch, FaultSpares, SafetyInv, locks
  <2>2. PICK x : /\ proc' = [proc EXCEPT ![p] = x] /\ proc'[p] = x
                 /\ x.at = "close"
                 /\ x.tx = proc[p].tx /\ x.mem = proc[p].mem
                 /\ x.kept = proc[p].kept
                 /\ x.role = proc[p].role
    BY <2>1, GoFacts
  <2>3. (\A r : StrayIn(r)' <=> StrayIn(r)) /\ (PlaceOK(p)' => StepOK')
    BY <1>1, <2>1, <2>2, Moves
  <2>4. PlaceOK(p)' BY <1>1, <2>1, <2>2, <2>3 DEF PlaceOK, Here, Original, Saved
  <2> QED BY <2>3, <2>4
<1> QED BY <1>2, <1>3, <1>4, FaultKillsSafe DEF Fault

\* What a killed process leaves behind can be restored; an Agent it had not
\* recorded is a stray.
LEMMA CrashSafe ==
  ASSUME SafetyInv, NEW p \in Procs, Crash(p)
  PROVE  StepOK'
<1> DEFINE d == proc[p].tx
           x == Rested(None)
<1>1. /\ Here(p) # "idle" /\ proc' = [proc EXCEPT ![p] = x] /\ Unlock(p)
      /\ stray' = IF Here(p) = "note" THEN stray \cup {d} ELSE stray
      /\ UNCHANGED <<auth, active, used, live, home, reused>>
      /\ \/ UNCHANGED dirs
         \/ Here(p) = "backup" /\ dirs' = [dirs EXCEPT ![d].temp = TRUE]
  BY DEF Crash, agents
<1>2. x.at = "idle" BY DEF Rested
<1>3. proc'[p] = x /\ \A q \in Procs : q # p => proc'[q] = proc[q]
  BY <1>1 DEF SafetyInv, TypeInv, TypeOK
<1> HIDE DEF x
<1>4. CASE Here(p) = "look"
  <2>1. UNCHANGED strays BY <1>1, <1>4 DEF strays
  <2>2. DataOK' BY <1>1, <1>3, <1>4, <2>1, DataStays DEF SafetyInv, Here
  <2>3. lock # p BY <1>4 DEF SafetyInv, LockOK
  <2>4. lock' = lock BY <1>1, <2>3 DEF Unlock
  <2>5. LockOK' BY <1>2, <1>3, <1>4, <2>4 DEF SafetyInv, LockOK, Here
  <2>6. ASSUME NEW q \in Procs PROVE PlaceOK(q)'
    <3>1. CASE q = p BY <1>2, <1>3, <3>1 DEF PlaceOK
    <3>2. CASE q # p
      BY <1>1, <1>3, <1>4, <2>1, <3>2, PlaceStays DEF SafetyInv, strays
    <3> QED BY <3>1, <3>2
  <2> QED BY <2>2, <2>5, <2>6 DEF StepOK
<1>5. CASE Here(p) \notin Free
  <2>1. LockOK' /\ \A q \in Procs : PlaceOK(q)'
    BY <1>1, <1>2, <1>5, Leaves
  <2>2. \A q \in Procs : q # p => Here(q) # "note" BY <1>5, Alone DEF SafetyInv
  <2>5. CASE /\ Here(p) = "backup"
             /\ dirs' = [dirs EXCEPT ![d].temp = TRUE]
    <3>1. d \in Ids /\ live \ stray = {} BY <2>5, InTurnFacts, SetupFacts
    <3>2. UNCHANGED strays BY <1>1, <2>5 DEF strays
    <3> HIDE DEF d
    <3>3. DataOK' BY <1>1, <2>5, <3>1, <3>2, TempLeft DEF SafetyInv
    <3> QED BY <2>1, <3>3 DEF StepOK
  <2>3. CASE Here(p) # "note" /\ UNCHANGED dirs
    <3>1. UNCHANGED strays BY <1>1, <2>3 DEF strays
    <3>2. DataOK' BY <1>1, <2>2, <2>3, <3>1, DataStays DEF SafetyInv
    <3> QED BY <2>1, <3>2 DEF StepOK
  <2>4. CASE Here(p) = "note" /\ UNCHANGED dirs
    <3>1. PlaceOK(p) /\ Here(p) \in InTurn BY <2>4 DEF SafetyInv
    <3>2. d \in Ids /\ dirs[d].there /\ stray' = stray \cup {d}
      BY <1>1, <2>4, <3>1, InTurnFacts
    <3>3. ~dirs[d].rec.child BY <2>4, <3>1 DEF PlaceOK, Here
    <3>4. \A r : StrayIn(r) => StrayIn(r)' BY <1>1, <3>2 DEF StrayIn
    <3>5. live' \ stray' = {}
      <4>1. live \ stray \subseteq {d} BY <3>2, AgentIn DEF SafetyInv
      <4> QED BY <1>1, <3>2, <4>1
    <3> HIDE DEF d
    <3>6. \A e \in Ids : DirOK(e)'
      BY <1>1, <2>4, <3>2, <3>3, <3>4 DEF SafetyInv, DataOK, DirOK, Original
    <3>7. OneDirectory' BY <2>4 DEF SafetyInv, DataOK, OneDirectory
    <3>8. ProjectionSaved'
      BY <1>1, <2>4, <3>4 DEF SafetyInv, DataOK, ProjectionSaved, Saved
    <3>9. AgentsOK' BY <3>5 DEF AgentsOK
    <3> QED BY <2>1, <3>6, <3>7, <3>8, <3>9 DEF StepOK, DataOK
  <2> QED BY <1>1, <2>3, <2>4, <2>5
<1> QED BY <1>1, <1>4, <1>5

\* What an Agent writes does not matter, because its home can be restored or it
\* is a stray.
LEMMA AgentWritesSafe ==
  ASSUME SafetyInv, NEW e \in Ids, AgentWrites(e)
  PROVE  StepOK'
<1>1. /\ e \in live /\ auth' = [auth EXCEPT ![home[e]] = Changed]
      /\ UNCHANGED <<active, dirs, used, lock, proc, live, home, stray, strays>>
  BY DEF AgentWrites, locks, agents, strays
<1>2. home[e] \in Roles BY <1>1 DEF SafetyInv, DataOK, DirOK
<1>3. StrayIn(home[e]) \/ Saved(e)
  BY <1>1 DEF SafetyInv, DataOK, AgentsOK, StrayIn
<1>4. \A r : StrayIn(r)' <=> StrayIn(r) BY <1>1, SameStrays
<1>5. DataOK'
  <2>1. NoterStays BY <1>1 DEF NoterStays, Here
  <2>2. Changed \in Contents /\ Changed # Own BY DEF Contents
  <2> QED BY <1>1, <1>2, <1>3, <2>1, <2>2, AuthWritten DEF SafetyInv, Original
<1>6. LockOK' BY <1>1 DEF SafetyInv, LockOK, Here
<1>7. ASSUME NEW q \in Procs PROVE PlaceOK(q)'
  <2> DEFINE d == proc[q].tx
  <2>1. CASE Here(q) \notin InTurn \cup Holding
    BY <1>1, <1>4, <2>1 DEF SafetyInv, PlaceOK, NothingLeft, Original, Here
  <2>2. CASE Here(q) \in InTurn \cup Holding
    <3>1. PlaceOK(q) /\ d \in Ids /\ dirs[d].there
      BY <2>2 DEF SafetyInv, TypeInv, Typed, PlaceOK, Here
    <3>2. e \in stray \/ e = d
      BY <1>1, <3>1, AgentIn DEF SafetyInv
    <3>3. \A r \in Roles : auth'[r] = IF r = home[e] THEN Changed ELSE auth[r]
      BY <1>1, <1>2 DEF SafetyInv, TypeInv, TypeOK
    <3>4. Here(q) \in {"confirm", "launch"} => stray # {}
      BY <1>1, <3>1, <3>2 DEF PlaceOK, Here
    <3>5. home[d] \in Roles BY <3>1 DEF SafetyInv, DataOK, DirOK
    <3>6. Here(q) \in InTurn => proc[q].role = home[d] BY <3>1 DEF PlaceOK, Here
    <3>7. Here(q) \in {"remove", "uRemove", "rRemove"} => RestoredIn(d)'
      <4> SUFFICES ASSUME Here(q) \in {"remove", "uRemove", "rRemove"}
                   PROVE  Original(auth'[home[d]], home[d])
        BY <1>1, <1>4 DEF RestoredIn, Original
      <4>1. Original(auth[home[d]], home[d]) BY <3>1 DEF PlaceOK, RestoredIn, Here
      <4>2. e \in stray BY <1>1, <3>1, <3>2 DEF PlaceOK, Here
      <4> QED BY <3>3, <3>5, <4>1, <4>2 DEF Original, StrayIn
    <3>8. Here(q) \in {"confirm", "launch", "note", "agent"}
            => auth'[proc[q].role] # Own
      BY <3>1, <3>3, <3>5, <3>6 DEF PlaceOK, Here
    <3>9. proc'[q] = proc[q] /\ Here(q)' = Here(q) BY <1>1 DEF Here
    <3> HIDE DEF d
    <3> QED BY <1>1, <1>4, <3>1, <3>4, <3>7, <3>8, <3>9
            DEF PlaceOK, NothingLeft, Original, Saved, Here, d
  <2> QED BY <2>1, <2>2
<1> QED BY <1>5, <1>6, <1>7 DEF StepOK

\* Everything else around the processes touches no file of theirs.
LEMMA EnvironmentSafe ==
  ASSUME SafetyInv, Environment
  PROVE  StepOK'
<1>1. CASE \E e \in Ids : AgentWrites(e) BY <1>1, AgentWritesSafe
<1>2. CASE \/ \E e \in Ids : AgentExits(e) \/ PidReused(e) \/ PidFreed(e)
           \/ AccountChanges
  <2>1. UNCHANGED <<auth, dirs, used, lock, proc, home, stray, strays>>
        /\ live' \subseteq live
    BY <1>2
    DEF AgentExits, PidReused, PidFreed, AccountChanges, locks, agents, strays
  <2>2. DataOK' BY <2>1, DataStays DEF SafetyInv, Here
  <2>3. LockOK' BY <2>1 DEF SafetyInv, LockOK, Here
  <2>4. \A r : StrayIn(r)' <=> StrayIn(r) BY <2>1, SameStrays
  <2>5. ASSUME NEW q \in Procs PROVE PlaceOK(q)'
    <3>1. PlaceOK(q) BY DEF SafetyInv
    <3> QED BY <2>1, <2>4, <3>1
            DEF PlaceOK, NothingLeft, Original, RestoredIn, Saved
  <2> QED BY <2>2, <2>3, <2>5 DEF StepOK
<1> QED BY <1>1, <1>2 DEF Environment

-----------------------------------------------------------------------------
(***************************************************************************)
(* The invariant, and what it is for.                                      *)
(***************************************************************************)
\* At the beginning every home is as it was.
LEMMA InitSafe == Init => SafetyInv
<1> SUFFICES ASSUME Init PROVE SafetyInv OBVIOUS
<1>1. TypeInv BY InitTyped
<1>2. \A p \in Procs : Here(p) = "idle" BY DEF Init, Here, Rested
<1>3. LockOK BY <1>2 DEF LockOK, Init
<1>4. \A p \in Procs : PlaceOK(p) BY <1>2 DEF PlaceOK, Here
<1>5. \A d \in Ids : DirOK(d) BY DEF Init, DirOK, NoDirectory
<1>6. OneDirectory BY DEF Init, OneDirectory, NoDirectory
<1>7. ProjectionSaved /\ AgentsOK BY DEF Init, ProjectionSaved, AgentsOK
<1> QED BY <1>1, <1>3, <1>4, <1>5, <1>6, <1>7 DEF SafetyInv, DataOK

\* Every step keeps it.
LEMMA NextSafe == SafetyInv /\ [Next]_vars => SafetyInv'
<1> SUFFICES ASSUME SafetyInv, [Next]_vars PROVE SafetyInv' OBVIOUS
<1>1. TypeInv' BY NextTyped DEF SafetyInv
<1> SUFFICES StepOK' BY <1>1 DEF SafetyInv, StepOK
<1>2. CASE UNCHANGED vars
  <2>1. UNCHANGED <<auth, dirs, used, lock, proc, live, home, stray, strays>>
    BY <1>2 DEF vars, locks, agents, strays
  <2>2. LockOK' BY <2>1 DEF SafetyInv, LockOK, Here
  <2>3. DataOK' BY <2>1, DataStays DEF SafetyInv, Here
  <2>4. ASSUME NEW q \in Procs PROVE PlaceOK(q)' BY <2>1, PlaceStays DEF SafetyInv
  <2> QED BY <2>2, <2>3, <2>4 DEF StepOK
<1>3. CASE Environment BY <1>3, EnvironmentSafe
<1>4. ASSUME NEW p \in Procs, Acquire(p) \/ Fault(p) \/ Crash(p) PROVE StepOK'
  BY <1>4, AcquireSafe, FaultSafe, CrashSafe
<1>5. ASSUME NEW p \in Procs, Recovers(p) PROVE StepOK'
  BY <1>5, RecoverNextSafe, RecoverMarkSafe, RecoverRestoreSafe,
     RecoverSealSafe, RecoverDoneSafe, LookSafe DEF Recovers
<1>6. ASSUME NEW p \in Procs, SetsUp(p) PROVE StepOK'
  BY <1>6, BeginSafe, MakeDirectorySafe, WriteFirstRecordSafe,
     WriteBackupSafe, PrepareSafe, ProjectSafe, ConfirmSafe DEF SetsUp
<1>7. ASSUME NEW p \in Procs, Runs(p) PROVE StepOK'
  BY <1>7, LaunchSafe, NoteChildSafe, ChildStoppedSafe DEF Runs
<1>8. ASSUME NEW p \in Procs, CleansUp(p) PROVE StepOK'
  BY <1>8, CloseSafe, MarkSafe, RestoreSafe, SealSafe, UndoSafe,
     VerifyUndoSafe DEF CleansUp
<1> QED BY <1>2, <1>3, <1>4, <1>5, <1>6, <1>7, <1>8, RemoveSafe DEF Next, GoesOn

\* It holds always.
LEMMA SafetyInvariant == Spec => []SafetyInv
<1> QED BY InitSafe, NextSafe, PTL DEF Spec

\* The switch lock, and recovery before setup, leave at most one transaction
\* and one recorded Agent at a time, over all kills and restarts.
THEOREM OneTransactionAlways == Spec => []OneTransaction
<1>1. SafetyInv => OneTransaction
  <2> SUFFICES ASSUME SafetyInv PROVE OneTransaction OBVIOUS
  <2>1. \A d \in live \ stray : dirs[d].there
    BY DEF SafetyInv, DataOK, AgentsOK, Saved
  <2> QED BY <2>1
          DEF SafetyInv, DataOK, OneDirectory, TypeInv, TypeOK, OneTransaction
<1> QED BY <1>1, SafetyInvariant, PTL

\* Whenever a role's auth.json is not its own, the directory on disk has the
\* original bytes, and recovery takes them: whoever was killed, wherever.
THEOREM OriginalRecoverableAlways == Spec => []OriginalRecoverable
<1>1. SafetyInv => OriginalRecoverable
  <2> SUFFICES ASSUME SafetyInv, NEW r \in Roles, auth[r] # Own, ~StrayIn(r)
               PROVE  \E d \in Ids : Recoverable(d, r)
    BY DEF OriginalRecoverable
  <2>1. PICK d \in Ids : Saved(d) /\ home[d] = r
    BY DEF SafetyInv, DataOK, ProjectionSaved
  <2>2. DirOK(d) BY DEF SafetyInv, DataOK
  <2> QED BY <2>1, <2>2 DEF Recoverable, Saved, DirOK, Original, Settled
<1> QED BY <1>1, SafetyInvariant, PTL

\* A recorded Agent that lives keeps its credential: neither a recovery nor
\* the cleanup of its own turn takes it away.
THEOREM ProjectedWhileRunningAlways == Spec => []ProjectedWhileRunning
<1>1. SafetyInv => ProjectedWhileRunning
  BY
  DEF SafetyInv, DataOK, DirOK, AgentsOK, ProjectedWhileRunning, TypeInv, TypeOK
<1> QED BY <1>1, SafetyInvariant, PTL

\* An Agent starts with the account its run is bound to.
THEOREM LaunchesBoundAccountAlways == Spec => LaunchesBoundAccount
<1> DEFINE A == \A p \in Procs : Launch(p) /\ stray = {} =>
                  auth[proc[p].role] = proc[p].bound
<1>1. SafetyInv => A BY DEF SafetyInv, PlaceOK, Launch, Here
<1>2. SafetyInv => [A]_vars BY <1>1
<1> QED BY <1>2, SafetyInvariant, PTL DEF LaunchesBoundAccount
=============================================================================
