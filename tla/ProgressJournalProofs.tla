----------------------- MODULE ProgressJournalProofs -----------------------
(***************************************************************************)
(* The event log and its checkpoint, for any number of ticks, tool calls,  *)
(* kills and I/O errors: the types, the order of the elapsed times, what   *)
(* the last event of a run says, and that a run which was only killed can  *)
(* be resumed.                                                             *)
(*                                                                         *)
(* The argument.  A live process is ahead of both files ("Ahead"): its     *)
(* clock has reached what the checkpoint and the last event say, so that   *)
(* whatever it appends or writes does not go back.  The stage's clock is   *)
(* set to zero by a persist that changes the state, which is harmless as   *)
(* the new state is neither on disk ("StateWritten") nor in the last event *)
(* ("StateLogged").  Without an I/O error the process agrees with its      *)
(* checkpoint and knows every event of the suffix ("Agreed"), so that each *)
(* write empties the suffix; where the process is then says which event    *)
(* comes next ("OutcomeWhere", "StateWhere", "RoleWhere", "TurnWhere"),    *)
(* and that event fits ("Fitting").                                        *)
(***************************************************************************)
EXTENDS ProgressJournal, SequenceTheorems, TLAPS

Alive == pc \notin {"down", "ended"}
Modes == {"try", "handler", "last", "resume"}

\* A stage is not older than its run.
Timed(e) == e.stage <= e.run

TypeInv ==
  /\ TypeOK
  /\ Timed(ck) /\ Timed(base) /\ Timed(mem)
  /\ \A i \in DOMAIN suffix : Timed(suffix[i])

\* Places where a failed write may have parted memory and checkpoint.
Unwritten == {"raise", "again", "return", "handler"}

Ahead ==
  /\ mem.run >= ck.run /\ mem.run >= Last.run
  /\ mem.state = ck.state => mem.stage >= ck.stage
  /\ mem.obs /\ mem.state = Last.state => mem.stage >= Last.stage

StateWritten ==
  /\ pc \notin Unwritten => mem.state = ck.state
  /\ pc \in {"raise", "handler"} /\ mem.state # ck.state =>
       ck.state \notin Stopped \/ mem.state \in EVIDENCE_CONTROL_STATES

StateLogged ==
  mem.obs /\ pc \notin {"mark", "raise", "again", "return"}
    => mem.state = Last.state

TimeInv == Scans /\ (Alive => Ahead /\ StateWritten /\ StateLogged)

Agreed == /\ mem.obs /\ mem.known = Len(suffix)
          /\ mem.state = ck.state /\ mem.out = ck.out /\ mem.pub = ck.pub

\* The state marker of a persist is on the way to the place behind it.
NextPlace == IF pc = "mark" THEN then ELSE pc
Deciding == {"logical_outcome", "finish", "evidence_finalization", "return"}
Behind   == {"loop", "route", "go", "correction"} \cup Deciding

\* The run is decided where its outcome is announced, published or returned.
OutcomeWhere ==
  /\ ck.state \in Stopped \cup EVIDENCE_CONTROL_STATES => ck.out # "none"
  /\ Alive /\ (NextPlace \in Deciding \/ pc = "again" \/ mode = "handler")
       => ck.out # "none"

StateWhere == Alive =>
  /\ pc = "mark" => then \in Behind
  /\ NextPlace = "correction" => mem.state = "REVIEW_CORRECTION_PENDING"
  /\ NextPlace = "logical_outcome" => mem.state \in Stopped \cup Transition
  /\ NextPlace = "evidence_finalization" => mem.state \in EVIDENCE_CONTROL_STATES

RoleWhere ==
  /\ pc \in {"mark", "correction", "logical_outcome", "evidence_finalization"}
       => mem.role = ck.role
  /\ pc = "turn" => \/ ck.state = "INSTRUCTION_READY"
                    \/ ck.state \in TURN_CONTROL_STATES /\ mem.role = ck.role

\* The events of s end inside a turn: InTurn behind the last of them.
Inside(s) ==
  \E j \in 1 .. Len(s) :
    /\ s[j].type = "turn_started"
    /\ \A k \in j + 1 .. Len(s) : s[k].type \notin {"turn_finished", "run_resumed"}

\* The log is inside a turn exactly when the process is.
TurnWhere ==
  /\ pc = "turn" <=> mem.open
  /\ pc = "turn" <=> Inside(suffix)
  /\ IF pc = "turn" THEN mem.tools >= Last.tools ELSE mem.tools = Last.tools
  /\ pc = "mark" => suffix = <<>>
  /\ suffix # <<>> => Last.type # "run_finished"

Fitting == Erring \/ Refreshing \/ \A i \in DOMAIN suffix : Fits(i)

KillInv == faults = 0 =>
  /\ Fitting /\ OutcomeWhere /\ StateWhere
  /\ ck.role = progress_role(ck.state)
  /\ Alive => Agreed /\ RoleWhere /\ TurnWhere
  /\ EndAgrees

-----------------------------------------------------------------------------
(***************************************************************************)
(* The suffix as a sequence, and the types.                                *)
(***************************************************************************)

\* Indices and elements of the suffix.
LEMMA SuffixFacts ==
  ASSUME TypeInv
  PROVE  /\ Len(suffix) \in Nat /\ DOMAIN suffix = 1 .. Len(suffix)
         /\ suffix = <<>> <=> Len(suffix) = 0
         /\ \A i \in 1 .. Len(suffix) : suffix[i] \in Event /\ Timed(suffix[i])
         /\ Last = IF Len(suffix) = 0 THEN base ELSE suffix[Len(suffix)]
         /\ Last \in Event /\ Timed(Last)
<1>1. suffix \in Seq(Event) /\ base \in Event /\ Timed(base)
  BY DEF TypeInv, TypeOK
<1>2. Len(suffix) \in Nat /\ DOMAIN suffix = 1 .. Len(suffix)
  BY <1>1, LenProperties
<1>3. suffix = <<>> <=> Len(suffix) = 0
  BY <1>1, <1>2, EmptySeq
<1>4. \A i \in 1 .. Len(suffix) : suffix[i] \in Event /\ Timed(suffix[i])
  BY <1>1, <1>2, ElementOfSeq DEF TypeInv
<1>5. Last = IF Len(suffix) = 0 THEN base ELSE suffix[Len(suffix)]
  BY <1>3 DEF Last
<1> QED
  BY <1>1, <1>2, <1>3, <1>4, <1>5

\* An appended event is the last one, and the others stay where they are.
LEMMA AppendFacts ==
  ASSUME TypeInv, NEW e \in Event, Timed(e), suffix' = Append(suffix, e)
  PROVE  /\ suffix' \in Seq(Event) /\ Len(suffix') = Len(suffix) + 1
         /\ DOMAIN suffix' = 1 .. Len(suffix) + 1
         /\ \A i \in 1 .. Len(suffix) : suffix'[i] = suffix[i]
         /\ suffix'[Len(suffix) + 1] = e
         /\ \A i \in DOMAIN suffix' : Timed(suffix'[i])
         /\ suffix' # <<>> /\ Last' = e
<1>1. suffix \in Seq(Event)
  BY DEF TypeInv, TypeOK
<1>2. Len(suffix) \in Nat
  BY SuffixFacts
<1>3. /\ suffix' \in Seq(Event) /\ Len(suffix') = Len(suffix) + 1
      /\ \A i \in 1 .. Len(suffix) : suffix'[i] = suffix[i]
      /\ suffix'[Len(suffix) + 1] = e
  BY <1>1, AppendProperties
<1>4. DOMAIN suffix' = 1 .. Len(suffix) + 1
  BY <1>3, LenProperties
<1>5. suffix' # <<>>
  BY <1>2, <1>3, EmptySeq
<1>6. Last' = e
  BY <1>3, <1>5 DEF Last
<1>7. ASSUME NEW i \in DOMAIN suffix' PROVE Timed(suffix'[i])
  <2>1. CASE i = Len(suffix) + 1
    BY <2>1, <1>3
  <2>2. CASE i # Len(suffix) + 1
    <3>1. i \in 1 .. Len(suffix)
      BY <2>2, <1>2, <1>4
    <3> QED
      BY <3>1, <1>3, SuffixFacts
  <2> QED
    BY <2>1, <2>2
<1> QED
  BY <1>3, <1>4, <1>5, <1>6, <1>7

\* A write moves the cursor over k events: the last event stays the last.
LEMMA CursorFacts ==
  ASSUME TypeInv, NEW k \in Nat, k <= Len(suffix),
         base' = IF k = 0 THEN base ELSE suffix[k],
         suffix' = SubSeq(suffix, k + 1, Len(suffix))
  PROVE  /\ base' \in Event /\ Timed(base)'
         /\ suffix' \in Seq(Event) /\ Len(suffix') = Len(suffix) - k
         /\ DOMAIN suffix' = 1 .. Len(suffix) - k
         /\ \A i \in 1 .. Len(suffix) - k : suffix'[i] = suffix[k + i]
         /\ \A i \in DOMAIN suffix' : Timed(suffix'[i])
         /\ Last' = Last
         /\ k = Len(suffix) => suffix' = <<>>
<1> DEFINE n == Len(suffix)
<1>1. suffix \in Seq(Event) /\ base \in Event /\ Timed(base)
  BY DEF TypeInv, TypeOK
<1>2. n \in Nat /\ \A i \in 1 .. n : suffix[i] \in Event /\ Timed(suffix[i])
  BY SuffixFacts
<1>3. base' \in Event /\ Timed(base')
  BY <1>1, <1>2
<1>4. k + 1 \in Int /\ n \in Int /\ \A i \in k + 1 .. n : suffix[i] \in Event
  BY <1>2
<1>5. /\ suffix' \in Seq(Event)
      /\ Len(suffix') = IF k + 1 <= n THEN n - (k + 1) + 1 ELSE 0
      /\ \A i \in 1 .. n - (k + 1) + 1 : suffix'[i] = suffix[(k + 1) + i - 1]
  BY <1>4, SubSeqProperties
<1>6. Len(suffix') = n - k
  BY <1>2, <1>5
<1>7. \A i \in 1 .. n - k : suffix'[i] = suffix[k + i]
  <2> SUFFICES ASSUME NEW i \in 1 .. n - k
               PROVE  suffix'[i] = suffix[k + i]
    OBVIOUS
  <2>1. i \in 1 .. n - (k + 1) + 1 /\ (k + 1) + i - 1 = k + i
    BY <1>2
  <2> QED
    BY <2>1, <1>5
<1>8. DOMAIN suffix' = 1 .. n - k
  BY <1>5, <1>6, LenProperties
<1>9. \A i \in DOMAIN suffix' : Timed(suffix'[i])
  <2> SUFFICES ASSUME NEW i \in 1 .. n - k
               PROVE  Timed(suffix'[i])
    BY <1>8
  <2>1. k + i \in 1 .. n
    BY <1>2
  <2> QED
    BY <2>1, <1>2, <1>7
<1>10. suffix' = <<>> <=> n = k
  BY <1>2, <1>5, <1>6, EmptySeq
<1>11. Last' = Last
  <2>1. CASE n = k
    BY <2>1, <1>2, <1>10, SuffixFacts DEF Last
  <2>2. CASE n # k
    <3>1. n - k \in 1 .. n - k /\ k + (n - k) = n /\ n # 0
      BY <2>2, <1>2
    <3>2. suffix'[n - k] = suffix[n]
      BY <3>1, <1>7
    <3> QED
      BY <2>2, <3>1, <3>2, <1>6, <1>10, SuffixFacts DEF Last
  <2> QED
    BY <2>1, <2>2
<1> QED
  BY <1>3, <1>5, <1>6, <1>7, <1>8, <1>9, <1>10, <1>11 DEF Timed

\* The event a method of ProgressStatus makes has its type.
LEMMA EventTyped ==
  ASSUME NEW type \in EVENT_TYPES, NEW m \in Memory, Timed(m)
  PROVE  EventOf(type, m) \in Event /\ Timed(EventOf(type, m))
BY DEF EventOf, Event, Memory, Timed

\* The outcomes of a record, whatever the event says.
LEMMA RecordFacts ==
  ASSUME TypeInv, NEW type \in EVENT_TYPES, NEW m \in Memory, Timed(m),
         m.known = mem.known, Record(type, m)
  PROVE  \/ /\ m.obs /\ suffix' = Append(suffix, EventOf(type, m))
            /\ mem' = [m EXCEPT !.known = mem.known + 1] /\ faults' = faults
         \/ /\ m.obs /\ Upset /\ faults' = faults + 1
            /\ mem' = [m EXCEPT !.obs = FALSE]
            /\ suffix' = suffix \/ suffix' = Append(suffix, EventOf(type, m))
         \/ ~m.obs /\ UNCHANGED <<suffix, mem, faults>>
BY DEF Record

\* Recording keeps the types.
LEMMA RecordTyped ==
  ASSUME TypeInv, NEW type \in EVENT_TYPES, NEW m \in Memory, Timed(m),
         m.known = mem.known, Record(type, m),
         UNCHANGED <<ck, base, then, kills>>, mode' \in Modes, pc' \in Places
  PROVE  TypeInv'
<1> DEFINE e == EventOf(type, m)
<1>1. e \in Event /\ Timed(e)
  BY EventTyped
<1>2. /\ mem.known \in Nat /\ mem.known <= Len(suffix) /\ Len(suffix) \in Nat
      /\ suffix \in Seq(Event) /\ \A i \in DOMAIN suffix : Timed(suffix[i])
      /\ mem \in Memory /\ Timed(mem)
  BY SuffixFacts DEF TypeInv, TypeOK, Memory
<1>3. kills \in Nat /\ faults \in Nat /\ kills + faults <= MaxUpsets
      /\ MaxUpsets \in Nat
  BY ConstantsAssumption DEF TypeInv, TypeOK
<1> HIDE DEF e
<1>4. \/ suffix' = suffix \/ suffix' = Append(suffix, e)
  BY RecordFacts DEF e
<1>5. /\ suffix' \in Seq(Event) /\ Len(suffix') \in Nat
      /\ Len(suffix) <= Len(suffix') /\ \A i \in DOMAIN suffix' : Timed(suffix'[i])
  BY <1>1, <1>2, <1>4, AppendFacts
<1>6. faults' \in Nat /\ kills' + faults' <= MaxUpsets
  BY <1>3, RecordFacts DEF Upset
<1>7. mem' \in Memory /\ mem'.known <= Len(suffix') /\ Timed(mem')
  <2>1. CASE suffix' = Append(suffix, e)
             /\ mem' = [m EXCEPT !.known = mem.known + 1]
    <3>1. mem.known + 1 \in Nat /\ mem.known + 1 <= Len(suffix')
      BY <2>1, <1>1, <1>2, AppendFacts
    <3> QED
      BY <2>1, <3>1 DEF Memory, Timed
  <2>2. CASE mem' = [m EXCEPT !.obs = FALSE]
    <3>1. mem' \in Memory /\ Timed(mem') /\ mem'.known = mem.known
      BY <2>2 DEF Memory, Timed
    <3>2. mem.known <= Len(suffix')
      BY <1>2, <1>5
    <3> QED
      BY <3>1, <3>2
  <2>3. CASE suffix' = suffix /\ mem' = mem
    BY <2>3, <1>2
  <2> QED
    BY <2>1, <2>2, <2>3, RecordFacts DEF e
<1> QED
  BY <1>3, <1>5, <1>6, <1>7 DEF TypeInv, TypeOK, Timed, Modes

\* prepare_state keeps the types and the clock of the run.
LEMMA PreparedFacts ==
  ASSUME TypeInv, NEW s \in States, NEW out \in Outcomes, NEW failed \in BOOLEAN
  PROVE  LET m == Prepared(s, out, failed) IN
         /\ m \in Memory /\ Timed(m)
         /\ m.state = s /\ m.out = out /\ m.role = progress_role(s)
         /\ m.tools = mem.tools /\ m.run = mem.run
         /\ m.stage = IF s = mem.state THEN mem.stage ELSE 0
         /\ m.open = mem.open /\ m.known = mem.known /\ m.obs = mem.obs
<1>1. mem \in Memory /\ Timed(mem)
  BY DEF TypeInv, TypeOK
<1>2. progress_role(s) \in ROLES
  BY DEF progress_role, ROLES
<1>3. Publication(s, out, failed) \in Publications
  BY DEF Publication, Publications
<1> DEFINE g == IF s = mem.state THEN mem.stage ELSE 0
           p == Publication(s, out, failed)
           r == progress_role(s)
<1>4. g \in Time /\ g <= mem.run
  BY <1>1, ConstantsAssumption DEF Memory, Timed, Time
<1> HIDE DEF p, r
<1>5. Prepared(s, out, failed)
        = [mem EXCEPT !.state = s, !.role = r, !.out = out, !.pub = p,
                      !.stage = g]
  BY DEF Prepared, p, r
<1> HIDE DEF g
<1> DEFINE m == [mem EXCEPT !.state = s, !.role = r, !.out = out, !.pub = p,
                            !.stage = g]
<1>6. m \in Memory
  BY <1>1, <1>2, <1>3, <1>4 DEF Memory, p, r
<1>7. /\ m.state = s /\ m.out = out /\ m.role = r /\ m.stage = g
      /\ m.tools = mem.tools /\ m.run = mem.run
      /\ m.open = mem.open /\ m.known = mem.known /\ m.obs = mem.obs
  BY <1>1 DEF Memory
<1> QED
  BY <1>4, <1>5, <1>6, <1>7 DEF Timed, g, r

\* What a persist does to the files and to the memory.
LEMMA PersistFacts ==
  ASSUME TypeInv, NEW s \in States, NEW out \in Outcomes, NEW failed \in BOOLEAN,
         NEW how \in Modes, NEW next \in Places,
         Persist(s, out, failed, how, next),
         NEW m, m = Prepared(s, out, failed)
  PROVE  /\ mode' = how /\ kills' = kills
         /\ \/ Write(m) /\ mem' = [m EXCEPT !.known = 0]
            \/ mem' = m /\ UNCHANGED <<ck, log>>
         /\ \/ Write(m) /\ pc' = "mark" /\ then' = next /\ faults' = faults
            \/ /\ Upset /\ faults' = faults + 1 /\ then' = then
               /\ pc' = Caught(how)
BY DEF Persist, Write

\* A checkpoint write keeps the types; the last event stays the last.
LEMMA WriteFacts ==
  ASSUME TypeInv, NEW m \in Memory, Timed(m), m.known = mem.known, Write(m)
  PROVE  /\ ck' \in [state: States, role: ROLES, out: Outcomes,
                     pub: Publications, run: Time, stage: Time]
         /\ ck'.state = m.state /\ ck'.role = m.role /\ ck'.out = m.out
         /\ ck'.pub = m.pub /\ ck'.run = m.run /\ ck'.stage = m.stage
         /\ Timed(ck)' /\ base' \in Event /\ Timed(base)'
         /\ suffix' \in Seq(Event) /\ Len(suffix') \in Nat
         /\ \A i \in DOMAIN suffix' : Timed(suffix'[i])
         /\ Last' = Last
<1>1. m.known \in Nat /\ m.known <= Len(suffix)
  BY DEF TypeInv, TypeOK, Memory
<1>2. /\ base' \in Event /\ Timed(base)' /\ suffix' \in Seq(Event)
      /\ \A i \in DOMAIN suffix' : Timed(suffix'[i])
      /\ Last' = Last
  BY <1>1, CursorFacts DEF Write
<1>3. Len(suffix') \in Nat
  BY <1>2, LenProperties
<1>4. ck' = [state |-> m.state, role |-> m.role, out |-> m.out, pub |-> m.pub,
             run |-> m.run, stage |-> m.stage]
  BY DEF Write
<1>5. /\ m.state \in States /\ m.role \in ROLES /\ m.out \in Outcomes
      /\ m.pub \in Publications /\ m.run \in Time /\ m.stage \in Time
  BY DEF Memory
<1>6. ck' \in [state: States, role: ROLES, out: Outcomes, pub: Publications,
              run: Time, stage: Time]
  BY <1>4, <1>5
<1>7. /\ ck'.state = m.state /\ ck'.role = m.role /\ ck'.out = m.out
      /\ ck'.pub = m.pub /\ ck'.run = m.run /\ ck'.stage = m.stage
  BY <1>4
<1>8. Timed(ck)'
  BY <1>7 DEF Timed
<1> QED
  BY <1>2, <1>3, <1>6, <1>7, <1>8

\* A persist keeps the types.
LEMMA PersistTyped ==
  ASSUME TypeInv, NEW s \in States, NEW out \in Outcomes, NEW failed \in BOOLEAN,
         NEW how \in Modes, NEW next \in Places,
         Persist(s, out, failed, how, next)
  PROVE  TypeInv'
<1> DEFINE m == Prepared(s, out, failed)
<1>1. m \in Memory /\ Timed(m) /\ m.known = mem.known
  BY PreparedFacts
<1>2. /\ mode' = how /\ kills' = kills
      /\ \/ Write(m) /\ mem' = [m EXCEPT !.known = 0]
         \/ mem' = m /\ UNCHANGED <<ck, log>>
      /\ \/ Write(m) /\ pc' = "mark" /\ then' = next /\ faults' = faults
         \/ /\ Upset /\ faults' = faults + 1 /\ then' = then
            /\ pc' = Caught(how)
  BY PersistFacts
<1> HIDE DEF m
<1>3. kills \in Nat /\ faults \in Nat /\ kills + faults <= MaxUpsets
      /\ MaxUpsets \in Nat /\ then \in Places
  BY ConstantsAssumption DEF TypeInv, TypeOK
<1>4. Caught(how) \in Places
  BY DEF Caught, Modes, Places
<1>5. /\ pc' \in Places /\ then' \in Places /\ mode' \in Modes
      /\ kills' \in Nat /\ faults' \in Nat /\ kills' + faults' <= MaxUpsets
  BY <1>2, <1>3, <1>4 DEF Upset, Places
<1>6. CASE Write(m) /\ mem' = [m EXCEPT !.known = 0]
  <2>1. /\ ck' \in [state: States, role: ROLES, out: Outcomes,
                    pub: Publications, run: Time, stage: Time]
        /\ Timed(ck)' /\ base' \in Event /\ Timed(base)'
        /\ suffix' \in Seq(Event) /\ Len(suffix') \in Nat
        /\ \A i \in DOMAIN suffix' : Timed(suffix'[i])
    BY <1>1, <1>6, WriteFacts
  <2>2. mem' \in Memory /\ mem'.known <= Len(suffix') /\ Timed(mem)'
    BY <1>1, <1>6, <2>1 DEF Memory, Timed
  <2> QED
    BY <1>5, <2>1, <2>2 DEF TypeInv, TypeOK, Modes
<1>7. CASE mem' = m /\ UNCHANGED <<ck, log>>
  BY <1>1, <1>5, <1>7 DEF TypeInv, TypeOK, Modes, log, Timed
<1> QED
  BY <1>2, <1>6, <1>7

\* The times and the state a resumed process starts from.
LEMMA ReconstructedFacts ==
  ASSUME TypeInv
  PROVE  LET r == Reconstructed IN
         /\ r \in Memory /\ Timed(r) /\ r.known = Len(suffix) /\ r.obs
         /\ r.state = ck.state /\ r.role = ck.role /\ r.out = ck.out
         /\ r.pub = ck.pub /\ r.tools = Last.tools /\ ~r.open
         /\ r.run >= ck.run /\ r.run >= Last.run /\ r.stage >= ck.stage
         /\ Last.state = ck.state => r.stage >= Last.stage
<1>1. /\ ck \in [state: States, role: ROLES, out: Outcomes, pub: Publications,
                 run: Time, stage: Time]
      /\ Last \in Event /\ Len(suffix) \in Nat /\ ck.stage <= ck.run
      /\ Last.stage <= Last.run
  BY SuffixFacts DEF TypeInv, TypeOK, Timed
<1> DEFINE run   == MaxOf(ck.run, Last.run)
           stage == MaxOf(ck.stage,
                          IF Last.state = ck.state THEN Last.stage ELSE 0)
<1>2. /\ Last.run \in Time /\ Last.stage \in Time /\ ck.run \in Time
      /\ ck.stage \in Time /\ Last.tools \in 0 .. MaxTools /\ Time \subseteq Nat
  BY <1>1, ConstantsAssumption DEF Event, Time
<1>3. /\ run \in Time /\ stage \in Time /\ stage <= run
      /\ run >= ck.run /\ run >= Last.run /\ stage >= ck.stage
      /\ Last.state = ck.state => stage >= Last.stage
  BY <1>1, <1>2, ConstantsAssumption DEF MaxOf, Time
<1>4. Reconstructed = [state |-> ck.state, role |-> ck.role, out |-> ck.out,
                       pub |-> ck.pub, tools |-> Last.tools, run |-> run,
                       stage |-> stage, open |-> FALSE, known |-> Len(suffix),
                       obs |-> TRUE]
  BY DEF Reconstructed
<1> HIDE DEF run, stage
<1>5. /\ ck.state \in States /\ ck.role \in ROLES /\ ck.out \in Outcomes
      /\ ck.pub \in Publications
  BY <1>1
<1>6. Reconstructed \in Memory
  BY <1>1, <1>2, <1>3, <1>4, <1>5 DEF Memory
<1>7. /\ Reconstructed.run = run /\ Reconstructed.stage = stage
      /\ Reconstructed.known = Len(suffix) /\ Reconstructed.obs
      /\ Reconstructed.state = ck.state /\ Reconstructed.role = ck.role
      /\ Reconstructed.out = ck.out /\ Reconstructed.pub = ck.pub
      /\ Reconstructed.tools = Last.tools /\ ~Reconstructed.open
  BY <1>4
<1>8. Timed(Reconstructed)
  BY <1>3, <1>7 DEF Timed
<1> QED
  BY <1>3, <1>6, <1>7, <1>8

\* The memory of the start of a turn, of its end and of the return.
LEMMA TurnMemories ==
  ASSUME TypeInv
  PROVE  /\ LET m == [mem EXCEPT !.role = TurnRole(mem.state), !.open = TRUE,
                                 !.tools = 0]
            IN /\ m \in Memory /\ Timed(m) /\ m.known = mem.known
               /\ m.run = mem.run /\ m.stage = mem.stage /\ m.obs = mem.obs
               /\ m.state = mem.state /\ m.out = mem.out /\ m.pub = mem.pub
               /\ m.role = TurnRole(mem.state) /\ m.open /\ m.tools = 0
         /\ LET m == Closed(mem)
            IN /\ m \in Memory /\ Timed(m) /\ m.known = mem.known
               /\ m.run = mem.run /\ m.stage = mem.stage /\ m.obs = mem.obs
               /\ m.state = mem.state /\ m.out = mem.out /\ m.pub = mem.pub
               /\ m.role = "orchestrator" /\ ~m.open /\ m.tools = mem.tools
         /\ LET m == Returning(mem)
            IN /\ m \in Memory /\ Timed(m) /\ m.known = mem.known
               /\ m.run = mem.run /\ m.stage = mem.stage /\ m.obs = mem.obs
               /\ m.state = mem.state /\ m.out = mem.out /\ m.pub = mem.pub
               /\ m.role = "orchestrator" /\ m.open = mem.open
               /\ m.tools = mem.tools
         /\ mem.tools < MaxTools =>
              LET m == [mem EXCEPT !.tools = @ + 1]
              IN /\ m \in Memory /\ Timed(m) /\ m.known = mem.known
                 /\ m.run = mem.run /\ m.stage = mem.stage /\ m.obs = mem.obs
                 /\ m.state = mem.state /\ m.out = mem.out /\ m.pub = mem.pub
                 /\ m.role = mem.role /\ m.open = mem.open
                 /\ m.tools = mem.tools + 1
<1>1. mem \in Memory /\ mem.stage <= mem.run /\ MaxTools \in Nat
  BY ConstantsAssumption DEF TypeInv, TypeOK, Timed
<1>2. TurnRole(mem.state) \in ROLES /\ "orchestrator" \in ROLES
  BY DEF TurnRole, ROLES
<1>3. 0 \in 0 .. MaxTools
  BY <1>1
<1>4. LET m == [mem EXCEPT !.role = TurnRole(mem.state), !.open = TRUE,
                           !.tools = 0]
      IN /\ m \in Memory /\ Timed(m) /\ m.known = mem.known
         /\ m.run = mem.run /\ m.stage = mem.stage /\ m.obs = mem.obs
         /\ m.state = mem.state /\ m.out = mem.out /\ m.pub = mem.pub
         /\ m.role = TurnRole(mem.state) /\ m.open /\ m.tools = 0
  BY <1>1, <1>2, <1>3 DEF Memory, Timed
<1>5. LET m == Closed(mem)
      IN /\ m \in Memory /\ Timed(m) /\ m.known = mem.known
         /\ m.run = mem.run /\ m.stage = mem.stage /\ m.obs = mem.obs
         /\ m.state = mem.state /\ m.out = mem.out /\ m.pub = mem.pub
         /\ m.role = "orchestrator" /\ ~m.open /\ m.tools = mem.tools
  BY <1>1, <1>2 DEF Memory, Timed, Closed
<1>6. LET m == Returning(mem)
      IN /\ m \in Memory /\ Timed(m) /\ m.known = mem.known
         /\ m.run = mem.run /\ m.stage = mem.stage /\ m.obs = mem.obs
         /\ m.state = mem.state /\ m.out = mem.out /\ m.pub = mem.pub
         /\ m.role = "orchestrator" /\ m.open = mem.open
         /\ m.tools = mem.tools
  BY <1>1, <1>2 DEF Memory, Timed, Returning
<1>7. ASSUME mem.tools < MaxTools
      PROVE  LET m == [mem EXCEPT !.tools = @ + 1]
             IN /\ m \in Memory /\ Timed(m) /\ m.known = mem.known
                /\ m.run = mem.run /\ m.stage = mem.stage /\ m.obs = mem.obs
                /\ m.state = mem.state /\ m.out = mem.out /\ m.pub = mem.pub
                /\ m.role = mem.role /\ m.open = mem.open
                /\ m.tools = mem.tools + 1
  <2>1. mem.tools + 1 \in 0 .. MaxTools
    BY <1>1, <1>7 DEF Memory
  <2> QED
    BY <1>1, <2>1 DEF Memory, Timed
<1> QED
  BY <1>4, <1>5, <1>6, <1>7

\* A process that is gone holds nothing.
LEMMA NobodyTyped == Nobody \in Memory /\ Timed(Nobody) /\ Nobody.known = 0
<1>1. 0 \in Time /\ 0 \in 0 .. MaxTools /\ 0 \in Nat
  BY ConstantsAssumption DEF Time
<1> QED
  BY <1>1 DEF Nobody, Memory, Timed, States, ROLES, Outcomes, Publications

\* States and outcomes the branches name are states and outcomes.
LEMMA NameFacts ==
  /\ Stopped \cup EVIDENCE_CONTROL_STATES \cup Transition \subseteq States
  /\ "REVIEW_CORRECTION_PENDING" \in States
  /\ Stopped \cup {"UNDETERMINED", "none"} \subseteq Outcomes
  /\ \A p \in Decides : p[2] \in Outcomes
  /\ {"try", "handler", "last", "resume"} \subseteq Modes
  /\ {"heartbeat", "tool_activity", "error", "state_entered", "run_resumed",
      "turn_started", "turn_finished", "correction", "logical_outcome",
      "evidence_finalization", "run_finished"} \subseteq EVENT_TYPES
BY DEF Stopped, EVIDENCE_CONTROL_STATES, Transition, States, Outcomes, Decides,
       Modes, EVENT_TYPES

\* Every step of the journal keeps the types.
LEMMA TypeNext ==
  ASSUME TypeInv, Next
  PROVE  TypeInv'
<1>1. /\ mem \in Memory /\ Timed(mem) /\ mem.state \in States
      /\ mem.out \in Outcomes /\ mem.known \in Nat /\ mem.known <= Len(suffix)
      /\ mode \in Modes /\ pc \in Places /\ then \in Places
      /\ kills \in Nat /\ faults \in Nat /\ kills + faults <= MaxUpsets
      /\ MaxUpsets \in Nat /\ suffix \in Seq(Event) /\ Len(suffix) \in Nat
  BY SuffixFacts, ConstantsAssumption DEF TypeInv, TypeOK, Memory, Modes
<1>2. /\ {"down", "ended", "mark", "go", "loop", "turn", "after", "route",
          "correction", "logical_outcome", "evidence_finalization", "finish",
          "raise", "handler", "again", "return"} \subseteq Places
      /\ FALSE \in BOOLEAN /\ TRUE \in BOOLEAN
  BY DEF Places
<1>3. CASE Mark
  BY <1>1, <1>3, NameFacts, RecordTyped DEF Mark
<1>4. CASE Turn
  <2>1. CASE NewAttempt
    BY <2>1, <1>1, <1>2, NameFacts, PersistTyped DEF NewAttempt
  <2>2. CASE TurnStarted
    <3> DEFINE m == [mem EXCEPT !.role = TurnRole(mem.state), !.open = TRUE,
                                !.tools = 0]
    <3>1. m \in Memory /\ Timed(m) /\ m.known = mem.known
      BY TurnMemories
    <3>2. /\ Record("turn_started", m) /\ pc' = "turn"
          /\ UNCHANGED <<ck, base, mode, then, kills>>
      BY <2>2 DEF TurnStarted
    <3> HIDE DEF m
    <3> QED
      BY <1>1, <1>2, <3>1, <3>2, NameFacts, RecordTyped
  <2>3. CASE TurnRecovered
    BY <2>3, <1>2 DEF TurnRecovered, log, TypeInv, TypeOK, Timed
  <2>4. CASE Heartbeat
    BY <2>4, <1>1, NameFacts, RecordTyped DEF Heartbeat
  <2>5. CASE ToolActivity
    <3> DEFINE m == [mem EXCEPT !.tools = @ + 1]
    <3>1. m \in Memory /\ Timed(m) /\ m.known = mem.known
      BY <2>5, TurnMemories DEF ToolActivity
    <3>2. /\ \/ Record("tool_activity", m)
             \/ mem' = m /\ UNCHANGED <<suffix, faults>>
          /\ UNCHANGED <<ck, base, mode, pc, then, kills>>
      BY <2>5 DEF ToolActivity
    <3> HIDE DEF m
    <3>3. CASE Record("tool_activity", m)
      BY <1>1, <3>1, <3>2, <3>3, NameFacts, RecordTyped
    <3>4. CASE mem' = m /\ UNCHANGED <<suffix, faults>>
      BY <1>1, <3>1, <3>2, <3>4 DEF TypeInv, TypeOK, Timed
    <3> QED
      BY <3>2, <3>3, <3>4
  <2>6. CASE FlushToolActivity
    BY <2>6, <1>1, NameFacts, RecordTyped DEF FlushToolActivity
  <2>7. CASE TurnFinished
    <3>1. Closed(mem) \in Memory /\ Timed(Closed(mem))
          /\ Closed(mem).known = mem.known
      BY TurnMemories
    <3> QED
      BY <2>7, <1>1, <1>2, <3>1, NameFacts, RecordTyped DEF TurnFinished
  <2>8. CASE TurnBreaks
    BY <2>8, <1>1, <1>2 DEF TurnBreaks, Upset, log, TypeInv, TypeOK, Timed
  <2>9. CASE PumpOutlivesTurn
    <3> DEFINE e == EventOf("heartbeat", mem)
    <3>1. e \in Event /\ Timed(e)
      BY <1>1, NameFacts, EventTyped
    <3>2. /\ suffix' = Append(suffix, e) /\ mem' = [mem EXCEPT !.known = @ + 1]
          /\ faults' = faults + 1 /\ kills + faults < MaxUpsets
          /\ UNCHANGED <<ck, base, mode, pc, then, kills>>
      BY <2>9 DEF PumpOutlivesTurn, Upset
    <3> HIDE DEF e
    <3>3. /\ suffix' \in Seq(Event) /\ \A i \in DOMAIN suffix' : Timed(suffix'[i])
          /\ Len(suffix') = Len(suffix) + 1
      BY <3>1, <3>2, AppendFacts
    <3>4. mem.known + 1 \in Nat
      BY <1>1
    <3>5. mem' \in Memory /\ Timed(mem') /\ mem'.known = mem.known + 1
      BY <1>1, <3>2, <3>4 DEF Memory, Timed
    <3>6. /\ mem'.known <= Len(suffix') /\ faults' \in Nat
          /\ kills' + faults' <= MaxUpsets
      BY <1>1, <3>2, <3>3, <3>5
    <3> QED
      BY <3>2, <3>3, <3>5, <3>6 DEF TypeInv, TypeOK, Timed
  <2>10. CASE RecordTurnSummary
    BY <2>10, <1>1, <1>2, NameFacts, PersistTyped DEF RecordTurnSummary
  <2> QED
    BY <1>4, <2>1, <2>2, <2>3, <2>4, <2>5, <2>6, <2>7, <2>8, <2>9, <2>10 DEF Turn
<1>5. CASE Branch
  <2>1. CASE Advance
    BY <2>1, <1>1, <1>2, NameFacts, PersistTyped DEF Advance
  <2>2. CASE PlanCorrection
    BY <2>2, <1>1, <1>2, NameFacts, PersistTyped DEF PlanCorrection
  <2>3. CASE ReachLogicalOutcome
    <3>1. PICK s \in States : /\ <<mem.state, s>> \in Decides
                              /\ Persist(s, s, FALSE, "try", "logical_outcome")
      BY <2>3 DEF ReachLogicalOutcome
    <3>2. s \in Outcomes
      BY <3>1, NameFacts
    <3> QED
      BY <1>2, <3>1, <3>2, NameFacts, PersistTyped
  <2>4. CASE Announce
    <3>1. pc \in EVENT_TYPES /\ pc' \in Places
      BY <2>4, <1>2, NameFacts DEF Announce
    <3> QED
      BY <2>4, <1>1, <3>1, RecordTyped DEF Announce
  <2> QED
    BY <1>5, <2>1, <2>2, <2>3, <2>4 DEF Branch
<1>6. CASE Finish
  <2>1. CASE FinishEvidence
    <3>1. CASE pc' = "return" /\ UNCHANGED <<ck, log, mem, mode, then, kills, faults>>
      BY <3>1, <1>2 DEF log, TypeInv, TypeOK, Timed
    <3>2. CASE \E s \in EVIDENCE_CONTROL_STATES, next \in Places :
                 Persist(s, mem.out, FALSE, mode, next)
      BY <3>2, <1>1, <1>2, NameFacts, PersistTyped
    <3> QED
      BY <2>1, <1>2, <3>1, <3>2 DEF FinishEvidence, EVIDENCE_CONTROL_STATES
  <2>2. CASE FinishReturn
    <3>1. Returning(mem) \in Memory /\ Timed(Returning(mem))
          /\ Returning(mem).known = mem.known
      BY TurnMemories
    <3> QED
      BY <2>2, <1>1, <1>2, <3>1, NameFacts, RecordTyped DEF FinishReturn
  <2> QED
    BY <1>6, <2>1, <2>2 DEF Finish
<1>7. CASE Exception
  <2>1. CASE RecordError
    BY <2>1, <1>1, <1>2, NameFacts, RecordTyped DEF RecordError
  <2>2. CASE RaiseAgain
    BY <2>2, <1>2 DEF RaiseAgain, log, TypeInv, TypeOK, Timed
  <2>3. CASE RaiseOut
    BY <2>3, <1>1, <1>2, NobodyTyped DEF RaiseOut, log, TypeInv, TypeOK, Timed
  <2>4. CASE Handle
    <3> DEFINE s == IF mem.state \in Transition THEN "HUMAN_GATE"
                    ELSE "FAILED_CLOSED"
    <3>1. s \in States /\ s \in Outcomes
      BY NameFacts DEF Stopped
    <3>2. \/ Persist(mem.state, mem.out, TRUE, "last", "return")
          \/ Persist(mem.state, "UNDETERMINED", FALSE, "last", "return")
          \/ Persist(s, s, FALSE, "handler", "logical_outcome")
      BY <2>4 DEF Handle
    <3> HIDE DEF s
    <3> QED
      BY <1>1, <1>2, <3>1, <3>2, NameFacts, PersistTyped
  <2>5. CASE HandleAgain
    BY <2>5, <1>1, <1>2, NameFacts, PersistTyped DEF HandleAgain
  <2> QED
    BY <1>7, <2>1, <2>2, <2>3, <2>4, <2>5 DEF Exception
<1>8. CASE Restart
  <2>1. CASE Kill
    BY <2>1, <1>1, <1>2, NobodyTyped DEF Kill, Upset, log, TypeInv, TypeOK, Timed
  <2>2. CASE Resume
    <3> DEFINE r == Reconstructed
               e == EventOf("run_resumed", r)
    <3>1. r \in Memory /\ Timed(r) /\ r.known = Len(suffix)
      BY ReconstructedFacts
    <3>2. e \in Event /\ Timed(e)
      BY <3>1, NameFacts, EventTyped
    <3>3. /\ UNCHANGED <<ck, base, then, kills>> /\ mode' = "resume"
          /\ \/ /\ suffix' = Append(suffix, e) /\ pc' = "go" /\ faults' = faults
                /\ mem' = [r EXCEPT !.known = @ + 1]
             \/ /\ suffix' = suffix \/ suffix' = Append(suffix, e)
                /\ kills + faults < MaxUpsets /\ faults' = faults + 1
                /\ mem' = Nobody /\ pc' = "down"
      BY <2>2 DEF Resume, Upset
    <3> HIDE DEF r, e
    <3>4. /\ suffix' \in Seq(Event) /\ \A i \in DOMAIN suffix' : Timed(suffix'[i])
          /\ Len(suffix') \in Nat
          /\ suffix' = Append(suffix, e) => Len(suffix') = Len(suffix) + 1
      <4>1. CASE suffix' = Append(suffix, e)
        BY <4>1, <1>1, <3>2, AppendFacts
      <4>2. CASE suffix' = suffix
        <5>1. suffix # Append(suffix, e)
          BY <1>1, <3>2, AppendProperties
        <5> QED
          BY <4>2, <5>1, <1>1 DEF TypeInv
      <4> QED
        BY <3>3, <4>1, <4>2
    <3>5. faults' \in Nat /\ kills' + faults' <= MaxUpsets
      BY <1>1, <3>3
    <3>6. mem' \in Memory /\ Timed(mem') /\ mem'.known <= Len(suffix')
      <4>1. CASE mem' = Nobody
        BY <4>1, <3>4, NobodyTyped
      <4>2. CASE suffix' = Append(suffix, e) /\ mem' = [r EXCEPT !.known = @ + 1]
        <5>1. r.known + 1 \in Nat
          BY <1>1, <3>1
        <5>2. mem' \in Memory /\ Timed(mem') /\ mem'.known = r.known + 1
          BY <4>2, <5>1, <3>1 DEF Memory, Timed
        <5> QED
          BY <4>2, <5>2, <1>1, <3>1, <3>4
      <4> QED
        BY <3>3, <4>1, <4>2
    <3> QED
      BY <1>1, <1>2, <3>3, <3>4, <3>5, <3>6 DEF TypeInv, TypeOK, Timed
  <2>3. CASE ReconcileSummary
    <3>1. (mem.pub = "FAILED") \in BOOLEAN
      OBVIOUS
    <3> QED
      BY <2>3, <1>1, <1>2, <3>1, NameFacts, PersistTyped DEF ReconcileSummary
  <2>4. CASE GoOn
    BY <2>4, <1>1, <1>2 DEF GoOn, log, TypeInv, TypeOK, Timed
  <2> QED
    BY <1>8, <2>1, <2>2, <2>3, <2>4 DEF Restart
<1>9. CASE Tick
  <2>1. /\ mem.run < MaxTime /\ mem' = [mem EXCEPT !.run = @ + 1, !.stage = @ + 1]
        /\ UNCHANGED <<ck, base, suffix, mode, pc, then, kills, faults>>
    BY <1>9 DEF Tick, log
  <2>2. mem.run + 1 \in Time /\ mem.stage + 1 \in Time
        /\ mem.stage + 1 <= mem.run + 1
    BY <1>1, <2>1, ConstantsAssumption DEF Memory, Time, Timed
  <2>3. mem' \in Memory /\ Timed(mem') /\ mem'.known = mem.known
    BY <1>1, <2>1, <2>2 DEF Memory, Timed
  <2> QED
    BY <1>1, <2>1, <2>3 DEF TypeInv, TypeOK, Timed
<1> QED
  BY <1>3, <1>4, <1>5, <1>6, <1>7, <1>8, <1>9 DEF Next

\* A fresh run has its types.
LEMMA TypeInit == Init => TypeInv
<1> SUFFICES ASSUME Init PROVE TypeInv
  OBVIOUS
<1>1. 0 \in Time /\ 0 \in 0 .. MaxTools /\ MaxUpsets \in Nat
  BY ConstantsAssumption DEF Time
<1>2. <<>> \in Seq(Event) /\ Len(<<>>) = 0 /\ DOMAIN <<>> = {}
  BY EmptySeq
<1>3. NoEvent \in Event /\ Timed(NoEvent)
  BY <1>1 DEF NoEvent, Event, Timed, EVENT_TYPES, States, ROLES, Outcomes,
              Publications
<1>4. /\ ck \in [state: States, role: ROLES, out: Outcomes, pub: Publications,
                 run: Time, stage: Time]
      /\ Timed(ck)
  BY <1>1 DEF Init, Timed, States, ROLES, Outcomes, Publications
<1>5. mem \in Memory /\ Timed(mem) /\ mem.known = 0
  BY NobodyTyped DEF Init
<1> QED
  BY <1>1, <1>2, <1>3, <1>4, <1>5 DEF Init, TypeInv, TypeOK, Places

\* A step that leaves the variables alone keeps the types.
LEMMA TypeStutter == TypeInv /\ UNCHANGED vars => TypeInv'
BY DEF vars, log, TypeInv, TypeOK, Timed

\* Checkpoint, log and memory keep their types, and no stage is older than its
\* run, for every bound.
THEOREM JournalTyped == Spec => []TypeInv
<1>1. Init => TypeInv
  BY TypeInit
<1>2. TypeInv /\ [Next]_vars => TypeInv'
  BY TypeNext, TypeStutter
<1> QED
  BY <1>1, <1>2, PTL DEF Spec

\* The variables keep their types.
THEOREM TypeOKHolds == Spec => []TypeOK
<1>1. TypeInv => TypeOK
  BY DEF TypeInv
<1> QED
  BY <1>1, JournalTyped, PTL

-----------------------------------------------------------------------------
(***************************************************************************)
(* Elapsed times.                                                          *)
(***************************************************************************)

\* What a checkpoint write may not do: TimeContinues for one step.
TimeStep == /\ ck'.run >= ck.run /\ ck'.run >= Last.run
            /\ ck'.state = ck.state => ck'.stage >= ck.stage
            /\ mem.obs /\ ck'.state = Last.state => ck'.stage >= Last.stage

\* The clocks are numbers.
LEMMA Clocks ==
  ASSUME TypeInv
  PROVE  /\ ck.run \in Nat /\ ck.stage \in Nat /\ Last.run \in Nat
         /\ Last.stage \in Nat /\ mem.run \in Nat /\ mem.stage \in Nat
         /\ base.run \in Nat /\ base.stage \in Nat
         /\ \A i \in 1 .. Len(suffix) :
              suffix[i].run \in Nat /\ suffix[i].stage \in Nat
<1>1. Time \subseteq Nat
  BY ConstantsAssumption DEF Time
<1>2. \A e \in Event : e.run \in Nat /\ e.stage \in Nat
  BY <1>1 DEF Event
<1>3. ck.run \in Time /\ ck.stage \in Time /\ mem \in Memory /\ base \in Event
  BY DEF TypeInv, TypeOK
<1>4. mem.run \in Nat /\ mem.stage \in Nat
  BY <1>1, <1>3 DEF Memory
<1> QED
  BY <1>1, <1>2, <1>3, <1>4, SuffixFacts

\* A log that is in order stays so when its next event is not behind its last.
LEMMA AppendScans ==
  ASSUME TypeInv, Scans, NEW e \in Event, Timed(e), suffix' = Append(suffix, e),
         base' = base, e.run >= Last.run,
         e.state = Last.state => e.stage >= Last.stage
  PROVE  Scans'
<1> DEFINE n == Len(suffix)
<1>1. /\ DOMAIN suffix' = 1 .. n + 1 /\ suffix'[n + 1] = e
      /\ \A i \in 1 .. n : suffix'[i] = suffix[i]
  BY AppendFacts
<1>2. n \in Nat /\ DOMAIN suffix = 1 .. n
      /\ Last = IF n = 0 THEN base ELSE suffix[n]
  BY SuffixFacts
<1> HIDE DEF n
<1> SUFFICES ASSUME NEW i \in 1 .. n + 1
             PROVE  /\ suffix'[i].run >= Before(i)'.run
                    /\ suffix'[i].state = Before(i)'.state
                         => suffix'[i].stage >= Before(i)'.stage
  BY <1>1 DEF Scans
<1>3. CASE i = n + 1
  <2>1. Before(i)' = Last
    BY <1>1, <1>2, <1>3 DEF Before
  <2> QED
    BY <1>1, <1>3, <2>1
<1>4. CASE i # n + 1
  <2>1. i \in 1 .. n /\ suffix'[i] = suffix[i]
    BY <1>1, <1>2, <1>4
  <2>2. Before(i)' = Before(i)
    BY <1>1, <1>2, <2>1 DEF Before
  <2> QED
    BY <1>2, <2>1, <2>2 DEF Scans
<1> QED
  BY <1>3, <1>4

\* The part of a log in order that is left behind the cursor is in order.
LEMMA CursorScans ==
  ASSUME TypeInv, Scans, NEW k \in Nat, k <= Len(suffix),
         base' = IF k = 0 THEN base ELSE suffix[k],
         suffix' = SubSeq(suffix, k + 1, Len(suffix))
  PROVE  Scans'
<1> DEFINE n == Len(suffix)
<1>1. /\ DOMAIN suffix' = 1 .. n - k
      /\ \A i \in 1 .. n - k : suffix'[i] = suffix[k + i]
  BY CursorFacts
<1>2. n \in Nat /\ DOMAIN suffix = 1 .. n /\ k <= n
  BY SuffixFacts
<1> HIDE DEF n
<1> SUFFICES ASSUME NEW i \in 1 .. n - k
             PROVE  /\ suffix'[i].run >= Before(i)'.run
                    /\ suffix'[i].state = Before(i)'.state
                         => suffix'[i].stage >= Before(i)'.stage
  BY <1>1 DEF Scans
<1>3. k + i \in 1 .. n /\ suffix'[i] = suffix[k + i]
  BY <1>1, <1>2
<1>4. Before(i)' = Before(k + i)
  <2>1. CASE i = 1
    BY <2>1, <1>2 DEF Before
  <2>2. CASE i # 1
    <3>1. i - 1 \in 1 .. n - k /\ k + (i - 1) = (k + i) - 1 /\ k + i # 1
      BY <2>2, <1>2
    <3>2. suffix'[i - 1] = suffix[(k + i) - 1]
      BY <1>1, <3>1
    <3> QED
      BY <2>2, <3>1, <3>2 DEF Before
  <2> QED
    BY <2>1, <2>2
<1> QED
  BY <1>2, <1>3, <1>4 DEF Scans

\* What a live process records is not behind the log.
LEMMA RecordTime ==
  ASSUME TypeInv, TimeInv, Alive, NEW type \in EVENT_TYPES, NEW m \in Memory,
         Timed(m), m.known = mem.known, m.state = mem.state, m.run = mem.run,
         m.stage = mem.stage, m.obs = mem.obs, Record(type, m),
         UNCHANGED <<ck, base>>,
         pc' \notin Unwritten => mem.state = ck.state,
         pc' \in {"raise", "handler"} /\ mem.state # ck.state =>
           ck.state \notin Stopped \/ mem.state \in EVIDENCE_CONTROL_STATES
  PROVE  TimeInv'
<1> DEFINE e == EventOf(type, m)
<1>1. /\ e \in Event /\ Timed(e) /\ e.run = mem.run /\ e.stage = mem.stage
      /\ e.state = mem.state
  BY EventTyped DEF EventOf
<1>2. mem \in Memory /\ Scans /\ Ahead
  BY DEF TypeInv, TypeOK, TimeInv
<1> HIDE DEF e
<1>3. ASSUME mem.obs, suffix' = Append(suffix, e)
      PROVE  Scans' /\ Last' = e
  BY <1>1, <1>2, <1>3, AppendScans, AppendFacts DEF Ahead
<1>4. ASSUME suffix' = suffix
      PROVE  Scans' /\ Last' = Last
  BY <1>2, <1>4 DEF Scans, Before, Last
<1>5. mem'.state = mem.state /\ mem'.run = mem.run /\ mem'.stage = mem.stage
  BY RecordFacts DEF Memory
<1>6. mem'.obs => mem.obs
  BY RecordFacts DEF Memory
<1>7. Scans' /\ (Last' = e \/ Last' = Last)
  BY <1>3, <1>4, RecordFacts DEF e
<1>8. mem'.obs => Last' = e
  BY <1>3, RecordFacts DEF e, Memory
<1>9. Ahead'
  BY <1>1, <1>2, <1>5, <1>6, <1>7, <1>8, Clocks DEF Ahead
<1>10. StateWritten'
  BY <1>5 DEF StateWritten
<1>11. StateLogged'
  BY <1>1, <1>5, <1>8 DEF StateLogged
<1> QED
  BY <1>7, <1>9, <1>10, <1>11 DEF TimeInv

\* What a live process writes is not behind the files.
LEMMA PersistTime ==
  ASSUME TypeInv, TimeInv, Alive,
         NEW s \in States, NEW out \in Outcomes, NEW failed \in BOOLEAN,
         NEW how \in Modes, NEW next \in Places,
         Persist(s, out, failed, how, next),
         s # mem.state => s # ck.state /\ (mem.obs => s # Last.state),
         how = "try" /\ s # ck.state =>
           ck.state \notin Stopped \/ s \in EVIDENCE_CONTROL_STATES
  PROVE  TimeInv' /\ (ck' = ck \/ TimeStep)
<1> DEFINE m == Prepared(s, out, failed)
<1>1. /\ m \in Memory /\ Timed(m) /\ m.known = mem.known /\ m.obs = mem.obs
      /\ m.state = s /\ m.run = mem.run
      /\ m.stage = IF s = mem.state THEN mem.stage ELSE 0
  BY PreparedFacts
<1>2. /\ \/ Write(m) /\ mem' = [m EXCEPT !.known = 0]
         \/ mem' = m /\ UNCHANGED <<ck, log>>
      /\ \/ Write(m) /\ pc' = "mark"
         \/ pc' = Caught(how)
  BY PersistFacts
<1> HIDE DEF m
<1>3. mem \in Memory /\ mem.known \in Nat /\ mem.known <= Len(suffix)
      /\ Scans /\ Ahead
  BY DEF TypeInv, TypeOK, TimeInv, Memory
<1>4. /\ m.run >= ck.run /\ m.run >= Last.run
      /\ s = ck.state => m.stage >= ck.stage
      /\ mem.obs /\ s = Last.state => m.stage >= Last.stage
  BY <1>1, <1>3, Clocks DEF Ahead
<1>5. mem'.state = s /\ mem'.run = m.run /\ mem'.stage = m.stage
      /\ mem'.obs = mem.obs
  BY <1>1, <1>2 DEF Memory
<1>6. pc' = "mark" \/ (how = "try" /\ pc' = "raise")
        \/ pc' \in {"again", "return", "down"}
  BY <1>2 DEF Caught, Modes
<1>7. CASE Write(m)
  <2>1. /\ ck'.state = s /\ ck'.run = m.run /\ ck'.stage = m.stage
        /\ Last' = Last
    BY <1>1, <1>7, WriteFacts
  <2>2. Scans'
    BY <1>1, <1>3, <1>7, CursorScans DEF Write
  <2>3. TimeStep
    BY <1>4, <2>1 DEF TimeStep
  <2>4. Ahead'
    BY <1>1, <1>4, <1>5, <2>1, Clocks DEF Ahead
  <2>5. Alive' => StateWritten' /\ StateLogged'
    BY <1>5, <1>6, <2>1 DEF StateWritten, StateLogged, Alive
  <2> QED
    BY <2>2, <2>3, <2>4, <2>5 DEF TimeInv
<1>8. CASE mem' = m /\ UNCHANGED <<ck, log>> /\ pc' = Caught(how)
  <2>1. Last' = Last /\ Scans' /\ ck' = ck
    BY <1>3, <1>8 DEF log, Last, Scans, Before
  <2>2. Ahead'
    BY <1>4, <1>5, <2>1 DEF Ahead
  <2>3. pc' \in {"raise", "again", "return", "down"}
        /\ (pc' = "raise" => how = "try")
    BY <1>8 DEF Caught, Modes
  <2>4. Alive' => StateLogged'
    BY <2>3 DEF StateLogged, Alive
  <2>5. Alive' => StateWritten'
    BY <1>5, <2>1, <2>3 DEF StateWritten, Unwritten, Alive
  <2> QED
    BY <2>1, <2>2, <2>4, <2>5 DEF TimeInv
<1> QED
  BY <1>2, <1>7, <1>8

\* A step that moves neither files nor memory keeps the clocks in order.
LEMMA SameTime ==
  ASSUME TimeInv, UNCHANGED <<ck, log, mem>>, Alive,
         pc' \notin Unwritten => mem.state = ck.state,
         pc' \in {"raise", "handler"} /\ mem.state # ck.state =>
           ck.state \notin Stopped \/ mem.state \in EVIDENCE_CONTROL_STATES,
         mem.obs /\ pc' \notin {"mark", "raise", "again", "return"}
           => mem.state = Last.state
  PROVE  TimeInv'
<1>1. Scans' /\ Last' = Last
  BY DEF TimeInv, Scans, Before, Last, log
<1>2. Ahead'
  BY <1>1 DEF TimeInv, Ahead
<1>3. StateWritten' /\ StateLogged'
  BY <1>1 DEF StateWritten, StateLogged
<1> QED
  BY <1>1, <1>2, <1>3 DEF TimeInv

\* A process that is gone leaves the log in order.
LEMMA GoneTime ==
  ASSUME TimeInv, UNCHANGED log, ~Alive'
  PROVE  TimeInv'
BY DEF TimeInv, Scans, Before, log

\* Every step keeps the clocks in order, and none takes time back from a
\* checkpoint.
LEMMA TimeNext ==
  ASSUME TypeInv, TimeInv, Next
  PROVE  TimeInv' /\ (ck' = ck \/ TimeStep)
<1>1. /\ mem \in Memory /\ Timed(mem) /\ mem.state \in States
      /\ mem.out \in Outcomes /\ mode \in Modes /\ pc \in Places /\ then \in Places
      /\ mem.known \in Nat
  BY DEF TypeInv, TypeOK, Memory, Modes
<1>2. /\ {"down", "ended", "mark", "go", "loop", "turn", "after", "route",
          "correction", "logical_outcome", "evidence_finalization", "finish",
          "raise", "handler", "again", "return"} \subseteq Places
      /\ FALSE \in BOOLEAN /\ TRUE \in BOOLEAN
  BY DEF Places
<1>3. /\ Alive => Ahead /\ StateWritten /\ StateLogged
      /\ pc \notin {"down", "ended", "mark", "raise", "again", "return", "handler"}
           => mem.state = ck.state /\ (mem.obs => mem.state = Last.state)
  BY DEF TimeInv, Alive, StateWritten, StateLogged, Unwritten
<1>4. CASE Mark
  <2>1. mem.state = ck.state
    BY <1>3, <1>4 DEF Mark, Alive, StateWritten, Unwritten
  <2> QED
    BY <1>1, <1>4, <2>1, NameFacts, RecordTime DEF Mark, Alive
<1>5. CASE Turn
  <2>1. CASE NewAttempt
    BY <2>1, <1>1, <1>2, <1>3, NameFacts, PersistTime DEF NewAttempt, Alive
  <2>2. CASE TurnStarted
    <3> DEFINE m == [mem EXCEPT !.role = TurnRole(mem.state), !.open = TRUE,
                                !.tools = 0]
    <3>1. /\ m \in Memory /\ Timed(m) /\ m.known = mem.known /\ m.obs = mem.obs
          /\ m.state = mem.state /\ m.run = mem.run /\ m.stage = mem.stage
      BY TurnMemories
    <3>2. /\ pc = "loop" /\ Record("turn_started", m) /\ pc' = "turn"
          /\ UNCHANGED <<ck, base, mode, then, kills>>
      BY <2>2 DEF TurnStarted
    <3> HIDE DEF m
    <3> QED
      BY <1>3, <3>1, <3>2, NameFacts, RecordTime DEF Alive
  <2>3. CASE TurnRecovered
    BY <2>3, <1>3, SameTime DEF TurnRecovered, Alive
  <2>4. CASE Heartbeat
    BY <2>4, <1>1, <1>3, NameFacts, RecordTime DEF Heartbeat, Alive
  <2>5. CASE ToolActivity
    <3> DEFINE m == [mem EXCEPT !.tools = @ + 1]
    <3>1. /\ m \in Memory /\ Timed(m) /\ m.known = mem.known /\ m.obs = mem.obs
          /\ m.state = mem.state /\ m.run = mem.run /\ m.stage = mem.stage
      BY <2>5, TurnMemories DEF ToolActivity
    <3>2. /\ \/ Record("tool_activity", m)
             \/ mem' = m /\ UNCHANGED <<suffix, faults>>
          /\ pc = "turn" /\ UNCHANGED <<ck, base, mode, pc, then, kills>>
      BY <2>5 DEF ToolActivity
    <3> HIDE DEF m
    <3>3. CASE Record("tool_activity", m)
      BY <1>3, <3>1, <3>2, <3>3, NameFacts, RecordTime DEF Alive
    <3>4. CASE mem' = m /\ UNCHANGED <<suffix, faults>>
      <4>1. Scans' /\ Last' = Last
        BY <3>2, <3>4 DEF TimeInv, Scans, Before, Last
      <4> QED
        BY <1>3, <3>1, <3>2, <3>4, <4>1
        DEF TimeInv, Alive, Ahead, StateWritten, StateLogged
    <3> QED
      BY <3>2, <3>3, <3>4
  <2>6. CASE FlushToolActivity
    BY <2>6, <1>1, <1>3, NameFacts, RecordTime DEF FlushToolActivity, Alive
  <2>7. CASE TurnFinished
    <3>1. LET m == Closed(mem)
          IN /\ m \in Memory /\ Timed(m) /\ m.known = mem.known /\ m.obs = mem.obs
             /\ m.state = mem.state /\ m.run = mem.run /\ m.stage = mem.stage
      BY TurnMemories
    <3> QED
      BY <2>7, <1>3, <3>1, NameFacts, RecordTime DEF TurnFinished, Alive
  <2>8. CASE TurnBreaks
    BY <2>8, <1>3, SameTime DEF TurnBreaks, Alive
  <2>9. CASE PumpOutlivesTurn
    <3> DEFINE e == EventOf("heartbeat", mem)
    <3>1. /\ e \in Event /\ Timed(e) /\ e.state = mem.state /\ e.run = mem.run
          /\ e.stage = mem.stage
      BY <1>1, NameFacts, EventTyped DEF EventOf
    <3>2. /\ suffix' = Append(suffix, e) /\ mem' = [mem EXCEPT !.known = @ + 1]
          /\ pc \in {"after", "handler"} /\ mem.obs
          /\ UNCHANGED <<ck, base, mode, pc, then, kills>>
      BY <2>9 DEF PumpOutlivesTurn
    <3> HIDE DEF e
    <3>3. Scans' /\ Last' = e
      BY <1>3, <3>1, <3>2, AppendScans, AppendFacts DEF TimeInv, Ahead, Alive
    <3>4. /\ mem'.state = mem.state /\ mem'.run = mem.run
          /\ mem'.stage = mem.stage /\ mem'.obs = mem.obs
      BY <1>1, <3>2 DEF Memory
    <3>5. Ahead'
      BY <1>3, <3>1, <3>2, <3>3, <3>4, Clocks DEF Ahead, Alive
    <3>6. StateWritten' /\ StateLogged'
      BY <1>3, <3>1, <3>2, <3>3, <3>4 DEF StateWritten, StateLogged, Alive
    <3> QED
      BY <3>2, <3>3, <3>5, <3>6 DEF TimeInv
  <2>10. CASE RecordTurnSummary
    BY <2>10, <1>1, <1>2, <1>3, NameFacts, PersistTime
    DEF RecordTurnSummary, Alive
  <2> QED
    BY <1>5, <2>1, <2>2, <2>3, <2>4, <2>5, <2>6, <2>7, <2>8, <2>9, <2>10 DEF Turn
<1>6. CASE Branch
  <2>1. CASE Advance
    <3>1. PICK s \in States : /\ <<mem.state, s>> \in Follows
                              /\ Persist(s, mem.out, FALSE, "try", "loop")
      BY <2>1 DEF Advance
    <3>2. mem.state \notin Stopped /\ pc \in {"loop", "route"}
      BY <2>1, <3>1 DEF Follows, Stopped, Advance, TurnOver
    <3> QED
      BY <1>1, <1>2, <1>3, <3>1, <3>2, NameFacts, PersistTime DEF Alive
  <2>2. CASE PlanCorrection
    <3>1. mem.state \notin Stopped /\ pc \in {"loop", "route"}
      BY <2>2 DEF Stopped, PlanCorrection, TurnOver
    <3> QED
      BY <2>2, <1>1, <1>2, <1>3, <3>1, NameFacts, PersistTime
      DEF PlanCorrection, Alive
  <2>3. CASE ReachLogicalOutcome
    <3>1. PICK s \in States : /\ <<mem.state, s>> \in Decides
                              /\ Persist(s, s, FALSE, "try", "logical_outcome")
      BY <2>3 DEF ReachLogicalOutcome
    <3>2. s \in Outcomes
      BY <3>1, NameFacts
    <3>3. mem.state \notin Stopped /\ pc \in {"loop", "route"}
      BY <2>3, <3>1 DEF Decides, Stopped, ReachLogicalOutcome, TurnOver
    <3> QED
      BY <1>2, <1>3, <3>1, <3>2, <3>3, NameFacts, PersistTime DEF Alive
  <2>4. CASE Announce
    <3>1. pc \in EVENT_TYPES /\ pc' \in {"loop", "finish"}
      BY <2>4, <1>2, NameFacts DEF Announce
    <3> QED
      BY <2>4, <1>1, <1>3, <3>1, RecordTime DEF Announce, Alive, Unwritten
  <2> QED
    BY <1>6, <2>1, <2>2, <2>3, <2>4 DEF Branch
<1>7. CASE Finish
  <2>1. CASE FinishEvidence
    <3>1. pc = "finish"
      BY <2>1 DEF FinishEvidence
    <3>2. CASE pc' = "return" /\ UNCHANGED <<ck, log, mem, mode, then, kills, faults>>
      BY <1>3, <3>1, <3>2, SameTime DEF Alive
    <3>3. CASE \E s \in EVIDENCE_CONTROL_STATES, next \in Places :
                 Persist(s, mem.out, FALSE, mode, next)
      BY <1>1, <1>2, <1>3, <3>1, <3>3, NameFacts, PersistTime DEF Alive
    <3> QED
      BY <2>1, <1>2, <3>2, <3>3 DEF FinishEvidence, EVIDENCE_CONTROL_STATES
  <2>2. CASE FinishReturn
    <3>1. /\ pc = "return" /\ Record("run_finished", Returning(mem))
          /\ pc' = "ended" /\ UNCHANGED <<ck, base, mode, then, kills>>
      BY <2>2 DEF FinishReturn
    <3> DEFINE m == Returning(mem)
               e == EventOf("run_finished", m)
    <3>2. /\ m \in Memory /\ Timed(m) /\ m.known = mem.known /\ m.obs = mem.obs
          /\ m.state = mem.state /\ m.run = mem.run /\ m.stage = mem.stage
      BY TurnMemories
    <3>3. /\ e \in Event /\ Timed(e) /\ e.state = mem.state /\ e.run = mem.run
          /\ e.stage = mem.stage
      BY <3>2, NameFacts, EventTyped DEF EventOf
    <3> HIDE DEF m
    <3>4. suffix' = suffix \/ (mem.obs /\ suffix' = Append(suffix, e))
      BY <3>1, <3>2, NameFacts, RecordFacts DEF m
    <3> HIDE DEF e
    <3>5. Scans'
      <4>1. CASE suffix' = suffix
        BY <3>1, <4>1 DEF TimeInv, Scans, Before
      <4>2. CASE mem.obs /\ suffix' = Append(suffix, e)
        BY <1>3, <3>1, <3>3, <4>2, AppendScans DEF TimeInv, Ahead, Alive
      <4> QED
        BY <3>4, <4>1, <4>2
    <3> QED
      BY <3>1, <3>5 DEF TimeInv, Alive
  <2> QED
    BY <1>7, <2>1, <2>2 DEF Finish
<1>8. CASE Exception
  <2>1. CASE RecordError
    <3>1. /\ pc \notin {"down", "ended", "mark"}
          /\ mem.state # ck.state => ck.state \notin Stopped
                                     \/ mem.state \in EVIDENCE_CONTROL_STATES
      BY <2>1, <1>3 DEF RecordError, Raising, StateWritten, Unwritten, Alive
    <3> QED
      BY <2>1, <1>1, <3>1, NameFacts, RecordTime DEF RecordError, Alive, Unwritten
  <2>2. CASE RaiseAgain
    <3>1. pc \in Raising /\ pc' = "again" /\ UNCHANGED <<ck, log, mem>>
      BY <2>2 DEF RaiseAgain
    <3> QED
      BY <3>1, SameTime DEF Raising, Alive, Unwritten
  <2>3. CASE RaiseOut
    BY <2>3, GoneTime DEF RaiseOut, Alive
  <2>4. CASE Handle
    <3> DEFINE s == IF mem.state \in Transition THEN "HUMAN_GATE"
                    ELSE "FAILED_CLOSED"
    <3>1. s \in Stopped /\ s \in States /\ s \in Outcomes
      BY NameFacts DEF Stopped
    <3>2. /\ pc = "handler"
          /\ \/ Persist(mem.state, mem.out, TRUE, "last", "return")
             \/ Persist(mem.state, "UNDETERMINED", FALSE, "last", "return")
             \/ /\ mem.state \notin EVIDENCE_CONTROL_STATES
                /\ Persist(s, s, FALSE, "handler", "logical_outcome")
      BY <2>4 DEF Handle
    <3> HIDE DEF s
    <3>3. /\ mem.obs => mem.state = Last.state
          /\ mem.state # ck.state => ck.state \notin Stopped
                                     \/ mem.state \in EVIDENCE_CONTROL_STATES
      BY <1>3, <3>2 DEF StateWritten, StateLogged, Alive
    <3>4. CASE /\ mem.state \notin EVIDENCE_CONTROL_STATES
               /\ Persist(s, s, FALSE, "handler", "logical_outcome")
      <4>1. s # mem.state => s # ck.state /\ (mem.obs => s # Last.state)
        BY <3>1, <3>3, <3>4
      <4> QED
        BY <1>1, <1>2, <3>1, <3>2, <3>4, <4>1, NameFacts, PersistTime DEF Alive
    <3> QED
      BY <1>1, <1>2, <3>2, <3>4, NameFacts, PersistTime DEF Alive
  <2>5. CASE HandleAgain
    BY <2>5, <1>1, <1>2, NameFacts, PersistTime DEF HandleAgain, Alive
  <2> QED
    BY <1>8, <2>1, <2>2, <2>3, <2>4, <2>5 DEF Exception
<1>9. CASE Restart
  <2>1. CASE Kill
    BY <2>1, GoneTime DEF Kill, Alive
  <2>2. CASE Resume
    <3> DEFINE r == Reconstructed
               e == EventOf("run_resumed", r)
    <3>1. /\ r \in Memory /\ Timed(r) /\ r.state = ck.state /\ r.obs
          /\ r.run >= ck.run /\ r.run >= Last.run /\ r.stage >= ck.stage
          /\ Last.state = ck.state => r.stage >= Last.stage
      BY ReconstructedFacts
    <3>2. /\ e \in Event /\ Timed(e) /\ e.state = r.state /\ e.run = r.run
          /\ e.stage = r.stage
      BY <3>1, NameFacts, EventTyped DEF EventOf
    <3>3. /\ UNCHANGED <<ck, base, then, kills>>
          /\ \/ /\ suffix' = Append(suffix, e) /\ pc' = "go"
                /\ mem' = [r EXCEPT !.known = @ + 1]
             \/ /\ suffix' = suffix \/ suffix' = Append(suffix, e)
                /\ pc' = "down"
      BY <2>2 DEF Resume
    <3> HIDE DEF r, e
    <3>4. Scans' /\ (suffix' = Append(suffix, e) => Last' = e)
      <4>1. CASE suffix' = suffix
        <5>1. suffix # Append(suffix, e)
          <6>1. suffix \in Seq(Event) /\ Len(suffix) \in Nat
            BY SuffixFacts DEF TypeInv, TypeOK
          <6> QED
            BY <6>1, <3>2, AppendProperties
        <5> QED
          BY <3>3, <4>1, <5>1 DEF TimeInv, Scans, Before
      <4>2. CASE suffix' = Append(suffix, e)
        BY <3>1, <3>2, <3>3, <4>2, AppendScans, AppendFacts DEF TimeInv
      <4> QED
        BY <3>3, <4>1, <4>2
    <3>5. CASE pc' = "down"
      BY <3>3, <3>4, <3>5 DEF TimeInv, Alive
    <3>6. CASE /\ suffix' = Append(suffix, e) /\ pc' = "go"
               /\ mem' = [r EXCEPT !.known = @ + 1]
      <4>1. /\ mem'.state = r.state /\ mem'.run = r.run /\ mem'.stage = r.stage
        BY <3>1, <3>6 DEF Memory
      <4>2. r.run \in Nat /\ r.stage \in Nat
        BY <3>1, ConstantsAssumption DEF Memory, Time
      <4>3. Ahead'
        BY <3>1, <3>2, <3>3, <3>4, <3>6, <4>1, <4>2 DEF Ahead
      <4>4. StateWritten' /\ StateLogged'
        BY <3>1, <3>2, <3>3, <3>4, <3>6, <4>1 DEF StateWritten, StateLogged
      <4> QED
        BY <3>3, <3>4, <4>3, <4>4 DEF TimeInv
    <3> QED
      BY <3>3, <3>5, <3>6
  <2>3. CASE ReconcileSummary
    <3>1. (mem.pub = "FAILED") \in BOOLEAN
      OBVIOUS
    <3> QED
      BY <2>3, <1>1, <1>2, <1>3, <3>1, NameFacts, PersistTime
      DEF ReconcileSummary, Alive
  <2>4. CASE GoOn
    <3>1. /\ pc = "go" /\ pc' \in {"finish", "loop"} /\ UNCHANGED <<ck, log, mem>>
      BY <2>4 DEF GoOn
    <3> QED
      BY <1>3, <3>1, SameTime DEF Alive
  <2> QED
    BY <1>9, <2>1, <2>2, <2>3, <2>4 DEF Restart
<1>10. CASE Tick
  <2>1. /\ Alive /\ mem' = [mem EXCEPT !.run = @ + 1, !.stage = @ + 1]
        /\ UNCHANGED <<ck, base, suffix, mode, pc, then, kills, faults>>
    BY <1>10 DEF Tick, log, Alive
  <2>2. /\ mem'.run = mem.run + 1 /\ mem'.stage = mem.stage + 1
        /\ mem'.state = mem.state /\ mem'.obs = mem.obs
    BY <1>1, <2>1 DEF Memory
  <2>3. Scans' /\ Last' = Last
    BY <2>1 DEF TimeInv, Scans, Before, Last
  <2>4. Ahead'
    BY <1>3, <2>1, <2>2, <2>3, Clocks DEF Ahead
  <2>5. StateWritten' /\ StateLogged'
    BY <1>3, <2>1, <2>2, <2>3 DEF StateWritten, StateLogged
  <2> QED
    BY <2>1, <2>3, <2>4, <2>5 DEF TimeInv
<1> QED
  BY <1>4, <1>5, <1>6, <1>7, <1>8, <1>9, <1>10 DEF Next

\* A fresh run is at time zero.
LEMMA TimeInit == Init => TimeInv
<1> SUFFICES ASSUME Init PROVE TimeInv
  OBVIOUS
<1>1. suffix = <<>> /\ DOMAIN suffix = {} /\ Last = NoEvent
  BY EmptySeq DEF Init, Last
<1>2. Scans
  BY <1>1 DEF Scans
<1> QED
  BY <1>1, <1>2 DEF Init, Nobody, NoEvent, TimeInv, Alive, Ahead, StateWritten,
                    StateLogged, Unwritten

\* Types and clocks together are inductive.
THEOREM ClocksInOrder == Spec => [](TypeInv /\ TimeInv) /\ [][TimeStep]_ck
<1> DEFINE Inv == TypeInv /\ TimeInv
<1>1. Init => Inv
  BY TypeInit, TimeInit
<1>2. Inv /\ [Next]_vars => Inv' /\ [TimeStep]_ck
  <2> SUFFICES ASSUME Inv, [Next]_vars
               PROVE  Inv' /\ [TimeStep]_ck
    OBVIOUS
  <2>1. CASE Next
    BY <2>1, TypeNext, TimeNext
  <2>2. CASE UNCHANGED vars
    <3>1. UNCHANGED <<ck, base, suffix, mem, pc>>
      BY <2>2 DEF vars, log
    <3>2. TimeInv'
      BY <3>1 DEF TimeInv, Alive, Scans, Before, Ahead, StateWritten,
                  StateLogged, Last
    <3> QED
      BY <2>2, <3>1, <3>2, TypeStutter
  <2> QED
    BY <2>1, <2>2
<1> QED
  BY <1>1, <1>2, PTL DEF Spec

\* Elapsed times in the log never go back, across kills, resumes, failed
\* writes and lost events.
THEOREM ElapsedNeverBackHolds == Spec => []ElapsedNeverBack
<1>1. TimeInv => ElapsedNeverBack
  BY DEF TimeInv, ElapsedNeverBack
<1> QED
  BY <1>1, ClocksInOrder, PTL

\* A checkpoint never holds less time than the one before it or than an event
\* recorded before it, unless it enters a new state.
THEOREM TimeContinuesHolds == Spec => TimeContinues
<1>1. TimeContinues <=> [][TimeStep]_ck
  BY DEF TimeContinues, TimeStep
<1> QED
  BY <1>1, ClocksInOrder, PTL

-----------------------------------------------------------------------------
(***************************************************************************)
(* Kills alone.                                                            *)
(***************************************************************************)

\* What an appended event meets, and what it makes of an open turn.
LEMMA AppendPlace ==
  ASSUME TypeInv, NEW e \in Event, Timed(e), suffix' = Append(suffix, e),
         base' = base, NEW n, n = Len(suffix)
  PROVE  /\ suffix'[n + 1] = e
         /\ InTurn(n + 1)' <=> Inside(suffix)
         /\ ToolsBefore(n + 1)' = Last.tools
         /\ n + 1 > 1 => suffix'[(n + 1) - 1] = Last /\ suffix # <<>>
         /\ n + 1 = 1 <=> suffix = <<>>
         /\ Inside(suffix') <=>
              \/ e.type = "turn_started"
              \/ Inside(suffix) /\ e.type \notin {"turn_finished", "run_resumed"}
<1>1. /\ suffix'[n + 1] = e /\ Len(suffix') = n + 1
      /\ \A i \in 1 .. n : suffix'[i] = suffix[i]
  BY AppendFacts
<1>2. /\ n \in Nat /\ (suffix = <<>> <=> n = 0)
      /\ Last = IF n = 0 THEN base ELSE suffix[n]
  BY SuffixFacts
<1>3. InTurn(n + 1)' <=> Inside(suffix)
  <2>1. (n + 1) - 1 = n
    BY <1>2
  <2>2. InTurn(n + 1)' <=>
          \E j \in 1 .. n :
            /\ suffix'[j].type = "turn_started"
            /\ \A k \in j + 1 .. n :
                 suffix'[k].type \notin {"turn_finished", "run_resumed"}
    BY <2>1 DEF InTurn
  <2>3. \A j \in 1 .. n : \A k \in j + 1 .. n : k \in 1 .. n
    BY <1>2
  <2> QED
    BY <1>1, <2>2, <2>3 DEF Inside
<1>4. ToolsBefore(n + 1)' = Last.tools
  <2>1. CASE n = 0
    BY <2>1, <1>2 DEF ToolsBefore
  <2>2. CASE n # 0
    <3>1. n + 1 # 1 /\ (n + 1) - 1 = n /\ n \in 1 .. n
      BY <2>2, <1>2
    <3> QED
      BY <2>2, <3>1, <1>1, <1>2 DEF ToolsBefore
  <2> QED
    BY <2>1, <2>2
<1>5. /\ n + 1 > 1 => suffix'[(n + 1) - 1] = Last /\ suffix # <<>>
      /\ n + 1 = 1 <=> suffix = <<>>
  <2>1. n + 1 > 1 => n # 0 /\ n \in 1 .. n /\ (n + 1) - 1 = n
    BY <1>2
  <2> QED
    BY <2>1, <1>1, <1>2
<1>6. ASSUME Inside(suffix')
      PROVE  \/ e.type = "turn_started"
             \/ Inside(suffix) /\ e.type \notin {"turn_finished", "run_resumed"}
  <2>1. PICK j \in 1 .. n + 1 :
          /\ suffix'[j].type = "turn_started"
          /\ \A k \in j + 1 .. n + 1 :
               suffix'[k].type \notin {"turn_finished", "run_resumed"}
    BY <1>1, <1>6 DEF Inside
  <2>2. CASE j = n + 1
    BY <1>1, <2>1, <2>2
  <2>3. CASE j # n + 1
    <3>1. j \in 1 .. n /\ n + 1 \in j + 1 .. n + 1
      BY <1>2, <2>3
    <3>2. \A k \in j + 1 .. n : k \in 1 .. n /\ k \in j + 1 .. n + 1
      BY <1>2, <3>1
    <3>3. Inside(suffix)
      BY <1>1, <2>1, <3>1, <3>2 DEF Inside
    <3> QED
      BY <1>1, <2>1, <3>1, <3>3
  <2> QED
    BY <2>2, <2>3
<1>7. ASSUME \/ e.type = "turn_started"
             \/ Inside(suffix) /\ e.type \notin {"turn_finished", "run_resumed"}
      PROVE  Inside(suffix')
  <2>1. CASE e.type = "turn_started"
    <3>1. n + 1 \in 1 .. n + 1 /\ (n + 1) + 1 .. n + 1 = {}
      BY <1>2
    <3> QED
      BY <1>1, <2>1, <3>1 DEF Inside
  <2>2. CASE Inside(suffix) /\ e.type \notin {"turn_finished", "run_resumed"}
    <3>1. PICK j \in 1 .. n :
            /\ suffix[j].type = "turn_started"
            /\ \A k \in j + 1 .. n :
                 suffix[k].type \notin {"turn_finished", "run_resumed"}
      BY <2>2 DEF Inside
    <3>2. j \in 1 .. n + 1 /\ suffix'[j].type = "turn_started"
      BY <1>1, <1>2, <3>1
    <3>3. ASSUME NEW k \in j + 1 .. n + 1
          PROVE  suffix'[k].type \notin {"turn_finished", "run_resumed"}
      <4>1. CASE k = n + 1
        BY <4>1, <1>1, <2>2
      <4>2. CASE k # n + 1
        <5>1. k \in j + 1 .. n /\ k \in 1 .. n
          BY <4>2, <1>2
        <5> QED
          BY <5>1, <1>1, <3>1
      <4> QED
        BY <4>1, <4>2
    <3> QED
      BY <1>1, <3>2, <3>3 DEF Inside
  <2> QED
    BY <1>7, <2>1, <2>2
<1> QED
  BY <1>1, <1>3, <1>4, <1>5, <1>6, <1>7

\* An event does not change whether the events before it fit.
LEMMA AppendFits ==
  ASSUME TypeInv, NEW e \in Event, Timed(e), suffix' = Append(suffix, e),
         UNCHANGED <<ck, base>>, NEW n, n = Len(suffix), Fitting,
         Erring' \/ Refreshing' \/ Fits(n + 1)'
  PROVE  Fitting'
<1>1. /\ DOMAIN suffix' = 1 .. n + 1
      /\ \A i \in 1 .. n : suffix'[i] = suffix[i]
  BY AppendFacts
<1>2. n \in Nat /\ DOMAIN suffix = 1 .. n
  BY SuffixFacts
<1>3. \A i \in 1 .. n : i \in 1 .. n + 1
  BY <1>2
<1>4. Erring => Erring'
  BY <1>1, <1>2, <1>3 DEF Erring
<1>5. Refreshing => Refreshing'
  BY <1>1, <1>2, <1>3 DEF Refreshing
<1>6. ASSUME \A i \in DOMAIN suffix : Fits(i), Fits(n + 1)',
             NEW i \in DOMAIN suffix'
      PROVE  Fits(i)'
  <2>1. CASE i = n + 1
    BY <2>1, <1>6
  <2>2. CASE i # n + 1
    <3>1. i \in 1 .. n /\ \A j \in 1 .. i - 1 : j \in 1 .. n
      BY <2>2, <1>1, <1>2
    <3>2. suffix'[i] = suffix[i] /\ (i > 1 => suffix'[i - 1] = suffix[i - 1])
      <4>1. i > 1 => i - 1 \in 1 .. n
        BY <3>1, <1>2
      <4> QED
        BY <4>1, <3>1, <1>1
    <3>3. InTurn(i)' <=> InTurn(i)
      <4>1. \A j \in 1 .. i - 1 : \A k \in j + 1 .. i - 1 : k \in 1 .. i - 1
        BY <3>1, <1>2
      <4> QED
        BY <4>1, <3>1, <1>1 DEF InTurn
    <3>4. ToolsBefore(i)' = ToolsBefore(i)
      <4>1. i # 1 => i - 1 \in 1 .. n
        BY <3>1, <1>2
      <4> QED
        BY <4>1, <1>1 DEF ToolsBefore
    <3>5. Fits(i)
      BY <1>2, <1>6, <3>1
    <3>6. Projects(suffix[i])'
      BY <3>2, <3>5 DEF Fits, Projects, AnchorsHold
    <3>7. ToolsFit(i)'
      BY <3>2, <3>3, <3>4, <3>5 DEF Fits, ToolsFit
    <3>8. Placed(i)'
      BY <3>2, <3>3, <3>5 DEF Fits, Placed
    <3> QED
      BY <3>2, <3>5, <3>6, <3>7, <3>8 DEF Fits
  <2> QED
    BY <2>1, <2>2
<1> QED
  BY <1>4, <1>5, <1>6 DEF Fitting

\* A log that ends inside a turn of INSTRUCTION_READY is one of a refresh.
LEMMA InsideRefreshes ==
  ASSUME TypeInv, Inside(suffix), ck.state = "INSTRUCTION_READY"
  PROVE  Refreshing
BY SuffixFacts DEF Inside, Refreshing

\* The rules of Placed for the next event, by the place of the process.
Expected(type, m) ==
  \/ type = "error"
  \/ type = "state_entered" /\ suffix = <<>> /\ m.role = ck.role
  \/ /\ type = "turn_started" /\ m.open
     /\ \/ ck.state = "INSTRUCTION_READY"
        \/ /\ ck.state \in TURN_CONTROL_STATES
           /\ m.role = ck.role /\ m.role # "orchestrator"
  \/ /\ type \in {"heartbeat", "tool_activity"} /\ m.open
     /\ ck.state = "INSTRUCTION_READY" \/ m.role = ck.role
     /\ type = "tool_activity" => m.tools >= 1
  \/ type = "turn_finished" /\ m.role = "orchestrator"
  \/ /\ type = "correction" /\ ck.state = "REVIEW_CORRECTION_PENDING"
     /\ m.role = "reviewer"
  \/ /\ \/ type \in {"logical_outcome", "run_finished"} /\ ck.out # "none"
        \/ /\ type = "evidence_finalization"
           /\ ck.state \in EVIDENCE_CONTROL_STATES
     /\ m.role = "orchestrator"

\* Without an I/O error the event of a live process is in the log, and fits.
LEMMA RecordFits ==
  ASSUME TypeInv, TimeInv, KillInv, faults = 0, faults' = 0, Alive,
         NEW type \in EVENT_TYPES, NEW m \in Memory, Timed(m),
         m.known = mem.known, m.obs = mem.obs, m.state = mem.state,
         m.out = mem.out, m.pub = mem.pub, m.run = mem.run, m.stage = mem.stage,
         Record(type, m), UNCHANGED <<ck, base>>,
         pc = "turn" <=> type \in {"heartbeat", "tool_activity", "turn_finished"},
         m.open <=> type \in {"turn_started", "heartbeat", "tool_activity"},
         IF type = "turn_started" THEN m.tools = 0
         ELSE IF pc = "turn" THEN m.tools >= Last.tools
         ELSE m.tools = Last.tools,
         Expected(type, m)
  PROVE  /\ Fitting' /\ Agreed' /\ suffix' # <<>>
         /\ Last' = EventOf(type, m)
         /\ mem' = [m EXCEPT !.known = mem.known + 1]
         /\ Inside(suffix)' <=>
              type \in {"turn_started", "heartbeat", "tool_activity"}
<1> DEFINE e == EventOf(type, m)
<1>1. e \in Event /\ Timed(e)
  BY EventTyped
<1>2. /\ e.type = type /\ e.state = mem.state /\ e.out = mem.out
      /\ e.pub = mem.pub /\ e.run = mem.run /\ e.stage = mem.stage
      /\ e.role = m.role /\ e.timed = m.open /\ e.tools = m.tools
  BY DEF EventOf
<1>3. Fitting /\ Agreed /\ TurnWhere /\ Ahead
  BY DEF KillInv, TimeInv
<1>4. Len(suffix) \in Nat /\ mem \in Memory /\ faults \in Nat
  BY SuffixFacts DEF TypeInv, TypeOK
<1> PICK n \in Nat : n = Len(suffix)
  BY <1>4
<1>5. suffix' = Append(suffix, e) /\ mem' = [m EXCEPT !.known = mem.known + 1]
  <2>1. m.obs /\ faults' # faults + 1
    BY <1>3, <1>4 DEF Agreed
  <2>2. \/ suffix' = Append(suffix, e) /\ mem' = [m EXCEPT !.known = mem.known + 1]
        \/ faults' = faults + 1
        \/ ~m.obs
    BY RecordFacts, Zenon
  <2> QED
    BY <2>1, <2>2, Zenon
<1> HIDE DEF e
<1>6. /\ suffix'[n + 1] = e /\ (InTurn(n + 1)' <=> Inside(suffix))
      /\ ToolsBefore(n + 1)' = Last.tools
      /\ n + 1 > 1 => suffix'[(n + 1) - 1] = Last /\ suffix # <<>>
      /\ n + 1 = 1 <=> suffix = <<>>
      /\ Inside(suffix') <=>
           \/ e.type = "turn_started"
           \/ Inside(suffix) /\ e.type \notin {"turn_finished", "run_resumed"}
  BY <1>1, <1>5, AppendPlace
<1>7. Len(suffix') = n + 1 /\ suffix' # <<>> /\ Last' = e
      /\ DOMAIN suffix' = 1 .. n + 1
  BY <1>1, <1>5, AppendFacts
<1>8. Inside(suffix) <=> pc = "turn"
  BY <1>3 DEF TurnWhere
<1>9. Inside(suffix') <=> type \in {"turn_started", "heartbeat", "tool_activity"}
  BY <1>2, <1>6, <1>8
<1>10. Projects(suffix[n + 1])'
  BY <1>2, <1>3, <1>6 DEF Projects, AnchorsHold, Agreed, Ahead
<1>11. ToolsFit(n + 1)'
  BY <1>2, <1>6, <1>8 DEF ToolsFit
<1>12. n + 1 > 1 /\ suffix'[(n + 1) - 1].type = "run_finished"
         => suffix'[n + 1].type = "run_resumed"
  BY <1>3, <1>6 DEF TurnWhere
<1>13. Erring' \/ Refreshing' \/ Placed(n + 1)'
  <2>1. n + 1 \in DOMAIN suffix'
    BY <1>4, <1>7
  <2>2. CASE type = "error"
    BY <2>1, <2>2, <1>2, <1>6 DEF Erring
  <2>3. CASE type = "turn_started" /\ ck.state = "INSTRUCTION_READY"
    BY <2>1, <2>3, <1>2, <1>6 DEF Refreshing
  <2>4. CASE pc = "turn" /\ ck.state = "INSTRUCTION_READY"
    <3>1. Refreshing
      BY <2>4, <1>8, InsideRefreshes
    <3>2. \A i \in DOMAIN suffix : i \in DOMAIN suffix' /\ suffix'[i] = suffix[i]
      BY <1>1, <1>4, <1>5, <1>7, AppendFacts, SuffixFacts
    <3> QED
      BY <3>1, <3>2 DEF Refreshing
  <2>5. CASE ~(pc = "turn" /\ ck.state = "INSTRUCTION_READY") /\ type # "error"
             /\ ~(type = "turn_started" /\ ck.state = "INSTRUCTION_READY")
    BY <2>5, <1>2, <1>6, <1>8 DEF Placed, Expected
  <2> QED
    BY <2>2, <2>3, <2>4, <2>5
<1>14. Fitting'
  <2>1. Erring' \/ Refreshing' \/ Fits(n + 1)'
    BY <1>10, <1>11, <1>12, <1>13 DEF Fits
  <2> QED
    BY <2>1, <1>1, <1>3, <1>5, AppendFits
<1>15. Agreed'
  <2>1. /\ mem'.known = mem.known + 1 /\ mem'.obs = mem.obs
        /\ mem'.state = mem.state /\ mem'.out = mem.out /\ mem'.pub = mem.pub
    BY <1>5 DEF Memory
  <2> QED
    BY <2>1, <1>3, <1>7 DEF Agreed
<1> QED
  BY <1>5, <1>7, <1>9, <1>14, <1>15 DEF e

\* Without an I/O error a persist empties the suffix.
LEMMA PersistFits ==
  ASSUME TypeInv, KillInv, faults = 0, faults' = 0, Alive, pc # "turn",
         NEW s \in States, NEW out \in Outcomes, NEW failed \in BOOLEAN,
         NEW how \in Modes, NEW next \in Behind,
         Persist(s, out, failed, how, next),
         s \in Stopped \cup EVIDENCE_CONTROL_STATES => out # "none",
         next \in Deciding \/ how = "handler" => out # "none",
         next = "correction" => s = "REVIEW_CORRECTION_PENDING",
         next = "logical_outcome" => s \in Stopped \cup Transition,
         next = "evidence_finalization" => s \in EVIDENCE_CONTROL_STATES
  PROVE  KillInv'
<1> DEFINE m == Prepared(s, out, failed)
<1>1. /\ m \in Memory /\ Timed(m) /\ m.known = mem.known /\ m.obs = mem.obs
      /\ m.state = s /\ m.out = out /\ m.role = progress_role(s)
      /\ m.tools = mem.tools /\ m.open = mem.open
  BY PreparedFacts
<1>2. Agreed /\ TurnWhere /\ faults \in Nat /\ next \in Places
  BY DEF KillInv, TypeInv, TypeOK, Behind, Deciding, Places
<1>3. /\ mode' = how /\ Write(m) /\ pc' = "mark" /\ then' = next
      /\ mem' = [m EXCEPT !.known = 0]
  <2>1. \/ Write(m) /\ pc' = "mark" /\ then' = next /\ faults' = faults
        \/ faults' = faults + 1
    BY <1>2, PersistFacts
  <2>2. mode' = how
    BY <1>2, PersistFacts
  <2>3. Write(m) => mem' = [m EXCEPT !.known = 0]
    BY DEF Write
  <2> HIDE DEF m
  <2> QED
    BY <2>1, <2>2, <2>3, <1>2
<1> HIDE DEF m
<1>4. mem.known \in Nat /\ mem.known = Len(suffix) /\ mem.obs /\ ~mem.open
      /\ mem.tools = Last.tools
  BY <1>2 DEF Agreed, TurnWhere, TypeInv, TypeOK, Memory
<1>5. suffix' = <<>> /\ Len(suffix') = 0 /\ DOMAIN suffix' = {} /\ Last' = Last
  <2>1. suffix' = SubSeq(suffix, m.known + 1, Len(suffix))
        /\ base' = IF m.known = 0 THEN base ELSE suffix[m.known]
    BY <1>3 DEF Write
  <2>2. m.known \in Nat /\ m.known <= Len(suffix) /\ m.known = Len(suffix)
    BY <1>1, <1>4
  <2> QED
    BY <2>1, <2>2, CursorFacts, EmptySeq
<1>6. /\ ck'.state = s /\ ck'.out = out /\ ck'.role = progress_role(s)
      /\ ck'.pub = m.pub
  BY <1>1, <1>3, WriteFacts
<1>7. /\ mem'.state = s /\ mem'.out = out /\ mem'.role = progress_role(s)
      /\ mem'.pub = m.pub /\ mem'.known = 0 /\ mem'.obs /\ ~mem'.open
      /\ mem'.tools = Last.tools
  BY <1>1, <1>3, <1>4 DEF Memory
<1>8. Fitting'
  BY <1>5 DEF Fitting
<1>9. OutcomeWhere'
  BY <1>3, <1>6 DEF OutcomeWhere, NextPlace
<1>10. StateWhere'
  BY <1>3, <1>7 DEF StateWhere, NextPlace
<1>11. Agreed' /\ RoleWhere'
  BY <1>3, <1>5, <1>6, <1>7 DEF Agreed, RoleWhere
<1>12. TurnWhere'
  <2>1. ~Inside(suffix')
    BY <1>5 DEF Inside
  <2> QED
    BY <2>1, <1>3, <1>5, <1>7 DEF TurnWhere
<1> QED
  BY <1>3, <1>6, <1>8, <1>9, <1>10, <1>11, <1>12 DEF KillInv, EndAgrees

\* Without an I/O error a record keeps the invariant, if the next place allows.
LEMMA RecordKill ==
  ASSUME TypeInv, TimeInv, KillInv, faults = 0, faults' = 0, Alive,
         NEW type \in EVENT_TYPES, NEW m \in Memory, Timed(m),
         m.known = mem.known, m.obs = mem.obs, m.state = mem.state,
         m.out = mem.out, m.pub = mem.pub, m.run = mem.run, m.stage = mem.stage,
         Record(type, m), UNCHANGED <<ck, base, mode>>,
         pc = "turn" <=> type \in {"heartbeat", "tool_activity", "turn_finished"},
         m.open <=> type \in {"turn_started", "heartbeat", "tool_activity"},
         IF type = "turn_started" THEN m.tools = 0
         ELSE IF pc = "turn" THEN m.tools >= Last.tools
         ELSE m.tools = Last.tools,
         Expected(type, m),
         type # "run_finished", pc' \notin {"down", "ended", "mark"},
         pc' = "turn" <=> m.open,
         pc' \in Deciding \/ pc' = "again" \/ mode = "handler" => ck.out # "none",
         pc' = "correction" => mem.state = "REVIEW_CORRECTION_PENDING",
         pc' = "logical_outcome" => mem.state \in Stopped \cup Transition,
         pc' = "evidence_finalization" => mem.state \in EVIDENCE_CONTROL_STATES,
         pc' \in {"correction", "logical_outcome", "evidence_finalization"}
           => m.role = ck.role,
         pc' = "turn" => \/ ck.state = "INSTRUCTION_READY"
                         \/ ck.state \in TURN_CONTROL_STATES /\ m.role = ck.role
  PROVE  KillInv'
<1>1. /\ Fitting' /\ Agreed' /\ suffix' # <<>> /\ Last' = EventOf(type, m)
      /\ mem' = [m EXCEPT !.known = mem.known + 1]
      /\ Inside(suffix)' <=>
           type \in {"turn_started", "heartbeat", "tool_activity"}
  BY RecordFits
<1>2. /\ mem'.state = mem.state /\ mem'.role = m.role /\ mem'.open = m.open
      /\ mem'.tools = m.tools
  BY <1>1 DEF Memory
<1>3. Last'.type = type /\ Last'.tools = m.tools
  BY <1>1 DEF EventOf
<1>4. m.tools \in Nat
  BY ConstantsAssumption DEF Memory
<1>5. OutcomeWhere /\ ck.role = progress_role(ck.state)
  BY DEF KillInv
<1>6. OutcomeWhere'
  BY <1>5 DEF OutcomeWhere, NextPlace
<1>7. StateWhere'
  BY <1>2 DEF StateWhere, NextPlace
<1>8. RoleWhere'
  BY <1>2 DEF RoleWhere
<1>9. TurnWhere'
  BY <1>1, <1>2, <1>3, <1>4 DEF TurnWhere
<1>10. EndAgrees'
  BY DEF EndAgrees
<1> QED
  BY <1>1, <1>5, <1>6, <1>7, <1>8, <1>9, <1>10 DEF KillInv

\* A step that moves neither files nor memory keeps the invariant, if the next
\* place allows.
LEMMA SameKill ==
  ASSUME KillInv, faults = 0, UNCHANGED <<ck, log, mem>>, Alive,
         pc \notin {"turn", "mark"},
         pc' \in {"loop", "after", "finish", "return", "again"},
         pc' \in Deciding \/ pc' = "again" \/ mode' = "handler" => ck.out # "none"
  PROVE  KillInv'
<1>1. /\ Fitting /\ OutcomeWhere /\ ck.role = progress_role(ck.state)
      /\ Agreed /\ TurnWhere
  BY DEF KillInv
<1>2. Last' = Last /\ Fitting'
  BY <1>1 DEF log, Last, Fitting, Erring, Refreshing, Fits, Projects,
              AnchorsHold, ToolsFit, ToolsBefore, Placed, InTurn
<1>3. OutcomeWhere' /\ StateWhere' /\ RoleWhere' /\ EndAgrees'
  BY <1>1 DEF OutcomeWhere, StateWhere, RoleWhere, EndAgrees, NextPlace
<1>4. Agreed' /\ TurnWhere'
  BY <1>1, <1>2 DEF log, Agreed, TurnWhere
<1> QED
  BY <1>1, <1>2, <1>3, <1>4 DEF KillInv

\* The log of a process that is gone fits as it did.
LEMMA GoneKill ==
  ASSUME KillInv, faults = 0, UNCHANGED <<ck, log>>, pc' = "down"
  PROVE  KillInv'
<1>1. Fitting /\ OutcomeWhere /\ ck.role = progress_role(ck.state)
  BY DEF KillInv
<1>2. Fitting'
  BY <1>1 DEF log, Fitting, Erring, Refreshing, Fits, Projects, AnchorsHold,
              ToolsFit, ToolsBefore, Placed, InTurn
<1>3. OutcomeWhere' /\ StateWhere' /\ EndAgrees' /\ ~Alive'
  BY <1>1 DEF OutcomeWhere, StateWhere, EndAgrees, Alive
<1> QED
  BY <1>1, <1>2, <1>3 DEF KillInv

\* I/O errors are counted, one at a time.
LEMMA FaultsGrow ==
  ASSUME Next
  PROVE  faults' = faults \/ faults' = faults + 1
<1>1. \A type, m : Record(type, m) => faults' = faults \/ faults' = faults + 1
  BY DEF Record
<1>2. \A s, out, failed, how, next :
        Persist(s, out, failed, how, next) => faults' = faults \/ faults' = faults + 1
  BY DEF Persist
<1>3. CASE Mark
  BY <1>1, <1>3 DEF Mark
<1>4. CASE Turn
  BY <1>1, <1>2, <1>4
  DEF Turn, NewAttempt, TurnStarted, TurnRecovered, Heartbeat, ToolActivity,
      FlushToolActivity, TurnFinished, TurnBreaks, PumpOutlivesTurn,
      RecordTurnSummary
<1>5. CASE Branch
  BY <1>1, <1>2, <1>5 DEF Branch, Advance, PlanCorrection, ReachLogicalOutcome,
                          Announce
<1>6. CASE Finish
  BY <1>1, <1>2, <1>6 DEF Finish, FinishEvidence, FinishReturn
<1>7. CASE Exception
  BY <1>1, <1>2, <1>7 DEF Exception, RecordError, RaiseAgain, RaiseOut, Handle,
                          HandleAgain
<1>8. CASE Restart
  BY <1>2, <1>8 DEF Restart, Kill, Resume, ReconcileSummary, GoOn
<1>9. CASE Tick
  BY <1>9 DEF Tick
<1> QED
  BY <1>3, <1>4, <1>5, <1>6, <1>7, <1>8, <1>9 DEF Next

\* The roles of the states that are announced or that run a turn.
LEMMA RoleFacts ==
  /\ \A s \in Stopped \cup Transition \cup EVIDENCE_CONTROL_STATES :
       progress_role(s) = "orchestrator"
  /\ progress_role("REVIEW_CORRECTION_PENDING") = "reviewer"
  /\ \A s \in TURN_CONTROL_STATES : TurnRole(s) = progress_role(s)
                                    /\ TurnRole(s) # "orchestrator"
  /\ TURN_CONTROL_STATES \cap (Stopped \cup EVIDENCE_CONTROL_STATES) = {}
  /\ Stopped \cap EVIDENCE_CONTROL_STATES = {}
  /\ Behind \subseteq Places
BY DEF Stopped, Transition, EVIDENCE_CONTROL_STATES, TURN_CONTROL_STATES,
       progress_role, TurnRole, Behind, Deciding, Places

\* A resume that is not met by an I/O error keeps the invariant.
LEMMA ResumeKill ==
  ASSUME TypeInv, KillInv, faults = 0, faults' = 0, Resume
  PROVE  KillInv'
<1> DEFINE r == Reconstructed
           e == EventOf("run_resumed", r)
<1>1. /\ r \in Memory /\ Timed(r) /\ r.known = Len(suffix) /\ r.obs
      /\ r.state = ck.state /\ r.role = ck.role /\ r.out = ck.out
      /\ r.pub = ck.pub /\ r.tools = Last.tools /\ ~r.open
      /\ r.run >= ck.run /\ r.stage >= ck.stage
  BY ReconstructedFacts
<1>2. e \in Event /\ Timed(e)
  BY <1>1, NameFacts, EventTyped
<1>3. /\ e.type = "run_resumed" /\ e.state = ck.state /\ e.out = ck.out
      /\ e.pub = ck.pub /\ e.run = r.run /\ e.stage = r.stage
      /\ e.role = ck.role /\ ~e.timed /\ e.tools = Last.tools
  BY <1>1 DEF EventOf
<1>4. /\ suffix' = Append(suffix, e) /\ pc' = "go" /\ mode' = "resume"
      /\ mem' = [r EXCEPT !.known = @ + 1] /\ UNCHANGED <<ck, base, then, kills>>
  <2>1. faults' # faults + 1
    OBVIOUS
  <2> QED
    BY <2>1 DEF Resume
<1> HIDE DEF r, e
<1>5. /\ Fitting /\ OutcomeWhere /\ ck.role = progress_role(ck.state)
      /\ Len(suffix) \in Nat
  BY SuffixFacts DEF KillInv
<1> PICK n \in Nat : n = Len(suffix)
  BY <1>5
<1>6. /\ suffix'[n + 1] = e /\ ToolsBefore(n + 1)' = Last.tools
      /\ Inside(suffix') <=>
           \/ e.type = "turn_started"
           \/ Inside(suffix) /\ e.type \notin {"turn_finished", "run_resumed"}
  BY <1>2, <1>4, AppendPlace
<1>7. Len(suffix') = n + 1 /\ suffix' # <<>> /\ Last' = e
  BY <1>2, <1>4, AppendFacts
<1>8. e.tools \in Nat
  BY <1>2, ConstantsAssumption DEF Event
<1>9. Fits(n + 1)'
  <2>1. Projects(suffix[n + 1])'
    BY <1>1, <1>3, <1>4, <1>6 DEF Projects, AnchorsHold
  <2>2. ToolsFit(n + 1)'
    BY <1>3, <1>6, <1>8 DEF ToolsFit
  <2>3. Placed(n + 1)'
    BY <1>3, <1>4, <1>6 DEF Placed
  <2> QED
    BY <1>3, <1>6, <2>1, <2>2, <2>3 DEF Fits
<1>10. Fitting'
  BY <1>2, <1>4, <1>5, <1>9, AppendFits
<1>11. /\ mem'.known = r.known + 1 /\ mem'.obs = r.obs /\ mem'.state = r.state
       /\ mem'.out = r.out /\ mem'.pub = r.pub /\ mem'.open = r.open
       /\ mem'.tools = r.tools
  BY <1>1, <1>4 DEF Memory
<1>12. Agreed'
  BY <1>1, <1>4, <1>7, <1>11 DEF Agreed
<1>13. TurnWhere'
  BY <1>1, <1>3, <1>4, <1>6, <1>7, <1>11 DEF TurnWhere
<1>14. OutcomeWhere' /\ StateWhere' /\ RoleWhere' /\ EndAgrees'
  BY <1>4, <1>5 DEF OutcomeWhere, StateWhere, RoleWhere, EndAgrees, NextPlace,
                    Deciding
<1> QED
  BY <1>4, <1>5, <1>10, <1>12, <1>13, <1>14 DEF KillInv

\* The return of a run that met no I/O error is the end of its log.
LEMMA ReturnKill ==
  ASSUME TypeInv, TimeInv, KillInv, faults = 0, faults' = 0, FinishReturn
  PROVE  KillInv'
<1> DEFINE m == Returning(mem)
<1>1. /\ m \in Memory /\ Timed(m) /\ m.known = mem.known /\ m.run = mem.run
      /\ m.stage = mem.stage /\ m.obs = mem.obs /\ m.state = mem.state
      /\ m.out = mem.out /\ m.pub = mem.pub /\ m.role = "orchestrator"
      /\ m.open = mem.open /\ m.tools = mem.tools
  BY TurnMemories
<1>2. /\ pc = "return" /\ Record("run_finished", m) /\ pc' = "ended"
      /\ UNCHANGED <<ck, base, mode, then, kills>>
  BY DEF FinishReturn
<1> HIDE DEF m
<1>3. /\ Alive /\ Agreed /\ TurnWhere /\ OutcomeWhere
      /\ ck.role = progress_role(ck.state)
  BY <1>2 DEF KillInv, Alive
<1>4. /\ ck.out # "none" /\ ~m.open /\ m.tools = Last.tools
  BY <1>1, <1>2, <1>3 DEF OutcomeWhere, TurnWhere, NextPlace, Deciding
<1>5. Expected("run_finished", m)
  BY <1>1, <1>4 DEF Expected
<1>6. /\ Fitting' /\ suffix' # <<>> /\ Last' = EventOf("run_finished", m)
  <2>1. "run_finished" \in EVENT_TYPES
    BY NameFacts
  <2> QED
    BY <1>1, <1>2, <1>3, <1>4, <1>5, <2>1, RecordFits
<1>7. EndAgrees'
  BY <1>1, <1>2, <1>3, <1>6 DEF EndAgrees, EventOf, Agreed
<1>8. OutcomeWhere' /\ StateWhere' /\ ~Alive'
  BY <1>2, <1>3 DEF OutcomeWhere, StateWhere, Alive
<1> QED
  BY <1>2, <1>3, <1>6, <1>7, <1>8 DEF KillInv

\* Every step of a run that met no I/O error keeps the invariant.
LEMMA KillNext ==
  ASSUME TypeInv, TimeInv, KillInv, Next
  PROVE  KillInv'
<1> SUFFICES ASSUME faults' = 0
             PROVE  KillInv'
  BY DEF KillInv
<1>1. /\ mem \in Memory /\ Timed(mem) /\ mem.state \in States
      /\ mem.out \in Outcomes /\ mode \in Modes /\ pc \in Places
      /\ faults \in Nat /\ mem.tools \in Nat /\ Last.tools \in Nat
  <2>1. \A i \in 0 .. MaxTools : i \in Nat
    BY ConstantsAssumption
  <2>2. Last \in Event /\ mem \in Memory
    BY SuffixFacts DEF TypeInv, TypeOK
  <2> QED
    BY <2>1, <2>2 DEF TypeInv, TypeOK, Memory, Modes, Event
<1>2. faults = 0 /\ faults' # faults + 1
  BY <1>1, FaultsGrow
<1>3. /\ Fitting /\ OutcomeWhere /\ StateWhere
      /\ ck.role = progress_role(ck.state)
      /\ Alive => Agreed /\ RoleWhere /\ TurnWhere
  BY <1>2 DEF KillInv
<1>4. /\ FALSE \in BOOLEAN /\ TRUE \in BOOLEAN
      /\ {"loop", "route", "go", "correction", "logical_outcome", "finish",
          "evidence_finalization", "return"} \subseteq Behind
      /\ {"try", "handler", "last", "resume"} \subseteq Modes
  BY DEF Behind, Deciding, Modes
<1>5. Alive => /\ mem.state = ck.state /\ mem.out = ck.out
               /\ mem.open <=> pc = "turn"
               /\ IF pc = "turn" THEN mem.tools >= Last.tools
                  ELSE mem.tools = Last.tools
  BY <1>3 DEF Agreed, TurnWhere
<1>6. /\ ck.state \in Stopped \cup EVIDENCE_CONTROL_STATES => ck.out # "none"
      /\ pc \in Deciding \cup {"again"} \/ (Alive /\ mode = "handler")
           => ck.out # "none"
  BY <1>3 DEF OutcomeWhere, NextPlace, Alive, Deciding
<1>7. CASE Mark
  <2>1. /\ pc = "mark" /\ Record("state_entered", mem) /\ pc' = then
        /\ UNCHANGED <<ck, base, mode, then, kills>> /\ Alive
    BY <1>7 DEF Mark, Alive
  <2>2. suffix = <<>> /\ mem.role = ck.role /\ then \in Behind
    BY <1>3, <2>1 DEF TurnWhere, RoleWhere, StateWhere
  <2>3. Expected("state_entered", mem)
    BY <2>2 DEF Expected
  <2>4. /\ pc' \notin {"down", "ended", "mark", "turn", "again"}
        /\ pc' \in Deciding \/ mode = "handler" => ck.out # "none"
        /\ pc' = "correction" => mem.state = "REVIEW_CORRECTION_PENDING"
        /\ pc' = "logical_outcome" => mem.state \in Stopped \cup Transition
        /\ pc' = "evidence_finalization" => mem.state \in EVIDENCE_CONTROL_STATES
    BY <1>3, <2>1, <2>2 DEF OutcomeWhere, StateWhere, NextPlace, Behind, Deciding
  <2> QED
    BY <1>1, <1>2, <1>5, <2>1, <2>2, <2>3, <2>4, NameFacts, RecordKill
<1>8. CASE Turn
  <2>1. CASE NewAttempt
    <3>1. /\ pc = "loop" /\ mem.state \in TURN_CONTROL_STATES
          /\ Persist(mem.state, mem.out, FALSE, "try", "loop")
      BY <2>1 DEF NewAttempt
    <3> QED
      BY <1>1, <1>2, <1>4, <3>1, RoleFacts, PersistFits DEF Alive, Deciding
  <2>2. CASE TurnStarted
    <3> DEFINE m == [mem EXCEPT !.role = TurnRole(mem.state), !.open = TRUE,
                                !.tools = 0]
    <3>1. /\ m \in Memory /\ Timed(m) /\ m.known = mem.known
          /\ m.run = mem.run /\ m.stage = mem.stage /\ m.obs = mem.obs
          /\ m.state = mem.state /\ m.out = mem.out /\ m.pub = mem.pub
          /\ m.role = TurnRole(mem.state) /\ m.open /\ m.tools = 0
      BY TurnMemories
    <3>2. /\ pc = "loop" /\ Record("turn_started", m) /\ pc' = "turn" /\ Alive
          /\ mem.state \in TURN_CONTROL_STATES \cup {"INSTRUCTION_READY"}
          /\ UNCHANGED <<ck, base, mode, then, kills>>
      BY <2>2 DEF TurnStarted, Alive
    <3> HIDE DEF m
    <3>3. \/ ck.state = "INSTRUCTION_READY"
          \/ /\ ck.state \in TURN_CONTROL_STATES
             /\ m.role = ck.role /\ m.role # "orchestrator"
      BY <1>3, <1>5, <3>1, <3>2, RoleFacts
    <3>4. Expected("turn_started", m)
      BY <3>1, <3>3 DEF Expected
    <3>5. pc' \notin Deciding /\ (mode = "handler" => ck.out # "none")
      BY <1>6, <3>2 DEF Deciding
    <3> QED
      BY <1>2, <3>1, <3>2, <3>3, <3>4, <3>5, NameFacts, RecordKill
  <2>3. CASE TurnRecovered
    <3>1. pc = "loop" /\ pc' = "after" /\ UNCHANGED <<ck, log, mem, mode>>
      BY <2>3 DEF TurnRecovered
    <3> QED
      BY <1>2, <1>6, <3>1, SameKill DEF Alive, Deciding
  <2>4. CASE Heartbeat
    <3>1. /\ pc = "turn" /\ pc' = "turn" /\ Record("heartbeat", mem) /\ Alive
          /\ UNCHANGED <<ck, base, mode, then, kills>>
      BY <2>4 DEF Heartbeat, Alive
    <3>2. \/ ck.state = "INSTRUCTION_READY"
          \/ ck.state \in TURN_CONTROL_STATES /\ mem.role = ck.role
      BY <1>3, <3>1 DEF RoleWhere
    <3>3. Expected("heartbeat", mem)
      BY <1>5, <3>1, <3>2 DEF Expected
    <3>4. pc' \notin Deciding /\ (mode = "handler" => ck.out # "none")
      BY <1>6, <3>1 DEF Deciding
    <3> QED
      BY <1>1, <1>2, <1>5, <3>1, <3>2, <3>3, <3>4, NameFacts, RecordKill
  <2>5. CASE ToolActivity
    <3> DEFINE m == [mem EXCEPT !.tools = @ + 1]
    <3>1. /\ m \in Memory /\ Timed(m) /\ m.known = mem.known
          /\ m.run = mem.run /\ m.stage = mem.stage /\ m.obs = mem.obs
          /\ m.state = mem.state /\ m.out = mem.out /\ m.pub = mem.pub
          /\ m.role = mem.role /\ m.open = mem.open
          /\ m.tools = mem.tools + 1
      BY <2>5, TurnMemories DEF ToolActivity
    <3>2. /\ \/ Record("tool_activity", m)
             \/ mem' = m /\ UNCHANGED <<suffix, faults>>
          /\ pc = "turn" /\ Alive
          /\ UNCHANGED <<ck, base, mode, pc, then, kills>>
      BY <2>5 DEF ToolActivity, Alive
    <3> HIDE DEF m
    <3>3. m.tools >= 1 /\ m.tools >= Last.tools
      BY <1>1, <1>5, <3>1, <3>2
    <3>4. \/ ck.state = "INSTRUCTION_READY"
          \/ ck.state \in TURN_CONTROL_STATES /\ m.role = ck.role
      BY <1>3, <3>1, <3>2 DEF RoleWhere
    <3>5. CASE Record("tool_activity", m)
      <4>1. Expected("tool_activity", m)
        BY <1>5, <3>1, <3>2, <3>3, <3>4 DEF Expected
      <4>2. pc' \notin Deciding /\ (mode = "handler" => ck.out # "none")
        BY <1>6, <3>2 DEF Deciding
      <4> QED
        BY <1>2, <1>5, <3>1, <3>2, <3>3, <3>4, <3>5, <4>1, <4>2, NameFacts,
           RecordKill
    <3>6. CASE mem' = m /\ UNCHANGED <<suffix, faults>>
      <4>1. Last' = Last /\ Fitting'
        BY <1>3, <3>2, <3>6
        DEF Last, Fitting, Erring, Refreshing, Fits, Projects, AnchorsHold,
            ToolsFit, ToolsBefore, Placed, InTurn
      <4>2. Agreed' /\ RoleWhere' /\ StateWhere' /\ OutcomeWhere' /\ EndAgrees'
        BY <1>3, <3>1, <3>2, <3>6 DEF Agreed, RoleWhere, StateWhere,
           OutcomeWhere, EndAgrees, NextPlace, Alive
      <4>3. TurnWhere'
        BY <1>3, <3>1, <3>2, <3>3, <3>6, <4>1 DEF TurnWhere
      <4> QED
        BY <1>3, <3>2, <4>1, <4>2, <4>3 DEF KillInv
    <3> QED
      BY <3>2, <3>5, <3>6
  <2>6. CASE FlushToolActivity
    <3>1. /\ pc = "turn" /\ pc' = "turn" /\ Record("tool_activity", mem) /\ Alive
          /\ mem.tools > 0 /\ UNCHANGED <<ck, base, mode, then, kills>>
      BY <2>6 DEF FlushToolActivity, Alive
    <3>2. \/ ck.state = "INSTRUCTION_READY"
          \/ ck.state \in TURN_CONTROL_STATES /\ mem.role = ck.role
      BY <1>3, <3>1 DEF RoleWhere
    <3>3. Expected("tool_activity", mem)
      <4>1. mem.tools >= 1
        BY <1>1, <3>1
      <4> QED
        BY <1>5, <3>1, <3>2, <4>1 DEF Expected
    <3>4. pc' \notin Deciding /\ (mode = "handler" => ck.out # "none")
      BY <1>6, <3>1 DEF Deciding
    <3> QED
      BY <1>1, <1>2, <1>5, <3>1, <3>2, <3>3, <3>4, NameFacts, RecordKill
  <2>7. CASE TurnFinished
    <3> DEFINE m == Closed(mem)
    <3>1. /\ m \in Memory /\ Timed(m) /\ m.known = mem.known
          /\ m.run = mem.run /\ m.stage = mem.stage /\ m.obs = mem.obs
          /\ m.state = mem.state /\ m.out = mem.out /\ m.pub = mem.pub
          /\ m.role = "orchestrator" /\ ~m.open /\ m.tools = mem.tools
      BY TurnMemories
    <3>2. /\ pc = "turn" /\ pc' = "after" /\ Record("turn_finished", m) /\ Alive
          /\ UNCHANGED <<ck, base, mode, then, kills>>
      BY <2>7 DEF TurnFinished, Alive
    <3> HIDE DEF m
    <3>3. Expected("turn_finished", m)
      BY <3>1 DEF Expected
    <3>4. pc' \notin Deciding /\ (mode = "handler" => ck.out # "none")
      BY <1>6, <3>2 DEF Deciding
    <3> QED
      BY <1>2, <1>5, <3>1, <3>2, <3>3, <3>4, NameFacts, RecordKill
  <2>8. CASE TurnBreaks
    BY <2>8, <1>2 DEF TurnBreaks
  <2>9. CASE PumpOutlivesTurn
    BY <2>9, <1>2 DEF PumpOutlivesTurn
  <2>10. CASE RecordTurnSummary
    <3>1. /\ pc = "after" /\ Alive
          /\ Persist(mem.state, mem.out, FALSE, "try", "route")
      BY <2>10 DEF RecordTurnSummary, Alive
    <3> QED
      BY <1>1, <1>2, <1>4, <1>5, <1>6, <3>1, PersistFits DEF Deciding
  <2> QED
    BY <1>8, <2>1, <2>2, <2>3, <2>4, <2>5, <2>6, <2>7, <2>8, <2>9, <2>10 DEF Turn
<1>9. CASE Branch
  <2>1. CASE Advance
    <3>1. PICK s \in States : /\ <<mem.state, s>> \in Follows
                              /\ Persist(s, mem.out, FALSE, "try", "loop")
      BY <2>1 DEF Advance
    <3>2. pc \in {"loop", "route"} /\ s \notin Stopped \cup EVIDENCE_CONTROL_STATES
      BY <2>1, <3>1 DEF Follows, Stopped, EVIDENCE_CONTROL_STATES, Advance,
                        TurnOver
    <3> QED
      BY <1>1, <1>2, <1>4, <3>1, <3>2, PersistFits DEF Alive, Deciding
  <2>2. CASE PlanCorrection
    <3>1. /\ pc \in {"loop", "route"}
          /\ Persist("REVIEW_CORRECTION_PENDING", mem.out, FALSE, "try",
                     "correction")
      BY <2>2 DEF PlanCorrection, TurnOver
    <3>2. "REVIEW_CORRECTION_PENDING" \notin Stopped \cup EVIDENCE_CONTROL_STATES
      BY DEF Stopped, EVIDENCE_CONTROL_STATES
    <3> QED
      BY <1>1, <1>2, <1>4, <3>1, <3>2, NameFacts, PersistFits DEF Alive, Deciding
  <2>3. CASE ReachLogicalOutcome
    <3>1. PICK s \in States : /\ <<mem.state, s>> \in Decides
                              /\ Persist(s, s, FALSE, "try", "logical_outcome")
      BY <2>3 DEF ReachLogicalOutcome
    <3>2. /\ pc \in {"loop", "route"} /\ s \in Outcomes /\ s # "none"
          /\ s \in Stopped \cup Transition
      BY <2>3, <3>1, NameFacts DEF Decides, Stopped, Transition,
                                   ReachLogicalOutcome, TurnOver
    <3> QED
      BY <1>1, <1>2, <1>4, <3>1, <3>2, PersistFits DEF Alive
  <2>4. CASE Announce
    <3>1. /\ pc \in {"correction", "logical_outcome", "evidence_finalization"}
          /\ Record(pc, mem) /\ UNCHANGED <<ck, base, mode, then, kills>> /\ Alive
          /\ pc' = IF pc = "correction" THEN "loop" ELSE "finish"
      BY <2>4 DEF Announce, Alive
    <3>2. Expected(pc, mem)
      <4>1. mem.role = progress_role(ck.state)
        BY <1>3, <3>1 DEF RoleWhere
      <4>2. CASE pc = "correction"
        <5>1. ck.state = "REVIEW_CORRECTION_PENDING"
          BY <1>3, <1>5, <3>1, <4>2 DEF StateWhere, NextPlace
        <5> QED
          BY <4>1, <4>2, <5>1, RoleFacts DEF Expected
      <4>3. CASE pc = "logical_outcome"
        <5>1. ck.state \in Stopped \cup Transition /\ ck.out # "none"
          BY <1>3, <1>5, <1>6, <3>1, <4>3 DEF StateWhere, NextPlace, Deciding
        <5> QED
          BY <4>1, <4>3, <5>1, RoleFacts DEF Expected
      <4>4. CASE pc = "evidence_finalization"
        <5>1. ck.state \in EVIDENCE_CONTROL_STATES
          BY <1>3, <1>5, <3>1, <4>4 DEF StateWhere, NextPlace
        <5> QED
          BY <4>1, <4>4, <5>1, RoleFacts DEF Expected
      <4> QED
        BY <3>1, <4>2, <4>3, <4>4
    <3>3. pc' \in Deciding \/ mode = "handler" => ck.out # "none"
      BY <1>6, <3>1 DEF Deciding
    <3>4. pc \in EVENT_TYPES
      BY <3>1, NameFacts
    <3> QED
      BY <1>1, <1>2, <1>5, <3>1, <3>2, <3>3, <3>4, RecordKill
  <2> QED
    BY <1>9, <2>1, <2>2, <2>3, <2>4 DEF Branch
<1>10. CASE Finish
  <2>1. CASE FinishEvidence
    <3>1. pc = "finish" /\ Alive
      BY <2>1 DEF FinishEvidence, Alive
    <3>2. ck.out # "none" /\ mem.out # "none"
      BY <1>5, <1>6, <3>1 DEF Deciding
    <3>3. CASE pc' = "return" /\ UNCHANGED <<ck, log, mem, mode, then, kills, faults>>
      BY <1>2, <3>1, <3>2, <3>3, SameKill
    <3>4. CASE \E s \in EVIDENCE_CONTROL_STATES,
                  next \in {"evidence_finalization", "finish"} :
                 Persist(s, mem.out, FALSE, mode, next)
      <4>1. PICK s \in EVIDENCE_CONTROL_STATES,
                 next \in {"evidence_finalization", "finish"} :
              Persist(s, mem.out, FALSE, mode, next)
        BY <3>4
      <4> QED
        BY <1>1, <1>2, <1>4, <3>1, <3>2, <4>1, NameFacts, PersistFits
    <3> QED
      BY <2>1, <3>3, <3>4 DEF FinishEvidence, EVIDENCE_CONTROL_STATES
  <2>2. CASE FinishReturn
    BY <2>2, <1>2, ReturnKill
  <2> QED
    BY <1>10, <2>1, <2>2 DEF Finish
<1>11. CASE Exception
  <2>1. CASE RecordError
    <3>1. /\ pc \in Raising \cup {"raise"} /\ Record("error", mem)
          /\ pc' = "handler" /\ UNCHANGED <<ck, base, mode, then, kills>>
          /\ mode = "try"
      BY <2>1 DEF RecordError
    <3>2. pc # "turn" /\ Alive /\ pc' \notin Deciding
      BY <3>1 DEF Raising, Alive, Deciding
    <3>3. Expected("error", mem)
      BY DEF Expected
    <3> QED
      BY <1>1, <1>2, <1>5, <3>1, <3>2, <3>3, NameFacts, RecordKill
  <2>2. CASE RaiseAgain
    <3>1. /\ pc \in Raising /\ pc' = "again" /\ mode = "handler"
          /\ UNCHANGED <<ck, log, mem>>
      BY <2>2 DEF RaiseAgain
    <3>2. Alive /\ pc \notin {"turn", "mark"}
      BY <3>1 DEF Raising, Alive
    <3> QED
      BY <1>2, <1>6, <3>1, <3>2, SameKill
  <2>3. CASE RaiseOut
    BY <2>3, <1>2, GoneKill DEF RaiseOut
  <2>4. CASE Handle
    <3> DEFINE s == IF mem.state \in Transition THEN "HUMAN_GATE"
                    ELSE "FAILED_CLOSED"
    <3>1. /\ s \in Stopped /\ s \in States /\ s \in Outcomes /\ s # "none"
      BY NameFacts DEF Stopped
    <3>2. /\ pc = "handler" /\ Alive
          /\ \/ /\ mem.state \in EVIDENCE_CONTROL_STATES
                /\ Persist(mem.state, mem.out, TRUE, "last", "return")
             \/ Persist(mem.state, "UNDETERMINED", FALSE, "last", "return")
             \/ Persist(s, s, FALSE, "handler", "logical_outcome")
      BY <2>4 DEF Handle, Alive
    <3> HIDE DEF s
    <3>3. CASE /\ mem.state \in EVIDENCE_CONTROL_STATES
               /\ Persist(mem.state, mem.out, TRUE, "last", "return")
      BY <1>1, <1>2, <1>4, <1>5, <1>6, <3>2, <3>3, PersistFits
    <3>4. CASE Persist(mem.state, "UNDETERMINED", FALSE, "last", "return")
      BY <1>1, <1>2, <1>4, <3>2, <3>4, NameFacts, PersistFits
    <3>5. CASE Persist(s, s, FALSE, "handler", "logical_outcome")
      BY <1>2, <1>4, <3>1, <3>2, <3>5, PersistFits
    <3> QED
      BY <3>2, <3>3, <3>4, <3>5
  <2>5. CASE HandleAgain
    <3>1. /\ pc = "again" /\ Alive
          /\ Persist(mem.state, mem.out, TRUE, "last", "return")
      BY <2>5 DEF HandleAgain, Alive
    <3> QED
      BY <1>1, <1>2, <1>4, <1>5, <1>6, <3>1, PersistFits
  <2> QED
    BY <1>11, <2>1, <2>2, <2>3, <2>4, <2>5 DEF Exception
<1>12. CASE Restart
  <2>1. CASE Kill
    BY <2>1, <1>2, GoneKill DEF Kill
  <2>2. CASE Resume
    BY <2>2, <1>2, ResumeKill
  <2>3. CASE ReconcileSummary
    <3>1. /\ pc = "go" /\ Alive
          /\ Persist(mem.state, mem.out, mem.pub = "FAILED", "resume", "go")
          /\ (mem.pub = "FAILED") \in BOOLEAN
      BY <2>3 DEF ReconcileSummary, Alive
    <3> QED
      BY <1>1, <1>2, <1>4, <1>5, <1>6, <3>1, PersistFits DEF Deciding
  <2>4. CASE GoOn
    <3>1. /\ pc = "go" /\ Alive /\ UNCHANGED <<ck, log, mem>>
          /\ \/ /\ mem.state \in Stopped \cup EVIDENCE_CONTROL_STATES
                /\ pc' = "finish"
             \/ pc' = "loop" /\ mode' = "try"
      BY <2>4 DEF GoOn, Alive
    <3> QED
      BY <1>2, <1>5, <1>6, <3>1, SameKill DEF Deciding
  <2> QED
    BY <1>12, <2>1, <2>2, <2>3, <2>4 DEF Restart
<1>13. CASE Tick
  <2>1. /\ Alive /\ mem' = [mem EXCEPT !.run = @ + 1, !.stage = @ + 1]
        /\ UNCHANGED <<ck, base, suffix, mode, pc, then, kills, faults>>
    BY <1>13 DEF Tick, log, Alive
  <2>2. /\ mem'.state = mem.state /\ mem'.obs = mem.obs /\ mem'.out = mem.out
        /\ mem'.pub = mem.pub /\ mem'.known = mem.known /\ mem'.role = mem.role
        /\ mem'.tools = mem.tools /\ mem'.open = mem.open
    BY <1>1, <2>1 DEF Memory
  <2>3. Last' = Last /\ Fitting'
    BY <1>3, <2>1
    DEF Last, Fitting, Erring, Refreshing, Fits, Projects, AnchorsHold,
        ToolsFit, ToolsBefore, Placed, InTurn
  <2>4. Agreed' /\ RoleWhere' /\ StateWhere' /\ OutcomeWhere' /\ EndAgrees'
    BY <1>3, <2>1, <2>2 DEF Agreed, RoleWhere, StateWhere, OutcomeWhere,
       EndAgrees, NextPlace, Alive
  <2>5. TurnWhere'
    BY <1>3, <2>1, <2>2, <2>3 DEF TurnWhere
  <2> QED
    BY <1>3, <2>1, <2>3, <2>4, <2>5 DEF KillInv
<1> QED
  BY <1>7, <1>8, <1>9, <1>10, <1>11, <1>12, <1>13 DEF Next

\* A fresh run agrees with its checkpoint.
LEMMA KillInit == Init => KillInv
<1> SUFFICES ASSUME Init PROVE KillInv
  OBVIOUS
<1>1. suffix = <<>> /\ DOMAIN suffix = {} /\ Len(suffix) = 0 /\ Last = NoEvent
  BY EmptySeq DEF Init, Last
<1>2. Fitting
  BY <1>1 DEF Fitting
<1>3. ~Inside(suffix)
  BY <1>1 DEF Inside
<1>4. Agreed /\ TurnWhere
  BY <1>1, <1>3 DEF Init, Nobody, NoEvent, Agreed, TurnWhere
<1>5. OutcomeWhere /\ StateWhere /\ RoleWhere /\ EndAgrees
      /\ ck.role = progress_role(ck.state)
  BY DEF Init, Nobody, OutcomeWhere, StateWhere, RoleWhere, EndAgrees, NextPlace,
         Behind, Deciding, Stopped, EVIDENCE_CONTROL_STATES, progress_role
<1> QED
  BY <1>2, <1>4, <1>5 DEF KillInv

\* What a run that met no I/O error knows, with types and clocks, is inductive.
THEOREM JournalCorrect == Spec => [](TypeInv /\ TimeInv /\ KillInv)
<1>1. Init => KillInv
  BY KillInit
<1>2. TypeInv /\ TimeInv /\ KillInv /\ [Next]_vars => KillInv'
  <2> SUFFICES ASSUME TypeInv, TimeInv, KillInv, [Next]_vars
               PROVE  KillInv'
    OBVIOUS
  <2>1. CASE Next
    BY <2>1, KillNext
  <2>2. CASE UNCHANGED vars
    BY <2>2 DEF vars, log, KillInv, Last, Fitting, Erring, Refreshing, Fits,
       Projects, AnchorsHold, ToolsFit, ToolsBefore, Placed, InTurn, Alive,
       Agreed, RoleWhere, StateWhere, OutcomeWhere, TurnWhere, EndAgrees,
       NextPlace
  <2> QED
    BY <2>1, <2>2
<1> QED
  BY <1>1, <1>2, ClocksInOrder, PTL DEF Spec

\* A run that only suffered kills can be resumed, whatever instant each of them
\* hit, except in the middle of a refresh turn and between the error event and
\* the handler's checkpoint.
THEOREM KilledRunResumesHolds == Spec => []KilledRunResumes
<1>1. TimeInv /\ KillInv => KilledRunResumes
  BY DEF TimeInv, KillInv, KilledRunResumes, Accepts, Fitting
<1> QED
  BY <1>1, JournalCorrect, PTL

\* The log of a run that returned ends with a run_finished that says what the
\* checkpoint says, the publication error included.
THEOREM EndAgreesHolds == Spec => []EndAgrees
<1>1. KillInv => EndAgrees
  BY DEF KillInv, EndAgrees
<1> QED
  BY <1>1, JournalCorrect, PTL
=============================================================================
