----------------------------- MODULE Outbox_proofs -----------------------------
(***************************************************************************)
(* Proofs about the persistent outbox, for every set of ids, threads and   *)
(* processes, every retry budget, batch and bound.                         *)
(***************************************************************************)
EXTENDS Outbox, FiniteSetTheorems, TLAPS

USE DEF Procs, files, local, past, vars

-------------------------------------------------------------------------------
(* Every variable keeps its shape: the outbox starts and stays well typed. *)

\* The counters stay in their ranges.
LEMMA CounterFacts ==
  /\ 0 \in 0..MaxRetries /\ 1 \in 0..MaxRetries /\ 0 \in 0..MaxRetries + 1
  /\ \A n \in 0..MaxRetries : n < MaxRetries => n + 1 \in 0..MaxRetries
  /\ \A n \in 0..MaxRetries + 1 : n <= MaxRetries => n + 1 \in 0..MaxRetries + 1
  /\ 0 \in 0..MaxCrashes
  /\ \A n \in 0..MaxCrashes : n < MaxCrashes => n + 1 \in 0..MaxCrashes
  /\ 0 \in Nat /\ \A n \in Nat : n + 1 \in Nat
BY BoundAssumption

\* What Hold and the flushes put into a file or into memory is an Entry.
LEMMA EntryFacts ==
  /\ Blank \in Entry
  /\ \A await \in BOOLEAN : [att |-> 1, due |-> FALSE, await |-> await] \in Entry
  /\ \A e \in Entry : [e EXCEPT !.att = 0, !.due = TRUE] \in Entry
  /\ \A e \in Entry : [e EXCEPT !.due = TRUE] \in Entry
  /\ \A e \in Entry : e.att < MaxRetries =>
       [e EXCEPT !.att = @ + 1, !.due = FALSE] \in Entry
  /\ \A f \in File : Readable(f) => f \in Entry
<1>1. Blank \in Entry /\ \A await \in BOOLEAN : [att |-> 1, due |-> FALSE, await |-> await] \in Entry
  BY CounterFacts DEF Entry, Blank
<1>2. ASSUME NEW e \in Entry
      PROVE  /\ [e EXCEPT !.att = 0, !.due = TRUE] \in Entry
             /\ [e EXCEPT !.due = TRUE] \in Entry
  BY CounterFacts DEF Entry
<1>3. ASSUME NEW e \in Entry, e.att < MaxRetries
      PROVE  [e EXCEPT !.att = @ + 1, !.due = FALSE] \in Entry
  <2>1. e.att \in 0..MaxRetries /\ e.att + 1 \in 0..MaxRetries
    BY <1>3, CounterFacts DEF Entry
  <2> QED BY <2>1 DEF Entry
<1>4. \A f \in File : Readable(f) => f \in Entry
  BY DEF File, Readable
<1> QED BY <1>1, <1>2, <1>3, <1>4

\* What a flush leaves in the file is the entry of its writer, a mixture, or what was there.
LEMMA FlushFacts ==
  ASSUME TypeOK, NEW p \in Procs, NEW i \in Ids, i = cur[p], NEW d \in [Ids -> File], NEW e,
         \E f \in Overlaid(p, d[i]) : e = [d EXCEPT ![i] = f] /\ Flushed(p, f)
  PROVE  /\ e \in [Ids -> File] /\ severed' = severed \ {p} /\ garbled \subseteq garbled'
         /\ garbled' \subseteq garbled \cup {i}
         /\ e[i] \in {d[i], mem[p], Garbled} /\ \A j \in Ids \ {i} : e[j] = d[j]
         /\ e[i] = Garbled => i \in garbled'
         /\ e[i] # Garbled => garbled' = garbled
         /\ d[i] = Absent \/ p \in severed => e[i] = d[i]
         /\ d[i] # Absent => e[i] # Absent
         /\ d[i] # Absent /\ p \notin severed => e[i] \in {mem[p], Garbled}
         /\ d[i] = Torn /\ p \notin severed => e[i] = mem[p]
         /\ mem[p] \in Entry
<1>1. PICK f \in Overlaid(p, d[i]) : e = [d EXCEPT ![i] = f] /\ Flushed(p, f)
  OBVIOUS
<1>2. /\ mem[p] \in Entry /\ d[i] \in File
      /\ f \in {d[i], mem[p], Garbled}
      /\ d[i] = Absent \/ p \in severed => f = d[i]
      /\ d[i] # Absent /\ p \notin severed => f \in {mem[p], Garbled}
      /\ d[i] = Torn /\ p \notin severed => f = mem[p]
  BY <1>1, FileAssumption DEF Overlaid, TypeOK
<1>a. mem[p] # Absent /\ mem[p] # Garbled
  BY <1>2, FileAssumption
<1>3. f \in File /\ (d[i] # Absent => f # Absent)
  BY <1>2, <1>a, FileAssumption DEF File
<1>4. e[i] = f /\ e \in [Ids -> File] /\ \A j \in Ids \ {i} : e[j] = d[j]
  BY <1>1, <1>3
<1>5. /\ severed' = severed \ {p} /\ garbled \subseteq garbled'
      /\ garbled' \subseteq garbled \cup {i}
      /\ f = Garbled => i \in garbled'
      /\ f # Garbled => garbled' = garbled
  BY <1>1 DEF Flushed
<1> QED BY <1>2, <1>3, <1>4, <1>5

LEMMA FlushPendingFacts ==
  ASSUME TypeOK, NEW p \in Procs, FlushPending(p)
  PROVE  LET i == cur[p] IN
         /\ i \in Ids /\ pending' \in [Ids -> File] /\ severed' = severed \ {p}
         /\ garbled \subseteq garbled' /\ garbled' \subseteq garbled \cup {i}
         /\ pending'[i] \in {pending[i], mem[p], Garbled}
         /\ \A j \in Ids \ {i} : pending'[j] = pending[j]
         /\ pending'[i] = Garbled => i \in garbled'
         /\ pending'[i] # Garbled => garbled' = garbled
         /\ pending[i] = Absent \/ p \in severed => pending'[i] = pending[i]
         /\ pending[i] # Absent => pending'[i] # Absent
         /\ pending[i] # Absent /\ p \notin severed => pending'[i] \in {mem[p], Garbled}
         /\ pending[i] = Torn /\ p \notin severed => pending'[i] = mem[p]
         /\ mem[p] \in Entry
<1>1. cur[p] \in Ids /\ pending \in [Ids -> File]
  BY DEF TypeOK
<1>2. \E f \in Overlaid(p, pending[cur[p]]) : pending' = [pending EXCEPT ![cur[p]] = f] /\ Flushed(p, f)
  BY DEF FlushPending
<1> QED BY <1>1, <1>2, FlushFacts

LEMMA FlushDeadFacts ==
  ASSUME TypeOK, NEW p \in Procs, FlushDead(p)
  PROVE  LET i == cur[p] IN
         /\ i \in Ids /\ dead' \in [Ids -> File] /\ severed' = severed \ {p}
         /\ garbled \subseteq garbled' /\ garbled' \subseteq garbled \cup {i}
         /\ dead'[i] \in {dead[i], mem[p], Garbled}
         /\ \A j \in Ids \ {i} : dead'[j] = dead[j]
         /\ dead'[i] = Garbled => i \in garbled'
         /\ dead'[i] # Garbled => garbled' = garbled
         /\ dead[i] = Absent \/ p \in severed => dead'[i] = dead[i]
         /\ dead[i] # Absent => dead'[i] # Absent
         /\ dead[i] # Absent /\ p \notin severed => dead'[i] \in {mem[p], Garbled}
         /\ dead[i] = Torn /\ p \notin severed => dead'[i] = mem[p]
         /\ mem[p] \in Entry
<1>1. cur[p] \in Ids /\ dead \in [Ids -> File]
  BY DEF TypeOK
<1>2. \E f \in Overlaid(p, dead[cur[p]]) : dead' = [dead EXCEPT ![cur[p]] = f] /\ Flushed(p, f)
  BY DEF FlushDead
<1> QED BY <1>1, <1>2, FlushFacts

LEMMA TypeInit == Init => TypeOK
<1> SUFFICES ASSUME Init PROVE TypeOK
  OBVIOUS
<1>1. pending \in [Ids -> File] /\ dead \in [Ids -> File]
  BY DEF Init, File
<1>2. phase \in [Procs -> Phases] /\ cur \in [Procs -> Ids] /\ mem \in [Procs -> Entry]
  BY EntryFacts DEF Init, Phases
<1>3. todo \in [Sweepers -> SUBSET Ids] /\ used \in [Sweepers -> Nat]
  BY DEF Init
<1>4. crashes \in 0..MaxCrashes /\ fails \in [Ids -> 0..MaxRetries + 1]
  BY CounterFacts DEF Init
<1>5. status \in [Ids -> {"new", "entering", "accepted", "refused"}]
      /\ severed \subseteq Procs /\ garbled \subseteq Ids /\ done \subseteq Ids /\ ackOpen \subseteq Ids
  BY DEF Init
<1> QED BY <1>1, <1>2, <1>3, <1>4, <1>5 DEF TypeOK

LEMMA TypeStep == TypeOK /\ [Next]_vars => TypeOK'
<1> SUFFICES ASSUME TypeOK, [Next]_vars PROVE TypeOK'
  OBVIOUS
<1>1. ASSUME NEW p \in Procs, FileStep(p) PROVE TypeOK'
  <2>1. CASE OpenPending(p)
    BY <2>1 DEF OpenPending, TypeOK, Goto, File, Phases
  <2>2. CASE FlushPending(p)
    <3>1. pending' \in [Ids -> File] /\ severed' \subseteq Procs /\ garbled' \subseteq Ids
      BY <2>2, FlushPendingFacts DEF TypeOK
    <3>2. phase' \in [Procs -> Phases]
      BY <2>2 DEF FlushPending, TypeOK, Goto, Phases, AfterWritePending
    <3>3. fails' \in [Ids -> 0..MaxRetries + 1] /\ ackOpen' \subseteq Ids
      BY <2>2, CounterFacts DEF FlushPending, TypeOK
    <3>4. status' \in [Ids -> {"new", "entering", "accepted", "refused"}]
      BY <2>2 DEF FlushPending, TypeOK
    <3> QED BY <2>2, <3>1, <3>2, <3>3, <3>4 DEF FlushPending, TypeOK
  <2>3. CASE OpenDead(p)
    BY <2>3 DEF OpenDead, TypeOK, Goto, File, Phases
  <2>4. CASE FlushDead(p)
    <3>1. dead' \in [Ids -> File] /\ severed' \subseteq Procs /\ garbled' \subseteq Ids
      BY <2>4, FlushDeadFacts DEF TypeOK
    <3>2. phase' \in [Procs -> Phases]
      BY <2>4 DEF FlushDead, TypeOK, Goto, Phases
    <3> QED BY <2>4, <3>1, <3>2 DEF FlushDead, TypeOK
  <2>5. CASE UnlinkPending(p)
    BY <2>5 DEF UnlinkPending, Writing, TypeOK, Goto, File, Phases
  <2>6. CASE UnlinkDead(p)
    BY <2>6 DEF UnlinkDead, Writing, TypeOK, Goto, File, Phases
  <2> QED BY <1>1, <2>1, <2>2, <2>3, <2>4, <2>5, <2>6 DEF FileStep
<1>2. ASSUME NEW p \in Procs, Crash(p) PROVE TypeOK'
  BY <1>2, CounterFacts DEF Crash, TypeOK, Goto, Phases
<1>3. ASSUME NEW p \in Producers, EnqueueStep(p) PROVE TypeOK'
  <2>1. ASSUME NEW i \in Ids, NEW await \in BOOLEAN, Enqueue(p, i, await) PROVE TypeOK'
    <3>1. /\ cur' \in [Procs -> Ids] /\ mem' \in [Procs -> Entry]
          /\ phase' \in [Procs -> Phases]
      BY <2>1, EntryFacts DEF Enqueue, Hold, Goto, TypeOK, Phases
    <3>2. pending' \in [Ids -> File]
      BY <2>1 DEF Enqueue, TypeOK, File
    <3>3. done' \subseteq Ids
      BY <2>1 DEF Enqueue, TypeOK, Superseded
    <3>4. severed' \subseteq Procs /\ garbled' \subseteq Ids
      BY <2>1 DEF Enqueue, Writing, TypeOK
    <3> QED BY <2>1, <3>1, <3>2, <3>3, <3>4 DEF Enqueue, TypeOK
  <2>2. CASE AdmitEnqueue(p)
    BY <2>2 DEF AdmitEnqueue, TypeOK, Goto, Phases
  <2>3. CASE RefuseEnqueue(p)
    BY <2>3 DEF RefuseEnqueue, TypeOK, Goto, Phases
  <2> QED BY <1>3, <2>1, <2>2, <2>3 DEF EnqueueStep
<1>4. ASSUME NEW s \in Sweepers, SweepStep(s) PROVE TypeOK'
  <2>1. CASE SweepStart(s)
    BY <2>1, CounterFacts DEF SweepStart, TypeOK, Goto, Phases
  <2>2. CASE Visit(s)
    <3> PICK i \in todo[s] :
          /\ todo' = [todo EXCEPT ![s] = @ \ {i}]
          /\ IF Eligible(s, pending[i])
             THEN Hold(s, i, pending[i]) /\ Goto(s, "send")
             ELSE UNCHANGED <<phase, cur, mem>>
      BY <2>2 DEF Visit
    <3>1. i \in Ids
      BY DEF TypeOK
    <3>2. Eligible(s, pending[i]) => pending[i] \in Entry
      BY <3>1, EntryFacts DEF Eligible, TypeOK
    <3>3. /\ cur' \in [Procs -> Ids] /\ mem' \in [Procs -> Entry]
          /\ phase' \in [Procs -> Phases]
      BY <3>1, <3>2 DEF TypeOK, Hold, Goto, Phases
    <3> QED BY <2>2, <3>3 DEF Visit, TypeOK
  <2>3. CASE SweepEnd(s)
    BY <2>3 DEF SweepEnd, TypeOK, Goto, Phases
  <2>4. CASE Throttled(s)
    BY <2>4, CounterFacts DEF Throttled, Charge, TypeOK, Goto, Phases
  <2>5. CASE Delivered(s)
    BY <2>5, CounterFacts DEF Delivered, Charge, TypeOK, Goto, Phases
  <2>6. ASSUME Fail(s)
        PROVE /\ used' \in [Sweepers -> Nat] /\ fails' \in [Ids -> 0..MaxRetries + 1]
    BY <2>6, CounterFacts DEF Fail, Charge, TypeOK
  <2>7. CASE FailedRetry(s)
    <3>1. mem' \in [Procs -> Entry]
      BY <2>7, EntryFacts DEF FailedRetry, RetriesLeft, TypeOK
    <3> QED BY <2>6, <2>7, <3>1 DEF FailedRetry, Fail, TypeOK, Goto, Phases
  <2>8. CASE FailedExhausted(s)
    BY <2>6, <2>8 DEF FailedExhausted, Fail, TypeOK, Goto, Phases
  <2> QED BY <1>4, <2>1, <2>2, <2>3, <2>4, <2>5, <2>7, <2>8 DEF SweepStep
<1>5. ASSUME NEW i \in Ids, BackoffElapses(i) \/ AckRemove(i) \/ DropDead(i) PROVE TypeOK'
  <2>1. CASE BackoffElapses(i)
    <3>1. pending' \in [Ids -> File]
      BY <2>1, EntryFacts DEF BackoffElapses, TypeOK, File
    <3>2. todo' \in [Sweepers -> SUBSET Ids]
      BY <2>1 DEF BackoffElapses, TypeOK
    <3> QED BY <2>1, <3>1, <3>2 DEF BackoffElapses, TypeOK
  <2>2. CASE AckRemove(i)
    BY <2>2 DEF AckRemove, Writing, TypeOK, File
  <2>3. CASE DropDead(i)
    BY <2>3 DEF DropDead, Writing, TypeOK, File
  <2> QED BY <1>5, <2>1, <2>2, <2>3
<1>6. ASSUME NEW t \in Timers, NEW i \in Ids, MarkDead(t, i) PROVE TypeOK'
  <2>1. Readable(pending[i]) => pending[i] \in Entry
    BY EntryFacts DEF TypeOK
  <2>2. cur' \in [Procs -> Ids] /\ mem' \in [Procs -> Entry] /\ phase' \in [Procs -> Phases]
    BY <1>6, <2>1 DEF MarkDead, Hold, Goto, TypeOK, Phases
  <2> QED BY <1>6, <2>2 DEF MarkDead, TypeOK
<1>7. ASSUME NEW o \in Operators, NEW i \in Ids, RequeueDead(o, i) PROVE TypeOK'
  BY <1>7, EntryFacts DEF RequeueDead, Hold, Goto, TypeOK, Phases
<1>8. CASE UNCHANGED vars
  BY <1>8 DEF TypeOK
<1> QED BY <1>1, <1>2, <1>3, <1>4, <1>5, <1>6, <1>7, <1>8 DEF Next

(* The outbox is well typed in every reachable state: attempt_count never  *)
(* exceeds max_retries, whatever the sweeps and requeues interleave.       *)
THEOREM TypeCorrect == Spec => []TypeOK
BY TypeInit, TypeStep, PTL DEF Spec

-------------------------------------------------------------------------------
(* The retry budget.  BudgetSpent is not inductive: it needs to know that  *)
(* every copy of attempt_count, on disk or in the memory of a sweep, lags  *)
(* the failures by at most one, and that nothing restarts the count of an  *)
(* entry that is out there.                                                *)

Working == {"send", "openPending", "flushPending", "openDead", "flushDead"}
Busy(p)  == phase[p] \in Working
Entering == {"check", "openPending", "flushPending"}

PhasesOfKind ==
  /\ \A s \in Sweepers  : phase[s] \in {"idle", "scan", "unlinkPending"} \cup Working
  /\ \A p \in Producers : phase[p] \in {"idle"} \cup Entering
  /\ \A t \in Timers    : phase[t] \in {"idle", "openDead", "flushDead", "unlinkPending"}

\* No copy of the count runs ahead of the failures.
CountOnDisk == \A i \in Ids : Readable(pending[i]) /\ ~pending[i].await =>
                 pending[i].att <= fails[i] + 1
CountInHand == \A s \in Sweepers : Busy(s) =>
                 ~mem[s].await /\ mem[s].att <= fails[cur[s]] + 1
Exhausted   == \A s \in Sweepers : phase[s] \in {"openDead", "flushDead"} =>
                 fails[cur[s]] >= MaxRetries
DeadIsSpent == \A i \in Ids : Readable(dead[i]) /\ ~dead[i].await => fails[i] >= MaxRetries

\* An id that was not accepted yet is nowhere, and one producer enqueues it.
Fresh == \A i \in Ids : status[i] # "accepted" =>
           /\ ~Readable(pending[i]) /\ ~Readable(dead[i]) /\ i \notin ackOpen
           /\ \A s \in Sweepers : Busy(s) => cur[s] # i
EnteringIsFresh ==
  \A p \in Producers : phase[p] \in Entering =>
    status[cur[p]] = "entering" /\ mem[p].att = 1
OneProducer ==
  \A p, q \in Producers : p # q /\ phase[p] \in Entering /\ phase[q] \in Entering =>
    cur[p] # cur[q]

\* What waits for an ACK is a hold, on disk and in a timer's hand.
OpenIsHold == \A i \in ackOpen :
  /\ status[i] = "accepted"
  /\ Readable(pending[i]) => pending[i].await
  /\ \A s \in Sweepers : Busy(s) => cur[s] # i
TimerMovesHold == \A t \in Timers : Busy(t) => mem[t].await /\ status[cur[t]] = "accepted"

Counts  == CountOnDisk /\ CountInHand /\ Exhausted /\ DeadIsSpent
Origins == Fresh /\ EnteringIsFresh /\ OneProducer /\ OpenIsHold /\ TimerMovesHold

BudgetInv == TypeOK /\ PhasesOfKind /\ Counts /\ Origins

LEMMA BudgetInit == Init => BudgetInv
BY TypeInit, CounterFacts
DEF Init, BudgetInv, PhasesOfKind, Counts, CountOnDisk, CountInHand, Exhausted, DeadIsSpent,
    Origins, Fresh, EnteringIsFresh, OneProducer, OpenIsHold, TimerMovesHold, Readable,
    Busy, Working, Entering

\* Without requeues and redrained queues the steps preserve the invariant.
LEMMA BudgetStep ==
  ASSUME Operators = {}, Redrained = {}, BudgetInv, [Next]_vars
  PROVE  BudgetInv'
<1> USE ProcAssumption, BoundAssumption
    DEF PhasesOfKind, Counts, CountOnDisk, CountInHand, Exhausted, DeadIsSpent,
        Origins, Fresh, EnteringIsFresh, OneProducer, OpenIsHold, TimerMovesHold,
        Busy, Working, Entering, Readable, Entry, File
<1>t. TypeOK /\ TypeOK'
  BY TypeStep DEF BudgetInv
<1>1. ASSUME NEW p \in Procs, FileStep(p) PROVE BudgetInv'
  <2>1. CASE OpenPending(p)
    <3>1. PhasesOfKind'
      BY <2>1, <1>t DEF BudgetInv, TypeOK, OpenPending, Goto
    <3>2. Counts'
      BY <2>1, <1>t DEF BudgetInv, TypeOK, OpenPending, Goto
    <3>3. Origins'
      BY <2>1, <1>t DEF BudgetInv, TypeOK, OpenPending, Goto
    <3> QED BY <1>t, <3>1, <3>2, <3>3 DEF BudgetInv
  <2>2. CASE FlushPending(p)
    <3>1. PhasesOfKind'
      BY <2>2, <1>t DEF BudgetInv, TypeOK, FlushPending, Goto, AfterWritePending
    <3> DEFINE i == cur[p]
    <3>0. /\ i \in Ids /\ mem[p] \in Entry /\ pending'[i] \in {pending[i], mem[p], Garbled}
          /\ \A j \in Ids \ {i} : pending'[j] = pending[j]
          /\ pending[i] = Torn /\ p \notin severed => pending'[i] = mem[p]
      BY <2>2, <1>t, FlushPendingFacts
    <3>a. /\ phase[p] = "flushPending" /\ phase' = [phase EXCEPT ![p] = AfterWritePending(p)]
          /\ status' = IF p \in Producers THEN [status EXCEPT ![i] = "accepted"] ELSE status
          /\ fails' = IF p \in Sweepers THEN fails ELSE [fails EXCEPT ![i] = 0]
          /\ ackOpen' = IF p \in Producers /\ mem[p].await THEN ackOpen \cup {i} ELSE ackOpen
          /\ UNCHANGED <<dead, cur, mem>>
      BY <2>2 DEF FlushPending, Goto
    <3> HIDE DEF i
    <3>b. i = cur[p]
      BY DEF i
    <3>2. Counts'
      BY <3>0, <3>a, <3>b, <1>t DEF BudgetInv, TypeOK, AfterWritePending
    <3>3. Origins'
      BY <3>0, <3>a, <3>b, <1>t DEF BudgetInv, TypeOK, AfterWritePending
    <3> QED BY <1>t, <3>1, <3>2, <3>3 DEF BudgetInv
  <2>3. CASE OpenDead(p)
    <3>1. PhasesOfKind'
      BY <2>3, <1>t DEF BudgetInv, TypeOK, OpenDead, Goto
    <3>2. Counts'
      BY <2>3, <1>t DEF BudgetInv, TypeOK, OpenDead, Goto
    <3>3. Origins'
      BY <2>3, <1>t DEF BudgetInv, TypeOK, OpenDead, Goto
    <3> QED BY <1>t, <3>1, <3>2, <3>3 DEF BudgetInv
  <2>4. CASE FlushDead(p)
    <3>1. PhasesOfKind'
      BY <2>4, <1>t DEF BudgetInv, TypeOK, FlushDead, Goto
    <3> DEFINE i == cur[p]
    <3>0. /\ i \in Ids /\ mem[p] \in Entry /\ dead'[i] \in {dead[i], mem[p], Garbled}
          /\ \A j \in Ids \ {i} : dead'[j] = dead[j]
      BY <2>4, <1>t, FlushDeadFacts
    <3>a. /\ phase[p] = "flushDead" /\ phase' = [phase EXCEPT ![p] = "unlinkPending"]
          /\ UNCHANGED <<pending, cur, mem, status, fails, ackOpen>>
      BY <2>4 DEF FlushDead, Goto
    <3> HIDE DEF i
    <3>b. i = cur[p]
      BY DEF i
    <3>c. p \in Sweepers \cup Timers /\ status[i] = "accepted"
          /\ (mem[p].await \/ fails[i] >= MaxRetries)
      BY <3>a, <3>b, <1>t DEF BudgetInv, TypeOK
    <3>2. Counts'
      BY <3>0, <3>a, <3>b, <3>c, <1>t DEF BudgetInv, TypeOK
    <3>3. Origins'
      BY <3>0, <3>a, <3>b, <3>c, <1>t DEF BudgetInv, TypeOK
    <3> QED BY <1>t, <3>1, <3>2, <3>3 DEF BudgetInv
  <2>5. CASE UnlinkPending(p)
    <3>1. PhasesOfKind'
      BY <2>5, <1>t DEF BudgetInv, TypeOK, UnlinkPending, Goto
    <3>2. Counts'
      BY <2>5, <1>t DEF BudgetInv, TypeOK, UnlinkPending, Goto
    <3>3. Origins'
      BY <2>5, <1>t DEF BudgetInv, TypeOK, UnlinkPending, Goto
    <3> QED BY <1>t, <3>1, <3>2, <3>3 DEF BudgetInv
  <2>6. CASE UnlinkDead(p)
    <3>1. PhasesOfKind'
      BY <2>6, <1>t DEF BudgetInv, TypeOK, UnlinkDead, Goto
    <3>2. Counts'
      BY <2>6, <1>t DEF BudgetInv, TypeOK, UnlinkDead, Goto
    <3>3. Origins'
      BY <2>6, <1>t DEF BudgetInv, TypeOK, UnlinkDead, Goto
    <3> QED BY <1>t, <3>1, <3>2, <3>3 DEF BudgetInv
  <2> QED BY <1>1, <2>1, <2>2, <2>3, <2>4, <2>5, <2>6 DEF FileStep
<1>2. ASSUME NEW p \in Procs, Crash(p) PROVE BudgetInv'
  <2>1. PhasesOfKind'
    BY <1>2, <1>t DEF BudgetInv, TypeOK, Crash, Goto
  <2>2. Counts'
    BY <1>2, <1>t DEF BudgetInv, TypeOK, Crash, Goto
  <2>3. Origins'
    BY <1>2, <1>t DEF BudgetInv, TypeOK, Crash, Goto
  <2> QED BY <1>t, <2>1, <2>2, <2>3 DEF BudgetInv
<1>3. ASSUME NEW p \in Producers, EnqueueStep(p) PROVE BudgetInv'
  <2>1. ASSUME NEW i \in Ids, NEW await \in BOOLEAN, Enqueue(p, i, await) PROVE BudgetInv'
    <3>1. PhasesOfKind'
      BY <2>1, <1>t DEF BudgetInv, TypeOK, Enqueue, Hold, Goto
    <3>2. Counts'
      BY <2>1, <1>t DEF BudgetInv, TypeOK, Enqueue, Hold, Goto
    <3>3. Origins'
      BY <2>1, <1>t DEF BudgetInv, TypeOK, Enqueue, Hold, Goto
    <3> QED BY <1>t, <3>1, <3>2, <3>3 DEF BudgetInv
  <2>2. CASE AdmitEnqueue(p)
    <3>1. PhasesOfKind'
      BY <2>2, <1>t DEF BudgetInv, TypeOK, AdmitEnqueue, Goto
    <3>2. Counts'
      BY <2>2, <1>t DEF BudgetInv, TypeOK, AdmitEnqueue, Goto
    <3>3. Origins'
      BY <2>2, <1>t DEF BudgetInv, TypeOK, AdmitEnqueue, Goto
    <3> QED BY <1>t, <3>1, <3>2, <3>3 DEF BudgetInv
  <2>3. CASE RefuseEnqueue(p)
    <3>1. PhasesOfKind'
      BY <2>3, <1>t DEF BudgetInv, TypeOK, RefuseEnqueue, Goto
    <3>2. Counts'
      BY <2>3, <1>t DEF BudgetInv, TypeOK, RefuseEnqueue, Goto
    <3>3. Origins'
      BY <2>3, <1>t DEF BudgetInv, TypeOK, RefuseEnqueue, Goto
    <3> QED BY <1>t, <3>1, <3>2, <3>3 DEF BudgetInv
  <2> QED BY <1>3, <2>1, <2>2, <2>3 DEF EnqueueStep
<1>4. ASSUME NEW s \in Sweepers, SweepStep(s) PROVE BudgetInv'
  <2>1. CASE SweepStart(s)
    <3>1. PhasesOfKind'
      BY <2>1, <1>t DEF BudgetInv, TypeOK, SweepStart, Goto
    <3>2. Counts'
      BY <2>1, <1>t DEF BudgetInv, TypeOK, SweepStart, Goto
    <3>3. Origins'
      BY <2>1, <1>t DEF BudgetInv, TypeOK, SweepStart, Goto
    <3> QED BY <1>t, <3>1, <3>2, <3>3 DEF BudgetInv
  <2>2. CASE Visit(s)
    <3> PICK i \in todo[s] :
          IF Eligible(s, pending[i])
          THEN Hold(s, i, pending[i]) /\ Goto(s, "send")
          ELSE UNCHANGED <<phase, cur, mem>>
      BY <2>2 DEF Visit
    <3>i. i \in Ids
      BY <1>t DEF TypeOK
    <3>1. CASE Eligible(s, pending[i])
      <4>0. phase[s] = "scan" /\ Hold(s, i, pending[i]) /\ Goto(s, "send") /\ pending[i] \in Entry
        BY <1>t, <2>2, <3>1, <3>i DEF Visit, Eligible, TypeOK
      <4>1. PhasesOfKind'
        BY <1>t, <2>2, <3>1, <3>i, <4>0 DEF BudgetInv, TypeOK, Visit, Eligible, Hold, Goto
      <4>2. Counts'
        BY <1>t, <2>2, <3>1, <3>i, <4>0 DEF BudgetInv, TypeOK, Visit, Eligible, Hold, Goto
      <4>3. Origins'
        BY <1>t, <2>2, <3>1, <3>i, <4>0 DEF BudgetInv, TypeOK, Visit, Eligible, Hold, Goto
      <4> QED BY <1>t, <4>1, <4>2, <4>3 DEF BudgetInv
    <3>2. CASE ~Eligible(s, pending[i])
      BY <1>t, <2>2, <3>2 DEF BudgetInv, Visit
    <3> QED BY <3>1, <3>2
  <2>3. CASE SweepEnd(s)
    <3>1. PhasesOfKind'
      BY <2>3, <1>t DEF BudgetInv, TypeOK, SweepEnd, Goto
    <3>2. Counts'
      BY <2>3, <1>t DEF BudgetInv, TypeOK, SweepEnd, Goto
    <3>3. Origins'
      BY <2>3, <1>t DEF BudgetInv, TypeOK, SweepEnd, Goto
    <3> QED BY <1>t, <3>1, <3>2, <3>3 DEF BudgetInv
  <2>4. CASE Throttled(s)
    <3>1. PhasesOfKind'
      BY <2>4, <1>t DEF BudgetInv, TypeOK, Throttled, Charge, Goto
    <3>2. Counts'
      BY <2>4, <1>t DEF BudgetInv, TypeOK, Throttled, Charge, Goto
    <3>3. Origins'
      BY <2>4, <1>t DEF BudgetInv, TypeOK, Throttled, Charge, Goto
    <3> QED BY <1>t, <3>1, <3>2, <3>3 DEF BudgetInv
  <2>5. CASE Delivered(s)
    <3>1. PhasesOfKind'
      BY <2>5, <1>t DEF BudgetInv, TypeOK, Delivered, Charge, Goto
    <3>2. Counts'
      BY <2>5, <1>t DEF BudgetInv, TypeOK, Delivered, Charge, Goto
    <3>3. Origins'
      BY <2>5, <1>t DEF BudgetInv, TypeOK, Delivered, Charge, Goto
    <3> QED BY <1>t, <3>1, <3>2, <3>3 DEF BudgetInv
  <2>6. CASE FailedRetry(s)
    <3>1. PhasesOfKind'
      BY <2>6, <1>t DEF BudgetInv, TypeOK, FailedRetry, RetriesLeft, Fail, Charge, Goto
    <3>a. /\ phase[s] = "send" /\ mem[s] \in Entry /\ mem[s].att < MaxRetries
          /\ phase' = [phase EXCEPT ![s] = "openPending"] /\ UNCHANGED <<pending, dead, cur, status, ackOpen>>
          /\ mem' = [mem EXCEPT ![s].att = @ + 1, ![s].due = FALSE]
          /\ fails' = [fails EXCEPT ![cur[s]] = IF @ <= MaxRetries THEN @ + 1 ELSE @]
      BY <2>6, <1>t DEF TypeOK, FailedRetry, RetriesLeft, Fail, Goto
    <3>b. /\ mem'[s].att = mem[s].att + 1 /\ mem'[s].await = mem[s].await
          /\ \A q \in Procs \ {s} : mem'[q] = mem[q]
      BY <3>a, <1>t DEF TypeOK, Entry
    <3>c. /\ \A i \in Ids : fails[i] <= MaxRetries => fails'[i] >= fails[i]
          /\ \A i \in Ids : fails[i] \in Nat /\ fails'[i] \in Nat /\ fails'[i] >= fails[i]
          /\ fails'[cur[s]] = IF fails[cur[s]] <= MaxRetries THEN fails[cur[s]] + 1 ELSE fails[cur[s]]
      BY <3>a, <1>t DEF TypeOK
    <3>2. Counts'
      <4>1. CountOnDisk'
        BY <3>a, <3>c, <1>t DEF BudgetInv, TypeOK
      <4>2. CountInHand'
        <5>. SUFFICES ASSUME NEW q \in Sweepers, Busy(q)'
                      PROVE  ~mem'[q].await /\ mem'[q].att <= fails'[cur[q]] + 1
          BY <3>a DEF CountInHand
        <5>1. /\ Busy(q) /\ ~mem[q].await /\ mem[q].att <= fails[cur[q]] + 1 /\ cur[q] \in Ids
              /\ q \in Procs /\ mem[q] \in Entry
          BY <3>a, <1>t DEF BudgetInv, TypeOK
        <5>2. fails[cur[q]] \in Nat /\ fails'[cur[q]] \in Nat /\ fails'[cur[q]] >= fails[cur[q]]
          BY <3>c, <5>1
        <5>3. CASE q = s
          BY <3>a, <3>b, <3>c, <5>1, <5>2, <5>3 DEF Entry
        <5>4. CASE q # s
          BY <3>b, <5>1, <5>2, <5>4 DEF Entry
        <5>. QED BY <5>3, <5>4
      <4>3. Exhausted' /\ DeadIsSpent'
        BY <3>a, <3>c, <1>t DEF BudgetInv, TypeOK
      <4> QED BY <4>1, <4>2, <4>3
    <3>d. s \in Procs /\ s \notin Producers /\ s \notin Timers /\ Busy(s)
          /\ \A q \in Procs : (Busy(q)' => Busy(q)) /\ mem'[q].await = mem[q].await
      BY <3>a, <3>b, <1>t DEF TypeOK
    <3>3. Origins'
      <4>1. Fresh' /\ OpenIsHold'
        BY <3>a, <3>d, <1>t DEF BudgetInv, TypeOK
      <4>2. EnteringIsFresh' /\ OneProducer'
        BY <3>a, <3>b, <3>d, <1>t DEF BudgetInv, TypeOK
      <4>3. TimerMovesHold'
        BY <3>a, <3>d, <1>t DEF BudgetInv, TypeOK
      <4> QED BY <4>1, <4>2, <4>3
    <3> QED BY <1>t, <3>1, <3>2, <3>3 DEF BudgetInv
  <2>7. CASE FailedExhausted(s)
    <3>1. PhasesOfKind'
      BY <2>7, <1>t DEF BudgetInv, TypeOK, FailedExhausted, RetriesLeft, Fail, Charge, Goto
    <3>2. Counts'
      BY <2>7, <1>t DEF BudgetInv, TypeOK, FailedExhausted, RetriesLeft, Fail, Charge, Goto
    <3>3. Origins'
      BY <2>7, <1>t DEF BudgetInv, TypeOK, FailedExhausted, RetriesLeft, Fail, Charge, Goto
    <3> QED BY <1>t, <3>1, <3>2, <3>3 DEF BudgetInv
  <2> QED BY <1>4, <2>1, <2>2, <2>3, <2>4, <2>5, <2>6, <2>7 DEF SweepStep
<1>5. ASSUME NEW i \in Ids, BackoffElapses(i) \/ AckRemove(i) \/ DropDead(i) PROVE BudgetInv'
  <2>1. CASE BackoffElapses(i)
    <3>1. PhasesOfKind'
      BY <2>1, <1>t DEF BudgetInv, TypeOK, BackoffElapses
    <3>2. Counts'
      BY <2>1, <1>t DEF BudgetInv, TypeOK, BackoffElapses
    <3>3. Origins'
      BY <2>1, <1>t DEF BudgetInv, TypeOK, BackoffElapses
    <3> QED BY <1>t, <3>1, <3>2, <3>3 DEF BudgetInv
  <2>2. CASE AckRemove(i)
    <3>1. PhasesOfKind'
      BY <2>2, <1>t DEF BudgetInv, TypeOK, AckRemove
    <3>2. Counts'
      BY <2>2, <1>t DEF BudgetInv, TypeOK, AckRemove
    <3>3. Origins'
      BY <2>2, <1>t DEF BudgetInv, TypeOK, AckRemove
    <3> QED BY <1>t, <3>1, <3>2, <3>3 DEF BudgetInv
  <2>3. CASE DropDead(i)
    <3>1. PhasesOfKind'
      BY <2>3, <1>t DEF BudgetInv, TypeOK, DropDead
    <3>2. Counts'
      BY <2>3, <1>t DEF BudgetInv, TypeOK, DropDead
    <3>3. Origins'
      BY <2>3, <1>t DEF BudgetInv, TypeOK, DropDead
    <3> QED BY <1>t, <3>1, <3>2, <3>3 DEF BudgetInv
  <2> QED BY <1>5, <2>1, <2>2, <2>3
<1>6. ASSUME NEW t \in Timers, NEW i \in Ids, MarkDead(t, i) PROVE BudgetInv'
  <2>1. CASE Readable(pending[i])
    <3>0. /\ phase[t] = "idle" /\ Hold(t, i, pending[i]) /\ Goto(t, "openDead")
          /\ pending[i].await /\ status[i] = "accepted"
      BY <1>6, <2>1 DEF MarkDead, BudgetInv
    <3>1. PhasesOfKind'
      BY <1>t, <1>6, <3>0 DEF BudgetInv, TypeOK, MarkDead, Hold, Goto
    <3>2. Counts'
      BY <1>t, <1>6, <3>0 DEF BudgetInv, TypeOK, MarkDead, Hold, Goto
    <3>3. Origins'
      BY <1>t, <1>6, <3>0 DEF BudgetInv, TypeOK, MarkDead, Hold, Goto
    <3> QED BY <1>t, <3>1, <3>2, <3>3 DEF BudgetInv
  <2>2. CASE ~Readable(pending[i])
    BY <1>t, <1>6, <2>2 DEF BudgetInv, MarkDead
  <2> QED BY <2>1, <2>2
<1>7. CASE UNCHANGED vars
  BY <1>t, <1>7 DEF BudgetInv
<1> QED BY <1>1, <1>2, <1>3, <1>4, <1>5, <1>6, <1>7 DEF Next

(* Whatever the number of retry workers, enqueuing threads and ACK timers, *)
(* and whatever they interleave and crash: where nobody requeues, a failed *)
(* send reaches dead/ only after max_retries attempts failed on the wire.  *)
THEOREM BudgetIsSpent ==
  ASSUME Operators = {}, Redrained = {}
  PROVE  Spec => []BudgetSpent
<1>1. Init => BudgetInv
  BY BudgetInit
<1>2. BudgetInv /\ [Next]_vars => BudgetInv'
  BY BudgetStep
<1>3. BudgetInv => BudgetSpent
  BY DEF BudgetInv, Counts, DeadIsSpent, BudgetSpent
<1> QED BY <1>1, <1>2, <1>3, PTL DEF Spec

-------------------------------------------------------------------------------
(* Where a message is, however many processes crash, as long as nobody     *)
(* requeues.  A message is lost when its last readable copy goes; Home     *)
(* says why none does: whoever unlinks pending/ leaves the copy in dead/   *)
(* behind, or a process that is about to finish it, and a file cut short   *)
(* has somebody at work on it.  Only a crash on the message itself, or two *)
(* processes that write it at once, ends its Home, so at most one message  *)
(* is homeless per crash, those garbled apart.                             *)

\* A copy is in dead/, or about to be.
InDead(i) == \/ Readable(dead[i])
             \/ \E q \in Procs : phase[q] = "flushDead" /\ cur[q] = i

CopyIsThere(i) == \A p \in Procs :
  phase[p] = "flushDead" /\ cur[p] = i /\ i \notin done => dead[i] # Absent /\ p \notin severed
UnlinkIsSafe(i) == \A p \in Procs :
  phase[p] = "unlinkPending" /\ cur[p] = i => status[i] = "accepted" /\ (i \in done \/ InDead(i))
GoneIsDead(i) == status[i] = "accepted" /\ i \notin done /\ pending[i] = Absent => InDead(i)
CutIsOpen(i) == pending[i] = Torn =>
  \E q \in Procs : phase[q] = "flushPending" /\ cur[q] = i /\ q \notin severed
EnteringIsOpen(i) == \A p \in Producers :
  phase[p] = "flushPending" /\ cur[p] = i => pending[i] = Torn /\ p \notin severed
MixtureIsKnown(i) == pending[i] = Garbled => i \in garbled

Home(i) == CopyIsThere(i) /\ UnlinkIsSafe(i) /\ GoneIsDead(i) /\ CutIsOpen(i) /\ EnteringIsOpen(i)
           /\ MixtureIsKnown(i)

LEMMA HomeInit == Init => \A i \in Ids : Home(i)
BY FileAssumption, ProcAssumption
DEF Init, Home, CopyIsThere, UnlinkIsSafe, GoneIsDead, CutIsOpen, EnteringIsOpen, MixtureIsKnown, Readable

\* A message whose files, status and processes stay as they are keeps its home.
LEMMA SameHome ==
  ASSUME NEW i \in Ids, Home(i),
         \A q \in Procs : \/ phase'[q] = phase[q] /\ cur'[q] = cur[q]
                          \/ /\ phase[q] \notin {"flushPending", "flushDead"} \/ cur[q] # i
                             /\ phase'[q] \notin {"flushPending", "flushDead", "unlinkPending"} \/ cur'[q] # i,
         \A q \in Procs : phase[q] \in {"flushPending", "flushDead"} /\ cur[q] = i =>
                            (q \in severed' <=> q \in severed),
         pending'[i] = pending[i], dead'[i] = dead[i], status'[i] = "accepted" <=> status[i] = "accepted",
         i \in done' <=> i \in done, garbled \subseteq garbled'
  PROVE  Home(i)'
<1> USE ProcAssumption DEF InDead, Readable
<1>1. CopyIsThere(i)'
  BY DEF Home, CopyIsThere
<1>2. InDead(i) => InDead(i)'
  OBVIOUS
<1>3. UnlinkIsSafe(i)'
  BY <1>2 DEF Home, UnlinkIsSafe
<1>4. GoneIsDead(i)'
  BY <1>2 DEF Home, GoneIsDead
<1>5. CutIsOpen(i)'
  BY DEF Home, CutIsOpen
<1>6. EnteringIsOpen(i)'
  BY DEF Home, EnteringIsOpen
<1>7. MixtureIsKnown(i)'
  BY DEF Home, MixtureIsKnown
<1> QED BY <1>1, <1>3, <1>4, <1>5, <1>6, <1>7 DEF Home

\* What was garbled once is known to be.
LEMMA GarbledStays ==
  ASSUME TypeOK, [Next]_vars
  PROVE  garbled \subseteq garbled'
<1>1. ASSUME NEW p \in Procs, FileStep(p) PROVE garbled \subseteq garbled'
  BY <1>1, FlushPendingFacts, FlushDeadFacts
     DEF FileStep, OpenPending, OpenDead, UnlinkPending, UnlinkDead
<1>2. ASSUME NEW p \in Procs, Crash(p) PROVE garbled' = garbled
  BY <1>2 DEF Crash
<1>3. ASSUME NEW p \in Producers, EnqueueStep(p) PROVE garbled' = garbled
  BY <1>3 DEF EnqueueStep, Enqueue, AdmitEnqueue, RefuseEnqueue
<1>4. ASSUME NEW s \in Sweepers, SweepStep(s) PROVE garbled' = garbled
  BY <1>4 DEF SweepStep, SweepStart, Visit, SweepEnd, Throttled, Delivered, FailedRetry,
              FailedExhausted, Fail
<1>5. ASSUME NEW i \in Ids, BackoffElapses(i) \/ AckRemove(i) \/ DropDead(i) PROVE garbled' = garbled
  BY <1>5 DEF BackoffElapses, AckRemove, DropDead
<1>6. ASSUME NEW i \in Ids, NEW p \in Procs, MarkDead(p, i) \/ RequeueDead(p, i)
      PROVE  garbled' = garbled
  BY <1>6 DEF MarkDead, RequeueDead
<1> QED BY <1>1, <1>2, <1>3, <1>4, <1>5, <1>6 DEF Next

\* Every step keeps the home of a message, except a crash of a process that works on it and
\* a second write of its file.
LEMMA HomeStep ==
  ASSUME Operators = {}, Redrained = {}, BudgetInv, [Next]_vars, NEW i \in Ids, Home(i), i \notin garbled'
  PROVE  Home(i)' \/ \E p \in Procs : Crash(p) /\ cur[p] = i
<1> USE ProcAssumption, FileAssumption
<1>t. TypeOK /\ TypeOK' /\ PhasesOfKind /\ garbled \subseteq garbled'
  BY TypeStep, GarbledStays DEF BudgetInv
<1>o. Fresh /\ EnteringIsFresh /\ OneProducer /\ OpenIsHold /\ TimerMovesHold
  BY DEF BudgetInv, Origins
<1>e. pending[i] \in File /\ dead[i] \in File
      /\ Torn # Absent /\ Garbled # Absent /\ Garbled # Torn
      /\ Torn \notin Entry /\ Absent \notin Entry /\ Garbled \notin Entry
  BY <1>t DEF TypeOK
<1>1. ASSUME NEW p \in Procs, FileStep(p) PROVE Home(i)'
  <2>1. CASE cur[p] # i
    <3>1. pending'[i] = pending[i] /\ dead'[i] = dead[i] /\ cur' = cur /\ status'[i] = status[i]
          /\ done' = done /\ \A q \in Procs \ {p} : phase'[q] = phase[q]
      BY <1>t, <1>1, <2>1, FlushPendingFacts, FlushDeadFacts
         DEF TypeOK, FileStep, OpenPending, FlushPending, OpenDead, FlushDead,
            UnlinkPending, UnlinkDead, Goto
    <3>2. \A q \in Procs : cur[q] = i => (q \in severed' <=> q \in severed)
      BY <1>t, <1>1, <2>1, FlushPendingFacts, FlushDeadFacts
         DEF FileStep, OpenPending, OpenDead, UnlinkPending, UnlinkDead, Writing
    <3> QED BY <1>t, <2>1, <3>1, <3>2, SameHome
  <2>2. CASE cur[p] = i
    <3> USE <1>t, <1>o, <1>e, <1>1, <2>2
        DEF TypeOK, PhasesOfKind, Working, Entering, Fresh, EnteringIsFresh, OneProducer,
            TimerMovesHold, Busy, Goto, Home, CopyIsThere, UnlinkIsSafe, GoneIsDead, CutIsOpen,
            EnteringIsOpen, MixtureIsKnown, InDead, Readable
    <3>1. CASE OpenPending(p)
      BY <3>1 DEF OpenPending
    <3>2. CASE FlushPending(p)
      <4>0. /\ phase[p] = "flushPending" /\ phase' = [phase EXCEPT ![p] = AfterWritePending(p)]
            /\ AfterWritePending(p) \in {"scan", "idle"}
            /\ status' = IF p \in Producers THEN [status EXCEPT ![i] = "accepted"] ELSE status
            /\ UNCHANGED <<dead, cur, done>> /\ severed' = severed \ {p}
            /\ pending[i] = Absent \/ p \in severed => pending'[i] = pending[i]
            /\ pending[i] # Absent /\ p \notin severed => pending'[i] = mem[p]
            /\ mem[p] \in Entry
        BY <3>2, FlushPendingFacts DEF FlushPending, AfterWritePending
      <4>1. CopyIsThere(i)' /\ UnlinkIsSafe(i)'
        BY <4>0
      <4>2. GoneIsDead(i)'
        BY <4>0
      <4>3. CutIsOpen(i)' /\ EnteringIsOpen(i)' /\ MixtureIsKnown(i)'
        BY <4>0
      <4> QED BY <4>1, <4>2, <4>3
    <3>3. CASE OpenDead(p)
      BY <3>3 DEF OpenDead
    <3>4. CASE FlushDead(p)
      <4>0. /\ phase[p] = "flushDead" /\ phase' = [phase EXCEPT ![p] = "unlinkPending"]
            /\ UNCHANGED <<pending, cur, status, done>> /\ severed' = severed \ {p}
            /\ dead[i] = Absent \/ p \in severed => dead'[i] = dead[i]
            /\ dead[i] # Absent => dead'[i] # Absent
            /\ dead[i] # Absent /\ p \notin severed => dead'[i] = mem[p]
            /\ mem[p] \in Entry /\ status[i] = "accepted"
        BY <3>4, FlushDeadFacts DEF FlushDead
      <4>1. i \notin done => InDead(i)'
        BY <4>0
      <4>2. CopyIsThere(i)' /\ UnlinkIsSafe(i)'
        BY <4>0, <4>1
      <4>3. GoneIsDead(i)'
        BY <4>0, <4>1
      <4>4. CutIsOpen(i)' /\ EnteringIsOpen(i)' /\ MixtureIsKnown(i)'
        BY <4>0
      <4> QED BY <4>2, <4>3, <4>4
    <3>5. CASE UnlinkPending(p)
      BY <3>5 DEF UnlinkPending, Writing
    <3>6. CASE UnlinkDead(p)
      BY <3>6 DEF UnlinkDead, Writing
    <3> QED BY <3>1, <3>2, <3>3, <3>4, <3>5, <3>6 DEF FileStep
  <2> QED BY <2>1, <2>2
<1>2. ASSUME NEW p \in Procs, Crash(p), cur[p] # i PROVE Home(i)'
  BY <1>t, <1>2, SameHome DEF Crash, Goto, TypeOK
<1>3. ASSUME NEW p \in Producers, EnqueueStep(p) PROVE Home(i)'
  <2>1. ASSUME NEW j \in Ids, NEW await \in BOOLEAN, Enqueue(p, j, await) PROVE Home(i)'
    <3>0. phase[p] = "idle" /\ phase'[p] = "check" /\ cur'[p] = j /\ dead' = dead
          /\ (\A q \in Procs \ {p} : phase'[q] = phase[q] /\ cur'[q] = cur[q])
          /\ (status'[i] = "accepted" <=> status[i] = "accepted")
      BY <1>t, <2>1 DEF TypeOK, Enqueue, Hold, Goto
    <3>1. CASE i \notin Superseded(j)
      <4>1. pending'[i] = pending[i] /\ (i \in done' <=> i \in done)
        BY <2>1, <3>1 DEF Enqueue
      <4>2. \A q \in Procs : cur[q] = i => (q \in severed' <=> q \in severed)
        BY <2>1, <3>1 DEF Enqueue, Writing
      <4> QED BY <1>t, <3>0, <4>1, <4>2, SameHome
    <3>2. CASE i \in Superseded(j)
      <4>1. i \in done' /\ pending'[i] = Absent /\ Readable(pending[i])
        BY <2>1, <3>2, KeyAssumption DEF Enqueue, Superseded
      <4>a. MixtureIsKnown(i)'
        BY <1>e, <4>1 DEF MixtureIsKnown
      <4>2. EnteringIsOpen(i)'
        BY <1>e, <3>0, <4>1 DEF Home, EnteringIsOpen, Readable
      <4>3. UnlinkIsSafe(i)'
        BY <3>0, <4>1 DEF Home, UnlinkIsSafe
      <4> QED BY <1>e, <4>1, <4>a, <4>2, <4>3 DEF Home, CopyIsThere, GoneIsDead, CutIsOpen
    <3> QED BY <3>1, <3>2
  <2>2. CASE AdmitEnqueue(p) \/ RefuseEnqueue(p)
    BY <1>t, <2>2, SameHome DEF TypeOK, AdmitEnqueue, RefuseEnqueue, Goto
  <2> QED BY <1>3, <2>1, <2>2 DEF EnqueueStep
<1>4. ASSUME NEW s \in Sweepers, SweepStep(s) PROVE Home(i)'
  <2>1. CASE Visit(s)
    BY <1>t, <2>1, SameHome DEF TypeOK, Visit, Hold, Goto
  <2>2. CASE SweepStart(s) \/ SweepEnd(s) \/ Throttled(s)
    BY <1>t, <2>2, SameHome DEF TypeOK, SweepStart, SweepEnd, Throttled, Charge, Goto
  <2>3. CASE FailedRetry(s) \/ FailedExhausted(s)
    BY <1>t, <2>3, SameHome DEF TypeOK, FailedRetry, FailedExhausted, Fail, Charge, Goto
  <2>4. CASE Delivered(s)
    <3>1. phase[s] = "send" /\ phase'[s] = "unlinkPending" /\ cur' = cur /\ UNCHANGED <<pending, dead, status>>
          /\ (\A q \in Procs \ {s} : phase'[q] = phase[q]) /\ done' = done \cup {cur[s]}
          /\ UNCHANGED <<severed, garbled>>
      BY <1>t, <2>4 DEF TypeOK, Delivered, Charge, Goto
    <3>2. status[cur[s]] = "accepted"
      BY <1>t, <1>o, <3>1 DEF TypeOK, Fresh, Busy, Working
    <3>3. InDead(i) => InDead(i)'
      BY <3>1 DEF InDead
    <3>4. UnlinkIsSafe(i)'
      BY <3>1, <3>2, <3>3 DEF Home, UnlinkIsSafe
    <3>5. CopyIsThere(i)' /\ GoneIsDead(i)'
      BY <3>1, <3>3 DEF Home, CopyIsThere, GoneIsDead
    <3>6. CutIsOpen(i)' /\ EnteringIsOpen(i)' /\ MixtureIsKnown(i)'
      BY <3>1 DEF Home, CutIsOpen, EnteringIsOpen, MixtureIsKnown
    <3> QED BY <3>4, <3>5, <3>6 DEF Home
  <2> QED BY <1>4, <2>1, <2>2, <2>3, <2>4 DEF SweepStep
<1>5. ASSUME NEW j \in Ids, BackoffElapses(j) \/ AckRemove(j) \/ DropDead(j) PROVE Home(i)'
  <2>1. CASE j # i
    <3>1. \A q \in Procs : cur[q] = i => (q \in severed' <=> q \in severed)
      BY <1>5, <2>1 DEF BackoffElapses, AckRemove, DropDead, Writing
    <3> QED BY <1>t, <1>5, <2>1, <3>1, SameHome DEF TypeOK, BackoffElapses, AckRemove, DropDead
  <2>2. CASE j = i /\ BackoffElapses(j)
    <3>1. pending[i] \in Entry /\ UNCHANGED <<dead, severed, garbled, phase, cur, done, status>>
          /\ pending' = [pending EXCEPT ![i] = [pending[i] EXCEPT !.due = TRUE]]
      BY <1>e, <2>2 DEF BackoffElapses, Readable, File
    <3> DEFINE e == [pending[i] EXCEPT !.due = TRUE]
    <3>2. e \in Entry
      BY <3>1, EntryFacts
    <3> HIDE DEF e
    <3>3. pending'[i] = e
      BY <1>t, <3>1 DEF TypeOK, e
    <3>4. pending'[i] \notin {Torn, Absent, Garbled} /\ pending[i] \notin {Torn, Absent, Garbled}
      BY <1>e, <3>1, <3>2, <3>3
    <3> QED BY <3>1, <3>4 DEF Home, CopyIsThere, UnlinkIsSafe, GoneIsDead, CutIsOpen, EnteringIsOpen,
            MixtureIsKnown, InDead, Readable
  <2>3. CASE j = i /\ AckRemove(j)
    <3>1. /\ pending'[i] = Absent /\ i \in done' /\ status[i] = "accepted"
          /\ UNCHANGED <<dead, phase, cur, status>>
      BY <1>t, <1>o, <2>3 DEF TypeOK, AckRemove, OpenIsHold
    <3>2. \A p \in Producers : ~(phase[p] = "flushPending" /\ cur[p] = i)
      BY <1>o, <3>1 DEF EnteringIsFresh, Entering
    <3> QED BY <1>e, <3>1, <3>2 DEF Home, CopyIsThere, UnlinkIsSafe, GoneIsDead, CutIsOpen, EnteringIsOpen,
            MixtureIsKnown
  <2>4. CASE j = i /\ DropDead(j)
    <3>1. /\ i \in done' /\ UNCHANGED <<pending, garbled, phase, cur, status>>
          /\ \A q \in Procs : phase[q] = "flushPending" => (q \in severed' <=> q \in severed)
      BY <2>4 DEF DropDead, Writing
    <3> QED BY <3>1 DEF Home, CopyIsThere, UnlinkIsSafe, GoneIsDead, CutIsOpen, EnteringIsOpen, MixtureIsKnown
  <2> QED BY <1>5, <2>1, <2>2, <2>3, <2>4
<1>6. ASSUME NEW t \in Timers, NEW j \in Ids, MarkDead(t, j) PROVE Home(i)'
  BY <1>t, <1>6, SameHome DEF TypeOK, MarkDead, Hold, Goto
<1>7. CASE UNCHANGED vars
  BY <1>7, SameHome
<1> QED BY <1>1, <1>2, <1>3, <1>4, <1>5, <1>6, <1>7 DEF Next

\* Nobody crashes: every message keeps its home, unless it is garbled.
HomeInv == \A i \in Ids \ garbled : Home(i)

LEMMA HomeKept ==
  ASSUME Operators = {}, Redrained = {}, MaxCrashes = 0, BudgetInv, HomeInv, [Next]_vars
  PROVE  HomeInv'
<1>1. \A p \in Procs : ~Crash(p)
  BY DEF Crash, BudgetInv, TypeOK
<1>2. garbled \subseteq garbled'
  BY GarbledStays DEF BudgetInv
<1> QED BY <1>1, <1>2, HomeStep DEF HomeInv

-------------------------------------------------------------------------------
(* Crashes.  A crash costs the home of at most one message.                *)

Homeless == {i \in Ids \ garbled : ~Home(i)}
LossInv  == BudgetInv /\ Cardinality(Homeless) <= crashes

LEMMA CrashesCount ==
  ASSUME TypeOK, [Next]_vars
  PROVE  ((\E p \in Procs : Crash(p)) /\ crashes' = crashes + 1) \/ crashes' = crashes
<1>1. ASSUME NEW p \in Procs, Crash(p) PROVE crashes' = crashes + 1
  BY <1>1 DEF Crash
<1>2. ASSUME NEW p \in Procs, FileStep(p) PROVE crashes' = crashes
  BY <1>2 DEF FileStep, OpenPending, FlushPending, OpenDead, FlushDead, UnlinkPending, UnlinkDead
<1>3. ASSUME NEW p \in Producers, EnqueueStep(p) PROVE crashes' = crashes
  BY <1>3 DEF EnqueueStep, Enqueue, AdmitEnqueue, RefuseEnqueue
<1>4. ASSUME NEW s \in Sweepers, SweepStep(s) PROVE crashes' = crashes
  BY <1>4 DEF SweepStep, SweepStart, Visit, SweepEnd, Throttled, Delivered, FailedRetry,
              FailedExhausted, Fail
<1>5. ASSUME NEW i \in Ids, BackoffElapses(i) \/ AckRemove(i) \/ DropDead(i) PROVE crashes' = crashes
  BY <1>5 DEF BackoffElapses, AckRemove, DropDead
<1>6. ASSUME NEW i \in Ids, NEW p \in Procs, MarkDead(p, i) \/ RequeueDead(p, i)
      PROVE  crashes' = crashes
  BY <1>6 DEF MarkDead, RequeueDead
<1> QED BY <1>1, <1>2, <1>3, <1>4, <1>5, <1>6 DEF Next

LEMMA LossStep ==
  ASSUME Operators = {}, Redrained = {}, LossInv, [Next]_vars
  PROVE  LossInv'
<1>1. BudgetInv'
  BY BudgetStep DEF LossInv
<1>2. crashes \in Nat /\ cur \in [Procs -> Ids] /\ garbled \subseteq garbled'
  BY GarbledStays DEF LossInv, BudgetInv, TypeOK
<1>3. /\ Homeless \subseteq Ids /\ IsFiniteSet(Homeless) /\ Cardinality(Homeless) \in Nat
      /\ Cardinality(Homeless) <= crashes
  BY IdsAssumption, FS_Subset, FS_CardinalityType DEF Homeless, LossInv
<1>4. CASE \E p \in Procs : Crash(p)
  <2>1. PICK p \in Procs : Crash(p)
    BY <1>4
  <2>2. crashes' = crashes + 1
    BY <2>1 DEF Crash
  <2>3. Homeless' \subseteq Homeless \cup {cur[p]}
    <3>1. ASSUME NEW q \in Procs, Crash(q) PROVE q = p
      <4>1. phase[p] # "idle" /\ phase' = [phase EXCEPT ![p] = "idle"]
            /\ phase[q] # "idle" /\ phase' = [phase EXCEPT ![q] = "idle"]
        BY <2>1, <3>1 DEF Crash, Goto
      <4> QED BY <4>1 DEF LossInv, BudgetInv, TypeOK
    <3> QED BY <1>2, <3>1, HomeStep DEF Homeless, LossInv
  <2>4. Cardinality(Homeless \cup {cur[p]}) <= Cardinality(Homeless) + 1 /\ IsFiniteSet(Homeless \cup {cur[p]})
    <3>1. CASE cur[p] \in Homeless
      <4>1. Homeless \cup {cur[p]} = Homeless
        BY <3>1
      <4>2. Cardinality(Homeless \cup {cur[p]}) = Cardinality(Homeless)
        BY <4>1
      <4>3. IsFiniteSet(Homeless \cup {cur[p]})
        BY <1>3, <4>1
      <4> QED BY <1>3, <4>2, <4>3
    <3>2. CASE cur[p] \notin Homeless
      <4>1. Cardinality(Homeless \cup {cur[p]}) = Cardinality(Homeless) + 1
        BY <1>3, <3>2, FS_AddElement
      <4>2. IsFiniteSet(Homeless \cup {cur[p]})
        BY <1>3, FS_AddElement
      <4> QED BY <1>3, <4>1, <4>2
    <3> QED BY <3>1, <3>2
  <2>5. Cardinality(Homeless') <= Cardinality(Homeless \cup {cur[p]})
    BY <2>3, <2>4, FS_Subset
  <2>6. Cardinality(Homeless \cup {cur[p]}) \in Nat /\ Cardinality(Homeless') \in Nat
    BY <2>3, <2>4, FS_Subset, FS_CardinalityType
  <2> QED BY <1>1, <1>2, <1>3, <2>2, <2>4, <2>5, <2>6 DEF LossInv
<1>5. CASE ~\E p \in Procs : Crash(p)
  <2>1. crashes' = crashes
    BY <1>5, CrashesCount DEF LossInv, BudgetInv
  <2>2. Homeless' \subseteq Homeless
    BY <1>2, <1>5, HomeStep DEF Homeless, LossInv
  <2>3. Cardinality(Homeless') <= Cardinality(Homeless) /\ Cardinality(Homeless') \in Nat
    BY <1>3, <2>2, FS_Subset, FS_CardinalityType
  <2> QED BY <1>1, <1>2, <1>3, <2>1, <2>3 DEF LossInv
<1> QED BY <1>4, <1>5

LEMMA LostIsHomeless == \A i \in Ids \ garbled : Lost(i) => ~Home(i)
<1> SUFFICES ASSUME NEW i \in Ids \ garbled, Lost(i), Home(i) PROVE FALSE
  OBVIOUS
<1>1. /\ status[i] = "accepted" /\ i \notin done /\ ~Readable(pending[i]) /\ ~Readable(dead[i])
      /\ ~Carried(i)
  BY DEF Lost
<1>2. pending[i] # Torn
  BY <1>1 DEF Home, CutIsOpen, Carried
<1>3. pending[i] # Absent
  BY <1>1 DEF Home, GoneIsDead, CopyIsThere, InDead, Carried
<1>4. pending[i] # Garbled
  BY DEF Home, MixtureIsKnown
<1> QED BY <1>1, <1>2, <1>3, <1>4 DEF Readable

(* Where nobody requeues, the processes may crash as often as they like,   *)
(* between any two file operations: the outbox loses at most one accepted  *)
(* message per crash, besides those of which two processes wrote the file  *)
(* at once.  Those it may lose without any crash.                          *)
THEOREM LossIsBounded ==
  ASSUME Operators = {}, Redrained = {}
  PROVE  Spec => []LossBoundedByCrashes
<1>1. Init => LossInv
  <2> SUFFICES ASSUME Init PROVE LossInv
    OBVIOUS
  <2>1. BudgetInv /\ Homeless = {}
    BY BudgetInit, HomeInit DEF Homeless
  <2>2. Cardinality({}) = 0 /\ crashes = 0
    BY FS_EmptySet DEF Init
  <2> QED BY <2>1, <2>2 DEF LossInv
<1>2. LossInv /\ [Next]_vars => LossInv'
  BY LossStep
<1>3. LossInv => LossBoundedByCrashes
  <2> SUFFICES ASSUME LossInv PROVE LossBoundedByCrashes
    OBVIOUS
  <2>1. crashes \in Nat
    BY DEF LossInv, BudgetInv, TypeOK
  <2>2. /\ {i \in Ids \ garbled : Lost(i)} \subseteq Homeless /\ IsFiniteSet(Homeless)
        /\ Cardinality(Homeless) <= crashes
    BY LostIsHomeless, IdsAssumption, FS_Subset DEF Homeless, LossInv
  <2>3. Cardinality({i \in Ids \ garbled : Lost(i)}) <= Cardinality(Homeless)
    BY <2>2, FS_Subset
  <2>4. Cardinality(Homeless) \in Nat /\ Cardinality({i \in Ids \ garbled : Lost(i)}) \in Nat
    BY <2>2, FS_Subset, FS_CardinalityType
  <2> QED BY <2>1, <2>2, <2>3, <2>4 DEF LossBoundedByCrashes
<1> QED BY <1>1, <1>2, <1>3, PTL DEF Spec

-------------------------------------------------------------------------------
(* Overlapping writes.  It takes two retry workers, an operator or a       *)
(* redrained queue to write one file twice at once: a producer enqueues    *)
(* what nobody else has, and an ACK timer moves what no sweep touches.     *)

\* Whoever is between the two halves of write_text finds the file as empty as it left it.
OpenIsEmpty ==
  \A p \in Procs \ severed :
    /\ phase[p] = "flushPending" => pending[cur[p]] = Torn
    /\ phase[p] = "flushDead" => dead[cur[p]] = Torn
TimersApart ==
  \A t \in Timers : Busy(t) =>
    /\ cur[t] \notin ackOpen
    /\ Readable(pending[cur[t]]) => pending[cur[t]].await
    /\ \A u \in Timers \ {t} : Busy(u) => cur[u] # cur[t]
    /\ \A s \in Sweepers : Busy(s) => cur[s] # cur[t]
NothingMixed == garbled = {} /\ \A i \in Ids : pending[i] # Garbled /\ dead[i] # Garbled
WholeInv == BudgetInv /\ TimersApart /\ OpenIsEmpty /\ NothingMixed

LEMMA OpenIsTorn ==
  ASSUME WholeInv, NEW p \in Procs, p \notin severed
  PROVE  /\ phase[p] = "flushPending" => pending[cur[p]] = Torn
         /\ phase[p] = "flushDead" => dead[cur[p]] = Torn
BY DEF WholeInv, OpenIsEmpty

\* Two processes at work are at work on two messages.
LEMMA WorkApart ==
  ASSUME Operators = {}, \A s, t \in Sweepers : s = t, BudgetInv, TimersApart,
         NEW p \in Procs, NEW q \in Procs, p # q, cur[p] = cur[q],
         phase[p] \in {"openPending", "flushPending", "openDead", "flushDead"}
  PROVE  phase[q] \notin {"flushPending", "flushDead"}
<1> SUFFICES ASSUME phase[q] \in {"flushPending", "flushDead"} PROVE FALSE
  OBVIOUS
<1> DEFINE Kind(x) == \/ x \in Sweepers /\ Busy(x) /\ status[cur[x]] = "accepted"
                      \/ x \in Producers /\ phase[x] \in Entering /\ status[cur[x]] = "entering"
                      \/ x \in Timers /\ Busy(x) /\ status[cur[x]] = "accepted"
<1>1. ASSUME NEW x \in Procs, phase[x] \in {"openPending", "flushPending", "openDead", "flushDead"}
      PROVE  Kind(x)
  <2>1. CASE x \in Sweepers
    BY <1>1, <2>1 DEF BudgetInv, TypeOK, Origins, Fresh, Busy, Working
  <2>2. CASE x \in Producers
    BY <1>1, <2>2 DEF BudgetInv, PhasesOfKind, Origins, EnteringIsFresh, Entering
  <2>3. CASE x \in Timers
    BY <1>1, <2>3 DEF BudgetInv, Origins, TimerMovesHold, Busy, Working
  <2> QED BY <2>1, <2>2, <2>3
<1>2. Kind(p) /\ Kind(q)
  BY <1>1
<1>3. ASSUME p \in Timers, Busy(p), q \in Timers \cup Sweepers, Busy(q) PROVE FALSE
  BY <1>3 DEF TimersApart
<1>4. ASSUME q \in Timers, Busy(q), p \in Timers \cup Sweepers, Busy(p) PROVE FALSE
  BY <1>4 DEF TimersApart
<1>5. ~(p \in Producers /\ q \in Producers /\ phase[p] \in Entering /\ phase[q] \in Entering)
  BY DEF BudgetInv, Origins, OneProducer
<1> QED BY <1>2, <1>3, <1>4, <1>5

LEMMA FileStepWhole ==
  ASSUME Operators = {}, Redrained = {}, \A s, t \in Sweepers : s = t, WholeInv,
         NEW p \in Procs, FileStep(p)
  PROVE  (TimersApart /\ OpenIsEmpty /\ NothingMixed)'
<1> USE ProcAssumption, FileAssumption
<1>t. TypeOK /\ PhasesOfKind /\ Origins
  BY DEF WholeInv, BudgetInv
<1>w. \A q \in Procs \ {p} :
        (cur[q] = cur[p] /\ phase[p] \in {"openPending", "flushPending", "openDead", "flushDead"})
          => phase[q] \notin {"flushPending", "flushDead"}
  BY WorkApart DEF WholeInv
<1>i. PICK i \in Ids : i = cur[p]
  BY <1>t DEF TypeOK
<1>1. CASE OpenPending(p)
  <2>1. /\ phase[p] = "openPending" /\ phase' = [phase EXCEPT ![p] = "flushPending"]
        /\ pending' = [pending EXCEPT ![i] = Torn] /\ severed' = severed \ {p}
        /\ UNCHANGED <<dead, garbled, cur, ackOpen>>
    BY <1>1, <1>i DEF OpenPending, Goto
  <2>2. OpenIsEmpty'
    BY <1>t, <1>w, <1>i, <2>1 DEF WholeInv, OpenIsEmpty, TypeOK
  <2>3. TimersApart'
    BY <1>t, <1>i, <2>1 DEF WholeInv, TimersApart, TypeOK, PhasesOfKind, Busy, Working, Readable
  <2>4. NothingMixed'
    BY <1>t, <2>1 DEF WholeInv, NothingMixed, TypeOK
  <2> QED BY <2>2, <2>3, <2>4
<1>2. CASE FlushPending(p)
  <2>1. /\ phase[p] = "flushPending" /\ phase' = [phase EXCEPT ![p] = AfterWritePending(p)]
        /\ AfterWritePending(p) \in {"scan", "idle"}
        /\ severed' = severed \ {p} /\ UNCHANGED <<dead, cur>>
        /\ ackOpen' = ackOpen \/ (p \in Producers /\ ackOpen' = ackOpen \cup {i})
        /\ \A j \in Ids \ {i} : pending'[j] = pending[j]
        /\ p \in severed => pending'[i] = pending[i]
        /\ p \notin severed => pending'[i] = mem[p]
        /\ garbled' \subseteq garbled \cup {i}
        /\ pending'[i] # Garbled => garbled' = garbled
        /\ mem[p] \in Entry
    <3>1. /\ phase[p] = "flushPending" /\ phase' = [phase EXCEPT ![p] = AfterWritePending(p)]
          /\ UNCHANGED <<dead, cur>>
          /\ ackOpen' = ackOpen \/ (p \in Producers /\ ackOpen' = ackOpen \cup {i})
      BY <1>2, <1>i DEF FlushPending, Goto
    <3>0. phase[p] = "flushPending"
      BY <1>2 DEF FlushPending
    <3>2. AfterWritePending(p) \in {"scan", "idle"}
      BY DEF AfterWritePending
    <3>3. p \notin severed => pending[i] = Torn
      BY <1>i, <3>0, OpenIsTorn
    <3>4. /\ severed' = severed \ {p} /\ \A j \in Ids \ {i} : pending'[j] = pending[j]
          /\ p \in severed => pending'[i] = pending[i]
          /\ pending[i] = Torn /\ p \notin severed => pending'[i] = mem[p]
          /\ garbled' \subseteq garbled \cup {i}
          /\ pending'[i] # Garbled => garbled' = garbled
          /\ mem[p] \in Entry
      BY <1>t, <1>2, <1>i, FlushPendingFacts
    <3> QED BY <3>1, <3>2, <3>3, <3>4
  <2>2. OpenIsEmpty'
    BY <1>t, <1>w, <1>i, <2>1 DEF WholeInv, OpenIsEmpty, TypeOK
  <2>3. NothingMixed'
    <3>1. PICK f \in Overlaid(p, pending[i]) : Flushed(p, f)
      BY <1>2, <1>i DEF FlushPending
    <3>0. phase[p] = "flushPending"
      BY <1>2 DEF FlushPending
    <3>2. p \in severed \/ pending[i] = Torn
      BY <1>i, <3>0, OpenIsTorn
    <3>3. p \in severed => f = pending[i]
      BY <3>1 DEF Overlaid
    <3>4. p \notin severed => f = mem[p] /\ f # Garbled
      BY <2>1, <3>1, <3>2 DEF Overlaid
    <3>5. f # Garbled
      BY <3>3, <3>4 DEF WholeInv, NothingMixed
    <3>6. garbled' = {}
      BY <3>1, <3>5 DEF Flushed, WholeInv, NothingMixed
    <3>7. \A j \in Ids : pending'[j] # Garbled
      BY <2>1, <3>2 DEF WholeInv, NothingMixed
    <3> QED BY <2>1, <3>6, <3>7 DEF WholeInv, NothingMixed
  <2>4. ASSUME NEW t \in Timers, Busy(t) PROVE cur[t] # i
    BY <1>t, <1>i, <2>1, <2>4 DEF WholeInv, TimersApart, Origins, TimerMovesHold, EnteringIsFresh,
       PhasesOfKind, Busy, Working, Entering
  <2>5. TimersApart'
    BY <1>t, <1>i, <2>1, <2>4 DEF WholeInv, TimersApart, TypeOK, PhasesOfKind, Busy, Working
  <2> QED BY <2>2, <2>3, <2>5
<1>3. CASE OpenDead(p)
  <2>1. /\ phase[p] = "openDead" /\ phase' = [phase EXCEPT ![p] = "flushDead"]
        /\ dead' = [dead EXCEPT ![i] = Torn] /\ severed' = severed \ {p}
        /\ UNCHANGED <<pending, garbled, cur, ackOpen>>
    BY <1>3, <1>i DEF OpenDead, Goto
  <2>2. OpenIsEmpty'
    BY <1>t, <1>w, <1>i, <2>1 DEF WholeInv, OpenIsEmpty, TypeOK
  <2>3. TimersApart'
    BY <1>t, <1>i, <2>1 DEF WholeInv, TimersApart, TypeOK, Busy, Working
  <2>4. NothingMixed'
    BY <1>t, <2>1 DEF WholeInv, NothingMixed, TypeOK
  <2> QED BY <2>2, <2>3, <2>4
<1>4. CASE FlushDead(p)
  <2>1. /\ phase[p] = "flushDead" /\ phase' = [phase EXCEPT ![p] = "unlinkPending"]
        /\ severed' = severed \ {p} /\ UNCHANGED <<pending, cur, ackOpen>>
        /\ \A j \in Ids \ {i} : dead'[j] = dead[j]
        /\ p \in severed => dead'[i] = dead[i]
        /\ dead[i] = Torn /\ p \notin severed => dead'[i] = mem[p]
    BY <1>t, <1>4, <1>i, FlushDeadFacts DEF FlushDead, Goto
  <2>2. OpenIsEmpty'
    BY <1>t, <1>w, <1>i, <2>1 DEF WholeInv, OpenIsEmpty, TypeOK
  <2>3. NothingMixed'
    <3>1. PICK f \in Overlaid(p, dead[i]) : Flushed(p, f)
      BY <1>4, <1>i DEF FlushDead
    <3>2. p \in severed \/ dead[i] = Torn
      BY <1>i, <2>1 DEF WholeInv, OpenIsEmpty
    <3>3. p \in severed => f = dead[i]
      BY <3>1 DEF Overlaid
    <3>4. mem[p] \in Entry
      BY <1>t DEF TypeOK
    <3>5. p \notin severed => f = mem[p] /\ f # Garbled
      BY <3>1, <3>2, <3>4 DEF Overlaid
    <3>6. f # Garbled
      BY <3>3, <3>5 DEF WholeInv, NothingMixed
    <3>7. garbled' = {}
      BY <3>1, <3>6 DEF Flushed, WholeInv, NothingMixed
    <3>8. \A j \in Ids : dead'[j] # Garbled
      BY <2>1, <3>2, <3>4 DEF WholeInv, NothingMixed
    <3> QED BY <2>1, <3>7, <3>8 DEF WholeInv, NothingMixed
  <2>4. TimersApart'
    BY <1>t, <1>i, <2>1 DEF WholeInv, TimersApart, TypeOK, Busy, Working
  <2> QED BY <2>2, <2>3, <2>4
<1>5. CASE UnlinkPending(p)
  <2>1. /\ phase[p] = "unlinkPending" /\ phase'[p] \in {"scan", "idle"}
        /\ \A q \in Procs \ {p} : phase'[q] = phase[q]
        /\ pending' = [pending EXCEPT ![i] = Absent]
        /\ severed' = severed \cup Writing("flushPending", {i})
        /\ UNCHANGED <<dead, garbled, cur, ackOpen>>
    BY <1>t, <1>5, <1>i DEF UnlinkPending, Goto, TypeOK
  <2>2. OpenIsEmpty'
    BY <1>t, <1>i, <2>1 DEF WholeInv, OpenIsEmpty, TypeOK, Writing
  <2>3. TimersApart'
    BY <1>t, <1>i, <2>1 DEF WholeInv, TimersApart, TypeOK, Busy, Working, Readable
  <2>4. NothingMixed'
    BY <1>t, <2>1 DEF WholeInv, NothingMixed, TypeOK
  <2> QED BY <2>2, <2>3, <2>4
<1>6. CASE UnlinkDead(p)
  BY <1>t, <1>6 DEF UnlinkDead, PhasesOfKind, Working, Entering
<1> QED BY <1>1, <1>2, <1>3, <1>4, <1>5, <1>6 DEF FileStep

LEMMA WholeStep ==
  ASSUME Operators = {}, Redrained = {}, \A s, t \in Sweepers : s = t, WholeInv, [Next]_vars
  PROVE  WholeInv'
<1> USE ProcAssumption, FileAssumption
<1>t. TypeOK /\ PhasesOfKind /\ Origins /\ BudgetInv'
  BY BudgetStep DEF WholeInv, BudgetInv
<1>1. ASSUME NEW p \in Procs, FileStep(p) PROVE WholeInv'
  BY <1>t, <1>1, FileStepWhole DEF WholeInv
<1>2. ASSUME NEW p \in Procs, Crash(p) PROVE WholeInv'
  <2>1. /\ phase' = [phase EXCEPT ![p] = "idle"] /\ severed' = severed \ {p}
        /\ UNCHANGED <<pending, dead, garbled, cur, ackOpen>>
    BY <1>2 DEF Crash, Goto
  <2>2. OpenIsEmpty'
    BY <1>t, <2>1 DEF WholeInv, OpenIsEmpty, TypeOK
  <2>3. TimersApart'
    BY <1>t, <2>1 DEF WholeInv, TimersApart, TypeOK, Busy, Working
  <2>n. NothingMixed'
    BY <1>t, <2>1, FileAssumption DEF WholeInv, NothingMixed, TypeOK
  <2> QED BY <1>t, <2>2, <2>3, <2>n DEF WholeInv
<1>3. ASSUME NEW p \in Producers, EnqueueStep(p) PROVE WholeInv'
  <2>1. /\ phase'[p] \in {"check", "openPending", "idle"} /\ phase[p] \in {"idle", "check"}
        /\ \A q \in Procs \ {p} : phase'[q] = phase[q] /\ cur'[q] = cur[q]
        /\ UNCHANGED <<dead, garbled, ackOpen>>
        /\ \A i \in Ids : pending'[i] = pending[i] \/ pending'[i] = Absent
        /\ \A q \in Procs : q \in severed => q \in severed'
        /\ \A q \in Procs : phase[q] = "flushPending" /\ q \notin severed' => pending'[cur[q]] = pending[cur[q]]
    BY <1>t, <1>3 DEF TypeOK, EnqueueStep, Enqueue, AdmitEnqueue, RefuseEnqueue, Hold, Goto, Writing
  <2>2. OpenIsEmpty'
    BY <1>t, <2>1 DEF WholeInv, OpenIsEmpty, TypeOK
  <2>3. TimersApart'
    BY <1>t, <2>1 DEF WholeInv, TimersApart, TypeOK, Busy, Working, Readable
  <2>n. NothingMixed'
    BY <1>t, <2>1, FileAssumption DEF WholeInv, NothingMixed, TypeOK
  <2> QED BY <1>t, <2>2, <2>3, <2>n DEF WholeInv
<1>4. ASSUME NEW s \in Sweepers, SweepStep(s) PROVE WholeInv'
  <2>1. /\ \A q \in Procs \ {s} : phase'[q] = phase[q] /\ cur'[q] = cur[q]
        /\ UNCHANGED <<pending, dead, severed, garbled, ackOpen>>
        /\ phase'[s] \notin {"flushPending", "flushDead"}
    BY <1>t, <1>4 DEF TypeOK, SweepStep, SweepStart, Visit, SweepEnd, Throttled, Delivered,
       FailedRetry, FailedExhausted, Fail, Hold, Goto
  <2>2. OpenIsEmpty'
    BY <1>t, <2>1 DEF WholeInv, OpenIsEmpty, TypeOK
  <2>3. \/ Busy(s) /\ cur'[s] = cur[s]
        \/ ~Busy(s)'
        \/ Readable(pending[cur'[s]]) /\ ~pending[cur'[s]].await
    <3>1. CASE Visit(s)
      <4>1. PICK i \in todo[s] : IF Eligible(s, pending[i]) THEN Hold(s, i, pending[i]) /\ Goto(s, "send")
                                 ELSE UNCHANGED <<phase, cur, mem>>
        BY <3>1 DEF Visit
      <4> QED BY <1>t, <3>1, <4>1 DEF TypeOK, Visit, Eligible, Hold, Goto, Busy, Working
    <3>2. CASE ~Visit(s)
      BY <1>t, <1>4, <3>2 DEF TypeOK, SweepStep, SweepStart, SweepEnd, Throttled, Delivered,
         FailedRetry, FailedExhausted, Fail, Goto, Busy, Working
    <3> QED BY <3>1, <3>2
  <2>4. TimersApart'
    BY <1>t, <2>1, <2>3 DEF WholeInv, TimersApart, TypeOK, Busy
  <2>n. NothingMixed'
    BY <1>t, <2>1, FileAssumption DEF WholeInv, NothingMixed, TypeOK
  <2> QED BY <1>t, <2>2, <2>4, <2>n DEF WholeInv
<1>5. ASSUME NEW i \in Ids, BackoffElapses(i) PROVE WholeInv'
  <2>1. /\ UNCHANGED <<dead, severed, garbled, phase, cur, ackOpen>> /\ pending[i] \in Entry
        /\ pending' = [pending EXCEPT ![i] = [pending[i] EXCEPT !.due = TRUE]]
    BY <1>t, <1>5, EntryFacts DEF BackoffElapses, TypeOK
  <2>2. /\ pending'[i].await = pending[i].await /\ pending[i] # Torn /\ Readable(pending[i])
        /\ \A j \in Ids \ {i} : pending'[j] = pending[j]
    <3>1. [pending[i] EXCEPT !.due = TRUE].await = pending[i].await
      BY <2>1 DEF Entry
    <3> QED BY <1>t, <2>1, <3>1 DEF TypeOK, Readable
  <2>3. OpenIsEmpty' /\ TimersApart'
    BY <1>t, <2>1, <2>2 DEF WholeInv, OpenIsEmpty, TimersApart, TypeOK, Busy
  <2>4. pending'[i] \in Entry
    BY <1>t, <2>1, EntryFacts DEF TypeOK
  <2>n. NothingMixed'
    BY <1>t, <2>1, <2>2, <2>4, FileAssumption DEF WholeInv, NothingMixed
  <2> QED BY <1>t, <2>3, <2>n DEF WholeInv
<1>6. ASSUME NEW i \in Ids, AckRemove(i) \/ DropDead(i) PROVE WholeInv'
  <2>1. /\ UNCHANGED <<garbled, phase, cur>> /\ ackOpen' \subseteq ackOpen
        /\ pending'[i] \in {pending[i], Absent} /\ dead'[i] \in {dead[i], Absent}
        /\ \A j \in Ids \ {i} : pending'[j] = pending[j] /\ dead'[j] = dead[j]
        /\ \A q \in Procs : q \in severed => q \in severed'
        /\ \A q \in Procs \ severed' :
             /\ phase[q] = "flushPending" => pending'[cur[q]] = pending[cur[q]]
             /\ phase[q] = "flushDead" => dead'[cur[q]] = dead[cur[q]]
    BY <1>t, <1>6 DEF TypeOK, AckRemove, DropDead, Writing
  <2>2. OpenIsEmpty'
    BY <1>t, <2>1 DEF WholeInv, OpenIsEmpty, TypeOK
  <2>3. TimersApart'
    BY <1>t, <2>1 DEF WholeInv, TimersApart, TypeOK, Busy, Readable
  <2>n. NothingMixed'
    BY <1>t, <2>1, FileAssumption DEF WholeInv, NothingMixed, TypeOK
  <2> QED BY <1>t, <2>2, <2>3, <2>n DEF WholeInv
<1>7. ASSUME NEW t \in Timers, NEW i \in Ids, MarkDead(t, i) PROVE WholeInv'
  <2>1. /\ \A q \in Procs \ {t} : phase'[q] = phase[q] /\ cur'[q] = cur[q]
        /\ UNCHANGED <<pending, dead, severed, garbled>> /\ ackOpen' = ackOpen \ {i} /\ i \in ackOpen
        /\ phase[t] = "idle"
        /\ \/ phase'[t] = "idle"
           \/ phase'[t] = "openDead" /\ cur'[t] = i
    BY <1>t, <1>7 DEF TypeOK, MarkDead, Hold, Goto
  <2>2. OpenIsEmpty'
    BY <1>t, <2>1 DEF WholeInv, OpenIsEmpty, TypeOK
  <2>3. /\ Readable(pending[i]) => pending[i].await
        /\ \A s \in Sweepers : Busy(s) => cur[s] # i
        /\ \A u \in Timers : Busy(u) => cur[u] # i
    BY <1>t, <2>1 DEF WholeInv, Origins, OpenIsHold, TimersApart
  <2>4. TimersApart'
    BY <1>t, <2>1, <2>3 DEF WholeInv, TimersApart, TypeOK, Busy, Working
  <2>n. NothingMixed'
    BY <1>t, <2>1, FileAssumption DEF WholeInv, NothingMixed, TypeOK
  <2> QED BY <1>t, <2>2, <2>4, <2>n DEF WholeInv
<1>8. CASE UNCHANGED vars
  BY <1>t, <1>8 DEF WholeInv, OpenIsEmpty, NothingMixed, TimersApart, Busy
<1> QED BY <1>1, <1>2, <1>3, <1>4, <1>5, <1>6, <1>7, <1>8 DEF Next

(* With one retry worker on the directory, and nobody who requeues, no     *)
(* file is ever a mixture of two writes, however many threads enqueue,     *)
(* however many ACKs time out and wherever the processes crash: then the   *)
(* messages that the loss bound leaves out do not exist.  It is the second *)
(* retry worker, which core.py starts with every SKComms process, that     *)
(* costs a message without a crash.                                        *)
THEOREM OneSweeperGarblesNothing ==
  ASSUME Operators = {}, Redrained = {}, \A s, t \in Sweepers : s = t
  PROVE  Spec => [](garbled = {} /\ Cardinality({i \in Ids : Lost(i)}) <= crashes)
<1>1. Init => WholeInv
  BY BudgetInit, FileAssumption DEF Init, WholeInv, NothingMixed, TimersApart, OpenIsEmpty, Busy, Working
<1>2. WholeInv /\ [Next]_vars => WholeInv'
  BY WholeStep
<1>3. WholeInv /\ LossBoundedByCrashes => garbled = {} /\ Cardinality({i \in Ids : Lost(i)}) <= crashes
  <2> SUFFICES ASSUME WholeInv, LossBoundedByCrashes
      PROVE  garbled = {} /\ Cardinality({i \in Ids : Lost(i)}) <= crashes
    OBVIOUS
  <2>1. garbled = {}
    BY DEF WholeInv, NothingMixed
  <2>2. {i \in Ids \ garbled : Lost(i)} = {i \in Ids : Lost(i)}
    BY <2>1
  <2> QED BY <2>1, <2>2 DEF LossBoundedByCrashes
<1>4. Spec => []LossBoundedByCrashes
  BY LossIsBounded
<1> QED BY <1>1, <1>2, <1>3, <1>4, PTL DEF Spec

-------------------------------------------------------------------------------
(* The soft bound.  What counts is not the files but the ids that have one *)
(* or are about to get one: an enqueue that was admitted adds one id at a  *)
(* time when pending/ is below its bound, and nothing else does.           *)

Coming(i) == \E p \in Procs : phase[p] \in {"send", "openPending"} /\ cur[p] = i
Live      == {i \in Ids : pending[i] # Absent \/ Coming(i)}
InHand    == {cur[p] : p \in Producers \cup Sweepers}
Bounded   == MaxPending > 0 =>
  Cardinality(Live) <= MaxPending + (Cardinality(Producers) - 1) + Cardinality(Sweepers)

SoftInv == TypeOK /\ PhasesOfKind /\ Bounded

LEMMA Sizes ==
  /\ IsFiniteSet(InHand) /\ IsFiniteSet(Producers) /\ IsFiniteSet(Sweepers)
  /\ Cardinality(Producers) \in Nat /\ Cardinality(Sweepers) \in Nat /\ Cardinality(InHand) \in Nat
  /\ Cardinality(InHand) <= Cardinality(Producers) + Cardinality(Sweepers)
  /\ \A S \in SUBSET Ids : IsFiniteSet(S) /\ Cardinality(S) \in Nat
  /\ \A S, T \in SUBSET Ids : S \subseteq T => Cardinality(S) <= Cardinality(T)
<1>1. IsFiniteSet(Producers) /\ IsFiniteSet(Sweepers)
  BY FiniteAssumption, FS_Subset DEF Procs
<1>2. Cardinality(Producers) \in Nat /\ Cardinality(Sweepers) \in Nat
  BY <1>1, FS_CardinalityType
<1>3. /\ IsFiniteSet(Producers \cup Sweepers)
      /\ Cardinality(Producers \cup Sweepers)
           = Cardinality(Producers) + Cardinality(Sweepers) - Cardinality(Producers \cap Sweepers)
  BY <1>1, FS_Union
<1>4. Producers \cap Sweepers = {}
  BY ProcAssumption
<1>5. Cardinality(Producers \cap Sweepers) = 0
  BY <1>4, FS_EmptySet
<1>6. [p \in Producers \cup Sweepers |-> cur[p]] \in Surjection(Producers \cup Sweepers, InHand)
  BY DEF Surjection, InHand
<1>7. IsFiniteSet(InHand) /\ Cardinality(InHand) <= Cardinality(Producers \cup Sweepers)
  BY <1>3, <1>6, FS_Surjection
<1>8. Cardinality(InHand) \in Nat
  BY <1>7, FS_CardinalityType
<1>9. Cardinality(InHand) <= Cardinality(Producers) + Cardinality(Sweepers)
  BY <1>2, <1>3, <1>5, <1>7, <1>8
<1>10. \A S \in SUBSET Ids : IsFiniteSet(S) /\ Cardinality(S) \in Nat
  BY IdsAssumption, FS_Subset, FS_CardinalityType
<1>11. \A S, T \in SUBSET Ids : S \subseteq T => Cardinality(S) <= Cardinality(T)
  BY <1>10, FS_Subset
<1> QED BY <1>1, <1>2, <1>7, <1>8, <1>9, <1>10, <1>11

\* Where no id comes to life the bound stays.
LEMMA NoneMore ==
  ASSUME Bounded, \A i \in Ids : pending[i] = Absent /\ ~Coming(i) => pending'[i] = Absent /\ ~Coming(i)'
  PROVE  Bounded'
<1>1. Live' \subseteq Live /\ Live \subseteq Ids
  BY DEF Live
<1>2. Cardinality(Live') <= Cardinality(Live) /\ Cardinality(Live') \in Nat /\ Cardinality(Live) \in Nat
  BY <1>1, Sizes
<1> QED BY <1>2, Sizes, BoundAssumption DEF Bounded

\* An enqueue is admitted below the bound.
LEMMA AdmitKeeps ==
  ASSUME Operators = {}, SoftInv, NEW p \in Producers, AdmitEnqueue(p)
  PROVE  Bounded'
<1>1. /\ phase[p] = "check" /\ UNCHANGED <<pending, cur>> /\ Admits(cur[p])
      /\ phase' = [phase EXCEPT ![p] = "openPending"]
  BY DEF AdmitEnqueue, Goto
<1>2. phase \in [Procs -> Phases] /\ cur \in [Procs -> Ids] /\ cur[p] \in Ids
  BY DEF SoftInv, TypeOK
<1>3. \A i \in Ids : Coming(i)' <=> Coming(i) \/ i = cur[p]
  BY <1>1, <1>2 DEF Coming
<1>4. CASE pending[cur[p]] # Absent
  BY <1>1, <1>3, <1>4, NoneMore DEF SoftInv
<1>5. CASE pending[cur[p]] = Absent /\ MaxPending > 0
  <2> DEFINE Present == {i \in Ids : pending[i] # Absent}
  <2>1. PendingCount = Cardinality(Present) /\ PendingCount < MaxPending
    BY <1>1, <1>5 DEF PendingCount, Admits
  <2>2. Live' \subseteq Present \cup InHand
    <3>1. ASSUME NEW i \in Ids, Coming(i) PROVE i \in InHand
      BY <3>1, ProcAssumption DEF SoftInv, PhasesOfKind, Procs, Coming, InHand
    <3> QED BY <1>1, <1>3, <3>1 DEF Live, InHand
  <2>3. Present \in SUBSET Ids /\ IsFiniteSet(Present) /\ Cardinality(Present) \in Nat
    BY Sizes
  <2> HIDE DEF Present
  <2>4. /\ IsFiniteSet(Present \cup InHand)
        /\ Cardinality(Present \cup InHand) = Cardinality(Present) + Cardinality(InHand) - Cardinality(Present \cap InHand)
    BY <2>3, Sizes, FS_Union
  <2>5. Cardinality(Present \cap InHand) \in Nat
    <3>1. Present \cap InHand \in SUBSET Ids
      BY <2>3
    <3> QED BY <3>1, Sizes
  <2>6. Cardinality(Live') <= Cardinality(Present \cup InHand) /\ Cardinality(Live') \in Nat
        /\ Cardinality(Present \cup InHand) \in Nat
    BY <2>2, <2>4, FS_Subset, FS_CardinalityType
  <2>7. Cardinality(Present) <= MaxPending - 1
    BY <2>1, <2>3, BoundAssumption
  <2>8. Cardinality(Live') <= MaxPending - 1 + Cardinality(Producers) + Cardinality(Sweepers)
    BY <2>3, <2>4, <2>5, <2>6, <2>7, Sizes, BoundAssumption
  <2> QED BY <2>8, Sizes, BoundAssumption DEF Bounded
<1> QED BY <1>4, <1>5 DEF Bounded

LEMMA SoftStep ==
  ASSUME Operators = {}, SoftInv, [Next]_vars
  PROVE  SoftInv'
<1> USE ProcAssumption
<1>t. TypeOK /\ TypeOK' /\ PhasesOfKind /\ Bounded
  BY TypeStep DEF SoftInv
<1>1. ASSUME NEW p \in Procs, FileStep(p) PROVE PhasesOfKind' /\ Bounded'
  <2>1. PhasesOfKind'
    BY <1>t, <1>1 DEF TypeOK, PhasesOfKind, Working, Entering, FileStep, OpenPending, FlushPending, OpenDead,
       FlushDead, UnlinkPending, UnlinkDead, Goto, AfterWritePending
  <2>2. /\ cur' = cur /\ (\A q \in Procs \ {p} : phase'[q] = phase[q])
        /\ phase'[p] \notin {"send", "openPending"} /\ \A i \in Ids \ {cur[p]} : pending'[i] = pending[i]
        /\ pending[cur[p]] = Absent /\ phase[p] # "openPending" => pending'[cur[p]] = Absent
    <3>1. CASE FlushPending(p)
      BY <1>t, <3>1, FlushPendingFacts DEF TypeOK, FlushPending, Goto, AfterWritePending
    <3>2. CASE ~FlushPending(p)
      BY <1>t, <1>1, <3>2 DEF TypeOK, FileStep, OpenPending, OpenDead,
         FlushDead, UnlinkPending, UnlinkDead, Goto
    <3> QED BY <3>1, <3>2
  <2>3. ASSUME NEW i \in Ids, pending[i] = Absent, ~Coming(i)
        PROVE  pending'[i] = Absent /\ ~Coming(i)'
    BY <2>2, <2>3 DEF Coming
  <2> QED BY <1>t, <2>1, <2>3, NoneMore
<1>2. ASSUME NEW p \in Procs, Crash(p) PROVE PhasesOfKind' /\ Bounded'
  <2>1. PhasesOfKind'
    BY <1>t, <1>2 DEF TypeOK, PhasesOfKind, Working, Entering, Crash, Goto
  <2>2. \A i \in Ids : Coming(i)' => Coming(i)
    BY <1>t, <1>2 DEF TypeOK, Crash, Goto, Coming
  <2> QED BY <1>t, <1>2, <2>1, <2>2, NoneMore DEF Crash
<1>3. ASSUME NEW p \in Producers, EnqueueStep(p) PROVE PhasesOfKind' /\ Bounded'
  <2>1. PhasesOfKind'
    <3>1. /\ phase'[p] \in {"idle"} \cup Entering
          /\ \A q \in Procs \ {p} : phase'[q] = phase[q]
      BY <1>t, <1>3 DEF TypeOK, Entering, EnqueueStep, Enqueue, AdmitEnqueue, RefuseEnqueue, Goto
    <3> QED BY <1>t, <3>1 DEF PhasesOfKind, Procs
  <2>2. CASE AdmitEnqueue(p)
    BY <2>1, <2>2, AdmitKeeps DEF SoftInv
  <2>3. CASE RefuseEnqueue(p) \/ \E i \in Ids, await \in BOOLEAN : Enqueue(p, i, await)
    <3>1. phase'[p] \in {"idle", "check"} /\ \A q \in Procs \ {p} : phase'[q] = phase[q] /\ cur'[q] = cur[q]
      BY <1>t, <2>3 DEF TypeOK, RefuseEnqueue, Enqueue, Goto, Hold
    <3>2. \A i \in Ids : (Coming(i)' => Coming(i)) /\ (pending[i] = Absent => pending'[i] = Absent)
      BY <1>t, <2>3, <3>1 DEF TypeOK, RefuseEnqueue, Enqueue, Coming
    <3> QED BY <1>t, <2>1, <3>2, NoneMore
  <2> QED BY <1>3, <2>2, <2>3 DEF EnqueueStep
<1>4. ASSUME NEW s \in Sweepers, SweepStep(s) PROVE PhasesOfKind' /\ Bounded'
  <2>1. PhasesOfKind'
    BY <1>t, <1>4 DEF TypeOK, PhasesOfKind, Working, Entering, SweepStep, SweepStart, Visit, SweepEnd,
       Throttled, Delivered, FailedRetry, FailedExhausted, Fail, Goto
  <2>2. CASE Visit(s)
    <3>1. PICK i \in todo[s] : IF Eligible(s, pending[i]) THEN Hold(s, i, pending[i]) /\ Goto(s, "send")
                               ELSE UNCHANGED <<phase, cur, mem>>
      BY <2>2 DEF Visit
    <3>2. pending' = pending /\ \A j \in Ids : Coming(j)' => Coming(j) \/ pending[j] # Absent
      BY <1>t, <2>2, <3>1 DEF TypeOK, Visit, Eligible, Readable, Hold, Goto, Coming
    <3> QED BY <1>t, <2>1, <3>2, NoneMore
  <2>3. CASE ~Visit(s)
    <3>1. /\ UNCHANGED <<pending, cur>> /\ \A q \in Procs \ {s} : phase'[q] = phase[q]
          /\ phase'[s] \in {"send", "openPending"} => phase[s] \in {"send", "openPending"}
      BY <1>t, <1>4, <2>3 DEF TypeOK, SweepStep, SweepStart, SweepEnd, Throttled, Delivered, FailedRetry,
         FailedExhausted, Fail, Goto
    <3>2. \A i \in Ids : Coming(i)' => Coming(i)
      BY <3>1 DEF Coming
    <3> QED BY <1>t, <2>1, <3>1, <3>2, NoneMore
  <2> QED BY <2>2, <2>3
<1>5. ASSUME NEW i \in Ids, BackoffElapses(i) \/ AckRemove(i) \/ DropDead(i)
      PROVE  PhasesOfKind' /\ Bounded'
  <2>1. UNCHANGED <<phase, cur>>
    BY <1>5 DEF BackoffElapses, AckRemove, DropDead
  <2>2. \A j \in Ids : (Coming(j)' => Coming(j)) /\ (pending[j] = Absent => pending'[j] = Absent)
    BY <1>t, <1>5, <2>1 DEF TypeOK, BackoffElapses, AckRemove, DropDead, Readable, Coming
  <2> QED BY <1>t, <2>1, <2>2, NoneMore DEF PhasesOfKind
<1>6. ASSUME NEW t \in Timers, NEW i \in Ids, MarkDead(t, i) PROVE PhasesOfKind' /\ Bounded'
  <2>1. PhasesOfKind'
    BY <1>t, <1>6 DEF TypeOK, PhasesOfKind, Working, Entering, MarkDead, Hold, Goto
  <2>2. pending' = pending /\ \A j \in Ids : Coming(j)' => Coming(j)
    BY <1>t, <1>6 DEF TypeOK, MarkDead, Hold, Goto, Coming
  <2> QED BY <1>t, <2>1, <2>2, NoneMore
<1>7. ASSUME UNCHANGED vars PROVE PhasesOfKind' /\ Bounded'
  <2>1. UNCHANGED <<phase, cur, pending>>
    BY <1>7 DEF vars, files, local
  <2> QED BY <1>t, <2>1, NoneMore DEF PhasesOfKind, Coming
<1>8. \/ \E p \in Procs : FileStep(p) \/ Crash(p)
      \/ \E p \in Producers : EnqueueStep(p)
      \/ \E s \in Sweepers : SweepStep(s)
      \/ \E i \in Ids : BackoffElapses(i) \/ AckRemove(i) \/ DropDead(i)
      \/ \E t \in Timers, i \in Ids : MarkDead(t, i)
      \/ UNCHANGED vars
  BY DEF Next
<1>9. PhasesOfKind' /\ Bounded'
  BY <1>1, <1>2, <1>3, <1>4, <1>5, <1>6, <1>7, <1>8
<1> QED BY <1>t, <1>9 DEF SoftInv

(* enqueue's bound holds for any number of threads, sweeps and crashes,    *)
(* redrained queues included, as long as nobody requeues: requeue_dead     *)
(* asks for no room.                                                       *)
THEOREM SoftBoundHolds ==
  ASSUME Operators = {}
  PROVE  Spec => []SoftBound
<1>1. Init => SoftInv
  <2> SUFFICES ASSUME Init PROVE SoftInv
    OBVIOUS
  <2>1. TypeOK /\ PhasesOfKind
    BY TypeInit DEF Init, PhasesOfKind
  <2>2. Live = {}
    BY DEF Init, Live, Coming
  <2>3. Cardinality(Live) = 0
    BY <2>2, FS_EmptySet
  <2>4. Bounded
    BY <2>3, Sizes, BoundAssumption DEF Bounded
  <2> QED BY <2>1, <2>4 DEF SoftInv
<1>2. SoftInv /\ [Next]_vars => SoftInv'
  BY SoftStep
<1>3. SoftInv => SoftBound
  <2> SUFFICES ASSUME SoftInv, MaxPending > 0
      PROVE  PendingCount <= MaxPending + (Cardinality(Producers) - 1) + Cardinality(Sweepers)
    BY DEF SoftBound
  <2>1. {i \in Ids : pending[i] # Absent} \subseteq Live /\ Live \subseteq Ids
    BY DEF Live
  <2>2. PendingCount <= Cardinality(Live) /\ PendingCount \in Nat /\ Cardinality(Live) \in Nat
    BY <2>1, Sizes DEF PendingCount
  <2> QED BY <2>2, Sizes, BoundAssumption DEF SoftInv, Bounded
<1> QED BY <1>1, <1>2, <1>3, PTL DEF Spec

-------------------------------------------------------------------------------
(* One home.  Requeues are allowed here, so the same message may be moved  *)
(* both ways at once: a sweep that rewrites a message which is also in     *)
(* dead/ has an operator at work on it (RewriteIsRequeued).  Timers stay   *)
(* apart from sweeps because all copies of a message agree on whether it   *)
(* waits for an ACK (SameHold).                                            *)

At(p, i)  == phase[p] \notin {"idle", "scan"} /\ cur[p] = i
Moved(i)  == \E p \in Procs : /\ cur[p] = i
                              /\ phase[p] \in {"unlinkPending", "unlinkDead",
                                               "openPending", "flushPending"}

InOneHome(i) == Readable(pending[i]) /\ Readable(dead[i]) => Moved(i)
RewriteIsRequeued(i) ==
  \A s \in Sweepers : /\ cur[s] = i /\ phase[s] \in {"send", "openPending", "flushPending"}
                      /\ Readable(dead[i])
                      => \E o \in Operators : At(o, i)
NewIsNowhere(i) ==
  status[i] # "accepted" => /\ ~Readable(pending[i]) /\ ~Readable(dead[i]) /\ i \notin ackOpen
                            /\ \A p \in Procs \ Producers : ~At(p, i)
EnteredOnce(i) ==
  \A p \in Producers : At(p, i) => /\ status[i] = "entering"
                                   /\ \A q \in Producers : At(q, i) => q = p
HoldIs(i, b) ==
  /\ Readable(pending[i]) => pending[i].await = b
  /\ Readable(dead[i]) => dead[i].await = b
  /\ i \in ackOpen => b
  /\ \A p \in Procs : At(p, i) => mem[p].await = b
  /\ \A t \in Timers : At(t, i) => b
  /\ \A s \in Sweepers : At(s, i) => ~b
SameHold(i) == \E b \in BOOLEAN : HoldIs(i, b)

Settled(i) == /\ InOneHome(i) /\ RewriteIsRequeued(i)
              /\ NewIsNowhere(i) /\ EnteredOnce(i) /\ SameHold(i)
OperatorPhases == \A o \in Operators : phase[o] \in {"idle", "openPending", "flushPending", "unlinkDead"}
OneHomeInv == TypeOK /\ PhasesOfKind /\ OperatorPhases /\ \A i \in Ids \ Redrained : Settled(i)

\* What neither touches the files of a message nor who works on it.
LEMMA Untouched ==
  ASSUME NEW i \in Ids, Settled(i),
         pending'[i] = pending[i], dead'[i] = dead[i], status'[i] = status[i],
         i \in ackOpen' => i \in ackOpen,
         \A p \in Procs : (At(p, i)' <=> At(p, i)) /\ (At(p, i) => phase'[p] = phase[p] /\ mem'[p] = mem[p])
  PROVE  Settled(i)'
<1>1. InOneHome(i)' /\ RewriteIsRequeued(i)'
  BY DEF Settled, InOneHome, RewriteIsRequeued, At, Moved, Readable
<1>2. NewIsNowhere(i)' /\ EnteredOnce(i)'
  BY DEF Settled, NewIsNowhere, EnteredOnce, At, Readable
<1>3. SameHold(i)'
  BY DEF Settled, SameHold, HoldIs, At, Readable
<1> QED BY <1>1, <1>2, <1>3 DEF Settled

\* Who works on a message, after a step of one process alone.
LEMMA OthersWork ==
  ASSUME TypeOK, NEW i \in Ids, NEW p \in Procs, cur'[p] = cur[p], cur[p] # i,
         \A q \in Procs \ {p} : phase'[q] = phase[q] /\ cur'[q] = cur[q] /\ mem'[q] = mem[q]
  PROVE  \A q \in Procs : (At(q, i)' <=> At(q, i)) /\ (At(q, i) => phase'[q] = phase[q] /\ mem'[q] = mem[q])
BY DEF At

LEMMA PhasesStep ==
  ASSUME TypeOK, PhasesOfKind, OperatorPhases, Next
  PROVE  PhasesOfKind' /\ OperatorPhases'
<1> DEFINE Kinds(p) == /\ p \in Sweepers  => phase'[p] \in {"idle", "scan", "unlinkPending"} \cup Working
                       /\ p \in Producers => phase'[p] \in {"idle"} \cup Entering
                       /\ p \in Timers    => phase'[p] \in {"idle", "openDead", "flushDead", "unlinkPending"}
                       /\ p \in Operators => phase'[p] \in {"idle", "openPending", "flushPending", "unlinkDead"}
<1>a. SUFFICES \A p \in Procs : Kinds(p)
  BY DEF PhasesOfKind, OperatorPhases
<1>b. ASSUME NEW p \in Procs, \A q \in Procs \ {p} : phase'[q] = phase[q], Kinds(p)
      PROVE  \A q \in Procs : Kinds(q)
  <2>1. ASSUME NEW q \in Procs, q # p PROVE Kinds(q)
    BY <1>b, <2>1 DEF PhasesOfKind, OperatorPhases
  <2> QED BY <1>b, <2>1
<1> USE ProcAssumption
<1>1. ASSUME NEW p \in Procs, FileStep(p) \/ Crash(p) PROVE \A q \in Procs : Kinds(q)
  <2>1. \A q \in Procs \ {p} : phase'[q] = phase[q]
    BY <1>1 DEF TypeOK, FileStep, OpenPending, FlushPending, OpenDead, FlushDead, UnlinkPending,
       UnlinkDead, Crash, Goto
  <2>2. Kinds(p)
    BY <1>1 DEF TypeOK, PhasesOfKind, OperatorPhases, Working, Entering, FileStep, OpenPending,
       FlushPending, OpenDead, FlushDead, UnlinkPending, UnlinkDead, Crash, Goto, AfterWritePending
  <2> HIDE DEF Kinds
  <2> QED BY <1>b, <2>1, <2>2
<1>2. ASSUME NEW p \in Producers, EnqueueStep(p) PROVE \A q \in Procs : Kinds(q)
  <2>1. \A q \in Procs \ {p} : phase'[q] = phase[q]
    BY <1>2 DEF TypeOK, EnqueueStep, Enqueue, AdmitEnqueue, RefuseEnqueue, Goto
  <2>2. Kinds(p)
    BY <1>2 DEF TypeOK, PhasesOfKind, Entering, EnqueueStep, Enqueue, AdmitEnqueue, RefuseEnqueue, Goto
  <2> HIDE DEF Kinds
  <2> QED BY <1>b, <2>1, <2>2
<1>3. ASSUME NEW s \in Sweepers, SweepStep(s) PROVE \A q \in Procs : Kinds(q)
  <2>1. \A q \in Procs \ {s} : phase'[q] = phase[q]
    BY <1>3 DEF TypeOK, SweepStep, SweepStart, Visit, SweepEnd, Throttled, Delivered, FailedRetry,
       FailedExhausted, Goto
  <2>2. Kinds(s)
    BY <1>3 DEF TypeOK, PhasesOfKind, Working, SweepStep, SweepStart, Visit, SweepEnd, Throttled,
       Delivered, FailedRetry, FailedExhausted, Goto
  <2> HIDE DEF Kinds
  <2> QED BY <1>b, <2>1, <2>2
<1>4. ASSUME NEW i \in Ids, BackoffElapses(i) \/ AckRemove(i) \/ DropDead(i)
      PROVE  \A q \in Procs : Kinds(q)
  BY <1>4 DEF BackoffElapses, AckRemove, DropDead, PhasesOfKind, OperatorPhases
<1>5. ASSUME NEW t \in Timers, NEW i \in Ids, MarkDead(t, i) PROVE \A q \in Procs : Kinds(q)
  <2>1. (\A q \in Procs \ {t} : phase'[q] = phase[q]) /\ Kinds(t)
    BY <1>5 DEF TypeOK, PhasesOfKind, MarkDead, Goto
  <2> HIDE DEF Kinds
  <2> QED BY <1>b, <2>1
<1>6. ASSUME NEW o \in Operators, NEW i \in Ids, RequeueDead(o, i) PROVE \A q \in Procs : Kinds(q)
  <2>1. (\A q \in Procs \ {o} : phase'[q] = phase[q]) /\ Kinds(o)
    BY <1>6 DEF TypeOK, RequeueDead, Goto
  <2> HIDE DEF Kinds
  <2> QED BY <1>b, <2>1
<1> HIDE DEF Kinds
<1> QED BY <1>1, <1>2, <1>3, <1>4, <1>5, <1>6 DEF Next

\* Without a crash, and with one sweep at a time, every step keeps a message settled.
LEMMA FileKeepsHome ==
  ASSUME TypeOK, PhasesOfKind, OperatorPhases, NEW i \in Ids \ Redrained, Settled(i),
         \A s, t \in Sweepers : s = t, NEW p \in Procs, FileStep(p)
  PROVE  Settled(i)'
<1> USE ProcAssumption
<1>1. /\ cur' = cur /\ mem' = mem /\ \A q \in Procs \ {p} : phase'[q] = phase[q]
      /\ \A j \in Ids \ {cur[p]} : pending'[j] = pending[j] /\ dead'[j] = dead[j] /\ status'[j] = status[j]
      /\ ackOpen' \subseteq ackOpen \cup {cur[p]}
      /\ cur[p] \in Ids /\ phase[p] \notin {"idle", "scan"}
  BY DEF TypeOK, FileStep, OpenPending, FlushPending, OpenDead, FlushDead, UnlinkPending, UnlinkDead, Goto
<1>2. CASE cur[p] # i
  <2>1. \A q \in Procs : (At(q, i)' <=> At(q, i)) /\ (At(q, i) => phase'[q] = phase[q] /\ mem'[q] = mem[q])
    BY <1>1, <1>2, OthersWork
  <2> QED BY <1>1, <1>2, <2>1, Untouched
<1>3. CASE cur[p] = i
  <2>0. i \in Ids /\ i \notin Redrained /\ At(p, i) /\ phase \in [Procs -> Phases]
        /\ \A q \in Procs \ {p} : At(q, i)' <=> At(q, i)
    BY <1>1, <1>3 DEF At, TypeOK
  <2>1. CASE OpenPending(p)
    <3>1. /\ phase'[p] = "flushPending" /\ phase[p] = "openPending" /\ pending'[i] = Torn
          /\ UNCHANGED <<dead, status, ackOpen>>
      BY <2>0, <2>1, <1>3 DEF OpenPending, Goto, TypeOK
    <3>2. InOneHome(i)' /\ RewriteIsRequeued(i)'
      BY <1>1, <1>3, <2>0, <3>1 DEF InOneHome, Settled, RewriteIsRequeued, At, Readable
    <3>3. NewIsNowhere(i)' /\ EnteredOnce(i)'
      BY <1>1, <1>3, <2>0, <3>1 DEF Settled, NewIsNowhere, EnteredOnce, At, Readable
    <3>4. SameHold(i)'
      BY <1>1, <1>3, <2>0, <3>1 DEF Settled, SameHold, HoldIs, At, Readable
    <3> QED BY <3>2, <3>3, <3>4 DEF Settled
  <2>2. CASE FlushPending(p)
    <3>1. /\ phase[p] = "flushPending" /\ phase'[p] = AfterWritePending(p) /\ dead' = dead
          /\ pending'[i] \in {pending[i], mem[p], Garbled}
          /\ status'[i] = IF p \in Producers THEN "accepted" ELSE status[i]
          /\ i \in ackOpen' => i \in ackOpen \/ (p \in Producers /\ mem[p].await)
      BY <2>0, <2>2, <1>3, FlushPendingFacts DEF FlushPending, Goto, TypeOK
    <3>2. CASE p \in Producers
      <4>1. phase'[p] = "idle" /\ status[i] = "entering"
        BY <3>1, <3>2, <2>0 DEF AfterWritePending, Settled, EnteredOnce
      <4>2. InOneHome(i)' /\ RewriteIsRequeued(i)' /\ NewIsNowhere(i)' /\ EnteredOnce(i)'
        BY <1>1, <1>3, <2>0, <3>1, <3>2, <4>1 DEF Settled, InOneHome, RewriteIsRequeued, NewIsNowhere,
           EnteredOnce, At, Readable
      <4>3. SameHold(i)'
        BY <1>1, <1>3, <2>0, <3>1, <3>2, <4>1 DEF Settled, SameHold, HoldIs, At, Readable
      <4> QED BY <4>2, <4>3 DEF Settled
    <3>3. CASE p \in Sweepers
      <4>1. phase'[p] = "scan" /\ (Readable(dead[i]) => \E o \in Operators : At(o, i))
            /\ status[i] = "accepted"
        BY <1>3, <2>0, <3>1, <3>3 DEF AfterWritePending, Settled, RewriteIsRequeued, NewIsNowhere
      <4>2. Readable(dead[i]) => \E o \in Operators \ {p} : At(o, i)
        BY <3>3, <4>1
      <4>3. InOneHome(i)'
        BY <1>1, <2>0, <3>1, <4>2 DEF InOneHome, Moved, At, OperatorPhases
      <4>4. RewriteIsRequeued(i)' /\ NewIsNowhere(i)' /\ EnteredOnce(i)'
        BY <1>1, <1>3, <2>0, <3>1, <3>3, <4>1, <4>2 DEF Settled, RewriteIsRequeued, NewIsNowhere,
           EnteredOnce, At, Readable
      <4>5. SameHold(i)'
        BY <1>1, <1>3, <2>0, <3>1, <3>3, <4>1 DEF Settled, SameHold, HoldIs, At, Readable
      <4> QED BY <4>3, <4>4, <4>5 DEF Settled
    <3>4. CASE p \in Operators
      <4>1. phase'[p] = "unlinkDead" /\ status[i] = "accepted"
        BY <2>0, <3>1, <3>4 DEF AfterWritePending, Settled, NewIsNowhere
      <4>2. InOneHome(i)'
        BY <1>1, <1>3, <4>1 DEF InOneHome, Moved
      <4>3. RewriteIsRequeued(i)' /\ NewIsNowhere(i)' /\ EnteredOnce(i)'
        BY <1>1, <1>3, <2>0, <3>1, <3>4, <4>1 DEF Settled, RewriteIsRequeued, NewIsNowhere,
           EnteredOnce, At, Readable
      <4>4. SameHold(i)'
        BY <1>1, <1>3, <2>0, <3>1, <3>4, <4>1 DEF Settled, SameHold, HoldIs, At, Readable
      <4> QED BY <4>2, <4>3, <4>4 DEF Settled
    <3>5. p \notin Timers
      BY <3>1 DEF PhasesOfKind
    <3> QED BY <3>2, <3>3, <3>4, <3>5
  <2>3. CASE OpenDead(p)
    <3>1. /\ phase'[p] = "flushDead" /\ phase[p] = "openDead" /\ dead'[i] = Torn
          /\ UNCHANGED <<pending, status, ackOpen>>
      BY <2>0, <2>3, <1>3 DEF OpenDead, Goto, TypeOK
    <3>2. InOneHome(i)' /\ RewriteIsRequeued(i)'
      BY <1>1, <1>3, <2>0, <3>1 DEF InOneHome, Settled, RewriteIsRequeued, At, Readable
    <3>3. NewIsNowhere(i)' /\ EnteredOnce(i)'
      BY <1>1, <1>3, <2>0, <3>1 DEF Settled, NewIsNowhere, EnteredOnce, At, Readable
    <3>4. SameHold(i)'
      BY <1>1, <1>3, <2>0, <3>1 DEF Settled, SameHold, HoldIs, At, Readable
    <3> QED BY <3>2, <3>3, <3>4 DEF Settled
  <2>4. CASE FlushDead(p)
    <3>1. /\ phase'[p] = "unlinkPending" /\ phase[p] = "flushDead" /\ dead'[i] \in {dead[i], mem[p], Garbled}
          /\ UNCHANGED <<pending, status, ackOpen>>
      BY <2>0, <2>4, <1>3, FlushDeadFacts DEF FlushDead, Goto, TypeOK
    <3>2. InOneHome(i)'
      BY <1>1, <1>3, <3>1 DEF InOneHome, Moved
    <3>3. p \in Sweepers \cup Timers /\ status[i] = "accepted"
      BY <2>0, <3>1 DEF PhasesOfKind, OperatorPhases, Entering, Settled, NewIsNowhere
    <3>4. RewriteIsRequeued(i)'
      <4> SUFFICES ASSUME NEW s \in Sweepers, cur[s] = i, phase'[s] \in {"send", "openPending", "flushPending"}
                   PROVE  FALSE
        BY <1>1 DEF RewriteIsRequeued
      <4>1. s # p /\ phase'[s] = phase[s] /\ p \notin Sweepers
        BY <1>1, <3>1
      <4>2. At(s, i) /\ p \in Timers
        BY <3>3, <4>1 DEF At
      <4> QED BY <2>0, <4>2 DEF Settled, SameHold, HoldIs
    <3>5. NewIsNowhere(i)' /\ EnteredOnce(i)'
      BY <1>1, <1>3, <2>0, <3>1, <3>3 DEF Settled, NewIsNowhere, EnteredOnce, At, Readable
    <3>6. SameHold(i)'
      BY <1>1, <1>3, <2>0, <3>1 DEF Settled, SameHold, HoldIs, At, Readable
    <3> QED BY <3>2, <3>4, <3>5, <3>6 DEF Settled
  <2>5. CASE UnlinkPending(p)
    <3>1. /\ phase'[p] \in {"scan", "idle"} /\ phase[p] = "unlinkPending" /\ pending'[i] = Absent
          /\ UNCHANGED <<dead, status, ackOpen>>
      BY <2>0, <2>5, <1>3 DEF UnlinkPending, Goto, TypeOK
    <3>2. InOneHome(i)' /\ RewriteIsRequeued(i)'
      BY <1>1, <1>3, <2>0, <3>1 DEF PhasesOfKind, OperatorPhases, InOneHome, Settled, RewriteIsRequeued, At, Readable
    <3>3. NewIsNowhere(i)' /\ EnteredOnce(i)'
      BY <1>1, <1>3, <2>0, <3>1 DEF Settled, NewIsNowhere, EnteredOnce, At, Readable
    <3>4. SameHold(i)'
      BY <1>1, <1>3, <2>0, <3>1 DEF Settled, SameHold, HoldIs, At, Readable
    <3> QED BY <3>2, <3>3, <3>4 DEF Settled
  <2>6. CASE UnlinkDead(p)
    <3>1. /\ phase'[p] = "idle" /\ phase[p] = "unlinkDead" /\ dead'[i] = Absent
          /\ UNCHANGED <<pending, status, ackOpen>>
      BY <2>0, <2>6, <1>3 DEF UnlinkDead, Goto, TypeOK
    <3>2. InOneHome(i)' /\ RewriteIsRequeued(i)'
      BY <1>1, <1>3, <2>0, <3>1 DEF InOneHome, Settled, RewriteIsRequeued, At, Readable
    <3>3. NewIsNowhere(i)' /\ EnteredOnce(i)'
      BY <1>1, <1>3, <2>0, <3>1 DEF Settled, NewIsNowhere, EnteredOnce, At, Readable
    <3>4. SameHold(i)'
      BY <1>1, <1>3, <2>0, <3>1 DEF Settled, SameHold, HoldIs, At, Readable
    <3> QED BY <3>2, <3>3, <3>4 DEF Settled
  <2> QED BY <2>1, <2>2, <2>3, <2>4, <2>5, <2>6 DEF FileStep
<1> QED BY <1>2, <1>3

LEMMA EnqueueKeepsHome ==
  ASSUME TypeOK, PhasesOfKind, NEW i \in Ids \ Redrained, Settled(i), NEW p \in Producers, EnqueueStep(p)
  PROVE  Settled(i)'
<1> USE ProcAssumption
<1>0. i \in Ids /\ i \notin Redrained /\ phase \in [Procs -> Phases] /\ p \in Procs
  BY DEF TypeOK
<1>1. CASE AdmitEnqueue(p) \/ RefuseEnqueue(p)
  <2>1. /\ UNCHANGED <<pending, dead, cur, mem, ackOpen>> /\ \A q \in Procs \ {p} : phase'[q] = phase[q]
        /\ phase[p] = "check" /\ phase'[p] \in {"openPending", "idle"}
        /\ phase'[p] = "openPending" => status' = status
        /\ \A j \in Ids : status'[j] = status[j] \/ (j = cur[p] /\ status[j] = "entering" /\ status'[j] = "refused")
    BY <1>0, <1>1 DEF AdmitEnqueue, RefuseEnqueue, Goto, TypeOK
  <2>2. CASE cur[p] # i
    <3>1. \A q \in Procs : (At(q, i)' <=> At(q, i)) /\ (At(q, i) => phase'[q] = phase[q] /\ mem'[q] = mem[q])
      BY <1>0, <2>1, <2>2, OthersWork
    <3> QED BY <1>0, <2>1, <2>2, <3>1, Untouched
  <2>3. CASE cur[p] = i
    <3>1. At(p, i) /\ status[i] = "entering" /\ \A q \in Procs \ {p} : At(q, i)' <=> At(q, i)
      BY <1>0, <2>1, <2>3 DEF At, Settled, EnteredOnce
    <3>2. InOneHome(i)' /\ RewriteIsRequeued(i)' /\ NewIsNowhere(i)' /\ EnteredOnce(i)'
      BY <1>0, <2>1, <2>3, <3>1 DEF Settled, InOneHome, RewriteIsRequeued, NewIsNowhere, EnteredOnce, At, Readable
    <3>3. SameHold(i)'
      BY <1>0, <2>1, <2>3, <3>1 DEF Settled, SameHold, HoldIs, At, Readable
    <3> QED BY <3>2, <3>3 DEF Settled
  <2> QED BY <2>2, <2>3
<1>2. ASSUME NEW j \in Ids, NEW await \in BOOLEAN, Enqueue(p, j, await) PROVE Settled(i)'
  <2> DEFINE e == [att |-> 1, due |-> FALSE, await |-> await]
  <2>1. /\ phase[p] = "idle" /\ (status[j] = "new" \/ j \in Redrained)
        /\ cur' = [cur EXCEPT ![p] = j] /\ mem' = [mem EXCEPT ![p] = e]
        /\ phase'[p] = "check" /\ \A q \in Procs \ {p} : phase'[q] = phase[q]
        /\ UNCHANGED <<dead, ackOpen>>
        /\ status'[j] = (IF status[j] = "new" THEN "entering" ELSE status[j])
        /\ \A k \in Ids \ {j} : status'[k] = status[k]
        /\ pending'[i] \in {pending[i], Absent}
    BY <1>0, <1>2 DEF Enqueue, Hold, Goto, TypeOK
  <2>2. /\ cur'[p] = j /\ mem'[p].await = await
        /\ \A q \in Procs \ {p} : cur'[q] = cur[q] /\ mem'[q] = mem[q]
    BY <1>0, <2>1 DEF TypeOK
  <2> HIDE DEF e
  <2>3. ~At(p, i) /\ \A q \in Procs \ {p} : At(q, i)' <=> At(q, i)
    BY <2>1, <2>2 DEF At
  <2>4. CASE j # i
    <3>1. ~At(p, i)' /\ status'[i] = status[i]
      BY <1>0, <2>1, <2>2, <2>4 DEF At
    <3>2. InOneHome(i)' /\ RewriteIsRequeued(i)'
      BY <1>0, <2>1, <2>2, <2>3, <3>1 DEF Settled, InOneHome, RewriteIsRequeued, At, Moved, Readable
    <3>3. NewIsNowhere(i)' /\ EnteredOnce(i)'
      BY <1>0, <2>1, <2>2, <2>3, <3>1 DEF Settled, NewIsNowhere, EnteredOnce, Readable
    <3>4. SameHold(i)'
      BY <1>0, <2>1, <2>2, <2>3, <3>1 DEF Settled, SameHold, HoldIs, Readable
    <3> QED BY <3>2, <3>3, <3>4 DEF Settled
  <2>5. CASE j = i
    <3>1. /\ status[i] = "new" /\ status'[i] = "entering" /\ At(p, i)'
          /\ ~Readable(pending[i]) /\ ~Readable(pending'[i]) /\ ~Readable(dead[i]) /\ i \notin ackOpen
          /\ \A q \in Procs : ~At(q, i)
      BY <1>0, <2>1, <2>2, <2>3, <2>5 DEF At, Settled, NewIsNowhere, EnteredOnce, Readable
    <3>2. \A q \in Procs \ {p} : ~At(q, i)'
      BY <2>3, <3>1
    <3>3. p \notin Timers /\ p \notin Sweepers
      OBVIOUS
    <3>4. InOneHome(i)' /\ RewriteIsRequeued(i)'
      BY <2>1, <3>1 DEF InOneHome, RewriteIsRequeued, Readable
    <3>5. NewIsNowhere(i)' /\ EnteredOnce(i)'
      BY <1>0, <2>1, <3>1, <3>2, <3>3 DEF NewIsNowhere, EnteredOnce
    <3>6. HoldIs(i, await)'
      BY <1>0, <2>1, <2>2, <3>1, <3>2, <3>3 DEF HoldIs
    <3> QED BY <3>4, <3>5, <3>6 DEF Settled, SameHold
  <2> QED BY <2>4, <2>5
<1> QED BY <1>1, <1>2 DEF EnqueueStep

LEMMA SweepKeepsHome ==
  ASSUME TypeOK, PhasesOfKind, OperatorPhases, NEW i \in Ids \ Redrained, Settled(i),
         \A s, t \in Sweepers : s = t, NEW s \in Sweepers, SweepStep(s)
  PROVE  Settled(i)'
<1> USE ProcAssumption
<1>0. i \in Ids /\ i \notin Redrained /\ phase \in [Procs -> Phases] /\ s \in Procs
      /\ UNCHANGED <<pending, dead, status, ackOpen>> /\ \A q \in Procs \ {s} : phase'[q] = phase[q]
  BY DEF TypeOK, SweepStep, SweepStart, Visit, SweepEnd, Throttled, Delivered, FailedRetry,
     FailedExhausted, Fail, Goto
<1>1. CASE Visit(s)
  <2>1. PICK j \in todo[s] : IF Eligible(s, pending[j]) THEN Hold(s, j, pending[j]) /\ Goto(s, "send")
                             ELSE UNCHANGED <<phase, cur, mem>>
    BY <1>1 DEF Visit
  <2>2. phase[s] = "scan" /\ j \in Ids
    BY <1>1 DEF Visit, TypeOK
  <2>3. CASE ~Eligible(s, pending[j])
    <3>1. UNCHANGED <<phase, cur, mem>>
      BY <2>1, <2>3
    <3> QED BY <1>0, <3>1, Untouched DEF At
  <2>4. CASE Eligible(s, pending[j])
    <3>1. /\ phase'[s] = "send" /\ cur'[s] = j /\ mem'[s] = pending[j]
          /\ \A q \in Procs \ {s} : cur'[q] = cur[q] /\ mem'[q] = mem[q]
          /\ Readable(pending[j]) /\ ~pending[j].await
      BY <1>0, <2>1, <2>4 DEF Hold, Goto, Eligible, TypeOK
    <3>2. ~At(s, i) /\ \A q \in Procs \ {s} : At(q, i)' <=> At(q, i)
      BY <1>0, <2>2, <3>1 DEF At
    <3>3. CASE j # i
      <4>1. ~At(s, i)'
        BY <3>1, <3>3 DEF At
      <4> QED BY <1>0, <3>1, <3>2, <4>1, Untouched DEF At
    <3>4. CASE j = i
      <4>1. PICK b \in BOOLEAN : HoldIs(i, b)
        BY DEF Settled, SameHold
      <4>2. ~b /\ status[i] = "accepted" /\ At(s, i)'
        BY <3>1, <3>4, <4>1 DEF HoldIs, Settled, NewIsNowhere, At
      <4>3. HoldIs(i, b)'
        BY <1>0, <3>1, <3>2, <3>4, <4>1, <4>2 DEF HoldIs
      <4>4. \A t \in Timers : ~At(t, i)
        BY <4>1, <4>2 DEF HoldIs
      <4>5. \A p \in Producers : ~At(p, i)
        BY <4>2 DEF Settled, EnteredOnce
      <4>6. Readable(dead[i]) => \E o \in Operators : At(o, i)
        <5> SUFFICES ASSUME Readable(dead[i]) PROVE \E o \in Operators : At(o, i)
          OBVIOUS
        <5>1. PICK p \in Procs : cur[p] = i /\ phase[p] \in {"unlinkPending", "unlinkDead", "openPending", "flushPending"}
          BY <3>1, <3>4 DEF Settled, InOneHome, Moved
        <5>2. At(p, i) /\ p # s
          BY <2>2, <5>1 DEF At
        <5> QED BY <4>4, <4>5, <5>2
      <4>7. InOneHome(i)'
        BY <1>0, <3>1, <3>2, <2>2 DEF Settled, InOneHome, Moved
      <4>8. RewriteIsRequeued(i)'
        BY <1>0, <3>2, <4>6 DEF RewriteIsRequeued
      <4>9. NewIsNowhere(i)' /\ EnteredOnce(i)'
        BY <1>0, <3>2, <4>2, <4>5 DEF NewIsNowhere, EnteredOnce
      <4> QED BY <4>3, <4>7, <4>8, <4>9 DEF Settled, SameHold
    <3> QED BY <3>3, <3>4
  <2> QED BY <2>3, <2>4
<1>2. CASE SweepStart(s) \/ SweepEnd(s)
  <2>1. cur' = cur /\ mem' = mem /\ {phase[s], phase'[s]} \subseteq {"idle", "scan"}
    BY <1>0, <1>2 DEF SweepStart, SweepEnd, Goto
  <2>2. \A q \in Procs : (At(q, i)' <=> At(q, i)) /\ (At(q, i) => phase'[q] = phase[q] /\ mem'[q] = mem[q])
    BY <1>0, <2>1 DEF At
  <2> QED BY <1>0, <2>2, Untouched
<1>3. CASE Throttled(s) \/ Delivered(s) \/ FailedRetry(s) \/ FailedExhausted(s)
  <2>1. /\ cur' = cur /\ \A q \in Procs \ {s} : mem'[q] = mem[q]
        /\ phase[s] = "send" /\ phase'[s] \in {"scan", "unlinkPending", "openPending", "openDead"}
        /\ mem'[s].await = mem[s].await
    BY <1>0, <1>3 DEF Throttled, Delivered, FailedRetry, FailedExhausted, Fail, Goto, TypeOK, Entry
  <2>2. CASE cur[s] # i
    <3>1. \A q \in Procs : (At(q, i)' <=> At(q, i)) /\ (At(q, i) => phase'[q] = phase[q] /\ mem'[q] = mem[q])
      BY <1>0, <2>1, <2>2, OthersWork
    <3> QED BY <1>0, <2>1, <3>1, Untouched
  <2>3. CASE cur[s] = i
    <3>1. At(s, i) /\ \A q \in Procs \ {s} : At(q, i)' <=> At(q, i)
      BY <1>0, <2>1, <2>3 DEF At
    <3>2. InOneHome(i)'
      BY <1>0, <2>1, <2>3 DEF Settled, InOneHome, Moved
    <3>3. RewriteIsRequeued(i)'
      BY <1>0, <2>1, <2>3, <3>1 DEF Settled, RewriteIsRequeued
    <3>4. NewIsNowhere(i)' /\ EnteredOnce(i)'
      BY <1>0, <2>1, <2>3, <3>1 DEF Settled, NewIsNowhere, EnteredOnce
    <3>5. SameHold(i)'
      BY <1>0, <2>1, <2>3, <3>1 DEF Settled, SameHold, HoldIs
    <3> QED BY <3>2, <3>3, <3>4, <3>5 DEF Settled
  <2> QED BY <2>2, <2>3
<1> QED BY <1>1, <1>2, <1>3 DEF SweepStep

LEMMA RewritesKeepAwait ==
  \A e \in Entry : /\ [e EXCEPT !.due = TRUE].await = e.await
                   /\ [e EXCEPT !.att = 0, !.due = TRUE].await = e.await
BY DEF Entry

LEMMA SettledStep ==
  ASSUME TypeOK, PhasesOfKind, OperatorPhases, NEW i \in Ids \ Redrained, Settled(i),
         MaxCrashes = 0, \A s, t \in Sweepers : s = t, [Next]_vars
  PROVE  Settled(i)'
<1> USE ProcAssumption
<1>0. i \in Ids /\ i \notin Redrained /\ phase \in [Procs -> Phases]
  BY DEF TypeOK
<1>1. ASSUME NEW p \in Procs, FileStep(p) PROVE Settled(i)'
  BY <1>1, FileKeepsHome
<1>2. ASSUME NEW p \in Procs, Crash(p) PROVE Settled(i)'
  BY <1>2 DEF Crash, TypeOK
<1>3. ASSUME NEW p \in Producers, EnqueueStep(p) PROVE Settled(i)'
  BY <1>3, EnqueueKeepsHome
<1>4. ASSUME NEW s \in Sweepers, SweepStep(s) PROVE Settled(i)'
  BY <1>4, SweepKeepsHome
<1>5. ASSUME NEW j \in Ids, BackoffElapses(j) \/ AckRemove(j) \/ DropDead(j) PROVE Settled(i)'
  <2>1. /\ UNCHANGED <<phase, cur, mem, status>> /\ ackOpen' \subseteq ackOpen
        /\ Readable(pending[i])' => Readable(pending[i]) /\ pending'[i].await = pending[i].await
        /\ Readable(dead[i])' => Readable(dead[i]) /\ dead'[i].await = dead[i].await
    <3>1. CASE BackoffElapses(j)
      <4>1. CASE j = i
        <5>1. /\ Readable(pending[i]) /\ pending[i] \in Entry
              /\ pending'[i] = [pending[i] EXCEPT !.due = TRUE]
              /\ UNCHANGED <<dead, phase, cur, mem, status, ackOpen>>
          BY <1>0, <3>1, <4>1, EntryFacts DEF BackoffElapses, TypeOK
        <5> QED BY <5>1, RewritesKeepAwait
      <4>2. CASE j # i
        BY <1>0, <3>1, <4>2 DEF BackoffElapses, Readable, TypeOK
      <4> QED BY <4>1, <4>2
    <3>2. CASE AckRemove(j) \/ DropDead(j)
      BY <1>0, <1>5, <3>2 DEF AckRemove, DropDead, Readable, TypeOK
    <3> QED BY <1>5, <3>1, <3>2
  <2>2. InOneHome(i)' /\ RewriteIsRequeued(i)'
    BY <2>1 DEF Settled, InOneHome, Moved, RewriteIsRequeued, At
  <2>3. NewIsNowhere(i)' /\ EnteredOnce(i)'
    BY <2>1 DEF Settled, NewIsNowhere, EnteredOnce, At
  <2>4. SameHold(i)'
    BY <2>1 DEF Settled, SameHold, HoldIs, At
  <2> QED BY <2>2, <2>3, <2>4 DEF Settled
<1>6. ASSUME NEW t \in Timers, NEW j \in Ids, MarkDead(t, j) PROVE Settled(i)'
  <2>1. /\ UNCHANGED <<pending, dead, status>> /\ ackOpen' \subseteq ackOpen
        /\ phase[t] = "idle" /\ j \in ackOpen
        /\ \A q \in Procs \ {t} : phase'[q] = phase[q] /\ cur'[q] = cur[q] /\ mem'[q] = mem[q]
        /\ \/ UNCHANGED <<phase, cur, mem>>
           \/ phase'[t] = "openDead" /\ cur'[t] = j /\ Readable(pending[j]) /\ mem'[t] = pending[j]
    BY <1>0, <1>6 DEF MarkDead, Hold, Goto, TypeOK
  <2>2. ~At(t, i) /\ \A q \in Procs \ {t} : At(q, i)' <=> At(q, i)
    BY <2>1 DEF At
  <2>3. CASE ~At(t, i)'
    BY <1>0, <2>1, <2>2, <2>3, Untouched DEF At
  <2>4. CASE At(t, i)'
    <3>1. j = i /\ phase'[t] = "openDead" /\ Readable(pending[i]) /\ mem'[t] = pending[i] /\ status[i] = "accepted"
      BY <2>1, <2>2, <2>4 DEF At, Settled, NewIsNowhere
    <3>2. InOneHome(i)' /\ RewriteIsRequeued(i)'
      BY <1>0, <2>1, <2>2 DEF Settled, InOneHome, Moved, RewriteIsRequeued, At
    <3>3. NewIsNowhere(i)' /\ EnteredOnce(i)'
      BY <1>0, <2>1, <2>2, <3>1 DEF Settled, NewIsNowhere, EnteredOnce
    <3>4. SameHold(i)'
      BY <1>0, <2>1, <2>2, <3>1 DEF Settled, SameHold, HoldIs
    <3> QED BY <3>2, <3>3, <3>4 DEF Settled
  <2> QED BY <2>3, <2>4
<1>7. ASSUME NEW o \in Operators, NEW j \in Ids, RequeueDead(o, j) PROVE Settled(i)'
  <2>1. /\ UNCHANGED <<pending, dead, status, ackOpen>>
        /\ phase[o] = "idle" /\ Readable(dead[j])
        /\ \A q \in Procs \ {o} : phase'[q] = phase[q] /\ cur'[q] = cur[q] /\ mem'[q] = mem[q]
        /\ phase'[o] = "openPending" /\ cur'[o] = j /\ mem'[o].await = dead[j].await
    <3>1. dead[j] \in Entry /\ mem'[o] = [dead[j] EXCEPT !.att = 0, !.due = TRUE]
      BY <1>0, <1>7, EntryFacts DEF RequeueDead, Hold, TypeOK
    <3> QED BY <1>0, <1>7, <3>1, RewritesKeepAwait DEF RequeueDead, Hold, Goto, TypeOK
  <2>2. ~At(o, i) /\ \A q \in Procs \ {o} : At(q, i)' <=> At(q, i)
    BY <2>1 DEF At
  <2>3. CASE j # i
    <3>1. ~At(o, i)'
      BY <2>1, <2>3 DEF At
    <3> QED BY <1>0, <2>1, <2>2, <3>1, Untouched DEF At
  <2>4. CASE j = i
    <3>1. At(o, i)' /\ status[i] = "accepted"
      BY <2>1, <2>4 DEF At, Settled, NewIsNowhere
    <3>2. InOneHome(i)' /\ RewriteIsRequeued(i)'
      BY <1>0, <2>1, <2>2, <2>4, <3>1 DEF Settled, InOneHome, Moved, RewriteIsRequeued
    <3>3. NewIsNowhere(i)' /\ EnteredOnce(i)'
      BY <1>0, <2>1, <2>2, <3>1 DEF Settled, NewIsNowhere, EnteredOnce
    <3>4. SameHold(i)'
      BY <1>0, <2>1, <2>2, <2>4, <3>1 DEF Settled, SameHold, HoldIs
    <3> QED BY <3>2, <3>3, <3>4 DEF Settled
  <2> QED BY <2>3, <2>4
<1>8. ASSUME UNCHANGED vars PROVE Settled(i)'
  BY <1>8, Untouched DEF At
<1> QED BY <1>1, <1>2, <1>3, <1>4, <1>5, <1>6, <1>7, <1>8 DEF Next

(* While one sweep runs at a time and nobody crashes, a message is never   *)
(* left in both pending/ and dead/: whatever requeues, ACK timeouts, new   *)
(* enqueues and the sweep interleave, some process is still half-way       *)
(* through moving it.  With two sweeps it is not so: a stale rewrite can   *)
(* put back a file that the other sweep has just set aside.                *)
THEOREM HomesAreSingle ==
  ASSUME MaxCrashes = 0, \A s, t \in Sweepers : s = t
  PROVE  Spec => []OneHome
<1>1. Init => OneHomeInv
  <2> SUFFICES ASSUME Init PROVE OneHomeInv
    OBVIOUS
  <2>1. TypeOK /\ PhasesOfKind /\ OperatorPhases
    BY TypeInit DEF Init, PhasesOfKind, OperatorPhases
  <2>2. ASSUME NEW i \in Ids \ Redrained PROVE Settled(i)
    <3>1. ~Readable(pending[i]) /\ ~Readable(dead[i]) /\ i \notin ackOpen /\ \A p \in Procs : ~At(p, i)
      BY DEF Init, Readable, At
    <3>2. HoldIs(i, TRUE)
      BY <3>1 DEF HoldIs
    <3> QED BY <2>1, <3>1, <3>2 DEF Settled, InOneHome, RewriteIsRequeued, NewIsNowhere, EnteredOnce, SameHold, At
  <2> QED BY <2>1, <2>2 DEF OneHomeInv
<1>2. OneHomeInv /\ [Next]_vars => OneHomeInv'
  <2> SUFFICES ASSUME OneHomeInv, [Next]_vars PROVE OneHomeInv'
    OBVIOUS
  <2>1. TypeOK' /\ \A i \in Ids \ Redrained : Settled(i)'
    BY TypeStep, SettledStep DEF OneHomeInv
  <2>2. CASE Next
    BY <2>1, <2>2, PhasesStep DEF OneHomeInv
  <2>3. CASE UNCHANGED vars
    BY <2>1, <2>3 DEF OneHomeInv, PhasesOfKind, OperatorPhases
  <2> QED BY <2>2, <2>3
<1>3. OneHomeInv => OneHome
  BY DEF OneHomeInv, OneHome, Settled, InOneHome, Moved
<1> QED BY <1>1, <1>2, <1>3, PTL DEF Spec

-------------------------------------------------------------------------------
(* The refinement mapping.  A step moves one message, the one its process  *)
(* works on, or resolves the superseded ones.                              *)

Held == [i \in Ids |-> StatusOf(i)]

\* An accepted message is held or dead until it is resolved or spoiled, never lost.
Kept(i) ==
  /\ i \in done => StatusOf(i) = "resolved"
  /\ i \in garbled \ done => StatusOf(i) = "spoiled"
  /\ i \notin done \cup garbled /\ status[i] # "accepted" => StatusOf(i) = "none"
  /\ i \notin done \cup garbled /\ status[i] = "accepted" => StatusOf(i) \in {"held", "dead"}
  /\ i \notin done \cup garbled /\ status[i] = "accepted" /\ Readable(pending[i]) => StatusOf(i) = "held"

LEMMA NeverLost == HomeInv => \A i \in Ids : Kept(i)
<1> SUFFICES ASSUME HomeInv, NEW i \in Ids PROVE Kept(i)
  OBVIOUS
<1>1. CASE i \in done
  BY <1>1 DEF StatusOf, Kept
<1>2. CASE i \in garbled \ done
  BY <1>2 DEF StatusOf, Kept
<1>3. CASE i \notin done \cup garbled /\ status[i] # "accepted"
  BY <1>3 DEF StatusOf, Kept
<1>4. CASE i \notin done \cup garbled /\ status[i] = "accepted"
  <2>0. CopyIsThere(i) /\ GoneIsDead(i) /\ CutIsOpen(i) /\ pending[i] # Garbled
    BY <1>4 DEF HomeInv, Home, MixtureIsKnown
  <2>1. Readable(pending[i]) \/ (pending[i] = Torn /\ Carried(i)) \/ Readable(dead[i]) \/ Carried(i)
    BY <1>4, <2>0 DEF CopyIsThere, GoneIsDead, CutIsOpen, InDead, Carried, Readable
  <2> QED BY <1>4, <2>1 DEF StatusOf, Kept
<1> QED BY <1>1, <1>2, <1>3, <1>4

LEMMA NeverLostNext == HomeInv' => (\A i \in Ids : Kept(i))'
BY NeverLost, PTL

\* A message other than the one a process works on stays as it is.
LEMMA OthersStay ==
  ASSUME TypeOK, NEW p \in Procs, NEW i \in Ids, i # cur[p], i # cur'[p],
         \A q \in Procs \ {p} : phase'[q] = phase[q] /\ cur'[q] = cur[q],
         \A q \in Procs : cur[q] = i => (q \in severed' <=> q \in severed),
         pending'[i] = pending[i], dead'[i] = dead[i], status'[i] = status[i],
         i \in done' <=> i \in done, i \in garbled' <=> i \in garbled
  PROVE  StatusOf(i)' = StatusOf(i)
<1>1. Carried(i)' <=> Carried(i)
  BY DEF Carried
<1> QED BY <1>1 DEF StatusOf, Readable

\* What may become of one message is a step of the promise.
LEMMA OneMoves ==
  ASSUME NEW i \in Ids, \A j \in Ids \ {i} : StatusOf(j)' = StatusOf(j),
         \/ StatusOf(i)' = StatusOf(i)
         \/ StatusOf(i) = "none" /\ StatusOf(i)' = "held"
         \/ StatusOf(i) \in {"held", "dead"} /\ StatusOf(i)' \in {"held", "dead"}
         \/ StatusOf(i) \in {"held", "dead"} /\ StatusOf(i)' = "spoiled"
         \/ StatusOf(i) \in {"none", "held", "dead", "spoiled"} /\ StatusOf(i)' = "resolved"
  PROVE  [Promise!Next]_Held
<1>1. /\ Held \in [Ids -> {StatusOf(j) : j \in Ids}] /\ Held[i] = StatusOf(i)
      /\ Held' = [Held EXCEPT ![i] = StatusOf(i)']
  BY DEF Held
<1>2. CASE StatusOf(i)' = StatusOf(i)
  BY <1>2 DEF Held
<1>3. CASE StatusOf(i) = "none" /\ StatusOf(i)' = "held"
  BY <1>1, <1>3 DEF Held, Promise!Next, Promise!Accept, Promise!Move
<1>4. CASE StatusOf(i) = "held" /\ StatusOf(i)' = "dead"
  BY <1>1, <1>4 DEF Held, Promise!Next, Promise!GiveUp, Promise!Move
<1>5. CASE StatusOf(i) = "dead" /\ StatusOf(i)' = "held"
  BY <1>1, <1>5 DEF Held, Promise!Next, Promise!Revive, Promise!Move
<1>s. CASE StatusOf(i) \in {"held", "dead"} /\ StatusOf(i)' = "spoiled"
  BY <1>1, <1>s DEF Held, Promise!Next, Promise!Spoil, Promise!Move
<1>6. CASE StatusOf(i) \in {"none", "held", "dead", "spoiled"} /\ StatusOf(i)' = "resolved"
  <2>1. Promise!Resolve({i})
    BY <1>6 DEF Promise!Resolve
  <2> QED BY <2>1 DEF Promise!Next
<1> QED BY <1>2, <1>3, <1>4, <1>5, <1>s, <1>6

\* What is resolved stays so, what enters is held, and what is garbled had been accepted.
Advances(i) ==
  /\ i \in done => i \in done'
  /\ status[i] = "accepted" => status'[i] = "accepted"
  /\ status[i] # "accepted" /\ status'[i] = "accepted" /\ i \notin done' \cup garbled' =>
       Readable(pending'[i])
  /\ i \in garbled => i \in garbled'
  /\ i \in garbled' \ garbled => status[i] = "accepted"

LEMMA OneAdvances ==
  ASSUME HomeInv, HomeInv', NEW i \in Ids, Advances(i),
         \A j \in Ids \ {i} : StatusOf(j)' = StatusOf(j)
  PROVE  [Promise!Next]_Held
<1>1. Kept(i) /\ Kept(i)'
  BY NeverLost, NeverLostNext
<1>2. \/ StatusOf(i)' = StatusOf(i)
      \/ StatusOf(i) = "none" /\ StatusOf(i)' = "held"
      \/ StatusOf(i) \in {"held", "dead"} /\ StatusOf(i)' \in {"held", "dead"}
      \/ StatusOf(i) \in {"held", "dead"} /\ StatusOf(i)' = "spoiled"
      \/ StatusOf(i) \in {"none", "held", "dead", "spoiled"} /\ StatusOf(i)' = "resolved"
  BY <1>1 DEF Kept, Advances, Readable
<1> QED BY <1>2, OneMoves

\* A step of one process that works on the same id before and after.
LEMMA ProcessStep ==
  ASSUME TypeOK, TypeOK', HomeInv, HomeInv', NEW p \in Procs, cur' = cur,
         \A q \in Procs \ {p} : phase'[q] = phase[q],
         \A j \in Ids \ {cur[p]} : /\ pending'[j] = pending[j] /\ dead'[j] = dead[j]
                                   /\ status'[j] = status[j] /\ (j \in done' <=> j \in done)
                                   /\ (j \in garbled' <=> j \in garbled),
         \A q \in Procs : cur[q] # cur[p] => (q \in severed' <=> q \in severed),
         Advances(cur[p])
  PROVE  [Promise!Next]_Held
<1>1. cur[p] \in Ids
  BY DEF TypeOK
<1>2. \A j \in Ids \ {cur[p]} : StatusOf(j)' = StatusOf(j)
  BY OthersStay
<1> QED BY <1>1, <1>2, OneAdvances

\* What depends on nothing that changed.
LEMMA SameStatus ==
  ASSUME NEW i \in Ids, Carried(i)' <=> Carried(i),
         pending'[i] = pending[i], dead'[i] = dead[i],
         status'[i] = "accepted" <=> status[i] = "accepted", i \in done' <=> i \in done,
         i \in garbled' <=> i \in garbled
  PROVE  StatusOf(i)' = StatusOf(i)
BY DEF StatusOf, Readable

\* An enqueue resolves what it supersedes, and holds nothing yet.
LEMMA EnqueueMaps ==
  ASSUME TypeOK, HomeInv, HomeInv', NEW p \in Producers, NEW i \in Ids, NEW await \in BOOLEAN,
         Redrained = {}, Enqueue(p, i, await)
  PROVE  [Promise!Next]_Held
<1> DEFINE S == Superseded(i) \ done
<1>1. ASSUME NEW j \in Ids \ Superseded(i) PROVE Carried(j)' <=> Carried(j)
  <2>1. \A q \in Procs : cur[q] = j => (q \in severed' <=> q \in severed)
    BY <1>1 DEF Enqueue, Writing
  <2>2. \A q \in Procs \ {p} : phase'[q] = phase[q] /\ cur'[q] = cur[q]
    BY DEF TypeOK, Enqueue, Hold, Goto
  <2>3. phase[p] = "idle" /\ phase'[p] = "check"
    BY DEF TypeOK, Enqueue, Goto
  <2> QED BY <2>1, <2>2, <2>3 DEF Carried
<1>2. ASSUME NEW j \in Ids \ Superseded(i) PROVE StatusOf(j)' = StatusOf(j)
  <2>1. status'[j] = "accepted" <=> status[j] = "accepted"
    BY DEF TypeOK, Enqueue
  <2> QED BY <1>1, <2>1, SameStatus DEF Enqueue
<1>3. ASSUME NEW j \in Superseded(i) PROVE j \in Ids /\ j \in done'
  BY KeyAssumption DEF Superseded, Enqueue
<1>4. \A j \in Ids : Kept(j) /\ Kept(j)'
  BY NeverLost, NeverLostNext
<1>5. \A j \in Superseded(i) \cap done : StatusOf(j)' = StatusOf(j)
  BY <1>3, <1>4 DEF Kept
<1>6. \A j \in S : StatusOf(j)' = "resolved" /\ StatusOf(j) \in {"none", "held", "dead", "spoiled"}
  BY <1>3, <1>4 DEF Kept
<1>7. Promise!Resolve(S)
  <2>1. S \subseteq Ids BY <1>3
  <2>2. \A j \in Ids \ S : StatusOf(j)' = StatusOf(j) BY <1>2, <1>5
  <2> HIDE DEF S
  <2> QED BY <1>6, <2>1, <2>2 DEF Promise!Resolve
<1>8. S \in SUBSET Ids BY <1>3
<1> QED BY <1>7, <1>8 DEF Promise!Next

\* Every step of the outbox is a step of the promise, or none.
LEMMA StepMaps ==
  ASSUME Operators = {}, Redrained = {}, MaxCrashes = 0, BudgetInv, HomeInv, [Next]_vars
  PROVE  [Promise!Next]_Held
<1> USE ProcAssumption
<1>t. TypeOK /\ TypeOK' /\ PhasesOfKind /\ Fresh /\ EnteringIsFresh
      /\ \A i \in Ids \ garbled : EnteringIsOpen(i)
  BY TypeStep DEF BudgetInv, Origins, HomeInv, Home
<1>h. HomeInv /\ HomeInv'
  BY HomeKept
<1>1. ASSUME NEW p \in Procs, FileStep(p) PROVE [Promise!Next]_Held
  <2>1. CASE FlushPending(p)
    <3>a. /\ cur[p] \in Ids /\ severed' = severed \ {p}
          /\ garbled \subseteq garbled' /\ garbled' \subseteq garbled \cup {cur[p]}
          /\ \A j \in Ids \ {cur[p]} : pending'[j] = pending[j]
          /\ pending'[cur[p]] # Garbled => garbled' = garbled
          /\ pending[cur[p]] = Torn /\ p \notin severed => pending'[cur[p]] = mem[p]
          /\ mem[p] \in Entry
      BY <1>t, <2>1, FlushPendingFacts
    <3>b. /\ phase[p] = "flushPending" /\ phase' = [phase EXCEPT ![p] = AfterWritePending(p)]
          /\ status' = (IF p \in Producers THEN [status EXCEPT ![cur[p]] = "accepted"] ELSE status)
          /\ UNCHANGED <<dead, cur, done>>
      BY <2>1 DEF FlushPending, Goto
    <3>1. Advances(cur[p])
      <4>1. CASE p \in Producers
        <5>1. CASE cur[p] \in garbled
          BY <1>t, <3>a, <3>b, <5>1 DEF TypeOK, Advances
        <5>2. CASE cur[p] \notin garbled
          <6>1. mem[p] \in Entry /\ pending'[cur[p]] = mem[p] /\ (mem[p] # Garbled => garbled' = garbled)
            BY <1>t, <3>a, <3>b, <4>1, <5>2 DEF EnteringIsOpen
          <6>2. Readable(pending'[cur[p]]) /\ garbled' = garbled
            BY <6>1, FileAssumption DEF Readable
          <6> QED BY <1>t, <3>a, <3>b, <4>1, <5>2, <6>2 DEF TypeOK, Advances
        <5> QED BY <5>1, <5>2
      <4>2. CASE p \notin Producers
        <5>1. status[cur[p]] = "accepted"
          BY <1>t, <2>1, <4>2 DEF TypeOK, FlushPending, PhasesOfKind, Fresh, Busy, Working
        <5> QED BY <1>t, <2>1, <4>2, <5>1, FlushPendingFacts DEF FlushPending, Advances
      <4> QED BY <4>1, <4>2
    <3>2. /\ cur' = cur /\ (\A q \in Procs \ {p} : phase'[q] = phase[q]) /\ dead' = dead
          /\ \A j \in Ids \ {cur[p]} : pending'[j] = pending[j] /\ status'[j] = status[j]
          /\ done' = done /\ garbled' \subseteq garbled \cup {cur[p]} /\ garbled \subseteq garbled'
          /\ severed' = severed \ {p}
      BY <1>t, <3>a, <3>b DEF TypeOK
    <3> QED BY <1>t, <1>h, <3>1, <3>2, ProcessStep
  <2>2. CASE OpenPending(p) \/ OpenDead(p) \/ UnlinkPending(p)
    <3>1. Advances(cur[p])
      BY <2>2 DEF OpenPending, OpenDead, UnlinkPending, Advances
    <3>2. \A q \in Procs : cur[q] # cur[p] => (q \in severed' <=> q \in severed)
      BY <2>2 DEF OpenPending, OpenDead, UnlinkPending, Writing
    <3> QED BY <1>t, <1>h, <2>2, <3>1, <3>2, ProcessStep
            DEF TypeOK, OpenPending, OpenDead, UnlinkPending, Goto
  <2>4. CASE FlushDead(p)
    <3>1. status[cur[p]] = "accepted"
      BY <1>t, <2>4 DEF TypeOK, BudgetInv, Origins, FlushDead, PhasesOfKind, Fresh, TimerMovesHold,
         Busy, Working, Entering
    <3>2. Advances(cur[p])
      BY <1>t, <2>4, <3>1, FlushDeadFacts DEF FlushDead, Advances
    <3>3. /\ cur' = cur /\ (\A q \in Procs \ {p} : phase'[q] = phase[q])
          /\ \A j \in Ids \ {cur[p]} : dead'[j] = dead[j]
          /\ UNCHANGED <<pending, status, done>>
          /\ garbled' \subseteq garbled \cup {cur[p]} /\ garbled \subseteq garbled'
          /\ severed' = severed \ {p}
      BY <1>t, <2>4, FlushDeadFacts DEF TypeOK, FlushDead, Goto
    <3> QED BY <1>t, <1>h, <3>2, <3>3, ProcessStep
  <2>3. CASE UnlinkDead(p)
    BY <1>t, <2>3 DEF PhasesOfKind, Working, Entering, UnlinkDead
  <2> QED BY <1>1, <2>1, <2>2, <2>3, <2>4 DEF FileStep
<1>2. ASSUME NEW p \in Procs, Crash(p) PROVE [Promise!Next]_Held
  BY <1>2, <1>t DEF Crash, TypeOK
<1>3. ASSUME NEW p \in Producers, EnqueueStep(p) PROVE [Promise!Next]_Held
  <2>1. ASSUME NEW i \in Ids, NEW await \in BOOLEAN, Enqueue(p, i, await)
        PROVE  [Promise!Next]_Held
    BY <1>t, <1>h, <2>1, EnqueueMaps
  <2>2. CASE AdmitEnqueue(p) \/ RefuseEnqueue(p)
    <3>1. Advances(cur[p])
      BY <1>t, <2>2 DEF TypeOK, AdmitEnqueue, RefuseEnqueue, Advances
    <3> QED BY <1>t, <1>h, <2>2, <3>1, ProcessStep DEF TypeOK, AdmitEnqueue, RefuseEnqueue, Goto
  <2> QED BY <1>3, <2>1, <2>2 DEF EnqueueStep
<1>4. ASSUME NEW s \in Sweepers, SweepStep(s) PROVE [Promise!Next]_Held
  <2>1. CASE Visit(s)
    <3>1. \A j \in Ids : Carried(j)' <=> Carried(j)
      BY <1>t, <2>1 DEF TypeOK, Visit, Hold, Goto, Carried
    <3>2. \A j \in Ids : StatusOf(j)' = StatusOf(j)
      BY <2>1, <3>1, SameStatus DEF Visit
    <3> QED BY <3>2 DEF Held
  <2>2. CASE SweepStart(s) \/ SweepEnd(s) \/ Throttled(s) \/ Delivered(s)
    <3>1. Advances(cur[s])
      BY <2>2 DEF SweepStart, SweepEnd, Throttled, Delivered, Advances
    <3> QED BY <1>t, <1>h, <2>2, <3>1, ProcessStep
            DEF TypeOK, SweepStart, SweepEnd, Throttled, Delivered, Charge, Goto
  <2>3. CASE FailedRetry(s) \/ FailedExhausted(s)
    <3>1. Advances(cur[s])
      BY <2>3 DEF FailedRetry, FailedExhausted, Fail, Advances
    <3> QED BY <1>t, <1>h, <2>3, <3>1, ProcessStep
            DEF TypeOK, FailedRetry, FailedExhausted, Fail, Charge, Goto
  <2> QED BY <1>4, <2>1, <2>2, <2>3 DEF SweepStep
<1>5. ASSUME NEW i \in Ids, BackoffElapses(i) \/ AckRemove(i) \/ DropDead(i)
      PROVE  [Promise!Next]_Held
  <2>1. ASSUME NEW j \in Ids \ {i} PROVE Carried(j)' <=> Carried(j)
    <3>1. \A q \in Procs : cur[q] = j => (q \in severed' <=> q \in severed)
      BY <1>5 DEF BackoffElapses, AckRemove, DropDead, Writing
    <3>2. UNCHANGED <<phase, cur>>
      BY <1>5 DEF BackoffElapses, AckRemove, DropDead
    <3> QED BY <3>1, <3>2 DEF Carried
  <2>2. ASSUME NEW j \in Ids \ {i} PROVE StatusOf(j)' = StatusOf(j)
    BY <1>t, <1>5, <2>1, SameStatus DEF BackoffElapses, AckRemove, DropDead, TypeOK
  <2>3. Advances(i)
    BY <1>5 DEF BackoffElapses, AckRemove, DropDead, Advances
  <2> QED BY <1>h, <2>2, <2>3, OneAdvances
<1>6. ASSUME NEW t \in Timers, NEW i \in Ids, MarkDead(t, i) PROVE [Promise!Next]_Held
  <2>1. ASSUME NEW j \in Ids \ {i} PROVE StatusOf(j)' = StatusOf(j)
    <3>1. Carried(j)' <=> Carried(j)
      BY <1>t, <1>6 DEF TypeOK, MarkDead, Hold, Goto, Carried
    <3> QED BY <1>6, <3>1, SameStatus DEF MarkDead
  <2>2. Advances(i)
    BY <1>6 DEF MarkDead, Advances
  <2> QED BY <1>h, <2>1, <2>2, OneAdvances
<1>7. CASE UNCHANGED vars
  BY <1>7 DEF Held, StatusOf, Carried, Readable
<1> QED BY <1>1, <1>2, <1>3, <1>4, <1>5, <1>6, <1>7 DEF Next

\* Nothing has been accepted at the start.
LEMMA InitMaps == Init => Promise!Init
BY DEF Init, Promise!Init, StatusOf

(* The detailed outbox implements the promise: however many retry workers, *)
(* enqueuing threads and ACK timers share the directory, where nobody      *)
(* requeues a dead letter and no process crashes, an accepted message is   *)
(* held or set aside until it is delivered, acknowledged, superseded or    *)
(* purged.                                                                 *)
THEOREM PromiseIsKept ==
  ASSUME Operators = {}, Redrained = {}, MaxCrashes = 0
  PROVE  Spec => KeepsPromise
<1>1. Init => BudgetInv /\ HomeInv
  BY BudgetInit, HomeInit DEF HomeInv
<1>2. BudgetInv /\ HomeInv /\ [Next]_vars => (BudgetInv /\ HomeInv)'
  BY BudgetStep, HomeKept
<1>3. BudgetInv /\ HomeInv /\ [Next]_vars => [Promise!Next]_Held
  BY StepMaps
<1>4. Spec => Promise!Init /\ [][Promise!Next]_Held
  BY <1>1, <1>2, <1>3, InitMaps, PTL DEF Spec
<1> QED BY <1>4, PTL DEF KeepsPromise, Promise!Spec, Held
===============================================================================
