-------------------------------- MODULE Outbox --------------------------------
(***************************************************************************)
(* The persistent outbox (skcomms/outbox.py, class PersistentOutbox): one  *)
(* JSON file per envelope in pending/ or dead/, shared by every thread and *)
(* process that opened the same directory:                                 *)
(*                                                                         *)
(*   Sweepers   the retry worker of each SKComms process (retry_all)       *)
(*   Producers  the threads that call enqueue                              *)
(*   Timers     the threads that call mark_dead after an ACK timeout       *)
(*   Operators  the processes of `skcomms deadletter requeue`              *)
(*                                                                         *)
(* Nothing locks the directory, so every operation is split at each file   *)
(* it opens, writes or unlinks.  Path.write_text truncates the file before *)
(* it writes it: a file between the two, or for ever after a crash between *)
(* the two, is Torn (empty).  Two writers of one file each write from its  *)
(* start, so that the second overlays the first, and unless its own text   *)
(* is as long what is left is a mixture of both, Garbled.  Every loader    *)
(* skips a Torn or a Garbled file as corrupt.  A writer whose file is      *)
(* unlinked between the two writes into nothing, whether or not the file   *)
(* has been created again.  next_retry_at is the flag "due".               *)
(*                                                                         *)
(* The definitions no action uses are plausible faults of the definition   *)
(* after them: with them a property of some run fails.                     *)
(***************************************************************************)
EXTENDS Naturals, FiniteSets

CONSTANTS Ids,          \* envelope ids; their order is the sort order of the files
          Sweepers, Producers, Timers, Operators,
          Keys,         \* supersede keys
          NoKey,        \* the key of a durable entry
          KeyOf,        \* the supersede_key each id is enqueued with
          Redrained,    \* ids that a legacy queue file enqueues at every start
          MaxRetries, SweepBatch, MaxPending,
          Absent, Torn, Garbled,  \* no file, an empty one, a mixture of two writes
          MaxCrashes    \* bound on the crashes of a behaviour

Procs == Sweepers \cup Producers \cup Timers \cup Operators

ASSUME IdsAssumption   == Ids \subseteq Nat /\ IsFiniteSet(Ids)
ASSUME BoundAssumption == /\ MaxRetries \in Nat \ {0} /\ SweepBatch \in Nat
                          /\ MaxPending \in Nat /\ MaxCrashes \in Nat
ASSUME KeyAssumption   == NoKey \notin Keys /\ KeyOf \in [Ids -> Keys \cup {NoKey}]
ASSUME ProcAssumption  ==
  /\ Sweepers \cap Producers = {} /\ Sweepers \cap Timers = {}
  /\ Sweepers \cap Operators = {} /\ Producers \cap Timers = {}
  /\ Producers \cap Operators = {} /\ Timers \cap Operators = {}
ASSUME FiniteAssumption == IsFiniteSet(Procs)

Entry  == [att : 0..MaxRetries, due : BOOLEAN, await : BOOLEAN]
File   == Entry \cup {Absent, Torn, Garbled}
ASSUME FileAssumption ==
  /\ {Absent, Torn, Garbled} \cap Entry = {}
  /\ Absent # Torn /\ Absent # Garbled /\ Torn # Garbled
Blank  == [att |-> 0, due |-> FALSE, await |-> FALSE]

VARIABLES
  pending, dead,   \* the file of each id in pending/ and in dead/
  severed,         \* the processes whose open file was unlinked
  garbled,         \* history: the ids of which some file was a mixture once
  phase,           \* what each process does next
  cur, mem,        \* the id it works on, the entry it holds in memory
  todo,            \* sweepers: the file names not visited yet
  used,            \* sweepers: delivery attempts charged to this sweep
  crashes,
  \* the rest is history, never read by the code
  status,          \* of the enqueue call of each id
  done,            \* delivered, acknowledged, superseded or purged
  fails,           \* failed attempts on the wire since enqueue or requeue
  ackOpen          \* holds whose ACK can still be confirmed

files == <<pending, dead, severed, garbled>>
local == <<phase, cur, mem, todo, used>>
past  == <<status, done, fails, ackOpen>>
vars  == <<files, local, crashes, past>>

Readable(f)  == f \notin {Absent, Torn, Garbled}
PendingCount == Cardinality({i \in Ids : pending[i] # Absent})

Init ==
  /\ pending = [i \in Ids |-> Absent] /\ dead = [i \in Ids |-> Absent]
  /\ severed = {} /\ garbled = {}
  /\ phase = [p \in Procs |-> "idle"]
  /\ cur \in [Procs -> Ids] /\ \A p, q \in Procs : cur[p] = cur[q]
  /\ mem = [p \in Procs |-> Blank]
  /\ todo = [p \in Sweepers |-> {}] /\ used = [p \in Sweepers |-> 0]
  /\ crashes = 0
  /\ status = [i \in Ids |-> "new"]
  /\ done = {} /\ ackOpen = {}
  /\ fails = [i \in Ids |-> 0]

Goto(p, ph) == phase' = [phase EXCEPT ![p] = ph]
Hold(p, i, e) == cur' = [cur EXCEPT ![p] = i] /\ mem' = [mem EXCEPT ![p] = e]

-------------------------------------------------------------------------------
(* Writing and unlinking, one file operation at a time.                    *)

\* The processes between the two halves of write_text on a file of S.
Writing(ph, S) == {q \in Procs : phase[q] = ph /\ cur[q] \in S}

\* What the file f may hold after p wrote its entry to it.
Overlaid(p, f) == IF p \in severed \/ f = Absent THEN {f}
                  ELSE IF f = Torn THEN {mem[p]} ELSE {mem[p], Garbled}

AfterWritePending(p) ==
  CASE p \in Sweepers -> "scan" [] p \in Operators -> "unlinkDead" [] OTHER -> "idle"

OpenPending(p) ==
  /\ phase[p] = "openPending"
  /\ pending' = [pending EXCEPT ![cur[p]] = Torn]
  /\ severed' = severed \ {p}
  /\ Goto(p, "flushPending")
  /\ UNCHANGED <<dead, garbled, cur, mem, todo, used, crashes, past>>

\* write_text returns: what f holds now, and who wrote it.
Flushed(p, f) ==
  /\ garbled' = IF f = Garbled THEN garbled \cup {cur[p]} ELSE garbled
  /\ severed' = severed \ {p}

FlushPending(p) ==
  LET i == cur[p] IN
  /\ phase[p] = "flushPending"
  /\ \E f \in Overlaid(p, pending[i]) :
       pending' = [pending EXCEPT ![i] = f] /\ Flushed(p, f)
  /\ Goto(p, AfterWritePending(p))
  /\ status' = IF p \in Producers THEN [status EXCEPT ![i] = "accepted"] ELSE status
  /\ fails' = IF p \in Sweepers THEN fails ELSE [fails EXCEPT ![i] = 0]
  /\ ackOpen' = IF p \in Producers /\ mem[p].await THEN ackOpen \cup {i} ELSE ackOpen
  /\ UNCHANGED <<dead, cur, mem, todo, used, crashes, done>>

OpenDead(p) ==
  /\ phase[p] = "openDead"
  /\ dead' = [dead EXCEPT ![cur[p]] = Torn]
  /\ severed' = severed \ {p}
  /\ Goto(p, "flushDead")
  /\ UNCHANGED <<pending, garbled, cur, mem, todo, used, crashes, past>>

CopyToDead(p) ==
  /\ phase[p] = "flushDead"
  /\ \E f \in Overlaid(p, dead[cur[p]]) :
       dead' = [dead EXCEPT ![cur[p]] = f] /\ Flushed(p, f)
  /\ Goto(p, IF p \in Sweepers THEN "scan" ELSE "idle")
  /\ UNCHANGED <<pending, cur, mem, todo, used, crashes, past>>
FlushDead(p) ==
  /\ phase[p] = "flushDead"
  /\ \E f \in Overlaid(p, dead[cur[p]]) :
       dead' = [dead EXCEPT ![cur[p]] = f] /\ Flushed(p, f)
  /\ Goto(p, "unlinkPending")
  /\ UNCHANGED <<pending, cur, mem, todo, used, crashes, past>>

UnlinkPending(p) ==
  /\ phase[p] = "unlinkPending"
  /\ pending' = [pending EXCEPT ![cur[p]] = Absent]
  /\ severed' = severed \cup Writing("flushPending", {cur[p]})
  /\ Goto(p, IF p \in Sweepers THEN "scan" ELSE "idle")
  /\ UNCHANGED <<dead, garbled, cur, mem, todo, used, crashes, past>>

UnlinkDead(p) ==
  /\ phase[p] = "unlinkDead"
  /\ dead' = [dead EXCEPT ![cur[p]] = Absent]
  /\ severed' = severed \cup Writing("flushDead", {cur[p]})
  /\ Goto(p, "idle")
  /\ UNCHANGED <<pending, garbled, cur, mem, todo, used, crashes, past>>

FileStep(p) == \/ OpenPending(p)   \/ FlushPending(p)
               \/ OpenDead(p)      \/ FlushDead(p)
               \/ UnlinkPending(p) \/ UnlinkDead(p)

-------------------------------------------------------------------------------
(* enqueue: evict the older entries of the key, check the bound, write.    *)

Superseded(i) == {j \in Ids : /\ KeyOf[i] # NoKey /\ KeyOf[j] = KeyOf[i]
                              /\ Readable(pending[j])}

OffByOneAdmits(i) == MaxPending > 0 => PendingCount <= MaxPending
\* Rewriting an entry does not grow the queue.
Admits(i) == MaxPending > 0 => pending[i] # Absent \/ PendingCount < MaxPending

Enqueue(p, i, await) ==
  /\ phase[p] = "idle"
  /\ status[i] = "new" \/ (i \in Redrained /\ status[i] = "accepted")
  /\ await => KeyOf[i] = NoKey /\ i \notin Redrained
  /\ Hold(p, i, [att |-> 1, due |-> FALSE, await |-> await])
  /\ pending' = [j \in Ids |-> IF j \in Superseded(i) THEN Absent ELSE pending[j]]
  /\ severed' = severed \cup Writing("flushPending", Superseded(i))
  /\ done' = done \cup {j \in Superseded(i) : KeyOf[j] \in Keys}
  /\ status' = [status EXCEPT ![i] = IF @ = "new" THEN "entering" ELSE @]
  /\ Goto(p, "check")
  /\ UNCHANGED <<dead, garbled, todo, used, crashes, fails, ackOpen>>

AdmitEnqueue(p) ==
  /\ phase[p] = "check"
  /\ Admits(cur[p])
  /\ Goto(p, "openPending")
  /\ UNCHANGED <<files, cur, mem, todo, used, crashes, past>>

RefuseEnqueue(p) ==     \* OutboxFullError
  /\ phase[p] = "check"
  /\ ~Admits(cur[p])
  /\ Goto(p, "idle")
  /\ status' = [status EXCEPT ![cur[p]] = IF @ = "entering" THEN "refused" ELSE @]
  /\ UNCHANGED <<files, cur, mem, todo, used, crashes, done, fails, ackOpen>>

-------------------------------------------------------------------------------
(* retry_all: visit the files in name order, attempt the due ones.         *)

StaleBudgetStart(s) ==
  /\ phase[s] = "idle"
  /\ todo' = [todo EXCEPT ![s] = {i \in Ids : pending[i] # Absent}]
  /\ Goto(s, "scan")
  /\ UNCHANGED <<files, cur, mem, used, crashes, past>>
SweepStart(s) ==
  /\ phase[s] = "idle"
  /\ todo' = [todo EXCEPT ![s] = {i \in Ids : pending[i] # Absent}]
  /\ used' = [used EXCEPT ![s] = 0]
  /\ Goto(s, "scan")
  /\ UNCHANGED <<files, cur, mem, crashes, past>>

Eligible(s, f) == /\ Readable(f)
                  /\ ~f.await /\ f.due
                  /\ SweepBatch > 0 => used[s] < SweepBatch

Visit(s) ==
  /\ phase[s] = "scan"
  /\ \E i \in todo[s] :
       /\ \A j \in todo[s] : i <= j
       /\ todo' = [todo EXCEPT ![s] = @ \ {i}]
       /\ IF Eligible(s, pending[i])
          THEN /\ Hold(s, i, pending[i])
               /\ Goto(s, "send")
          ELSE UNCHANGED <<phase, cur, mem>>
  /\ UNCHANGED <<files, used, crashes, past>>

SweepEnd(s) ==
  /\ phase[s] = "scan" /\ todo[s] = {}
  /\ Goto(s, "idle")
  /\ UNCHANGED <<files, cur, mem, todo, used, crashes, past>>

Charge(s) == used' = [used EXCEPT ![s] = @ + 1]

ThrottledUnlinks(s) ==
  /\ phase[s] = "send"
  /\ Charge(s) /\ Goto(s, "unlinkPending")
  /\ UNCHANGED <<files, cur, mem, todo, crashes, past>>
\* Every rail was refused by the local rate limiter: the entry is untouched.
Throttled(s) ==
  /\ phase[s] = "send"
  /\ Charge(s) /\ Goto(s, "scan")
  /\ UNCHANGED <<files, cur, mem, todo, crashes, past>>

Delivered(s) ==
  /\ phase[s] = "send"
  /\ Charge(s) /\ Goto(s, "unlinkPending")
  /\ done' = done \cup {cur[s]}
  /\ UNCHANGED <<files, cur, mem, todo, crashes, status, fails, ackOpen>>

Fail(s) ==
  /\ phase[s] = "send"
  /\ Charge(s)
  /\ fails' = [fails EXCEPT ![cur[s]] = IF @ <= MaxRetries THEN @ + 1 ELSE @]
  /\ UNCHANGED <<files, cur, todo, crashes, status, done, ackOpen>>

EarlyRetriesLeft(s)     == mem[s].att < MaxRetries - 1
RetriesLeft(s)          == mem[s].att < MaxRetries

UnlinkedRetry(s) ==
  /\ Fail(s) /\ RetriesLeft(s)
  /\ mem' = [mem EXCEPT ![s].att = @ + 1, ![s].due = FALSE]
  /\ Goto(s, "unlinkPending")
FailedRetry(s) ==
  /\ Fail(s)
  /\ RetriesLeft(s)
  /\ mem' = [mem EXCEPT ![s].att = @ + 1, ![s].due = FALSE]
  /\ Goto(s, "openPending")

FailedExhausted(s) ==
  /\ Fail(s)
  /\ ~RetriesLeft(s)
  /\ Goto(s, "openDead")
  /\ UNCHANGED mem

\* next_retry_at passes.  retry_all read the clock when it started, so a sweep
\* under way will skip the entry.
BackoffElapses(i) ==
  /\ Readable(pending[i]) /\ ~pending[i].due
  /\ pending' = [pending EXCEPT ![i].due = TRUE]
  /\ todo' = [s \in Sweepers |-> todo[s] \ {i}]
  /\ UNCHANGED <<dead, severed, garbled, phase, cur, mem, used, crashes, past>>

-------------------------------------------------------------------------------
(* The ACK path, the dead-letter tools, retention, crashes.                *)

AckRemove(i) ==         \* core.receive: the ACK was confirmed
  /\ i \in ackOpen
  /\ ackOpen' = ackOpen \ {i}
  /\ pending' = [pending EXCEPT ![i] = Absent]
  /\ severed' = severed \cup Writing("flushPending", {i})
  /\ done' = done \cup {i}
  /\ UNCHANGED <<dead, garbled, local, crashes, status, fails>>

MarkDead(t, i) ==       \* core.sweep_ack_timeouts: no ACK within the horizon
  /\ phase[t] = "idle" /\ i \in ackOpen
  /\ ackOpen' = ackOpen \ {i}
  /\ IF Readable(pending[i]) THEN Hold(t, i, pending[i]) /\ Goto(t, "openDead")
                             ELSE UNCHANGED <<cur, mem, phase>>
  /\ UNCHANGED <<files, todo, used, crashes, status, done, fails>>

RequeueDead(o, i) ==
  /\ phase[o] = "idle" /\ Readable(dead[i])
  /\ Hold(o, i, [dead[i] EXCEPT !.att = 0, !.due = TRUE])
  /\ Goto(o, "openPending")
  /\ UNCHANGED <<files, todo, used, crashes, past>>

DropDead(i) ==          \* purge_dead and prune_dead
  /\ dead[i] # Absent
  /\ dead' = [dead EXCEPT ![i] = Absent]
  /\ severed' = severed \cup Writing("flushDead", {i})
  /\ done' = done \cup {i}
  /\ UNCHANGED <<pending, garbled, local, crashes, status, fails, ackOpen>>

Crash(p) ==
  /\ crashes < MaxCrashes /\ phase[p] # "idle"
  /\ crashes' = crashes + 1
  /\ Goto(p, "idle")
  /\ severed' = severed \ {p}
  /\ UNCHANGED <<pending, dead, garbled, cur, mem, todo, used, past>>

-------------------------------------------------------------------------------
EnqueueStep(p) == \/ \E i \in Ids, await \in BOOLEAN : Enqueue(p, i, await)
                  \/ AdmitEnqueue(p)
                  \/ RefuseEnqueue(p)

SweepStep(s) == \/ SweepStart(s) \/ Visit(s) \/ SweepEnd(s)
                \/ Throttled(s) \/ Delivered(s) \/ FailedRetry(s) \/ FailedExhausted(s)

Next == \/ \E p \in Procs : FileStep(p) \/ Crash(p)
        \/ \E p \in Producers : EnqueueStep(p)
        \/ \E s \in Sweepers : SweepStep(s)
        \/ \E i \in Ids : BackoffElapses(i) \/ AckRemove(i) \/ DropDead(i)
        \/ \E t \in Timers, i \in Ids : MarkDead(t, i)
        \/ \E o \in Operators, i \in Ids : RequeueDead(o, i)

Spec == Init /\ [][Next]_vars

(* The threads run, backoffs elapse, and the rate limiter does not refuse  *)
(* for ever the entry that the sweeps keep trying.                         *)
Fairness ==
  /\ \A p \in Procs : WF_vars(FileStep(p))
  /\ \A p \in Producers : WF_vars(AdmitEnqueue(p) \/ RefuseEnqueue(p))
  /\ \A s \in Sweepers : WF_vars(SweepStep(s))
  /\ \A i \in Ids : WF_vars(BackoffElapses(i))
  /\ \A s \in Sweepers, i \in Ids :
       SF_vars(cur[s] = i /\ (Delivered(s) \/ FailedRetry(s) \/ FailedExhausted(s)))

FairSpec == Spec /\ Fairness

-------------------------------------------------------------------------------
Phases == {"idle", "check", "scan", "send", "openPending", "flushPending",
           "openDead", "flushDead", "unlinkPending", "unlinkDead"}

(* Every variable keeps its shape.                                         *)
TypeOK ==
  /\ pending \in [Ids -> File] /\ dead \in [Ids -> File]
  /\ severed \subseteq Procs /\ garbled \subseteq Ids
  /\ phase \in [Procs -> Phases]
  /\ cur \in [Procs -> Ids] /\ mem \in [Procs -> Entry]
  /\ todo \in [Sweepers -> SUBSET Ids] /\ used \in [Sweepers -> Nat]
  /\ crashes \in 0..MaxCrashes
  /\ status \in [Ids -> {"new", "entering", "accepted", "refused"}]
  /\ done \subseteq Ids
  /\ fails \in [Ids -> 0..MaxRetries + 1]
  /\ ackOpen \subseteq Ids

\* Some live process has the entry of i in memory and is about to write it.
Carried(i) == \E p \in Procs : /\ cur[p] = i /\ p \notin severed
                               /\ phase[p] \in {"openPending", "flushPending",
                                                "openDead", "flushDead"}

Lost(i) == /\ status[i] = "accepted" /\ i \notin done
           /\ ~Readable(pending[i]) /\ ~Readable(dead[i]) /\ ~Carried(i)

(* SOP.md "Message state: already durable": a message the outbox accepted  *)
(* and that nobody delivered, acknowledged, superseded or purged is still  *)
(* readable in pending/ or dead/, or being rewritten by a live process.    *)
(* Path.write_text is not atomic, so a crash may cut short the one file    *)
(* that the crashed process was writing, no more.  Left out are the        *)
(* messages that two processes wrote at once: those are lost without a     *)
(* crash when the one text does not cover the other.                       *)
LossBoundedByCrashes == Cardinality({i \in Ids \ garbled : Lost(i)}) <= crashes

(* retry_all and the throttle contract: a failed send is dead-lettered     *)
(* only after MaxRetries attempts failed on the wire in its current life.  *)
BudgetSpent == \A i \in Ids \ Redrained :
  Readable(dead[i]) /\ ~dead[i].await =>
    \/ fails[i] >= MaxRetries
    \/ \E o \in Operators : cur[o] = i /\ phase[o] = "unlinkDead"   \* being requeued

(* enqueue, the soft bound: pending/ overshoots max_pending by no more     *)
(* than the other enqueues in flight and one file per sweep, which may     *)
(* rewrite an entry that was evicted or delivered under its hands.         *)
SoftBound == MaxPending > 0 =>
  PendingCount <= MaxPending + (Cardinality(Producers) - 1) + Cardinality(Sweepers)

(* _move_to_dead and requeue_dead: a message is in both directories only   *)
(* while some process is half-way through moving it.                       *)
OneHome == \A i \in Ids \ Redrained : Readable(pending[i]) /\ Readable(dead[i]) =>
             \E p \in Procs : /\ cur[p] = i
                              /\ phase[p] \in {"unlinkPending", "unlinkDead",
                                               "openPending", "flushPending"}

(* The sweep eventually resolves every failed send: it is delivered or set *)
(* aside, unless a crash cut its file short or two writes garbled it.      *)
EventuallyResolved ==
  \A i \in Ids : (Readable(pending[i]) /\ ~pending[i].await)
     ~> (i \in done \/ Readable(dead[i]) \/ ((crashes > 0 \/ i \in garbled) /\ Lost(i)))

-------------------------------------------------------------------------------
(* What the outbox promises its callers: refinement of DurableQueue.  A    *)
(* message that is nowhere has the status "lost", which the promise never  *)
(* reaches.  One that two processes wrote at once is "spoiled": for it     *)
(* nothing is promised any more, since a retry worker that overlays a      *)
(* longer entry with a shorter one leaves a file that nobody can read.     *)
StatusOf(i) ==
  IF i \in done THEN "resolved"
  ELSE IF i \in garbled THEN "spoiled"
  ELSE IF status[i] # "accepted" THEN "none"
  ELSE IF Readable(pending[i]) \/ (pending[i] = Torn /\ Carried(i)) THEN "held"
  ELSE IF Readable(dead[i]) \/ Carried(i) THEN "dead"
  ELSE "lost"

Promise == INSTANCE DurableQueue WITH Messages <- Ids, st <- [i \in Ids |-> StatusOf(i)]
KeepsPromise == Promise!Spec
===============================================================================
