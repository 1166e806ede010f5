----------------------------- MODULE MessageQueue -----------------------------
(***************************************************************************)
(* The file queue behind `skcomms queue` (skcomms/queue.py MessageQueue)   *)
(* and the adoption of the node-wide queue of earlier versions             *)
(* (skcomms/paths.py adopt_legacy_pairs).  A queued mail is a pair of      *)
(* files in one directory, the envelope and its retry state; a Drainer is  *)
(* a process of some agent that opened the queue of its agent, and nothing *)
(* locks the directories: each rename, write and unlink is a step.         *)
(*                                                                         *)
(* Files are written to a temporary name and renamed.  A new mail has one  *)
(* writer, which makes that one step; a retry state may have several, and  *)
(* they share the temporary name.  A retry state is "ready", "waiting" for *)
(* its next retry, or "garbled": two writers mixed it, and it is skipped.  *)
(* The definitions no action uses are plausible faults of the one after.   *)
(***************************************************************************)
EXTENDS Naturals, FiniteSets

CONSTANTS Mails,
          Drainers, Agents,
          Shared,            \* the directory of earlier versions
          QueueCrashes       \* bound on the crashes of a behaviour

ASSUME QueueAssumption ==
  /\ Shared \notin Agents /\ QueueCrashes \in Nat /\ IsFiniteSet(Drainers) /\ IsFiniteSet(Mails)

Places == Agents \cup {Shared}

VARIABLES
  home,           \* the agent each drainer runs for, any and for ever
  env, meta,      \* the two halves in each directory; meta gives the retry state
  temps,          \* the retry states, by directory, that a temporary file is there for
  outlived,       \* mails older than their TTL
  job,            \* what each drainer does next
  died,           \* crashes so far
  stored,         \* history: mails whose enqueue returned
  over,           \* history: mails sent, or purged as expired or on demand
  sends,          \* history: how often each mail was sent successfully
  clashed         \* history: mails whose retry state had two writers at a time

queueVars == <<home, env, meta, temps, outlived, job, died, stored, over, sends, clashed>>

NoJob == [step |-> "none"]
\* "visit" takes the next name of a listing; "aim" is what the listing was for.
Aims  == {"adopt", "purge", "drain", "empty"}
JobSteps == {"move", "send", "update", "replace", "unlinkEnv", "unlinkMeta"}
Jobs  == {NoJob} \cup [step : {"visit"}, aim : Aims, todo : SUBSET Mails]
                 \cup [step : JobSteps, aim : Aims, todo : SUBSET Mails, mail : Mails]
                 \cup [step : {"putEnv", "putMeta"}, mail : Mails]

Home(d)     == home[d]
Listed(p)   == DOMAIN meta[p]
Pair(p, m)  == m \in env[p] /\ m \in Listed(p)
Legible(p)  == {m \in Listed(p) : meta[p][m] # "garbled"}
Readable(p, m) == Pair(p, m) /\ m \in Legible(p)
With(f, m, v) == [n \in DOMAIN f \cup {m} |-> IF n = m THEN v ELSE f[n]]
Less(f, m)  == [n \in DOMAIN f \ {m} |-> f[n]]

\* Some mails were queued by an earlier version.
QueueInit ==
  /\ home \in [Drainers -> Agents] /\ stored \in SUBSET Mails
  /\ env = [p \in Places |-> IF p = Shared THEN stored ELSE {}]
  /\ meta = [p \in Places |-> [m \in env[p] |-> "ready"]]
  /\ outlived = {} /\ died = 0
  /\ job = [d \in Drainers |-> NoJob]
  /\ over = {} /\ sends = [m \in Mails |-> 0]
  /\ temps = {} /\ clashed = {}

Do(d, j)     == job' = [job EXCEPT ![d] = j]
Step(d, s)   == Do(d, [job[d] EXCEPT !.step = s])
SkipMail(d, m)   == Do(d, [job[d] EXCEPT !.todo = @ \ {m}])
OnTo(d, s, m) == Do(d, [step |-> s, aim |-> job[d].aim, todo |-> job[d].todo \ {m}, mail |-> m])
GoOn(d)    == Do(d, [step |-> "visit", aim |-> job[d].aim, todo |-> job[d].todo])
Doing(d, s)  == job[d].step = s
Files        == <<home, env, meta, temps>>
Histories    == <<stored, over, sends, clashed>>

-------------------------------------------------------------------------------
(* enqueue: the envelope, then its retry state.                            *)

Queue(d, m) ==
  /\ job[d] = NoJob
  /\ m \notin stored \cup UNION {env[p] : p \in Places}
  /\ \A e \in Drainers : job[e].step \in {"putEnv", "putMeta"} => job[e].mail # m
  /\ Do(d, [step |-> "putEnv", mail |-> m])
  /\ UNCHANGED <<Files, outlived, died, Histories>>

PutEnv(d) ==
  /\ Doing(d, "putEnv") /\ Step(d, "putMeta")
  /\ env' = [env EXCEPT ![Home(d)] = @ \cup {job[d].mail}]
  /\ UNCHANGED <<home, meta, temps, outlived, died, Histories>>

PutMeta(d) ==
  /\ Doing(d, "putMeta") /\ Do(d, NoJob)
  /\ meta' = [meta EXCEPT ![Home(d)] = With(@, job[d].mail, "ready")]
  /\ stored' = stored \cup {job[d].mail}
  /\ UNCHANGED <<home, env, temps, outlived, died, over, sends, clashed>>

-------------------------------------------------------------------------------
(* A listing, and the visit of each of its names.                          *)

\* Opening the default queue adopts; a drain purges first; purge empties.
Listing(aim, d) ==
  CASE aim = "adopt" -> Listed(Shared)
    [] aim = "drain" -> {m \in Listed(Home(d)) : meta[Home(d)][m] = "ready" /\ m \notin outlived}
    [] aim = "empty" -> Legible(Home(d))
    [] aim = "purge" -> Listed(Home(d))

Begins(d, aim) == Do(d, [step |-> "visit", aim |-> aim, todo |-> Listing(aim, d)])

OpenQueue(d) ==
  /\ job[d] = NoJob /\ Begins(d, "adopt")
  /\ UNCHANGED <<Files, outlived, died, Histories>>

\* drain is purge_expired and then list_pending.
Finished(d) ==
  /\ Doing(d, "visit") /\ job[d].todo = {}
  /\ \/ job[d].aim = "adopt" /\ \E aim \in {"purge", "empty"} : Begins(d, aim)
     \/ job[d].aim = "purge" /\ Begins(d, "drain")
     \/ job[d].aim # "adopt" /\ Do(d, NoJob)
  /\ UNCHANGED <<Files, outlived, died, Histories>>

\* The rename of the retry state is the claim; who loses it touches neither half.
ClaimMeta(d, m) ==
  /\ Doing(d, "visit") /\ job[d].aim = "adopt" /\ m \in job[d].todo
  /\ IF m \in Listed(Shared) /\ m \notin Listed(Home(d))
     THEN /\ meta' = [meta EXCEPT ![Shared] = Less(@, m), ![Home(d)] = With(@, m, meta[Shared][m])]
          /\ OnTo(d, "move", m)
     ELSE SkipMail(d, m) /\ UNCHANGED meta
  /\ UNCHANGED <<home, env, temps, outlived, died, Histories>>

MoveForgotten(d) ==
  /\ Doing(d, "move") /\ GoOn(d)
  /\ UNCHANGED <<Files, outlived, died, Histories>>

MoveEnv(d) ==
  /\ Doing(d, "move") /\ GoOn(d)
  /\ LET m == job[d].mail IN
       env' = IF m \in env[Shared] /\ m \notin env[Home(d)]
              THEN [env EXCEPT ![Shared] = @ \ {m}, ![Home(d)] = @ \cup {m}]
              ELSE env
  /\ UNCHANGED <<home, meta, temps, outlived, died, Histories>>

\* purge_expired reads each retry state; purge without --expired takes all.
VisitPurge(d, m) ==
  /\ Doing(d, "visit") /\ job[d].aim \in {"purge", "empty"} /\ m \in job[d].todo
  /\ IF m \in Listed(Home(d)) /\ (job[d].aim = "purge" => m \in outlived \cap Legible(Home(d)))
     THEN OnTo(d, "unlinkEnv", m) /\ over' = over \cup {m}
     ELSE SkipMail(d, m) /\ UNCHANGED over
  /\ UNCHANGED <<Files, outlived, died, stored, sends, clashed>>

\* peek: both halves and a retry state that parses, or the name is skipped.
VisitDrain(d, m) ==
  /\ Doing(d, "visit") /\ job[d].aim = "drain" /\ m \in job[d].todo
  /\ IF Readable(Home(d), m) THEN OnTo(d, "send", m) ELSE SkipMail(d, m)
  /\ UNCHANGED <<Files, outlived, died, Histories>>

\* The count is capped by a bound no behaviour of the code reaches.
Sent(d) ==
  /\ Doing(d, "send") /\ Step(d, "unlinkEnv")
  /\ LET m == job[d].mail IN
       /\ over' = over \cup {m}
       /\ sends' = [sends EXCEPT ![m] = IF @ > Cardinality(Drainers) + QueueCrashes THEN @ ELSE @ + 1]
  /\ UNCHANGED <<Files, outlived, died, stored, clashed>>

\* send_fn answers False or raises: record_attempt, update_meta.
NotSent(d) ==
  /\ Doing(d, "send") /\ Step(d, "update")
  /\ UNCHANGED <<Files, outlived, died, Histories>>

\* Opening the temporary file empties it, also for who is still writing to it.
UpdateMeta(d) ==
  /\ Doing(d, "update") /\ Step(d, "replace")
  /\ temps' = temps \cup {<<Home(d), job[d].mail>>}
  /\ LET others == {e \in Drainers \ {d} : /\ Doing(e, "replace") /\ Home(e) = Home(d)
                                           /\ job[e].mail = job[d].mail} IN
       clashed' = IF others = {} THEN clashed ELSE clashed \cup {job[d].mail}
  /\ UNCHANGED <<home, env, meta, outlived, died, stored, over, sends>>

\* What the last bytes in the file of a retry state make of it.
Written(m) == IF m \in clashed THEN {"waiting", "garbled"} ELSE {"waiting"}

\* Write and rename, whether or not the retry state is still there.
ReplaceMeta(d) ==
  /\ Doing(d, "replace") /\ GoOn(d)
  /\ <<Home(d), job[d].mail>> \in temps
  /\ temps' = temps \ {<<Home(d), job[d].mail>>}
  /\ \E v \in Written(job[d].mail) : meta' = [meta EXCEPT ![Home(d)] = With(@, job[d].mail, v)]
  /\ UNCHANGED <<home, env, outlived, died, Histories>>

\* Another drainer renamed the file: the write went to what it published, if
\* that is still there, and the rename that raises ends the drain.
ReplaceRaises(d) ==
  /\ Doing(d, "replace") /\ Do(d, NoJob)
  /\ <<Home(d), job[d].mail>> \notin temps
  /\ \/ UNCHANGED meta
     \/ /\ job[d].mail \in Listed(Home(d))
        /\ \E v \in Written(job[d].mail) : meta' = [meta EXCEPT ![Home(d)][job[d].mail] = v]
  /\ UNCHANGED <<home, env, temps, outlived, died, Histories>>

-------------------------------------------------------------------------------
(* dequeue: the envelope, then its retry state.                            *)

\* unlink() raises when another process removed the file after exists(): a drain
\* and a purge of everything end, purge_expired goes on to the next name.
UnlinkRaises(d) == IF job[d].aim = "purge" THEN GoOn(d) ELSE Do(d, NoJob)

UnlinkEnv(d) ==
  /\ Doing(d, "unlinkEnv")
  /\ \/ Step(d, "unlinkMeta")
     \/ job[d].mail \notin env[Home(d)] /\ UnlinkRaises(d)
  /\ env' = [env EXCEPT ![Home(d)] = @ \ {job[d].mail}]
  /\ UNCHANGED <<home, meta, temps, outlived, died, Histories>>

UnlinkMeta(d) ==
  /\ Doing(d, "unlinkMeta")
  /\ GoOn(d) \/ (job[d].mail \notin Listed(Home(d)) /\ UnlinkRaises(d))
  /\ meta' = [meta EXCEPT ![Home(d)] = Less(@, job[d].mail)]
  /\ UNCHANGED <<home, env, temps, outlived, died, Histories>>

BackoffOver(p, m) ==
  /\ m \in Listed(p) /\ meta[p][m] = "waiting"
  /\ meta' = [meta EXCEPT ![p][m] = "ready"]
  /\ UNCHANGED <<home, env, temps, outlived, job, died, Histories>>

Outlive(m) ==
  /\ m \in stored \ outlived /\ outlived' = outlived \cup {m}
  /\ UNCHANGED <<Files, job, died, Histories>>

Die(d) ==
  /\ job[d] # NoJob /\ died < QueueCrashes
  /\ died' = died + 1 /\ Do(d, NoJob)
  /\ UNCHANGED <<Files, outlived, Histories>>

QueueNext ==
  \/ \E d \in Drainers :
       \/ PutEnv(d) \/ PutMeta(d) \/ OpenQueue(d) \/ Finished(d) \/ MoveEnv(d) \/ Sent(d)
       \/ NotSent(d) \/ UpdateMeta(d) \/ ReplaceMeta(d) \/ ReplaceRaises(d)
       \/ UnlinkEnv(d) \/ UnlinkMeta(d) \/ Die(d)
       \/ \E m \in Mails : Queue(d, m) \/ ClaimMeta(d, m) \/ VisitPurge(d, m) \/ VisitDrain(d, m)
  \/ \E m \in Mails : Outlive(m) \/ \E p \in Agents : BackoffOver(p, m)

QueueSpec == QueueInit /\ [][QueueNext]_queueVars

-------------------------------------------------------------------------------
(* Every variable keeps its shape.                                         *)
QueueTypeOK ==
  /\ home \in [Drainers -> Agents]
  /\ env \in [Places -> SUBSET Mails]
  /\ \A p \in Places : /\ Listed(p) \subseteq Mails
                       /\ \A m \in Listed(p) : meta[p][m] \in {"ready", "waiting", "garbled"}
  /\ job \in [Drainers -> Jobs]
  /\ temps \subseteq Agents \X Mails /\ clashed \subseteq Mails
  /\ outlived \subseteq Mails /\ stored \subseteq Mails /\ over \subseteq Mails
  /\ died \in 0..QueueCrashes
  /\ sends \in [Mails -> 0..(Cardinality(Drainers) + QueueCrashes + 1)]

(* adopt_legacy_pairs, "never split a pair across their trees": the two    *)
(* halves of a mail are never with two agents.                             *)
PairsWhole == \A p, q \in Agents : p # q => env[p] \cap Listed(q) = {}

Moving(m)   == \E d \in Drainers : Doing(d, "move") /\ job[d].mail = m
Stranded(m) == m \in stored \ over /\ ~Moving(m) /\ \A p \in Places : ~Readable(p, m)

(* queue.py, "crash-safe operation": a mail that was neither sent nor      *)
(* purged is a pair that can be read somewhere; only a crash between the   *)
(* two renames of an adoption strands one.  Of a mail whose failed attempt *)
(* two drains recorded at a time nothing is promised: its retry state may  *)
(* be garbled, and every drain and purge skips it from then on.            *)
StoredKept == Cardinality({m \in Mails \ clashed : Stranded(m)}) <= died

(* drain, "on success, dequeues it": concurrent drains send a mail once    *)
(* each at most, and once more per crash before the unlink; the retry      *)
(* state that a slower drain writes back never makes it go out again.      *)
SendsBounded == \A m \in Mails : sends[m] <= Cardinality(Drainers) + died

QueueKeeps == PairsWhole /\ StoredKept /\ SendsBounded
===============================================================================
