----------------------------- MODULE Router_proofs -----------------------------
(***************************************************************************)
(* Proofs about the router: a cooldown is earned, and a recipient that     *)
(* some healthy rail serves is reached, for any rails, recipients, modes,  *)
(* senders and bounds; and about the rail that negotiates before it        *)
(* carries, WebRTC.                                                        *)
(***************************************************************************)
EXTENDS Router, WebRtc, FiniteSetTheorems, SequenceTheorems, TLAPS

USE DEF vars

-------------------------------------------------------------------------------
(* The shape of the state.  All that is needed of a backoff is that a pair *)
(* has one.                                                                *)

Jobs == [phase : {"idle", "direct", "done"}, to : Recipients,
         signed : BOOLEAN, mode : Modes \cup {"failover"},
         pref : Preferences \cup {<<>>}, left : SUBSET Rails,
         tried : SUBSET [rail : Rails, res : Results \cup {"throttled"}]]

Shape ==
  /\ failed \in [Rails -> [count : 0..Threshold, age : Nat]]
  /\ DOMAIN backoff = Pairs /\ \A p \in Pairs : DOMAIN backoff[p] = {"count", "age"}
  /\ quarantine \subseteq Quarantined
  /\ job \in [Senders -> Jobs]
  /\ streak \in [Rails -> 0..Threshold]

LEMMA ShapeInit == Init => Shape
BY RouterAssumption DEF Init, Shape, Jobs, NoFailure, Idle, Pairs

LEMMA RecordShape ==
  ASSUME Shape, NEW r \in Rails, NEW to \in Recipients, NEW res \in Results \cup {"throttled"},
         TrySend(r, to, res)
  PROVE  /\ failed' \in [Rails -> [count : 0..Threshold, age : Nat]]
         /\ DOMAIN backoff' = Pairs /\ \A p \in Pairs : DOMAIN backoff'[p] = {"count", "age"}
         /\ streak' \in [Rails -> 0..Threshold]
<1>1. CASE UNCHANGED <<failed, backoff, streak>>
  BY <1>1 DEF Shape, Jobs
<1>2. CASE Record(r, to, res)
  <2>1. Failed(r) \in [Rails -> [count : 0..Threshold, age : Nat]]
    BY RouterAssumption DEF Failed, Shape, Jobs, Lesser
  <2>2. [failed EXCEPT ![r] = NoFailure] \in [Rails -> [count : 0..Threshold, age : Nat]]
    BY RouterAssumption DEF NoFailure, Shape, Jobs
  <2>3. failed' \in [Rails -> [count : 0..Threshold, age : Nat]]
    BY <1>2, <2>1, <2>2 DEF Record, Shape, Jobs
  <2>4. streak' \in [Rails -> 0..Threshold]
    BY <1>2, RouterAssumption DEF Record, Shape, Jobs, Lesser
  <2>5. DOMAIN backoff' = Pairs /\ \A p \in Pairs : DOMAIN backoff'[p] = {"count", "age"}
    <3>1. \/ backoff' = backoff
          \/ backoff' = [backoff EXCEPT ![<<r, to>>] = NoFailure]
          \/ backoff' = BackedOff(r, to)
      BY <1>2 DEF Record
    <3>. QED BY <3>1 DEF Shape, Jobs, BackedOff, Pruned, NoFailure, Pairs
  <2>. QED BY <2>3, <2>4, <2>5
<1>. QED BY <1>1, <1>2 DEF TrySend

LEMMA TickShape ==
  ASSUME Shape, Tick
  PROVE  Shape'
<1>1. \A r \in Rails : Older(failed[r], Cooldown) \in [count : 0..Threshold, age : Nat]
  BY RouterAssumption DEF Older, Lesser, Shape, Jobs
<1>2. failed' \in [Rails -> [count : 0..Threshold, age : Nat]]
  BY <1>1 DEF Tick
<1>3. \A p \in Pairs : DOMAIN backoff'[p] = {"count", "age"}
  BY DEF Tick, Older, Shape, Jobs
<1>. QED BY <1>2, <1>3 DEF Tick, Shape, Jobs

LEMMA ShapeStep == Shape /\ [Next]_vars => Shape'
<1>. SUFFICES ASSUME Shape, [Next]_vars PROVE Shape'
  OBVIOUS
<1>1. ASSUME NEW s \in Senders, RouteAny(s) PROVE Shape'
  <2>1. PICK to \in Recipients, signed \in BOOLEAN, mode \in Modes, pref \in Preferences, up \in Ups :
          Route(s, to, signed, mode, pref, up)
    BY <1>1 DEF RouteAny
  <2>2. quarantine' \subseteq quarantine /\ UNCHANGED <<failed, backoff, streak>>
    BY <2>1 DEF Route
  <2>3. PICK rails \in SUBSET Rails : job' = [job EXCEPT ![s] =
              [phase |-> "direct", to |-> to, signed |-> signed, mode |-> mode,
               pref |-> pref, left |-> rails, tried |-> {}]]
    BY <2>1 DEF Route
  <2>. QED BY <2>2, <2>3 DEF Shape, Jobs
<1>2. ASSUME NEW s \in Senders, NEW res \in Results \cup {"throttled"}, Attempt(s, res) PROVE Shape'
  <2>1. PICK r \in job[s].left : TrySend(r, job[s].to, res) /\
           job' = [job EXCEPT ![s].tried = @ \cup {[rail |-> r, res |-> res]},
                             ![s].left = IF res = "ok" /\ job[s].mode # "broadcast"
                                         THEN {} ELSE @ \ {r}]
    BY <1>2 DEF Attempt
  <2>2. r \in Rails /\ job[s].to \in Recipients
    BY DEF Shape, Jobs
  <2>3. UNCHANGED quarantine
    BY <1>2 DEF Attempt
  <2>. DEFINE new == [job[s] EXCEPT !.tried = @ \cup {[rail |-> r, res |-> res]},
                                    !.left = IF res = "ok" /\ job[s].mode # "broadcast"
                                             THEN {} ELSE @ \ {r}]
  <2>4. new \in Jobs
    <3>1. job[s] \in Jobs /\ [rail |-> r, res |-> res] \in [rail : Rails, res : Results \cup {"throttled"}]
      BY <2>2 DEF Shape
    <3>. QED BY <3>1 DEF Jobs
  <2>5. job' = [job EXCEPT ![s] = new]
    BY <2>1 DEF Shape
  <2>. HIDE DEF new
  <2>6. job' \in [Senders -> Jobs]
    BY <2>4, <2>5 DEF Shape
  <2>. QED BY <2>1, <2>2, <2>3, <2>6, RecordShape DEF Shape, Jobs
<1>3. ASSUME NEW s \in Senders, NEW res \in Results \cup {"throttled"}, NEW up \in Ups,
             TryStoreForward(s, res, up)
      PROVE  Shape'
  <2>1. /\ TrySend(StoreForward, job[s].to, res) /\ UNCHANGED quarantine
        /\ job' = [job EXCEPT ![s].tried = @ \cup {[rail |-> StoreForward, res |-> res]},
                              ![s].phase = "done"]
    BY <1>3 DEF TryStoreForward
  <2>2. job[s].to \in Recipients /\ StoreForward \in Rails
    BY RouterAssumption DEF Shape, Jobs
  <2>. DEFINE new == [job[s] EXCEPT !.tried = @ \cup {[rail |-> StoreForward, res |-> res]},
                                    !.phase = "done"]
  <2>3. new \in Jobs
    <3>1. /\ job[s] \in Jobs
          /\ [rail |-> StoreForward, res |-> res] \in [rail : Rails, res : Results \cup {"throttled"}]
      BY <2>2 DEF Shape
    <3>. QED BY <3>1 DEF Jobs
  <2>4. job' = [job EXCEPT ![s] = new]
    BY <2>1 DEF Shape
  <2>. HIDE DEF new
  <2>5. job' \in [Senders -> Jobs]
    BY <2>3, <2>4 DEF Shape
  <2>. QED BY <2>1, <2>2, <2>5, RecordShape DEF Shape, Jobs
<1>4. ASSUME NEW s \in Senders, NEW up \in Ups, Finish(s, up) PROVE Shape'
  <2>1. /\ job' = [job EXCEPT ![s].phase = "done"]
        /\ UNCHANGED <<failed, backoff, quarantine, streak>>
    BY <1>4 DEF Finish
  <2>2. job[s] \in Jobs /\ job' = [job EXCEPT ![s] = [job[s] EXCEPT !.phase = "done"]]
    BY <2>1 DEF Shape
  <2>3. [job[s] EXCEPT !.phase = "done"] \in Jobs
    BY <2>2 DEF Jobs
  <2>4. job' \in [Senders -> Jobs]
    BY <2>2, <2>3 DEF Shape
  <2>. QED BY <2>1, <2>4 DEF Shape
<1>5. ASSUME NEW s \in Senders, Return(s) PROVE Shape'
  BY <1>5, RouterAssumption DEF Return, Shape, Jobs, Idle
<1>6. ASSUME NEW r \in Rails, ReceiveFails(r) PROVE Shape'
  <2>1. Failed(r) \in [Rails -> [count : 0..Threshold, age : Nat]]
    BY RouterAssumption DEF Failed, Shape, Jobs, Lesser
  <2>. QED BY <1>6, <2>1 DEF ReceiveFails, Shape, Jobs
<1>7. CASE UNCHANGED vars
  BY <1>7 DEF Shape, Jobs
<1>. QED BY <1>1, <1>2, <1>3, <1>4, <1>5, <1>6, <1>7, TickShape DEF Next, Proceed

-------------------------------------------------------------------------------
(* Cooldowns.                                                              *)

\* What is charged to a rail that can be received from, its sends earned.
Earned == \A r \in Rails \ Deaf : failed[r].count <= streak[r]

LEMMA RecordEarns ==
  ASSUME Shape, Earned, NEW q \in Rails, NEW to, NEW res, TrySend(q, to, res)
  PROVE  Earned'
<1>. SUFFICES ASSUME NEW r \in Rails \ Deaf PROVE failed'[r].count <= streak'[r]
  BY DEF Earned
<1>1. /\ failed[r].count \in 0..Threshold /\ streak[r] \in 0..Threshold /\ Threshold \in Nat
      /\ failed[r].count <= streak[r]
  BY RouterAssumption DEF Shape, Jobs, Earned
<1>2. CASE UNCHANGED <<failed, backoff, streak>>
  BY <1>1, <1>2
<1>3. CASE Record(q, to, res)
  <2>1. CASE r # q
    BY <1>1, <1>3, <2>1 DEF Record, Failed, Shape, Jobs
  <2>2. CASE r = q /\ res = "ok"
    <3>1. failed' = [failed EXCEPT ![q] = NoFailure]
      BY <1>3, <2>2 DEF Record, CountsAgainstRail
    <3>2. failed'[r] = NoFailure /\ streak'[r] = 0
      BY <1>3, <2>2, <3>1 DEF Record, Shape
    <3>. QED BY <3>2 DEF NoFailure
  <2>3. CASE r = q /\ res # "ok"
    <3>1. streak'[r] = Lesser(streak[r] + 1, Threshold)
      BY <1>3, <2>3 DEF Record, Shape, Jobs
    <3>2. failed' = Failed(q) \/ failed' = failed
      BY <1>3, <2>3 DEF Record
    <3>3. Failed(q)[r].count = Lesser(failed[r].count + 1, Threshold)
      BY <2>3 DEF Failed, Shape, Jobs
    <3>4. failed'[r].count <= Lesser(failed[r].count + 1, Threshold)
      BY <1>1, <3>2, <3>3 DEF Lesser
    <3>5. failed'[r].count \in Int
      BY <1>1, <3>2, <3>3 DEF Lesser
    <3>. QED BY <1>1, <3>1, <3>4, <3>5 DEF Lesser
  <2>. QED BY <2>1, <2>2, <2>3
<1>. QED BY <1>2, <1>3 DEF TrySend

LEMMA EarnedStep ==
  ASSUME Shape, Earned, [Next]_vars
  PROVE  Earned'
<1>1. CASE UNCHANGED <<failed, streak>>
  BY <1>1 DEF Earned
<1>2. ASSUME NEW s \in Senders, NEW res, Attempt(s, res) PROVE Earned'
  BY <1>2, RecordEarns DEF Attempt, Shape, Jobs
<1>3. ASSUME NEW s \in Senders, NEW res, NEW up, TryStoreForward(s, res, up) PROVE Earned'
  BY <1>3, RecordEarns, RouterAssumption DEF TryStoreForward
<1>4. ASSUME NEW d \in Rails, ReceiveFails(d) PROVE Earned'
  <2>1. d \in Deaf /\ streak' = streak /\ \A r \in Rails \ Deaf : failed'[r] = failed[r]
    BY <1>4 DEF ReceiveFails, Failed, Shape, Jobs
  <2>. QED BY <2>1 DEF Earned
<1>5. CASE Tick
  <2>1. \A r \in Rails : failed'[r].count = failed[r].count
    BY <1>5 DEF Tick, Older, Shape, Jobs
  <2>. QED BY <1>5, <2>1 DEF Tick, Earned
<1>6. ASSUME NEW s \in Senders,
             RouteAny(s) \/ Return(s) \/ (\E up \in Ups : Finish(s, up))
      PROVE  UNCHANGED <<failed, streak>>
  BY <1>6 DEF RouteAny, Route, Return, Finish
<1>. QED BY <1>1, <1>2, <1>3, <1>4, <1>5, <1>6 DEF Next, Proceed

(* CooldownEarned: a rail is in cooldown only after FAILURE_THRESHOLD      *)
(* failed sends in a row, unless its receive fails too.                    *)
THEOREM CooldownsAreEarned == Spec => []CooldownEarned
<1>1. Init => Shape /\ Earned
  BY ShapeInit DEF Init, Earned, NoFailure
<1>2. Shape /\ Earned /\ [Next]_vars => (Shape /\ Earned)'
  BY ShapeStep, EarnedStep
<1>3. Shape /\ Earned => CooldownEarned
  <2>. SUFFICES ASSUME Shape, Earned, NEW r \in Rails \ Deaf, InCooldown(r)
                PROVE  streak[r] >= Threshold
    BY DEF CooldownEarned
  <2>1. failed[r].count \in Nat /\ streak[r] \in Nat /\ failed[r].count <= streak[r] /\ Threshold \in Nat
    BY RouterAssumption DEF Shape, Jobs, Earned
  <2>. QED BY <2>1 DEF InCooldown
<1>. QED BY <1>1, <1>2, <1>3, PTL DEF Spec

-------------------------------------------------------------------------------
(* Reaching whom a rail can serve.  The rail must not fail other           *)
(* recipients in a way that says something about the rail itself.          *)

Healthy(r) == \A to \in Recipients : \A res \in Outcomes[<<r, to>>] : ~CountsAgainstRail(to, res)
SureRailsAreHealthy ==
  \A r \in Rails : (\E to \in Recipients : Sure(r, to)) => r \notin Deaf /\ Healthy(r)

Served(j, r) == Delivered(j) \/ [rail |-> r, res |-> "throttled"] \in j.tried

\* A healthy rail is charged with nothing, does not back off from whom it is
\* sure to serve, and waits to be tried.
Uncharged == \A r \in Rails \ Deaf : Healthy(r) => failed[r].count = 0
Welcome   == \A r \in Rails, to \in Recipients : Sure(r, to) => backoff[<<r, to>>].count = 0
Owing   == \A s \in Senders, r \in Rails : job[s].phase # "idle" /\ CanServe(r, job[s]) =>
  \/ Served(job[s], r)
  \/ job[s].phase = "direct" /\ (r = StoreForward \/ r \in job[s].left)
ServeInv == Uncharged /\ Welcome /\ Owing

LEMMA ServeInit == Init => ServeInv
BY DEF Init, ServeInv, Uncharged, Welcome, Owing, NoFailure, Idle, Pairs

\* A send charges no healthy rail, and a sure one delivers or is throttled.
LEMMA RecordServes ==
  ASSUME Shape, ServeInv, NEW q \in Rails, NEW to \in Recipients, NEW res, TrySend(q, to, res)
  PROVE  Uncharged' /\ Welcome' /\ (Sure(q, to) => res \in {"ok", "throttled"})
<1>1. Sure(q, to) => res \in {"ok", "throttled"}
  BY DEF TrySend, Sure
<1>2. CASE UNCHANGED <<failed, backoff, streak>>
  BY <1>1, <1>2 DEF ServeInv, Uncharged, Welcome
<1>3. CASE res \in Outcomes[<<q, to>>] /\ Record(q, to, res)
  <2>1. ASSUME NEW r \in Rails \ Deaf, Healthy(r) PROVE failed'[r].count = 0
    <3>1. CASE r # q
      BY <1>3, <2>1, <3>1 DEF Record, Failed, Shape, Jobs, ServeInv, Uncharged
    <3>2. CASE r = q
      <4>1. ~CountsAgainstRail(to, res)
        BY <1>3, <2>1, <3>2 DEF Healthy
      <4>2. failed' = failed \/ failed' = [failed EXCEPT ![q] = NoFailure]
        BY <1>3, <4>1 DEF Record
      <4>. QED BY <2>1, <3>2, <4>2 DEF NoFailure, Shape, Jobs, ServeInv, Uncharged
    <3>. QED BY <3>1, <3>2
  <2>2. ASSUME NEW r \in Rails, NEW a \in Recipients, Sure(r, a) PROVE backoff'[<<r, a>>].count = 0
    <3>1. <<r, a>> \in Pairs /\ backoff[<<r, a>>].count = 0 /\ DOMAIN backoff = Pairs
      BY <2>2 DEF Pairs, ServeInv, Welcome, Shape, Jobs
    <3>2. CASE res = "ok"
      <4>1. backoff' = [backoff EXCEPT ![<<q, to>>] = NoFailure]
        BY <1>3, <3>2 DEF Record
      <4>. QED BY <3>1, <4>1 DEF NoFailure
    <3>3. CASE res # "ok"
      <4>1. backoff' = backoff \/ backoff' = BackedOff(q, to)
        BY <1>3, <3>3 DEF Record
      <4>2. <<r, a>> # <<q, to>>
        BY <1>1, <1>3, <2>2, <3>3 DEF Sure
      <4>3. BackedOff(q, to)[<<r, a>>] \in {NoFailure, backoff[<<r, a>>]}
        BY <3>1, <4>2 DEF BackedOff, Pruned
      <4>. QED BY <3>1, <4>1, <4>3 DEF NoFailure
    <3>. QED BY <3>2, <3>3
  <2>. QED BY <1>1, <2>1, <2>2 DEF Uncharged, Welcome
<1>. QED BY <1>2, <1>3 DEF TrySend

LEMMA RouteServes ==
  ASSUME SureRailsAreHealthy, Shape, ServeInv, NEW s \in Senders, RouteAny(s)
  PROVE  ServeInv'
<1>1. PICK to \in Recipients, signed \in BOOLEAN, mode \in Modes, pref \in Preferences, up \in Ups :
        Route(s, to, signed, mode, pref, up)
  BY DEF RouteAny
<1>. DEFINE held == quarantine \ Released(up)
            rails == {r \in Rails : Eligible(r, to, signed, mode, up, held)}
            new == [phase |-> "direct", to |-> to, signed |-> signed, mode |-> mode,
                    pref |-> pref, left |-> rails, tried |-> {}]
<1>2. job' = [job EXCEPT ![s] = new] /\ UNCHANGED <<failed, backoff>>
  BY <1>1 DEF Route
<1>3. ASSUME NEW r \in Rails, CanServe(r, new) PROVE r = StoreForward \/ r \in rails
  <2>1. Sure(r, to) /\ (r = StoreForward \/ Suits(r, to, signed, mode))
    BY <1>3 DEF CanServe
  <2>2. r \in up /\ r \notin held
    BY <2>1 DEF Sure, Ups, Shape, Jobs
  <2>3. ~InCooldown(r)
    BY <2>1, RouterAssumption DEF SureRailsAreHealthy, ServeInv, Uncharged, InCooldown
  <2>4. ~InBackoff(r, to)
    BY <2>1 DEF ServeInv, Welcome, InBackoff
  <2>. QED BY <2>1, <2>2, <2>3, <2>4 DEF Eligible
<1>4. job'[s] = new /\ \A x \in Senders : x # s => job'[x] = job[x]
  BY <1>2 DEF Shape, Jobs
<1>. HIDE DEF rails
<1>5. Owing'
  <2>. SUFFICES ASSUME NEW x \in Senders, NEW r \in Rails, job'[x].phase # "idle", CanServe(r, job'[x])
                PROVE  \/ Served(job'[x], r)
                       \/ job'[x].phase = "direct" /\ (r = StoreForward \/ r \in job'[x].left)
    BY DEF Owing, Served, Delivered, CanServe, Sure, Suits
  <2>1. CASE x = s
    BY <1>3, <1>4, <2>1
  <2>2. CASE x # s
    BY <1>4, <2>2 DEF ServeInv, Owing
  <2>. QED BY <2>1, <2>2
<1>. QED BY <1>2, <1>5 DEF ServeInv, Uncharged, Welcome, Healthy, Sure, CountsAgainstRail

\* A job that goes on waits for no rail it did not wait for.
LEMMA StillAwaited ==
  ASSUME Shape, Owing, NEW s \in Senders, NEW new, job' = [job EXCEPT ![s] = new],
         \A r \in Rails : new.phase # "idle" /\ CanServe(r, new) =>
           \/ Served(new, r)
           \/ new.phase = "direct" /\ (r = StoreForward \/ r \in new.left)
  PROVE  Owing'
<1>1. job'[s] = new /\ \A x \in Senders : x # s => job'[x] = job[x]
  BY DEF Shape, Jobs
<1>. SUFFICES ASSUME NEW x \in Senders, NEW r \in Rails, job'[x].phase # "idle", CanServe(r, job'[x])
              PROVE  \/ Served(job'[x], r)
                     \/ job'[x].phase = "direct" /\ (r = StoreForward \/ r \in job'[x].left)
  BY DEF Owing, Served, Delivered, CanServe, Sure, Suits
<1>2. CASE x = s
  BY <1>1, <1>2
<1>3. CASE x # s
  BY <1>1, <1>3 DEF Owing
<1>. QED BY <1>2, <1>3

LEMMA AttemptServes ==
  ASSUME Shape, ServeInv, NEW s \in Senders, NEW res \in Results \cup {"throttled"}, Attempt(s, res)
  PROVE  ServeInv'
<1>1. PICK q \in job[s].left : TrySend(q, job[s].to, res) /\
         job' = [job EXCEPT ![s].tried = @ \cup {[rail |-> q, res |-> res]},
                           ![s].left = IF res = "ok" /\ job[s].mode # "broadcast"
                                       THEN {} ELSE @ \ {q}]
  BY DEF Attempt
<1>2. q \in Rails /\ job[s].to \in Recipients /\ job[s].phase = "direct"
  BY DEF Shape, Jobs, Attempt
<1>3. Uncharged' /\ Welcome' /\ (Sure(q, job[s].to) => res \in {"ok", "throttled"})
  BY <1>1, <1>2, RecordServes
<1>. DEFINE new == [job[s] EXCEPT !.tried = @ \cup {[rail |-> q, res |-> res]},
                                  !.left = IF res = "ok" /\ job[s].mode # "broadcast"
                                           THEN {} ELSE @ \ {q}]
<1>4. job' = [job EXCEPT ![s] = new]
  BY <1>1 DEF Shape, Jobs
<1>5. /\ new.phase = "direct" /\ new.to = job[s].to /\ new.signed = job[s].signed /\ new.mode = job[s].mode
      /\ new.tried = job[s].tried \cup {[rail |-> q, res |-> res]}
      /\ res = "ok" \/ new.left = job[s].left \ {q}
  BY <1>2 DEF Shape, Jobs
<1>. HIDE DEF new
<1>6. ASSUME NEW r \in Rails, CanServe(r, new)
      PROVE  Served(new, r) \/ r = StoreForward \/ r \in new.left
  <2>1. CanServe(r, job[s])
    BY <1>5, <1>6 DEF CanServe
  <2>2. Served(job[s], r) \/ r = StoreForward \/ r \in job[s].left
    BY <1>2, <2>1 DEF ServeInv, Owing
  <2>3. CASE Served(job[s], r) \/ res = "ok"
    BY <1>5, <2>3 DEF Served, Delivered
  <2>4. CASE r = q /\ res # "ok"
    <3>1. res = "throttled"
      BY <1>3, <2>1, <2>4 DEF CanServe
    <3>. QED BY <1>5, <2>4, <3>1 DEF Served
  <2>5. CASE r # q /\ res # "ok" /\ ~Served(job[s], r)
    BY <1>5, <2>2, <2>5
  <2>. QED BY <2>3, <2>4, <2>5
<1>7. Owing'
  BY <1>4, <1>5, <1>6, StillAwaited DEF ServeInv
<1>. QED BY <1>3, <1>7 DEF ServeInv

LEMMA LastResortServes ==
  ASSUME Shape, ServeInv, NEW s \in Senders, NEW res \in Results \cup {"throttled"}, NEW up \in Ups,
         TryStoreForward(s, res, up)
  PROVE  ServeInv'
<1>1. /\ TrySend(StoreForward, job[s].to, res) /\ job[s].phase = "direct" /\ job[s].left = {}
      /\ job' = [job EXCEPT ![s].tried = @ \cup {[rail |-> StoreForward, res |-> res]},
                            ![s].phase = "done"]
      /\ StoreForward \in Rails /\ job[s].to \in Recipients
  BY RouterAssumption DEF TryStoreForward, Shape, Jobs
<1>2. Uncharged' /\ Welcome' /\ (Sure(StoreForward, job[s].to) => res \in {"ok", "throttled"})
  BY <1>1, RecordServes
<1>. DEFINE new == [job[s] EXCEPT !.tried = @ \cup {[rail |-> StoreForward, res |-> res]}, !.phase = "done"]
<1>3. job' = [job EXCEPT ![s] = new]
  BY <1>1 DEF Shape, Jobs
<1>4. /\ new.to = job[s].to /\ new.signed = job[s].signed /\ new.mode = job[s].mode
      /\ new.tried = job[s].tried \cup {[rail |-> StoreForward, res |-> res]}
  BY <1>1 DEF Shape, Jobs
<1>. HIDE DEF new
<1>5. ASSUME NEW r \in Rails, CanServe(r, new) PROVE Served(new, r)
  <2>1. CanServe(r, job[s])
    BY <1>4, <1>5 DEF CanServe
  <2>2. Served(job[s], r) \/ r = StoreForward
    BY <1>1, <2>1 DEF ServeInv, Owing
  <2>3. r = StoreForward => res \in {"ok", "throttled"}
    BY <1>2, <2>1 DEF CanServe
  <2>. QED BY <1>4, <2>2, <2>3 DEF Served, Delivered
<1>6. Owing'
  BY <1>3, <1>5, StillAwaited DEF ServeInv
<1>. QED BY <1>2, <1>6 DEF ServeInv

LEMMA FinishServes ==
  ASSUME SureRailsAreHealthy, Shape, ServeInv, NEW s \in Senders, NEW up \in Ups, Finish(s, up)
  PROVE  ServeInv'
<1>1. /\ job[s].phase = "direct" /\ job[s].left = {} /\ UNCHANGED <<failed, backoff>>
      /\ Delivered(job[s]) \/ ~StoreForwardReady(up)
      /\ job' = [job EXCEPT ![s].phase = "done"]
  BY DEF Finish
<1>. DEFINE new == [job[s] EXCEPT !.phase = "done"]
<1>2. job' = [job EXCEPT ![s] = new]
  BY <1>1 DEF Shape, Jobs
<1>3. new.to = job[s].to /\ new.signed = job[s].signed /\ new.mode = job[s].mode /\ new.tried = job[s].tried
  BY DEF Shape, Jobs
<1>. HIDE DEF new
<1>4. ASSUME NEW r \in Rails, CanServe(r, new) PROVE Served(new, r)
  <2>1. CanServe(r, job[s])
    BY <1>3, <1>4 DEF CanServe
  <2>2. Served(job[s], r) \/ r = StoreForward
    BY <1>1, <2>1 DEF ServeInv, Owing
  <2>3. ASSUME r = StoreForward PROVE StoreForwardReady(up)
    <3>1. Sure(r, job[s].to) /\ job[s].to \in Recipients
      BY <2>1 DEF CanServe, Shape, Jobs
    <3>2. r \in up /\ r \notin quarantine
      BY <3>1 DEF Sure, Ups, Shape, Jobs
    <3>3. ~InCooldown(r)
      BY <3>1, RouterAssumption DEF SureRailsAreHealthy, ServeInv, Uncharged, InCooldown
    <3>. QED BY <2>3, <3>2, <3>3 DEF StoreForwardReady
  <2>. QED BY <1>1, <1>3, <2>2, <2>3 DEF Served, Delivered
<1>5. Owing'
  BY <1>2, <1>4, StillAwaited DEF ServeInv
<1>. QED BY <1>1, <1>5 DEF ServeInv, Uncharged, Welcome, Healthy, Sure, CountsAgainstRail

LEMMA ServeStep ==
  ASSUME SureRailsAreHealthy, Shape, ServeInv, [Next]_vars
  PROVE  ServeInv'
<1>1. ASSUME NEW s \in Senders, Return(s) PROVE ServeInv'
  <2>1. job' = [job EXCEPT ![s] = Idle] /\ UNCHANGED <<failed, backoff>> /\ Idle.phase = "idle"
    BY <1>1 DEF Return, Idle
  <2>2. Owing'
    BY <2>1, StillAwaited DEF ServeInv
  <2>. QED BY <2>1, <2>2 DEF ServeInv, Uncharged, Welcome
<1>2. ASSUME NEW d \in Rails, ReceiveFails(d) PROVE ServeInv'
  <2>1. d \in Deaf /\ UNCHANGED <<backoff, job>> /\ \A r \in Rails \ Deaf : failed'[r] = failed[r]
    BY <1>2 DEF ReceiveFails, Failed, Shape, Jobs
  <2>. QED BY <2>1 DEF ServeInv, Uncharged, Welcome, Owing, Served, Delivered, CanServe
<1>3. CASE Tick
  <2>1. /\ \A r \in Rails : failed'[r].count = failed[r].count
        /\ \A p \in Pairs : backoff'[p].count = backoff[p].count
        /\ UNCHANGED job
    BY <1>3 DEF Tick, Older, Shape, Jobs
  <2>. QED BY <2>1 DEF ServeInv, Uncharged, Welcome, Owing, Served, Delivered, CanServe, Pairs
<1>4. CASE UNCHANGED vars
  BY <1>4 DEF ServeInv, Uncharged, Welcome, Owing, Served, Delivered, CanServe
<1>. QED BY <1>1, <1>2, <1>3, <1>4, RouteServes, AttemptServes, LastResortServes, FinishServes
     DEF Next, Proceed

(* DeliverableReached: a route to a recipient that some rail is sure to    *)
(* serve is delivered, unless that rail was throttled, in every mode and   *)
(* whatever other senders do meanwhile; provided the rail's failures to    *)
(* reach others are permanent ones.                                        *)
THEOREM ServedIsReached ==
  ASSUME SureRailsAreHealthy
  PROVE  Spec => []DeliverableReached
<1>1. Init => Shape /\ ServeInv
  BY ShapeInit, ServeInit
<1>2. Shape /\ ServeInv /\ [Next]_vars => (Shape /\ ServeInv)'
  BY ShapeStep, ServeStep
<1>3. ServeInv => DeliverableReached
  BY DEF ServeInv, Owing, Served, DeliverableReached
<1>. QED BY <1>1, <1>2, <1>3, PTL DEF Spec

-------------------------------------------------------------------------------
(* The WebRTC rail.  A remote that somebody is about to offer to           *)
(* negotiates, and only one does (OneOffers), until its mark is cleared; an    *)
(* entry that negotiates is Tended.                                        *)

Named == /\ objs \in Seq(PeerConnections)
         /\ \A p \in Remotes : entry[p] # 0 => objs[entry[p]].to = p

OneOnly(p) == /\ \A w, x \in Offers(p) : w = x
              /\ \A s, t \in Calls(p) : s = t
              /\ Offers(p) = {} \/ Calls(p) = {}

OneOffers(p) == p \notin cleared /\ Busy(p) => IsNegotiating(p) /\ OneOnly(p)

\* Somebody is at work for an object that p's entry is, or the broker had it.
Tends(w, p)  == work[w].to = p /\ \/ work[w].at = "queued"
                                  \/ work[w].at \in {"offering", "answering"} /\ work[w].obj = entry[p]
Tended(p) == \/ \E s \in Callers : call[s].at = "scheduling" /\ call[s].to = p /\ call[s].obj = entry[p]
             \/ \E w \in Workers : work[w] # Free /\ Tends(w, p)
             \/ entry[p] \in handed \cup stranded

WebRtcInv == /\ WebRtcTypeOK /\ Named /\ OpenIsUsed
             /\ \A p \in Remotes : OneOffers(p) /\ (IsNegotiating(p) => Tended(p))

LEMMA CoFacts ==
  /\ Free \in Coroutines
  /\ \A c \in Coroutines : c.at \in {"free", "checked", "queued", "scheduling", "sending", "offering", "answering"}
  /\ \A c \in Coroutines : c.at = "free" <=> c = Free
  /\ \A c \in Coroutines : c.at # "free" => c.to \in Remotes
  /\ \A c \in Coroutines : c.at \in {"scheduling", "sending", "offering", "answering"} => c.obj \in Ids
  /\ \A p \in Remotes : [at |-> "checked", to |-> p] \in Coroutines /\ [at |-> "queued", to |-> p] \in Coroutines
  /\ \A p \in Remotes, o \in Ids :
       [at |-> "scheduling", to |-> p, obj |-> o] \in Coroutines /\ [at |-> "sending", to |-> p, obj |-> o] \in Coroutines
       /\ [at |-> "offering", to |-> p, obj |-> o] \in Coroutines /\ [at |-> "answering", to |-> p, obj |-> o] \in Coroutines
BY DEF Coroutines, Free

LEMMA NewObject ==
  ASSUME WebRtcTypeOK, Named, NEW c \in PeerConnections, Register(c)
  PROVE  /\ New \in Ids /\ New # 0 /\ New \notin DOMAIN objs /\ DOMAIN objs \subseteq DOMAIN objs'
         /\ New \in DOMAIN objs' /\ objs' \in Seq(PeerConnections) /\ Len(objs') \in 0..MaxObjects
         /\ \A o \in DOMAIN objs' : o = New \/ o \in DOMAIN objs
         /\ objs'[New] = c /\ \A o \in DOMAIN objs : objs'[o] = objs[o]
         /\ entry'[c.to] = New /\ c.to \in Remotes
         /\ \A p \in Remotes : p # c.to => entry'[p] = entry[p]
         /\ entry' \in [Remotes -> {0} \cup DOMAIN objs'] /\ Named'
<1>1. objs \in Seq(PeerConnections) /\ Len(objs) \in Nat /\ Len(objs) < MaxObjects /\ MaxObjects \in Nat
  BY WebRtcAssumption DEF Named, Register, Room
<1>2. /\ objs' \in Seq(PeerConnections) /\ Len(objs') = Len(objs) + 1 /\ objs'[New] = c
      /\ \A o \in 1..Len(objs) : objs'[o] = objs[o]
  BY <1>1, AppendProperties DEF Register, New
<1>3. DOMAIN objs = 1..Len(objs) /\ DOMAIN objs' = 1..(Len(objs) + 1)
  BY <1>1, <1>2
<1>4. /\ New \in Ids /\ New # 0 /\ New \notin DOMAIN objs /\ DOMAIN objs \subseteq DOMAIN objs'
      /\ New \in DOMAIN objs' /\ Len(objs') \in 0..MaxObjects
      /\ \A o \in DOMAIN objs' : o = New \/ o \in DOMAIN objs
  BY <1>1, <1>2, <1>3 DEF New, Ids
<1>5. c.to \in Remotes
  BY DEF PeerConnections
<1>6. entry \in [Remotes -> {0} \cup DOMAIN objs] /\ entry' = [entry EXCEPT ![c.to] = New]
  BY DEF WebRtcTypeOK, Register
<1>7. /\ entry'[c.to] = New /\ \A p \in Remotes : p # c.to => entry'[p] = entry[p]
      /\ entry' \in [Remotes -> {0} \cup DOMAIN objs']
  BY <1>4, <1>5, <1>6
<1>8. Named'
  <2>1. ASSUME NEW p \in Remotes, entry'[p] # 0 PROVE objs'[entry'[p]].to = p
    <3>1. CASE p = c.to
      BY <1>2, <1>7, <3>1
    <3>2. CASE p # c.to
      BY <1>2, <1>3, <1>6, <1>7, <2>1, <3>2 DEF Named
    <3> QED BY <3>1, <3>2
  <2> QED BY <1>2, <2>1 DEF Named
<1> QED BY <1>2, <1>3, <1>4, <1>5, <1>7, <1>8

\* A change of one object's flags.
LEMMA Reflagged ==
  ASSUME WebRtcTypeOK, Named, NEW o \in DOMAIN objs, NEW c \in PeerConnections, c.to = objs[o].to,
         objs' = [objs EXCEPT ![o] = c], UNCHANGED entry
  PROVE  /\ Len(objs') = Len(objs) /\ DOMAIN objs' = DOMAIN objs
         /\ \A n \in DOMAIN objs' : objs'[n] \in PeerConnections
         /\ Named' /\ objs'[o] = c /\ \A n \in DOMAIN objs \ {o} : objs'[n] = objs[n]
<1>1. objs' \in Seq(PeerConnections) /\ Len(objs') = Len(objs) /\ DOMAIN objs' = DOMAIN objs
  BY DEF Named
<1>2. objs'[o] = c /\ \A n \in DOMAIN objs \ {o} : objs'[n] = objs[n]
  BY DEF Named
<1>3. \A n \in DOMAIN objs : objs'[n].to = objs[n].to /\ objs'[n] \in PeerConnections
  BY <1>2 DEF WebRtcTypeOK
<1>4. \A p \in Remotes : entry[p] # 0 => entry[p] \in DOMAIN objs
  BY DEF WebRtcTypeOK
<1> QED BY <1>1, <1>2, <1>3, <1>4 DEF Named

LEMMA Cleared ==
  ASSUME NEW P, NEW p \in P, Clears(P)
  PROVE  OneOffers(p)'
BY DEF Clears, OneOffers

LEMMA Undisturbed ==
  ASSUME WebRtcTypeOK, NEW P, Clears(P), NEW p \in Remotes, OneOffers(p), IsNegotiating(p) => Tended(p),
         handed \subseteq handed', stranded \subseteq stranded',
         \A w \in Workers : \/ work'[w] = work[w]
                            \/ ~(work[w].at # "free" /\ work[w].to = p) /\ ~(work'[w].at # "free" /\ work'[w].to = p),
         \A s \in Callers : \/ call'[s] = call[s]
                            \/ /\ ~(call[s].at = "scheduling" /\ call[s].to = p)
                               /\ ~(call'[s].at = "scheduling" /\ call'[s].to = p),
         p \notin P => (IsNegotiating(p) => IsNegotiating(p)'),
         IsNegotiating(p)' => IsNegotiating(p) /\ entry'[p] = entry[p]
  PROVE  OneOffers(p)' /\ (IsNegotiating(p)' => Tended(p)')
<1>1. Offers(p)' = Offers(p)
  BY DEF Offers
<1>2. Calls(p)' = Calls(p)
  BY DEF Calls
<1>3. OneOffers(p)'
  <2>1. CASE p \in P
    BY <2>1, Cleared
  <2>2. CASE p \notin P
    BY <1>1, <1>2, <2>2 DEF OneOffers, Clears, Busy, OneOnly
  <2> QED BY <2>1, <2>2
<1>4. ASSUME IsNegotiating(p)' PROVE Tended(p)'
  <2>1. Tended(p) /\ entry'[p] = entry[p]
    BY <1>4
  <2>2. CASE \E s \in Callers : call[s].at = "scheduling" /\ call[s].to = p /\ call[s].obj = entry[p]
    BY <2>1, <2>2 DEF Tended
  <2>3. CASE \E w \in Workers : work[w] # Free /\ Tends(w, p)
    <3>1. PICK w \in Workers : work[w] # Free /\ Tends(w, p)
      BY <2>3
    <3>2. work[w].at # "free" /\ work[w].to = p
      BY <3>1 DEF Tends
    <3>3. work'[w] = work[w]
      BY <3>2
    <3> QED BY <2>1, <3>1, <3>3 DEF Tended, Tends, Free
  <2>4. CASE entry[p] \in handed \cup stranded
    BY <2>1, <2>4 DEF Tended
  <2> QED BY <2>1, <2>2, <2>3, <2>4 DEF Tended
<1> QED BY <1>3, <1>4

\* A step of somebody who offers nothing.
LEMMA Quiet ==
  ASSUME WebRtcInv, NEW P \in SUBSET Remotes, Clears(P), UNCHANGED <<work, handed>>,
         stranded \subseteq stranded', stranded' \subseteq Ids, broken' \subseteq Ids,
         call' \in [Callers -> Coroutines],
         \A s \in Callers : call'[s] = call[s] \/ (call[s].at # "scheduling" /\ call'[s].at # "scheduling"),
         running' \in BOOLEAN, looping' \in BOOLEAN, broker' \in BOOLEAN,
         todo' \subseteq Remotes, stops' \in 0..MaxStops, OpenIsUsed',
         objs' \in Seq(PeerConnections), Len(objs') = Len(objs), DOMAIN objs' = DOMAIN objs,
         \A o \in DOMAIN objs : objs'[o].to = objs[o].to /\ (objs'[o].negotiating => objs[o].negotiating),
         entry' \in [Remotes -> {0} \cup DOMAIN objs],
         \A p \in Remotes : entry'[p] \in {0, entry[p]},
         \A p \in Remotes \ P : entry'[p] = entry[p]
            /\ (entry[p] # 0 => objs'[entry[p]].negotiating = objs[entry[p]].negotiating)
  PROVE  WebRtcInv'
<1>1. Named'
  BY DEF Named, WebRtcInv, WebRtcTypeOK
<1>2. cleared' \subseteq Remotes
  BY DEF Clears, WebRtcInv, WebRtcTypeOK
<1>3. WebRtcTypeOK'
  <2>1. \A o \in DOMAIN objs' : objs'[o] \in PeerConnections
    OBVIOUS
  <2> QED BY <1>2, <2>1 DEF WebRtcInv, WebRtcTypeOK
<1>4. ASSUME NEW p \in Remotes PROVE OneOffers(p)' /\ (IsNegotiating(p)' => Tended(p)')
  <2>1. OneOffers(p) /\ (IsNegotiating(p) => Tended(p)) /\ WebRtcTypeOK
    BY DEF WebRtcInv
  <2>2. entry[p] # 0 => entry[p] \in DOMAIN objs
    BY <2>1 DEF WebRtcTypeOK
  <2>3. IsNegotiating(p)' => IsNegotiating(p) /\ entry'[p] = entry[p]
    BY <2>2 DEF IsNegotiating
  <2>4. p \notin P => (IsNegotiating(p) => IsNegotiating(p)')
    BY <2>2 DEF IsNegotiating
  <2> QED BY <2>1, <2>3, <2>4, Undisturbed
<1> QED BY <1>1, <1>3, <1>4 DEF WebRtcInv

LEMMA CallKeeps == ASSUME WebRtcInv, NEW s \in Callers, NEW p \in Remotes, Call(s, p) PROVE WebRtcInv'
<1>1. call' \in [Callers -> Coroutines] /\ call'[s].at = "checked" /\ call[s].at = "free"
      /\ \A t \in Callers \ {s} : call'[t] = call[t]
  BY CoFacts DEF Call, Says, WebRtcInv, WebRtcTypeOK, Free
<1> QED BY <1>1, Quiet DEF Call, Keeps, WebRtcInv, WebRtcTypeOK, Named, OpenIsUsed

LEMMA ChannelSentKeeps == ASSUME WebRtcInv, NEW s \in Callers, ChannelSent(s) PROVE WebRtcInv'
<1>1. call' \in [Callers -> Coroutines] /\ call'[s].at = "free" /\ call[s].at = "sending"
      /\ \A t \in Callers \ {s} : call'[t] = call[t]
  BY CoFacts DEF ChannelSent, Says, WebRtcInv, WebRtcTypeOK, Free
<1> QED BY <1>1, Quiet DEF ChannelSent, Keeps, WebRtcInv, WebRtcTypeOK, Named, OpenIsUsed

LEMMA ChannelFailedKeeps == ASSUME WebRtcInv, NEW s \in Callers, ChannelFailed(s) PROVE WebRtcInv'
<1>0. /\ call[s] \in Coroutines /\ call[s].to \in Remotes /\ call[s].obj \in Ids /\ call[s].at = "sending"
      /\ entry \in [Remotes -> {0} \cup DOMAIN objs] /\ WebRtcTypeOK /\ Named /\ OpenIsUsed
  BY CoFacts DEF ChannelFailed, WebRtcInv, WebRtcTypeOK
<1>1. call' \in [Callers -> Coroutines] /\ call'[s].at = "free" /\ call[s].at = "sending"
      /\ \A t \in Callers \ {s} : call'[t] = call[t]
  BY <1>0, CoFacts DEF ChannelFailed, Says, WebRtcTypeOK, Free
<1>2. broken' = broken \cup {call[s].obj} /\ broken' \subseteq Ids
  BY <1>0 DEF ChannelFailed, WebRtcTypeOK
<1>3. UNCHANGED <<running, looping, broker, entry, work, todo, stops, handed, stranded>> /\ Clears({})
  BY DEF ChannelFailed, Keeps
<1>4. CASE objs' = objs
  <2>1. OpenIsUsed'
    BY <1>0, <1>2, <1>4 DEF OpenIsUsed
  <2> QED BY <1>0, <1>1, <1>2, <1>3, <1>4, <2>1, Quiet DEF WebRtcTypeOK, Named
<1>5. CASE SameObject(s) /\ entry[call[s].to] # 0
  <2> DEFINE o == entry[call[s].to]
             c == [objs[o] EXCEPT !.connected = FALSE]
  <2>1. o \in DOMAIN objs /\ o = call[s].obj
    BY <1>0, <1>5 DEF SameObject
  <2>2. c \in PeerConnections /\ c.to = objs[o].to /\ c.negotiating = objs[o].negotiating
    BY <2>1, <1>0 DEF WebRtcTypeOK, PeerConnections
  <2>3. objs' = [objs EXCEPT ![o] = c]
    BY <1>5 DEF ChannelFailed
  <2> HIDE DEF c
  <2>4. /\ Len(objs') = Len(objs) /\ DOMAIN objs' = DOMAIN objs /\ objs' \in Seq(PeerConnections)
        /\ objs'[o] = c /\ \A n \in DOMAIN objs \ {o} : objs'[n] = objs[n]
    BY <1>0, <1>3, <2>1, <2>2, <2>3, Reflagged DEF Named
  <2>5. OpenIsUsed'
    BY <1>0, <1>2, <2>1, <2>4 DEF OpenIsUsed
  <2>6. \A n \in DOMAIN objs : objs'[n].to = objs[n].to /\ (objs'[n].negotiating = objs[n].negotiating)
    BY <2>2, <2>4
  <2> HIDE DEF o
  <2>7. \A p \in Remotes : entry[p] # 0 => entry[p] \in DOMAIN objs
    BY <1>0
  <2> QED BY <1>0, <1>1, <1>2, <1>3, <2>4, <2>5, <2>6, <2>7, Quiet DEF WebRtcTypeOK
<1>6. CASE SameObject(s) /\ entry[call[s].to] = 0
  <2>1. call[s].obj = 0
    BY <1>6 DEF SameObject
  <2> QED BY <1>0, <2>1, WebRtcAssumption DEF Ids
<1>7. SameObject(s) \/ objs' = objs
  BY DEF ChannelFailed
<1> QED BY <1>4, <1>5, <1>6, <1>7

LEMMA LoopKeeps ==
  ASSUME WebRtcInv,
         BrokerBack \/ Stop \/ Start \/ RunLoop \/ (\E Q \in SUBSET Remotes : Welcomed(Q))
           \/ (\E p \in Remotes : PeerLeft(p) \/ StopPeer(p))
  PROVE  WebRtcInv'
<1>0. /\ WebRtcTypeOK /\ objs \in Seq(PeerConnections) /\ OpenIsUsed /\ MaxStops \in Nat
      /\ entry \in [Remotes -> {0} \cup DOMAIN objs]
  BY WebRtcAssumption DEF WebRtcInv, WebRtcTypeOK, Named
<1>1. CASE BrokerBack
  BY <1>0, <1>1, Quiet DEF BrokerBack, Keeps, WebRtcTypeOK, OpenIsUsed
<1>2. CASE Stop
  <2>1. todo' \subseteq Remotes /\ stops' \in 0..MaxStops /\ running' = FALSE /\ Clears({})
        /\ UNCHANGED <<looping, broker, entry, objs, work, call, broken, handed, stranded>>
    BY <1>0, <1>2 DEF Stop, Keeps, WebRtcTypeOK
  <2>2. OpenIsUsed'
    BY <1>0, <2>1 DEF OpenIsUsed
  <2> QED BY <1>0, <2>1, <2>2, Quiet DEF WebRtcTypeOK
<1>3. CASE Start \/ RunLoop
  BY <1>0, <1>3, Quiet DEF Start, RunLoop, Keeps, WebRtcTypeOK, OpenIsUsed
<1>4. ASSUME NEW Q \in SUBSET Remotes, Welcomed(Q) PROVE WebRtcInv'
  BY <1>0, <1>4, Quiet DEF Welcomed, Keeps, WebRtcTypeOK, OpenIsUsed
<1>5. ASSUME NEW p \in Remotes, PeerLeft(p) \/ StopPeer(p) PROVE WebRtcInv'
  <2>1. /\ entry' = [entry EXCEPT ![p] = 0] /\ todo' \subseteq Remotes /\ Clears({p})
        /\ UNCHANGED <<running, looping, broker, objs, work, call, stops, broken, handed, stranded>>
    BY <1>0, <1>5 DEF PeerLeft, StopPeer, WebRtcTypeOK
  <2>2. /\ entry' \in [Remotes -> {0} \cup DOMAIN objs] /\ \A q \in Remotes : entry'[q] \in {0, entry[q]}
        /\ \A q \in Remotes \ {p} : entry'[q] = entry[q]
    BY <1>0, <2>1
  <2>3. OpenIsUsed'
    BY <1>0, <2>1 DEF OpenIsUsed
  <2> QED BY <1>0, <2>1, <2>2, <2>3, Quiet DEF WebRtcTypeOK
<1> QED BY <1>1, <1>2, <1>3, <1>4, <1>5

\* One object changes, and is open only if it is connected.
LEMMA ObjectKeeps ==
  ASSUME WebRtcInv, NEW o \in DOMAIN objs, NEW c \in PeerConnections, NEW P \in SUBSET Remotes, Clears(P),
         c.to = objs[o].to, c.negotiating => objs[o].negotiating, c.open /\ o \notin broken => c.connected,
         c.to \in P \/ c.negotiating = objs[o].negotiating, objs' = [objs EXCEPT ![o] = c],
         UNCHANGED <<running, looping, broker, entry, work, todo, call, stops, broken, handed, stranded>>
  PROVE  WebRtcInv'
<1>0. /\ WebRtcTypeOK /\ Named /\ OpenIsUsed /\ entry \in [Remotes -> {0} \cup DOMAIN objs]
  BY DEF WebRtcInv, WebRtcTypeOK
<1>1. /\ Len(objs') = Len(objs) /\ DOMAIN objs' = DOMAIN objs /\ objs' \in Seq(PeerConnections)
      /\ objs'[o] = c /\ \A n \in DOMAIN objs \ {o} : objs'[n] = objs[n]
  BY <1>0, Reflagged DEF Named
<1>2. OpenIsUsed'
  BY <1>0, <1>1 DEF OpenIsUsed
<1>3. \A n \in DOMAIN objs : objs'[n].to = objs[n].to /\ (objs'[n].negotiating => objs[n].negotiating)
  BY <1>1
<1>4. ASSUME NEW p \in Remotes \ P, entry[p] # 0
      PROVE  objs'[entry[p]].negotiating = objs[entry[p]].negotiating
  <2>1. entry[p] \in DOMAIN objs /\ objs[entry[p]].to = p
    BY <1>0, <1>4 DEF Named
  <2> QED BY <1>1, <1>4, <2>1
<1> QED BY <1>0, <1>1, <1>2, <1>3, <1>4, Quiet DEF WebRtcTypeOK

LEMMA EventKeeps ==
  ASSUME WebRtcInv, NEW o \in DOMAIN objs, IceEnds(o) \/ ChannelOpens(o) \/ ChannelCloses(o)
  PROVE  WebRtcInv'
<1>1. objs[o] \in PeerConnections /\ objs[o].to \in Remotes
      /\ (o \notin broken /\ objs[o].open => objs[o].connected)
  BY DEF WebRtcInv, WebRtcTypeOK, PeerConnections, OpenIsUsed
<1>2. CASE IceEnds(o)
  <2> DEFINE c == [objs[o] EXCEPT !.negotiating = FALSE]
  <2>1. c \in PeerConnections /\ c.to = objs[o].to /\ c.negotiating = FALSE
        /\ c.open = objs[o].open /\ c.connected = objs[o].connected
    BY <1>1 DEF PeerConnections
  <2> HIDE DEF c
  <2>2. Event(o, c)
    BY <1>2 DEF IceEnds, c
  <2> QED BY <1>1, <2>1, <2>2, ObjectKeeps DEF Event
<1>3. CASE ChannelOpens(o)
  <2> DEFINE c == [objs[o] EXCEPT !.open = TRUE, !.connected = TRUE, !.negotiating = FALSE]
  <2>1. c \in PeerConnections /\ c.to = objs[o].to /\ c.negotiating = FALSE /\ c.connected = TRUE
    BY <1>1 DEF PeerConnections
  <2> HIDE DEF c
  <2>2. Event(o, c)
    BY <1>3 DEF ChannelOpens, c
  <2> QED BY <1>1, <2>1, <2>2, ObjectKeeps DEF Event
<1>4. CASE ChannelCloses(o)
  <2> DEFINE c == [objs[o] EXCEPT !.open = FALSE, !.connected = FALSE]
  <2>1. c \in PeerConnections /\ c.to = objs[o].to /\ c.negotiating = objs[o].negotiating /\ c.open = FALSE
    BY <1>1 DEF PeerConnections
  <2> HIDE DEF c
  <2>2. Event(o, c)
    BY <1>4 DEF ChannelCloses, c
  <2> QED BY <1>1, <2>1, <2>2, ObjectKeeps DEF Event
<1> QED BY <1>2, <1>3, <1>4

LEMMA AnswerKeeps == ASSUME WebRtcInv, NEW p \in Remotes, AnswerReceived(p) PROVE WebRtcInv'
<1> DEFINE o == entry[p]
           c == [objs[o] EXCEPT !.remote = TRUE]
<1>1. o \in DOMAIN objs /\ objs[o] \in PeerConnections
  BY DEF AnswerReceived, WebRtcInv, WebRtcTypeOK
<1>2. c \in PeerConnections /\ c.to = objs[o].to /\ c.negotiating = objs[o].negotiating
      /\ c.open = objs[o].open /\ c.connected = objs[o].connected
  BY <1>1 DEF PeerConnections
<1>3. objs' = [objs EXCEPT ![o] = c] /\ Clears({})
      /\ UNCHANGED <<running, looping, broker, entry, work, todo, call, stops, broken, handed, stranded>>
  BY DEF AnswerReceived, Keeps
<1> HIDE DEF c, o
<1>4. c.open /\ o \notin broken => c.connected
  BY <1>1, <1>2 DEF WebRtcInv, OpenIsUsed
<1> QED BY <1>1, <1>2, <1>3, <1>4, ObjectKeeps

LEMMA BrokerLostKeeps == ASSUME WebRtcInv, BrokerLost PROVE WebRtcInv'
<1>0. /\ WebRtcTypeOK /\ objs \in Seq(PeerConnections) /\ OpenIsUsed
      /\ entry \in [Remotes -> {0} \cup DOMAIN objs]
  BY DEF WebRtcInv, WebRtcTypeOK, Named
<1>1. /\ Clears(Remotes) /\ broker' = FALSE
      /\ objs' = [o \in DOMAIN objs |-> IF entry[objs[o].to] = o THEN [objs[o] EXCEPT !.negotiating = FALSE]
                                                                ELSE objs[o]]
      /\ UNCHANGED <<running, looping, entry, work, todo, call, stops, broken, handed, stranded>>
  BY DEF BrokerLost
<1>2. ASSUME NEW o \in DOMAIN objs
      PROVE  /\ objs'[o] \in PeerConnections /\ objs'[o].to = objs[o].to /\ objs'[o].open = objs[o].open
             /\ objs'[o].connected = objs[o].connected /\ (objs'[o].negotiating => objs[o].negotiating)
  <2>1. objs[o] \in PeerConnections
    BY <1>0
  <2> QED BY <1>1, <2>1 DEF PeerConnections
<1>3. objs' \in Seq(PeerConnections) /\ Len(objs') = Len(objs) /\ DOMAIN objs' = DOMAIN objs
  <2>1. DOMAIN objs = 1..Len(objs) /\ Len(objs) \in Nat
    BY <1>0
  <2> DEFINE f == objs'
  <2>2. f = [o \in 1..Len(objs) |-> f[o]]
    BY <1>1, <2>1
  <2> HIDE DEF f
  <2>3. \A o \in 1..Len(objs) : f[o] \in PeerConnections
    BY <1>2, <2>1 DEF f
  <2>4. f \in Seq(PeerConnections) /\ Len(f) = Len(objs) /\ DOMAIN f = 1..Len(objs)
    BY <2>1, <2>2, <2>3
  <2> QED BY <2>1, <2>4 DEF f
<1>4. OpenIsUsed'
  BY <1>0, <1>1, <1>2, <1>3 DEF OpenIsUsed
<1> QED BY <1>0, <1>1, <1>2, <1>3, <1>4, Quiet DEF WebRtcTypeOK

LEMMA Makes ==
  \A p \in Remotes, b \in BOOLEAN : \A c \in {Stub(p), Real(p, b)} :
    c \in PeerConnections /\ c.to = p /\ c.negotiating = TRUE /\ c.open = FALSE
<1>. SUFFICES ASSUME NEW p \in Remotes, NEW b \in BOOLEAN, NEW c \in {Stub(p), Real(p, b)}
              PROVE  c \in PeerConnections /\ c.to = p /\ c.negotiating = TRUE /\ c.open = FALSE
  OBVIOUS
<1>1. Stub(p) \in PeerConnections /\ Stub(p).to = p /\ Stub(p).negotiating = TRUE /\ Stub(p).open = FALSE
  BY DEF Stub, PeerConnections
<1>2. Real(p, b) \in PeerConnections /\ Real(p, b).to = p /\ Real(p, b).negotiating = TRUE /\ Real(p, b).open = FALSE
  BY DEF Real, Stub, PeerConnections
<1> QED BY <1>1, <1>2

LEMMA Registered ==
  ASSUME WebRtcInv, NEW p \in Remotes, NEW b \in BOOLEAN, NEW c \in {Stub(p), Real(p, b)}, Register(c),
         UNCHANGED broken
  PROVE  /\ New \in Ids /\ entry'[p] = New /\ IsNegotiating(p)' /\ OpenIsUsed' /\ Named'
         /\ \A q \in Remotes \ {p} : entry'[q] = entry[q] /\ (IsNegotiating(q)' = IsNegotiating(q))
         /\ entry' \in [Remotes -> {0} \cup DOMAIN objs'] /\ Len(objs') \in 0..MaxObjects
         /\ \A o \in DOMAIN objs' : objs'[o] \in PeerConnections
<1>a. c \in PeerConnections /\ c.to = p /\ c.negotiating = TRUE /\ c.open = FALSE
  <2>1. CASE c = Stub(p)
    BY <2>1, Makes
  <2>2. CASE c = Real(p, b)
    BY <2>2, Makes
  <2>. QED BY <2>1, <2>2
<1>b. WebRtcTypeOK /\ Named /\ OpenIsUsed
  BY DEF WebRtcInv
<1>0. c \in PeerConnections /\ c.to = p /\ c.negotiating = TRUE /\ c.open = FALSE /\ WebRtcTypeOK /\ Named
      /\ OpenIsUsed
  BY <1>a, <1>b
<1>1. /\ New \in Ids /\ New # 0 /\ New \notin DOMAIN objs /\ DOMAIN objs \subseteq DOMAIN objs'
      /\ New \in DOMAIN objs' /\ objs' \in Seq(PeerConnections) /\ Len(objs') \in 0..MaxObjects
      /\ \A o \in DOMAIN objs' : o = New \/ o \in DOMAIN objs
      /\ objs'[New] = c /\ \A o \in DOMAIN objs : objs'[o] = objs[o]
      /\ entry'[p] = New /\ \A q \in Remotes : q # p => entry'[q] = entry[q]
      /\ entry' \in [Remotes -> {0} \cup DOMAIN objs'] /\ Named'
  BY <1>0, NewObject
<1>2. OpenIsUsed'
  BY <1>0, <1>1 DEF OpenIsUsed
<1>3. IsNegotiating(p)'
  BY <1>0, <1>1 DEF IsNegotiating
<1>4. ASSUME NEW q \in Remotes \ {p} PROVE entry'[q] = entry[q] /\ IsNegotiating(q)' = IsNegotiating(q)
  <2>1. entry'[q] = entry[q] /\ entry[q] \in {0} \cup DOMAIN objs
    BY <1>0, <1>1 DEF WebRtcTypeOK
  <2> QED BY <1>1, <2>1 DEF IsNegotiating
<1>5. \A o \in DOMAIN objs' : objs'[o] \in PeerConnections
  BY <1>1
<1> QED BY <1>1, <1>2, <1>3, <1>4, <1>5

\* The first to offer to a remote.
LEMMA Engaged ==
  ASSUME NEW p \in Remotes, OneOffers(p), ~IsNegotiating(p), IsNegotiating(p)', Keeps,
         \/ UNCHANGED work /\ \E s \in Callers : \A t \in Callers \ {s} : call'[t] = call[t]
         \/ UNCHANGED call /\ \E w \in Workers : \A x \in Workers \ {w} : work'[x] = work[x],
         Busy(p)'
  PROVE  OneOffers(p)'
<1>1. CASE p \in cleared
  BY <1>1 DEF OneOffers, Keeps, Clears
<1>2. CASE p \notin cleared
  <2>1. Offers(p) = {} /\ Calls(p) = {}
    BY <1>2 DEF OneOffers, Busy
  <2>2. OneOnly(p)'
    <3>1. CASE UNCHANGED work /\ \E s \in Callers : \A t \in Callers \ {s} : call'[t] = call[t]
      <4>1. PICK s \in Callers : \A t \in Callers \ {s} : call'[t] = call[t]
        BY <3>1
      <4>2. Offers(p)' = {} /\ Calls(p)' \subseteq {s}
        BY <2>1, <3>1, <4>1 DEF Offers, Calls
      <4> QED BY <4>2 DEF OneOnly
    <3>2. CASE UNCHANGED call /\ \E w \in Workers : \A x \in Workers \ {w} : work'[x] = work[x]
      <4>1. PICK w \in Workers : \A x \in Workers \ {w} : work'[x] = work[x]
        BY <3>2
      <4>2. Calls(p)' = {} /\ Offers(p)' \subseteq {w}
        BY <2>1, <3>2, <4>1 DEF Offers, Calls
      <4> QED BY <4>2 DEF OneOnly
    <3> QED BY <3>1, <3>2
  <2> QED BY <2>2 DEF OneOffers
<1> QED BY <1>1, <1>2

LEMMA DecideKeeps == ASSUME WebRtcInv, NEW s \in Callers, Decide(s) PROVE WebRtcInv'
<1>a. /\ WebRtcTypeOK /\ Named /\ OpenIsUsed /\ objs \in Seq(PeerConnections)
      /\ entry \in [Remotes -> {0} \cup DOMAIN objs]
      /\ call \in [Callers -> Coroutines] /\ call[s].at = "checked" /\ call[s].to \in Remotes
  BY CoFacts DEF Decide, WebRtcInv, WebRtcTypeOK, Named
<1>b. PICK p \in Remotes : p = call[s].to
  BY <1>a
<1>0. /\ WebRtcTypeOK /\ Named /\ OpenIsUsed /\ objs \in Seq(PeerConnections)
      /\ entry \in [Remotes -> {0} \cup DOMAIN objs]
      /\ call \in [Callers -> Coroutines] /\ call[s].at = "checked" /\ call[s].to = p
  BY <1>a, <1>b
<1>1. UNCHANGED <<running, looping, broker, work, todo, stops, broken, handed, stranded>> /\ Keeps /\ Clears({})
  BY DEF Decide, Keeps
<1>2. entry[p] # 0 => entry[p] \in Ids /\ entry[p] \in DOMAIN objs
  <2>1. DOMAIN objs = 1..Len(objs) /\ Len(objs) \in 0..MaxObjects /\ MaxObjects \in Nat
    BY <1>0, WebRtcAssumption DEF WebRtcTypeOK
  <2>2. DOMAIN objs \subseteq Ids
    BY <2>1 DEF Ids
  <2> QED BY <1>0, <2>2
<1>3. CASE /\ UNCHANGED <<entry, objs>>
           /\ \/ Says(s, Free)
              \/ IsConnected(p) /\ Says(s, [at |-> "sending", to |-> p, obj |-> entry[p]])
  <2>1. call' \in [Callers -> Coroutines] /\ call'[s].at # "scheduling"
        /\ \A t \in Callers \ {s} : call'[t] = call[t]
    <3>1. CASE Says(s, Free)
      BY <1>0, <3>1, CoFacts DEF Says, Free
    <3>2. CASE IsConnected(p) /\ Says(s, [at |-> "sending", to |-> p, obj |-> entry[p]])
      <4>1. entry[p] \in Ids
        BY <1>2, <3>2 DEF IsConnected
      <4>. DEFINE c == [at |-> "sending", to |-> p, obj |-> entry[p]]
      <4>2. c \in Coroutines /\ c.at # "scheduling" /\ call' = [call EXCEPT ![s] = c]
        BY <3>2, <4>1, CoFacts DEF Says
      <4>. HIDE DEF c
      <4>. QED BY <1>0, <4>2
    <3>. QED BY <1>3, <3>1, <3>2
  <2> QED BY <1>0, <1>1, <1>3, <2>1, Quiet DEF WebRtcTypeOK, OpenIsUsed
<1>4. ASSUME ~IsNegotiating(p), NEW o \in Ids, Says(s, [at |-> "scheduling", to |-> p, obj |-> o]),
             IsNegotiating(p)', entry'[p] = o,
             entry' \in [Remotes -> {0} \cup DOMAIN objs'], Len(objs') \in 0..MaxObjects,
             \A n \in DOMAIN objs' : objs'[n] \in PeerConnections, Named', OpenIsUsed',
             \A q \in Remotes \ {p} : entry'[q] = entry[q] /\ IsNegotiating(q)' = IsNegotiating(q)
      PROVE  WebRtcInv'
  <2>1. /\ call' \in [Callers -> Coroutines] /\ call'[s] = [at |-> "scheduling", to |-> p, obj |-> o]
        /\ \A t \in Callers \ {s} : call'[t] = call[t]
    BY <1>0, <1>4, CoFacts DEF Says
  <2>2. cleared' \subseteq Remotes
    BY <1>0, <1>1 DEF Clears, WebRtcTypeOK
  <2>3. WebRtcTypeOK'
    BY <1>0, <1>1, <1>4, <2>1, <2>2 DEF WebRtcTypeOK
  <2>4. OneOffers(p)' /\ Tended(p)'
    <3>1. s \in Calls(p)'
      BY <2>1 DEF Calls
    <3>2. OneOffers(p)
      BY <1>0 DEF WebRtcInv
    <3>3. OneOffers(p)'
      BY <1>0, <1>1, <1>4, <2>1, <3>1, <3>2, Engaged DEF Busy
    <3> QED BY <1>4, <2>1, <3>3 DEF Tended
  <2>5. ASSUME NEW q \in Remotes, q # p PROVE OneOffers(q)' /\ (IsNegotiating(q)' => Tended(q)')
    <3>1. OneOffers(q) /\ (IsNegotiating(q) => Tended(q))
      BY DEF WebRtcInv
    <3> QED BY <1>0, <1>1, <1>4, <2>1, <2>5, <3>1, Undisturbed
  <2> QED BY <1>4, <2>3, <2>4, <2>5 DEF WebRtcInv
<1>5. CASE /\ ~IsNegotiating(p) /\ entry[p] = 0 /\ Register(Stub(p))
           /\ Says(s, [at |-> "scheduling", to |-> p, obj |-> New])
  <2>1. Stub(p) \in {Stub(p), Real(p, FALSE)}
    OBVIOUS
  <2> QED BY <1>0, <1>1, <1>4, <1>5, <2>1, Registered
<1>6. CASE /\ ~IsNegotiating(p) /\ entry[p] # 0 /\ objs' = Marked(p) /\ UNCHANGED entry
           /\ Says(s, [at |-> "scheduling", to |-> p, obj |-> entry[p]])
  <2> DEFINE o == entry[p]
             c == [objs[o] EXCEPT !.negotiating = TRUE]
  <2>1. o \in DOMAIN objs /\ objs[o] \in PeerConnections /\ objs' = [objs EXCEPT ![o] = c]
    BY <1>0, <1>2, <1>6 DEF Marked, WebRtcTypeOK
  <2>2. c \in PeerConnections /\ c.to = objs[o].to /\ c.negotiating = TRUE
        /\ c.open = objs[o].open /\ c.connected = objs[o].connected
    BY <2>1 DEF PeerConnections
  <2> HIDE DEF c
  <2>3. /\ Len(objs') = Len(objs) /\ DOMAIN objs' = DOMAIN objs
        /\ \A n \in DOMAIN objs' : objs'[n] \in PeerConnections
        /\ Named' /\ objs'[o] = c /\ \A n \in DOMAIN objs \ {o} : objs'[n] = objs[n]
    BY <1>0, <1>6, <2>1, <2>2, Reflagged
  <2>4. OpenIsUsed' /\ IsNegotiating(p)'
    BY <1>0, <1>1, <1>6, <2>1, <2>2, <2>3 DEF OpenIsUsed, IsNegotiating
  <2>5. ASSUME NEW q \in Remotes \ {p} PROVE IsNegotiating(q)' = IsNegotiating(q)
    <3>1. entry[q] # 0 => entry[q] \in DOMAIN objs \ {o}
      BY <1>0, <1>6 DEF Named
    <3> QED BY <1>6, <2>3, <3>1 DEF IsNegotiating
  <2> QED BY <1>0, <1>2, <1>4, <1>6, <2>3, <2>4, <2>5 DEF WebRtcTypeOK
<1> QED BY <1>0, <1>3, <1>5, <1>6 DEF Decide

LEMMA Fewer ==
  ASSUME NEW P, Clears(P), NEW p \in Remotes, OneOffers(p), Offers(p)' \subseteq Offers(p), Calls(p)' \subseteq Calls(p),
         IsNegotiating(p) => IsNegotiating(p)'
  PROVE  OneOffers(p)'
<1>1. CASE p \in P
  BY <1>1, Cleared
<1>2. CASE p \notin P
  <2>1. ASSUME p \notin cleared', Busy(p)' PROVE IsNegotiating(p)' /\ OneOnly(p)'
    <3>1. p \notin cleared /\ Busy(p)
      BY <1>2, <2>1 DEF Clears, Busy
    <3>2. IsNegotiating(p) /\ OneOnly(p)
      BY <3>1 DEF OneOffers
    <3> QED BY <3>2 DEF OneOnly
  <2> QED BY <2>1 DEF OneOffers
<1> QED BY <1>1, <1>2

\* A worker of p takes its next step.
LEMMA WorkerKeeps ==
  ASSUME WebRtcInv, NEW p \in Remotes, NEW w \in Workers, NEW c \in Coroutines, NEW P \in SUBSET Remotes, Clears(P),
         Does(w, c), work[w] = Free \/ work[w].to = p, c = Free \/ c.to = p,
         UNCHANGED <<running, looping, broker, call, stops, broken>>, todo' \subseteq todo,
         handed \subseteq handed', stranded \subseteq stranded', handed' \subseteq Ids, stranded' \subseteq Ids,
         P \subseteq {p},
         OneOffers(p)', IsNegotiating(p)' => Tended(p)',
         entry' \in [Remotes -> {0} \cup DOMAIN objs'], Len(objs') \in 0..MaxObjects,
         \A n \in DOMAIN objs' : objs'[n] \in PeerConnections, Named', OpenIsUsed',
         \A q \in Remotes \ {p} : entry'[q] = entry[q] /\ IsNegotiating(q)' = IsNegotiating(q)
  PROVE  WebRtcInv'
<1>0. WebRtcTypeOK /\ \A q \in Remotes : OneOffers(q) /\ (IsNegotiating(q) => Tended(q))
  BY DEF WebRtcInv
<1>1. work' \in [Workers -> Coroutines] /\ work'[w] = c /\ \A x \in Workers \ {w} : work'[x] = work[x]
  BY <1>0 DEF Does, WebRtcTypeOK
<1>2. cleared' \subseteq Remotes
  BY <1>0 DEF Clears, WebRtcTypeOK
<1>3. WebRtcTypeOK'
  BY <1>0, <1>1, <1>2 DEF WebRtcTypeOK
<1>4. ASSUME NEW q \in Remotes, q # p PROVE OneOffers(q)' /\ (IsNegotiating(q)' => Tended(q)')
  <2>1. \A x \in Workers : \/ work'[x] = work[x]
                           \/ ~(work[x].at # "free" /\ work[x].to = q) /\ ~(work'[x].at # "free" /\ work'[x].to = q)
    BY <1>1, <1>4 DEF Free
  <2> QED BY <1>0, <1>4, <2>1, Undisturbed
<1> QED BY <1>3, <1>4 DEF WebRtcInv

\* The same with the objects as they were.
LEMMA MarkWritten ==
  ASSUME WebRtcInv, UNCHANGED <<entry, objs, broken>>
  PROVE  /\ entry' \in [Remotes -> {0} \cup DOMAIN objs'] /\ Len(objs') \in 0..MaxObjects
         /\ \A n \in DOMAIN objs' : objs'[n] \in PeerConnections
         /\ Named' /\ OpenIsUsed' /\ \A q \in Remotes : IsNegotiating(q)' = IsNegotiating(q)
BY DEF WebRtcInv, WebRtcTypeOK, Named, OpenIsUsed, IsNegotiating

LEMMA StartOfferKeeps == ASSUME WebRtcInv, NEW w \in Workers, StartOffer(w) PROVE WebRtcInv'
<1>0. WebRtcTypeOK /\ work \in [Workers -> Coroutines] /\ work[w].at = "queued" /\ work[w].to \in Remotes
  BY CoFacts DEF StartOffer, WebRtcInv, WebRtcTypeOK
<1>1. PICK p \in Remotes : p = work[w].to
  BY <1>0
<1>2. /\ Register(Real(p, FALSE)) /\ Does(w, [at |-> "offering", to |-> p, obj |-> New]) /\ Clears({})
      /\ UNCHANGED <<running, looping, broker, todo, call, stops, broken, handed, stranded>>
  BY <1>1 DEF StartOffer, Keeps
<1>3. Real(p, FALSE) \in {Stub(p), Real(p, FALSE)}
  OBVIOUS
<1>4. /\ New \in Ids /\ entry'[p] = New /\ IsNegotiating(p)' /\ OpenIsUsed' /\ Named'
      /\ \A q \in Remotes \ {p} : entry'[q] = entry[q] /\ (IsNegotiating(q)' = IsNegotiating(q))
      /\ entry' \in [Remotes -> {0} \cup DOMAIN objs'] /\ Len(objs') \in 0..MaxObjects
      /\ \A o \in DOMAIN objs' : objs'[o] \in PeerConnections
  BY <1>2, <1>3, Registered
<1>5. PICK c \in Coroutines : c = [at |-> "offering", to |-> p, obj |-> New]
  BY <1>4, CoFacts
<1>6. work'[w] = c /\ \A x \in Workers \ {w} : work'[x] = work[x]
  BY <1>0, <1>2, <1>5 DEF Does
<1>7. Tended(p)'
  BY <1>4, <1>5, <1>6 DEF Tended, Tends, Free
<1>8. Offers(p)' \subseteq Offers(p) /\ Calls(p)' \subseteq Calls(p)
  BY <1>0, <1>1, <1>2, <1>6 DEF Offers, Calls
<1>9. OneOffers(p)'
  BY <1>2, <1>4, <1>8, Fewer DEF WebRtcInv
<1> QED BY <1>0, <1>1, <1>2, <1>4, <1>5, <1>7, <1>9, WorkerKeeps DEF WebRtcTypeOK

LEMMA HandOver ==
  ASSUME WebRtcInv, NEW w \in Workers, looping, work[w].at \in {"offering", "answering"}, NEW b \in BOOLEAN,
         Does(w, Free), Hands(work[w].obj, b), Keeps,
         UNCHANGED <<running, looping, broker, entry, objs, todo, call, stops, broken>>
  PROVE  WebRtcInv'
<1>0. WebRtcTypeOK /\ work \in [Workers -> Coroutines] /\ work[w].to \in Remotes /\ work[w].obj \in Ids
      /\ Free \in Coroutines
  BY CoFacts DEF WebRtcInv, WebRtcTypeOK
<1>1. PICK p \in Remotes : p = work[w].to
  BY <1>0
<1>2. /\ handed \subseteq handed' /\ stranded \subseteq stranded' /\ handed' \subseteq Ids /\ stranded' \subseteq Ids
      /\ work[w].obj \in handed' \cup stranded' /\ Clears({})
  BY <1>0 DEF Hands, WebRtcTypeOK, Keeps
<1>3. work'[w] = Free /\ \A x \in Workers \ {w} : work'[x] = work[x]
  BY <1>0 DEF Does
<1>4. OneOffers(p) /\ (IsNegotiating(p) => Tended(p)) /\ (IsNegotiating(p)' = IsNegotiating(p)) /\ entry'[p] = entry[p]
  BY DEF WebRtcInv, IsNegotiating
<1>5. Offers(p)' \subseteq Offers(p) /\ Calls(p)' \subseteq Calls(p)
  BY <1>3 DEF Offers, Calls, Free
<1>6. OneOffers(p)'
  BY <1>2, <1>4, <1>5, Fewer
<1>7. ASSUME IsNegotiating(p)' PROVE Tended(p)'
  <2>1. CASE \E x \in Workers : work[x] # Free /\ Tends(x, p)
    <3>1. PICK x \in Workers : work[x] # Free /\ Tends(x, p)
      BY <2>1
    <3>2. CASE x = w
      BY <1>2, <1>4, <3>1, <3>2 DEF Tended, Tends
    <3>3. CASE x # w
      BY <1>3, <1>4, <3>1, <3>3 DEF Tended, Tends
    <3> QED BY <3>2, <3>3
  <2>2. CASE entry[p] \in handed \cup stranded
    BY <1>2, <1>4, <2>2 DEF Tended
  <2>3. CASE \E s \in Callers : call[s].at = "scheduling" /\ call[s].to = p /\ call[s].obj = entry[p]
    BY <1>4, <2>3 DEF Tended
  <2> QED BY <1>4, <1>7, <2>1, <2>2, <2>3 DEF Tended
<1> QED BY <1>0, <1>1, <1>2, <1>6, <1>7, MarkWritten, WorkerKeeps

LEMMA HandKeeps ==
  ASSUME WebRtcInv, (\E w \in Workers : SendOffer(w)) \/ (\E b \in BOOLEAN : Answered(b))
  PROVE  WebRtcInv'
<1>0. Reader \in Workers /\ broker \in BOOLEAN
  BY DEF Workers, WebRtcInv, WebRtcTypeOK
<1>1. ASSUME NEW w \in Workers, SendOffer(w) PROVE WebRtcInv'
  BY <1>0, <1>1, HandOver DEF SendOffer
<1>2. ASSUME NEW b \in BOOLEAN, Answered(b) PROVE WebRtcInv'
  <2>1. (b /\ broker) \in BOOLEAN
    OBVIOUS
  <2>2. /\ looping /\ work[Reader].at = "answering" /\ Does(Reader, Free) /\ Hands(work[Reader].obj, b /\ broker)
        /\ Keeps /\ UNCHANGED <<running, looping, broker, entry, objs, todo, call, stops, broken>>
    BY <1>2 DEF Answered
  <2> QED BY <1>0, <2>1, <2>2, HandOver
<1> QED BY <1>1, <1>2

LEMMA OfferFailsKeeps == ASSUME WebRtcInv, NEW w \in Workers, OfferFails(w) PROVE WebRtcInv'
<1>0. /\ WebRtcTypeOK /\ Named /\ OpenIsUsed /\ work \in [Workers -> Coroutines] /\ work[w].to \in Remotes
      /\ work[w].at \in {"queued", "offering"} /\ Free \in Coroutines
      /\ entry \in [Remotes -> {0} \cup DOMAIN objs]
  BY CoFacts DEF OfferFails, WebRtcInv, WebRtcTypeOK
<1>1. PICK p \in Remotes : p = work[w].to
  BY <1>0
<1>2. /\ Clears({p}) /\ Does(w, Free)
      /\ UNCHANGED <<running, looping, broker, entry, todo, call, stops, broken, handed, stranded>>
  BY <1>1 DEF OfferFails
<1>3. work'[w] = Free /\ \A x \in Workers \ {w} : work'[x] = work[x]
  BY <1>0, <1>2 DEF Does
<1>4. OneOffers(p)'
  BY <1>2, Cleared
<1>5. IsNegotiating(p) => Tended(p)
  BY DEF WebRtcInv
<1>6. /\ handed \subseteq handed' /\ stranded \subseteq stranded' /\ handed' \subseteq Ids /\ stranded' \subseteq Ids
      /\ todo' \subseteq todo
  BY <1>0, <1>2 DEF WebRtcTypeOK
<1>7. CASE objs' = objs /\ (entry[p] = 0 \/ (work[w].at = "offering" /\ work[w].obj # entry[p]))
  <2>1. ASSUME IsNegotiating(p)' PROVE Tended(p)'
    <3>1. Tended(p) /\ work[w].at = "offering" /\ work[w].obj # entry[p]
      BY <1>2, <1>5, <1>7, <2>1 DEF IsNegotiating
    <3>2. ~Tends(w, p)
      BY <3>1 DEF Tends
    <3> QED BY <1>2, <1>3, <3>1, <3>2 DEF Tended, Tends
  <2> QED BY <1>0, <1>1, <1>2, <1>4, <1>6, <1>7, <2>1, MarkWritten, WorkerKeeps
<1>8. CASE objs' = Ends(entry[p]) /\ entry[p] # 0
  <2>1. PICK o \in DOMAIN objs : o = entry[p] /\ objs[o] \in PeerConnections
    BY <1>0, <1>8 DEF WebRtcTypeOK
  <2> DEFINE c == [objs[o] EXCEPT !.negotiating = FALSE]
  <2>2. c \in PeerConnections /\ c.to = objs[o].to /\ c.negotiating = FALSE
        /\ c.open = objs[o].open /\ c.connected = objs[o].connected
    BY <2>1 DEF PeerConnections
  <2>3. objs' = [objs EXCEPT ![o] = c]
    BY <1>8, <2>1 DEF Ends
  <2> HIDE DEF c
  <2>4. /\ Len(objs') = Len(objs) /\ DOMAIN objs' = DOMAIN objs
        /\ \A n \in DOMAIN objs' : objs'[n] \in PeerConnections
        /\ Named' /\ objs'[o] = c /\ \A n \in DOMAIN objs \ {o} : objs'[n] = objs[n]
    BY <1>0, <1>2, <2>1, <2>2, <2>3, Reflagged
  <2>5. OpenIsUsed' /\ ~IsNegotiating(p)'
    BY <1>0, <1>2, <2>1, <2>2, <2>4 DEF OpenIsUsed, IsNegotiating
  <2>6. ASSUME NEW q \in Remotes \ {p} PROVE IsNegotiating(q)' = IsNegotiating(q)
    <3>1. entry[q] # 0 => entry[q] \in DOMAIN objs \ {o}
      BY <1>0, <1>8, <2>1 DEF Named
    <3> QED BY <1>2, <2>4, <3>1 DEF IsNegotiating
  <2>7. entry' \in [Remotes -> {0} \cup DOMAIN objs'] /\ Len(objs') \in 0..MaxObjects
    BY <1>0, <1>2, <2>4 DEF WebRtcTypeOK
  <2> QED BY <1>0, <1>1, <1>2, <1>4, <1>6, <2>4, <2>5, <2>6, <2>7, WorkerKeeps
<1>9. \/ objs' = objs /\ (entry[p] = 0 \/ (work[w].at = "offering" /\ work[w].obj # entry[p]))
      \/ objs' = Ends(entry[p]) /\ entry[p] # 0
  BY <1>0, <1>1 DEF OfferFails, FailedOffer
<1> QED BY <1>7, <1>8, <1>9

\* An offer that is not begun strands the entry it would have replaced.
LEMMA OfferNotBegunKeeps == ASSUME WebRtcInv, NEW w \in Workers, OfferNotBegun(w) PROVE WebRtcInv'
<1>0. /\ WebRtcTypeOK /\ work \in [Workers -> Coroutines] /\ work[w].to \in Remotes
      /\ Free \in Coroutines /\ DOMAIN objs \subseteq Ids
  <2>1. WebRtcTypeOK /\ Named /\ work[w].at = "queued"
    BY DEF WebRtcInv, OfferNotBegun
  <2>2. DOMAIN objs = 1..Len(objs) /\ Len(objs) \in 0..MaxObjects /\ MaxObjects \in Nat
    BY <2>1, WebRtcAssumption DEF WebRtcTypeOK, Named
  <2>3. DOMAIN objs \subseteq Ids
    BY <2>2 DEF Ids
  <2> QED BY <2>1, <2>3, CoFacts DEF WebRtcTypeOK
<1>1. PICK p \in Remotes : p = work[w].to
  BY <1>0
<1>2. /\ Clears({}) /\ Does(w, Free) /\ stranded' = stranded \cup ({entry[p]} \ {0})
      /\ UNCHANGED <<running, looping, broker, entry, objs, todo, call, stops, broken, handed>>
  BY <1>1 DEF OfferNotBegun, Keeps
<1>3. work'[w] = Free /\ \A x \in Workers \ {w} : work'[x] = work[x]
  BY <1>0, <1>2 DEF Does
<1>4. /\ handed \subseteq handed' /\ stranded \subseteq stranded' /\ handed' \subseteq Ids /\ stranded' \subseteq Ids
  BY <1>0, <1>2 DEF WebRtcTypeOK
<1>5. Offers(p)' \subseteq Offers(p) /\ Calls(p)' \subseteq Calls(p)
  BY <1>2, <1>3 DEF Offers, Calls, Free
<1>6. OneOffers(p) /\ (IsNegotiating(p)' = IsNegotiating(p))
  BY <1>2 DEF WebRtcInv, IsNegotiating
<1>7. OneOffers(p)'
  BY <1>2, <1>5, <1>6, Fewer
<1>8. ASSUME IsNegotiating(p)' PROVE Tended(p)'
  <2>1. entry'[p] \in stranded'
    BY <1>2, <1>6, <1>8 DEF IsNegotiating
  <2> QED BY <2>1 DEF Tended
<1> QED BY <1>0, <1>1, <1>2, <1>4, <1>7, <1>8, MarkWritten, WorkerKeeps

\* The reader begins an offer or an answer, with a new object.
LEMMA ReaderKeeps ==
  ASSUME WebRtcInv, NEW p \in Remotes, (entry[p] = 0 /\ WelcomePeer(p)) \/ OfferReceived(p)
  PROVE  WebRtcInv'
<1>0. /\ WebRtcTypeOK /\ work \in [Workers -> Coroutines] /\ Reader \in Workers /\ work[Reader] = Free
  BY DEF WelcomePeer, OfferReceived, Reading, Workers, WebRtcInv, WebRtcTypeOK
<1>1. CASE entry[p] = 0 /\ WelcomePeer(p)
  <2>1. /\ Register(Stub(p)) /\ Does(Reader, [at |-> "queued", to |-> p]) /\ todo' \subseteq todo /\ Keeps /\ Clears({})
        /\ UNCHANGED <<running, looping, broker, call, stops, broken, handed, stranded>>
    BY <1>1 DEF WelcomePeer, Keeps
  <2>2. Stub(p) \in {Stub(p), Real(p, FALSE)}
    OBVIOUS
  <2>3. /\ New \in Ids /\ entry'[p] = New /\ IsNegotiating(p)' /\ OpenIsUsed' /\ Named'
        /\ \A q \in Remotes \ {p} : entry'[q] = entry[q] /\ (IsNegotiating(q)' = IsNegotiating(q))
        /\ entry' \in [Remotes -> {0} \cup DOMAIN objs'] /\ Len(objs') \in 0..MaxObjects
        /\ \A o \in DOMAIN objs' : objs'[o] \in PeerConnections
    BY <2>1, <2>2, Registered
  <2>4. PICK c \in Coroutines : c = [at |-> "queued", to |-> p]
    BY CoFacts
  <2>5. work'[Reader] = c /\ \A x \in Workers \ {Reader} : work'[x] = work[x]
    BY <1>0, <2>1, <2>4 DEF Does
  <2>6. Tended(p)' /\ Busy(p)'
    BY <1>0, <2>4, <2>5 DEF Tended, Tends, Free, Busy, Offers
  <2>7. OneOffers(p) /\ ~IsNegotiating(p)
    BY <1>1 DEF WebRtcInv, IsNegotiating
  <2>8. OneOffers(p)'
    BY <1>0, <2>1, <2>3, <2>5, <2>6, <2>7, Engaged
  <2> QED BY <1>0, <2>1, <2>3, <2>4, <2>6, <2>8, WorkerKeeps DEF WebRtcTypeOK
<1>2. CASE OfferReceived(p)
  <2>1. /\ Register(Real(p, TRUE)) /\ Does(Reader, [at |-> "answering", to |-> p, obj |-> New]) /\ Clears({p})
        /\ UNCHANGED <<running, looping, broker, todo, call, stops, broken, handed, stranded>>
    BY <1>2 DEF OfferReceived
  <2>2. Real(p, TRUE) \in {Stub(p), Real(p, TRUE)}
    OBVIOUS
  <2>3. /\ New \in Ids /\ entry'[p] = New /\ IsNegotiating(p)' /\ OpenIsUsed' /\ Named'
        /\ \A q \in Remotes \ {p} : entry'[q] = entry[q] /\ (IsNegotiating(q)' = IsNegotiating(q))
        /\ entry' \in [Remotes -> {0} \cup DOMAIN objs'] /\ Len(objs') \in 0..MaxObjects
        /\ \A o \in DOMAIN objs' : objs'[o] \in PeerConnections
    BY <2>1, <2>2, Registered
  <2>4. PICK c \in Coroutines : c = [at |-> "answering", to |-> p, obj |-> New]
    BY <2>3, CoFacts
  <2>5. work'[Reader] = c
    BY <1>0, <2>1, <2>4 DEF Does
  <2>6. Tended(p)'
    BY <1>0, <2>1, <2>3, <2>4, <2>5 DEF Tended, Tends, Free
  <2>7. OneOffers(p)'
    BY <2>1, Cleared
  <2> QED BY <1>0, <2>1, <2>3, <2>4, <2>6, <2>7, WorkerKeeps DEF WebRtcTypeOK
<1> QED BY <1>1, <1>2

LEMMA WelcomeKeeps == ASSUME WebRtcInv, NEW p \in Remotes, WelcomePeer(p) PROVE WebRtcInv'
<1>1. CASE entry[p] = 0
  BY <1>1, ReaderKeeps
<1>2. CASE entry[p] # 0
  <2>1. /\ todo' \subseteq todo /\ Clears({})
        /\ UNCHANGED <<running, looping, broker, entry, objs, work, call, stops, broken, handed, stranded>>
    BY <1>2 DEF WelcomePeer, Keeps
  <2>2. /\ WebRtcTypeOK /\ objs \in Seq(PeerConnections) /\ OpenIsUsed /\ OpenIsUsed'
    BY <2>1 DEF WebRtcInv, Named, OpenIsUsed
  <2> QED BY <2>1, <2>2, Quiet DEF WebRtcTypeOK
<1> QED BY <1>1, <1>2

LEMMA ScheduleKeeps ==
  ASSUME WebRtcInv, NEW s \in Callers, CannotSchedule(s) \/ \E w \in Slots : Schedule(s, w)
  PROVE  WebRtcInv'
<1>0. /\ WebRtcTypeOK /\ call \in [Callers -> Coroutines] /\ call[s].at = "scheduling" /\ call[s].to \in Remotes
      /\ call[s].obj \in Ids /\ Free \in Coroutines /\ work \in [Workers -> Coroutines]
  BY CoFacts DEF CannotSchedule, Schedule, WebRtcInv, WebRtcTypeOK
<1>1. PICK p \in Remotes : p = call[s].to
  BY <1>0
<1>2. /\ Says(s, Free) /\ Keeps /\ Clears({}) /\ stranded \subseteq stranded'
      /\ UNCHANGED <<running, looping, broker, entry, objs, todo, stops, broken, handed>>
  BY DEF CannotSchedule, Schedule, Keeps
<1>3. call'[s] = Free /\ call' \in [Callers -> Coroutines] /\ \A t \in Callers \ {s} : call'[t] = call[t]
  BY <1>0, <1>2 DEF Says
<1>4. /\ Named' /\ OpenIsUsed' /\ \A q \in Remotes : IsNegotiating(q)' = IsNegotiating(q)
  BY <1>2, MarkWritten
<1>5. OneOffers(p) /\ (IsNegotiating(p) => Tended(p)) /\ s \in Calls(p)
  BY <1>0, <1>1 DEF WebRtcInv, Calls
<1>6. cleared' \subseteq Remotes
  BY <1>0, <1>2 DEF Clears, WebRtcTypeOK
<1>7. Calls(p)' = Calls(p) \ {s}
  BY <1>3 DEF Calls, Free
<1>8. CASE CannotSchedule(s)
  <2>1. UNCHANGED work /\ stranded' = stranded \cup {call[s].obj}
    BY <1>8 DEF CannotSchedule
  <2>2. WebRtcTypeOK'
    BY <1>0, <1>2, <1>3, <1>6, <2>1 DEF WebRtcTypeOK
  <2>3. Offers(p)' = Offers(p)
    BY <2>1 DEF Offers
  <2>4. OneOffers(p)'
    BY <1>2, <1>4, <1>5, <1>7, <2>3, Fewer
  <2>5. ASSUME IsNegotiating(p)' PROVE Tended(p)'
    <3>1. Tended(p)
      BY <1>4, <1>5, <2>5
    <3>2. CASE \E t \in Callers : call[t].at = "scheduling" /\ call[t].to = p /\ call[t].obj = entry[p]
      <4>1. PICK t \in Callers : call[t].at = "scheduling" /\ call[t].to = p /\ call[t].obj = entry[p]
        BY <3>2
      <4>2. CASE t = s
        BY <1>2, <2>1, <4>1, <4>2 DEF Tended
      <4>3. CASE t # s
        BY <1>2, <1>3, <4>1, <4>3 DEF Tended
      <4> QED BY <4>2, <4>3
    <3>3. CASE \E w \in Workers : work[w] # Free /\ Tends(w, p)
      BY <1>2, <2>1, <3>3 DEF Tended, Tends
    <3>4. CASE entry[p] \in handed \cup stranded
      BY <1>2, <3>4 DEF Tended
    <3> QED BY <3>1, <3>2, <3>3, <3>4 DEF Tended
  <2>6. ASSUME NEW q \in Remotes, q # p PROVE OneOffers(q)' /\ (IsNegotiating(q)' => Tended(q)')
    <3>1. OneOffers(q) /\ (IsNegotiating(q) => Tended(q))
      BY DEF WebRtcInv
    <3>2. \A t \in Callers : \/ call'[t] = call[t]
                             \/ /\ ~(call[t].at = "scheduling" /\ call[t].to = q)
                                /\ ~(call'[t].at = "scheduling" /\ call'[t].to = q)
      BY <1>1, <1>3, <2>6 DEF Free
    <3> QED BY <1>0, <1>2, <1>4, <2>1, <3>1, <3>2, Undisturbed
  <2> QED BY <1>4, <2>2, <2>4, <2>5, <2>6 DEF WebRtcInv
<1>9. ASSUME NEW w \in Slots, Schedule(s, w) PROVE WebRtcInv'
  <2>1. /\ UNCHANGED stranded /\ work[w] = Free /\ w \in Workers /\ Does(w, [at |-> "queued", to |-> p])
    BY <1>1, <1>9 DEF Schedule, Workers
  <2>2. /\ work'[w] = [at |-> "queued", to |-> p] /\ work' \in [Workers -> Coroutines]
        /\ \A x \in Workers \ {w} : work'[x] = work[x]
    BY <1>0, <2>1, CoFacts DEF Does
  <2>3. WebRtcTypeOK'
    BY <1>0, <1>2, <1>3, <1>6, <2>1, <2>2 DEF WebRtcTypeOK
  <2>4. Offers(p)' = Offers(p) \cup {w}
    BY <2>1, <2>2 DEF Offers, Free
  <2>5. Tended(p)'
    BY <2>1, <2>2 DEF Tended, Tends, Free
  <2>6. OneOffers(p)'
    <3>1. ASSUME p \notin cleared', Busy(p)' PROVE IsNegotiating(p)' /\ OneOnly(p)'
      <4>1. p \notin cleared
        BY <1>2, <3>1 DEF Clears
      <4>2. IsNegotiating(p) /\ OneOnly(p)
        BY <1>5, <4>1 DEF OneOffers, Busy
      <4>3. Calls(p) = {s} /\ Offers(p) = {}
        BY <1>5, <4>2 DEF OneOnly
      <4>4. Calls(p)' = {} /\ Offers(p)' = {w}
        BY <1>7, <2>4, <4>3
      <4> QED BY <1>4, <4>2, <4>4 DEF OneOnly
    <3> QED BY <3>1 DEF OneOffers
  <2>7. ASSUME NEW q \in Remotes, q # p PROVE OneOffers(q)' /\ (IsNegotiating(q)' => Tended(q)')
    <3>1. OneOffers(q) /\ (IsNegotiating(q) => Tended(q))
      BY DEF WebRtcInv
    <3>2. \A t \in Callers : \/ call'[t] = call[t]
                             \/ /\ ~(call[t].at = "scheduling" /\ call[t].to = q)
                                /\ ~(call'[t].at = "scheduling" /\ call'[t].to = q)
      BY <1>1, <1>3, <2>7 DEF Free
    <3>3. \A x \in Workers : \/ work'[x] = work[x]
                             \/ ~(work[x].at # "free" /\ work[x].to = q) /\ ~(work'[x].at # "free" /\ work'[x].to = q)
      BY <2>1, <2>2, <2>7 DEF Free
    <3> QED BY <1>0, <1>2, <1>4, <2>1, <3>1, <3>2, <3>3, Undisturbed
  <2> QED BY <1>4, <2>3, <2>5, <2>6, <2>7 DEF WebRtcInv
<1> QED BY <1>8, <1>9

LEMMA StopLoopKeeps == ASSUME WebRtcInv, StopLoop PROVE WebRtcInv'
<1>0. /\ WebRtcTypeOK /\ Named /\ Free \in Coroutines /\ work \in [Workers -> Coroutines]
      /\ entry \in [Remotes -> {0} \cup DOMAIN objs] /\ DOMAIN objs \subseteq Ids
  <2>1. WebRtcTypeOK /\ Named
    BY DEF WebRtcInv
  <2>2. DOMAIN objs = 1..Len(objs) /\ Len(objs) \in 0..MaxObjects /\ MaxObjects \in Nat
    BY <2>1, WebRtcAssumption DEF WebRtcTypeOK, Named
  <2>3. DOMAIN objs \subseteq Ids
    BY <2>2 DEF Ids
  <2> QED BY <2>1, <2>3, CoFacts DEF WebRtcTypeOK
<1>1. /\ looping' = FALSE /\ broker' = FALSE /\ todo' = {} /\ work' = [w \in Workers |-> Free]
      /\ stranded' = stranded \cup {o \in DOMAIN objs : Busy(objs[o].to)}
                              \cup {work[w].obj : w \in {x \in Workers : work[x].at = "answering"}}
      /\ UNCHANGED <<running, entry, objs, call, stops, broken, handed>> /\ Clears(Remotes)
  BY DEF StopLoop
<1>2. stranded' \subseteq Ids
  <2>1. \A w \in Workers : work[w].at = "answering" => work[w].obj \in Ids
    BY <1>0, CoFacts
  <2> QED BY <1>0, <1>1, <2>1 DEF WebRtcTypeOK
<1>3. cleared' \subseteq Remotes
  BY <1>0, <1>1 DEF Clears, WebRtcTypeOK
<1>4. /\ Named' /\ OpenIsUsed' /\ \A q \in Remotes : IsNegotiating(q)' = IsNegotiating(q)
  BY <1>1, MarkWritten
<1>5. WebRtcTypeOK'
  BY <1>0, <1>1, <1>2, <1>3 DEF WebRtcTypeOK
<1>6. ASSUME NEW p \in Remotes PROVE OneOffers(p)'
  BY <1>1, Cleared
<1>7. ASSUME NEW p \in Remotes, IsNegotiating(p)' PROVE Tended(p)'
  <2>1. Tended(p) /\ entry[p] # 0
    BY <1>4, <1>7 DEF WebRtcInv, IsNegotiating
  <2>2. entry[p] \in DOMAIN objs /\ objs[entry[p]].to = p
    BY <1>0, <2>1 DEF Named
  <2>3. ASSUME NEW w \in Workers, work[w] # Free, Tends(w, p) PROVE entry[p] \in stranded'
    <3>1. CASE work[w].at \in {"queued", "offering"}
      <4>1. w \in Offers(p)
        BY <2>3, <3>1 DEF Offers, Tends
      <4> QED BY <1>1, <2>2, <4>1 DEF Busy
    <3>2. CASE work[w].at = "answering" /\ work[w].obj = entry[p]
      BY <1>1, <3>2
    <3> QED BY <2>3, <3>1, <3>2 DEF Tends
  <2> QED BY <1>1, <2>1, <2>3 DEF Tended
<1> QED BY <1>4, <1>5, <1>6, <1>7 DEF WebRtcInv

LEMMA WebRtcBegins == WebRtcInit => WebRtcInv
<1> SUFFICES ASSUME WebRtcInit PROVE WebRtcInv
  OBVIOUS
<1>1. objs = <<>> /\ Len(objs) = 0 /\ DOMAIN objs = {} /\ objs \in Seq(PeerConnections)
  BY DEF WebRtcInit
<1>2. WebRtcTypeOK
  <2>1. /\ running \in BOOLEAN /\ looping \in BOOLEAN /\ broker \in BOOLEAN
        /\ entry \in [Remotes -> {0} \cup DOMAIN objs]
        /\ todo \subseteq Remotes /\ broken \subseteq Ids /\ handed \subseteq Ids /\ stranded \subseteq Ids
        /\ cleared \subseteq Remotes
    BY <1>1 DEF WebRtcInit
  <2>2. work \in [Workers -> Coroutines] /\ call \in [Callers -> Coroutines]
    BY CoFacts DEF WebRtcInit
  <2>3. Len(objs) \in 0..MaxObjects /\ stops \in 0..MaxStops
    BY <1>1, WebRtcAssumption DEF WebRtcInit
  <2> QED BY <1>1, <2>1, <2>2, <2>3 DEF WebRtcTypeOK
<1>3. Named /\ OpenIsUsed
  BY <1>1 DEF WebRtcInit, Named, OpenIsUsed
<1>4. \A p \in Remotes : ~IsNegotiating(p) /\ ~Busy(p)
  BY DEF WebRtcInit, IsNegotiating, Busy, Offers, Calls, Free
<1> QED BY <1>2, <1>3, <1>4 DEF WebRtcInv, OneOffers

LEMMA WebRtcStep == WebRtcInv /\ [WebRtcNext]_webrtcVars => WebRtcInv'
<1> SUFFICES ASSUME WebRtcInv, [WebRtcNext]_webrtcVars PROVE WebRtcInv'
  OBVIOUS
<1>1. CASE UNCHANGED webrtcVars
  BY <1>1 DEF webrtcVars, WebRtcInv, WebRtcTypeOK, Named, OpenIsUsed, OneOffers, Tended, Tends, IsNegotiating,
              Busy, Offers, Calls, OneOnly
<1>2. CASE WebRtcNext
  BY <1>2, CallKeeps, ChannelSentKeeps, ChannelFailedKeeps, LoopKeeps, EventKeeps, AnswerKeeps, BrokerLostKeeps,
     DecideKeeps, StartOfferKeeps, HandKeeps, OfferFailsKeeps, OfferNotBegunKeeps, ReaderKeeps, WelcomeKeeps, ScheduleKeeps,
     StopLoopKeeps DEF WebRtcNext
<1> QED BY <1>1, <1>2

LEMMA WebRtcHolds == WebRtcInv => WebRtcKeeps
<1> SUFFICES ASSUME WebRtcInv PROVE WebRtcKeeps
  OBVIOUS
<1>1. OneOffer
  <2> SUFFICES ASSUME NEW p \in Remotes, p \notin cleared
               PROVE  Cardinality(Offers(p)) + Cardinality(Calls(p)) <= 1
    BY DEF OneOffer
  <2>1. CASE ~Busy(p)
    BY <2>1, FS_EmptySet DEF Busy
  <2>2. CASE Busy(p)
    <3>1. OneOnly(p)
      BY <2>2 DEF WebRtcInv, OneOffers
    <3>2. ASSUME NEW w \in Offers(p) PROVE Offers(p) = {w} /\ Calls(p) = {}
      BY <3>1, <3>2 DEF OneOnly
    <3>3. ASSUME NEW s \in Calls(p) PROVE Calls(p) = {s} /\ Offers(p) = {}
      BY <3>1, <3>3 DEF OneOnly
    <3> QED BY <2>2, <3>2, <3>3, FS_EmptySet, FS_Singleton DEF Busy
  <2> QED BY <2>1, <2>2
<1>2. NobodyStuck
  <2> SUFFICES ASSUME NEW p \in Remotes, IsNegotiating(p)
               PROVE  \/ Busy(p)
                      \/ \E w \in Workers : work[w].at = "answering" /\ work[w].to = p
                      \/ entry[p] \in handed \cup stranded
    BY DEF NobodyStuck
  <2>1. Tended(p)
    BY DEF WebRtcInv
  <2> QED BY <2>1 DEF Tended, Tends, Busy, Offers, Calls
<1> QED BY <1>1, <1>2 DEF WebRtcInv, WebRtcKeeps

(* However the threads of send(), the reader and a stop interleave: a      *)
(* remote gets one offer at a time ("preventing duplicate ICE offers"),    *)
(* one that negotiates has somebody at work for it, was answered for by    *)
(* the broker or is among those stranded by a stop, a broker away, a       *)
(* failed answer or a missing aiortc, and an open channel that never       *)
(* failed is in use.                                                       *)
THEOREM OffersAreAnsweredFor == WebRtcSpec => [](WebRtcTypeOK /\ WebRtcKeeps)
<1>1. WebRtcInv => WebRtcTypeOK
  BY DEF WebRtcInv
<1>. QED BY <1>1, WebRtcBegins, WebRtcStep, WebRtcHolds, PTL DEF WebRtcSpec
===============================================================================
