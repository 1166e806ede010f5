-------------------------------- MODULE Router --------------------------------
(***************************************************************************)
(* The sending side of skcomms/router.py: rail selection, failover and     *)
(* broadcast, the store-and-forward fallback, the failure cooldown of a    *)
(* rail, the growing backoff of a (rail, recipient) pair and the startup   *)
(* quarantine.  One Router serves every thread of the process (API         *)
(* requests, outbox retries, heartbeats) without a lock, so the rails a    *)
(* route selected may be cooling down by the time it tries them.           *)
(*                                                                         *)
(* A send acts on the router when it returns, so an attempt is one step.   *)
(* Ages count ticks and stop at the limit beyond which they are alike; the *)
(* failure counts stop there too.  Left out: the cap of 10,000 backoff     *)
(* entries, the log-once bookkeeping, the failure counters of /metrics.    *)
(*                                                                         *)
(* The definitions no action uses are plausible faults of the definition   *)
(* after them: with them a property of some run fails.                     *)
(***************************************************************************)
EXTENDS Integers, SequencesExt

CONSTANTS
  Rails, StoreForward,       \* rail names; the designated fallback
  Chain,                     \* every rail: default chain, then by priority
  SignedOnly, PointToPoint,  \* SIGNED_ENVELOPE_ONLY_, POINT_TO_POINT_TRANSPORTS
  Stealth, Speed,            \* rails of the categories these modes allow
  Recipients, Star,          \* Star: the broadcast recipient '*'
  Preferences,               \* rail orders that peers advertise
  Modes,
  Senders,                   \* threads that call route or route_bytes
  Outcomes,                  \* what a send by a rail to a recipient may return
  Throttling,                \* an outbound rate limiter is configured
  Flapping,                  \* rails that may be unavailable or fail a probe
  Deaf,                      \* rails whose receive() may raise
  Quarantined,               \* rails found unreachable at startup
  Threshold, Cooldown,       \* FAILURE_THRESHOLD, COOLDOWN_SECONDS in ticks
  PermBase, PermMax,         \* the first and the last backoff window in ticks
  Reprobe                    \* QUARANTINE_REPROBE_SECONDS in ticks

\* "no_address": the store-and-forward rail knows no key for the recipient.
Results == {"ok", "transient", "perm", "no_address", "raised"}

ASSUME RouterAssumption ==
  /\ StoreForward \in Rails /\ Chain \in Seq(Rails) /\ ToSet(Chain) = Rails /\ Star \in Recipients
  /\ SignedOnly \cup PointToPoint \cup Stealth \cup Speed \subseteq Rails
  /\ Flapping \cup Deaf \cup Quarantined \subseteq Rails
  /\ Preferences \subseteq Seq(Rails) /\ Throttling \in BOOLEAN
  /\ Modes \subseteq {"failover", "broadcast", "stealth", "speed"}
  /\ Outcomes \in [Rails \X Recipients -> SUBSET Results]
  /\ Threshold \in Nat \ {0} /\ Cooldown \in Nat \ {0} /\ Reprobe \in Nat \ {0}
  /\ PermBase \in Nat \ {0} /\ PermMax \in Nat /\ PermBase <= PermMax

VARIABLES
  failed,     \* failures of a rail in a row, and the age of the last one
  backoff,    \* the same of a (rail, recipient) pair; count 0: no entry
  quarantine, \* rails in quarantine
  probed,     \* ticks since the last probe of a rail
  job,        \* what each sender is routing
  streak      \* history: failed sends of a rail since it last sent

vars == <<failed, backoff, quarantine, probed, job, streak>>

Lesser(a, b) == IF a < b THEN a ELSE b
Pairs     == Rails \X Recipients
MaxDouble == CHOOSE n \in 1..(PermMax + 1) :   \* doublings beyond this change nothing
               /\ PermBase * 2^(n - 1) >= PermMax
               /\ \A k \in 1..(n - 1) : PermBase * 2^(k - 1) < PermMax
NoFailure == [count |-> 0, age |-> 0]
Idle      == [phase |-> "idle", to |-> Star, signed |-> FALSE, mode |-> "failover",
              pref |-> <<>>, left |-> {}, tried |-> {}]

Init ==
  /\ failed = [r \in Rails |-> NoFailure]
  /\ backoff = [p \in Pairs |-> NoFailure]
  /\ quarantine = Quarantined
  /\ probed = [r \in Rails |-> 0]
  /\ job = [s \in Senders |-> Idle]
  /\ streak = [r \in Rails |-> 0]

-------------------------------------------------------------------------------
(* Selection.                                                              *)

InCooldown(r) == failed[r].count >= Threshold /\ failed[r].age < Cooldown

Window(count) == Lesser(PermBase * 2^(count - 1), PermMax)
InBackoff(r, to) ==
  backoff[<<r, to>>].count > 0 /\ backoff[<<r, to>>].age < Window(backoff[<<r, to>>].count)

\* Which rails a mode, a recipient and a wire format allow whatever their state.
Suits(r, to, signed, mode) ==
  /\ r # StoreForward
  /\ r \in SignedOnly => signed
  /\ to = Star => r \notin PointToPoint
  /\ mode = "stealth" => r \in Stealth
  /\ mode = "speed" => r \in Speed

Eligible(r, to, signed, mode, up, held) ==
  /\ r \in up /\ r \notin held
  /\ Suits(r, to, signed, mode)
  /\ ~InCooldown(r) /\ ~InBackoff(r, to)

\* The peer's order first, then the default chain.
Leads(r, rails, pref) ==
  LET order == pref \o Chain
  IN  \E i \in DOMAIN order : order[i] = r /\ \A k \in 1..(i - 1) : order[k] \notin rails

NeverReleased(passing) == {}
Released(passing) == {r \in quarantine : probed[r] = Reprobe /\ r \in passing}

\* route (signed = FALSE), route_bytes, route_signed, route_anon.
Route(s, to, signed, mode, pref, up) ==
  /\ job[s].phase = "idle"
  /\ LET held == quarantine \ Released(up)
         rails == {r \in Rails : Eligible(r, to, signed, mode, up, held)}
     IN  /\ quarantine' = held
         /\ probed' = [r \in Rails |-> IF r \in quarantine /\ probed[r] < Reprobe
                                       THEN probed[r] ELSE 0]
         /\ job' = [job EXCEPT ![s] =
              [phase |-> "direct", to |-> to, signed |-> signed, mode |-> mode,
               pref |-> pref, left |-> rails, tried |-> {}]]
  /\ UNCHANGED <<failed, backoff, streak>>

-------------------------------------------------------------------------------
(* _try_send and its bookkeeping.                                          *)

\* A failure counts against the rail unless it is a perm: one or went to '*';
\* an exception always does.
EveryFailureCounts(to, res) == res # "ok"
CountsAgainstRail(to, res) ==
  res = "raised" \/ (res \in {"transient", "no_address"} /\ to # Star)

Failed(r) == [failed EXCEPT ![r] = [count |-> Lesser(@.count + 1, Threshold), age |-> 0]]

Pruned(b) == [p \in Pairs |-> IF b[p].age > PermMax THEN NoFailure ELSE b[p]]
BackedOff(r, to) ==
  Pruned([backoff EXCEPT ![<<r, to>>] = [count |-> Lesser(@.count + 1, MaxDouble), age |-> 0]])

StickyRecord(r, to, res) ==
  /\ failed' = IF CountsAgainstRail(to, res) THEN Failed(r) ELSE failed
  /\ backoff' = CASE res = "ok" -> [backoff EXCEPT ![<<r, to>>] = NoFailure]
                  [] res # "ok" /\ ~CountsAgainstRail(to, res) -> BackedOff(r, to)
                  [] OTHER -> backoff
  /\ streak' = [streak EXCEPT ![r] = IF res = "ok" THEN 0 ELSE Lesser(@ + 1, Threshold)]
Record(r, to, res) ==
  /\ failed' = CASE res = "ok" -> [failed EXCEPT ![r] = NoFailure]
                 [] CountsAgainstRail(to, res) -> Failed(r)
                 [] OTHER -> failed
  /\ backoff' = CASE res = "ok" -> [backoff EXCEPT ![<<r, to>>] = NoFailure]
                  [] res # "ok" /\ ~CountsAgainstRail(to, res) -> BackedOff(r, to)
                  [] OTHER -> backoff
  /\ streak' = [streak EXCEPT ![r] = IF res = "ok" THEN 0 ELSE Lesser(@ + 1, Threshold)]

TrySend(r, to, res) ==
  \/ Throttling /\ res = "throttled" /\ UNCHANGED <<failed, backoff, streak>>
  \/ res \in Outcomes[<<r, to>>] /\ Record(r, to, res)

Delivered(j) == \E t \in j.tried : t.res = "ok"

Attempt(s, res) ==
  /\ job[s].phase = "direct"
  /\ \E r \in job[s].left :
       /\ Leads(r, job[s].left, job[s].pref)
       /\ TrySend(r, job[s].to, res)
       /\ job' = [job EXCEPT ![s].tried = @ \cup {[rail |-> r, res |-> res]},
                             ![s].left = IF res = "ok" /\ job[s].mode # "broadcast"
                                         THEN {} ELSE @ \ {r}]
  /\ UNCHANGED <<quarantine, probed>>

\* _try_store_forward: asks again whether the rail is available and cooling down,
\* but not about its backoff.
StoreForwardReady(up) == /\ StoreForward \in up
                         /\ ~InCooldown(StoreForward)
                         /\ StoreForward \notin quarantine

TryStoreForward(s, res, up) ==
  /\ job[s].phase = "direct" /\ job[s].left = {} /\ ~Delivered(job[s])
  /\ StoreForwardReady(up)
  /\ TrySend(StoreForward, job[s].to, res)
  /\ job' = [job EXCEPT ![s].tried = @ \cup {[rail |-> StoreForward, res |-> res]},
                        ![s].phase = "done"]
  /\ UNCHANGED <<quarantine, probed>>

Finish(s, up) ==
  /\ job[s].phase = "direct" /\ job[s].left = {}
  /\ Delivered(job[s]) \/ ~StoreForwardReady(up)
  /\ job' = [job EXCEPT ![s].phase = "done"]
  /\ UNCHANGED <<failed, backoff, quarantine, probed, streak>>

Return(s) == /\ job[s].phase = "done"
             /\ job' = [job EXCEPT ![s] = Idle]
             /\ UNCHANGED <<failed, backoff, quarantine, probed, streak>>

\* receive_all: a rail whose receive() raises is charged with a failure.
ReceiveFails(r) ==
  /\ r \in Deaf
  /\ failed' = Failed(r)
  /\ UNCHANGED <<backoff, quarantine, probed, job, streak>>

Older(entry, limit) == [entry EXCEPT !.age = IF entry.count = 0 THEN 0 ELSE Lesser(@ + 1, limit)]
Tick ==
  /\ failed' = [r \in Rails |-> Older(failed[r], Cooldown)]
  /\ backoff' = [p \in Pairs |-> Older(backoff[p], PermMax + 1)]
  /\ probed' = [r \in Rails |-> IF r \in quarantine THEN Lesser(probed[r] + 1, Reprobe) ELSE 0]
  /\ UNCHANGED <<quarantine, job, streak>>

-------------------------------------------------------------------------------
Ups == {up \in SUBSET Rails : Rails \ Flapping \subseteq up}   \* is_available(), probes

RouteAny(s) == \E to \in Recipients, signed \in BOOLEAN, mode \in Modes,
                  pref \in Preferences, up \in Ups : Route(s, to, signed, mode, pref, up)
Proceed(s) ==
  \/ \E res \in Results \cup {"throttled"} :
       \/ Attempt(s, res)
       \/ \E up \in Ups : TryStoreForward(s, res, up)
  \/ \E up \in Ups : Finish(s, up)
  \/ Return(s)

Next == \/ \E s \in Senders : RouteAny(s) \/ Proceed(s)
        \/ \E r \in Rails : ReceiveFails(r)
        \/ Tick

Spec == Init /\ [][Next]_vars

(* Clocks advance, a route that started runs to its end, and the daemon    *)
(* keeps sending (its heartbeat does every minute).                        *)
Fairness == /\ WF_vars(Tick)
            /\ \A s \in Senders : WF_vars(RouteAny(s)) /\ WF_vars(Proceed(s))
FairSpec == Spec /\ Fairness

-------------------------------------------------------------------------------
(* Every variable keeps its shape; quarantine never grows.                 *)
TypeOK ==
  /\ failed \in [Rails -> [count : 0..Threshold, age : 0..Cooldown]]
  /\ backoff \in [Pairs -> [count : 0..MaxDouble, age : 0..(PermMax + 1)]]
  /\ quarantine \subseteq Quarantined /\ probed \in [Rails -> 0..Reprobe]
  /\ job \in [Senders -> [phase : {"idle", "direct", "done"}, to : Recipients,
                          signed : BOOLEAN, mode : Modes \cup {"failover"},
                          pref : Preferences \cup {<<>>}, left : SUBSET Rails,
                          tried : SUBSET [rail : Rails, res : Results \cup {"throttled"}]]]
  /\ streak \in [Rails -> 0..Threshold]

\* A rail that is always there and always delivers to this recipient.
Sure(r, to) == Outcomes[<<r, to>>] = {"ok"} /\ r \notin Flapping \cup Quarantined
CanServe(r, j) == Sure(r, j.to) /\ (r = StoreForward \/ Suits(r, j.to, j.signed, j.mode))

(* _try_send, "blocking OTHER, deliverable recipients": a route to a       *)
(* recipient that some healthy rail serves is delivered unless that rail   *)
(* was throttled, however often it fails to reach others or '*' for good.  *)
DeliverableReached ==
  \A s \in Senders : job[s].phase = "done" =>
    \/ Delivered(job[s])
    \/ \A r \in Rails : CanServe(r, job[s]) => [rail |-> r, res |-> "throttled"] \in job[s].tried

(* Router: a rail is in cooldown only after FAILURE_THRESHOLD failed sends *)
(* with no successful one between them.                                    *)
CooldownEarned == \A r \in Rails \ Deaf : InCooldown(r) => streak[r] >= Threshold

(* Router, _maybe_reprobe_quarantine: no rail is given up for good.  The   *)
(* cooldown of a rail ends, unless its receive keeps failing; and a rail   *)
(* that was unreachable at startup and is healthy by now rejoins.          *)
RailsReturn ==
  /\ \A r \in Rails \ Deaf : InCooldown(r) ~> ~InCooldown(r)
  /\ \A r \in Rails \ Flapping : r \in quarantine ~> r \notin quarantine
===============================================================================
