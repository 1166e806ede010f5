------------------------------ MODULE Federation ------------------------------
(***************************************************************************)
(* Delivery of signed envelopes from one node to another: the sender's     *)
(* retries over https-s2s with the relay as last resort, and the gate of   *)
(* the recipient (skcomms/federation.py accept_signed) that both the HTTP  *)
(* inbox (api.py post_inbox) and the relay puller (store_forward.py        *)
(* StoreForwardPuller.pull) run.  A worker is a process that serves the    *)
(* inbox, or the puller's thread; they share the nonce store.  A worker    *)
(* may be interrupted between the freshness check, the nonce check and the *)
(* write to the inbox, and the node may stop and start again.              *)
(*                                                                         *)
(* The definitions no action uses are plausible faults of the definition   *)
(* after them: with them a property of some run fails.                     *)
(***************************************************************************)
EXTENDS Integers

CONSTANTS Msgs,        \* signed envelopes; each has a nonce of its own
          Trusted,     \* those that verify against a pinned key
          Offset,      \* by how much the clock of a sender is ahead of ours
          Handlers,    \* processes that serve POST /api/v1/inbox
          Puller,      \* the thread of the puller
          MaxAge, MaxSkew, TTL,  \* DEFAULT_MAX_AGE_S, DEFAULT_MAX_SKEW_S, _NONCE_TTL_S
          MaxDelay,    \* bounds the time between the freshness and the nonce check
          Decisions,   \* what _consent_classify may decide
          HasRelay,    \* a store-and-forward relay is configured
          MaxAttempts, \* max_retries
          MaxTime, MaxTimeouts, MaxFaults, MaxCrashes   \* bounds of a behaviour

Workers == Handlers \cup {Puller}

ASSUME MsgsAssumption  == Trusted \subseteq Msgs /\ Offset \in [Msgs -> Int]
ASSUME TimeAssumption  == MaxAge \in Nat /\ MaxSkew \in Nat /\ TTL \in Nat /\ MaxDelay \in Nat
\* _NONCE_TTL_S exceeds the two windows by as much as a check may take.
ASSUME NonceAssumption == TTL >= MaxAge + MaxSkew + MaxDelay
ASSUME BoundAssumption ==
  /\ MaxAttempts \in Nat \ {0} /\ MaxTime \in Nat
  /\ MaxTimeouts \in Nat /\ MaxFaults \in Nat /\ MaxCrashes \in Nat
ASSUME KindAssumption  ==
  /\ HasRelay \in BOOLEAN
  /\ Decisions \subseteq {"deliver", "quarantine", "drop", "defer"}

VARIABLES
  clock,
  sent, attempt,   \* the sender's view of a message, its delivery attempts
  created,         \* created_at, signed into the envelope
  posts,           \* requests on their way, as <<message, attempt>>
  relay,           \* events on the relay, as <<message, attempt>>
  up,              \* whether the recipient's node runs
  phase, job, checked,  \* workers: next step, the request, when it was fresh
  pulled,          \* _seen_event_ids
  nonce,           \* when the nonce of a message was seen, or Never
  timeouts, faults, crashes,
  \* the rest is history
  handled,         \* how often a message was written to the inbox, put in the
                   \* request queue or dropped by the consent gate, up to 2
  replayed         \* rejected as a replay

sender   == <<sent, attempt, created>>
workers  == <<phase, job, checked, pulled>>
bounds   == <<timeouts, faults, crashes>>
past     == <<handled, replayed>>
vars == <<clock, sender, posts, relay, up, workers, nonce, bounds, past>>

Never    == -1
Requests == Msgs \X (0..MaxAttempts)

Init ==
  /\ clock = 0
  /\ sent = [m \in Msgs |-> "new"] /\ attempt = [m \in Msgs |-> 0]
  /\ created = [m \in Msgs |-> 0]
  /\ posts = {} /\ relay = {} /\ up \in BOOLEAN
  /\ phase = [w \in Workers |-> "idle"]
  /\ job \in [Workers -> Msgs \X {0}] /\ \A v, w \in Workers : job[v] = job[w]
  /\ checked = [w \in Workers |-> 0] /\ pulled = {}
  /\ nonce = [m \in Msgs |-> Never]
  /\ timeouts = 0 /\ faults = 0 /\ crashes = 0
  /\ handled = [m \in Msgs |-> 0] /\ replayed = {}

-------------------------------------------------------------------------------
(* The sender: route_signed with failover to the relay, and the outbox.    *)

Send(m) ==
  /\ sent[m] = "new"
  /\ created' = [created EXCEPT ![m] = clock + Offset[m]]
  /\ sent' = [sent EXCEPT ![m] = "due"]
  /\ UNCHANGED <<clock, attempt, posts, relay, up, workers, nonce, bounds, past>>

\* The bytes are those signed at first: a retry is not signed again.
Post(m) ==
  /\ sent[m] = "due"
  /\ attempt' = [attempt EXCEPT ![m] = @ + 1]
  /\ IF up THEN /\ posts' = posts \cup {<<m, attempt[m] + 1>>}
                /\ sent' = [sent EXCEPT ![m] = "waiting"]
           ELSE /\ sent' = [sent EXCEPT ![m] = "failed"]
                /\ UNCHANGED posts
  /\ UNCHANGED <<clock, created, relay, up, workers, nonce, bounds, past>>

Current(m) == <<m, attempt[m]>>
Alive(r) == r \in posts \/ \E h \in Handlers : phase[h] # "idle" /\ job[h] = r

\* The connection broke, or no answer came in time: the request may be lost or
\* still be on its way.
Timeout(m) ==
  /\ sent[m] = "waiting"
  /\ IF Alive(Current(m)) THEN timeouts < MaxTimeouts /\ timeouts' = timeouts + 1
                          ELSE UNCHANGED timeouts
  /\ posts' \in {posts, posts \ {Current(m)}}
  /\ sent' = [sent EXCEPT ![m] = "failed"]
  /\ UNCHANGED <<clock, attempt, created, relay, up, workers, nonce, faults, crashes, past>>

\* The relay took the event, which counts as delivered.
Publish(m) ==
  /\ sent[m] = "failed" /\ HasRelay
  /\ relay' = relay \cup {Current(m)}
  /\ sent' = [sent EXCEPT ![m] = "relayed"]
  /\ UNCHANGED <<clock, attempt, created, posts, up, workers, nonce, bounds, past>>

Requeue(m) ==
  /\ sent[m] = "failed"
  /\ sent' = [sent EXCEPT ![m] = IF attempt[m] < MaxAttempts THEN "due" ELSE "dead"]
  /\ UNCHANGED <<clock, attempt, created, posts, relay, up, workers, nonce, bounds, past>>

-------------------------------------------------------------------------------
(* The recipient.                                                          *)

\* post_inbox gets a request.
Take(h) ==
  /\ up /\ phase[h] = "idle"
  /\ \E r \in posts : /\ posts' = posts \ {r}
                      /\ job' = [job EXCEPT ![h] = r]
  /\ phase' = [phase EXCEPT ![h] = "check"]
  /\ UNCHANGED <<clock, sender, relay, up, checked, pulled, nonce, bounds, past>>

\* pull gets the next event; those of this process it skips.
Pull ==
  /\ up /\ phase[Puller] = "idle"
  /\ \E r \in relay \ pulled : /\ pulled' = pulled \cup {r}
                               /\ job' = [job EXCEPT ![Puller] = r]
  /\ phase' = [phase EXCEPT ![Puller] = "check"]
  /\ UNCHANGED <<clock, sender, posts, relay, up, checked, nonce, bounds, past>>

\* The worker is done; an HTTP client that still waits learns whether the
\* answer is {"ok": true}.
Answer(w, ok) ==
  LET m == job[w][1] IN
  /\ phase' = [phase EXCEPT ![w] = "idle"]
  /\ sent' = IF w \in Handlers /\ sent[m] = "waiting" /\ job[w] = Current(m)
             THEN [sent EXCEPT ![m] = IF ok THEN "confirmed" ELSE "failed"] ELSE sent

OneSidedFresh(m) == clock - created[m] <= MaxAge
\* check_freshness
Fresh(m) == clock - created[m] <= MaxAge /\ created[m] - clock <= MaxSkew

\* 429, 403 and 425; the puller drops what it cannot verify.
Refuse(w) ==
  /\ phase[w] = "check"
  /\ \/ (job[w][1] \notin Trusted \/ ~Fresh(job[w][1])) /\ UNCHANGED faults
     \/ w \in Handlers /\ faults < MaxFaults /\ faults' = faults + 1
  /\ Answer(w, FALSE)
  /\ UNCHANGED <<clock, attempt, created, posts, relay, up, job, checked, pulled, nonce,
                 timeouts, crashes, past>>

PassCheck(w) ==
  /\ phase[w] = "check"
  /\ job[w][1] \in Trusted /\ Fresh(job[w][1])
  /\ checked' = [checked EXCEPT ![w] = clock]
  /\ phase' = [phase EXCEPT ![w] = "nonce"]
  /\ UNCHANGED <<clock, sender, posts, relay, up, job, pulled, nonce, bounds, past>>

\* check_and_add: delete the expired nonces, then INSERT OR IGNORE.
Evicted == [m \in Msgs |-> IF nonce[m] < clock - TTL THEN Never ELSE nonce[m]]

SeenFromSender(m) == \E k \in Msgs : Evicted[k] # Never
Seen(m) == Evicted[m] # Never

Accept(w) ==
  LET m == job[w][1] IN
  /\ phase[w] = "nonce" /\ ~Seen(m)
  /\ nonce' = [Evicted EXCEPT ![m] = clock]
  /\ phase' = [phase EXCEPT ![w] = "deliver"]
  /\ UNCHANGED <<clock, sender, posts, relay, up, job, checked, pulled, bounds, past>>

Replay(w) ==            \* 409
  /\ phase[w] = "nonce" /\ Seen(job[w][1])
  /\ nonce' = Evicted
  /\ replayed' = replayed \cup {job[w][1]}
  /\ Answer(w, FALSE)
  /\ UNCHANGED <<clock, attempt, created, posts, relay, up, job, checked, pulled, bounds,
                 handled>>

\* _write_to_recipient_inbox
Deliver(w, d) ==
  LET m == job[w][1] IN
  /\ phase[w] = "deliver"
  /\ handled' = [handled EXCEPT ![m] = IF d # "defer" /\ @ < 2 THEN @ + 1 ELSE @]
  /\ Answer(w, TRUE)
  /\ UNCHANGED <<clock, attempt, created, posts, relay, up, job, checked, pulled, nonce,
                 bounds, replayed>>

OkAnyway(w) ==
  /\ phase[w] = "deliver" /\ faults < MaxFaults
  /\ faults' = faults + 1
  /\ Answer(w, TRUE)
  /\ UNCHANGED <<clock, attempt, created, posts, relay, up, job, checked, pulled, nonce,
                 timeouts, crashes, past>>
DeliverFails(w) ==      \* 500 "accepted but failed to store"
  /\ phase[w] = "deliver" /\ faults < MaxFaults
  /\ faults' = faults + 1
  /\ Answer(w, FALSE)
  /\ UNCHANGED <<clock, attempt, created, posts, relay, up, job, checked, pulled, nonce,
                 timeouts, crashes, past>>

Crash ==
  /\ up /\ crashes < MaxCrashes
  /\ up' = FALSE /\ crashes' = crashes + 1
  /\ phase' = [w \in Workers |-> "idle"]
  /\ pulled' = {} /\ posts' = {}
  /\ UNCHANGED <<clock, sender, relay, job, checked, nonce, timeouts, faults, past>>

Restart ==
  /\ ~up /\ up' = TRUE
  /\ UNCHANGED <<clock, sender, posts, relay, workers, nonce, bounds, past>>

Tick ==
  /\ clock < MaxTime
  /\ \A w \in Workers : phase[w] = "nonce" => clock - checked[w] < MaxDelay
  /\ clock' = clock + 1
  /\ UNCHANGED <<sender, posts, relay, up, workers, nonce, bounds, past>>

-------------------------------------------------------------------------------
SenderStep(m) == Send(m) \/ Post(m) \/ Timeout(m) \/ Publish(m) \/ Requeue(m)
WorkerStep(w) == \/ Refuse(w) \/ PassCheck(w) \/ Accept(w) \/ Replay(w) \/ DeliverFails(w)
                 \/ \E d \in Decisions : Deliver(w, d)

Next == \/ \E m \in Msgs : SenderStep(m)
        \/ \E h \in Handlers : Take(h)
        \/ \E w \in Workers : WorkerStep(w)
        \/ Pull \/ Crash \/ Restart \/ Tick

Spec == Init /\ [][Next]_vars

(* The sender's outbox keeps retrying, systemd restarts the node, and its  *)
(* workers serve what arrives.                                             *)
FairSpec == /\ Spec
            /\ \A m \in Msgs : WF_vars(SenderStep(m))
            /\ \A h \in Handlers : WF_vars(Take(h))
            /\ \A w \in Workers : WF_vars(WorkerStep(w))
            /\ WF_vars(Pull) /\ WF_vars(Restart)

-------------------------------------------------------------------------------
(* Every variable keeps its shape.                                         *)
TypeOK ==
  /\ clock \in 0..MaxTime
  /\ sent \in [Msgs -> {"new", "due", "waiting", "failed", "relayed", "confirmed", "dead"}]
  /\ attempt \in [Msgs -> 0..MaxAttempts] /\ created \in [Msgs -> Int]
  /\ posts \subseteq Requests /\ relay \subseteq Requests /\ up \in BOOLEAN
  /\ phase \in [Workers -> {"idle", "check", "nonce", "deliver"}]
  /\ job \in [Workers -> Requests] /\ checked \in [Workers -> 0..MaxTime]
  /\ pulled \subseteq Requests /\ nonce \in [Msgs -> Int]
  /\ timeouts \in 0..MaxTimeouts /\ faults \in 0..MaxFaults /\ crashes \in 0..MaxCrashes
  /\ handled \in [Msgs -> 0..2] /\ replayed \subseteq Msgs

Delivering(m) == \E w \in Workers : phase[w] = "deliver" /\ job[w][1] = m
Handled(m) == handled[m] > 0

(* StoreForwardPuller: "a replayed envelope is rejected ... so it is never *)
(* delivered twice", over both rails, several processes and restarts.      *)
AtMostOnce == \A m \in Msgs : handled[m] <= 1

(* The sender forgets a message on {"ok": true}, so that answer means that *)
(* the message is in the inbox or that the recipient chose not to have it. *)
ConfirmedIsHeld == \A m \in Msgs : sent[m] = "confirmed" => Handled(m)

(* A replay is a second copy: what is rejected as one has been handled, or *)
(* is being handled by the worker that accepted it, unless a failed write  *)
(* or a crash came between its nonce and its write.                        *)
ReplayedWasHandled ==
  faults = 0 /\ crashes = 0 => \A m \in replayed : Handled(m) \/ Delivering(m)

(* Outbox retry for offline: once the recipient is back, a message with    *)
(* attempts left arrives.                                                  *)
RetriedArrives == \A m \in Msgs :
  (up /\ sent[m] = "due" /\ m \in Trusted) ~> Handled(m)

(* _try_store_forward turns a hard failure into a deferred delivery, and   *)
(* the outbox retries: what was sent while the recipient was up, and what  *)
(* the relay took, arrives, unless the sender gave up with the message in  *)
(* dead/, or a crash or a failed write came between its nonce and its      *)
(* write, after which every copy is rejected.                              *)
Spent(m) == nonce[m] # Never /\ faults + crashes > 0
DeferredArrives == \A m \in Trusted :
  /\ (up /\ sent[m] = "due") ~> (Handled(m) \/ Spent(m) \/ sent[m] = "dead")
  /\ (sent[m] = "relayed") ~> (Handled(m) \/ Spent(m))
===============================================================================
