------------------------------- MODULE RateLimit -------------------------------
(***************************************************************************)
(* The token buckets that throttle the router's sends (skcomms/ratelimit.py*)
(* RateLimiter.allow, called by router threads): one of a rail, and one of *)
(* each peer on that rail.  A bucket is made when it is first asked.       *)
(* Nothing locks any of it: a thread may be preempted between finding that *)
(* there is no bucket and putting one there, which then takes the place of *)
(* the one that another thread made meanwhile, and between reading and     *)
(* writing the tokens, or the time of the last refill.                     *)
(*                                                                         *)
(* The definitions no action uses are plausible faults of the one after.   *)
(***************************************************************************)
EXTENDS Integers, FiniteSets

CONSTANTS Callers,      \* threads that ask whether they may send
          PeersAsked,
          Capacity, PeerCapacity,   \* tokens a bucket holds
          Rate,                     \* tokens a unit of time adds
          LastSecond, MaxAsks       \* bounds of a behaviour

Rail    == "rail"
Nobody  == "*"        \* a broadcast asks the rail only

ASSUME RateLimitAssumption ==
  /\ IsFiniteSet(Callers) /\ Callers # {} /\ Rail \notin PeersAsked /\ Nobody \notin PeersAsked
  /\ Capacity \in Nat /\ PeerCapacity \in Nat /\ Rate \in Nat
  /\ LastSecond \in Nat /\ MaxAsks \in Nat

BucketNames     == {Rail} \cup PeersAsked
\* A bucket is known by its name and the thread that made it, which makes one at most.
Buckets   == BucketNames \X Callers
IsRail(b) == b[1] = Rail
Holds(b)  == IF IsRail(b) THEN Capacity ELSE PeerCapacity

VARIABLES
  second, asks,
  makers,     \* of each name: nobody, or who made the bucket that the table has
  tokens,     \* of each bucket; it is made full, so that the time it is made at is no matter
  refilled,   \* _last_refill
  call,       \* what each thread is at: step, bucket, that of the rail, peer, what it read
  passed,     \* sends allowed by each bucket, of those that allow() allowed
  raced,      \* history: two threads were at once between reading a bucket and
              \* having written it
  doubled     \* history: names that two threads were at once making a bucket for

bucketVars    == <<tokens, refilled, passed, raced>>
rateLimitVars == <<second, asks, makers, call, bucketVars, doubled>>

AtEase == [step |-> "idle"]

RateLimitInit ==
  /\ second = 0 /\ asks = 0 /\ raced = FALSE /\ doubled = {}
  /\ makers = [n \in BucketNames |-> {}]
  /\ tokens = [b \in Buckets |-> Holds(b)] /\ refilled = [b \in Buckets |-> 0]
  /\ call = [t \in Callers |-> AtEase] /\ passed = [b \in Buckets |-> 0]

Second ==
  /\ second < LastSecond /\ second' = second + 1
  /\ UNCHANGED <<asks, makers, call, bucketVars, doubled>>

To(t, step) == call' = [call EXCEPT ![t].step = step]
Within(t, steps) == call[t] # AtEase /\ call[t].step \in steps
Is(t, step) == Within(t, {step})
Returns(t)  == call' = [call EXCEPT ![t] = AtEase]

Looking(b, rail, p) ==
  [step |-> "find", of |-> b, rail |-> rail, peer |-> p, read |-> 0, now |-> 0]
AskRail(t) ==
  /\ call[t] = AtEase /\ asks < MaxAsks /\ asks' = asks + 1
  /\ \E p \in PeersAsked \cup {Nobody} :
       call' = [call EXCEPT ![t] = Looking(<<Rail, t>>, <<Rail, t>>, p)]
  /\ UNCHANGED <<second, makers, bucketVars, doubled>>

-------------------------------------------------------------------------------
(* _get_transport_bucket, _get_peer_bucket: is there one, else make it,    *)
(* then what the table has by now.                                         *)

\* A table of each thread's own.
NoneHere(t, n) == t \notin makers[n]
NoBucket(t, n) == makers[n] = {}
FindBucket(t) ==
  /\ Is(t, "find")
  /\ LET n == call[t].of[1] IN
       IF NoBucket(t, n)
       THEN /\ To(t, "make")
            /\ doubled' = doubled \cup
                 {n : u \in {v \in Callers \ {t} : Is(v, "make") /\ call[v].of[1] = n}}
       ELSE To(t, "fetch") /\ UNCHANGED doubled
  /\ UNCHANGED <<second, asks, makers, bucketVars>>

MakeBucket(t) ==
  /\ Is(t, "make") /\ makers' = [makers EXCEPT ![call[t].of[1]] = {t}] /\ To(t, "fetch")
  /\ UNCHANGED <<second, asks, bucketVars, doubled>>

FetchBucket(t) ==
  /\ Is(t, "fetch")
  /\ \E u \in makers[call[t].of[1]] :
       call' = [call EXCEPT ![t].step = "refill", ![t].of = <<call[t].of[1], u>>]
  /\ UNCHANGED <<second, asks, makers, bucketVars, doubled>>

-------------------------------------------------------------------------------
(* TokenBucket.allow: _refill, the check, the subtraction.                 *)

Refilled(b, n) == Holds(b)
Capped(b, n) == IF n < Holds(b) THEN n ELSE Holds(b)
ReadTokens(t, step) ==
  LET b == call[t].of IN
    /\ call' = [call EXCEPT ![t].step = step, ![t].read = tokens[b], ![t].now = second]
    /\ raced' = (raced \/ \E u \in Callers \ {t} :
                              Within(u, {"store", "stamp", "spend", "give"}) /\ call[u].of = b)
WriteTokens(t, n) == tokens' = [tokens EXCEPT ![call[t].of] = n] /\ UNCHANGED raced

Refill(t) ==
  /\ Is(t, "refill") /\ ReadTokens(t, "store")
  /\ UNCHANGED <<second, asks, makers, tokens, refilled, passed, doubled>>

StoreTokens(t) ==
  /\ Is(t, "store")
  /\ LET b == call[t].of IN
       WriteTokens(t, Capped(b, call[t].read + (call[t].now - refilled[b]) * Rate))
  /\ To(t, "stamp") /\ UNCHANGED <<second, asks, makers, refilled, passed, doubled>>

Stamp(t) ==
  /\ Is(t, "stamp") /\ refilled' = [refilled EXCEPT ![call[t].of] = call[t].now]
  /\ call' = [call EXCEPT ![t].step = "check", ![t].read = 0, ![t].now = 0]
  /\ UNCHANGED <<second, asks, makers, tokens, passed, raced, doubled>>

\* The rail refuses: allow returns.  The peer refuses: the rail's token is refunded.
Refused(t) == IF IsRail(call[t].of) THEN Returns(t)
              ELSE call' = [call EXCEPT ![t].step = "refund", ![t].of = call[t].rail]
Check(t) ==
  /\ Is(t, "check") /\ IF tokens[call[t].of] >= 1 THEN To(t, "take") ELSE Refused(t)
  /\ UNCHANGED <<second, asks, makers, bucketVars, doubled>>

ReadAgain(t) ==
  /\ Is(t, "take") /\ ReadTokens(t, "spend")
  /\ UNCHANGED <<second, asks, makers, tokens, refilled, passed, doubled>>

Spend(t) ==
  /\ Is(t, "spend") /\ WriteTokens(t, call[t].read - 1)
  /\ LET b == call[t].of
         p == call[t].peer
     IN
       IF IsRail(b) /\ p # Nobody
       THEN call' = [call EXCEPT ![t] = Looking(<<p, t>>, b, p)] /\ UNCHANGED passed
       ELSE /\ Returns(t)
            /\ passed' = [c \in Buckets |-> passed[c] +
                            IF c = b \/ (~IsRail(b) /\ c = call[t].rail) THEN 1 ELSE 0]
  /\ UNCHANGED <<second, asks, makers, refilled, doubled>>

\* t_bucket._tokens += 1, whatever the bucket holds.
ReadForRefund(t) ==
  /\ Is(t, "refund") /\ ReadTokens(t, "give")
  /\ UNCHANGED <<second, asks, makers, tokens, refilled, passed, doubled>>
Give(t) ==
  /\ Is(t, "give") /\ WriteTokens(t, call[t].read + 1) /\ Returns(t)
  /\ UNCHANGED <<second, asks, makers, refilled, passed, doubled>>

RateLimitNext ==
  \/ Second
  \/ \E t \in Callers : \/ AskRail(t) \/ FindBucket(t) \/ MakeBucket(t) \/ FetchBucket(t) \/ Refill(t)
                        \/ StoreTokens(t) \/ Stamp(t) \/ Check(t) \/ ReadAgain(t) \/ Spend(t)
                        \/ ReadForRefund(t) \/ Give(t)

RateLimitSpec == RateLimitInit /\ [][RateLimitNext]_rateLimitVars

-------------------------------------------------------------------------------
Quota(b) == Holds(b) + second * Rate + Cardinality(Callers) - 1

(* Every variable keeps its shape.                                         *)
RateLimitTypeOK ==
  /\ second \in 0..LastSecond /\ asks \in 0..MaxAsks /\ raced \in BOOLEAN
  /\ makers \in [BucketNames -> {{}} \cup {{t} : t \in Callers}] /\ doubled \subseteq BucketNames
  /\ tokens \in [Buckets -> Int] /\ refilled \in [Buckets -> 0..LastSecond]
  /\ passed \in [Buckets -> Nat]
  /\ call \in [Callers -> {AtEase} \cup
       [step : {"find", "make", "fetch", "refill", "store", "stamp", "check", "take", "spend",
                "refund", "give"},
        of : Buckets, rail : {Rail} \X Callers, peer : PeersAsked \cup {Nobody}, read : Int,
        now : 0..LastSecond]]

\* As long as no two threads are writing a bucket at once, the refunds, which nothing
\* caps, never let it pass more sends than it held at first and was refilled with
\* since, and one for each other thread that was between its check and its subtraction.
BucketIsCapped == ~raced => \A b \in Buckets : passed[b] <= Quota(b)

\* Unless two threads were making it at once, a rail or a peer has the one bucket, and
\* all that was allowed was counted there.
OneBucket == \A b \in Buckets :
  passed[b] > 0 /\ b[1] \notin doubled => makers[b[1]] = {b[2]}

(* RateLimiter.allow: but for two threads at the same bucket at the same   *)
(* time, neither a rail nor a peer is sent to more often than its quota    *)
(* allows.                                                                 *)
RateLimitKeeps == BucketIsCapped /\ OneBucket
===============================================================================
