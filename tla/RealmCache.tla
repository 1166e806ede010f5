------------------------------- MODULE RealmCache -------------------------------
(***************************************************************************)
(* How a node resolves an agent of another realm (skcomms/skfed_resolve.py *)
(* resolve_agent): threads share one cached directory, which expires; a    *)
(* thread that finds none fetches the directory of the realm, verifies it  *)
(* against the pinned operator key and caches it.  The clock counts in     *)
(* units of the HTTP timeout: within one a fetch is over.                  *)
(*                                                                         *)
(* A directory is the time from which it was served; that it was signed is *)
(* a bit.  What was served once may be served again by whoever answers the *)
(* fetch.  The definitions no action uses are plausible faults.            *)
(***************************************************************************)
EXTENDS Naturals

CONSTANTS Lookers,      \* threads that call resolve_agent
          Lifetime,     \* DEFAULT_CACHE_TTL_S
          LastLook,     \* bound on the clock
          MaxRaised

ASSUME RealmCacheAssumption == Lifetime \in Nat /\ LastLook \in Nat /\ MaxRaised \in Nat

NotCached == [from |-> 0, until |-> 0, genuine |-> FALSE]
Cached    == [from : 0..LastLook, until : 0..LastLook + Lifetime, genuine : BOOLEAN]

VARIABLES
  lookTime,
  hosted,        \* the realm has a directory and this node a pin of its operator
  cache,         \* _d of the realm
  looking,       \* what each thread is at
  answer,        \* what its last call resolved to, with the time it did
  raised         \* calls that ended in an exception

realmCacheVars == <<lookTime, hosted, cache, looking, answer, raised>>

Idle     == [step |-> "idle"]
Lookings == {Idle} \cup [step : {"drop", "fetch", "verify"}, began : 0..LastLook,
                         got : Cached \cup {NotCached}]
NoAnswer == [found |-> FALSE, from |-> 0, at |-> 0, genuine |-> FALSE]

RealmCacheInit ==
  /\ lookTime = 0 /\ hosted \in [directory : BOOLEAN, pin : BOOLEAN]
  /\ cache = NotCached /\ raised = 0
  /\ looking = [t \in Lookers |-> Idle] /\ answer = [t \in Lookers |-> NoAnswer]

Answers(t, d) ==
  answer' = [answer EXCEPT ![t] =
    IF d = NotCached THEN NoAnswer
    ELSE [found |-> TRUE, from |-> d.from, at |-> lookTime, genuine |-> d.genuine]]
Goes(t, step, got) ==
  looking' = [looking EXCEPT ![t] = [step |-> step, began |-> lookTime, got |-> got]]
Ends(t) == looking' = [looking EXCEPT ![t] = Idle]

-------------------------------------------------------------------------------
(* DirectoryCache.get.                                                     *)

Expired(d) == lookTime >= d.until

Look(t) ==
  /\ looking[t] = Idle
  /\ \/ cache # NotCached /\ ~Expired(cache) /\ Answers(t, cache) /\ UNCHANGED looking
     \/ cache # NotCached /\ Expired(cache) /\ Goes(t, "drop", NotCached) /\ UNCHANGED answer
     \/ cache = NotCached /\ Goes(t, "fetch", NotCached) /\ UNCHANGED answer
  /\ UNCHANGED <<lookTime, hosted, cache, raised>>

\* del raises KeyError if another thread deleted it; it may delete a newer one.
Drop(t) ==
  /\ looking[t].step = "drop"
  /\ IF cache # NotCached
     THEN cache' = NotCached /\ Goes(t, "fetch", NotCached) /\ UNCHANGED <<raised, answer>>
     ELSE /\ raised < MaxRaised /\ raised' = raised + 1
          /\ Ends(t) /\ Answers(t, NotCached) /\ UNCHANGED cache
  /\ UNCHANGED <<lookTime, hosted>>

-------------------------------------------------------------------------------
(* _fetch_verified_directory.                                              *)

\* Fetched now; nothing, if the realm has no directory or the fetch fails.
Fetch(t) ==
  /\ looking[t].step = "fetch"
  /\ \/ \E genuine \in BOOLEAN :
          /\ hosted.directory
          /\ Goes(t, "verify", [from |-> lookTime, until |-> 0, genuine |-> genuine])
          /\ UNCHANGED answer
     \/ Ends(t) /\ Answers(t, NotCached)
  /\ UNCHANGED <<lookTime, hosted, cache, raised>>

Trusting(d) == hosted.pin
Verifies(d) == hosted.pin /\ d.genuine

Verify(t) ==
  /\ looking[t].step = "verify"
  /\ LET d == [looking[t].got EXCEPT !.until = lookTime + Lifetime] IN
       IF Verifies(d) THEN cache' = d /\ Answers(t, d)
                      ELSE Answers(t, NotCached) /\ UNCHANGED cache
  /\ Ends(t)
  /\ UNCHANGED <<lookTime, hosted, raised>>

\* A fetch and its verification are over before the second tick.
LookTick ==
  /\ lookTime < LastLook /\ lookTime' = lookTime + 1
  /\ \A t \in Lookers : looking[t] # Idle => looking[t].began = lookTime
  /\ UNCHANGED <<hosted, cache, looking, answer, raised>>

RealmCacheNext ==
  LookTick \/ \E t \in Lookers : Look(t) \/ Drop(t) \/ Fetch(t) \/ Verify(t)

RealmCacheSpec == RealmCacheInit /\ [][RealmCacheNext]_realmCacheVars

-------------------------------------------------------------------------------
(* Every variable keeps its shape.                                         *)
RealmCacheTypeOK ==
  /\ lookTime \in 0..LastLook /\ hosted \in [directory : BOOLEAN, pin : BOOLEAN]
  /\ cache \in Cached \cup {NotCached} /\ looking \in [Lookers -> Lookings]
  /\ answer \in [Lookers -> [found : BOOLEAN, from : 0..LastLook, at : 0..LastLook,
                             genuine : BOOLEAN]]
  /\ raised \in 0..MaxRaised

(* resolve_agent, "fails closed": whatever threads interleave, a directory *)
(* that answers was signed by the pinned operator, and what it said was    *)
(* served less than the lifetime of the cache and one fetch ago.           *)
RealmCacheKeeps == \A t \in Lookers :
  answer[t].found => /\ answer[t].genuine /\ hosted.pin
                     /\ answer[t].at < answer[t].from + Lifetime + 2
===============================================================================
