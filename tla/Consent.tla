-------------------------------- MODULE Consent --------------------------------
(***************************************************************************)
(* The first-contact gate of a recipient (skcomms/api.py _consent_classify *)
(* and _write_to_recipient_inbox; consent*.py): each Handler (an API       *)
(* worker, the puller's thread) takes one envelope at a time through the   *)
(* gate, while Operators (the consent commands of the CLI and the local    *)
(* API) change the stores the gate reads.  Contacts, knocks, tokens and    *)
(* greylist are SQLite files, the invite policy and the ban feeds are text *)
(* files that are rewritten in place; nothing locks one against another,   *)
(* so every read and every write is a step.                                *)
(*                                                                         *)
(* A sender is known, blocked or unknown.  Time is the flag "due": the     *)
(* greylisting delay of a sender has passed.  The definitions no action    *)
(* uses are plausible faults of the definition after them.                 *)
(***************************************************************************)
EXTENDS Naturals, FiniteSets

CONSTANTS Senders,
          Knocks,       \* envelopes that may arrive, each any number of times
          SenderOf,
          Handlers, Operators,
          Mode,         \* SKCOMMS_CONSENT_MODE
          Greylisting,  \* the friction of the ANONYMOUS tier
          Cap,          \* RequestQueue.cap_per_sender
          Torn          \* a text file between its truncation and its write

ASSUME ConsentAssumption ==
  /\ IsFiniteSet(Handlers) /\ Handlers # {} /\ IsFiniteSet(Knocks)
  /\ SenderOf \in [Knocks -> Senders]
  /\ Mode \in {"off", "public", "tailnet"} /\ Greylisting \in BOOLEAN /\ Cap \in Nat \ {0}

Verbs   == {"allow", "drop"}    \* ignore and block both drop
Reasons == {"contact", "feed"}

VARIABLES
  contact,   \* contacts.db
  requests,  \* requests.db
  issued,    \* tokens.db; an issued token is handed to its sender
  grey,      \* greylist.db
  invite,    \* invite_policy.json
  feeds,     \* senders banned by the feeds that runtime.yml pins
  arrival,      \* handlers: the envelope at the gate
  desk       \* operators: the command in progress

stores      == <<contact, requests, issued, grey, invite, feeds>>
consentVars == <<stores, arrival, desk>>

Steps == {"banGate", "decide", "policy", "known", "verify", "grey", "insertGrey", "count",
          "insert", "write"}
Idle  == [step |-> "idle"]
\* "seen" are the feeds at build time.  History: "barred", why the sender was
\* banned ever since the arrival, and "stranger", whether it was unknown ever
\* since and the tiering never failed.
Arrivals == {Idle} \cup [step : Steps, knock : Knocks, seen : SUBSET Senders,
                      barred : SUBSET Reasons, stranger : BOOLEAN]
Desks == {Idle} \cup [step : {"clear", "drop", "issue"}, subject : Senders]
                \cup [step : {"truncate", "save"}, copy : [Senders -> Verbs]]
                \cup [step : {"feeds"}]

Banned     == IF feeds = Torn THEN {} ELSE feeds
BarredBy   == [s \in Senders |-> {r \in Reasons : IF r = "feed" THEN s \in Banned
                                                  ELSE contact[s] = "blocked"}]
Strangers  == IF invite = Torn THEN {} ELSE {s \in Senders : contact[s] # "known"}

ConsentInit ==
  /\ contact = [s \in Senders |-> "unknown"] /\ grey = [s \in Senders |-> "absent"]
  /\ requests = {} /\ issued = {}
  /\ invite = [s \in Senders |-> "allow"] /\ feeds = {}
  /\ arrival = [h \in Handlers |-> Idle] /\ desk = [o \in Operators |-> Idle]

At(h, step) == arrival[h].step = step
From(h)     == SenderOf[arrival[h].knock]
Pass(h, step) == arrival' = [arrival EXCEPT ![h] = IF step = "idle" THEN Idle
                                             ELSE [@ EXCEPT !.step = step]]
\* What the operators change may end a history.
Remember == arrival' = [h \in Handlers |->
  IF arrival[h] = Idle THEN Idle
  ELSE [arrival[h] EXCEPT !.barred = @ \cap BarredBy'[SenderOf[arrival[h].knock]],
                       !.stranger = @ /\ SenderOf[arrival[h].knock] \in Strangers']]

-------------------------------------------------------------------------------
(* The handler: build_pipeline, the ban gate, decide, the write.           *)

\* build_pipeline reads runtime.yml; cut short, it has no feeds.
Arrive(h, e) ==
  /\ arrival[h] = Idle
  /\ arrival' = [arrival EXCEPT ![h] =
       [step |-> "banGate", knock |-> e, seen |-> Banned,
        barred |-> BarredBy[SenderOf[e]], stranger |-> SenderOf[e] \in Strangers]]
  /\ UNCHANGED <<stores, desk>>

\* Whatever fails in the ban gate drops the envelope, and a queue or an inbox
\* that cannot be written raises.
Fail(h) ==
  /\ arrival[h].step \in {"banGate", "decide", "count", "insert", "write"}
  /\ Pass(h, "idle") /\ UNCHANGED <<stores, desk>>

FeedsOnly(h)  == From(h) \notin arrival[h].seen
\* Signed ban feeds and locally blocked contacts, in every mode.
Admissible(h)  == From(h) \notin arrival[h].seen /\ contact[From(h)] # "blocked"

\* _consent_classify asks the ban gate, and decide asks it again.
BanGate(h) ==
  /\ arrival[h].step \in {"banGate", "decide"}
  /\ Pass(h, IF ~Admissible(h)        THEN "idle"
             ELSE IF Mode = "off"     THEN "write"
             ELSE IF At(h, "banGate") THEN "decide" ELSE "policy")
  /\ UNCHANGED <<stores, desk>>

Policy(h) ==
  /\ At(h, "policy") /\ invite # Torn
  /\ Pass(h, IF invite[From(h)] # "allow" THEN "idle"
             ELSE IF Mode = "tailnet"     THEN "write" ELSE "known")
  /\ UNCHANGED <<stores, desk>>

IsKnown(h) == contact[From(h)] = "known"

\* A known contact is let in, with a token if the token verifies; an unknown
\* one meets the friction of its tier.
Known(h) ==
  /\ At(h, "known")
  /\ \/ IsKnown(h) /\ (Pass(h, "write") \/ Pass(h, "verify"))
     \/ ~IsKnown(h) /\ Pass(h, IF Greylisting THEN "grey" ELSE "count")
  /\ UNCHANGED <<stores, desk>>

\* The token is the one that was issued, or forged.
VerifyToken(h) ==
  /\ At(h, "verify")
  /\ (From(h) \in issued /\ Pass(h, "write")) \/ Pass(h, "idle")
  /\ UNCHANGED <<stores, desk>>

\* Greylist.see: the row is read, and inserted when there was none.
SeeGrey(h) ==
  /\ At(h, "grey")
  /\ Pass(h, CASE grey[From(h)] = "absent" -> "insertGrey"
               [] grey[From(h)] = "seen"   -> "idle"
               [] grey[From(h)] = "due"    -> "count")
  /\ UNCHANGED <<stores, desk>>

InsertGrey(h) ==
  /\ At(h, "insertGrey") /\ grey[From(h)] = "absent"
  /\ grey' = [grey EXCEPT ![From(h)] = "seen"]
  /\ Pass(h, "idle")
  /\ UNCHANGED <<contact, requests, issued, invite, feeds, desk>>

\* Any exception of decide delivers: a policy file cut short, a greylist row
\* that another handler inserted first, a locked database.
TieringFails(h) ==
  /\ arrival[h].step \in {"policy", "known", "verify", "grey", "insertGrey"}
  /\ arrival' = [arrival EXCEPT ![h].step = "write", ![h].stranger = FALSE]
  /\ UNCHANGED <<stores, desk>>

QueuedOf(s) == {e \in requests : SenderOf[e] = s}
UpToCap(h)  == Cardinality(QueuedOf(From(h))) <= Cap
BelowCap(h) == Cardinality(QueuedOf(From(h))) < Cap

\* RequestQueue.enqueue: the count, then the insert.
CountKnocks(h) ==
  /\ At(h, "count")
  /\ Pass(h, IF BelowCap(h) THEN "insert" ELSE "idle")
  /\ UNCHANGED <<stores, desk>>

InsertKnock(h) ==
  /\ At(h, "insert")
  /\ requests' = requests \cup {arrival[h].knock}
  /\ Pass(h, "idle")
  /\ UNCHANGED <<contact, issued, grey, invite, feeds, desk>>

\* The inbox is the one of Federation; nothing here reads it.
WriteInbox(h) ==
  /\ At(h, "write")
  /\ Pass(h, "idle") /\ UNCHANGED <<stores, desk>>

GreylistDelay(s) ==
  /\ grey[s] = "seen"
  /\ grey' = [grey EXCEPT ![s] = "due"]
  /\ UNCHANGED <<contact, requests, issued, invite, feeds, arrival, desk>>

-------------------------------------------------------------------------------
(* The operators.                                                          *)

Turn(o, d)           == desk' = [desk EXCEPT ![o] = d]
SetContact(s, state) == contact' = [contact EXCEPT ![s] = state]

Promote(o, s, next) ==
  /\ desk[o] = Idle /\ Turn(o, [step |-> next, subject |-> s])
  /\ SetContact(s, "known")
  /\ UNCHANGED <<requests, issued, grey, invite, feeds>>
  /\ Remember

\* The command clears the knocks and issues the token; the API only issues it.
AcceptRequest(o, s) == Promote(o, s, "clear")
OnAccept(o, s)      == Promote(o, s, "issue")

DeclineAndBlock(o, s) ==
  /\ desk[o] = Idle /\ Turn(o, [step |-> "drop", subject |-> s])
  /\ SetContact(s, "blocked")
  /\ UNCHANGED <<requests, issued, grey, invite, feeds>>
  /\ Remember

ClearKnocks(o) ==
  /\ desk[o].step \in {"clear", "drop"}
  /\ requests' = requests \ QueuedOf(desk[o].subject)
  /\ Turn(o, IF desk[o].step = "clear" THEN [desk[o] EXCEPT !.step = "issue"] ELSE Idle)
  /\ UNCHANGED <<contact, issued, grey, invite, feeds, arrival>>

Decline(s) ==
  /\ requests' = requests \ QueuedOf(s)
  /\ UNCHANGED <<contact, issued, grey, invite, feeds, arrival, desk>>

Issue(o) ==
  /\ desk[o].step = "issue"
  /\ issued' = issued \cup {desk[o].subject} /\ Turn(o, Idle)
  /\ UNCHANGED <<contact, requests, grey, invite, feeds, arrival>>

Block(s) ==
  /\ SetContact(s, "blocked")
  /\ UNCHANGED <<requests, issued, grey, invite, feeds, desk>>
  /\ Remember

\* unblock deletes a blocked row only: the sender is unknown again.
Unblock(s) ==
  /\ contact[s] = "blocked" /\ SetContact(s, "unknown")
  /\ UNCHANGED <<requests, issued, grey, invite, feeds, desk>>
  /\ Remember

\* policy allow, ignore, block: load, change, truncate, write.
LoadPolicy(o, s, v) ==
  /\ invite # Torn /\ desk[o] = Idle
  /\ Turn(o, [step |-> "truncate", copy |-> [invite EXCEPT ![s] = v]])
  /\ UNCHANGED <<stores, arrival>>

SavePolicy(o) ==
  /\ \/ /\ desk[o].step = "truncate"
        /\ invite' = Torn /\ Turn(o, [desk[o] EXCEPT !.step = "save"])
     \/ /\ desk[o].step = "save"
        /\ invite' = desk[o].copy /\ Turn(o, Idle)
  /\ UNCHANGED <<contact, requests, issued, grey, feeds>>
  /\ Remember

\* add_feed and remove_feed rewrite runtime.yml.
TruncateRuntime(o) ==
  /\ desk[o] = Idle /\ feeds # Torn
  /\ feeds' = Torn /\ Turn(o, [step |-> "feeds"])
  /\ UNCHANGED <<contact, requests, issued, grey, invite>>
  /\ Remember

WriteRuntime(o, F) ==
  /\ desk[o].step = "feeds"
  /\ feeds' = F /\ Turn(o, Idle)
  /\ UNCHANGED <<contact, requests, issued, grey, invite>>
  /\ Remember

-------------------------------------------------------------------------------
Handle(h) == \/ Fail(h) \/ BanGate(h) \/ Policy(h) \/ Known(h) \/ VerifyToken(h) \/ SeeGrey(h)
             \/ InsertGrey(h) \/ TieringFails(h) \/ CountKnocks(h) \/ InsertKnock(h)
             \/ WriteInbox(h)
Operate(o) == \/ ClearKnocks(o) \/ Issue(o) \/ SavePolicy(o) \/ TruncateRuntime(o)
              \/ \E F \in SUBSET Senders : WriteRuntime(o, F)
              \/ \E s \in Senders : \/ AcceptRequest(o, s) \/ OnAccept(o, s) \/ DeclineAndBlock(o, s)
                                    \/ \E v \in Verbs : LoadPolicy(o, s, v)

ConsentNext ==
  \/ \E h \in Handlers : \/ \E e \in Knocks : Arrive(h, e)
                         \/ Handle(h)
  \/ \E s \in Senders : GreylistDelay(s) \/ Decline(s) \/ Block(s) \/ Unblock(s)
  \/ \E o \in Operators : Operate(o)

ConsentSpec == ConsentInit /\ [][ConsentNext]_consentVars

-------------------------------------------------------------------------------
(* Every variable keeps its shape.                                         *)
ConsentTypeOK ==
  /\ contact \in [Senders -> {"unknown", "known", "blocked"}]
  /\ requests \subseteq Knocks /\ issued \subseteq Senders
  /\ grey \in [Senders -> {"absent", "seen", "due"}]
  /\ invite = Torn \/ invite \in [Senders -> Verbs]
  /\ feeds = Torn \/ feeds \in SUBSET Senders
  /\ arrival \in [Handlers -> Arrivals] /\ desk \in [Operators -> Desks]

(* _consent_classify, "a blocked/banned sender never fails open": an       *)
(* envelope whose sender was blocked or banned ever since it arrived is    *)
(* neither delivered nor queued, in any mode and whatever fails.           *)
BlockedStaysOut == \A h \in Handlers :
  arrival[h].step \in {"write", "count", "insert"} => arrival[h].barred = {}

(* decide, the known-contact path: in public mode an envelope is delivered *)
(* only if its sender was a known contact at some time since it arrived,   *)
(* or the tiering failed.                                                  *)
StrangerStaysOut == Mode = "public" => \A h \in Handlers :
  At(h, "write") => ~arrival[h].stranger

GateHolds == BlockedStaysOut /\ StrangerStaysOut

(* RequestQueue, "an unknown sender gets at most cap_per_sender queued     *)
(* knocks": handlers that counted at the same time exceed the cap by one   *)
(* envelope each, never by more.                                           *)
KnocksBounded == \A s \in Senders :
  Cardinality(QueuedOf(s)) <= Cap + Cardinality(Handlers) - 1

(* The gate holds and the request queue stays small, whatever interleaves. *)
ConsentKeeps == GateHolds /\ KnocksBounded
===============================================================================
