----------------------------- MODULE GroupConsent -----------------------------
(***************************************************************************)
(* Admission to a group (skcomms/consent_groups.py, consent_group_gate.py, *)
(* consent_captcha.py): Gates (GroupConsentGate handles, one per process)  *)
(* over one membership table and one table of captcha challenges.  A call  *)
(* reads, decides and writes in separate SQL statements, so the calls of   *)
(* two gates interleave between them.                                      *)
(*                                                                         *)
(* "standing" is a row of the table: the role matters only for a member,   *)
(* so "moderator" is a member that may moderate (owner or moderator).  The *)
(* definitions no action uses are plausible faults of the one after them.  *)
(***************************************************************************)
EXTENDS Naturals, FiniteSets

CONSTANTS Peers, Owner,
          Gates,
          Challenges,     \* bound: challenges ever issued
          MaxAttempts     \* DEFAULT_MAX_ATTEMPTS

ASSUME GroupAssumption ==
  Owner \in Peers /\ MaxAttempts \in Nat \ {0} /\ IsFiniteSet(Gates) /\ Gates # {}

Standings == {"none", "invited", "pending", "denied", "blocked", "member", "moderator"}
Members   == {"member", "moderator"}
JoinModes == {"invite_only", "knock", "open", "captcha"}

VARIABLES
  joinMode,
  standing,    \* the membership table
  attempts,    \* the challenge table: wrong answers to each live challenge
  visit,       \* gates: the call in progress
  welcome,     \* history: invited, approved, seated, let in by the mode or solved a challenge
  seats        \* history: how many seats each challenge bought

groupVars == <<joinMode, standing, attempts, visit, welcome, seats>>

Rest   == [step |-> "rest"]
\* A visit that will write: whom, as what; "out": blocked ever since it began.
Visits == {Rest} \cup [step : {"check", "generate", "write"}, peer : Peers, as : Standings,
                       out : BOOLEAN]
                 \cup [step : {"answer"}, peer : Peers, to : Challenges, read : 0..MaxAttempts,
                       out : BOOLEAN]

Standing(p) == standing[p]
IsBlocked(p) == standing[p] = "blocked"
Live(c)      == c \in DOMAIN attempts
Unissued     == Challenges \ DOMAIN seats

GroupInit ==
  /\ joinMode \in JoinModes
  /\ standing = [p \in Peers |-> IF p = Owner THEN "moderator" ELSE "none"]
  /\ attempts = <<>> /\ seats = <<>>
  /\ visit = [g \in Gates |-> Rest]
  /\ welcome = {Owner}

Begin(g, v) == visit[g] = Rest /\ visit' = [visit EXCEPT ![g] = v]
Go(g, v)    == visit' = [visit EXCEPT ![g] = v]
Writes(p, s) == [step |-> "write", peer |-> p, as |-> s, out |-> IsBlocked(p)]

-------------------------------------------------------------------------------
\* join_decision and request_join: the row is read, what follows is by the mode.
Join(g, p) ==
  /\ ~IsBlocked(p) /\ standing[p] \notin Members
  /\ Begin(g, CASE joinMode = "captcha" -> [Writes(p, "pending") EXCEPT !.step = "generate"]
                [] joinMode = "open"    -> Writes(p, "member")
                [] joinMode = "knock"   -> Writes(p, "pending")
                [] OTHER -> Writes(p, IF standing[p] = "invited" THEN "member" ELSE "denied"))
  /\ welcome' = IF joinMode = "open" THEN welcome \cup {p} ELSE welcome
  /\ UNCHANGED <<joinMode, standing, attempts, seats>>

\* A fresh challenge each time, then the joiner is parked.
Generate(g) ==
  /\ visit[g].step = "generate"
  /\ \E c \in Unissued :
       /\ attempts' = [d \in DOMAIN attempts \cup {c} |-> IF d = c THEN 0 ELSE attempts[d]]
       /\ seats' = [d \in DOMAIN seats \cup {c} |-> IF d = c THEN 0 ELSE seats[d]]
  /\ Go(g, [visit[g] EXCEPT !.step = "write"])
  /\ UNCHANGED <<joinMode, standing, welcome>>

AnyoneAdmitted(p) == TRUE
\* admit: "a block-for-all'd FQID is rejected unconditionally".
Admittable(p)     == ~IsBlocked(p)

\* admit with an answer: verify reads the row of the challenge, whoever it was
\* issued to.  Which of two reads a block slips between makes no difference.
Admit(g, p, c) ==
  /\ Admittable(p) /\ Live(c)
  /\ Begin(g, [step |-> "answer", peer |-> p, to |-> c, read |-> attempts[c],
               out |-> IsBlocked(p)])
  /\ UNCHANGED <<joinMode, standing, attempts, welcome, seats>>

Without(c) == [d \in DOMAIN attempts \ {c} |-> attempts[d]]
KeepSolved(c) == attempts
\* Correct: the challenge is consumed.
Consumed(c)   == Without(c)

SolveCaptcha(g) ==
  /\ visit[g].step = "answer"
  /\ attempts' = Consumed(visit[g].to)
  /\ seats' = [seats EXCEPT ![visit[g].to] = @ + 1]
  /\ welcome' = welcome \cup {visit[g].peer}
  /\ Go(g, [step |-> "write", peer |-> visit[g].peer, as |-> "member", out |-> visit[g].out])
  /\ UNCHANGED <<joinMode, standing>>

\* Wrong: one attempt more than was read, and the last one reaps the row.
MissCaptcha(g) ==
  /\ visit[g].step = "answer"
  /\ LET c == visit[g].to IN
       attempts' = IF ~Live(c) THEN attempts
                   ELSE IF visit[g].read + 1 >= MaxAttempts THEN Without(c)
                   ELSE [attempts EXCEPT ![c] = visit[g].read + 1]
  /\ Go(g, Rest)
  /\ UNCHANGED <<joinMode, standing, welcome, seats>>

\* An expired challenge is reaped when it is read.
ExpireCaptcha(c) ==
  /\ Live(c) /\ attempts' = Without(c)
  /\ UNCHANGED <<joinMode, standing, visit, welcome, seats>>

-------------------------------------------------------------------------------
\* approve, deny, block_for_all, invite by a member: _require_moderator reads
\* the role of the caller first, if deny names one; approve is behind admit's
\* check.
Moderate(g, m, p, s) ==
  /\ standing[m] = "moderator" \/ s = "denied"
  /\ s = "member" => Admittable(p)
  /\ Begin(g, [Writes(p, s) EXCEPT !.step = IF s = "invited" THEN "check" ELSE "write"])
  /\ welcome' = IF s \in {"member", "invited"} THEN welcome \cup {p} ELSE welcome
  /\ UNCHANGED <<joinMode, standing, attempts, seats>>

\* invite without "by" needs no role, and never downgrades a member or a block.
Invite(g, p) ==
  /\ Begin(g, [Writes(p, "invited") EXCEPT !.step = "check"])
  /\ welcome' = welcome \cup {p}
  /\ UNCHANGED <<joinMode, standing, attempts, seats>>

CheckInvite(g) ==
  /\ visit[g].step = "check"
  /\ LET p == visit[g].peer IN
       Go(g, IF IsBlocked(p) \/ standing[p] \in Members THEN Rest
             ELSE [visit[g] EXCEPT !.step = "write"])
  /\ UNCHANGED <<joinMode, standing, attempts, welcome, seats>>

\* add_member: the owner seats a peer, with a role, whatever its row says.
AddMember(g, p, role) ==
  /\ Begin(g, [Writes(p, role) EXCEPT !.out = FALSE])
  /\ welcome' = welcome \cup {p}
  /\ UNCHANGED <<joinMode, standing, attempts, seats>>

\* The first use of a handle seeds the owner if its row has no role, and a
\* blocked row has none.
OpenGroup(g) ==
  /\ standing[Owner] \notin Members
  /\ Begin(g, [Writes(Owner, "moderator") EXCEPT !.out = FALSE])
  /\ UNCHANGED <<joinMode, standing, attempts, welcome, seats>>

\* _upsert.  A block ends the calls' excuse of having looked before it.
Upsert(g) ==
  /\ visit[g].step = "write"
  /\ LET p == visit[g].peer IN
       /\ standing' = [standing EXCEPT ![p] = visit[g].as]
       /\ visit' = [h \in Gates |->
            CASE h = g -> Rest
              [] h # g /\ visit[h] # Rest /\ visit[h].peer = p /\ visit[g].as # "blocked"
                       -> [visit[h] EXCEPT !.out = FALSE]
              [] OTHER -> visit[h]]
  /\ UNCHANGED <<joinMode, attempts, welcome, seats>>

\* A database that stays locked ends a call before its write.
Abort(g) ==
  /\ visit[g] # Rest /\ Go(g, Rest)
  /\ UNCHANGED <<joinMode, standing, attempts, welcome, seats>>

-------------------------------------------------------------------------------
GroupNext ==
  \/ \E g \in Gates : \/ Abort(g) \/ Generate(g) \/ SolveCaptcha(g) \/ MissCaptcha(g) \/ CheckInvite(g)
                      \/ OpenGroup(g) \/ Upsert(g)
  \/ \E g \in Gates, p \in Peers :
       \/ Join(g, p) \/ Invite(g, p)
       \/ \E role \in Members : AddMember(g, p, role)
       \/ \E c \in Challenges : Admit(g, p, c)
       \/ \E m \in Peers, s \in {"member", "denied", "blocked", "invited"} : Moderate(g, m, p, s)
  \/ \E c \in Challenges : ExpireCaptcha(c)

GroupSpec == GroupInit /\ [][GroupNext]_groupVars

-------------------------------------------------------------------------------
(* Every variable keeps its shape.                                         *)
GroupTypeOK ==
  /\ joinMode \in JoinModes /\ standing \in [Peers -> Standings]
  /\ DOMAIN attempts \subseteq DOMAIN seats /\ DOMAIN seats \subseteq Challenges
  /\ \A c \in DOMAIN attempts : attempts[c] \in 0..(MaxAttempts - 1)
  /\ visit \in [Gates -> Visits] /\ welcome \subseteq Peers

(* GroupJoinPolicy: whoever is a member was invited, approved, seated by   *)
(* the owner, let in by an open group or has solved a challenge.           *)
MembershipEarned == \A p \in Peers : standing[p] \in Members => p \in welcome

(* admit, "rejected UNCONDITIONALLY, before any captcha verification or    *)
(* moderator approval": a call that began after a block-for-all never      *)
(* seats, parks or invites the peer while the block stands.  A deny is the *)
(* exception: it makes a blocked row a denied one, and that peer may knock *)
(* again, against "dropped, may never re-knock" (consent_groups.py).       *)
BlockOutlasts == \A g \in Gates :
  visit[g].step = "write" /\ visit[g].out => visit[g].as \in {"blocked", "denied"}

(* Captcha, "consumed so it cannot be replayed": a solved challenge seats  *)
(* only the callers that had read it before it was consumed.               *)
ChallengeSpent == \A c \in DOMAIN seats : seats[c] <= Cardinality(Gates)

AdmissionHolds == MembershipEarned /\ BlockOutlasts /\ ChallengeSpent
===============================================================================
