------------------------------ MODULE Links_proofs ------------------------------
(***************************************************************************)
(* What the links of a node carry, as MCLinks checks them together: the    *)
(* GPU permit of the avatars is never doubled, and a call that nobody      *)
(* hangs up connects its two ends; a letter on flaky Nostr relays is found *)
(* by a whole poll; the bus serves everybody once; and what is sealed and  *)
(* signed is read, and accepted, as it was.  All this for any number of    *)
(* parties and messages and any bounds.                                    *)
(***************************************************************************)
EXTENDS MCLinks, FiniteSetTheorems, SequenceTheorems, WellFoundedInduction, TLAPS

--------------------------------------------------------------------------------
(* Avatars.  The one permit is counted where it is: each step of a task    *)
(* moves it from one of the four places to another.                        *)

FaceInv == /\ FaceTimeTypeOK /\ FaceTimeKeeps
           /\ IsFiniteSet(Starting) /\ IsFiniteSet(Registered) /\ IsFiniteSet(Ending)

LEMMA FaceTypeStep == FaceInv /\ [FaceTimeNext]_faceTimeVars =>
  /\ avatar' \in [Avatars -> {"none", "SIGNALING", "CONNECTED", "CLOSED"}]
  /\ severed' \subseteq Avatars /\ creator' \in [Creators -> Stages]
  /\ destroyer' \in [Destroyers -> Avatars \cup {NoAvatar}]
  /\ exceptions' \in 0..MaxRaises /\ gpuLock' \in Int
<1>. SUFFICES ASSUME FaceInv, [FaceTimeNext]_faceTimeVars
     PROVE  /\ avatar' \in [Avatars -> {"none", "SIGNALING", "CONNECTED", "CLOSED"}]
            /\ severed' \subseteq Avatars /\ creator' \in [Creators -> Stages]
            /\ destroyer' \in [Destroyers -> Avatars \cup {NoAvatar}]
            /\ exceptions' \in 0..MaxRaises /\ gpuLock' \in Int
  OBVIOUS
<1>. USE FaceTimeAssumption DEF FaceInv, FaceTimeTypeOK
<1>1. ASSUME NEW c \in Creators, NEW a \in Avatars, CreateSession(c, a)
      PROVE  creator' \in [Creators -> Stages]
  BY <1>1 DEF CreateSession, Stages, NoTask
<1>2. ASSUME NEW c \in Creators, AcquireGpu(c) PROVE creator' \in [Creators -> Stages]
  BY <1>2 DEF AcquireGpu, Stages, NoTask
<1>3. ASSUME NEW c \in Creators, Started(c) \/ StartRaises(c)
      PROVE  creator' \in [Creators -> Stages] /\ creator[c].agent \in Avatars
  BY <1>3 DEF Started, StartRaises, Stages, NoTask
<1>. QED
  BY <1>1, <1>2, <1>3 DEF FaceTimeNext, CreateSession, AcquireGpu, Started, StartRaises,
     DestroySession, Stopped, StopRaises, Connected, ConnectionEnds, PeerLeft, faceTimeVars

\* Where the permit is after each step.
PermitMoves == [FaceTimeNext]_faceTimeVars =>
  \/ UNCHANGED <<gpuLock, exceptions, Starting, Registered, Ending>>
  \/ /\ gpuLock > 0 /\ gpuLock' = gpuLock - 1
     /\ \E c \in Creators : c \notin Starting /\ Starting' = Starting \cup {c}
     /\ UNCHANGED <<exceptions, Registered, Ending>>
  \/ /\ \E c \in Starting, a \in Avatars :
          Starting' = Starting \ {c} /\ Registered' = Registered \cup {a}
     /\ UNCHANGED <<gpuLock, exceptions, Ending>>
  \/ /\ \E c \in Starting : Starting' = Starting \ {c}
     /\ exceptions' = exceptions + 1 /\ UNCHANGED <<gpuLock, Registered, Ending>>
  \/ /\ \E a \in Registered, d \in Destroyers \ Ending :
          Registered' = Registered \ {a} /\ Ending' = Ending \cup {d}
     /\ UNCHANGED <<gpuLock, exceptions, Starting>>
  \/ /\ \E d \in Ending : Ending' = Ending \ {d}
     /\ UNCHANGED <<Starting, Registered>>
     /\ \/ gpuLock' = gpuLock + 1 /\ UNCHANGED exceptions
        \/ exceptions' = exceptions + 1 /\ UNCHANGED gpuLock

LEMMA PermitStep == FaceInv => PermitMoves
<1>. SUFFICES ASSUME FaceInv, [FaceTimeNext]_faceTimeVars PROVE PermitMoves
  BY DEF PermitMoves
<1>. USE FaceTimeAssumption DEF FaceInv, FaceTimeTypeOK, Starting, Registered, Ending
<1>1. ASSUME NEW c \in Creators, NEW a \in Avatars, CreateSession(c, a)
      PROVE  UNCHANGED <<gpuLock, exceptions, Starting, Registered, Ending>>
  BY <1>1 DEF CreateSession, Stages, NoTask
<1>2. ASSUME NEW c \in Creators, AcquireGpu(c)
      PROVE  /\ c \notin Starting /\ Starting' = Starting \cup {c}
             /\ gpuLock > 0 /\ gpuLock' = gpuLock - 1
             /\ UNCHANGED <<exceptions, Registered, Ending>>
  BY <1>2 DEF AcquireGpu, Stages, NoTask
<1>3. ASSUME NEW c \in Creators, Started(c)
      PROVE  /\ c \in Starting /\ creator[c].agent \in Avatars
             /\ Starting' = Starting \ {c} /\ Registered' = Registered \cup {creator[c].agent}
             /\ UNCHANGED <<gpuLock, exceptions, Ending>>
  BY <1>3 DEF Started, Stages, NoTask
<1>4. ASSUME NEW c \in Creators, StartRaises(c)
      PROVE  /\ c \in Starting /\ Starting' = Starting \ {c}
             /\ exceptions' = exceptions + 1 /\ UNCHANGED <<gpuLock, Registered, Ending>>
  BY <1>4 DEF StartRaises, Stages, NoTask
<1>5. ASSUME NEW d \in Destroyers, NEW a \in Avatars, DestroySession(d, a)
      PROVE  /\ a \in Registered /\ d \in Destroyers \ Ending
             /\ Registered' = Registered \ {a} /\ Ending' = Ending \cup {d}
             /\ UNCHANGED <<gpuLock, exceptions, Starting>>
  BY <1>5 DEF DestroySession, IsThere
<1>6. ASSUME NEW d \in Destroyers, Stopped(d) \/ StopRaises(d)
      PROVE  /\ d \in Ending /\ Ending' = Ending \ {d} /\ UNCHANGED <<Starting, Registered>>
             /\ \/ gpuLock' = gpuLock + 1 /\ UNCHANGED exceptions
                \/ exceptions' = exceptions + 1 /\ UNCHANGED gpuLock
  BY <1>6 DEF Stopped, StopRaises
<1>7. ASSUME NEW a \in Avatars, Connected(a) \/ ConnectionEnds(a) \/ PeerLeft(a)
      PROVE  UNCHANGED <<gpuLock, exceptions, Starting, Registered, Ending>>
  BY <1>7 DEF Connected, ConnectionEnds, PeerLeft
<1>8. CASE UNCHANGED faceTimeVars
  BY <1>8 DEF faceTimeVars, PermitMoves
<1>. HIDE DEF FaceInv, FaceTimeTypeOK, Starting, Registered, Ending
<1>. QED BY <1>1, <1>2, <1>3, <1>4, <1>5, <1>6, <1>7, <1>8 DEF FaceTimeNext, PermitMoves

LEMMA FaceStep == FaceInv /\ [FaceTimeNext]_faceTimeVars => FaceInv'
<1>. SUFFICES ASSUME FaceInv, [FaceTimeNext]_faceTimeVars PROVE FaceInv'
  OBVIOUS
<1>. DEFINE B == Cardinality(Starting)
            R == Cardinality(Registered)
            E == Cardinality(Ending)
            Counted == /\ IsFiniteSet(Starting) /\ IsFiniteSet(Registered) /\ IsFiniteSet(Ending)
                       /\ B \in Nat /\ R \in Nat /\ E \in Nat
                       /\ gpuLock + B + R + E + exceptions = 1
<1>1. Counted /\ gpuLock \in 0..1 /\ exceptions \in Nat
  BY FS_CardinalityType, FaceTimeAssumption DEF FaceInv, FaceTimeKeeps, FaceTimeTypeOK
<1>2. /\ B = 0 <=> Starting = {}
      /\ R = 0 <=> Registered = {}
  BY <1>1, FS_EmptySet
<1>3. Counted'
  <2>. USE <1>1
  <2>1. CASE UNCHANGED <<gpuLock, exceptions, Starting, Registered, Ending>>
    BY <2>1
  <2>2. ASSUME NEW c \in Creators, c \notin Starting, Starting' = Starting \cup {c},
               gpuLock' = gpuLock - 1, UNCHANGED <<exceptions, Registered, Ending>>
        PROVE  Counted'
    <3>1. IsFiniteSet(Starting') /\ B' = B + 1
      BY <2>2, FS_AddElement
    <3>. QED BY <3>1, <2>2
  <2>3. ASSUME NEW c \in Starting, NEW a \in Avatars,
               Starting' = Starting \ {c}, Registered' = Registered \cup {a},
               UNCHANGED <<gpuLock, exceptions, Ending>>
        PROVE  Counted'
    <3>1. IsFiniteSet(Starting') /\ B' = B - 1
      BY <2>3, FS_RemoveElement
    <3>2. B # 0
      BY <1>2
    <3>3. a \notin Registered
      BY <3>2, <1>2
    <3>4. IsFiniteSet(Registered') /\ R' = R + 1
      BY <2>3, <3>3, FS_AddElement
    <3>. QED BY <3>1, <3>2, <3>4, <2>3
  <2>4. ASSUME NEW c \in Starting, Starting' = Starting \ {c}, exceptions' = exceptions + 1,
               UNCHANGED <<gpuLock, Registered, Ending>>
        PROVE  Counted'
    <3>1. IsFiniteSet(Starting') /\ B' = B - 1 /\ B # 0
      BY <2>4, <1>2, FS_RemoveElement
    <3>. QED BY <3>1, <2>4
  <2>5. ASSUME NEW a \in Registered, NEW d \in Destroyers \ Ending,
               Registered' = Registered \ {a}, Ending' = Ending \cup {d},
               UNCHANGED <<gpuLock, exceptions, Starting>>
        PROVE  Counted'
    <3>1. IsFiniteSet(Registered') /\ R' = R - 1 /\ R # 0
      BY <2>5, <1>2, FS_RemoveElement
    <3>2. IsFiniteSet(Ending') /\ E' = E + 1
      BY <2>5, FS_AddElement
    <3>. QED BY <3>1, <3>2, <2>5
  <2>6. ASSUME NEW d \in Ending, Ending' = Ending \ {d}, UNCHANGED <<Starting, Registered>>,
               \/ gpuLock' = gpuLock + 1 /\ UNCHANGED exceptions
               \/ exceptions' = exceptions + 1 /\ UNCHANGED gpuLock
        PROVE  Counted'
    <3>1. IsFiniteSet(Ending') /\ E' = E - 1 /\ E # 0
      BY <2>6, FS_RemoveElement, FS_EmptySet
    <3>2. CASE gpuLock' = gpuLock + 1 /\ UNCHANGED exceptions
      BY <3>1, <3>2, <2>6
    <3>3. CASE exceptions' = exceptions + 1 /\ UNCHANGED gpuLock
      BY <3>1, <3>3, <2>6
    <3>. QED BY <3>2, <3>3, <2>6
  <2>. HIDE DEF B, R, E, Counted
  <2>. QED BY <2>1, <2>2, <2>3, <2>4, <2>5, <2>6, PermitStep DEF PermitMoves
<1>4. gpuLock' >= 0
  BY <1>1, PermitStep, FaceTypeStep DEF PermitMoves
<1>5. gpuLock' \in 0..1 /\ FaceTimeKeeps'
  <2>1. gpuLock' \in Int /\ exceptions' \in Nat
    BY FaceTypeStep, FaceTimeAssumption
  <2>2. FaceTimeKeeps'
    BY <1>3 DEF FaceTimeKeeps
  <2>3. B' \in Nat /\ R' \in Nat /\ E' \in Nat
        /\ gpuLock' + B' + R' + E' + exceptions' = 1
    BY <1>3
  <2>4. ASSUME NEW g \in Int, NEW b \in Nat, NEW r \in Nat, NEW e \in Nat, NEW x \in Nat,
               g + b + r + e + x = 1, g >= 0
        PROVE  g \in 0..1
    BY <2>4
  <2>5. gpuLock' \in 0..1
    BY <2>1, <2>3, <2>4, <1>4
  <2>. QED BY <2>2, <2>5
<1>. QED BY <1>3, <1>5, FaceTypeStep DEF FaceInv, FaceTimeTypeOK

\* The GPU permit is never doubled.
THEOREM OnePermit == FaceTimeSpec => [](FaceTimeTypeOK /\ FaceTimeKeeps)
<1>1. FaceTimeInit => FaceInv
  <2>. SUFFICES ASSUME FaceTimeInit PROVE FaceInv
    OBVIOUS
  <2>1. Starting = {} /\ Registered = {} /\ Ending = {}
    BY DEF FaceTimeInit, Starting, Registered, Ending, NoTask
  <2>2. FaceTimeTypeOK
    BY FaceTimeAssumption DEF FaceTimeInit, FaceTimeTypeOK, Stages
  <2>3. gpuLock = 1 /\ exceptions = 0
    BY DEF FaceTimeInit
  <2>. QED BY <2>1, <2>2, <2>3, FS_EmptySet DEF FaceInv, FaceTimeKeeps
<1>2. FaceInv => FaceTimeTypeOK /\ FaceTimeKeeps
  BY DEF FaceInv
<1>. QED BY <1>1, <1>2, FaceStep, PTL DEF FaceTimeSpec

--------------------------------------------------------------------------------
(* Calls.  Once a session of n was used for p it is that of p until it is  *)
(* closed, and then the pair is spoiled; whatever names a session of n, on *)
(* its way to p or back, names one of p.                                   *)

Belongs(n, p, x) ==
  /\ x \in SessionIds /\ session[n][x].state # "unused"
  /\ IF session[n][x].state = "closed" THEN <<n, p>> \in spoiled ELSE current[n][p] = x

Fresh == \A n \in Managers, s \in SessionIds :
  session[n][s].state = "unused" => session[n][s] = Unused
Seats == \A n, p \in Managers : current[n][p] # NoSession =>
  /\ session[n][current[n][p]].state \notin {"unused", "closed"}
  /\ \A q \in Managers : current[n][q] = current[n][p] => q = p
\* A signal has a number of its own, and no later one was handled.
Numbers ==
  /\ IsFiniteSet(inboxed)
  /\ \A x \in inboxed : x.id <= Cardinality(inboxed) /\ \A y \in inboxed : x.id = y.id => x = y
  /\ \A n \in Managers : \A i \in handled[n] : i <= Cardinality(inboxed)
Addressed == \A x \in inboxed :
  /\ Belongs(x.from, x.to, x.of)
  /\ x.kind = "answer" => Belongs(x.to, x.from, x.for)
Gathers == \A n, p \in Managers, s \in SessionIds :
  gathering[n][p][s] > 0 => Belongs(n, p, s)
RouteFits(n, r) ==
  /\ r.offer.to = n /\ Belongs(n, r.offer.from, r.sid) /\ Belongs(r.offer.from, n, r.offer.of)
  /\ r.step = "answer" => session[n][r.sid].state \in {"answering", "closed"}
RoutesFit == \A n \in Managers : routing[n] # NoRoute => RouteFits(n, routing[n])
Answering == \A n \in Managers, s \in SessionIds :
  session[n][s].state = "answering" => routing[n].step = "answer" /\ routing[n].sid = s
Remotes == \A n, p \in Managers : current[n][p] # NoSession =>
  /\ session[n][current[n][p]].remote = NoSession \/ Belongs(p, n, session[n][current[n][p]].remote)
  /\ session[n][current[n][p]].state # "offered" => session[n][current[n][p]].remote # NoSession

\* A session that offered waits for something that is under way.
Clean(n, p) == <<n, p>> \notin spoiled /\ <<p, n>> \notin spoiled
Due(kind, n, p) == \E x \in inboxed :
  x.kind = kind /\ x.from = n /\ x.to = p /\ x.id \notin handled[p]
Pending(n, p) ==
  \/ gathering[n][p][current[n][p]] > 0
  \/ Due("offer", n, p) \/ Due("answer", p, n)
  \/ routing[p] # NoRoute /\ routing[p].offer.from = n
Waits(n, p) == current[n][p] # NoSession /\ session[n][current[n][p]].state = "offered" /\ Clean(n, p)
WaitsFor == \A n, p \in Managers : Waits(n, p) => Pending(n, p)

SeatInv  == CallsTypeOK /\ Fresh /\ Seats
CallsInv == /\ SeatInv /\ Numbers /\ Addressed /\ Gathers /\ RoutesFit /\ Answering /\ Remotes
            /\ AnswersFit /\ WaitsFor

\* The session of a peer is the one it has, or one that was not used.
LEMMA SeatOf ==
  ASSUME SeatInv, NEW n \in Managers, NEW p \in Managers, InReach(n, p)
  PROVE  /\ SessionFor(n, p) \in SessionIds
         /\ \/ current[n][p] = SessionFor(n, p)
            \/ /\ current[n][p] = NoSession /\ session[n][SessionFor(n, p)] = Unused
               /\ \A q \in Managers : current[n][q] # SessionFor(n, p)
<1>. USE CallsAssumption DEF SeatInv, CallsTypeOK, MaybeId, SessionIds, NoSession
<1>1. CASE current[n][p] # NoSession
  BY <1>1 DEF SessionFor
<1>2. CASE current[n][p] = NoSession
  <2>1. NewSession(n) \in Spare(n)
    BY <1>2 DEF InReach, NewSession
  <2>2. \A q \in Managers : current[n][q] # NewSession(n)
    <3>1. NewSession(n) \in SessionIds /\ session[n][NewSession(n)].state = "unused"
      BY <2>1 DEF Spare, Unused
    <3>2. ASSUME NEW q \in Managers, current[n][q] = NewSession(n) PROVE FALSE
      <4>1. current[n][q] # NoSession
        BY <3>1, <3>2
      <4>. QED BY <3>1, <3>2, <4>1 DEF Seats
    <3>. QED BY <3>2
  <2>. QED BY <2>1, <2>2, <1>2 DEF SessionFor, Spare
<1>. QED BY <1>1, <1>2

\* A new signal has a new number.
LEMMA NewNumber ==
  ASSUME Numbers, inboxed \subseteq Signals, NEW x, x.id = Cardinality(inboxed) + 1,
         NEW boxed, boxed = inboxed \cup {x}
  PROVE  /\ IsFiniteSet(boxed) /\ Cardinality(boxed) = Cardinality(inboxed) + 1
         /\ Cardinality(inboxed) \in Nat
         /\ \A y \in boxed : /\ y.id <= Cardinality(boxed)
                             /\ \A z \in boxed : y.id = z.id => y = z
         /\ \A n \in Managers : x.id \notin handled[n]
<1>1. IsFiniteSet(inboxed) /\ Cardinality(inboxed) \in Nat
  BY FS_CardinalityType DEF Numbers
<1>. DEFINE C == Cardinality(inboxed)
<1>2. x \notin inboxed
  BY <1>1 DEF Numbers
<1>3. IsFiniteSet(boxed) /\ Cardinality(boxed) = C + 1
  BY <1>1, <1>2, FS_AddElement
<1>4. ASSUME NEW y \in boxed PROVE y.id <= C + 1
  BY <1>1, <1>4 DEF Numbers, Signals
<1>5. ASSUME NEW y \in boxed, NEW z \in boxed, y.id = z.id PROVE y = z
  BY <1>1, <1>5 DEF Numbers, Signals
<1>6. ASSUME NEW n \in Managers PROVE x.id \notin handled[n]
  <2>1. \A i \in handled[n] : i <= C
    BY DEF Numbers
  <2>2. PICK i : i = x.id
    OBVIOUS
  <2>3. i = C + 1 /\ ~(C + 1 <= C)
    BY <1>1, <2>2
  <2>. HIDE DEF C
  <2>4. ~(i <= C)
    BY <2>3
  <2>5. i \notin handled[n]
    BY <2>1, <2>4
  <2>. QED BY <2>2, <2>5
<1>7. \A y \in boxed : y.id <= Cardinality(boxed) /\ \A z \in boxed : y.id = z.id => y = z
  BY <1>3, <1>4, <1>5
<1>8. \A n \in Managers : x.id \notin handled[n]
  BY <1>6
<1>. QED BY <1>1, <1>3, <1>7, <1>8

\* What belonged to somebody still does.
Stays == \A m, q \in Managers, x \in SessionIds : Belongs(m, q, x) => Belongs(m, q, x)'
SeatsStay == /\ session' \in [Managers -> [SessionIds -> Sessions]]
             /\ current' \in [Managers -> [Managers -> MaybeId]]
             /\ Fresh' /\ Seats' /\ Stays

\* A call or an offer uses the session of its peer.
LEMMA OwnsStep ==
  ASSUME SeatInv, NEW n \in Managers, NEW p \in Managers, InReach(n, p),
         NEW s \in SessionIds, s = SessionFor(n, p),
         NEW made \in Sessions, made.state \notin {"unused", "closed"},
         Owns(n, p, s, made), UNCHANGED spoiled
  PROVE  SeatsStay
<1>. USE CallsAssumption DEF SeatInv, CallsTypeOK, Owns
<1>1. /\ session' \in [Managers -> [SessionIds -> Sessions]]
      /\ current' \in [Managers -> [Managers -> MaybeId]]
  BY DEF MaybeId
<1>2. \/ current[n][p] = s
      \/ /\ current[n][p] = NoSession /\ session[n][s] = Unused
         /\ \A q \in Managers : current[n][q] # s
  BY SeatOf
<1>3. s # NoSession
  BY DEF SessionIds, NoSession
<1>4. \A m \in Managers, x \in SessionIds :
        session'[m][x] = IF m = n /\ x = s THEN made ELSE session[m][x]
  OBVIOUS
<1>5. \A m, q \in Managers :
        current'[m][q] = IF m = n /\ q = p THEN s ELSE current[m][q]
  OBVIOUS
<1>6. Fresh'
  BY <1>4 DEF Fresh
<1>7. Seats'
  <2>. SUFFICES ASSUME NEW m \in Managers, NEW q \in Managers, current'[m][q] # NoSession
                PROVE  /\ session'[m][current'[m][q]].state \notin {"unused", "closed"}
                       /\ \A z \in Managers : current'[m][z] = current'[m][q] => z = q
    BY DEF Seats
  <2>1. CASE m = n /\ q = p
    BY <2>1, <1>2, <1>3, <1>4, <1>5 DEF Seats
  <2>2. CASE ~(m = n /\ q = p)
    <3>1. current'[m][q] = current[m][q] /\ current[m][q] \in SessionIds
      BY <2>2, <1>5 DEF MaybeId
    <3>2. ~(m = n /\ current[m][q] = s)
      BY <2>2, <3>1, <1>2 DEF Seats
    <3>. QED BY <3>1, <3>2, <1>2, <1>4, <1>5 DEF Seats
  <2>. QED BY <2>1, <2>2
<1>8. Stays
  <2>. SUFFICES ASSUME NEW m \in Managers, NEW q \in Managers, NEW x \in SessionIds,
                       Belongs(m, q, x)
                PROVE  Belongs(m, q, x)'
    BY DEF Stays
  <2>1. CASE m = n /\ x = s
    <3>1. session[n][s].state # "closed" /\ current[n][q] = s
      BY <2>1, <1>2, <1>3 DEF Belongs, Seats, Unused
    <3>2. q = p
      BY <3>1, <1>2, <1>3 DEF Seats
    <3>. QED BY <2>1, <3>1, <3>2, <1>4, <1>5 DEF Belongs
  <2>2. CASE ~(m = n /\ x = s)
    <3>1. session'[m][x] = session[m][x]
      BY <2>2, <1>4 DEF Belongs
    <3>2. ASSUME session[m][x].state # "closed" PROVE current'[m][q] = x
      <4>1. current[m][q] = x /\ x # NoSession
        BY <3>2 DEF Belongs, SessionIds, NoSession
      <4>. QED BY <4>1, <2>2, <1>2, <1>5
    <3>. QED BY <3>1, <3>2 DEF Belongs
  <2>. QED BY <2>1, <2>2
<1>. QED BY <1>1, <1>6, <1>7, <1>8 DEF SeatsStay

\* A session that is not closed or new only changes its state.
LEMMA TurnStep ==
  ASSUME SeatInv, NEW n \in Managers, NEW s \in SessionIds,
         session[n][s].state \notin {"unused", "closed"},
         NEW made \in Sessions, made.state \notin {"unused", "closed"},
         session' = [session EXCEPT ![n][s] = made], UNCHANGED <<current, spoiled>>
  PROVE  SeatsStay
<1>. USE CallsAssumption DEF SeatInv, CallsTypeOK
<1>1. /\ session' \in [Managers -> [SessionIds -> Sessions]]
      /\ current' \in [Managers -> [Managers -> MaybeId]]
  OBVIOUS
<1>2. \A m \in Managers, x \in SessionIds :
        session'[m][x] = IF m = n /\ x = s THEN made ELSE session[m][x]
  OBVIOUS
<1>3. Fresh' /\ Stays
  BY <1>2 DEF Fresh, Stays, Belongs
<1>4. Seats'
  <2>1. \A m, q \in Managers : current[m][q] # NoSession => current[m][q] \in SessionIds
    BY DEF MaybeId
  <2>. QED BY <2>1, <1>2 DEF Seats
<1>. QED BY <1>1, <1>3, <1>4 DEF SeatsStay

LEMMA HangupSeats ==
  ASSUME SeatInv, NEW n \in Managers, NEW p \in Managers, Hangup(n, p)
  PROVE  SeatsStay
<1>. USE CallsAssumption DEF SeatInv, CallsTypeOK, Hangup
<1>. DEFINE s == current[n][p]
<1>1. s \in SessionIds /\ s # NoSession
  BY DEF MaybeId
<1>2. \A m \in Managers, x \in SessionIds :
        session'[m][x] = IF m = n /\ x = s THEN [session[m][x] EXCEPT !.state = "closed"]
                                          ELSE session[m][x]
  BY <1>1
<1>3. \A m, q \in Managers :
        current'[m][q] = IF m = n /\ q = p THEN NoSession ELSE current[m][q]
  OBVIOUS
<1>5. \A x \in SessionIds : /\ [session[n][x] EXCEPT !.state = "closed"] \in Sessions
                            /\ [session[n][x] EXCEPT !.state = "closed"].state = "closed"
  <2>. SUFFICES ASSUME NEW x \in SessionIds
                PROVE  /\ [session[n][x] EXCEPT !.state = "closed"] \in Sessions
                       /\ [session[n][x] EXCEPT !.state = "closed"].state = "closed"
    OBVIOUS
  <2>1. session[n][x] \in Sessions
    OBVIOUS
  <2>. QED BY <2>1 DEF Sessions
<1>4. /\ session' \in [Managers -> [SessionIds -> Sessions]]
      /\ current' \in [Managers -> [Managers -> MaybeId]]
  <2>1. [session[n][s] EXCEPT !.state = "closed"] \in Sessions
    BY <1>1, <1>5
  <2>2. session' = [session EXCEPT ![n] = [session[n] EXCEPT ![s] = [session[n][s] EXCEPT !.state = "closed"]]]
    OBVIOUS
  <2>3. session[n] \in [SessionIds -> Sessions]
    OBVIOUS
  <2>4. [session[n] EXCEPT ![s] = [session[n][s] EXCEPT !.state = "closed"]] \in [SessionIds -> Sessions]
    BY <2>1, <2>3
  <2>5. session' \in [Managers -> [SessionIds -> Sessions]]
    BY <2>2, <2>4
  <2>6. current' \in [Managers -> [Managers -> MaybeId]]
    BY DEF MaybeId
  <2>. QED BY <2>5, <2>6
<1>6. Fresh'
  BY <1>2, <1>5 DEF Fresh
<1>7. Seats'
  <2>1. ASSUME NEW m \in Managers, NEW q \in Managers, current'[m][q] # NoSession
        PROVE  current'[m][q] = current[m][q] /\ current[m][q] \in SessionIds
               /\ ~(m = n /\ current[m][q] = s)
    BY <2>1, <1>1, <1>3 DEF Seats, MaybeId
  <2>. QED BY <2>1, <1>2, <1>3 DEF Seats
<1>8. Stays
  <2>. SUFFICES ASSUME NEW m \in Managers, NEW q \in Managers, NEW x \in SessionIds,
                       Belongs(m, q, x)
                PROVE  Belongs(m, q, x)'
    BY DEF Stays
  <2>1. CASE m = n /\ x = s
    <3>1. q = p
      BY <2>1, <1>1 DEF Seats, Belongs
    <3>. QED BY <2>1, <3>1, <1>2, <1>5 DEF Belongs
  <2>2. CASE ~(m = n /\ x = s)
    BY <2>2, <1>1, <1>2, <1>3 DEF Belongs
  <2>. QED BY <2>1, <2>2
<1>. QED BY <1>4, <1>6, <1>7, <1>8 DEF SeatsStay

LEMMA DeathSeats ==
  ASSUME SeatInv, NEW n \in Managers, ManagerDies(n)
  PROVE  SeatsStay
<1>. USE CallsAssumption DEF SeatInv, CallsTypeOK, ManagerDies
<1>. DEFINE Shut == [s \in SessionIds |-> IF session[n][s] = Unused THEN Unused
                                          ELSE [session[n][s] EXCEPT !.state = "closed"]]
<1>0. session' = [session EXCEPT ![n] = Shut]
  OBVIOUS
<1>1. \A m \in Managers, x \in SessionIds : session'[m][x] =
        IF m = n /\ session[m][x] # Unused THEN [session[m][x] EXCEPT !.state = "closed"]
                                           ELSE session[m][x]
  <2>1. \A x \in SessionIds : Shut[x] = IF session[n][x] # Unused
                              THEN [session[n][x] EXCEPT !.state = "closed"] ELSE session[n][x]
    OBVIOUS
  <2>2. \A m \in Managers : session'[m] = IF m = n THEN Shut ELSE session[m]
    BY <1>0
  <2>. HIDE DEF Shut
  <2>. QED BY <2>1, <2>2
<1>2. \A m, q \in Managers : current'[m][q] = IF m = n THEN NoSession ELSE current[m][q]
  OBVIOUS
<1>3. \A m \in Managers, x \in SessionIds :
        /\ session[m][x] \in Sessions
        /\ [session[m][x] EXCEPT !.state = "closed"] \in Sessions
        /\ [session[m][x] EXCEPT !.state = "closed"].state = "closed"
  <2>. SUFFICES ASSUME NEW m \in Managers, NEW x \in SessionIds
                PROVE  /\ session[m][x] \in Sessions
                       /\ [session[m][x] EXCEPT !.state = "closed"] \in Sessions
                       /\ [session[m][x] EXCEPT !.state = "closed"].state = "closed"
    OBVIOUS
  <2>1. session[m][x] \in Sessions
    OBVIOUS
  <2>. QED BY <2>1 DEF Sessions
<1>4. /\ session' \in [Managers -> [SessionIds -> Sessions]]
      /\ current' \in [Managers -> [Managers -> MaybeId]]
  <2>1. Shut \in [SessionIds -> Sessions]
    BY <1>3
  <2>. HIDE DEF Shut
  <2>2. session' \in [Managers -> [SessionIds -> Sessions]]
    BY <2>1, <1>0
  <2>3. current' \in [Managers -> [Managers -> MaybeId]]
    BY DEF MaybeId
  <2>. QED BY <2>2, <2>3
<1>5. Fresh'
  BY <1>1, <1>3 DEF Fresh
<1>6. Seats'
  <2>1. ASSUME NEW m \in Managers, NEW q \in Managers, current'[m][q] # NoSession
        PROVE  current'[m][q] = current[m][q] /\ current[m][q] \in SessionIds /\ m # n
    BY <2>1, <1>2 DEF MaybeId
  <2>. QED BY <2>1, <1>1, <1>2 DEF Seats
<1>7. Stays
  <2>. SUFFICES ASSUME NEW m \in Managers, NEW q \in Managers, NEW x \in SessionIds,
                       Belongs(m, q, x)
                PROVE  Belongs(m, q, x)'
    BY DEF Stays
  <2>1. session[m][x] # Unused
    BY DEF Belongs, Unused
  <2>2. CASE m = n
    <3>1. session'[m][x].state = "closed"
      BY <2>1, <2>2, <1>1, <1>3
    <3>2. current[m][q] # NoSession \/ <<m, q>> \in spoiled
      BY DEF Belongs, SessionIds, NoSession
    <3>3. <<m, q>> \in spoiled'
      BY <2>2, <3>2
    <3>. QED BY <3>1, <3>3 DEF Belongs
  <2>3. CASE m # n
    BY <2>3, <1>1, <1>2 DEF Belongs
  <2>. QED BY <2>2, <2>3
<1>. QED BY <1>4, <1>5, <1>6, <1>7 DEF SeatsStay

LEMMA IdleSeats ==
  ASSUME SeatInv, UNCHANGED <<session, current>>, spoiled \subseteq spoiled'
  PROVE  SeatsStay
BY DEF SeatInv, CallsTypeOK, SeatsStay, Fresh, Seats, Stays, Belongs

LEMMA PlaceSeats ==
  ASSUME SeatInv, NEW n \in Managers, NEW p \in Managers, Place(n, p)
  PROVE  SeatsStay /\ CallsTypeOK'
<1>. DEFINE s == SessionFor(n, p)
            made == [session[n][s] EXCEPT !.state = "offered"]
<1>1. s \in SessionIds
  BY SeatOf DEF Place
<1>2. made \in Sessions /\ made.state = "offered"
  <2>. HIDE DEF s
  <2>3. session[n][s] \in Sessions
    BY <1>1 DEF SeatInv, CallsTypeOK
  <2>. QED BY <2>3 DEF Sessions
<1>3. Owns(n, p, s, made) /\ InReach(n, p) /\ UNCHANGED spoiled
  BY DEF Place
<1>4. SeatsStay
  <2>. HIDE DEF s, made
  <2>1. s = SessionFor(n, p)
    BY DEF s
  <2>. QED BY <2>1, <1>1, <1>2, <1>3, OwnsStep
<1>5. gathering' \in [Managers -> [Managers -> [SessionIds -> Nat]]]
  <2>1. gathering' = [gathering EXCEPT ![n][p][s] = @ + 1]
    BY DEF Place
  <2>. HIDE DEF s
  <2>. QED BY <2>1, <1>1 DEF SeatInv, CallsTypeOK
<1>6. placed' \in 0..MaxCalls
  BY CallsAssumption DEF Place, SeatInv, CallsTypeOK
<1>. QED BY <1>4, <1>5, <1>6 DEF Place, SeatInv, CallsTypeOK, SeatsStay

\* A signal that is sent is one.
LEMMA EmitType ==
  ASSUME Numbers, inboxed \subseteq Signals, NEW n \in Managers, NEW p \in Managers,
         NEW kind \in {"offer", "answer"}, NEW s \in SessionIds, NEW for \in MaybeId,
         Emits(kind, n, p, s, for)
  PROVE  inboxed' \subseteq Signals
<1>1. Cardinality(inboxed) \in Nat
  BY FS_CardinalityType DEF Numbers
<1>. QED BY <1>1 DEF Emits, Signals

LEMMA SendOfferedSeats ==
  ASSUME SeatInv, Numbers, NEW n \in Managers, NEW p \in Managers, NEW s \in SessionIds,
         SendOffered(n, p, s)
  PROVE  SeatsStay /\ CallsTypeOK'
<1>1. SeatsStay /\ spoiled' \subseteq Managers \X Managers
  BY IdleSeats DEF SendOffered, FailsToSend, SeatInv, CallsTypeOK
<1>2. gathering' \in [Managers -> [Managers -> [SessionIds -> Nat]]]
  BY DEF SendOffered, SeatInv, CallsTypeOK
<1>3. inboxed' \subseteq Signals
  <2>1. NoSession \in MaybeId
    BY DEF MaybeId
  <2>. QED BY <2>1, EmitType DEF SendOffered, FailsToSend, SeatInv, CallsTypeOK
<1>. QED BY <1>1, <1>2, <1>3 DEF SendOffered, SeatInv, CallsTypeOK, SeatsStay

LEMMA TakeOfferSeats ==
  ASSUME SeatInv, NEW n \in Managers, NEW signal \in inboxed, TakeOffer(n, signal)
  PROVE  SeatsStay /\ CallsTypeOK'
<1>. DEFINE p == signal.from
            s == SessionFor(n, p)
            made == [session[n][s] EXCEPT !.state = "answering", !.remote = signal.of]
<1>1. signal \in Signals /\ p \in Managers /\ signal.of \in SessionIds /\ signal.id \in Nat
  BY DEF SeatInv, CallsTypeOK, Signals
<1>2. s \in SessionIds
  BY <1>1, SeatOf DEF TakeOffer
<1>3. handled' \in [Managers -> SUBSET Nat]
  BY <1>1 DEF TakeOffer, Takes, SeatInv, CallsTypeOK
<1>4. UNCHANGED <<inboxed, gathering, placed, hangups, restarts>>
  BY DEF TakeOffer, Takes
<1>5. CASE Accepts(n, signal.from, s)
  <2>1. made \in Sessions /\ made.state = "answering"
    <3>. HIDE DEF s
    <3>1. session[n][s] \in Sessions
      BY <1>1, <1>2 DEF SeatInv, CallsTypeOK
    <3>. QED BY <3>1, <1>1 DEF Sessions, MaybeId
  <2>2. Owns(n, p, s, made) /\ UNCHANGED spoiled
        /\ routing' = [routing EXCEPT ![n] = [step |-> "answer", sid |-> s, offer |-> signal]]
    BY <1>5 DEF TakeOffer
  <2>3. SeatsStay
    <3>1. s = SessionFor(n, p) /\ InReach(n, p)
      BY DEF TakeOffer
    <3>. HIDE DEF s, made, p
    <3>. QED BY <3>1, <2>1, <2>2, <1>1, <1>2, OwnsStep
  <2>4. routing' \in [Managers -> Routes]
    <3>. HIDE DEF s
    <3>. QED BY <2>2, <1>1, <1>2 DEF SeatInv, CallsTypeOK, Routes
  <2>. QED BY <2>2, <2>3, <2>4, <1>3, <1>4 DEF SeatInv, CallsTypeOK, SeatsStay
<1>6. CASE ~Accepts(n, signal.from, s)
  <2>1. spoiled' = spoiled \cup {<<n, p>>} /\ UNCHANGED <<session, current, routing>>
    BY <1>6 DEF TakeOffer
  <2>. QED BY <2>1, <1>1, <1>3, <1>4, IdleSeats DEF SeatInv, CallsTypeOK
<1>. QED BY <1>5, <1>6

LEMMA PrepareSeats ==
  ASSUME SeatInv, NEW n \in Managers, PrepareAnswer(n)
  PROVE  SeatsStay /\ CallsTypeOK'
<1>. DEFINE s == routing[n].sid
            made == [session[n][s] EXCEPT !.state = "stable"]
<1>1. routing[n] \in Routes /\ routing[n] # NoRoute /\ s \in SessionIds
  BY DEF PrepareAnswer, SeatInv, CallsTypeOK, Routes, NoRoute
<1>2. CASE session[n][s].state = "answering"
  <2>1. made \in Sessions /\ made.state = "stable"
    <3>. HIDE DEF s
    <3>1. session[n][s] \in Sessions
      BY <1>1 DEF SeatInv, CallsTypeOK
    <3>. QED BY <3>1 DEF Sessions
  <2>2. session' = [session EXCEPT ![n][s] = made] /\ UNCHANGED <<current, spoiled>>
    BY <1>2 DEF PrepareAnswer
  <2>3. SeatsStay
    <3>. HIDE DEF s, made
    <3>. QED BY <2>1, <2>2, <1>1, <1>2, TurnStep
  <2>4. routing' \in [Managers -> Routes]
    <3>1. routing[n] \in [step : {"answer", "emit"}, sid : SessionIds, offer : Signals]
      BY <1>1 DEF Routes
    <3>2. [routing[n] EXCEPT !.step = "emit"] \in Routes
      BY <3>1 DEF Routes
    <3>3. routing' = [routing EXCEPT ![n] = [routing[n] EXCEPT !.step = "emit"]]
      BY <1>2 DEF PrepareAnswer
    <3>. QED BY <3>2, <3>3 DEF SeatInv, CallsTypeOK
  <2>. QED BY <2>3, <2>4 DEF PrepareAnswer, SeatInv, CallsTypeOK, SeatsStay
<1>3. CASE session[n][s].state # "answering"
  <2>1. routing' = [routing EXCEPT ![n] = NoRoute] /\ UNCHANGED <<session, current, spoiled>>
    BY <1>3 DEF PrepareAnswer
  <2>2. routing' \in [Managers -> Routes]
    BY <2>1 DEF SeatInv, CallsTypeOK, Routes
  <2>. QED BY <2>1, <2>2, IdleSeats DEF PrepareAnswer, SeatInv, CallsTypeOK
<1>. QED BY <1>2, <1>3

LEMMA SendAnswerSeats ==
  ASSUME SeatInv, Numbers, NEW n \in Managers, SendAnswer(n)
  PROVE  SeatsStay /\ CallsTypeOK'
<1>. DEFINE r == routing[n]
<1>1. r.sid \in SessionIds /\ r.offer \in Signals
  BY DEF SendAnswer, SeatInv, CallsTypeOK, Routes, NoRoute
<1>2. r.offer.from \in Managers /\ r.offer.of \in SessionIds /\ r.offer.of \in MaybeId
  BY <1>1 DEF Signals, MaybeId
<1>3. SeatsStay /\ spoiled' \subseteq Managers \X Managers
  BY <1>2, IdleSeats DEF SendAnswer, FailsToSend, SeatInv, CallsTypeOK
<1>4. inboxed' \subseteq Signals
  BY <1>1, <1>2, EmitType DEF SendAnswer, FailsToSend, SeatInv, CallsTypeOK
<1>5. routing' \in [Managers -> Routes]
  BY DEF SendAnswer, SeatInv, CallsTypeOK, Routes
<1>. QED BY <1>3, <1>4, <1>5 DEF SendAnswer, SeatInv, CallsTypeOK, SeatsStay

LEMMA TakeAnswerSeats ==
  ASSUME SeatInv, NEW n \in Managers, NEW signal \in inboxed, TakeAnswer(n, signal)
  PROVE  SeatsStay /\ CallsTypeOK'
<1>. DEFINE s == current[n][signal.from]
            made == [state |-> "stable", remote |-> signal.of, answered |-> signal.for]
<1>1. signal \in Signals /\ signal.from \in Managers /\ signal.id \in Nat /\ made \in Sessions
  BY DEF SeatInv, CallsTypeOK, Signals, Sessions, MaybeId
<1>2. handled' \in [Managers -> SUBSET Nat]
  BY <1>1 DEF TakeAnswer, Takes, SeatInv, CallsTypeOK
<1>3. SeatsStay
  <2>1. CASE Awaited(n, signal)
    <3>1. s \in SessionIds /\ session[n][s].state = "offered"
      BY <2>1, <1>1 DEF Awaited, SeatInv, CallsTypeOK, MaybeId
    <3>2. session' = [session EXCEPT ![n][s] = made] /\ UNCHANGED <<current, spoiled>>
      BY <2>1 DEF TakeAnswer
    <3>3. made.state = "stable"
      OBVIOUS
    <3>. HIDE DEF s, made
    <3>. QED BY <3>1, <3>2, <3>3, <1>1, TurnStep
  <2>2. CASE ~Awaited(n, signal)
    BY <2>2, IdleSeats DEF TakeAnswer
  <2>. QED BY <2>1, <2>2
<1>. QED BY <1>2, <1>3 DEF TakeAnswer, Takes, SeatInv, CallsTypeOK, SeatsStay

LEMMA EndSeats ==
  ASSUME SeatInv, NEW n \in Managers, ManagerDies(n) \/ \E p \in Managers : Hangup(n, p)
  PROVE  SeatsStay /\ CallsTypeOK'
<1>. USE CallsAssumption
<1>1. CASE ManagerDies(n)
  <2>1. SeatsStay
    BY <1>1, DeathSeats
  <2>2. gathering' \in [Managers -> [Managers -> [SessionIds -> Nat]]]
        /\ handled' \in [Managers -> SUBSET Nat] /\ routing' \in [Managers -> Routes]
        /\ restarts' \in 0..MaxRestarts
    BY <1>1 DEF ManagerDies, SeatInv, CallsTypeOK, Routes
  <2>3. spoiled' \subseteq Managers \X Managers
    BY <1>1 DEF ManagerDies, SeatInv, CallsTypeOK
  <2>. QED BY <1>1, <2>1, <2>2, <2>3 DEF ManagerDies, SeatInv, CallsTypeOK, SeatsStay
<1>2. ASSUME NEW p \in Managers, Hangup(n, p) PROVE SeatsStay /\ CallsTypeOK'
  <2>1. SeatsStay
    BY <1>2, HangupSeats
  <2>2. hangups' \in 0..MaxHangups /\ spoiled' \subseteq Managers \X Managers
    BY <1>2 DEF Hangup, SeatInv, CallsTypeOK
  <2>3. UNCHANGED <<inboxed, handled, routing, gathering, placed, restarts>>
    BY <1>2 DEF Hangup
  <2>. QED BY <2>1, <2>2, <2>3 DEF SeatInv, CallsTypeOK, SeatsStay
<1>. QED BY <1>1, <1>2

LEMMA SeatStep == SeatInv /\ Numbers /\ [CallsNext]_callsVars => SeatsStay /\ CallsTypeOK'
<1>. SUFFICES ASSUME SeatInv, Numbers, [CallsNext]_callsVars PROVE SeatsStay /\ CallsTypeOK'
  OBVIOUS
<1>1. CASE UNCHANGED callsVars
  BY <1>1, IdleSeats DEF callsVars, SeatInv, CallsTypeOK
<1>2. CASE CallsNext
  BY <1>2, PlaceSeats, SendOfferedSeats, TakeOfferSeats, PrepareSeats, SendAnswerSeats,
     TakeAnswerSeats, EndSeats DEF CallsNext
<1>. QED BY <1>1, <1>2

\* What a step does to the sessions.
Turns(n, s, made) == \A m \in Managers, x \in SessionIds :
  session'[m][x] = IF m = n /\ x = s THEN made ELSE session[m][x]
Seated(n, p, s) == \A m, q \in Managers :
  current'[m][q] = IF m = n /\ q = p THEN s ELSE current[m][q]
Was(n, p, s) == /\ s \in SessionIds /\ s # NoSession
                /\ \/ current[n][p] = s
                   \/ current[n][p] = NoSession /\ session[n][s] = Unused

LEMMA OwnsIs ==
  ASSUME SeatInv, NEW n \in Managers, NEW p \in Managers, InReach(n, p), NEW made,
         Owns(n, p, SessionFor(n, p), made)
  PROVE  /\ Was(n, p, SessionFor(n, p)) /\ Turns(n, SessionFor(n, p), made)
         /\ Seated(n, p, SessionFor(n, p))
<1>. DEFINE s == SessionFor(n, p)
<1>1. Was(n, p, s)
  <2>1. /\ s \in SessionIds
        /\ \/ current[n][p] = s
           \/ current[n][p] = NoSession /\ session[n][s] = Unused
    BY SeatOf
  <2>2. s # NoSession
    BY <2>1, CallsAssumption DEF SessionIds, NoSession
  <2>. QED BY <2>1, <2>2 DEF Was
<1>. HIDE DEF s
<1>2. Turns(n, s, made) /\ Seated(n, p, s)
  <2>1. session' = [session EXCEPT ![n][s] = made] /\ current' = [current EXCEPT ![n][p] = s]
    BY DEF Owns, s
  <2>2. s \in SessionIds
    BY <1>1 DEF Was
  <2>. QED BY <2>1, <2>2 DEF Turns, Seated, SeatInv, CallsTypeOK
<1>. QED BY <1>1, <1>2 DEF s

LEMMA PlaceIs ==
  ASSUME SeatInv, NEW n \in Managers, NEW p \in Managers, Place(n, p)
  PROVE  LET s == SessionFor(n, p) IN
         /\ Was(n, p, s) /\ session[n][s].state \in {"unused", "stable", "offered"}
         /\ Turns(n, s, [state |-> "offered", remote |-> session[n][s].remote,
                         answered |-> session[n][s].answered])
         /\ Seated(n, p, s) /\ gathering' = [gathering EXCEPT ![n][p][s] = @ + 1]
<1>. DEFINE s == SessionFor(n, p)
            made == [session[n][s] EXCEPT !.state = "offered"]
<1>1. InReach(n, p) /\ Owns(n, p, s, made) /\ StateOf(n, s) \in {"stable", "offered"}
      /\ gathering' = [gathering EXCEPT ![n][p][s] = @ + 1]
  BY DEF Place
<1>. HIDE DEF made
<1>2. Was(n, p, s) /\ Turns(n, s, made) /\ Seated(n, p, s)
  BY <1>1, OwnsIs
<1>. HIDE DEF s
<1>3. session[n][s] \in Sessions
  BY <1>2 DEF Was, SeatInv, CallsTypeOK
<1>4. made = [state |-> "offered", remote |-> session[n][s].remote,
              answered |-> session[n][s].answered]
  BY <1>3 DEF made, Sessions
<1>5. session[n][s].state \in {"unused", "stable", "offered"}
  BY <1>1 DEF StateOf, Unused
<1>. QED BY <1>1, <1>2, <1>4, <1>5 DEF s

LEMMA TakeOfferIs ==
  ASSUME SeatInv, NEW n \in Managers, NEW signal \in inboxed, TakeOffer(n, signal),
         Accepts(n, signal.from, SessionFor(n, signal.from))
  PROVE  LET p == signal.from
             s == SessionFor(n, p) IN
         /\ Was(n, p, s) /\ session[n][s].state \in {"unused", "stable"}
         /\ Turns(n, s, [state |-> "answering", remote |-> signal.of,
                         answered |-> session[n][s].answered])
         /\ Seated(n, p, s) /\ UNCHANGED spoiled
         /\ routing' = [routing EXCEPT ![n] = [step |-> "answer", sid |-> s, offer |-> signal]]
<1>. DEFINE p == signal.from
            s == SessionFor(n, p)
            made == [session[n][s] EXCEPT !.state = "answering", !.remote = signal.of]
<1>1. InReach(n, p) /\ Owns(n, p, s, made) /\ StateOf(n, s) = "stable" /\ UNCHANGED spoiled
      /\ routing' = [routing EXCEPT ![n] = [step |-> "answer", sid |-> s, offer |-> signal]]
  BY DEF TakeOffer, Accepts
<1>2. p \in Managers
  BY DEF SeatInv, CallsTypeOK, Signals
<1>. HIDE DEF made, p
<1>3. Was(n, p, s) /\ Turns(n, s, made) /\ Seated(n, p, s)
  BY <1>1, <1>2, OwnsIs
<1>. HIDE DEF s
<1>4. session[n][s] \in Sessions
  BY <1>3 DEF Was, SeatInv, CallsTypeOK
<1>5. made = [state |-> "answering", remote |-> signal.of,
              answered |-> session[n][s].answered]
  <2>. DEFINE base == [session[n][s] EXCEPT !.state = "answering"]
  <2>1. base = [state |-> "answering", remote |-> session[n][s].remote,
                answered |-> session[n][s].answered]
    BY <1>4 DEF Sessions
  <2>2. made = [base EXCEPT !.remote = signal.of]
    BY DEF made
  <2>. HIDE DEF base
  <2>. QED BY <2>1, <2>2
<1>6. session[n][s].state \in {"unused", "stable"}
  BY <1>1 DEF StateOf, Unused
<1>. QED BY <1>1, <1>3, <1>5, <1>6 DEF s, p

LEMMA PrepareIs ==
  ASSUME SeatInv, NEW n \in Managers, PrepareAnswer(n)
  PROVE  LET s == routing[n].sid IN
         /\ s \in SessionIds /\ routing[n] \in Routes /\ routing[n] # NoRoute
         /\ \/ /\ session[n][s].state = "answering"
               /\ Turns(n, s, [state |-> "stable", remote |-> session[n][s].remote,
                               answered |-> session[n][s].answered])
               /\ routing' = [routing EXCEPT ![n] = [routing[n] EXCEPT !.step = "emit"]]
               /\ [routing[n] EXCEPT !.step = "emit"].step = "emit"
               /\ [routing[n] EXCEPT !.step = "emit"].sid = s
               /\ [routing[n] EXCEPT !.step = "emit"].offer = routing[n].offer
            \/ /\ session[n][s].state # "answering" /\ UNCHANGED session
               /\ routing' = [routing EXCEPT ![n] = NoRoute]
<1>. DEFINE s == routing[n].sid
            made == [session[n][s] EXCEPT !.state = "stable"]
<1>1. routing[n] \in Routes /\ routing[n] # NoRoute /\ s \in SessionIds
  BY DEF PrepareAnswer, SeatInv, CallsTypeOK, Routes, NoRoute
<1>2. CASE session[n][s].state = "answering"
  <2>1. session' = [session EXCEPT ![n][s] = made]
        /\ routing' = [routing EXCEPT ![n] = [routing[n] EXCEPT !.step = "emit"]]
    BY <1>2 DEF PrepareAnswer
  <2>2. session[n][s] \in Sessions
    BY <1>1 DEF SeatInv, CallsTypeOK
  <2>3. made = [state |-> "stable", remote |-> session[n][s].remote,
                answered |-> session[n][s].answered]
    <3>. HIDE DEF s
    <3>. QED BY <2>2 DEF Sessions
  <2>4. Turns(n, s, made)
    <3>. HIDE DEF made, s
    <3>. QED BY <1>1, <2>1 DEF Turns, SeatInv, CallsTypeOK
  <2>5. /\ [routing[n] EXCEPT !.step = "emit"].step = "emit"
        /\ [routing[n] EXCEPT !.step = "emit"].sid = s
        /\ [routing[n] EXCEPT !.step = "emit"].offer = routing[n].offer
    <3>1. routing[n] \in [step : {"answer", "emit"}, sid : SessionIds, offer : Signals]
      BY <1>1 DEF Routes
    <3>. QED BY <3>1
  <2>. HIDE DEF s, made
  <2>6. Turns(n, s, [state |-> "stable", remote |-> session[n][s].remote,
                     answered |-> session[n][s].answered])
    BY <2>3, <2>4
  <2>. QED BY <1>1, <1>2, <2>1, <2>5, <2>6 DEF s
<1>3. CASE session[n][s].state # "answering"
  BY <1>1, <1>3 DEF PrepareAnswer
<1>. QED BY <1>2, <1>3

LEMMA TakeAnswerIs ==
  ASSUME SeatInv, NEW n \in Managers, NEW signal \in inboxed, TakeAnswer(n, signal)
  PROVE  LET s == current[n][signal.from] IN
         \/ /\ s \in SessionIds /\ s # NoSession /\ session[n][s].state = "offered"
            /\ Turns(n, s, [state |-> "stable", remote |-> signal.of, answered |-> signal.for])
         \/ ~Awaited(n, signal) /\ UNCHANGED session
<1>. DEFINE s == current[n][signal.from]
            made == [state |-> "stable", remote |-> signal.of, answered |-> signal.for]
<1>1. CASE Awaited(n, signal)
  <2>1. s \in SessionIds /\ s # NoSession /\ session[n][s].state = "offered"
    BY <1>1 DEF Awaited, SeatInv, CallsTypeOK, MaybeId, Signals
  <2>2. session' = [session EXCEPT ![n][s] = made]
    BY <1>1 DEF TakeAnswer
  <2>3. Turns(n, s, made)
    <3>. HIDE DEF made, s
    <3>. QED BY <2>1, <2>2 DEF Turns, SeatInv, CallsTypeOK
  <2>. QED BY <2>1, <2>3
<1>2. CASE ~Awaited(n, signal)
  BY <1>2 DEF TakeAnswer
<1>. QED BY <1>1, <1>2

LEMMA HangupIs ==
  ASSUME SeatInv, NEW n \in Managers, NEW p \in Managers, Hangup(n, p)
  PROVE  LET s == current[n][p] IN
         /\ s \in SessionIds /\ s # NoSession
         /\ Turns(n, s, [state |-> "closed", remote |-> session[n][s].remote,
                         answered |-> session[n][s].answered])
         /\ Seated(n, p, NoSession)
<1>. DEFINE s == current[n][p]
            made == [session[n][s] EXCEPT !.state = "closed"]
<1>1. s \in SessionIds /\ s # NoSession /\ session' = [session EXCEPT ![n][s] = made]
  BY DEF Hangup, SeatInv, CallsTypeOK, MaybeId
<1>2. session[n][s] \in Sessions
  BY <1>1 DEF SeatInv, CallsTypeOK
<1>3. made = [state |-> "closed", remote |-> session[n][s].remote,
              answered |-> session[n][s].answered]
  <2>. HIDE DEF s
  <2>. QED BY <1>2 DEF Sessions
<1>4. Turns(n, s, made) /\ Seated(n, p, NoSession)
  <2>1. Seated(n, p, NoSession)
    BY DEF Hangup, Seated, SeatInv, CallsTypeOK
  <2>2. Turns(n, s, made)
    <3>. HIDE DEF made, s
    <3>. QED BY <1>1 DEF Turns, SeatInv, CallsTypeOK
  <2>. QED BY <2>1, <2>2
<1>. HIDE DEF made, s
<1>. QED BY <1>1, <1>3, <1>4 DEF s

LEMMA DiesIs ==
  ASSUME SeatInv, NEW n \in Managers, ManagerDies(n)
  PROVE  /\ \A x \in SessionIds :
              /\ session'[n][x].state \in {"unused", "closed"}
              /\ session[n][x].state # "unused" => session'[n][x].state = "closed"
              /\ session'[n][x].remote = session[n][x].remote
              /\ session'[n][x].answered = session[n][x].answered
         /\ \A m \in Managers \ {n} : session'[m] = session[m] /\ current'[m] = current[m]
         /\ \A q \in Managers : current'[n][q] = NoSession
<1>. USE DEF ManagerDies, SeatInv, CallsTypeOK
<1>. DEFINE Shut == [s \in SessionIds |-> IF session[n][s] = Unused THEN Unused
                                          ELSE [session[n][s] EXCEPT !.state = "closed"]]
<1>1. session' = [session EXCEPT ![n] = Shut]
  OBVIOUS
<1>2. ASSUME NEW x \in SessionIds
      PROVE  /\ Shut[x].state \in {"unused", "closed"}
             /\ session[n][x].state # "unused" => Shut[x].state = "closed"
             /\ Shut[x].remote = session[n][x].remote
             /\ Shut[x].answered = session[n][x].answered
  <2>1. session[n][x] \in Sessions
    OBVIOUS
  <2>. QED BY <2>1 DEF Sessions, Unused
<1>. HIDE DEF Shut
<1>3. session'[n] = Shut /\ \A m \in Managers \ {n} : session'[m] = session[m]
  BY <1>1
<1>4. /\ \A m \in Managers \ {n} : current'[m] = current[m]
      /\ \A q \in Managers : current'[n][q] = NoSession
  OBVIOUS
<1>. QED BY <1>2, <1>3, <1>4

LEMMA NumbersStep == SeatInv /\ Numbers /\ [CallsNext]_callsVars => Numbers'
<1>. SUFFICES ASSUME SeatInv, Numbers, [CallsNext]_callsVars PROVE Numbers'
  OBVIOUS
<1>0. Cardinality(inboxed) \in Nat /\ inboxed \subseteq Signals
      /\ handled \in [Managers -> SUBSET Nat]
  BY FS_CardinalityType DEF Numbers, SeatInv, CallsTypeOK
<1>1. CASE UNCHANGED <<inboxed, handled>>
  BY <1>1 DEF Numbers
<1>2. ASSUME NEW x, x.id = Cardinality(inboxed) + 1, inboxed' = inboxed \cup {x},
             UNCHANGED handled
      PROVE  Numbers'
  <2>1. /\ IsFiniteSet(inboxed') /\ Cardinality(inboxed') = Cardinality(inboxed) + 1
        /\ \A y \in inboxed' : /\ y.id <= Cardinality(inboxed')
                               /\ \A z \in inboxed' : y.id = z.id => y = z
    BY <1>0, <1>2, NewNumber
  <2>2. \A n \in Managers : \A i \in handled'[n] : i <= Cardinality(inboxed')
    BY <1>0, <1>2, <2>1 DEF Numbers
  <2>. QED BY <2>1, <2>2 DEF Numbers
<1>3. ASSUME NEW n \in Managers, NEW signal \in inboxed, Takes(n, signal) PROVE Numbers'
  BY <1>0, <1>3 DEF Numbers, Takes
<1>4. ASSUME NEW n \in Managers, ManagerDies(n) PROVE Numbers'
  BY <1>0, <1>4 DEF Numbers, ManagerDies
<1>5. ASSUME NEW n \in Managers, NEW p \in Managers, NEW s \in SessionIds, SendOffered(n, p, s)
      PROVE  Numbers'
  <2>1. CASE Emits("offer", n, p, s, NoSession)
    <3>. DEFINE x == [id |-> Cardinality(inboxed) + 1, kind |-> "offer", from |-> n,
                      to |-> p, of |-> s, for |-> NoSession]
    <3>1. x.id = Cardinality(inboxed) + 1 /\ inboxed' = inboxed \cup {x} /\ UNCHANGED handled
      BY <1>5, <2>1 DEF Emits, SendOffered
    <3>. HIDE DEF x
    <3>. QED BY <3>1, <1>2
  <2>2. CASE UNCHANGED inboxed
    BY <1>1, <1>5, <2>2 DEF SendOffered
  <2>. QED BY <1>5, <2>1, <2>2 DEF SendOffered, FailsToSend
<1>6. ASSUME NEW n \in Managers, SendAnswer(n) PROVE Numbers'
  <2>. DEFINE r == routing[n]
  <2>1. CASE Emits("answer", n, r.offer.from, r.sid, r.offer.of)
    <3>. DEFINE x == [id |-> Cardinality(inboxed) + 1, kind |-> "answer", from |-> n,
                      to |-> r.offer.from, of |-> r.sid, for |-> r.offer.of]
    <3>1. x.id = Cardinality(inboxed) + 1 /\ inboxed' = inboxed \cup {x} /\ UNCHANGED handled
      BY <1>6, <2>1 DEF Emits, SendAnswer
    <3>. HIDE DEF x
    <3>. QED BY <3>1, <1>2
  <2>2. CASE UNCHANGED inboxed
    BY <1>1, <1>6, <2>2 DEF SendAnswer
  <2>. QED BY <1>6, <2>1, <2>2 DEF SendAnswer, FailsToSend
<1>7. ASSUME NEW n \in Managers,
             PrepareAnswer(n) \/ \E p \in Managers : Place(n, p) \/ Hangup(n, p)
      PROVE  Numbers'
  BY <1>1, <1>7 DEF PrepareAnswer, Place, Hangup
<1>. QED BY <1>1, <1>3, <1>4, <1>5, <1>6, <1>7 DEF CallsNext, callsVars, TakeOffer, TakeAnswer

LEMMA AddressedStep ==
  SeatInv /\ Stays /\ Addressed /\ Gathers /\ RoutesFit /\ [CallsNext]_callsVars => Addressed'
<1>. SUFFICES ASSUME SeatInv, Stays, Addressed, Gathers, RoutesFit, [CallsNext]_callsVars
              PROVE  Addressed'
  OBVIOUS
<1>0. inboxed \subseteq Signals /\ routing \in [Managers -> Routes]
  BY DEF SeatInv, CallsTypeOK
<1>1. ASSUME NEW x \in inboxed
      PROVE  Belongs(x.from, x.to, x.of)' /\ (x.kind = "answer" => Belongs(x.to, x.from, x.for)')
  <2>1. x \in Signals /\ x.from \in Managers /\ x.to \in Managers /\ x.of \in SessionIds
    BY <1>0 DEF Signals
  <2>2. Belongs(x.from, x.to, x.of)'
    BY <2>1 DEF Addressed, Stays
  <2>3. ASSUME x.kind = "answer" PROVE Belongs(x.to, x.from, x.for)'
    <3>1. Belongs(x.to, x.from, x.for) /\ x.for \in SessionIds
      BY <2>3 DEF Addressed, Belongs
    <3>. QED BY <2>1, <3>1 DEF Stays
  <2>. QED BY <2>2, <2>3
<1>2. CASE UNCHANGED inboxed
  BY <1>1, <1>2 DEF Addressed, Belongs
<1>3. ASSUME NEW n \in Managers, NEW p \in Managers, NEW s \in SessionIds, SendOffered(n, p, s)
      PROVE  Addressed'
  <2>1. CASE Emits("offer", n, p, s, NoSession)
    <3>. DEFINE x == [id |-> Cardinality(inboxed) + 1, kind |-> "offer", from |-> n,
                      to |-> p, of |-> s, for |-> NoSession]
    <3>1. /\ inboxed' = inboxed \cup {x}
          /\ x.kind # "answer" /\ x.from = n /\ x.to = p /\ x.of = s
      BY <2>1 DEF Emits
    <3>2. Belongs(n, p, s)
      BY <1>3 DEF SendOffered, Gathers, SeatInv, CallsTypeOK
    <3>3. Belongs(n, p, s)'
      BY <3>2 DEF Stays
    <3>. HIDE DEF x
    <3>. QED BY <3>1, <3>3, <1>1 DEF Addressed, Belongs
  <2>. QED BY <1>2, <1>3, <2>1 DEF SendOffered, FailsToSend
<1>4. ASSUME NEW n \in Managers, SendAnswer(n) PROVE Addressed'
  <2>1. routing[n] \in Routes /\ routing[n] # NoRoute
    BY <1>0, <1>4 DEF SendAnswer, NoRoute
  <2>2. /\ routing[n].offer.from \in Managers /\ routing[n].sid \in SessionIds
        /\ routing[n].offer.of \in SessionIds
    BY <2>1 DEF Routes, Signals
  <2>3. PICK f \in Managers, sid \in SessionIds, of \in SessionIds :
          routing[n].offer.from = f /\ routing[n].sid = sid /\ routing[n].offer.of = of
    BY <2>2
  <2>4. Belongs(n, f, sid) /\ Belongs(f, n, of)
    BY <2>1, <2>3 DEF RoutesFit, RouteFits
  <2>5. CASE Emits("answer", n, f, sid, of)
    <3>. DEFINE x == [id |-> Cardinality(inboxed) + 1, kind |-> "answer", from |-> n,
                      to |-> f, of |-> sid, for |-> of]
    <3>1. /\ inboxed' = inboxed \cup {x}
          /\ x.from = n /\ x.to = f /\ x.of = sid /\ x.for = of
      BY <2>5 DEF Emits
    <3>2. Belongs(n, f, sid)' /\ Belongs(f, n, of)'
      BY <2>4 DEF Stays
    <3>. HIDE DEF x
    <3>. QED BY <3>1, <3>2, <1>1 DEF Addressed, Belongs
  <2>6. UNCHANGED inboxed \/ Emits("answer", n, f, sid, of)
    BY <1>4, <2>3 DEF SendAnswer, FailsToSend
  <2>. QED BY <1>2, <2>5, <2>6
<1>5. \/ \E n, p \in Managers : \E s \in SessionIds : SendOffered(n, p, s)
      \/ \E n \in Managers : SendAnswer(n)
      \/ UNCHANGED inboxed
  <2>1. ASSUME NEW n \in Managers, NEW signal \in inboxed
        PROVE  TakeOffer(n, signal) \/ TakeAnswer(n, signal) => UNCHANGED inboxed
    BY DEF TakeOffer, TakeAnswer, Takes
  <2>2. ASSUME NEW n \in Managers PROVE PrepareAnswer(n) \/ ManagerDies(n) => UNCHANGED inboxed
    BY DEF PrepareAnswer, ManagerDies
  <2>3. ASSUME NEW n \in Managers, NEW p \in Managers
        PROVE  Place(n, p) \/ Hangup(n, p) => UNCHANGED inboxed
    BY DEF Place, Hangup
  <2>. QED BY <2>1, <2>2, <2>3 DEF CallsNext, callsVars
<1>. QED BY <1>2, <1>3, <1>4, <1>5

LEMMA GathersStep ==
  SeatInv /\ Stays /\ Gathers /\ [CallsNext]_callsVars => Gathers'
<1>. SUFFICES ASSUME SeatInv, Stays, Gathers, [CallsNext]_callsVars,
                     NEW m \in Managers, NEW q \in Managers, NEW x \in SessionIds,
                     gathering'[m][q][x] > 0
              PROVE  Belongs(m, q, x)'
  BY DEF Gathers, Belongs
<1>0. gathering \in [Managers -> [Managers -> [SessionIds -> Nat]]]
  BY DEF SeatInv, CallsTypeOK
<1>1. CASE gathering[m][q][x] > 0
  BY <1>1 DEF Gathers, Stays
<1>2. ASSUME NEW n \in Managers, NEW p \in Managers, Place(n, p), ~(gathering[m][q][x] > 0)
      PROVE  Belongs(m, q, x)'
  <2>. DEFINE s == SessionFor(n, p)
              made == [state |-> "offered", remote |-> session[n][s].remote,
                       answered |-> session[n][s].answered]
  <2>1. /\ Was(n, p, s) /\ Turns(n, s, made) /\ Seated(n, p, s)
        /\ gathering' = [gathering EXCEPT ![n][p][s] = @ + 1]
    BY <1>2, PlaceIs
  <2>2. made.state = "offered"
    OBVIOUS
  <2>. HIDE DEF s, made
  <2>3. m = n /\ q = p /\ x = s
    BY <2>1, <1>0, <1>2 DEF Was
  <2>. QED BY <2>1, <2>2, <2>3 DEF Was, Turns, Seated, Belongs
<1>3. ASSUME NEW n \in Managers, NEW p \in Managers, NEW s \in SessionIds, SendOffered(n, p, s)
      PROVE  gathering[m][q][x] > 0
  BY <1>0, <1>3 DEF SendOffered
<1>4. ASSUME NEW n \in Managers, ManagerDies(n) PROVE gathering[m][q][x] > 0
  BY <1>0, <1>4 DEF ManagerDies
<1>5. ASSUME NEW n \in Managers,
             \/ \E signal \in inboxed : TakeOffer(n, signal) \/ TakeAnswer(n, signal)
             \/ PrepareAnswer(n) \/ SendAnswer(n) \/ \E p \in Managers : Hangup(n, p)
      PROVE  UNCHANGED gathering
  BY <1>5 DEF TakeOffer, TakeAnswer, Takes, PrepareAnswer, SendAnswer, Hangup
<1>. QED BY <1>1, <1>2, <1>3, <1>4, <1>5 DEF CallsNext, callsVars

LEMMA RoutesStep == SeatInv /\ Stays /\ Addressed /\ RoutesFit /\ [CallsNext]_callsVars => RoutesFit'
<1>. SUFFICES ASSUME SeatInv, Stays, Addressed, RoutesFit, [CallsNext]_callsVars,
                     NEW m \in Managers, NEW r, routing'[m] = r, r # NoRoute
              PROVE  RouteFits(m, r)'
  BY DEF RoutesFit, RouteFits, Belongs
<1>0. routing \in [Managers -> Routes] /\ inboxed \subseteq Signals
  BY DEF SeatInv, CallsTypeOK
<1>1. ASSUME routing[m] = r,
             r.step = "answer" /\ session[m][r.sid].state \in {"answering", "closed"} =>
               session'[m][r.sid].state \in {"answering", "closed"}
      PROVE  RouteFits(m, r)'
  <2>1. r \in Routes /\ RouteFits(m, r)
    BY <1>0, <1>1 DEF RoutesFit
  <2>2. r.offer.from \in Managers /\ r.sid \in SessionIds /\ r.offer.of \in SessionIds
    BY <2>1 DEF Routes, Signals
  <2>3. Belongs(m, r.offer.from, r.sid)' /\ Belongs(r.offer.from, m, r.offer.of)'
    BY <2>1, <2>2 DEF RouteFits, Stays
  <2>. QED BY <1>1, <2>1, <2>3 DEF RouteFits
<1>2. CASE routing[m] = r /\ session' = session
  BY <1>1, <1>2
<1>3. ASSUME NEW n \in Managers, NEW p \in Managers, Place(n, p) PROVE RouteFits(m, r)'
  <2>. DEFINE s == SessionFor(n, p)
              made == [state |-> "offered", remote |-> session[n][s].remote,
                       answered |-> session[n][s].answered]
  <2>1. session[n][s].state \in {"unused", "stable", "offered"} /\ Turns(n, s, made)
    BY <1>3, PlaceIs
  <2>2. routing[m] = r
    BY <1>3 DEF Place
  <2>3. r.sid \in SessionIds
    BY <1>0, <2>2 DEF Routes
  <2>. HIDE DEF s, made
  <2>. QED BY <1>1, <2>1, <2>2, <2>3 DEF Turns
<1>4. ASSUME NEW n \in Managers, NEW signal \in inboxed, TakeOffer(n, signal)
      PROVE  RouteFits(m, r)'
  <2>. DEFINE s == SessionFor(n, signal.from)
              made == [state |-> "answering", remote |-> signal.of,
                       answered |-> session[n][s].answered]
  <2>1. CASE Accepts(n, signal.from, s)
    <3>1. /\ Turns(n, s, made) /\ Seated(n, signal.from, s) /\ Was(n, signal.from, s)
          /\ routing' = [routing EXCEPT ![n] = [step |-> "answer", sid |-> s, offer |-> signal]]
      BY <1>4, <2>1, TakeOfferIs
    <3>2. CASE m = n
      <4>1. r = [step |-> "answer", sid |-> s, offer |-> signal]
        BY <1>0, <3>1, <3>2
      <4>2. made.state = "answering"
        OBVIOUS
      <4>. HIDE DEF s, made
      <4>3. r.sid = s /\ r.offer = signal
        BY <4>1
      <4>4. signal \in Signals /\ signal.from \in Managers /\ signal.of \in SessionIds
        BY <1>0 DEF Signals
      <4>5. s \in SessionIds /\ session'[n][s].state = "answering"
            /\ current'[n][signal.from] = s
        BY <3>1, <4>2, <4>4 DEF Turns, Was, Seated
      <4>6. Belongs(signal.from, n, signal.of)'
        BY <1>4, <4>4 DEF TakeOffer, Takes, Addressed, Stays
      <4>7. Belongs(n, signal.from, r.sid)'
        BY <4>3, <4>5 DEF Belongs
      <4>. QED BY <1>4, <3>2, <4>3, <4>5, <4>6, <4>7 DEF RouteFits, TakeOffer, Takes
    <3>3. CASE m # n
      <4>1. routing[m] = r
        BY <1>0, <3>1, <3>3
      <4>2. r.sid \in SessionIds
        BY <1>0, <4>1 DEF Routes
      <4>. HIDE DEF s, made
      <4>. QED BY <1>1, <3>1, <3>3, <4>1, <4>2 DEF Turns
    <3>. QED BY <3>2, <3>3
  <2>2. CASE ~Accepts(n, signal.from, s)
    BY <1>2, <1>4, <2>2 DEF TakeOffer
  <2>. QED BY <2>1, <2>2
<1>5. ASSUME NEW n \in Managers, PrepareAnswer(n) PROVE RouteFits(m, r)'
  <2>. DEFINE s == routing[n].sid
              emitting == [routing[n] EXCEPT !.step = "emit"]
              made == [state |-> "stable", remote |-> session[n][s].remote,
                       answered |-> session[n][s].answered]
  <2>1. s \in SessionIds /\ routing[n] \in Routes /\ routing[n] # NoRoute
    BY <1>5, PrepareIs
  <2>2. CASE session[n][s].state = "answering"
    <3>1. /\ Turns(n, s, made) /\ routing' = [routing EXCEPT ![n] = emitting]
          /\ emitting.step = "emit" /\ emitting.sid = s /\ emitting.offer = routing[n].offer
      BY <1>5, <2>2, PrepareIs
    <3>. HIDE DEF made, emitting
    <3>2. CASE m = n
      <4>1. r = emitting
        BY <1>0, <3>1, <3>2
      <4>2. RouteFits(n, routing[n])
        BY <2>1 DEF RoutesFit
      <4>3. PICK f \in Managers, of \in SessionIds, sid \in SessionIds :
              /\ f = routing[n].offer.from /\ of = routing[n].offer.of
              /\ sid = routing[n].sid
        BY <2>1 DEF Routes, Signals
      <4>4. Belongs(n, f, sid)' /\ Belongs(f, n, of)'
        BY <4>2, <4>3 DEF RouteFits, Stays
      <4>5. r.offer.from = f /\ r.offer.of = of /\ r.sid = sid /\ r.offer.to = n /\ r.step = "emit"
        BY <3>1, <4>1, <4>2, <4>3 DEF RouteFits
      <4>. QED BY <3>2, <4>4, <4>5 DEF RouteFits
    <3>3. CASE m # n
      <4>1. routing[m] = r
        BY <1>0, <3>1, <3>3
      <4>2. r.sid \in SessionIds
        BY <1>0, <4>1 DEF Routes
      <4>. HIDE DEF s
      <4>. QED BY <1>1, <3>1, <3>3, <4>1, <4>2 DEF Turns
    <3>. QED BY <3>2, <3>3
  <2>3. CASE session[n][s].state # "answering"
    <3>1. UNCHANGED session /\ routing' = [routing EXCEPT ![n] = NoRoute]
      BY <1>5, <2>3, PrepareIs
    <3>2. routing[m] = r
      BY <1>0, <3>1
    <3>. QED BY <1>2, <3>1, <3>2
  <2>. QED BY <2>2, <2>3
<1>6. ASSUME NEW n \in Managers, SendAnswer(n) PROVE RouteFits(m, r)'
  <2>1. routing[m] = r /\ session' = session
    BY <1>0, <1>6 DEF SendAnswer
  <2>. QED BY <1>2, <2>1
<1>7. ASSUME NEW n \in Managers, NEW signal \in inboxed, TakeAnswer(n, signal)
      PROVE  RouteFits(m, r)'
  <2>. DEFINE s == current[n][signal.from]
              made == [state |-> "stable", remote |-> signal.of, answered |-> signal.for]
  <2>1. \/ s \in SessionIds /\ session[n][s].state = "offered" /\ Turns(n, s, made)
        \/ UNCHANGED session
    BY <1>7, TakeAnswerIs
  <2>2. routing[m] = r
    BY <1>7 DEF TakeAnswer
  <2>3. r.sid \in SessionIds
    BY <1>0, <2>2 DEF Routes
  <2>. HIDE DEF s, made
  <2>. QED BY <1>1, <2>1, <2>2, <2>3 DEF Turns
<1>8. ASSUME NEW n \in Managers, NEW p \in Managers, Hangup(n, p) PROVE RouteFits(m, r)'
  <2>. DEFINE s == current[n][p]
              made == [state |-> "closed", remote |-> session[n][s].remote,
                       answered |-> session[n][s].answered]
  <2>1. Turns(n, s, made)
    BY <1>8, HangupIs
  <2>2. routing[m] = r
    BY <1>8 DEF Hangup
  <2>3. r.sid \in SessionIds
    BY <1>0, <2>2 DEF Routes
  <2>4. made.state = "closed"
    OBVIOUS
  <2>. HIDE DEF s, made
  <2>. QED BY <1>1, <2>1, <2>2, <2>3, <2>4 DEF Turns
<1>9. ASSUME NEW n \in Managers, ManagerDies(n) PROVE RouteFits(m, r)'
  <2>1. routing[m] = r /\ m # n
    BY <1>0, <1>9 DEF ManagerDies
  <2>2. session'[m] = session[m]
    BY <1>9, <2>1, DiesIs
  <2>. QED BY <1>1, <2>1, <2>2
<1>10. ASSUME UNCHANGED <<session, routing>> PROVE RouteFits(m, r)'
  BY <1>2, <1>10
<1>. QED BY <1>3, <1>4, <1>5, <1>6, <1>7, <1>8, <1>9, <1>10
     DEF CallsNext, callsVars, SendOffered

LEMMA AnsweringStep == SeatInv /\ Answering /\ [CallsNext]_callsVars => Answering'
<1>. SUFFICES ASSUME SeatInv, Answering, [CallsNext]_callsVars, NEW m \in Managers,
                     NEW x \in SessionIds, session'[m][x].state = "answering"
              PROVE  routing'[m].step = "answer" /\ routing'[m].sid = x
  BY DEF Answering
<1>. DEFINE Goal == routing'[m].step = "answer" /\ routing'[m].sid = x
<1>0. routing \in [Managers -> Routes]
  BY DEF SeatInv, CallsTypeOK
<1>1. session[m][x].state = "answering" => routing[m].step = "answer" /\ routing[m].sid = x
  BY DEF Answering
<1>2. CASE routing'[m] = routing[m] /\ session'[m][x] = session[m][x]
  BY <1>1, <1>2
<1>3. ASSUME NEW n \in Managers, NEW p \in Managers, Place(n, p) PROVE Goal
  <2>. DEFINE s == SessionFor(n, p)
              made == [state |-> "offered", remote |-> session[n][s].remote,
                       answered |-> session[n][s].answered]
  <2>1. Turns(n, s, made) /\ made.state = "offered" /\ UNCHANGED routing
    BY <1>3, PlaceIs DEF Place
  <2>. HIDE DEF s, made
  <2>. QED BY <1>2, <2>1 DEF Turns
<1>4. ASSUME NEW n \in Managers, NEW signal \in inboxed, TakeOffer(n, signal) PROVE Goal
  <2>. DEFINE s == SessionFor(n, signal.from)
              made == [state |-> "answering", remote |-> signal.of,
                       answered |-> session[n][s].answered]
              route == [step |-> "answer", sid |-> s, offer |-> signal]
  <2>1. CASE Accepts(n, signal.from, s)
    <3>1. /\ Turns(n, s, made) /\ routing' = [routing EXCEPT ![n] = route]
          /\ routing[n].step = "idle" /\ route.step = "answer" /\ route.sid = s
      <4>1. routing[n].step = "idle"
        BY <1>4 DEF TakeOffer, Takes, NoRoute
      <4>2. Turns(n, s, made) /\ routing' = [routing EXCEPT ![n] = route]
        BY <1>4, <2>1, TakeOfferIs
      <4>. QED BY <4>1, <4>2
    <3>. HIDE DEF s, made, route
    <3>2. CASE m = n
      BY <1>0, <1>1, <3>1, <3>2 DEF Turns
    <3>3. CASE m # n
      BY <1>0, <1>2, <3>1, <3>3 DEF Turns
    <3>. QED BY <3>2, <3>3
  <2>2. CASE ~Accepts(n, signal.from, s)
    BY <1>2, <1>4, <2>2 DEF TakeOffer
  <2>. QED BY <2>1, <2>2
<1>5. ASSUME NEW n \in Managers, PrepareAnswer(n) PROVE Goal
  <2>. DEFINE s == routing[n].sid
              emitting == [routing[n] EXCEPT !.step = "emit"]
              made == [state |-> "stable", remote |-> session[n][s].remote,
                       answered |-> session[n][s].answered]
  <2>1. \/ /\ Turns(n, s, made) /\ made.state = "stable"
           /\ routing' = [routing EXCEPT ![n] = emitting]
        \/ /\ session[n][s].state # "answering" /\ UNCHANGED session
           /\ routing' = [routing EXCEPT ![n] = NoRoute]
    BY <1>5, PrepareIs
  <2>. HIDE DEF made, emitting
  <2>2. CASE m = n
    BY <1>1, <2>1, <2>2 DEF Turns
  <2>3. CASE m # n
    BY <1>0, <1>2, <2>1, <2>3 DEF Turns
  <2>. QED BY <2>2, <2>3
<1>6. ASSUME NEW n \in Managers, SendAnswer(n) PROVE Goal
  BY <1>0, <1>1, <1>6 DEF SendAnswer
<1>7. ASSUME NEW n \in Managers, NEW signal \in inboxed, TakeAnswer(n, signal) PROVE Goal
  <2>. DEFINE s == current[n][signal.from]
              made == [state |-> "stable", remote |-> signal.of, answered |-> signal.for]
  <2>1. (Turns(n, s, made) /\ made.state = "stable") \/ UNCHANGED session
    BY <1>7, TakeAnswerIs
  <2>2. UNCHANGED routing
    BY <1>7 DEF TakeAnswer
  <2>. HIDE DEF s, made
  <2>. QED BY <1>2, <2>1, <2>2 DEF Turns
<1>8. ASSUME NEW n \in Managers, NEW p \in Managers, Hangup(n, p) PROVE Goal
  <2>. DEFINE s == current[n][p]
              made == [state |-> "closed", remote |-> session[n][s].remote,
                       answered |-> session[n][s].answered]
  <2>1. Turns(n, s, made) /\ made.state = "closed" /\ UNCHANGED routing
    BY <1>8, HangupIs DEF Hangup
  <2>. HIDE DEF s, made
  <2>. QED BY <1>2, <2>1 DEF Turns
<1>9. ASSUME NEW n \in Managers, ManagerDies(n) PROVE Goal
  <2>1. m # n /\ session'[m] = session[m]
    BY <1>9, DiesIs
  <2>2. routing'[m] = routing[m]
    BY <1>0, <1>9, <2>1 DEF ManagerDies
  <2>. QED BY <1>2, <2>1, <2>2
<1>10. ASSUME UNCHANGED <<session, routing>> PROVE Goal
  BY <1>2, <1>10
<1>. QED BY <1>3, <1>4, <1>5, <1>6, <1>7, <1>8, <1>9, <1>10
     DEF CallsNext, callsVars, SendOffered

\* What one peer's session does leaves those of the others alone.
LEMMA OtherSeat ==
  ASSUME SeatInv, NEW n \in Managers, NEW p \in Managers, NEW s, Was(n, p, s),
         NEW made, Turns(n, s, made), Seated(n, p, s) \/ Seated(n, p, NoSession),
         NEW m \in Managers, NEW q \in Managers, ~(m = n /\ q = p),
         current'[m][q] # NoSession
  PROVE  /\ current'[m][q] = current[m][q] /\ current[m][q] \in SessionIds
         /\ session'[m][current[m][q]] = session[m][current[m][q]]
<1>1. current'[m][q] = current[m][q] /\ current[m][q] \in SessionIds
  BY DEF Seated, SeatInv, CallsTypeOK, MaybeId
<1>2. ~(m = n /\ current[m][q] = s)
  <2>1. session[m][current[m][q]].state # "unused"
        /\ \A z \in Managers : current[m][z] = current[m][q] => z = q
    BY <1>1 DEF SeatInv, Seats
  <2>. QED BY <2>1 DEF Was, Unused
<1>. QED BY <1>1, <1>2 DEF Turns

LEMMA RemotesStep ==
  SeatInv /\ Stays /\ Addressed /\ RoutesFit /\ Remotes /\ [CallsNext]_callsVars => Remotes'
<1>. SUFFICES ASSUME SeatInv, Stays, Addressed, RoutesFit, Remotes, [CallsNext]_callsVars,
                     NEW m \in Managers, NEW q \in Managers, current'[m][q] # NoSession,
                     NEW c, current'[m][q] = c, NEW r, session'[m][c].remote = r
              PROVE  /\ r = NoSession \/ Belongs(q, m, r)'
                     /\ session'[m][c].state # "offered" => r # NoSession
  BY DEF Remotes
<1>. DEFINE Goal == /\ r = NoSession \/ Belongs(q, m, r)'
                    /\ session'[m][c].state # "offered" => r # NoSession
<1>0. inboxed \subseteq Signals
  BY DEF SeatInv, CallsTypeOK
<1>1. ASSUME current[m][q] = c, session[m][c].remote = r,
             session'[m][c].state # "offered" => session[m][c].state # "offered"
      PROVE  Goal
  <2>1. r = NoSession \/ Belongs(q, m, r)
    BY <1>1 DEF Remotes
  <2>2. r = NoSession \/ Belongs(q, m, r)'
    BY <2>1 DEF Belongs, Stays
  <2>. QED BY <1>1, <2>2 DEF Remotes
<1>2. ASSUME NEW n \in Managers, NEW p \in Managers, Place(n, p) PROVE Goal
  <2>. DEFINE s == SessionFor(n, p)
              made == [state |-> "offered", remote |-> session[n][s].remote,
                       answered |-> session[n][s].answered]
  <2>1. Was(n, p, s) /\ Turns(n, s, made) /\ Seated(n, p, s)
    BY <1>2, PlaceIs
  <2>2. made.state = "offered" /\ made.remote = session[n][s].remote
    OBVIOUS
  <2>. HIDE DEF s, made
  <2>3. CASE m = n /\ q = p
    <3>1. c = s /\ session'[n][s] = made
      BY <2>1, <2>3 DEF Was, Turns, Seated
    <3>2. CASE current[n][p] = s
      BY <1>1, <2>2, <2>3, <3>1, <3>2
    <3>3. CASE session[n][s] = Unused
      BY <2>2, <2>3, <3>1, <3>3 DEF Unused
    <3>. QED BY <2>1, <3>2, <3>3 DEF Was
  <2>4. CASE ~(m = n /\ q = p)
    BY <1>1, <2>1, <2>4, OtherSeat
  <2>. QED BY <2>3, <2>4
<1>3. ASSUME NEW n \in Managers, NEW signal \in inboxed, TakeOffer(n, signal) PROVE Goal
  <2>. DEFINE p == signal.from
              s == SessionFor(n, p)
              made == [state |-> "answering", remote |-> signal.of,
                       answered |-> session[n][s].answered]
  <2>0. p \in Managers /\ signal.of \in SessionIds /\ signal.to = n
    BY <1>0, <1>3 DEF Signals, TakeOffer, Takes
  <2>1. CASE Accepts(n, signal.from, s)
    <3>1. Was(n, p, s) /\ Turns(n, s, made) /\ Seated(n, p, s)
      BY <1>3, <2>1, TakeOfferIs
    <3>2. made.remote = signal.of
      OBVIOUS
    <3>. HIDE DEF s, made, p
    <3>3. CASE m = n /\ q = p
      <4>1. r = signal.of
        BY <3>1, <3>2, <3>3 DEF Was, Turns, Seated
      <4>2. Belongs(signal.from, signal.to, signal.of)'
        BY <2>0 DEF Addressed, Stays, p
      <4>3. Belongs(q, m, r)'
        BY <2>0, <3>3, <4>1, <4>2 DEF p
      <4>. QED BY <2>0, <4>1, <4>3, CallsAssumption DEF SessionIds, NoSession
    <3>4. CASE ~(m = n /\ q = p)
      BY <1>1, <2>0, <3>1, <3>4, OtherSeat
    <3>. QED BY <3>3, <3>4
  <2>2. CASE ~Accepts(n, signal.from, s)
    BY <1>1, <1>3, <2>2 DEF TakeOffer
  <2>. QED BY <2>1, <2>2
<1>4. ASSUME NEW n \in Managers, PrepareAnswer(n) PROVE Goal
  <2>. DEFINE s == routing[n].sid
              made == [state |-> "stable", remote |-> session[n][s].remote,
                       answered |-> session[n][s].answered]
  <2>1. \/ Turns(n, s, made) /\ session[n][s].state = "answering"
        \/ UNCHANGED session
    BY <1>4, PrepareIs
  <2>2. current' = current /\ made.remote = session[n][s].remote
    BY <1>4 DEF PrepareAnswer
  <2>3. c \in SessionIds
    BY <2>2 DEF SeatInv, CallsTypeOK, MaybeId
  <2>. HIDE DEF made, s
  <2>. QED BY <1>1, <2>1, <2>2, <2>3 DEF Turns
<1>5. ASSUME NEW n \in Managers, NEW signal \in inboxed, TakeAnswer(n, signal) PROVE Goal
  <2>. DEFINE p == signal.from
              s == current[n][p]
              made == [state |-> "stable", remote |-> signal.of, answered |-> signal.for]
  <2>0. p \in Managers /\ signal.of \in SessionIds /\ signal.to = n /\ current' = current
    BY <1>0, <1>5 DEF Signals, TakeAnswer, Takes
  <2>1. \/ s \in SessionIds /\ s # NoSession /\ Turns(n, s, made)
        \/ UNCHANGED session
    BY <1>5, TakeAnswerIs
  <2>2. made.remote = signal.of
    OBVIOUS
  <2>. HIDE DEF made
  <2>3. CASE UNCHANGED session
    BY <1>1, <2>0, <2>3
  <2>4. CASE s \in SessionIds /\ s # NoSession /\ Turns(n, s, made)
    <3>1. CASE m = n /\ q = p
      <4>1. r = signal.of
        BY <2>0, <2>2, <2>4, <3>1 DEF Turns
      <4>2. Belongs(signal.from, signal.to, signal.of)'
        BY <2>0 DEF Addressed, Stays
      <4>3. Belongs(q, m, r)'
        BY <2>0, <3>1, <4>1, <4>2
      <4>. QED BY <2>0, <4>1, <4>3, CallsAssumption DEF SessionIds, NoSession
    <3>2. CASE ~(m = n /\ q = p)
      <4>1. Was(n, p, s) /\ Seated(n, p, s)
        BY <2>0, <2>4 DEF Was, Seated
      <4>. HIDE DEF s, p
      <4>. QED BY <1>1, <2>0, <2>4, <3>2, <4>1, OtherSeat
    <3>. QED BY <3>1, <3>2
  <2>. QED BY <2>1, <2>3, <2>4
<1>6. ASSUME NEW n \in Managers, NEW p \in Managers, Hangup(n, p) PROVE Goal
  <2>. DEFINE s == current[n][p]
              made == [state |-> "closed", remote |-> session[n][s].remote,
                       answered |-> session[n][s].answered]
  <2>1. s \in SessionIds /\ s # NoSession /\ Turns(n, s, made) /\ Seated(n, p, NoSession)
    BY <1>6, HangupIs
  <2>2. Was(n, p, s)
    BY <2>1 DEF Was
  <2>3. ~(m = n /\ q = p)
    BY <2>1 DEF Seated
  <2>. HIDE DEF s, made
  <2>. QED BY <1>1, <2>1, <2>2, <2>3, OtherSeat
<1>7. ASSUME NEW n \in Managers, ManagerDies(n) PROVE Goal
  BY <1>1, <1>7, DiesIs
<1>8. ASSUME UNCHANGED <<session, current>> PROVE Goal
  BY <1>1, <1>8
<1>. QED BY <1>2, <1>3, <1>4, <1>5, <1>6, <1>7, <1>8
     DEF CallsNext, callsVars, SendOffered, SendAnswer

LEMMA AnswersStep == SeatInv /\ Addressed /\ AnswersFit /\ [CallsNext]_callsVars => AnswersFit'
<1>. SUFFICES ASSUME SeatInv, Addressed, AnswersFit, [CallsNext]_callsVars,
                     NEW m \in Managers, NEW x \in SessionIds, NEW a,
                     session'[m][x].answered = a, a # NoSession, a # x
              PROVE  session'[m][a].state = "closed"
  BY DEF AnswersFit, IsLive
<1>. DEFINE Goal == session'[m][a].state = "closed"
<1>0. inboxed \subseteq Signals
  BY DEF SeatInv, CallsTypeOK
<1>1. ASSUME session[m][x].answered = a,
             a \in SessionIds /\ session[m][a].state = "closed" => session'[m][a].state = "closed"
      PROVE  Goal
  <2>1. session[m][x] \in Sessions
    BY DEF SeatInv, CallsTypeOK
  <2>2. a \in SessionIds
    BY <1>1, <2>1 DEF Sessions, MaybeId
  <2>. QED BY <1>1, <2>2 DEF AnswersFit, IsLive
<1>2. ASSUME NEW n \in Managers, NEW s, NEW made, Turns(n, s, made),
             session[n][s].state # "closed" \/ made.state = "closed",
             made.answered = session[n][s].answered
      PROVE  Goal
  BY <1>1, <1>2 DEF Turns
<1>3. ASSUME NEW n \in Managers, NEW p \in Managers, Place(n, p) PROVE Goal
  <2>. DEFINE s == SessionFor(n, p)
              made == [state |-> "offered", remote |-> session[n][s].remote,
                       answered |-> session[n][s].answered]
  <2>1. Turns(n, s, made) /\ session[n][s].state \in {"unused", "stable", "offered"}
    BY <1>3, PlaceIs
  <2>2. made.answered = session[n][s].answered
    OBVIOUS
  <2>. HIDE DEF s, made
  <2>. QED BY <1>2, <2>1, <2>2
<1>4. ASSUME NEW n \in Managers, NEW signal \in inboxed, TakeOffer(n, signal) PROVE Goal
  <2>. DEFINE s == SessionFor(n, signal.from)
              made == [state |-> "answering", remote |-> signal.of,
                       answered |-> session[n][s].answered]
  <2>1. CASE Accepts(n, signal.from, s)
    <3>1. Turns(n, s, made) /\ session[n][s].state \in {"unused", "stable"}
      BY <1>4, <2>1, TakeOfferIs
    <3>2. made.answered = session[n][s].answered
      OBVIOUS
    <3>. HIDE DEF s, made
    <3>. QED BY <1>2, <3>1, <3>2
  <2>2. CASE ~Accepts(n, signal.from, s)
    BY <1>1, <1>4, <2>2 DEF TakeOffer
  <2>. QED BY <2>1, <2>2
<1>5. ASSUME NEW n \in Managers, PrepareAnswer(n) PROVE Goal
  <2>. DEFINE s == routing[n].sid
              made == [state |-> "stable", remote |-> session[n][s].remote,
                       answered |-> session[n][s].answered]
  <2>1. \/ Turns(n, s, made) /\ session[n][s].state = "answering"
        \/ UNCHANGED session
    BY <1>5, PrepareIs
  <2>2. made.answered = session[n][s].answered
    OBVIOUS
  <2>. HIDE DEF s, made
  <2>. QED BY <1>1, <1>2, <2>1, <2>2
<1>6. ASSUME NEW n \in Managers, NEW signal \in inboxed, TakeAnswer(n, signal) PROVE Goal
  <2>. DEFINE p == signal.from
              s == current[n][p]
              made == [state |-> "stable", remote |-> signal.of, answered |-> signal.for]
  <2>0. p \in Managers /\ signal.to = n /\ signal.kind = "answer"
    BY <1>0, <1>6 DEF Signals, TakeAnswer, Takes
  <2>1. \/ s # NoSession /\ session[n][s].state = "offered" /\ Turns(n, s, made)
        \/ UNCHANGED session
    BY <1>6, TakeAnswerIs
  <2>2. made.answered = signal.for
    OBVIOUS
  <2>. HIDE DEF made
  <2>3. CASE UNCHANGED session
    BY <1>1, <2>3
  <2>4. CASE session[n][s].state = "offered" /\ Turns(n, s, made)
    <3>1. CASE m = n /\ x = s
      <4>1. a = signal.for
        BY <2>2, <2>4, <3>1 DEF Turns
      <4>2. Belongs(n, p, a)
        BY <2>0, <4>1 DEF Addressed
      <4>3. session[n][a].state = "closed" /\ a \in SessionIds
        BY <3>1, <4>2 DEF Belongs
      <4>. QED BY <2>4, <3>1, <4>3 DEF Turns
    <3>2. CASE ~(m = n /\ x = s)
      BY <1>1, <2>4, <3>2 DEF Turns
    <3>. QED BY <3>1, <3>2
  <2>. QED BY <2>1, <2>3, <2>4
<1>7. ASSUME NEW n \in Managers, NEW p \in Managers, Hangup(n, p) PROVE Goal
  <2>. DEFINE s == current[n][p]
              made == [state |-> "closed", remote |-> session[n][s].remote,
                       answered |-> session[n][s].answered]
  <2>1. Turns(n, s, made)
    BY <1>7, HangupIs
  <2>2. made.answered = session[n][s].answered /\ made.state = "closed"
    OBVIOUS
  <2>. HIDE DEF s, made
  <2>. QED BY <1>2, <2>1, <2>2
<1>8. ASSUME NEW n \in Managers, ManagerDies(n) PROVE Goal
  <2>1. CASE m = n
    BY <1>1, <1>8, <2>1, DiesIs
  <2>2. CASE m # n
    <3>1. session'[m] = session[m]
      BY <1>8, <2>2, DiesIs
    <3>. QED BY <1>1, <3>1
  <2>. QED BY <2>1, <2>2
<1>9. ASSUME UNCHANGED session PROVE Goal
  BY <1>1, <1>9
<1>. QED BY <1>3, <1>4, <1>5, <1>6, <1>7, <1>8, <1>9
     DEF CallsNext, callsVars, SendOffered, SendAnswer

\* What is due stays due until it is handled.
LEMMA DueStays ==
  ASSUME NEW p \in Managers, NEW n, NEW kind, inboxed \subseteq inboxed',
         handled'[p] \subseteq handled[p], Due(kind, n, p)
  PROVE  Due(kind, n, p)'
BY DEF Due

LEMMA DueTaken ==
  ASSUME SeatInv, Numbers, NEW t \in Managers, NEW signal \in inboxed, Takes(t, signal),
         NEW p \in Managers, NEW n, NEW kind, Due(kind, n, p)
  PROVE  Due(kind, n, p)' \/ (signal.kind = kind /\ signal.from = n /\ signal.to = p)
<1>1. PICK x \in inboxed : x.kind = kind /\ x.from = n /\ x.to = p /\ x.id \notin handled[p]
  BY DEF Due
<1>2. CASE x = signal
  BY <1>1, <1>2
<1>3. CASE x # signal
  <2>1. x.id # signal.id
    BY <1>3 DEF Numbers
  <2>2. x.id \notin handled'[p] /\ inboxed' = inboxed
    BY <1>1, <2>1 DEF Takes, SeatInv, CallsTypeOK
  <2>. QED BY <1>1, <2>2 DEF Due
<1>. QED BY <1>2, <1>3

LEMMA DueEmitted ==
  ASSUME SeatInv, Numbers, NEW kind, NEW n, NEW p \in Managers, NEW s, NEW for,
         Emits(kind, n, p, s, for), UNCHANGED handled
  PROVE  Due(kind, n, p)'
<1>. DEFINE x == [id |-> Cardinality(inboxed) + 1, kind |-> kind, from |-> n,
                  to |-> p, of |-> s, for |-> for]
<1>1. /\ inboxed' = inboxed \cup {x} /\ x.id = Cardinality(inboxed) + 1
      /\ x.kind = kind /\ x.from = n /\ x.to = p
  BY DEF Emits
<1>2. inboxed \subseteq Signals
  BY DEF SeatInv, CallsTypeOK
<1>. HIDE DEF x
<1>3. x.id \notin handled[p]
  BY <1>1, <1>2, NewNumber
<1>. QED BY <1>1, <1>3 DEF Due

LEMMA WaitsStep ==
  SeatInv /\ Numbers /\ RoutesFit /\ WaitsFor /\ [CallsNext]_callsVars => WaitsFor'
<1>. SUFFICES ASSUME SeatInv, Numbers, RoutesFit, WaitsFor, [CallsNext]_callsVars,
                     NEW m \in Managers, NEW q \in Managers, current'[m][q] # NoSession,
                     session'[m][current'[m][q]].state = "offered",
                     <<m, q>> \notin spoiled', <<q, m>> \notin spoiled'
              PROVE  Pending(m, q)'
  BY DEF WaitsFor, Waits, Clean, Pending, Due
<1>. DEFINE Goal == Pending(m, q)'
            Seat == current[m][q]
            Gathered == gathering[m][q][Seat] > 0
            Routed == routing[q] # NoRoute /\ routing[q].offer.from = m
<1>0. /\ inboxed \subseteq Signals /\ routing \in [Managers -> Routes]
      /\ gathering \in [Managers -> [Managers -> [SessionIds -> Nat]]]
      /\ handled \in [Managers -> SUBSET Nat]
  BY DEF SeatInv, CallsTypeOK
<1>1. ASSUME current'[m][q] = Seat, session[m][Seat].state = "offered",
             <<m, q>> \notin spoiled, <<q, m>> \notin spoiled
      PROVE  Gathered \/ Due("offer", m, q) \/ Due("answer", q, m) \/ Routed
  BY <1>1 DEF WaitsFor, Waits, Clean, Pending
<1>2. ASSUME current'[m][q] = Seat, session[m][Seat].state = "offered",
             <<m, q>> \notin spoiled, <<q, m>> \notin spoiled,
             gathering'[m][q] = gathering[m][q], inboxed \subseteq inboxed',
             UNCHANGED <<handled, routing>>
      PROVE  Goal
  <2>1. CASE Gathered
    BY <1>2, <2>1 DEF Pending
  <2>2. CASE Due("offer", m, q)
    BY <1>2, <2>2, DueStays DEF Pending
  <2>3. CASE Due("answer", q, m)
    BY <1>2, <2>3, DueStays DEF Pending
  <2>4. CASE Routed
    BY <1>2, <2>4 DEF Pending
  <2>. QED BY <1>1, <1>2, <2>1, <2>2, <2>3, <2>4
\* A route of q about m, whose session is closed, has spoiled the pair.
<1>3. ASSUME Routed, <<q, m>> \notin spoiled
      PROVE  /\ routing[q].sid \in SessionIds /\ current[q][m] = routing[q].sid
             /\ session[q][routing[q].sid].state # "closed"
             /\ routing[q].step = "answer" => session[q][routing[q].sid].state = "answering"
  BY <1>3 DEF RoutesFit, RouteFits, Belongs
<1>4. ASSUME NEW n \in Managers, NEW p \in Managers, Place(n, p) PROVE Goal
  <2>. DEFINE s == SessionFor(n, p)
              made == [state |-> "offered", remote |-> session[n][s].remote,
                       answered |-> session[n][s].answered]
  <2>1. /\ Was(n, p, s) /\ Turns(n, s, made) /\ Seated(n, p, s)
        /\ gathering' = [gathering EXCEPT ![n][p][s] = @ + 1]
    BY <1>4, PlaceIs
  <2>2. UNCHANGED <<inboxed, handled, routing, spoiled>>
    BY <1>4 DEF Place
  <2>. HIDE DEF s, made
  <2>3. CASE m = n /\ q = p
    <3>1. current'[m][q] = s /\ s \in SessionIds
      BY <2>1, <2>3 DEF Was, Seated
    <3>2. gathering'[m][q][s] > 0
      BY <1>0, <2>1, <2>3, <3>1
    <3>. QED BY <3>1, <3>2 DEF Pending
  <2>4. CASE ~(m = n /\ q = p)
    <3>1. /\ current'[m][q] = Seat /\ Seat \in SessionIds
          /\ session'[m][Seat] = session[m][Seat]
      BY <2>1, <2>4, OtherSeat
    <3>2. gathering'[m][q] = gathering[m][q]
      BY <1>0, <2>1, <2>4 DEF Was
    <3>. QED BY <1>2, <2>2, <3>1, <3>2
  <2>. QED BY <2>3, <2>4
<1>5. ASSUME NEW n \in Managers, NEW p \in Managers, NEW s \in SessionIds, SendOffered(n, p, s)
      PROVE  Goal
  <2>1. /\ UNCHANGED <<session, current, handled, routing>> /\ spoiled \subseteq spoiled'
        /\ gathering' = [gathering EXCEPT ![n][p][s] = @ - 1]
        /\ inboxed \subseteq inboxed'
    BY <1>5 DEF SendOffered, FailsToSend, Emits
  <2>2. CASE m = n /\ q = p /\ Seat = s
    <3>1. ~FailsToSend(n, p)
      BY <2>2 DEF FailsToSend
    <3>2. Emits("offer", n, p, s, NoSession)
      BY <1>5, <3>1 DEF SendOffered
    <3>3. Due("offer", n, p)'
      BY <2>1, <3>2, DueEmitted
    <3>. QED BY <2>2, <3>3 DEF Pending, Due
  <2>3. CASE ~(m = n /\ q = p /\ Seat = s)
    <3>1. Gathered => gathering'[m][q][current'[m][q]] > 0
      BY <1>0, <2>1, <2>3
    <3>2. Due("offer", m, q) => Due("offer", m, q)'
      BY <2>1, DueStays
    <3>3. Due("answer", q, m) => Due("answer", q, m)'
      BY <2>1, DueStays
    <3>. QED BY <1>1, <2>1, <3>1, <3>2, <3>3 DEF Pending
  <2>. QED BY <2>2, <2>3
<1>6. ASSUME NEW n \in Managers, NEW p \in Managers, Hangup(n, p) PROVE Goal
  <2>. DEFINE s == current[n][p]
              made == [state |-> "closed", remote |-> session[n][s].remote,
                       answered |-> session[n][s].answered]
  <2>1. s \in SessionIds /\ s # NoSession /\ Turns(n, s, made) /\ Seated(n, p, NoSession)
    BY <1>6, HangupIs
  <2>2. Was(n, p, s)
    BY <2>1 DEF Was
  <2>3. ~(m = n /\ q = p)
    BY <2>1 DEF Seated
  <2>4. UNCHANGED <<inboxed, handled, routing, gathering>> /\ spoiled \subseteq spoiled'
    BY <1>6 DEF Hangup
  <2>. HIDE DEF s, made
  <2>5. current'[m][q] = Seat /\ session'[m][Seat] = session[m][Seat]
    BY <2>1, <2>2, <2>3, OtherSeat
  <2>. QED BY <1>2, <2>4, <2>5
<1>7. ASSUME NEW n \in Managers, ManagerDies(n) PROVE Goal
  <2>1. m # n /\ current'[m] = current[m] /\ session'[m] = session[m]
    BY <1>7, DiesIs
  <2>2. /\ inboxed' = inboxed /\ gathering'[m] = gathering[m]
        /\ \A z \in Managers : handled'[z] \subseteq handled[z]
        /\ \A z \in Managers \ {n} : routing'[z] = routing[z]
        /\ spoiled' = spoiled \cup {<<n, p>> : p \in {z \in Managers : current[n][z] # NoSession}}
    BY <1>0, <1>7, <2>1 DEF ManagerDies
  <2>3. Due("offer", m, q) => Due("offer", m, q)'
    BY <2>2, DueStays
  <2>4. Due("answer", q, m) => Due("answer", q, m)'
    BY <2>2, DueStays
  <2>5. Routed => q # n
    <3>. SUFFICES ASSUME Routed, q = n PROVE FALSE
      OBVIOUS
    <3>1. <<q, m>> \notin spoiled
      BY <2>2
    <3>2. current[n][m] \in SessionIds
      BY <1>3, <3>1
    <3>3. current[n][m] # NoSession
      BY <3>2, CallsAssumption DEF SessionIds, NoSession
    <3>. QED BY <2>2, <3>3
  <2>6. Gathered \/ Due("offer", m, q) \/ Due("answer", q, m) \/ Routed
    BY <1>1, <2>1, <2>2
  <2>. QED BY <2>1, <2>2, <2>3, <2>4, <2>5, <2>6 DEF Pending
<1>8. ASSUME NEW n \in Managers, NEW signal \in inboxed, TakeOffer(n, signal) PROVE Goal
  <2>. DEFINE p == signal.from
              s == SessionFor(n, p)
              made == [state |-> "answering", remote |-> signal.of,
                       answered |-> session[n][s].answered]
              route == [step |-> "answer", sid |-> s, offer |-> signal]
  <2>1. /\ Takes(n, signal) /\ signal.kind = "offer" /\ signal.to = n /\ p \in Managers
        /\ UNCHANGED <<inboxed, gathering>> /\ routing[n] = NoRoute
    BY <1>0, <1>8 DEF TakeOffer, Takes, Signals
  <2>2. Due("offer", m, q) => Due("offer", m, q)' \/ (q = n /\ m = p)
    BY <2>1, DueTaken
  <2>3. Due("answer", q, m) => Due("answer", q, m)'
    BY <2>1, DueTaken
  <2>4. CASE Accepts(n, signal.from, s)
    <3>1. /\ Was(n, p, s) /\ Turns(n, s, made) /\ Seated(n, p, s) /\ UNCHANGED spoiled
          /\ routing' = [routing EXCEPT ![n] = route]
      BY <1>8, <2>4, TakeOfferIs
    <3>2. route # NoRoute /\ route.offer = signal /\ made.state = "answering"
      BY DEF NoRoute
    <3>. HIDE DEF s, made, route
    <3>3. ~(m = n /\ q = p)
      BY <3>1, <3>2 DEF Was, Turns, Seated
    <3>4. current'[m][q] = Seat /\ session'[m][Seat] = session[m][Seat]
      <4>. HIDE DEF p
      <4>. QED BY <2>1, <3>1, <3>3, OtherSeat
    <3>5. Gathered \/ Due("offer", m, q) \/ Due("answer", q, m) \/ Routed
      BY <1>1, <3>1, <3>4
    <3>6. q = n /\ m = p => routing'[q] # NoRoute /\ routing'[q].offer.from = m
      BY <1>0, <3>1, <3>2
    <3>7. Routed => routing'[q] = routing[q]
      BY <1>0, <2>1, <3>1
    <3>. HIDE DEF p
    <3>. QED BY <2>1, <2>2, <2>3, <3>4, <3>5, <3>6, <3>7 DEF Pending
  <2>5. CASE ~Accepts(n, signal.from, s)
    <3>1. spoiled' = spoiled \cup {<<n, p>>} /\ UNCHANGED <<session, current, routing>>
      BY <1>8, <2>5 DEF TakeOffer
    <3>2. ~(q = n /\ m = p)
      BY <3>1
    <3>3. Gathered \/ Due("offer", m, q) \/ Due("answer", q, m) \/ Routed
      BY <1>1, <3>1
    <3>. QED BY <2>1, <2>2, <2>3, <3>1, <3>2, <3>3 DEF Pending
  <2>. QED BY <2>4, <2>5
<1>9. ASSUME NEW n \in Managers, PrepareAnswer(n) PROVE Goal
  <2>. DEFINE s == routing[n].sid
              emitting == [routing[n] EXCEPT !.step = "emit"]
              made == [state |-> "stable", remote |-> session[n][s].remote,
                       answered |-> session[n][s].answered]
  <2>1. UNCHANGED <<current, inboxed, handled, gathering, spoiled>> /\ routing[n].step = "answer"
    BY <1>9 DEF PrepareAnswer
  <2>2. Seat \in SessionIds
    BY <2>1 DEF SeatInv, CallsTypeOK, MaybeId
  <2>3. CASE session[n][s].state = "answering"
    <3>1. /\ Turns(n, s, made) /\ routing' = [routing EXCEPT ![n] = emitting]
          /\ emitting.step = "emit" /\ emitting.offer = routing[n].offer
      BY <1>9, <2>3, PrepareIs
    <3>2. emitting # NoRoute /\ made.state = "stable"
      BY <3>1 DEF NoRoute
    <3>. HIDE DEF s, made, emitting
    <3>3. session'[m][Seat] = session[m][Seat]
      BY <2>1, <2>2, <3>1, <3>2 DEF Turns
    <3>4. Gathered \/ Due("offer", m, q) \/ Due("answer", q, m) \/ Routed
      BY <1>1, <2>1, <3>3
    <3>5. Routed => routing'[q] # NoRoute /\ routing'[q].offer.from = m
      BY <1>0, <3>1, <3>2
    <3>6. Due("offer", m, q) => Due("offer", m, q)'
      BY <2>1, DueStays
    <3>7. Due("answer", q, m) => Due("answer", q, m)'
      BY <2>1, DueStays
    <3>. QED BY <2>1, <3>4, <3>5, <3>6, <3>7 DEF Pending
  <2>4. CASE session[n][s].state # "answering"
    <3>1. UNCHANGED session /\ routing' = [routing EXCEPT ![n] = NoRoute]
      BY <1>9, <2>4, PrepareIs
    <3>2. Gathered \/ Due("offer", m, q) \/ Due("answer", q, m) \/ Routed
      BY <1>1, <2>1, <3>1
    <3>3. Routed => q # n
      BY <1>3, <2>1, <2>4
    <3>4. Routed => routing'[q] = routing[q]
      BY <1>0, <3>1, <3>3
    <3>5. Due("offer", m, q) => Due("offer", m, q)'
      BY <2>1, DueStays
    <3>6. Due("answer", q, m) => Due("answer", q, m)'
      BY <2>1, DueStays
    <3>. QED BY <2>1, <3>2, <3>4, <3>5, <3>6 DEF Pending
  <2>. QED BY <2>3, <2>4
<1>10. ASSUME NEW n \in Managers, SendAnswer(n) PROVE Goal
  <2>1. /\ UNCHANGED <<session, current, handled, gathering>> /\ spoiled \subseteq spoiled'
        /\ routing' = [routing EXCEPT ![n] = NoRoute] /\ inboxed \subseteq inboxed'
    BY <1>10 DEF SendAnswer, FailsToSend, Emits
  <2>2. Gathered \/ Due("offer", m, q) \/ Due("answer", q, m) \/ Routed
    BY <1>1, <2>1
  <2>3. ASSUME Routed, q = n PROVE Due("answer", q, m)'
    <3>1. ~FailsToSend(n, m) /\ routing[n].offer.from = m
      BY <2>3 DEF FailsToSend
    <3>2. Emits("answer", n, m, routing[n].sid, routing[n].offer.of)
      BY <1>10, <3>1 DEF SendAnswer
    <3>3. Due("answer", n, m)'
      BY <2>1, <3>2, DueEmitted
    <3>. QED BY <2>3, <3>3 DEF Due
  <2>4. ASSUME Routed, q # n PROVE routing'[q] = routing[q]
    BY <1>0, <2>1, <2>4
  <2>5. Due("offer", m, q) => Due("offer", m, q)'
    BY <2>1, DueStays
  <2>6. Due("answer", q, m) => Due("answer", q, m)'
    BY <2>1, DueStays
  <2>. QED BY <2>1, <2>2, <2>3, <2>4, <2>5, <2>6 DEF Pending
<1>11. ASSUME NEW n \in Managers, NEW signal \in inboxed, TakeAnswer(n, signal) PROVE Goal
  <2>. DEFINE p == signal.from
              s == current[n][p]
              made == [state |-> "stable", remote |-> signal.of, answered |-> signal.for]
  <2>1. /\ Takes(n, signal) /\ signal.kind = "answer" /\ signal.to = n /\ p \in Managers
        /\ UNCHANGED <<current, routing, spoiled, inboxed, gathering>>
    BY <1>0, <1>11 DEF TakeAnswer, Takes, Signals
  <2>2. \/ s \in SessionIds /\ s # NoSession /\ Turns(n, s, made)
        \/ ~Awaited(n, signal) /\ UNCHANGED session
    BY <1>11, TakeAnswerIs
  <2>3. made.state = "stable"
    OBVIOUS
  <2>. HIDE DEF made
  <2>4. ~(m = n /\ q = p) /\ session'[m][Seat] = session[m][Seat]
    <3>1. CASE ~Awaited(n, signal) /\ UNCHANGED session
      BY <2>1, <3>1 DEF Awaited
    <3>2. CASE s \in SessionIds /\ s # NoSession /\ Turns(n, s, made)
      <4>1. ~(m = n /\ q = p)
        BY <2>1, <2>3, <3>2 DEF Turns
      <4>2. Was(n, p, s) /\ Seated(n, p, s)
        BY <2>1, <3>2 DEF Was, Seated
      <4>. HIDE DEF s, p
      <4>. QED BY <2>1, <3>2, <4>1, <4>2, OtherSeat
    <3>. QED BY <2>2, <3>1, <3>2
  <2>5. Gathered \/ Due("offer", m, q) \/ Due("answer", q, m) \/ Routed
    BY <1>1, <2>1, <2>4
  <2>6. Due("offer", m, q) => Due("offer", m, q)'
    BY <2>1, DueTaken
  <2>7. Due("answer", q, m) => Due("answer", q, m)'
    BY <2>1, <2>4, DueTaken
  <2>. QED BY <2>1, <2>5, <2>6, <2>7 DEF Pending
<1>12. ASSUME UNCHANGED callsVars PROVE Goal
  BY <1>2, <1>12 DEF callsVars
<1>. QED BY <1>4, <1>5, <1>6, <1>7, <1>8, <1>9, <1>10, <1>11, <1>12 DEF CallsNext

LEMMA CallsStep == CallsInv /\ [CallsNext]_callsVars => CallsInv'
<1>. SUFFICES ASSUME CallsInv, [CallsNext]_callsVars PROVE CallsInv'
  OBVIOUS
<1>. USE DEF CallsInv
<1>1. SeatsStay /\ CallsTypeOK'
  BY SeatStep
<1>2. SeatInv' /\ Stays
  BY <1>1 DEF SeatInv, SeatsStay
<1>3. Numbers'
  BY NumbersStep
<1>4. Addressed'
  BY <1>2, AddressedStep
<1>5. Gathers'
  BY <1>2, GathersStep
<1>6. RoutesFit'
  BY <1>2, RoutesStep
<1>7. Answering'
  BY AnsweringStep
<1>8. Remotes'
  BY <1>2, RemotesStep
<1>9. AnswersFit'
  BY AnswersStep
<1>10. WaitsFor'
  BY WaitsStep
<1>. QED BY <1>2, <1>3, <1>4, <1>5, <1>6, <1>7, <1>8, <1>9, <1>10

LEMMA CallsStart == CallsInit => CallsInv
<1>. SUFFICES ASSUME CallsInit PROVE CallsInv
  OBVIOUS
<1>. USE CallsAssumption DEF CallsInit
<1>1. CallsTypeOK
  <2>1. Unused \in Sessions /\ NoSession \in MaybeId
    BY DEF Unused, Sessions, MaybeId
  <2>2. session \in [Managers -> [SessionIds -> Sessions]]
        /\ current \in [Managers -> [Managers -> MaybeId]]
    BY <2>1
  <2>3. routing \in [Managers -> Routes]
        /\ gathering \in [Managers -> [Managers -> [SessionIds -> Nat]]]
        /\ handled \in [Managers -> SUBSET Nat]
    BY DEF Routes
  <2>. QED BY <2>2, <2>3 DEF CallsTypeOK
<1>2. Fresh /\ Seats /\ Remotes /\ Answering /\ AnswersFit /\ WaitsFor /\ RoutesFit
  BY DEF Fresh, Seats, Remotes, Answering, AnswersFit, WaitsFor, Waits, RoutesFit, Unused
<1>3. Numbers /\ Addressed /\ Gathers
  <2>1. IsFiniteSet(inboxed)
    BY FS_EmptySet
  <2>. QED BY <2>1 DEF Numbers, Addressed, Gathers
<1>. QED BY <1>1, <1>2, <1>3 DEF CallsInv, SeatInv

\* One end of a settled pair: its session is connected to the one of the other end.
LEMMA OneEnd ==
  ASSUME CallsInv, NEW n \in Managers, NEW p \in Managers, current[n][p] # NoSession,
         Clean(n, p), Settled(n, p)
  PROVE  /\ session[n][current[n][p]].state = "stable"
         /\ current[p][n] # NoSession /\ session[n][current[n][p]].remote = current[p][n]
<1>. DEFINE s == current[n][p]
            r == session[n][s].remote
<1>1. s \in SessionIds /\ session[n][s] \in Sessions
  BY DEF CallsInv, SeatInv, CallsTypeOK, MaybeId
<1>2. session[n][s].state # "offered"
  <2>1. ~Pending(n, p)
    BY <1>1 DEF Settled, Pending, Due
  <2>. QED BY <2>1 DEF CallsInv, WaitsFor, Waits
<1>3. session[n][s].state # "answering"
  BY <1>1 DEF CallsInv, Answering, Settled, NoRoute
<1>4. session[n][s].state \notin {"unused", "closed"}
  BY DEF CallsInv, SeatInv, Seats
<1>5. session[n][s].state = "stable"
  BY <1>1, <1>2, <1>3, <1>4 DEF Sessions
<1>6. Belongs(p, n, r)
  BY <1>5 DEF CallsInv, Remotes
<1>7. r \in SessionIds /\ current[p][n] = r
  BY <1>6 DEF Belongs, Clean
<1>8. r # NoSession
  BY <1>7, CallsAssumption DEF SessionIds, NoSession
<1>. QED BY <1>5, <1>7, <1>8

LEMMA CallsSuffice == CallsInv => CallsKeep
<1>. SUFFICES ASSUME CallsInv PROVE CallsKeep
  OBVIOUS
<1>1. ASSUME NEW n \in Managers, NEW p \in Managers, current[n][p] # NoSession,
             {<<n, p>>, <<p, n>>} \cap spoiled = {}, Settled(n, p)
      PROVE  /\ session[n][current[n][p]].state = "stable"
             /\ session[n][current[n][p]].remote = current[p][n]
             /\ current[p][n] # NoSession
             /\ session[p][current[p][n]].remote = current[n][p]
  <2>1. Clean(n, p) /\ Clean(p, n)
    BY <1>1 DEF Clean
  <2>2. Settled(p, n)
    BY <1>1 DEF Settled
  <2>3. /\ session[n][current[n][p]].state = "stable"
        /\ current[p][n] # NoSession /\ session[n][current[n][p]].remote = current[p][n]
    BY <1>1, <2>1, OneEnd
  <2>4. session[p][current[p][n]].remote = current[n][p]
    BY <2>1, <2>2, <2>3, OneEnd
  <2>. QED BY <2>3, <2>4
<1>2. CallsConnect
  BY <1>1 DEF CallsConnect
<1>. QED BY <1>2 DEF CallsKeep, CallsInv

-------------------------------------------------------------------------------
(* The Nostr rail.  A gift has been opened as often as its id is in        *)
(* seenIds, which settles OpenedOnce.  PollIsWhole is about a poll that is *)
(* over; Gathering says what holds of the poll that is going on: as long   *)
(* as no relay has failed it, every relay it has asked has given up what   *)
(* was published before the poll began.                                    *)

\* A gift is at no relay, and published by nobody, before it is wrapped; while it
\* is offered it is not published; once it is published some relay has it.
Publishing ==
  /\ \A g \in Gifts : g > wrapped => taken[g] = Never
  /\ offering # 0 => wrapped \in Gifts /\ taken[wrapped] = Never
  /\ \A g \in Gifts : taken[g] # Never => \E r \in Relays : g \in relayed[r]

\* The gifts that were published before a time and are dated within its window.
Before(g, time) == taken[g] # Never /\ taken[g] < time /\ dated[g] >= time - SinceWindow

Gathering ==
  asking # 0 =>
    /\ since + SinceWindow \in 0..tick
    /\ whole => \A r \in Relays : r < asking =>
                  \A g \in relayed[r] : Before(g, since + SinceWindow) => g \in seenIds

Gathered ==
  /\ fetched <= tick
  /\ \A g \in Gifts : Before(g, fetched) => g \in seenIds

Opening == \A g \in Gifts : returned[g] = IF g \in seenIds THEN 1 ELSE 0

NostrInv == NostrTypeOK /\ Publishing /\ Gathering /\ Gathered /\ Opening

USE NostrAssumption DEF Relays, Gifts, Never

\* Nothing has happened before the first step.
LEMMA InvInit == NostrInit => NostrInv
  BY DEF NostrInit, NostrInv, NostrTypeOK, Publishing, Gathering, Gathered, Opening, Before

\* A new gift is nobody's yet.
LEMMA WrapKeeps == ASSUME NostrInv, NEW back \in 0..Backdate, WrapDm(back)
                   PROVE NostrInv'
<1> USE DEF WrapDm, pollVars
<1>1. NostrTypeOK' BY DEF NostrInv, NostrTypeOK
<1>2. Publishing' BY DEF NostrInv, NostrTypeOK, Publishing
<1>3. wrapped + 1 \in Gifts /\ taken[wrapped + 1] = Never
  BY DEF NostrInv, NostrTypeOK, Publishing
<1>4. \A g \in Gifts, t \in Int : Before(g, t)' => Before(g, t)
  BY <1>3 DEF NostrInv, NostrTypeOK, Before
<1>5. Gathering' /\ Gathered' BY <1>3, <1>4 DEF NostrInv, NostrTypeOK, Gathering, Gathered, Before
<1>6. Opening' BY DEF NostrInv, Opening
<1> QED BY <1>1, <1>2, <1>5, <1>6 DEF NostrInv

\* What a relay takes now is not published before now.
LEMMA PublishKeeps == ASSUME NostrInv, NEW kept \in BOOLEAN, NEW acked \in BOOLEAN,
                             PublishToRelay(kept, acked)
                      PROVE NostrInv'
<1> USE DEF PublishToRelay, pollVars
<1>1. wrapped \in Gifts /\ taken[wrapped] = Never /\ offering \in Relays
  BY DEF NostrInv, NostrTypeOK, Publishing
<1>2. NostrTypeOK'
  <2>1. relayed' \in [Relays -> SUBSET Gifts] BY <1>1 DEF NostrInv, NostrTypeOK
  <2>2. taken' \in [Gifts -> 0..LastTick \cup {Never}]
    <3>1. taken \in [Gifts -> 0..LastTick \cup {Never}] /\ tick \in 0..LastTick
      BY DEF NostrInv, NostrTypeOK
    <3> QED BY <1>1, <3>1
  <2>3. offering' \in {0} \cup Relays BY <1>1
  <2> QED BY <2>1, <2>2, <2>3 DEF NostrInv, NostrTypeOK
<1>3. \A r \in Relays : relayed[r] \subseteq relayed'[r] /\ relayed'[r] \subseteq relayed[r] \cup {wrapped}
  BY <1>1 DEF NostrInv, NostrTypeOK
<1>4. acked => wrapped \in relayed'[offering]
  BY <1>1 DEF NostrInv, NostrTypeOK
<1>5. /\ \A g \in Gifts : g # wrapped => taken'[g] = taken[g]
      /\ taken'[wrapped] = IF acked THEN tick ELSE Never
  BY <1>1 DEF NostrInv, NostrTypeOK
<1>6. Publishing'
  <2>1. (\A g \in Gifts : g > wrapped => taken[g] = Never)'
    BY <1>1, <1>5 DEF NostrInv, NostrTypeOK, Publishing
  <2>2. (offering # 0 => wrapped \in Gifts /\ taken[wrapped] = Never)'
    BY <1>1, <1>5
  <2>3. (\A g \in Gifts : taken[g] # Never => \E r \in Relays : g \in relayed[r])'
    BY <1>1, <1>3, <1>4, <1>5 DEF NostrInv, Publishing
  <2> QED BY <2>1, <2>2, <2>3 DEF Publishing
<1>7. \A g \in Gifts, t \in Int : t <= tick /\ Before(g, t)' => Before(g, t) /\ g # wrapped
  BY <1>1, <1>5 DEF NostrInv, NostrTypeOK, Before
<1>8. Gathering'
  <2>1. since + SinceWindow \in Int BY DEF NostrInv, NostrTypeOK
  <2>2. \A r \in Relays : relayed'[r] \subseteq Gifts BY <1>2 DEF NostrTypeOK
  <2> QED BY <1>3, <1>7, <2>1, <2>2 DEF NostrInv, Gathering
<1>9. Gathered'
  <2>1. fetched \in Int BY DEF NostrInv, NostrTypeOK
  <2> QED BY <1>7, <2>1 DEF NostrInv, Gathered
<1>10. Opening' BY DEF NostrInv, Opening
<1> QED BY <1>2, <1>6, <1>8, <1>9, <1>10 DEF NostrInv

\* A poll has asked no relay when it begins.
LEMMA PollKeeps == ASSUME NostrInv, Poll PROVE NostrInv'
<1> USE DEF Poll, relayVars
<1>1. NostrTypeOK' BY DEF NostrInv, NostrTypeOK
<1>2. Gathering' BY DEF NostrInv, NostrTypeOK, Gathering
<1> QED BY <1>1, <1>2 DEF NostrInv, NostrTypeOK, Publishing, Gathered, Opening, Before

\* A relay that did not fail has given up all it had; after the last one some
\* relay that was asked has every gift that was published in time.
LEMMA QueryKeeps == ASSUME NostrInv, NEW events \in SUBSET Gifts, QueryRelay(events)
                    PROVE NostrInv'
<1> USE DEF QueryRelay, relayVars
<1>2. Publishing' BY DEF NostrInv, Publishing
<1>3. Opening' BY DEF NostrInv, NostrTypeOK, Opening, SeenToo
<1>4. /\ asking \in Relays /\ since + SinceWindow \in 0..tick /\ tick \in 0..LastTick
      /\ since = (since + SinceWindow) - SinceWindow
  BY DEF NostrInv, NostrTypeOK, Gathering
<1>1. NostrTypeOK'
  <2>1. asking' \in {0} \cup Relays BY <1>4 DEF NextRelay
  <2>2. seenIds' \subseteq Gifts BY DEF NostrInv, NostrTypeOK, SeenToo
  <2>3. returned' \in [Gifts -> Nat] BY DEF NostrInv, NostrTypeOK
  <2>4. fetched' \in 0..LastTick \cup {Never} BY <1>4 DEF NostrInv, NostrTypeOK
  <2>5. whole' \in BOOLEAN BY DEF NostrInv, NostrTypeOK
  <2> QED BY <2>1, <2>2, <2>3, <2>4, <2>5 DEF NostrInv, NostrTypeOK
<1>5. \A g \in Gifts, t \in Int : Before(g, t)' <=> Before(g, t)
  BY DEF Before
<1>6. ASSUME whole', NEW r \in Relays, r <= asking, NEW g \in relayed[r],
             Before(g, since + SinceWindow)
      PROVE g \in seenIds'
  <2>1. CASE r < asking BY <1>4, <1>6, <2>1 DEF NostrInv, Gathering, SeenToo
  <2>2. CASE r = asking BY <1>4, <1>6, <2>2 DEF Within, SeenToo, Before
  <2> QED BY <1>4, <1>6, <2>1, <2>2
<1>7. Gathering'
  <2>1. asking' # 0 => asking' = asking + 1 BY <1>4 DEF NextRelay
  <2>2. \A r \in Relays : relayed[r] \subseteq Gifts BY DEF NostrInv, NostrTypeOK
  <2> QED BY <1>4, <1>5, <1>6, <2>1, <2>2 DEF Gathering
<1>8. Gathered'
  <2>1. CASE whole' /\ asking' = 0
    <3>1. fetched' = since + SinceWindow /\ asking = RelayCount
      BY <1>4, <2>1 DEF NextRelay
    <3>2. ASSUME NEW g \in Gifts, Before(g, since + SinceWindow) PROVE g \in seenIds'
      <4>1. PICK r \in Relays : g \in relayed[r]
        BY <3>2 DEF NostrInv, Publishing, Before
      <4> QED BY <1>6, <2>1, <3>1, <3>2, <4>1
    <3> QED BY <1>4, <1>5, <3>1, <3>2 DEF Gathered
  <2>2. CASE ~(whole' /\ asking' = 0)
    <3>1. fetched' = fetched /\ fetched \in Int BY <2>2 DEF NostrInv, NostrTypeOK
    <3> QED BY <1>5, <3>1 DEF NostrInv, Gathered, SeenToo
  <2> QED BY <2>1, <2>2
<1> QED BY <1>1, <1>2, <1>3, <1>7, <1>8 DEF NostrInv

\* A restart forgets the polls with what they opened, and time passes for all.
LEMMA OtherKeeps == ASSUME NostrInv, Restart \/ RelayTick PROVE NostrInv'
<1>1. CASE Restart
  BY <1>1 DEF Restart, relayVars, NostrInv, NostrTypeOK, Publishing, Gathering, Gathered, Opening, Before
<1>2. CASE RelayTick
  BY <1>2 DEF RelayTick, relayVars, pollVars, NostrInv, NostrTypeOK, Publishing, Gathering, Gathered,
              Opening, Before
<1> QED BY <1>1, <1>2

\* The invariant gives both halves of the property.
LEMMA InvKeeps == NostrInv => NostrKeeps
<1> SUFFICES ASSUME NostrInv PROVE NostrKeeps OBVIOUS
<1>1. OpenedOnce BY DEF NostrInv, Opening, OpenedOnce
<1>2. PollIsWhole BY DEF NostrInv, Opening, Gathered, Before, PollIsWhole
<1> QED BY <1>1, <1>2 DEF NostrKeeps

\* nostr.py receive: whichever relays fail, and whenever the recipient restarts,
\* no letter is opened twice in one life, and a poll that no relay failed has
\* opened every letter of its window that was published before it began.
THEOREM PollsAreWhole == NostrSpec => [](NostrTypeOK /\ NostrKeeps)
<1>1. NostrInv /\ [NostrNext]_nostrVars => NostrInv'
  <2> SUFFICES ASSUME NostrInv, [NostrNext]_nostrVars PROVE NostrInv' OBVIOUS
  <2>1. CASE \E back \in 0..Backdate : WrapDm(back) BY <2>1, WrapKeeps
  <2>2. CASE \E kept, acked \in BOOLEAN : PublishToRelay(kept, acked) BY <2>2, PublishKeeps
  <2>3. CASE Poll BY <2>3, PollKeeps
  <2>4. CASE \E events \in SUBSET Gifts : QueryRelay(events) BY <2>4, QueryKeeps
  <2>5. CASE Restart \/ RelayTick BY <2>5, OtherKeeps
  <2>6. CASE UNCHANGED nostrVars
    BY <2>6 DEF nostrVars, relayVars, pollVars, NostrInv, NostrTypeOK, Publishing, Gathering, Gathered,
                Opening, Before
  <2> QED BY <2>1, <2>2, <2>3, <2>4, <2>5, <2>6 DEF NostrNext
<1>2. NostrInv => NostrTypeOK BY DEF NostrInv
<1> QED BY InvInit, InvKeeps, <1>1, <1>2, PTL DEF NostrSpec

HIDE NostrAssumption DEF Relays, Gifts, Never

-------------------------------------------------------------------------------
(* Lists, from which one member is taken.                                  *)

LEMMA LeftOut ==
  ASSUME NEW S, NEW s \in Seq(S), NEW k \in 1..Len(s)
  PROVE  /\ RemoveAt(s, k) \in Seq(S) /\ Len(RemoveAt(s, k)) = Len(s) - 1
         /\ \A i \in 1..(Len(s) - 1) :
              RemoveAt(s, k)[i] = IF i < k THEN s[i] ELSE s[i + 1]
<1>. DEFINE n == Len(s)
            b == SubSeq(s, 1, k - 1)
            e == SubSeq(s, k + 1, n)
<1>1. n \in Nat /\ k \in 1..n /\ \A i \in 1..n : s[i] \in S
  BY ElementOfSeq, LenProperties
<1>. HIDE DEF n
<1>2. b \in Seq(S) /\ Len(b) = k - 1 /\ \A i \in 1..(k - 1) : b[i] = s[i]
  <2>1. \A i \in 1..(k - 1) : s[i] \in S
    BY <1>1
  <2>2. /\ b \in Seq(S) /\ Len(b) = IF 1 <= k - 1 THEN (k - 1) - 1 + 1 ELSE 0
        /\ \A i \in 1..((k - 1) - 1 + 1) : b[i] = s[1 + i - 1]
    BY <1>1, <2>1, SubSeqProperties
  <2>. HIDE DEF b
  <2>3. (k - 1) - 1 + 1 = k - 1 /\ \A i \in 1..(k - 1) : 1 + i - 1 = i
    BY <1>1
  <2>4. k - 1 >= 1 \/ k - 1 = 0
    BY <1>1
  <2>. QED BY <1>1, <2>2, <2>3, <2>4
<1>3. e \in Seq(S) /\ Len(e) = n - k /\ \A i \in 1..(n - k) : e[i] = s[k + i]
  <2>1. \A i \in (k + 1)..n : s[i] \in S
    BY <1>1
  <2>2. /\ e \in Seq(S) /\ Len(e) = IF k + 1 <= n THEN n - (k + 1) + 1 ELSE 0
        /\ \A i \in 1..(n - (k + 1) + 1) : e[i] = s[(k + 1) + i - 1]
    BY <1>1, <2>1, SubSeqProperties
  <2>. HIDE DEF e
  <2>3. n - (k + 1) + 1 = n - k /\ \A i \in 1..(n - k) : (k + 1) + i - 1 = k + i
    BY <1>1
  <2>4. k + 1 <= n \/ n - k = 0
    BY <1>1
  <2>. QED BY <1>1, <2>2, <2>3, <2>4
<1>4. RemoveAt(s, k) = b \o e
  BY DEF RemoveAt, n
<1>. HIDE DEF b, e
<1>5. /\ b \o e \in Seq(S) /\ Len(b \o e) = Len(b) + Len(e)
      /\ \A i \in 1..(Len(b) + Len(e)) : (b \o e)[i] = IF i <= Len(b) THEN b[i] ELSE e[i - Len(b)]
  BY <1>2, <1>3, ConcatProperties
<1>6. Len(b) + Len(e) = n - 1
  BY <1>1, <1>2, <1>3
<1>7. ASSUME NEW i \in 1..(n - 1)
      PROVE  (b \o e)[i] = IF i < k THEN s[i] ELSE s[i + 1]
  <2>1. CASE i < k
    BY <1>1, <1>2, <1>5, <1>6, <2>1
  <2>2. CASE ~(i < k)
    <3>1. i - (k - 1) \in 1..(n - k) /\ ~(i <= k - 1) /\ k + (i - (k - 1)) = i + 1
      BY <1>1, <2>2
    <3>. QED BY <1>1, <1>2, <1>3, <1>5, <1>6, <2>2, <3>1
  <2>. QED BY <2>1, <2>2
<1>. QED BY <1>4, <1>5, <1>6, <1>7 DEF n

LEMMA WithoutOne ==
  ASSUME NEW S, NEW s \in Seq(S), NEW c,
         \A i, j \in 1..Len(s) : s[i] = s[j] => i = j
  PROVE  /\ Without(s, c) \in Seq(S) /\ Len(Without(s, c)) <= Len(s)
         /\ \A i, j \in 1..Len(Without(s, c)) : Without(s, c)[i] = Without(s, c)[j] => i = j
         /\ ToSet(s) \ {c} \subseteq ToSet(Without(s, c))
<1>1. CASE c \notin ToSet(s)
  BY <1>1 DEF Without
<1>2. CASE c \in ToSet(s)
  <2>1. PICK k \in 1..Len(s) : k = CHOOSE i \in DOMAIN s : s[i] = c
    BY <1>2, LenProperties DEF ToSet
  <2>. DEFINE r == RemoveAt(s, k)
  <2>2. Without(s, c) = r /\ s[k] = c /\ DOMAIN s = 1..Len(s) /\ Len(s) \in Nat
    <3>1. \E i \in DOMAIN s : s[i] = c
      BY <1>2 DEF ToSet
    <3>. QED BY <1>2, <2>1, <3>1, LenProperties DEF Without
  <2>3. /\ r \in Seq(S) /\ Len(r) = Len(s) - 1
        /\ \A i \in 1..(Len(s) - 1) : r[i] = IF i < k THEN s[i] ELSE s[i + 1]
    BY LeftOut
  <2>. HIDE DEF r
  <2>4. ASSUME NEW i \in 1..Len(r), NEW j \in 1..Len(r), r[i] = r[j] PROVE i = j
    <3>1. PICK x \in 1..Len(s) : r[i] = s[x] /\ x = IF i < k THEN i ELSE i + 1
      BY <2>2, <2>3
    <3>2. PICK y \in 1..Len(s) : r[j] = s[y] /\ y = IF j < k THEN j ELSE j + 1
      BY <2>2, <2>3
    <3>3. x = y
      BY <2>4, <3>1, <3>2
    <3>. QED BY <2>2, <2>3, <3>1, <3>2, <3>3
  <2>5. ASSUME NEW x \in ToSet(s) \ {c} PROVE x \in ToSet(r)
    <3>1. PICK i \in 1..Len(s) : x = s[i] /\ i # k
      BY <2>2 DEF ToSet
    <3>2. DOMAIN r = 1..Len(r)
      BY <2>3, LenProperties
    <3>3. CASE i < k
      <4>1. i \in 1..(Len(s) - 1) /\ r[i] = x
        BY <2>1, <2>2, <2>3, <3>1, <3>3
      <4>. QED BY <2>3, <3>2, <4>1 DEF ToSet
    <3>4. CASE i > k
      <4>1. i - 1 \in 1..(Len(s) - 1) /\ ~(i - 1 < k) /\ (i - 1) + 1 = i
        BY <2>1, <2>2, <3>1, <3>4
      <4>2. r[i - 1] = x
        BY <2>3, <3>1, <4>1
      <4>. QED BY <2>3, <3>2, <4>1, <4>2 DEF ToSet
    <3>. QED BY <2>1, <2>2, <3>1, <3>3, <3>4
  <2>. QED BY <2>2, <2>3, <2>4, <2>5
<1>. QED BY <1>1, <1>2

LEMMA WithoutIsList ==
  ASSUME NEW S, NEW s \in Seq(S), NEW c
  PROVE  Without(s, c) \in Seq(S)
<1>1. CASE c \in ToSet(s)
  <2>1. (CHOOSE i \in DOMAIN s : s[i] = c) \in 1..Len(s)
    BY <1>1, LenProperties DEF ToSet
  <2>. QED BY <1>1, <2>1, LeftOut DEF Without
<1>. QED BY <1>1 DEF Without

-------------------------------------------------------------------------------
(* How many of the first d callbacks of a list are of a kind.              *)

Called(s, S, d) == Cardinality({i \in 1..d : s[i] \in S})

LEMMA CalledIsFinite ==
  ASSUME NEW s, NEW S, NEW d \in Nat
  PROVE  IsFiniteSet({i \in 1..d : s[i] \in S}) /\ Called(s, S, d) \in Nat
<1>1. IsFiniteSet(1..d)
  BY FS_Interval
<1>2. IsFiniteSet({i \in 1..d : s[i] \in S})
  BY <1>1, FS_Subset
<1>. QED BY <1>2, FS_CardinalityType DEF Called

LEMMA CalledNone == ASSUME NEW s, NEW S PROVE Called(s, S, 0) = 0
<1>1. {i \in 1..0 : s[i] \in S} = {}
  OBVIOUS
<1>. QED BY <1>1, FS_EmptySet DEF Called

LEMMA CalledNext ==
  ASSUME NEW s, NEW S, NEW d \in Nat
  PROVE  Called(s, S, d + 1) = Called(s, S, d) + IF s[d + 1] \in S THEN 1 ELSE 0
<1>. DEFINE T == {i \in 1..d : s[i] \in S}
            U == {i \in 1..(d + 1) : s[i] \in S}
<1>1. 1..(d + 1) = 1..d \cup {d + 1} /\ d + 1 \notin 1..d
  OBVIOUS
<1>2. IsFiniteSet(T) /\ Cardinality(T) \in Nat
  BY CalledIsFinite DEF Called
<1>3. CASE s[d + 1] \in S
  <2>1. U = T \cup {d + 1} /\ d + 1 \notin T
    BY <1>1, <1>3
  <2>. HIDE DEF T, U
  <2>2. Cardinality(U) = Cardinality(T) + 1
    BY <1>2, <2>1, FS_AddElement
  <2>. QED BY <1>3, <2>2 DEF Called, T, U
<1>4. CASE s[d + 1] \notin S
  <2>1. U = T
    BY <1>1, <1>4
  <2>. HIDE DEF T, U
  <2>. QED BY <1>2, <1>4, <2>1 DEF Called, T, U
<1>. QED BY <1>3, <1>4

LEMMA CalledGrows ==
  ASSUME NEW s, NEW S, NEW d \in Nat, NEW e \in Nat, d <= e
  PROVE  Called(s, S, d) <= Called(s, S, e)
<1>. DEFINE T == {i \in 1..d : s[i] \in S}
            U == {i \in 1..e : s[i] \in S}
<1>1. T \subseteq U
  OBVIOUS
<1>3. IsFiniteSet(U)
  BY CalledIsFinite
<1>. HIDE DEF T, U
<1>2. Cardinality(T) <= Cardinality(U)
  BY <1>1, <1>3, FS_Subset
<1>. QED BY <1>2 DEF Called, T, U

LEMMA TimesIsCalled ==
  ASSUME NEW m, NEW X, snapshot[m] \in Seq(X), NEW S
  PROVE  Times(S, m) = Called(snapshot[m], S, Len(snapshot[m]))
<1>1. DOMAIN snapshot[m] = 1..Len(snapshot[m])
  BY LenProperties
<1>. QED BY <1>1 DEF Times, Called

-------------------------------------------------------------------------------
(* The bus.  Of a message that is being published, some callbacks of the   *)
(* list that it found are left; the others were called, and so were, by a  *)
(* bridge, the agents before the index.                                    *)

Callbacks == Listeners \cup Methods
Tasks == [of : 0..MessageCount, todo : Seq(Callbacks), index : Nat \ {0}]
BusShape ==
  /\ subscriptions \in Seq(Callbacks) /\ changes \in 0..MaxChanges /\ methods \in 0..changes
  /\ remotes \in Seq(RemoteAgents)
  /\ \A i, j \in 1..Len(remotes) : remotes[i] = remotes[j] => i = j
  /\ publishing \in [Publishers -> Tasks]
  /\ snapshot \in Seq(Seq(Callbacks)) /\ Len(snapshot) <= MessageCount
  /\ heard \in [Messages -> [Listeners -> Nat]]
  /\ forwarded \in [Messages -> [RemoteAgents -> Nat]]
  /\ DOMAIN steady = Messages /\ \A m \in Messages : steady[m] \subseteq ToSet(remotes)
Given(a, index) == IF \E j \in 1..(index - 1) : remotes[j] = a THEN 1 ELSE 0
SentTo(m, a, due) == /\ forwarded[m][a] <= due
                     /\ a \in steady[m] => forwarded[m][a] = due
Heard(m, d) == \A l \in Listeners : heard[m][l] = Called(snapshot[m], {l}, d)
Sent(m, todo, index, d) == m \notin shifted =>
  /\ index <= Len(remotes) + 1 /\ (index > 1 => todo # <<>> /\ Head(todo) \in Methods)
  /\ \A a \in RemoteAgents : SentTo(m, a, Called(snapshot[m], Methods, d) + Given(a, index))
LeftOf(m, todo, d) == /\ d \in 0..Len(snapshot[m]) /\ Len(todo) = Len(snapshot[m]) - d
                      /\ \A i \in 1..Len(todo) : todo[i] = snapshot[m][d + i]
Served(m, todo, index) == \E d \in Nat : LeftOf(m, todo, d) /\ Heard(m, d) /\ Sent(m, todo, index, d)
AloneWith(t) == publishing[t].of # 0 => \A u \in Publishers \ {t} : publishing[u].of # publishing[t].of
AtWork(t) ==
  /\ publishing[t].of = 0 => publishing[t] = AtEase
  /\ publishing[t].of # 0 => /\ publishing[t].of <= Len(snapshot)
                             /\ Served(publishing[t].of, publishing[t].todo, publishing[t].index)
Unheard(m) == m > Len(snapshot) => /\ \A l \in Listeners : heard[m][l] = 0
                                   /\ \A a \in RemoteAgents : forwarded[m][a] = 0
BusInv ==
  /\ BusShape /\ \A t \in Publishers : AtWork(t) /\ AloneWith(t)
  /\ \A m \in Messages : (Over(m) => Served(m, <<>>, 1)) /\ Unheard(m)

\* What a message found, as a list.
LEMMA Found ==
  ASSUME BusShape, NEW m \in Messages, m <= Len(snapshot)
  PROVE  snapshot[m] \in Seq(Callbacks) /\ Len(snapshot[m]) \in Nat
<1>1. m \in 1..Len(snapshot)
  BY PubSubAssumption, LenProperties DEF BusShape, Messages
<1>2. snapshot[m] \in Seq(Callbacks)
  BY <1>1, ElementOfSeq DEF BusShape
<1>. QED BY <1>2, LenProperties

LEMMA OverIsWhole ==
  ASSUME BusInv, NEW m \in Messages, Over(m)
  PROVE  /\ Heard(m, Len(snapshot[m])) /\ snapshot[m] \in Seq(Callbacks)
         /\ m \notin shifted => \A a \in RemoteAgents : SentTo(m, a, Times(Methods, m))
<1>1. snapshot[m] \in Seq(Callbacks) /\ Len(snapshot[m]) \in Nat
  BY Found DEF BusInv, Over
<1>2. PICK d \in Nat : LeftOf(m, <<>>, d) /\ Heard(m, d) /\ Sent(m, <<>>, 1, d)
  BY DEF BusInv, Served
<1>3. d = Len(snapshot[m])
  BY <1>1, <1>2, EmptySeq DEF LeftOf
<1>4. ASSUME m \notin shifted, NEW a \in RemoteAgents
      PROVE  SentTo(m, a, Times(Methods, m))
  <2>1. Given(a, 1) = 0
    BY DEF Given
  <2>2. Called(snapshot[m], Methods, d) \in Nat
    BY <1>2, CalledIsFinite
  <2>3. SentTo(m, a, Called(snapshot[m], Methods, d) + Given(a, 1))
    BY <1>2, <1>4 DEF Sent
  <2>4. Called(snapshot[m], Methods, d) + Given(a, 1) = Times(Methods, m)
    BY <1>1, <1>3, <2>1, <2>2, TimesIsCalled
  <2>. QED BY <2>3, <2>4
<1>. QED BY <1>1, <1>2, <1>3, <1>4

LEMMA BusHolds == BusInv => BusKeeps
<1>. SUFFICES ASSUME BusInv PROVE BusKeeps
  OBVIOUS
<1>1. ListenersServed
  <2>. SUFFICES ASSUME NEW m \in Messages, NEW l \in Listeners, Over(m)
                PROVE  heard[m][l] = Times({l}, m)
    BY DEF ListenersServed
  <2>. QED BY OverIsWhole, TimesIsCalled DEF Heard
<1>2. AgentsServed
  BY OverIsWhole DEF AgentsServed, SentTo
<1>3. ASSUME NEW m \in Messages \ shifted, NEW a \in RemoteAgents, m <= Len(snapshot)
      PROVE  forwarded[m][a] <= Times(Methods, m)
  <2>1. CASE Over(m)
    BY <1>3, <2>1, OverIsWhole DEF SentTo
  <2>2. CASE ~Over(m)
    <3>1. PICK t \in Publishers : publishing[t].of = m
      BY <1>3, <2>2 DEF Over
    <3>. DEFINE todo == publishing[t].todo
                index == publishing[t].index
                L == Len(snapshot[m])
    <3>2. m # 0 /\ todo \in Seq(Callbacks) /\ index \in Nat \ {0}
      BY PubSubAssumption DEF BusInv, BusShape, Tasks, Messages
    <3>3. Served(m, todo, index)
      BY <3>1, <3>2 DEF BusInv, AtWork
    <3>. HIDE DEF todo, index
    <3>4. PICK d \in Nat : LeftOf(m, todo, d) /\ Sent(m, todo, index, d)
      BY <3>3 DEF Served
    <3>5. snapshot[m] \in Seq(Callbacks) /\ L \in Nat
      BY <1>3, Found DEF BusInv
    <3>6. forwarded[m][a] <= Called(snapshot[m], Methods, d) + Given(a, index)
      BY <1>3, <3>4 DEF Sent, SentTo
    <3>7. Times(Methods, m) = Called(snapshot[m], Methods, L)
      BY <3>5, TimesIsCalled
    <3>8. d <= L /\ Called(snapshot[m], Methods, d) \in Nat /\ Called(snapshot[m], Methods, L) \in Nat
          /\ Called(snapshot[m], Methods, d) <= Called(snapshot[m], Methods, L)
      <4>1. d <= L
        BY <3>4, <3>5 DEF LeftOf
      <4>. QED BY <3>5, <4>1, CalledIsFinite, CalledGrows
    <3>9. forwarded[m][a] \in Nat
      BY DEF BusInv, BusShape
    <3>10. CASE Given(a, index) = 0
      BY <3>6, <3>7, <3>8, <3>9, <3>10
    <3>11. CASE Given(a, index) = 1
      <4>1. index > 1 /\ todo # <<>> /\ Head(todo) \in Methods
        <5>1. index > 1
          BY <3>2, <3>11 DEF Given
        <5>. QED BY <1>3, <3>4, <5>1 DEF Sent
      <4>2. Len(todo) \in Nat \ {0} /\ Head(todo) = todo[1]
        BY <3>2, <4>1, EmptySeq
      <4>3. snapshot[m][d + 1] \in Methods /\ d + 1 <= L
        BY <3>4, <3>5, <4>1, <4>2 DEF LeftOf
      <4>4. Called(snapshot[m], Methods, d + 1) = Called(snapshot[m], Methods, d) + 1
        BY <4>3, CalledNext
      <4>5. d + 1 \in Nat /\ Called(snapshot[m], Methods, d + 1) <= Called(snapshot[m], Methods, L)
        BY <3>5, <4>3, CalledGrows
      <4>. QED BY <3>6, <3>7, <3>8, <3>9, <3>11, <4>4, <4>5
    <3>. QED BY <3>10, <3>11 DEF Given
  <2>. QED BY <2>1, <2>2
<1>4. NotTwice
  BY <1>3 DEF NotTwice
<1>. QED BY <1>1, <1>2, <1>4 DEF BusKeeps

LEMMA BusBegins == PubSubInit => BusInv
<1>. SUFFICES ASSUME PubSubInit PROVE BusInv
  OBVIOUS
<1>. USE PubSubAssumption
<1>1. \A S : <<>> \in Seq(S) /\ Len(<<>>) = 0
  BY EmptySeq
<1>2. AtEase \in Tasks
  BY <1>1 DEF AtEase, Tasks
<1>3. BusShape
  <2>1. \A m \in Messages : heard[m] \in [Listeners -> Nat] /\ forwarded[m] \in [RemoteAgents -> Nat]
    BY DEF PubSubInit
  <2>. QED BY <1>1, <1>2, <2>1 DEF PubSubInit, BusShape
<1>4. ASSUME NEW t \in Publishers PROVE AtWork(t) /\ AloneWith(t)
  BY DEF PubSubInit, AtWork, AloneWith, AtEase
<1>5. ASSUME NEW m \in Messages PROVE ~Over(m) /\ Unheard(m)
  <2>1. ~(m <= Len(snapshot))
    BY <1>1 DEF PubSubInit, Messages
  <2>. QED BY <2>1 DEF PubSubInit, Over, Unheard
<1>. QED BY <1>3, <1>4, <1>5 DEF BusInv

\* What leaves a message, and the lists of agents, as they are.
LEMMA ServedStays ==
  ASSUME NEW m, NEW todo, NEW index, Served(m, todo, index),
         snapshot'[m] = snapshot[m], heard'[m] = heard[m], forwarded'[m] = forwarded[m],
         steady'[m] = steady[m], m \in shifted => m \in shifted', remotes' = remotes
  PROVE  Served(m, todo, index)'
<1>1. PICK d \in Nat : LeftOf(m, todo, d) /\ Heard(m, d) /\ Sent(m, todo, index, d)
  BY DEF Served
<1>2. LeftOf(m, todo, d)' /\ Heard(m, d)'
  BY <1>1 DEF LeftOf, Heard
<1>3. \A a : Given(a, index)' = Given(a, index)
  BY DEF Given
<1>4. Sent(m, todo, index, d)'
  BY <1>1, <1>3 DEF Sent, SentTo
<1>. QED BY <1>1, <1>2, <1>4 DEF Served

\* A step of nobody who publishes.
LEMMA WorkStays ==
  ASSUME BusInv, BusShape', UNCHANGED <<publishing, snapshot, heard, forwarded>>,
         \A m \in Messages, index \in Nat \ {0} : \A todo :
           /\ Served(m, todo, index)
           /\ index = 1 \/ \E t \in Publishers : publishing[t].of = m /\ publishing[t].index = index
           => Served(m, todo, index)'
  PROVE  BusInv'
<1>1. ASSUME NEW t \in Publishers PROVE (AtWork(t) /\ AloneWith(t))'
  <2>1. AtWork(t) /\ AloneWith(t)
    BY DEF BusInv
  <2>2. PICK m, todo, index : m = publishing[t].of /\ todo = publishing[t].todo
                              /\ index = publishing[t].index
    OBVIOUS
  <2>3. m # 0 => m \in Messages /\ index \in Nat \ {0}
    BY <2>2, PubSubAssumption DEF BusInv, BusShape, Tasks, Messages
  <2>4. m # 0 => Served(m, todo, index)'
    BY <2>1, <2>2, <2>3 DEF AtWork
  <2>. QED BY <2>1, <2>2, <2>4 DEF AtWork, AloneWith
<1>2. ASSUME NEW m \in Messages PROVE ((Over(m) => Served(m, <<>>, 1)) /\ Unheard(m))'
  <2>1. (Over(m) => Served(m, <<>>, 1)) /\ Unheard(m)
    BY DEF BusInv
  <2>2. 1 \in Nat \ {0} /\ (Served(m, <<>>, 1) => Served(m, <<>>, 1)')
    OBVIOUS
  <2>. QED BY <2>1, <2>2 DEF Over, Unheard
<1>. QED BY <1>1, <1>2 DEF BusInv

\* Subscriptions come and go, and so does the bridge.
LEMMA BusListsKeep ==
  ASSUME BusInv, \/ \E l \in Listeners : Subscribe(l) \/ Unsubscribe(l)
                 \/ Clear \/ BridgeStart \/ BridgeStop
  PROVE  BusInv'
<1>. USE PubSubAssumption
<1>1. UNCHANGED <<remotes, publishing, snapshot, heard, forwarded, steady, shifted>>
  BY DEF Subscribe, Unsubscribe, Clear, BridgeStart, BridgeStop, historyVars
<1>2. changes' \in 0..MaxChanges /\ methods' \in 0..changes' /\ subscriptions' \in Seq(Callbacks)
  <2>0. /\ subscriptions \in Seq(Callbacks) /\ changes \in 0..MaxChanges /\ methods \in 0..changes
        /\ <<>> \in Seq(Callbacks)
    BY EmptySeq DEF BusInv, BusShape
  <2>1. CASE \E l \in Listeners : Subscribe(l)
    BY <2>0, <2>1, AppendProperties DEF Subscribe, Change, bridgeVars, Callbacks
  <2>2. CASE \E l \in Listeners : Unsubscribe(l)
    BY <2>0, <2>2, WithoutIsList DEF Unsubscribe, Change, bridgeVars
  <2>3. CASE Clear
    BY <2>0, <2>3 DEF Clear, Change, bridgeVars
  <2>4. CASE BridgeStart
    <3>1. methods' = methods + 1 /\ changes' = changes + 1 /\ changes < MaxChanges
          /\ subscriptions' = Append(subscriptions, methods')
      BY <2>4 DEF BridgeStart, Change
    <3>2. methods' \in Callbacks /\ methods' \in 0..changes' /\ changes' \in 0..MaxChanges
      BY <2>0, <3>1 DEF Callbacks, Methods
    <3>. QED BY <2>0, <3>1, <3>2, AppendProperties
  <2>5. CASE BridgeStop
    BY <2>0, <2>5, WithoutIsList DEF BridgeStop, Change
  <2>. QED BY <2>1, <2>2, <2>3, <2>4, <2>5
<1>3. BusShape'
  BY <1>1, <1>2 DEF BusInv, BusShape
<1>4. \A m, todo, index : Served(m, todo, index) => Served(m, todo, index)'
  BY <1>1, ServedStays
<1>. QED BY <1>1, <1>3, <1>4, WorkStays

\* The list of agents: what was sent to them under an index that still fits.
LEMMA ServedFits ==
  ASSUME BusInv, NEW m \in Messages, NEW todo, NEW index \in Nat \ {0}, Served(m, todo, index),
         UNCHANGED <<snapshot, heard, forwarded>>, steady'[m] \subseteq steady[m],
         remotes' \in Seq(RemoteAgents), m \in shifted => m \in shifted',
         m \notin shifted' => /\ index <= Len(remotes') + 1
                              /\ \A j \in 1..(index - 1) : remotes'[j] = remotes[j]
  PROVE  Served(m, todo, index)'
<1>1. PICK d \in Nat : LeftOf(m, todo, d) /\ Heard(m, d) /\ Sent(m, todo, index, d)
  BY DEF Served
<1>2. LeftOf(m, todo, d)' /\ Heard(m, d)'
  BY <1>1 DEF LeftOf, Heard
<1>3. m \notin shifted' => \A a : Given(a, index)' = Given(a, index)
  BY DEF Given
<1>4. Sent(m, todo, index, d)'
  BY <1>1, <1>3 DEF Sent, SentTo
<1>. QED BY <1>1, <1>2, <1>4 DEF Served

LEMMA AgentsKeep ==
  ASSUME BusInv, NEW a \in RemoteAgents, AddRemote(a) \/ RemoveRemote(a)
  PROVE  BusInv'
<1>. USE PubSubAssumption
<1>0. BusShape /\ Len(remotes) \in Nat /\ DOMAIN remotes = 1..Len(remotes)
  BY LenProperties DEF BusInv, BusShape
<1>1. /\ UNCHANGED <<subscriptions, methods, publishing, snapshot, heard, forwarded>>
      /\ changes < MaxChanges /\ changes' = changes + 1
  BY DEF AddRemote, RemoveRemote, bridgeVars, historyVars, Change
<1>2. /\ remotes' \in Seq(RemoteAgents) /\ DOMAIN remotes' = 1..Len(remotes') /\ Len(remotes') \in Nat
      /\ \A i, j \in 1..Len(remotes') : remotes'[i] = remotes'[j] => i = j
      /\ DOMAIN steady' = Messages
      /\ \A m \in Messages : steady'[m] \subseteq steady[m] /\ steady'[m] \subseteq ToSet(remotes')
      /\ shifted \subseteq shifted'
  <2>1. CASE AddRemote(a)
    <3>1. /\ remotes' = Append(remotes, a) /\ a \notin ToSet(remotes) /\ steady' = steady
          /\ shifted' = shifted
      BY <2>1 DEF AddRemote, historyVars
    <3>2. /\ remotes' \in Seq(RemoteAgents) /\ Len(remotes') = Len(remotes) + 1
          /\ \A i \in 1..Len(remotes) : remotes'[i] = remotes[i]
          /\ remotes'[Len(remotes) + 1] = a
      BY <3>1, AppendProperties DEF BusInv, BusShape
    <3>3. DOMAIN remotes' = 1..Len(remotes') /\ Len(remotes') \in Nat
      BY <3>2, LenProperties
    <3>4. \A i \in 1..Len(remotes) : remotes[i] # a
      BY <1>0, <3>1 DEF ToSet
    <3>5. ASSUME NEW i \in 1..Len(remotes'), NEW j \in 1..Len(remotes'), remotes'[i] = remotes'[j]
          PROVE  i = j
      <4>1. i \in 1..Len(remotes) \/ i = Len(remotes) + 1
        BY <1>0, <3>2
      <4>2. j \in 1..Len(remotes) \/ j = Len(remotes) + 1
        BY <1>0, <3>2
      <4>. QED BY <1>0, <3>2, <3>4, <3>5, <4>1, <4>2 DEF BusShape
    <3>6. ToSet(remotes) \subseteq ToSet(remotes')
      BY <1>0, <3>2, <3>3 DEF ToSet
    <3>. QED BY <1>0, <3>1, <3>2, <3>3, <3>5, <3>6 DEF BusShape
  <2>2. CASE RemoveRemote(a)
    <3>1. /\ remotes' = Without(remotes, a) /\ steady' = [m \in Messages |-> steady[m] \ {a}]
          /\ shifted \subseteq shifted'
      BY <2>2 DEF RemoveRemote
    <3>2. /\ remotes' \in Seq(RemoteAgents)
          /\ \A i, j \in 1..Len(remotes') : remotes'[i] = remotes'[j] => i = j
          /\ ToSet(remotes) \ {a} \subseteq ToSet(remotes')
      BY <3>1, WithoutOne DEF BusInv, BusShape
    <3>3. DOMAIN remotes' = 1..Len(remotes') /\ Len(remotes') \in Nat
      BY <3>2, LenProperties
    <3>. QED BY <1>0, <3>1, <3>2, <3>3 DEF BusShape
  <2>. QED BY <2>1, <2>2
<1>3. BusShape'
  <2>1. changes' \in 0..MaxChanges /\ methods' \in 0..changes'
    BY <1>0, <1>1 DEF BusShape
  <2>. QED BY <1>0, <1>1, <1>2, <2>1 DEF BusShape
<1>4. ASSUME NEW m \in Messages, NEW todo, NEW index \in Nat \ {0}, Served(m, todo, index),
             index = 1 \/ \E t \in Publishers : publishing[t].of = m /\ publishing[t].index = index
      PROVE  Served(m, todo, index)'
  <2>1. m \notin shifted' => /\ index <= Len(remotes') + 1
                             /\ \A j \in 1..(index - 1) : remotes'[j] = remotes[j]
    <3>1. CASE index = 1
      BY <1>2, <3>1
    <3>2. CASE index # 1 /\ AddRemote(a)
      <4>1. remotes' = Append(remotes, a) /\ shifted' = shifted
        BY <3>2 DEF AddRemote, historyVars
      <4>2. /\ Len(remotes') = Len(remotes) + 1
            /\ \A i \in 1..Len(remotes) : remotes'[i] = remotes[i]
        BY <1>0, <4>1, AppendProperties DEF BusShape
      <4>3. m \notin shifted => index <= Len(remotes) + 1
        BY <1>4 DEF Served, Sent
      <4>. QED BY <1>0, <4>1, <4>2, <4>3
    <3>3. CASE index # 1 /\ RemoveRemote(a)
      <4>1. Forwarding(m)
        BY <1>4, <3>3 DEF Forwarding
      <4>. QED BY <3>3, <4>1 DEF RemoveRemote
    <3>. QED BY <3>1, <3>2, <3>3
  <2>. QED BY <1>1, <1>2, <1>4, <2>1, ServedFits
<1>. QED BY <1>1, <1>3, <1>4, WorkStays

LEMMA MessageKeeps == ASSUME BusInv, NEW t \in Publishers, Publish(t) PROVE BusInv'
<1>. USE PubSubAssumption
<1>1. PICK m : m = Len(snapshot) + 1
  OBVIOUS
<1>0. BusShape /\ Len(snapshot) \in Nat /\ m \in Messages /\ publishing[t].of = 0
      /\ subscriptions \in Seq(Callbacks) /\ Len(subscriptions) \in Nat
      /\ publishing[t] = AtEase
  <2>1. BusShape /\ Len(snapshot) < MessageCount /\ publishing[t] = AtEase
    BY DEF BusInv, Publish
  <2>2. Len(snapshot) \in Nat /\ subscriptions \in Seq(Callbacks) /\ Len(subscriptions) \in Nat
    BY <2>1, LenProperties DEF BusShape
  <2>3. m \in Messages
    BY <1>1, <2>1, <2>2 DEF Messages
  <2>4. publishing[t].of = 0
    BY <2>1 DEF AtEase
  <2>. QED BY <2>1, <2>2, <2>3, <2>4
<1>2. /\ snapshot' = Append(snapshot, subscriptions)
      /\ publishing' = [publishing EXCEPT ![t] = [of |-> m, todo |-> subscriptions, index |-> 1]]
      /\ steady' = [steady EXCEPT ![m] = ToSet(remotes)]
      /\ UNCHANGED <<subscriptions, methods, remotes, changes, heard, forwarded, shifted>>
  BY <1>1 DEF Publish, bridgeVars
<1>3. /\ snapshot' \in Seq(Seq(Callbacks)) /\ Len(snapshot') = m /\ snapshot'[m] = subscriptions
      /\ \A n \in Messages : n <= Len(snapshot) => snapshot'[n] = snapshot[n]
  BY <1>0, <1>1, <1>2, AppendProperties DEF BusShape, Messages
<1>4. BusShape'
  <2>1. [of |-> m, todo |-> subscriptions, index |-> 1] \in Tasks
    BY <1>0 DEF Tasks, Messages
  <2>2. publishing' \in [Publishers -> Tasks]
    BY <1>0, <1>2, <2>1 DEF BusShape
  <2>3. DOMAIN steady' = Messages /\ \A n \in Messages : steady'[n] \subseteq ToSet(remotes)
    BY <1>0, <1>2 DEF BusShape
  <2>4. m <= MessageCount
    BY <1>0 DEF Messages
  <2>. QED BY <1>0, <1>2, <1>3, <2>2, <2>3, <2>4 DEF BusShape
<1>5. ASSUME NEW n \in Messages, n <= Len(snapshot), NEW todo, NEW index, Served(n, todo, index)
      PROVE  Served(n, todo, index)'
  <2>1. steady'[n] = steady[n]
    BY <1>0, <1>1, <1>2, <1>5 DEF BusShape
  <2>. QED BY <1>2, <1>3, <1>5, <2>1, ServedStays
<1>6. Served(m, subscriptions, 1)'
  <2>0. subscriptions' = subscriptions /\ m' = m
    BY <1>2
  <2>1. PICK w : w = subscriptions
    OBVIOUS
  <2>2. LeftOf(m, w, 0)'
    BY <1>0, <1>3, <2>1 DEF LeftOf
  <2>3. Unheard(m) /\ m > Len(snapshot)
    BY <1>0, <1>1 DEF BusInv
  <2>4. Heard(m, 0)'
    BY <1>2, <2>3, CalledNone DEF Heard, Unheard
  <2>5. Sent(m, w, 1, 0)'
    <3>1. \A a : Given(a, 1)' = 0
      BY DEF Given
    <3>2. Called(snapshot'[m], Methods, 0) = 0
      BY CalledNone
    <3>3. \A a \in RemoteAgents : SentTo(m, a, 0)'
      BY <1>2, <2>3 DEF SentTo, Unheard
    <3>4. 1 <= Len(remotes) + 1
      BY <1>0, LenProperties DEF BusShape
    <3>5. ASSUME NEW a \in RemoteAgents
          PROVE  SentTo(m, a, Called(snapshot[m], Methods, 0) + Given(a, 1))'
      <4>1. (Called(snapshot[m], Methods, 0) + Given(a, 1))' = 0
        BY <3>1, <3>2
      <4>. QED BY <3>3, <4>1
    <3>6. remotes' = remotes
      BY <1>2
    <3>. QED BY <3>4, <3>5, <3>6 DEF Sent
  <2>6. Served(m, w, 1)'
    BY <2>2, <2>4, <2>5 DEF Served
  <2>. QED BY <2>0, <2>1, <2>6
<1>7. ASSUME NEW u \in Publishers PROVE (AtWork(u) /\ AloneWith(u))'
  <2>0. AtWork(u) /\ AloneWith(u)
    BY DEF BusInv
  <2>1. \A v \in Publishers : publishing[v].of # m
    <3>1. \A v \in Publishers : publishing[v].of # 0 => publishing[v].of <= Len(snapshot)
      BY DEF BusInv, AtWork
    <3>. QED BY <1>0, <1>1, <3>1 DEF Messages
  <2>2. publishing'[t] = [of |-> m, todo |-> subscriptions, index |-> 1]
        /\ \A v \in Publishers \ {t} : publishing'[v] = publishing[v]
    BY <1>0, <1>2 DEF BusShape
  <2>3. m # 0 /\ m <= Len(snapshot')
    BY <1>0, <1>3 DEF Messages
  <2>4. AloneWith(u)'
    BY <1>0, <2>0, <2>1, <2>2 DEF AloneWith
  <2>5. CASE u = t
    BY <1>2, <1>6, <2>2, <2>3, <2>4, <2>5 DEF AtWork
  <2>6. CASE u # t
    <3>1. PICK n, todo, index : n = publishing[u].of /\ todo = publishing[u].todo
                                /\ index = publishing[u].index
      OBVIOUS
    <3>2. n # 0 => n \in Messages /\ n <= Len(snapshot)
      BY <1>0, <2>0, <3>1 DEF AtWork, BusShape, Tasks, Messages
    <3>3. n # 0 => Served(n, todo, index)' /\ n <= Len(snapshot')
      BY <1>0, <1>1, <1>3, <1>5, <2>0, <3>1, <3>2 DEF AtWork, Messages
    <3>. QED BY <2>0, <2>2, <2>4, <2>6, <3>1, <3>3 DEF AtWork
  <2>. QED BY <2>5, <2>6
<1>8. ASSUME NEW n \in Messages PROVE ((Over(n) => Served(n, <<>>, 1)) /\ Unheard(n))'
  <2>1. (Over(n) => Served(n, <<>>, 1)) /\ Unheard(n)
    BY DEF BusInv
  <2>2. publishing'[t].of = m /\ \A v \in Publishers \ {t} : publishing'[v] = publishing[v]
    BY <1>0, <1>2 DEF BusShape
  <2>3. ASSUME Over(n)' PROVE n <= Len(snapshot) /\ Over(n)
    <3>1. n # m /\ n <= Len(snapshot') /\ \A v \in Publishers : publishing'[v].of # n
      BY <2>2, <2>3 DEF Over
    <3>2. \A v \in Publishers : publishing[v].of # n
      BY <1>0, <2>2, <3>1 DEF Messages
    <3>. QED BY <1>0, <1>1, <1>3, <3>1, <3>2 DEF Over, Messages
  <2>4. Unheard(n)'
    BY <1>0, <1>1, <1>2, <1>3, <2>1 DEF Unheard, Messages
  <2>. QED BY <1>5, <2>1, <2>3, <2>4
<1>. QED BY <1>4, <1>7, <1>8 DEF BusInv

\* A step of one that publishes: what it has left, and at which index.
LEMMA WorkKeeps ==
  ASSUME BusInv, BusShape', NEW t \in Publishers,
         NEW m \in Messages, m = publishing[t].of, NEW left, NEW index,
         publishing' = [publishing EXCEPT ![t] =
                          IF left = <<>> THEN AtEase
                          ELSE [of |-> m, todo |-> left, index |-> index]],
         left = <<>> => index = 1,
         UNCHANGED <<remotes, snapshot, steady, shifted>>,
         \A n \in Messages \ {m} : heard'[n] = heard[n] /\ forwarded'[n] = forwarded[n],
         Served(m, left, index)'
  PROVE  BusInv'
<1>0. BusShape /\ m # 0 /\ m <= Len(snapshot)
  BY DEF BusInv, AtWork, Messages
<1>1. \A v \in Publishers \ {t} : publishing'[v] = publishing[v] /\ publishing[v].of # m
  BY <1>0 DEF BusShape, BusInv, AloneWith
<1>2. publishing'[t] = IF left = <<>> THEN AtEase ELSE [of |-> m, todo |-> left, index |-> index]
  BY <1>0 DEF BusShape
<1>3. ASSUME NEW n \in Messages \ {m}, NEW todo, NEW x, Served(n, todo, x)
      PROVE  Served(n, todo, x)'
  BY <1>3, ServedStays
<1>4. ASSUME NEW u \in Publishers PROVE (AtWork(u) /\ AloneWith(u))'
  <2>0. AtWork(u) /\ AloneWith(u)
    BY DEF BusInv
  <2>1. publishing'[t].of \in {0, m}
    BY <1>2 DEF AtEase
  <2>2. AloneWith(u)'
    BY <1>1, <2>0, <2>1 DEF AloneWith
  <2>3. CASE u = t
    <3>1. CASE left = <<>>
      BY <1>2, <2>2, <2>3, <3>1 DEF AtWork, AtEase
    <3>2. CASE left # <<>>
      BY <1>0, <1>2, <2>2, <2>3, <3>2 DEF AtWork
    <3>. QED BY <3>1, <3>2
  <2>4. CASE u # t
    <3>1. PICK n, todo, x : n = publishing[u].of /\ todo = publishing[u].todo
                            /\ x = publishing[u].index
      OBVIOUS
    <3>2. n # 0 => n \in Messages \ {m}
      BY <1>0, <1>1, <2>4, <3>1, PubSubAssumption DEF BusShape, Tasks, Messages
    <3>3. n # 0 => Served(n, todo, x)' /\ n <= Len(snapshot')
      BY <1>3, <2>0, <3>1, <3>2 DEF AtWork
    <3>. QED BY <1>1, <2>0, <2>2, <2>4, <3>1, <3>3 DEF AtWork
  <2>. QED BY <2>3, <2>4
<1>5. ASSUME NEW n \in Messages PROVE ((Over(n) => Served(n, <<>>, 1)) /\ Unheard(n))'
  <2>0. (Over(n) => Served(n, <<>>, 1)) /\ Unheard(n)
    BY DEF BusInv
  <2>1. CASE n = m
    <3>1. Unheard(n)'
      BY <1>0, <2>1, PubSubAssumption, LenProperties DEF Unheard, BusShape, Messages
    <3>2. Over(n)' => left = <<>> /\ index = 1
      BY <1>2, <2>1 DEF Over
    <3>3. CASE left = <<>> /\ index = 1
      BY <2>1, <3>1, <3>3
    <3>. QED BY <3>1, <3>2, <3>3
  <2>2. CASE n # m
    <3>1. Over(n)' => Over(n)
      BY <1>1, <2>2 DEF Over
    <3>2. Unheard(n)'
      BY <2>0, <2>2 DEF Unheard
    <3>. QED BY <1>3, <2>0, <2>2, <3>1, <3>2
  <2>. QED BY <2>1, <2>2
<1>. QED BY <1>4, <1>5 DEF BusInv

LEMMA WhoWorks ==
  ASSUME BusInv, NEW t \in Publishers, publishing[t] # AtEase
  PROVE  /\ publishing[t] \in Tasks /\ publishing[t].of \in Messages
         /\ publishing[t].of <= Len(snapshot)
         /\ Served(publishing[t].of, publishing[t].todo, publishing[t].index)
<1>1. publishing[t] \in Tasks
  BY DEF BusInv, BusShape
<1>2. publishing[t].of # 0
  BY DEF BusInv, AtWork
<1>. QED BY <1>1, <1>2, PubSubAssumption DEF BusInv, AtWork, Tasks, Messages

LEMMA AdvanceIs ==
  ASSUME BusInv, NEW t \in Publishers, publishing[t] # AtEase, NEW left, Advance(t, left)
  PROVE  publishing' = [publishing EXCEPT ![t] =
                          IF left = <<>> THEN AtEase
                          ELSE [of |-> publishing[t].of, todo |-> left, index |-> 1]]
<1>. DEFINE w == publishing[t]
            x == [w EXCEPT !.todo = left]
            y == [w EXCEPT !.todo = left, !.index = 1]
<1>1. publishing' = [publishing EXCEPT ![t] = IF left = <<>> THEN AtEase ELSE y]
  BY DEF Advance
<1>2. w \in Tasks
  BY WhoWorks
<1>3. y = [x EXCEPT !.index = 1]
  OBVIOUS
<1>. HIDE DEF w, y
<1>4. x = [of |-> w.of, todo |-> left, index |-> w.index]
  BY <1>2 DEF Tasks
<1>. HIDE DEF x
<1>5. y = [of |-> w.of, todo |-> left, index |-> 1]
  BY <1>3, <1>4
<1>. QED BY <1>1, <1>5 DEF w

\* One callback is over.
LEMMA ServedNext ==
  ASSUME BusInv, NEW m \in Messages, m <= Len(snapshot),
         NEW todo \in Seq(Callbacks), todo # <<>>, NEW index \in Nat \ {0}, Served(m, todo, index),
         UNCHANGED <<remotes, snapshot, steady, shifted>>,
         \A l \in Listeners : heard'[m][l] = heard[m][l] + IF l = Head(todo) THEN 1 ELSE 0,
         forwarded'[m] = forwarded[m], Head(todo) \in Methods => index > Len(remotes)
  PROVE  Served(m, Tail(todo), 1)'
<1>. DEFINE s == snapshot[m]
<1>1. PICK d \in Nat : LeftOf(m, todo, d) /\ Heard(m, d) /\ Sent(m, todo, index, d)
  BY DEF Served
<1>2. s \in Seq(Callbacks) /\ Len(s) \in Nat /\ remotes \in Seq(RemoteAgents) /\ Len(remotes) \in Nat
      /\ DOMAIN remotes = 1..Len(remotes)
  BY Found, LenProperties DEF BusInv, BusShape
<1>3. /\ Len(todo) \in Nat \ {0} /\ Head(todo) = todo[1] /\ Len(Tail(todo)) = Len(todo) - 1
      /\ \A i \in 1..Len(Tail(todo)) : Tail(todo)[i] = todo[i + 1]
  BY EmptySeq, HeadTailProperties
<1>4. PICK left : left = Tail(todo)
  OBVIOUS
<1>5. d + 1 \in Nat /\ s[d + 1] = Head(todo) /\ LeftOf(m, left, d + 1)'
  <2>1. d \in 0..Len(s) /\ Len(todo) = Len(s) - d /\ \A i \in 1..Len(todo) : todo[i] = s[d + i]
    BY <1>1 DEF LeftOf
  <2>2. d + 1 \in 0..Len(s) /\ Len(left) = Len(s) - (d + 1)
    BY <1>2, <1>3, <1>4, <2>1
  <2>3. ASSUME NEW i \in 1..Len(left) PROVE left[i] = s[(d + 1) + i]
    <3>1. i + 1 \in 1..Len(todo) /\ d + (i + 1) = (d + 1) + i
      BY <1>3, <1>4
    <3>. QED BY <1>3, <1>4, <2>1, <3>1
  <2>4. s[d + 1] = Head(todo)
    <3>1. 1 \in 1..Len(todo)
      BY <1>3
    <3>. QED BY <1>3, <2>1, <3>1
  <2>. QED BY <2>2, <2>3, <2>4 DEF LeftOf
<1>6. Heard(m, d + 1)'
  <2>. SUFFICES ASSUME NEW l \in Listeners
                PROVE  heard'[m][l] = Called(snapshot'[m], {l}, d + 1)
    BY DEF Heard
  <2>1. heard[m][l] = Called(s, {l}, d)
    BY <1>1 DEF Heard
  <2>2. Called(s, {l}, d + 1) = Called(s, {l}, d) + IF s[d + 1] \in {l} THEN 1 ELSE 0
    BY CalledNext
  <2>. QED BY <1>5, <2>1, <2>2
<1>7. Sent(m, left, 1, d + 1)'
  <2>. SUFFICES ASSUME m \notin shifted, NEW a \in RemoteAgents
                PROVE  SentTo(m, a, Called(snapshot[m], Methods, d + 1) + Given(a, 1))'
    BY <1>2 DEF Sent
  <2>1. SentTo(m, a, Called(s, Methods, d) + Given(a, index)) /\ (index > 1 => Head(todo) \in Methods)
    BY <1>1 DEF Sent
  <2>2. Given(a, 1)' = 0 /\ Given(a, index) \in {0, 1} /\ (index = 1 => Given(a, index) = 0)
    BY DEF Given
  <2>3. Called(s, Methods, d + 1) = Called(s, Methods, d) + IF Head(todo) \in Methods THEN 1 ELSE 0
    BY <1>5, CalledNext
  <2>4. Called(s, Methods, d) \in Nat /\ Called(s, Methods, d + 1) \in Nat /\ forwarded[m][a] \in Nat
    BY <1>5, CalledIsFinite DEF BusInv, BusShape
  <2>5. (Called(snapshot[m], Methods, d + 1) + Given(a, 1))' = Called(s, Methods, d + 1)
    BY <2>2, <2>4
  <2>6. CASE Head(todo) \in Methods
    <3>1. a \in steady[m] => Given(a, index) = 1
      <4>. SUFFICES ASSUME a \in steady[m] PROVE Given(a, index) = 1
        OBVIOUS
      <4>1. PICK j \in 1..Len(remotes) : remotes[j] = a
        BY <1>2 DEF BusInv, BusShape, ToSet
      <4>2. j \in 1..(index - 1)
        BY <1>2, <2>6
      <4>. QED BY <4>1, <4>2 DEF Given
    <3>2. SentTo(m, a, Called(s, Methods, d + 1))
      BY <2>1, <2>2, <2>3, <2>4, <2>6, <3>1 DEF SentTo
    <3>. QED BY <2>5, <3>2 DEF SentTo
  <2>7. CASE Head(todo) \notin Methods
    <3>1. SentTo(m, a, Called(s, Methods, d + 1))
      BY <2>1, <2>2, <2>3, <2>4, <2>7 DEF SentTo
    <3>. QED BY <2>5, <3>1 DEF SentTo
  <2>. QED BY <2>6, <2>7
<1>8. Served(m, left, 1)'
  BY <1>5, <1>6, <1>7 DEF Served
<1>. QED BY <1>4, <1>8

\* A listener was called, or the bridge has come to the end of its agents.
LEMMA CallbackKeeps ==
  ASSUME BusInv, NEW t \in Publishers,
         (\E raised \in BOOLEAN : CallListener(t, raised)) \/ EndForward(t)
  PROVE  BusInv'
<1>. DEFINE w == publishing[t]
<1>0. BusShape /\ w.todo # <<>> /\ w # AtEase
  BY DEF CallListener, EndForward, AtEase, BusInv
<1>1. /\ w \in Tasks /\ w.of \in Messages /\ w.of <= Len(snapshot)
      /\ Served(w.of, w.todo, w.index) /\ w.of # 0
  BY <1>0, WhoWorks DEF Messages
<1>2. PICK m \in Messages, todo \in Seq(Callbacks), index \in Nat \ {0} :
        m = w.of /\ todo = w.todo /\ index = w.index
  BY <1>1 DEF Tasks
<1>3. PICK left : left = Tail(todo)
  OBVIOUS
<1>4. left \in Seq(Callbacks)
  BY <1>0, <1>2, <1>3, HeadTailProperties
<1>5. Advance(t, left) /\ UNCHANGED <<subscriptions, methods, remotes, snapshot, changes, steady, shifted>>
      /\ forwarded' = forwarded
  BY <1>2, <1>3 DEF CallListener, EndForward, AfterCallback, bridgeVars, historyVars
<1>6. publishing' = [publishing EXCEPT ![t] =
                       IF left = <<>> THEN AtEase ELSE [of |-> m, todo |-> left, index |-> 1]]
  BY <1>0, <1>2, <1>5, AdvanceIs
<1>7. /\ heard' \in [Messages -> [Listeners -> Nat]]
      /\ \A n \in Messages \ {m} : heard'[n] = heard[n]
      /\ \A l \in Listeners : heard'[m][l] = heard[m][l] + IF l = Head(todo) THEN 1 ELSE 0
      /\ Head(todo) \in Methods => index > Len(remotes)
  <2>0. heard \in [Messages -> [Listeners -> Nat]] /\ heard[m] \in [Listeners -> Nat]
    BY <1>0 DEF BusShape
  <2>1. CASE \E raised \in BOOLEAN : CallListener(t, raised)
    <3>1. PICK l \in Listeners : l = Head(todo) /\ heard' = [heard EXCEPT ![m][l] = heard[m][l] + 1]
      BY <1>2, <2>1 DEF CallListener
    <3>2. Head(todo) \notin Methods
      BY <3>1, PubSubAssumption
    <3>3. heard'[m] = [heard[m] EXCEPT ![l] = heard[m][l] + 1]
          /\ \A n \in Messages \ {m} : heard'[n] = heard[n]
      BY <2>0, <3>1
    <3>4. heard'[m] \in [Listeners -> Nat] /\ DOMAIN heard' = Messages
      BY <2>0, <3>1, <3>3
    <3>5. heard' \in [Messages -> [Listeners -> Nat]]
      BY <2>0, <3>1
    <3>. QED BY <2>0, <3>1, <3>2, <3>3, <3>5
  <2>2. CASE EndForward(t)
    <3>1. Head(todo) \in Methods /\ index > Len(remotes) /\ heard' = heard
      BY <1>2, <2>2 DEF EndForward, historyVars
    <3>2. Head(todo) \notin Listeners
      BY <3>1, PubSubAssumption
    <3>. QED BY <2>0, <3>1, <3>2
  <2>. QED BY <2>1, <2>2
<1>8. BusShape'
  <2>1. AtEase \in Tasks /\ [of |-> m, todo |-> left, index |-> 1] \in Tasks
    BY <1>4, EmptySeq, PubSubAssumption DEF AtEase, Tasks, Messages
  <2>2. publishing' \in [Publishers -> Tasks]
    BY <1>0, <1>6, <2>1 DEF BusShape
  <2>. QED BY <1>0, <1>5, <1>7, <2>2 DEF BusShape
<1>9. Served(m, left, 1)'
  <2>1. Served(m, todo, index) /\ m <= Len(snapshot) /\ todo # <<>> /\ forwarded'[m] = forwarded[m]
    BY <1>0, <1>1, <1>2, <1>5
  <2>. QED BY <1>3, <1>5, <1>7, <2>1, ServedNext
<1>10. \A n \in Messages \ {m} : heard'[n] = heard[n] /\ forwarded'[n] = forwarded[n]
  BY <1>5, <1>7
<1>. QED BY <1>2, <1>5, <1>6, <1>8, <1>9, <1>10, WorkKeeps

LEMMA NothingKeeps == ASSUME BusInv, NEW t \in Publishers, NothingToCall(t) PROVE BusInv'
<1>1. publishing[t] # AtEase /\ publishing[t].todo = <<>> /\ Advance(t, <<>>)
      /\ UNCHANGED <<subscriptions, methods, remotes, snapshot, changes, heard, forwarded, steady, shifted>>
  BY DEF NothingToCall, bridgeVars, historyVars
<1>2. /\ publishing[t] \in Tasks /\ publishing[t].of \in Messages
      /\ Served(publishing[t].of, publishing[t].todo, publishing[t].index)
  BY <1>1, WhoWorks
<1>3. PICK m \in Messages, todo \in {<<>>}, index \in Nat \ {0} :
        m = publishing[t].of /\ index = publishing[t].index
  BY <1>2 DEF Tasks
<1>4. publishing' = [publishing EXCEPT ![t] = AtEase]
  BY <1>1, AdvanceIs
<1>5. BusShape'
  <2>1. AtEase \in Tasks
    BY EmptySeq, PubSubAssumption DEF AtEase, Tasks
  <2>. QED BY <1>1, <1>4, <2>1 DEF BusInv, BusShape
<1>6. Served(m, todo, 1)
  <2>1. Served(m, todo, index)
    BY <1>1, <1>2, <1>3
  <2>2. PICK d \in Nat : LeftOf(m, todo, d) /\ Heard(m, d) /\ Sent(m, todo, index, d)
    BY <2>1 DEF Served
  <2>3. Sent(m, todo, 1, d)
    <3>1. m \notin shifted => index = 1
      BY <1>3, <2>2 DEF Sent
    <3>. QED BY <2>2, <3>1 DEF Sent
  <2>. QED BY <2>2, <2>3 DEF Served
<1>7. Served(m, todo, 1)'
  BY <1>1, <1>6, ServedStays
<1>. QED BY <1>1, <1>3, <1>4, <1>5, <1>7, WorkKeeps

\* The next agent on the list.
LEMMA ForwardKeeps == ASSUME BusInv, NEW t \in Publishers, ForwardNext(t) PROVE BusInv'
<1>. DEFINE w == publishing[t]
<1>0. BusShape /\ w.todo # <<>> /\ w # AtEase
  BY DEF ForwardNext, AtEase, BusInv
<1>1. w \in Tasks /\ w.of \in Messages /\ w.of <= Len(snapshot) /\ Served(w.of, w.todo, w.index)
  BY <1>0, WhoWorks
<1>2. PICK m \in Messages, todo \in Seq(Callbacks), index \in Nat \ {0} :
        m = w.of /\ todo = w.todo /\ index = w.index
  BY <1>1 DEF Tasks
<1>3. remotes \in Seq(RemoteAgents) /\ Len(remotes) \in Nat
      /\ \A i, j \in 1..Len(remotes) : remotes[i] = remotes[j] => i = j
  BY <1>0, LenProperties DEF BusShape
<1>4. /\ Head(todo) \in Methods /\ index <= Len(remotes) /\ todo # <<>>
      /\ forwarded' = [forwarded EXCEPT ![m][remotes[index]] = @ + 1]
      /\ publishing' = [publishing EXCEPT ![t].index = @ + 1]
      /\ UNCHANGED <<subscriptions, methods, remotes, snapshot, changes, heard, steady, shifted>>
  BY <1>2 DEF ForwardNext, bridgeVars
<1>5. PICK b \in RemoteAgents : b = remotes[index] /\ index \in 1..Len(remotes)
  BY <1>3, <1>4, ElementOfSeq
<1>6. /\ forwarded' \in [Messages -> [RemoteAgents -> Nat]]
      /\ \A n \in Messages \ {m} : forwarded'[n] = forwarded[n]
      /\ \A a \in RemoteAgents : forwarded'[m][a] = forwarded[m][a] + IF a = b THEN 1 ELSE 0
  <2>0. forwarded \in [Messages -> [RemoteAgents -> Nat]] /\ forwarded[m] \in [RemoteAgents -> Nat]
    BY <1>0 DEF BusShape
  <2>1. forwarded' = [forwarded EXCEPT ![m][b] = forwarded[m][b] + 1]
    BY <1>4, <1>5
  <2>2. forwarded'[m] = [forwarded[m] EXCEPT ![b] = forwarded[m][b] + 1]
        /\ \A n \in Messages \ {m} : forwarded'[n] = forwarded[n]
    BY <2>0, <2>1
  <2>3. forwarded' \in [Messages -> [RemoteAgents -> Nat]]
    BY <2>0, <2>1
  <2>. QED BY <2>0, <2>2, <2>3
<1>7. publishing' = [publishing EXCEPT ![t] = [of |-> m, todo |-> todo, index |-> index + 1]]
  <2>1. [w EXCEPT !.index = w.index + 1] = [of |-> m, todo |-> todo, index |-> index + 1]
    <3>1. w = [of |-> m, todo |-> todo, index |-> index]
      BY <1>1, <1>2 DEF Tasks
    <3>. HIDE DEF w
    <3>. QED BY <3>1
  <2>2. publishing' = [publishing EXCEPT ![t] = [w EXCEPT !.index = w.index + 1]]
    BY <1>4
  <2>. HIDE DEF w
  <2>. QED BY <2>1, <2>2
<1>8. BusShape'
  <2>1. [of |-> m, todo |-> todo, index |-> index + 1] \in Tasks
    BY PubSubAssumption DEF Tasks, Messages
  <2>2. publishing' \in [Publishers -> Tasks]
    BY <1>0, <1>7, <2>1 DEF BusShape
  <2>. QED BY <1>0, <1>4, <1>6, <2>2 DEF BusShape
<1>9. Served(m, todo, index + 1)'
  <2>1. Served(m, todo, index)
    BY <1>1, <1>2
  <2>2. PICK d \in Nat : LeftOf(m, todo, d) /\ Heard(m, d) /\ Sent(m, todo, index, d)
    BY <2>1 DEF Served
  <2>3. LeftOf(m, todo, d)' /\ Heard(m, d)'
    BY <1>4, <2>2 DEF LeftOf, Heard
  <2>4. Sent(m, todo, index + 1, d)'
    <3>. SUFFICES ASSUME m \notin shifted PROVE Sent(m, todo, index + 1, d)'
      BY <1>4 DEF Sent
    <3>a. remotes' = remotes /\ index + 1 <= Len(remotes) + 1 /\ todo # <<>> /\ Head(todo) \in Methods
      BY <1>3, <1>4
    <3>b. index + 1 <= Len(remotes') + 1
      BY <3>a
    <3>c. todo # <<>> /\ Head(todo) \in Methods
      BY <3>a
    <3>d. index + 1 > 1 => todo # <<>> /\ Head(todo) \in Methods
      BY <3>c
    <3>. SUFFICES ASSUME NEW a \in RemoteAgents
                  PROVE  SentTo(m, a, Called(snapshot[m], Methods, d) + Given(a, index + 1))'
      BY <3>b, <3>d DEF Sent
    <3>1. SentTo(m, a, Called(snapshot[m], Methods, d) + Given(a, index))
      BY <2>2 DEF Sent
    <3>2. Called(snapshot[m], Methods, d) \in Nat /\ forwarded[m][a] \in Nat
          /\ Given(a, index) \in {0, 1} /\ Given(a, index + 1) \in {0, 1}
      <4>1. Called(snapshot[m], Methods, d) \in Nat
        BY CalledIsFinite
      <4>2. forwarded[m][a] \in Nat
        BY <1>0 DEF BusShape
      <4>. QED BY <4>1, <4>2 DEF Given
    <3>3. Given(a, index + 1) = Given(a, index) + IF a = b THEN 1 ELSE 0
      <4>1. 1..((index + 1) - 1) = 1..(index - 1) \cup {index}
        OBVIOUS
      <4>2. \A j \in 1..(index - 1) : remotes[j] # b
        BY <1>3, <1>5
      <4>. QED BY <1>5, <4>1, <4>2 DEF Given
    <3>4. (Called(snapshot[m], Methods, d) + Given(a, index + 1))'
             = Called(snapshot[m], Methods, d) + Given(a, index + 1)
      BY <1>4 DEF Given
    <3>5. SentTo(m, a, Called(snapshot[m], Methods, d) + Given(a, index + 1))'
      BY <1>4, <1>6, <3>1, <3>2, <3>3, <3>4 DEF SentTo
    <3>. QED BY <3>5
  <2>. QED BY <2>2, <2>3, <2>4 DEF Served
<1>10. \A n \in Messages \ {m} : heard'[n] = heard[n] /\ forwarded'[n] = forwarded[n]
  BY <1>4, <1>6
<1>11. publishing' = [publishing EXCEPT ![t] =
                        IF todo = <<>> THEN AtEase ELSE [of |-> m, todo |-> todo, index |-> index + 1]]
  BY <1>4, <1>7
<1>12. m = publishing[t].of /\ (todo = <<>> => index + 1 = 1)
  BY <1>2, <1>4
<1>. QED BY <1>4, <1>8, <1>9, <1>10, <1>11, <1>12, WorkKeeps

LEMMA BusStep == BusInv /\ [PubSubNext]_pubsubVars => BusInv'
<1>. SUFFICES ASSUME BusInv, [PubSubNext]_pubsubVars PROVE BusInv'
  OBVIOUS
<1>1. CASE UNCHANGED pubsubVars
  <2>1. UNCHANGED <<subscriptions, methods, changes, remotes, publishing, snapshot, heard, forwarded,
                    steady, shifted>>
    BY <1>1 DEF pubsubVars, bridgeVars, historyVars
  <2>2. BusShape'
    BY <2>1 DEF BusInv, BusShape
  <2>3. \A m, todo, index : Served(m, todo, index) => Served(m, todo, index)'
    BY <2>1, ServedStays
  <2>. QED BY <2>1, <2>2, <2>3, WorkStays
<1>2. CASE PubSubNext
  BY <1>2, BusListsKeep, AgentsKeep, MessageKeeps, CallbackKeeps, NothingKeeps, ForwardKeeps
     DEF PubSubNext
<1>. QED BY <1>1, <1>2

-------------------------------------------------------------------------------
(* Letters.  Each stage says what the payload is by then, and only a       *)
(* letter that was handed on has an ACK with the key of the peer.          *)

Payloads == [sealed : {"no", "pgp", "hybrid"}, gen : Nat, zipped : BOOLEAN,
             encrypted : BOOLEAN, compressed : BOOLEAN]
KeysAreReal ==
  /\ keyFile \in Nat /\ peerKey \in Nat \ {0} /\ {prekey, bundle, known} \subseteq Nat
  /\ loaded = "yes" /\ linked => known # 0
LetterStages == {"unsent", "composed", "loading", "sent", "handed", "refused", "lost"}
Shaped ==
  /\ loaded \in {"no", "loading", "yes"}
  /\ stage \in [Letters -> LetterStages] /\ payload \in [Letters -> Payloads]
  /\ byName \in [Letters -> BOOLEAN] /\ DOMAIN inClear = Letters
  /\ keysHeld \in [Letters -> Nat \X Nat]
  /\ reply \in [Letters -> {"none", "out", "loading", "confirmed", "rejected"}]
  /\ signer \in [Letters -> Nat]
Unsealed(m) == stage[m] \notin {"sent", "handed"} =>
  payload[m].sealed = "no" /\ ~payload[m].encrypted /\ payload[m].zipped = payload[m].compressed
SentWell(m) == stage[m] = "sent" =>
  /\ payload[m].encrypted <=> payload[m].sealed # "no"
  /\ payload[m].zipped = payload[m].compressed
  /\ payload[m].sealed = "no" => inClear[m] # "no"
HandedWell(m) == stage[m] = "handed" =>
  /\ IF payload[m].encrypted THEN payload[m].sealed # "no"
     ELSE payload[m].sealed = "no" /\ ~payload[m].zipped
  /\ keysHeld[m][1] = keysHeld[m][2] => ~payload[m].encrypted
Signed(m) == /\ signer[m] # 0 => stage[m] = "handed"
             /\ reply[m] = "confirmed" => stage[m] = "handed"
Lettered == \A m \in Letters : Unsealed(m) /\ SentWell(m) /\ HandedWell(m) /\ Signed(m)
SealingInv == KeysAreReal /\ Shaped /\ Lettered

LEMMA SealingBegins == SealingInit => SealingInv
<1>. SUFFICES ASSUME SealingInit PROVE SealingInv
  OBVIOUS
<1>1. Plain \in Payloads /\ Plain.sealed = "no" /\ ~Plain.encrypted /\ Plain.zipped = Plain.compressed
  BY DEF Plain, Payloads
<1>. HIDE DEF Plain
<1>2. KeysAreReal
  <2>1. prekey \in Nat /\ bundle \in Nat
    BY DEF SealingInit
  <2>. QED BY <2>1 DEF SealingInit, KeysAreReal
<1>3. Shaped
  BY <1>1 DEF SealingInit, Shaped, LetterStages
<1>4. Lettered
  BY <1>1 DEF SealingInit, Lettered, Unsealed, SentWell, HandedWell, Signed
<1>. QED BY <1>2, <1>3, <1>4 DEF SealingInv

LEMMA SealingHolds == SealingInv => SealingKeeps
BY DEF SealingInv, Lettered, SentWell, HandedWell, Signed, SealingKeeps, ClearForAReason,
       MarkedOrWhole, CurrentKeyOpens, ConfirmedByThePeer

\* What leaves the letters alone but for the process they are in.
LEMMA LettersStay ==
  ASSUME SealingInv, UNCHANGED <<payload, byName, inClear, signer, keysHeld>>,
         stage' \in [Letters -> LetterStages],
         reply' \in [Letters -> {"none", "out", "loading", "confirmed", "rejected"}],
         \A m \in Letters :
           /\ stage[m] \in {"sent", "handed"} => stage'[m] = stage[m]
           /\ stage'[m] \in {"sent", "handed"} => stage'[m] = stage[m]
           /\ reply'[m] = "confirmed" => reply[m] = "confirmed" \/ stage[m] = "handed",
         loaded' \in {"no", "loading", "yes"}, KeysAreReal'
  PROVE  SealingInv'
<1>. USE DEF SealingInv
<1>1. Shaped'
  BY DEF Shaped
<1>2. ASSUME NEW m \in Letters PROVE (Unsealed(m) /\ SentWell(m) /\ HandedWell(m) /\ Signed(m))'
  BY DEF Lettered, Unsealed, SentWell, HandedWell, Signed
<1>3. Lettered'
  BY <1>2 DEF Lettered
<1>. QED BY <1>1, <1>3

LEMMA PeerKeeps ==
  ASSUME SealingInv, LinkKey \/ AddOpen \/ AddFlush \/ RotateKey \/ RotatePrekey \/ FetchBundle
  PROVE  SealingInv'
<1>1. UNCHANGED <<loaded, stage, reply, payload, byName, inClear, signer, keysHeld>>
  BY DEF LinkKey, AddOpen, AddFlush, RotateKey, RotatePrekey, FetchBundle, storeVars,
         letterVars, replyVars
<1>2. KeysAreReal'
  <2>1. UNCHANGED <<loaded, linked, known>>
    BY DEF LinkKey, AddOpen, AddFlush, RotateKey, RotatePrekey, FetchBundle, storeVars
  <2>2. keyFile' \in {keyFile, peerKey, 0} /\ peerKey' \in {peerKey, peerKey + 1}
        /\ prekey' \in {prekey, prekey + 1} /\ bundle' \in {bundle, prekey, 0}
    <3>1. CASE LinkKey
      BY <3>1 DEF LinkKey, peerVars
    <3>2. CASE AddOpen \/ AddFlush
      BY <3>2 DEF AddOpen, AddFlush, peerVars
    <3>3. CASE RotateKey \/ RotatePrekey \/ FetchBundle
      BY <3>3 DEF RotateKey, RotatePrekey, FetchBundle, recordVars
    <3>. QED BY <3>1, <3>2, <3>3
  <2>3. /\ keyFile' \in Nat /\ peerKey' \in Nat \ {0}
        /\ {prekey', bundle', known'} \subseteq Nat
    <3>1. \A n \in Nat : n + 1 \in Nat \ {0}
      OBVIOUS
    <3>2. known' = known
      BY <2>1
    <3>3. /\ keyFile \in Nat /\ peerKey \in Nat \ {0} /\ prekey \in Nat
          /\ bundle \in Nat /\ known \in Nat
      BY DEF SealingInv, KeysAreReal
    <3>. QED BY <2>2, <3>1, <3>2, <3>3
  <2>. QED BY <2>1, <2>3 DEF SealingInv, KeysAreReal
<1>. QED BY <1>1, <1>2, LettersStay DEF SealingInv, Shaped

LEMMA ProcessKeeps == ASSUME SealingInv, RestartEngine \/ LoadKeys PROVE SealingInv'
<1>1. UNCHANGED <<payload, byName, inClear, signer, keysHeld>> /\ loaded' \in {"no", "loading", "yes"}
  BY DEF RestartEngine, LoadKeys
<1>2. KeysAreReal'
  <2>1. UNCHANGED <<keyFile, peerKey, prekey, bundle>>
    BY DEF RestartEngine, LoadKeys, recordVars, peerVars
  <2>2. known' \in {0, keyFile} /\ (loaded' = "yes" /\ linked' => known' = keyFile /\ keyFile # 0)
    BY DEF RestartEngine, LoadKeys
  <2>. QED BY <2>1, <2>2 DEF SealingInv, KeysAreReal
<1>3. /\ stage' \in [Letters -> LetterStages]
      /\ reply' \in [Letters -> {"none", "out", "loading", "confirmed", "rejected"}]
  BY DEF SealingInv, Shaped, RestartEngine, LoadKeys, LetterStages
<1>4. ASSUME NEW m \in Letters
      PROVE  /\ stage[m] \in {"sent", "handed"} => stage'[m] = stage[m]
             /\ stage'[m] \in {"sent", "handed"} => stage'[m] = stage[m]
             /\ reply'[m] = "confirmed" => reply[m] = "confirmed"
  BY DEF SealingInv, Shaped, RestartEngine, LoadKeys
<1>. QED BY <1>1, <1>2, <1>3, <1>4, LettersStay

LEMMA AskKeeps ==
  ASSUME SealingInv, NEW m \in Letters,
         Refuse(m) \/ AskFirst(m) \/ AskForAck(m) \/ Forge(m) \/ CheckAck(m)
  PROVE  SealingInv'
<1>1. UNCHANGED <<payload, byName, inClear, signer, keysHeld>> /\ loaded' \in {"no", "loading", "yes"}
  BY DEF Refuse, AskFirst, AskForAck, Forge, CheckAck, StartLoading, SealingInv, Shaped,
         storeVars, letterVars, replyVars
<1>2. KeysAreReal'
  BY DEF SealingInv, KeysAreReal, Refuse, AskFirst, AskForAck, Forge, CheckAck, StartLoading,
         recordVars, peerVars, storeVars
<1>3. /\ stage' \in [Letters -> LetterStages]
      /\ reply' \in [Letters -> {"none", "out", "loading", "confirmed", "rejected"}]
  BY DEF SealingInv, Shaped, Refuse, AskFirst, AskForAck, Forge, CheckAck, LetterStages,
         letterVars, replyVars
<1>4. ASSUME NEW o \in Letters
      PROVE  /\ stage[o] \in {"sent", "handed"} => stage'[o] = stage[o]
             /\ stage'[o] \in {"sent", "handed"} => stage'[o] = stage[o]
  BY DEF SealingInv, Shaped, Refuse, AskFirst, AskForAck, Forge, CheckAck, letterVars
<1>5. ASSUME NEW o \in Letters, reply'[o] = "confirmed"
      PROVE  reply[o] = "confirmed" \/ stage[o] = "handed"
  <2>1. CASE CheckAck(m)
    BY <2>1, <1>5 DEF CheckAck, Verifies, SealingInv, Shaped, Lettered, Signed
  <2>2. CASE Refuse(m) \/ AskFirst(m) \/ AskForAck(m) \/ Forge(m)
    BY <2>2, <1>5 DEF SealingInv, Shaped, Refuse, AskFirst, AskForAck, Forge, replyVars
  <2>. QED BY <2>1, <2>2
<1>. QED BY <1>1, <1>2, <1>3, <1>4, <1>5, LettersStay

\* A step of one letter.
LEMMA OneLetter ==
  ASSUME SealingInv, NEW m \in Letters,
         NEW p \in Payloads, payload' = [payload EXCEPT ![m] = p],
         NEW at \in LetterStages, stage' = [stage EXCEPT ![m] = at],
         Shaped', UNCHANGED <<loaded, known, linked, keyFile, peerKey, prekey, bundle>>,
         \A o \in Letters \ {m} : /\ inClear'[o] = inClear[o] /\ keysHeld'[o] = keysHeld[o]
                                  /\ reply'[o] = reply[o] /\ signer'[o] = signer[o],
         (Unsealed(m) /\ SentWell(m) /\ HandedWell(m) /\ Signed(m))'
  PROVE  SealingInv'
<1>. USE DEF SealingInv
<1>1. KeysAreReal'
  BY DEF KeysAreReal
<1>2. ASSUME NEW o \in Letters \ {m}
      PROVE  (Unsealed(o) /\ SentWell(o) /\ HandedWell(o) /\ Signed(o))'
  <2>1. stage'[o] = stage[o] /\ payload'[o] = payload[o]
    BY DEF Shaped
  <2>. QED BY <2>1 DEF Lettered, Unsealed, SentWell, HandedWell, Signed
<1>3. Lettered'
  BY <1>2 DEF Lettered
<1>. QED BY <1>1, <1>3

LEMMA Rezipped ==
  ASSUME NEW r \in Payloads, NEW b \in BOOLEAN
  PROVE  [r EXCEPT !.zipped = b, !.compressed = b]
         = [sealed |-> r.sealed, gen |-> r.gen, zipped |-> b, encrypted |-> r.encrypted,
            compressed |-> b]
<1>. DEFINE f == [r EXCEPT !.zipped = b]
<1>1. f = [sealed |-> r.sealed, gen |-> r.gen, zipped |-> b, encrypted |-> r.encrypted,
           compressed |-> r.compressed]
  BY DEF Payloads
<1>2. [r EXCEPT !.zipped = b, !.compressed = b] = [f EXCEPT !.compressed = b]
  OBVIOUS
<1>. HIDE DEF f
<1>3. [f EXCEPT !.compressed = b]
      = [sealed |-> r.sealed, gen |-> r.gen, zipped |-> b, encrypted |-> r.encrypted,
         compressed |-> b]
  BY <1>1
<1>. QED BY <1>2, <1>3

LEMMA ComposeKeeps == ASSUME SealingInv, NEW m \in Letters, Compose(m) PROVE SealingInv'
<1>1. PICK long \in BOOLEAN, name \in BOOLEAN :
        /\ payload' = [payload EXCEPT ![m].zipped = long, ![m].compressed = long]
        /\ byName' = [byName EXCEPT ![m] = name]
  BY DEF Compose
<1>. DEFINE p == [sealed |-> payload[m].sealed, gen |-> payload[m].gen, zipped |-> long,
                  encrypted |-> payload[m].encrypted, compressed |-> long]
<1>2. payload[m] \in Payloads /\ payload \in [Letters -> Payloads]
  BY DEF SealingInv, Shaped
<1>3. p \in Payloads
  BY <1>2 DEF Payloads
<1>4. payload' = [payload EXCEPT ![m] = p]
  <2>1. [payload[m] EXCEPT !.zipped = long, !.compressed = long] = p
    BY <1>2, Rezipped
  <2>2. payload' = [payload EXCEPT ![m] = [payload[m] EXCEPT !.zipped = long, !.compressed = long]]
    BY <1>1, <1>2
  <2>. HIDE DEF p
  <2>. QED BY <2>1, <2>2
<1>5. /\ p.sealed = payload[m].sealed /\ p.encrypted = payload[m].encrypted
      /\ p.zipped = p.compressed
  OBVIOUS
<1>. HIDE DEF p
<1>6. /\ stage[m] = "unsent" /\ stage' = [stage EXCEPT ![m] = "composed"]
      /\ UNCHANGED <<recordVars, storeVars, peerVars, inClear, replyVars>>
  BY DEF Compose
<1>7. Shaped'
  <2>1. payload' \in [Letters -> Payloads]
    BY <1>2, <1>3, <1>4
  <2>2. stage' \in [Letters -> LetterStages]
    BY <1>6 DEF SealingInv, Shaped, LetterStages
  <2>3. byName' \in [Letters -> BOOLEAN]
    BY <1>1 DEF SealingInv, Shaped
  <2>4. Shaped /\ UNCHANGED <<recordVars, storeVars, peerVars, inClear, replyVars>>
    BY <1>6 DEF SealingInv
  <2>. QED BY <2>1, <2>2, <2>3, <2>4 DEF Shaped, storeVars, recordVars, peerVars, replyVars
<1>8. (Unsealed(m) /\ SentWell(m) /\ HandedWell(m) /\ Signed(m))'
  <2>1. payload'[m] = p /\ stage'[m] = "composed"
    BY <1>2, <1>4, <1>6 DEF SealingInv, Shaped
  <2>2. signer[m] = 0 /\ reply[m] # "confirmed" /\ ~p.encrypted /\ p.sealed = "no"
    BY <1>5, <1>6 DEF SealingInv, Lettered, Signed, Unsealed
  <2>. QED BY <1>5, <1>6, <2>1, <2>2 DEF Unsealed, SentWell, HandedWell, Signed, replyVars
<1>9. "composed" \in LetterStages
  BY DEF LetterStages
<1>. QED BY <1>3, <1>4, <1>6, <1>7, <1>8, <1>9, OneLetter
     DEF recordVars, storeVars, peerVars, replyVars

LEMMA SendKeeps == ASSUME SealingInv, NEW m \in Letters, Send(m) PROVE SealingInv'
<1>1. PICK p \in IF FoundKey(m) THEN WhatGoesOut(payload[m]) ELSE {payload[m]} :
        payload' = [payload EXCEPT ![m] = p]
  BY DEF Send
<1>2. /\ stage[m] = "composed" /\ (engine = "none" \/ loaded \in {"loading", "yes"})
      /\ inClear' = [inClear EXCEPT ![m] = WhyClear(m)]
      /\ stage' = [stage EXCEPT ![m] = "sent"]
      /\ UNCHANGED <<recordVars, storeVars, peerVars, byName, replyVars>>
  BY DEF Send, SealingInv, Shaped
<1>3. payload[m] \in Payloads /\ payload[m].sealed = "no" /\ ~payload[m].encrypted
      /\ payload[m].zipped = payload[m].compressed /\ signer[m] = 0 /\ reply[m] # "confirmed"
      /\ known \in Nat /\ bundle \in Nat
  BY <1>2 DEF SealingInv, Shaped, Lettered, Unsealed, Signed, KeysAreReal
<1>4. /\ p \in Payloads /\ p.zipped = p.compressed
      /\ p.encrypted <=> p.sealed # "no"
      /\ p.sealed = "no" => WhyClear(m) # "no"
  <2>1. CASE FoundKey(m)
    <3>1. \/ p = SealedHybrid(payload[m]) \/ p = SealedPgp(payload[m])
          \/ p = payload[m] /\ engine = "pgpless" /\ bundle = 0
      BY <1>1, <2>1 DEF WhatGoesOut, Sealed
    <3>2. CASE p = SealedHybrid(payload[m])
      <4>. DEFINE q == [sealed |-> "hybrid", gen |-> bundle, zipped |-> payload[m].zipped,
                        encrypted |-> TRUE, compressed |-> payload[m].compressed]
                  p1 == [payload[m] EXCEPT !.sealed = "hybrid"]
                  p2 == [p1 EXCEPT !.gen = bundle]
      <4>1. p1 = [sealed |-> "hybrid", gen |-> payload[m].gen, zipped |-> payload[m].zipped,
                  encrypted |-> payload[m].encrypted, compressed |-> payload[m].compressed]
        BY <1>3 DEF Payloads
      <4>2. p = [p2 EXCEPT !.encrypted = TRUE]
        BY <3>2 DEF SealedHybrid
      <4>. HIDE DEF p1
      <4>3. p2 = [sealed |-> "hybrid", gen |-> bundle, zipped |-> payload[m].zipped,
                  encrypted |-> payload[m].encrypted, compressed |-> payload[m].compressed]
        BY <4>1
      <4>. HIDE DEF p2
      <4>4. p = q
        BY <4>2, <4>3
      <4>. QED BY <1>3, <4>4 DEF Payloads
    <3>3. CASE p = SealedPgp(payload[m])
      <4>. DEFINE q == [sealed |-> "pgp", gen |-> known, zipped |-> payload[m].zipped,
                        encrypted |-> TRUE, compressed |-> payload[m].compressed]
                  p1 == [payload[m] EXCEPT !.sealed = "pgp"]
                  p2 == [p1 EXCEPT !.gen = known]
      <4>1. p1 = [sealed |-> "pgp", gen |-> payload[m].gen, zipped |-> payload[m].zipped,
                  encrypted |-> payload[m].encrypted, compressed |-> payload[m].compressed]
        BY <1>3 DEF Payloads
      <4>2. p = [p2 EXCEPT !.encrypted = TRUE]
        BY <3>3 DEF SealedPgp
      <4>. HIDE DEF p1
      <4>3. p2 = [sealed |-> "pgp", gen |-> known, zipped |-> payload[m].zipped,
                  encrypted |-> payload[m].encrypted, compressed |-> payload[m].compressed]
        BY <4>1
      <4>. HIDE DEF p2
      <4>4. p = q
        BY <4>2, <4>3
      <4>. QED BY <1>3, <4>4 DEF Payloads
    <3>4. CASE p = payload[m] /\ engine = "pgpless" /\ bundle = 0
      BY <1>3, <3>4 DEF WhyClear
    <3>. QED BY <3>1, <3>2, <3>3, <3>4
  <2>2. CASE ~FoundKey(m)
    <3>1. WhyClear(m) # "no"
      <4>1. CASE engine = "none" \/ ~byName[m] \/ loaded = "loading"
        BY <4>1 DEF WhyClear
      <4>2. CASE engine # "none" /\ byName[m] /\ loaded = "yes"
        <5>1. ~linked
          BY <2>2, <4>2 DEF FoundKey, SealingInv, KeysAreReal
        <5>. QED BY <4>2, <5>1 DEF WhyClear
      <4>. QED BY <1>2, <4>1, <4>2
    <3>. QED BY <1>1, <1>3, <2>2, <3>1
  <2>. QED BY <2>1, <2>2
<1>5. Shaped'
  BY <1>1, <1>2, <1>3, <1>4 DEF SealingInv, Shaped, LetterStages, storeVars, replyVars
<1>6. (Unsealed(m) /\ SentWell(m) /\ HandedWell(m) /\ Signed(m))'
  <2>1. payload'[m] = p /\ stage'[m] = "sent" /\ inClear'[m] = WhyClear(m)
    BY <1>1, <1>2 DEF SealingInv, Shaped
  <2>. QED BY <1>2, <1>3, <1>4, <2>1 DEF Unsealed, SentWell, HandedWell, Signed, replyVars
<1>7. "sent" \in LetterStages
  BY DEF LetterStages
<1>8. \A o \in Letters \ {m} : inClear'[o] = inClear[o]
  BY <1>2 DEF SealingInv, Shaped
<1>. QED BY <1>1, <1>2, <1>4, <1>5, <1>6, <1>7, <1>8, OneLetter
     DEF recordVars, storeVars, peerVars, replyVars

LEMMA ReceiveKeeps == ASSUME SealingInv, NEW m \in Letters, Receive(m) PROVE SealingInv'
<1>. DEFINE p == payload[m]
            k == IF p.sealed = "hybrid" THEN prekey ELSE peerKey
            q == Inbound(p)
<1>1. /\ stage[m] = "sent" /\ stage' = [stage EXCEPT ![m] = "handed"]
      /\ payload' = [payload EXCEPT ![m] = q]
      /\ keysHeld' = [keysHeld EXCEPT ![m] = <<k, p.gen>>]
      /\ reply' = [reply EXCEPT ![m] = "out"] /\ signer' = [signer EXCEPT ![m] = peerKey]
      /\ UNCHANGED <<recordVars, storeVars, peerVars, byName, inClear>>
  BY DEF Receive
<1>2. /\ p \in Payloads /\ (p.encrypted <=> p.sealed # "no") /\ p.zipped = p.compressed
      /\ prekey \in Nat /\ peerKey \in Nat
  BY <1>1 DEF SealingInv, Shaped, Lettered, SentWell, KeysAreReal
<1>. DEFINE o == Opened(p)
<1>3. /\ o \in Payloads /\ o.zipped = p.zipped /\ o.compressed = p.compressed
      /\ (o.encrypted <=> o.sealed # "no") /\ (k = p.gen => ~o.encrypted)
  <2>1. CASE p.encrypted /\ (OpensHybrid(p) \/ OpensPgp(p))
    <3>. DEFINE p1 == [p EXCEPT !.sealed = "no"]
    <3>0. p \in Payloads
      BY <1>2
    <3>2. o = [p1 EXCEPT !.encrypted = FALSE]
      BY <2>1 DEF Opened
    <3>. HIDE DEF p, o
    <3>1. p1 = [sealed |-> "no", gen |-> p.gen, zipped |-> p.zipped,
                encrypted |-> p.encrypted, compressed |-> p.compressed]
      BY <3>0 DEF Payloads
    <3>. HIDE DEF p1, o, p
    <3>3. o = [sealed |-> "no", gen |-> p.gen, zipped |-> p.zipped,
               encrypted |-> FALSE, compressed |-> p.compressed]
      BY <3>1, <3>2
    <3>. QED BY <1>2, <3>3 DEF Payloads
  <2>2. CASE ~(p.encrypted /\ (OpensHybrid(p) \/ OpensPgp(p)))
    <3>1. o = p
      BY <2>2 DEF Opened
    <3>2. k = p.gen => ~p.encrypted
      BY <1>2, <2>2 DEF OpensHybrid, OpensPgp, Payloads
    <3>. HIDE DEF o, p, k
    <3>. QED BY <1>2, <3>1, <3>2
  <2>. QED BY <2>1, <2>2
<1>. HIDE DEF o
<1>4. /\ q \in Payloads /\ q.encrypted = o.encrypted /\ q.sealed = o.sealed
      /\ q.sealed = "no" => ~q.zipped
  <2>0. q = Expanded(o)
    BY DEF Inbound, o
  <2>. HIDE DEF q
  <2>1. CASE o.compressed /\ o.sealed = "no"
    <3>0. o \in Payloads
      BY <1>3
    <3>1. PICK b \in BOOLEAN : b = FALSE
      OBVIOUS
    <3>2. q = [o EXCEPT !.zipped = b, !.compressed = b]
      BY <2>0, <2>1, <3>1 DEF Expanded
    <3>3. q = [sealed |-> o.sealed, gen |-> o.gen, zipped |-> b, encrypted |-> o.encrypted,
               compressed |-> b]
      BY <3>0, <3>2, Rezipped
    <3>4. q.encrypted = o.encrypted /\ q.sealed = o.sealed /\ q.zipped = b
      BY <3>3
    <3>5. q \in Payloads
      BY <3>0, <3>3 DEF Payloads
    <3>. QED BY <3>1, <3>4, <3>5
  <2>2. CASE ~(o.compressed /\ o.sealed = "no")
    <3>1. q = o
      BY <2>0, <2>2 DEF Expanded
    <3>. QED BY <1>2, <1>3, <2>2, <3>1
  <2>. QED BY <2>1, <2>2
<1>5. k \in Nat /\ p.gen \in Nat
  BY <1>2 DEF Payloads
<1>. HIDE DEF p, q, k
<1>6. Shaped'
  BY <1>1, <1>2, <1>4, <1>5 DEF SealingInv, Shaped, LetterStages, storeVars, replyVars
<1>7. (Unsealed(m) /\ SentWell(m) /\ HandedWell(m) /\ Signed(m))'
  <2>1. payload'[m] = q /\ stage'[m] = "handed" /\ keysHeld'[m] = <<k, p.gen>> /\ reply'[m] = "out"
    BY <1>1 DEF SealingInv, Shaped
  <2>. QED BY <1>3, <1>4, <2>1 DEF Unsealed, SentWell, HandedWell, Signed
<1>8. "handed" \in LetterStages
  BY DEF LetterStages
<1>9. \A x \in Letters \ {m} : /\ inClear'[x] = inClear[x] /\ keysHeld'[x] = keysHeld[x]
                               /\ reply'[x] = reply[x] /\ signer'[x] = signer[x]
  BY <1>1 DEF SealingInv, Shaped
<1>. QED BY <1>1, <1>4, <1>6, <1>7, <1>8, <1>9, OneLetter DEF recordVars, storeVars, peerVars

LEMMA SealingStep == SealingInv /\ [SealingNext]_sealingVars => SealingInv'
<1>. SUFFICES ASSUME SealingInv, [SealingNext]_sealingVars PROVE SealingInv'
  OBVIOUS
<1>1. CASE UNCHANGED sealingVars
  BY <1>1 DEF sealingVars, recordVars, storeVars, peerVars, letterVars, replyVars, SealingInv,
     KeysAreReal, Shaped, Lettered, Unsealed, SentWell, HandedWell, Signed
<1>2. CASE SealingNext
  BY <1>2, PeerKeeps, ProcessKeeps, AskKeeps, ComposeKeeps, SendKeeps, ReceiveKeeps DEF SealingNext
<1>. QED BY <1>1, <1>2

\* A set of naturals has a least member; if it has a bound, it has a greatest.
LEMMA HasLeast ==
  ASSUME NEW S \in SUBSET Nat, S # {}
  PROVE  \E b \in S : \A c \in S : b <= c
<1>. DEFINE Less == {ss \in Nat \X Nat : ss[1] < ss[2]}
<1>1. IsWellFoundedOn(Less, Nat)
  BY NatLessThanWellFounded DEF OpToRel
<1>. HIDE DEF Less
<1>2. PICK b \in S : \A c \in S : ~(<<c, b>> \in Less)
  BY <1>1, WFMin
<1>3. \A c \in S : ~(c < b)
  BY <1>2 DEF Less
<1>. QED BY <1>3

LEMMA HasGreatest ==
  ASSUME NEW S \in SUBSET Nat, S # {}, NEW bound \in Nat, \A c \in S : c <= bound
  PROVE  \E b \in S : \A c \in S : c <= b
<1>. DEFINE T == {bound - c : c \in S}
<1>1. T \in SUBSET Nat /\ T # {}
  <2>1. PICK c0 \in S : TRUE
    OBVIOUS
  <2>2. bound - c0 \in T
    OBVIOUS
  <2>3. \A c \in S : bound - c \in Nat
    OBVIOUS
  <2>. QED BY <2>2, <2>3
<1>2. PICK t \in T : \A u \in T : t <= u
  <2>. HIDE DEF T
  <2>. QED BY <1>1, HasLeast
<1>3. PICK b \in S : t = bound - b
  OBVIOUS
<1>4. ASSUME NEW c \in S PROVE c <= b
  <2>1. bound - b <= bound - c
    BY <1>2, <1>3
  <2>. QED BY <2>1
<1>. QED BY <1>4

\* Rounding up to a multiple.
LEMMA RoundsUp ==
  ASSUME NEW n \in Nat, NEW d \in Nat \ {0}
  PROVE  /\ (n + d - 1) \div d \in Nat
         /\ ((n + d - 1) \div d) * d \in Nat
         /\ n <= ((n + d - 1) \div d) * d /\ ((n + d - 1) \div d) * d < n + d
<1>. DEFINE a == n + d - 1
            q == a \div d
<1>1. a \in Nat
  OBVIOUS
<1>2. q \in Nat /\ a = d * q + (a % d) /\ a % d \in 0..(d - 1)
  <2>. HIDE DEF a
  <2>. QED BY <1>1
<1>3. q * d = d * q /\ q * d \in Nat
  <2>. HIDE DEF q
  <2>. QED BY <1>2
<1>. HIDE DEF q
<1>. QED BY <1>2, <1>3 DEF q

LEMMA TopExists ==
  ASSUME NEW n \in Nat, Fitting(n) = {}
  PROVE  TopBucket \in Nat \ {0}
<1>1. Ladder \in SUBSET Nat /\ Ladder # {} /\ 0 \notin Ladder /\ \A c \in Ladder : c <= n
  BY WireAssumption DEF Fitting, WireAssumption
<1>2. \E b \in Ladder : \A c \in Ladder : c <= b
  BY <1>1, HasGreatest
<1>. QED BY <1>1, <1>2 DEF TopBucket

\* What a body with its prefix is padded to holds it, and whatever fits in that
\* beside it is padded to the same.
LEMMA BucketFits ==
  ASSUME NEW n \in Nat
  PROVE  BucketFor(n) \in Nat /\ n <= BucketFor(n)
<1>. USE WireAssumption
<1>1. CASE Fitting(n) # {}
  <2>1. Fitting(n) \in SUBSET Nat
    BY DEF WireAssumption, Fitting
  <2>2. \E b \in Fitting(n) : \A c \in Fitting(n) : b <= c
    BY <1>1, <2>1, HasLeast
  <2>3. BucketFor(n) \in Fitting(n)
    BY <1>1, <2>2 DEF BucketFor
  <2>. QED BY <2>1, <2>3 DEF Fitting
<1>2. CASE Fitting(n) = {}
  <2>1. TopBucket \in Nat \ {0}
    BY <1>2, TopExists
  <2>2. BucketFor(n) = ((n + TopBucket - 1) \div TopBucket) * TopBucket
    BY <1>2 DEF BucketFor
  <2>. QED BY <2>1, <2>2, RoundsUp
<1>. QED BY <1>1, <1>2

LEMMA BucketShared ==
  ASSUME NEW n \in Nat, NEW m \in Nat, m <= n, n <= BucketFor(m)
  PROVE  BucketFor(m) = BucketFor(n)
<1>. USE WireAssumption
<1>1. Fitting(n) \subseteq Fitting(m) /\ Fitting(m) \in SUBSET Nat
  <2>1. Ladder \subseteq Nat
    BY DEF WireAssumption
  <2>2. \A c \in Nat : n <= c => m <= c
    OBVIOUS
  <2>. QED BY <2>1, <2>2 DEF Fitting
<1>2. CASE Fitting(m) # {}
  <2>1. \E b \in Fitting(m) : \A c \in Fitting(m) : b <= c
    BY <1>1, <1>2, HasLeast
  <2>2. BucketFor(m) \in Fitting(m) /\ \A c \in Fitting(m) : BucketFor(m) <= c
    BY <1>2, <2>1 DEF BucketFor
  <2>3. BucketFor(m) \in Fitting(n)
    BY <2>2 DEF Fitting
  <2>4. \E b \in Fitting(n) : \A c \in Fitting(n) : b <= c
    BY <1>1, <2>3, HasLeast
  <2>5. BucketFor(n) \in Fitting(n) /\ \A c \in Fitting(n) : BucketFor(n) <= c
    BY <2>3, <2>4 DEF BucketFor
  <2>. QED BY <1>1, <2>2, <2>3, <2>5
<1>3. CASE Fitting(m) = {}
  <2>1. TopBucket \in Nat \ {0} /\ Fitting(n) = {}
    BY <1>1, <1>3, TopExists
  <2>. DEFINE d == TopBucket
              q == (m + d - 1) \div d
              r == (n + d - 1) \div d
  <2>2. /\ q \in Nat /\ q * d \in Nat /\ m <= q * d /\ q * d < m + d
        /\ r \in Nat /\ r * d \in Nat /\ n <= r * d /\ r * d < n + d
    BY <2>1, RoundsUp
  <2>3. BucketFor(m) = q * d /\ BucketFor(n) = r * d
    BY <1>3, <2>1 DEF BucketFor
  <2>. HIDE DEF q, r
  <2>4. d \in Nat \ {0}
    BY <2>1
  <2>. HIDE DEF d
  <2>5. ~(q < r)
    <3>. SUFFICES ASSUME q < r PROVE FALSE
      OBVIOUS
    <3>1. (q + 1) * d <= r * d
      BY <2>2, <2>4
    <3>2. (q + 1) * d = q * d + d
      BY <2>2, <2>4
    <3>. QED BY <2>2, <2>3, <2>4, <3>1, <3>2
  <2>6. ~(r < q)
    <3>. SUFFICES ASSUME r < q PROVE FALSE
      OBVIOUS
    <3>1. (r + 1) * d <= q * d
      BY <2>2, <2>4
    <3>2. (r + 1) * d = r * d + d
      BY <2>2, <2>4
    <3>. QED BY <2>2, <2>3, <2>4, <3>1, <3>2
  <2>. QED BY <2>2, <2>3, <2>5, <2>6
<1>. QED BY <1>2, <1>3

LEMMA PaddingHolds == PaddingFits
<1>. SUFFICES ASSUME NEW n \in 0..LongestBody
              PROVE  /\ Unpad(PadToBucket(n)) = n
                     /\ \A m \in 0..n : \/ PadToBucket(m).size = PadToBucket(n).size
                                        \/ \E b \in {PadToBucket(m).size} :
                                             m + Prefix <= b /\ b < n + Prefix
  BY DEF PaddingFits
<1>1. n \in Nat /\ Prefix = 1 /\ Prefix + n \in Nat
  BY DEF Prefix
<1>2. PadToBucket(n) = [prefix |-> n, size |-> BucketFor(Prefix + n)]
  BY DEF PadToBucket
<1>3. BucketFor(Prefix + n) \in Nat /\ Prefix + n <= BucketFor(Prefix + n)
  BY <1>1, BucketFits
<1>4. Unpad(PadToBucket(n)) = n
  <2>. DEFINE size == BucketFor(Prefix + n)
  <2>1. Unpad(PadToBucket(n)) = IF size < Prefix \/ Prefix + n > size THEN -1 ELSE n
    BY <1>2 DEF Unpad
  <2>2. size \in Nat /\ Prefix + n <= size
    BY <1>3
  <2>. HIDE DEF size
  <2>. QED BY <1>1, <2>1, <2>2
<1>5. ASSUME NEW m \in 0..n
      PROVE  \/ PadToBucket(m).size = PadToBucket(n).size
             \/ \E b \in {PadToBucket(m).size} : m + Prefix <= b /\ b < n + Prefix
  <2>. DEFINE b == BucketFor(Prefix + m)
  <2>1. m \in Nat /\ Prefix + m \in Nat /\ Prefix + m <= Prefix + n
    BY <1>1
  <2>2. b \in Nat /\ Prefix + m <= b
    BY <2>1, BucketFits
  <2>3. PadToBucket(m).size = b /\ PadToBucket(n).size = BucketFor(Prefix + n)
    BY DEF PadToBucket
  <2>4. Prefix + n <= b => b = BucketFor(Prefix + n)
    BY <1>1, <2>1, BucketShared
  <2>. HIDE DEF b
  <2>5. m + Prefix = Prefix + m /\ n + Prefix = Prefix + n
    BY <1>1, <2>1
  <2>. QED BY <1>1, <2>1, <2>2, <2>3, <2>4, <2>5
<1>. QED BY <1>4, <1>5

-------------------------------------------------------------------------------
(* The wire.  What a receiver has opened is the frame as it is, since a    *)
(* new one is opened anew; and what a frame without a signature is bound   *)
(* to is what it was sent with.                                            *)

Parcels == [env : Envelopes, hash : Envelopes, suite : Suites, ed : Speakers, pq : Speakers,
            over : Envelopes, edKey : SUBSET Speakers, pqKey : SUBSET Speakers]
Framed(f) ==
  /\ f = [form |-> f.form, to |-> f.to, slots |-> f.slots, parcel |-> f.parcel, bound |-> f.bound]
  /\ f.form \in Forms /\ f.parcel \in Parcels
Bound == frame.form \in {"anon", "multi"} => frame.bound = <<written.to, written.parcel>>
OpenedAsIs == \A r \in Receivers : \A f \in opened[r] :
  f = frame /\ MayOpen(r, f) /\ (f.form \in {"plain", "routed"} => Verify(f.parcel))
WireInv ==
  /\ \A q, o \in named : q = o
  /\ Framed(frame) /\ frame.slots \subseteq written.slots /\ Bound
  /\ DOMAIN opened = Receivers /\ OpenedAsIs

LEMMA WireHolds == WireInv => WireKeeps
<1>. SUFFICES ASSUME WireInv PROVE AcceptedIsSigned /\ OpenedIsWhole
  BY PaddingHolds DEF WireKeeps
<1>1. ASSUME NEW r \in Receivers, NEW f \in opened[r], f.form \in {"plain", "routed"}
      PROVE  /\ f.parcel.over = f.parcel.env
             /\ \/ f.parcel.suite = "pgp" /\ f.parcel.ed = f.parcel.env.from
                \/ f.parcel.suite = "hybrid" /\ f.parcel.pq = f.parcel.env.from
                \/ f.parcel.suite = "pgp" /\ f.parcel.env.from \notin ring /\ {f.parcel.ed} = named
  <2>. DEFINE s == f.parcel
  <2>1. Verify(s) /\ s.suite \in Suites
    BY <1>1 DEF WireInv, OpenedAsIs, Framed, Parcels
  <2>. HIDE DEF s
  <2>2. CASE s.suite = "pgp"
    <3>1. s.over = s.env /\ s.ed \in FindKey(s.env.from)
      BY <2>1, <2>2 DEF Verify, VerifyPgp
    <3>2. CASE s.env.from \in ring
      BY <2>2, <3>1, <3>2 DEF FindKey, s
    <3>3. CASE s.env.from \notin ring
      <4>1. s.ed \in named
        BY <3>1, <3>3 DEF FindKey
      <4>2. {s.ed} = named
        BY <4>1 DEF WireInv
      <4>. QED BY <2>2, <3>1, <3>3, <4>2 DEF s
    <3>. QED BY <3>2, <3>3
  <2>3. CASE s.suite = "hybrid"
    <3>1. s.over = s.env /\ s.pqKey = {s.env.from} /\ s.pq \in s.pqKey
      BY <2>1, <2>3 DEF Verify, VerifyHybrid, BothLegs
    <3>. QED BY <2>3, <3>1 DEF s
  <2>. QED BY <2>1, <2>2, <2>3 DEF Suites
<1>2. ASSUME NEW r \in Receivers, NEW f \in opened[r], f.form \in {"anon", "multi"}
      PROVE  f.parcel = written.parcel /\ f.to = written.to /\ r \in written.slots
  <2>1. f = frame /\ MayOpen(r, f)
    BY DEF WireInv, OpenedAsIs
  <2>2. r \in f.slots /\ f.bound = <<f.to, f.parcel>>
    BY <1>2, <2>1 DEF MayOpen, ParseAnon, OpenMulti, VerifyTag
  <2>3. f.bound = <<written.to, written.parcel>>
    BY <1>2, <2>1 DEF WireInv, Bound
  <2>. QED BY <2>1, <2>2, <2>3 DEF WireInv
<1>. QED BY <1>1, <1>2 DEF AcceptedIsSigned, OpenedIsWhole

LEMMA SignatureIsParcel ==
  ASSUME NEW q \in Speakers, NEW e \in Envelopes, NEW suite \in Suites
  PROVE  Signature(q, e, suite) \in Parcels
BY DEF Signature, Parcels

LEMMA GarbledIsParcel == ASSUME NEW s \in Parcels PROVE Garbled(s) \subseteq Parcels
<1>1. ASSUME NEW g \in Reworded(s) PROVE g \in Parcels
  <2>1. PICK e \in Envelopes : g = [s EXCEPT !.env = e] \/ g = [s EXCEPT !.env = e, !.hash = e]
    BY DEF Reworded
  <2>2. CASE g = [s EXCEPT !.env = e]
    BY <2>2 DEF Parcels
  <2>3. CASE g = [s EXCEPT !.env = e, !.hash = e]
    BY <2>3 DEF Parcels
  <2>. QED BY <2>1, <2>2, <2>3
<1>2. ASSUME NEW g \in Rekeyed(s) PROVE g \in Parcels
  <2>1. PICK q \in Speakers : g = [s EXCEPT !.pqKey = {q}] \/ g = [s EXCEPT !.edKey = {q}, !.ed = q]
    BY DEF Rekeyed
  <2>2. CASE g = [s EXCEPT !.pqKey = {q}]
    BY <2>2 DEF Parcels
  <2>3. CASE g = [s EXCEPT !.edKey = {q}, !.ed = q]
    BY <2>3 DEF Parcels
  <2>. QED BY <2>1, <2>2, <2>3
<1>3. ASSUME NEW g \in Resigned(s) PROVE g \in Parcels
  BY SignatureIsParcel DEF Resigned, Parcels
<1>4. ASSUME NEW g \in Resuited(s) PROVE g \in Parcels
  BY DEF Resuited, Parcels
<1>. QED BY <1>1, <1>2, <1>3, <1>4 DEF Garbled

LEMMA FrameIsFramed ==
  ASSUME NEW form \in Forms, NEW to, NEW slots, NEW parcel \in Parcels
  PROVE  Framed(FrameOf(form, to, slots, parcel))
         /\ FrameOf(form, to, slots, parcel).bound
              = <<FrameOf(form, to, slots, parcel).to, FrameOf(form, to, slots, parcel).parcel>>
BY DEF Framed, FrameOf

LEMMA RoutesAreFramed ==
  ASSUME NEW parcel \in Parcels,
         NEW f \in RouteSigned(parcel) \cup RouteAnon(parcel) \cup SealMulti(parcel)
  PROVE  Framed(f) /\ f.bound = <<f.to, f.parcel>>
<1>1. PICK form \in {"plain", "routed", "anon", "multi"} :
        \E to, slots : f = FrameOf(form, to, slots, parcel)
  <2>1. CASE f \in RouteSigned(parcel)
    <3>1. \/ \E r \in Receivers : f = FrameOf("plain", {r}, Receivers, parcel)
          \/ \E hop \in Receivers, r \in Receivers : f = SealRouted(hop, r, parcel)
      BY <2>1 DEF RouteSigned
    <3>. QED BY <3>1 DEF SealRouted
  <2>2. CASE f \in RouteAnon(parcel)
    BY <2>2 DEF RouteAnon
  <2>3. CASE f \in SealMulti(parcel)
    BY <2>3 DEF SealMulti
  <2>. QED BY <2>1, <2>2, <2>3
<1>. QED BY <1>1, FrameIsFramed DEF Forms

LEMMA FirstIsFramed ==
  ASSUME NEW f \in FirstFrames
  PROVE  Framed(f) /\ f.bound = <<f.to, f.parcel>>
<1>1. PICK q \in Speakers, suite \in Suites :
        f \in LET parcel == Signature(q, [from |-> q, text |-> "this"], suite) IN
                RouteSigned(parcel) \cup RouteAnon(parcel) \cup SealMulti(parcel)
  BY DEF FirstFrames
<1>2. Signature(q, [from |-> q, text |-> "this"], suite) \in Parcels
  BY SignatureIsParcel DEF Envelopes
<1>. QED BY <1>1, <1>2, RoutesAreFramed

LEMMA WireBegins == WireInit => WireInv
<1>. SUFFICES ASSUME WireInit PROVE WireInv
  OBVIOUS
<1>1. Framed(frame) /\ frame = written /\ frame.bound = <<frame.to, frame.parcel>>
  BY FirstIsFramed DEF WireInit
<1>2. \A q, o \in named : q = o
  BY DEF WireInit
<1>3. opened = [r \in Receivers |-> {}]
  BY DEF WireInit
<1>. QED BY <1>1, <1>2, <1>3 DEF WireInv, Bound, OpenedAsIs

LEMMA WireStep == WireInv /\ [WireNext]_wireVars => WireInv'
<1>. SUFFICES ASSUME WireInv, [WireNext]_wireVars PROVE WireInv'
  OBVIOUS
<1>1. CASE UNCHANGED wireVars
  <2>1. UNCHANGED <<ring, named, hybridRing, written, frame, opened>>
    BY <1>1 DEF wireVars
  <2>2. OpenedAsIs'
    <3>. SUFFICES ASSUME NEW o \in Receivers, NEW f \in opened'[o]
                  PROVE  (f = frame /\ MayOpen(o, f)
                         /\ (f.form \in {"plain", "routed"} => Verify(f.parcel)))'
      BY DEF OpenedAsIs
    <3>1. f = frame /\ MayOpen(o, f) /\ (f.form \in {"plain", "routed"} => Verify(f.parcel))
      BY <2>1 DEF WireInv, OpenedAsIs
    <3>. QED BY <2>1, <3>1 DEF MayOpen, Verify, OpenRouted, ParseAnon, OpenMulti, VerifyTag,
         VerifyPgp, VerifyHybrid, FindKey, BothLegs
  <2>. QED BY <2>1, <2>2 DEF WireInv, Bound, Framed
<1>2. CASE Garble
  <2>1. opened' = [r \in Receivers |-> {}] /\ UNCHANGED <<ring, named, hybridRing, written>>
    BY <1>2 DEF Garble
  <2>2. Framed(frame') /\ frame'.slots \subseteq frame.slots /\ frame'.form = frame.form
        /\ (frame.form \in {"anon", "multi"} => frame'.bound = frame.bound)
    <3>0. Framed(frame) /\ Garbled(frame.parcel) \subseteq Parcels
      BY GarbledIsParcel DEF WireInv, Framed
    <3>1. CASE \E to \in (SUBSET Receivers) \ {{}} : frame' = [frame EXCEPT !.to = to]
      BY <3>0, <3>1 DEF Framed
    <3>2. CASE \E s \in Garbled(frame.parcel) : frame' = [frame EXCEPT !.parcel = s]
      BY <3>0, <3>2 DEF Framed
    <3>3. CASE \E s \in Garbled(frame.parcel) :
          frame.form \in {"plain", "routed"} /\ frame' = FrameOf(frame.form, frame.to, frame.slots, s)
      BY <3>0, <3>3 DEF Framed, FrameOf
    <3>4. CASE \E r \in frame.slots : frame' = [frame EXCEPT !.slots = @ \ {r}]
      BY <3>0, <3>4 DEF Framed
    <3>. QED BY <1>2, <3>1, <3>2, <3>3, <3>4 DEF Garble
  <2>3. Framed(frame)'
    BY <2>2 DEF Framed
  <2>. QED BY <2>1, <2>2, <2>3 DEF WireInv, Bound, OpenedAsIs
<1>3. ASSUME NEW r \in Receivers, OpenFrame(r) PROVE WireInv'
  <2>1. UNCHANGED <<ring, named, hybridRing, written, frame>>
        /\ opened' = [opened EXCEPT ![r] = {frame}]
        /\ MayOpen(r, frame) /\ (frame.form \in {"plain", "routed"} => Verify(frame.parcel))
    BY <1>3 DEF OpenFrame
  <2>2. OpenedAsIs'
    <3>. SUFFICES ASSUME NEW o \in Receivers, NEW f \in opened'[o]
                  PROVE  (f = frame /\ MayOpen(o, f)
                         /\ (f.form \in {"plain", "routed"} => Verify(f.parcel)))'
      BY DEF OpenedAsIs
    <3>1. f = frame /\ MayOpen(o, f) /\ (f.form \in {"plain", "routed"} => Verify(f.parcel))
      BY <2>1 DEF WireInv, OpenedAsIs
    <3>. QED BY <2>1, <3>1 DEF MayOpen, Verify, OpenRouted, ParseAnon, OpenMulti, VerifyTag,
         VerifyPgp, VerifyHybrid, FindKey, BothLegs
  <2>. QED BY <2>1, <2>2 DEF WireInv, Bound, Framed
<1>. QED BY <1>1, <1>2, <1>3 DEF WireNext

-------------------------------------------------------------------------------
(* One instance of every link: what each of them does alone, it does there *)
(* while its part moves, and it rests in one of its initial states else.   *)

\* A step of the instance is a step of a part, or leaves its variables as they are.
LEMMA LinksStep ==
  ASSUME LinksNext
  PROVE  /\ [CallsNext]_callsVars /\ [FaceTimeNext]_faceTimeVars
         /\ [PubSubNext]_pubsubVars /\ [SealingNext]_sealingVars
         /\ UNCHANGED part /\ (IF part = "wire" THEN [WireNext]_wireVars ELSE UNCHANGED wireVars)
<1>1. UNCHANGED part
  BY DEF LinksNext
<1>2. [CallsNext]_callsVars
  <2>1. CASE part = "calls"
    BY <2>1 DEF LinksNext, linksVars
  <2>2. CASE part # "calls"
    BY <2>2 DEF LinksNext, AtRest
  <2>. QED BY <2>1, <2>2
<1>3. [FaceTimeNext]_faceTimeVars
  <2>1. CASE part = "facetime"
    BY <2>1 DEF LinksNext, linksVars
  <2>2. CASE part # "facetime"
    BY <2>2 DEF LinksNext, AtRest
  <2>. QED BY <2>1, <2>2
<1>4. [PubSubNext]_pubsubVars
  <2>1. CASE part = "pubsub"
    BY <2>1 DEF LinksNext, linksVars
  <2>2. CASE part # "pubsub"
    BY <2>2 DEF LinksNext, AtRest
  <2>. QED BY <2>1, <2>2
<1>5. [SealingNext]_sealingVars
  <2>1. CASE part = "sealing"
    BY <2>1 DEF LinksNext, linksVars
  <2>2. CASE part # "sealing"
    BY <2>2 DEF LinksNext, AtRest
  <2>. QED BY <2>1, <2>2
<1>6. IF part = "wire" THEN [WireNext]_wireVars ELSE UNCHANGED wireVars
  <2>1. CASE part = "wire"
    BY <2>1 DEF LinksNext, linksVars
  <2>2. CASE part # "wire"
    BY <2>2 DEF LinksNext, AtRest
  <2>. QED BY <2>1, <2>2
<1>. QED BY <1>1, <1>2, <1>3, <1>4, <1>5, <1>6

LEMMA LinksPart == LinksSpec => CallsSpec /\ FaceTimeSpec /\ PubSubSpec /\ SealingSpec
<1>1. LinksInit => CallsInit /\ FaceTimeInit /\ PubSubInit /\ SealingInit
  BY DEF LinksInit
<1>2. [LinksNext]_linksVars => /\ [CallsNext]_callsVars /\ [FaceTimeNext]_faceTimeVars
                               /\ [PubSubNext]_pubsubVars /\ [SealingNext]_sealingVars
  <2>1. UNCHANGED linksVars => /\ UNCHANGED callsVars /\ UNCHANGED faceTimeVars
                               /\ UNCHANGED pubsubVars /\ UNCHANGED sealingVars
    BY DEF linksVars
  <2>. QED BY <2>1, LinksStep
<1>. QED BY <1>1, <1>2, PTL DEF LinksSpec, CallsSpec, FaceTimeSpec, PubSubSpec, SealingSpec

\* While another part moves, nothing arrives by wire.
WireOrRest == IF part = "wire" THEN WireInv ELSE opened = [r \in Receivers |-> {}]

LEMMA WireAtRest == WireOrRest => WireKeeps
<1>1. CASE part = "wire"
  BY <1>1, WireHolds DEF WireOrRest
<1>2. CASE part # "wire"
  BY <1>2, PaddingHolds DEF WireOrRest, WireKeeps, AcceptedIsSigned, OpenedIsWhole
<1>. QED BY <1>1, <1>2

LEMMA WirePart == LinksSpec => []WireOrRest
<1>1. LinksInit => WireOrRest
  BY WireBegins DEF LinksInit, WireOrRest
<1>2. WireOrRest /\ [LinksNext]_linksVars => WireOrRest'
  <2>. SUFFICES ASSUME WireOrRest, [LinksNext]_linksVars PROVE WireOrRest'
    OBVIOUS
  <2>1. UNCHANGED part /\ (IF part = "wire" THEN [WireNext]_wireVars ELSE UNCHANGED wireVars)
    BY LinksStep DEF linksVars
  <2>2. CASE part = "wire"
    BY <2>1, <2>2, WireStep DEF WireOrRest
  <2>3. CASE part # "wire"
    BY <2>1, <2>3 DEF WireOrRest, wireVars
  <2>. QED BY <2>2, <2>3
<1>. QED BY <1>1, <1>2, PTL DEF LinksSpec

(* A call that nobody hangs up or passes over, that crosses no call of the *)
(* other, and all whose signals could be sent connects the two; an answer  *)
(* is taken by the session it was meant for, or for one that was ended;    *)
(* and the one GPU permit is never doubled.                                *)
THEOREM CallsAreAnswered == LinksSpec => []SessionsKeep
<1>1. CallsInv => CallsKeep
  BY CallsSuffice
<1>. QED BY <1>1, LinksPart, CallsStart, CallsStep, OnePermit, PTL DEF CallsSpec, SessionsKeep

(* However threads publish while callbacks and remote agents come and go,  *)
(* a message is handed once to whom it is for unless the list moved under  *)
(* it; a letter goes out in the clear for a reason only and is opened      *)
(* whole; and whatever the wire makes of a frame, what is accepted is what *)
(* was signed or sealed.                                                   *)
THEOREM TrafficIsKept == LinksSpec => []TrafficKeeps
<1>1. PubSubSpec => []BusKeeps
  BY BusBegins, BusStep, BusHolds, PTL DEF PubSubSpec
<1>2. SealingSpec => []SealingKeeps
  BY SealingBegins, SealingStep, SealingHolds, PTL DEF SealingSpec
<1>. QED BY <1>1, <1>2, LinksPart, WirePart, WireAtRest, PTL DEF TrafficKeeps
===============================================================================
