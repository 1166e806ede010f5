------------------------------- MODULE Sessions -------------------------------
(***************************************************************************)
(* Sessions over WebRTC: the calls between peers                           *)
(* (skcomms/transports/p2p_manager.py, p2p_session.py,                     *)
(* signaling_mailbox.py) and the avatar sessions of a GPU server           *)
(* (webrtc_media.py).  The two share no state.  The definitions no action  *)
(* uses are plausible faults of the one after them.                        *)
(***************************************************************************)
EXTENDS Naturals, FiniteSets

-------------------------------------------------------------------------------
(* Calls.  A manager holds one session per peer; its one route loop takes  *)
(* the signals of the inbox, once each, and hands them to the session of   *)
(* their sender, or to a new one when a stranger offers.  Placing a call   *)
(* and hanging up are tasks beside that loop and run wherever it awaits.   *)
(*                                                                         *)
(* A signal is a mailbox file: it stays in the inbox, and the files arrive *)
(* in any order.  The connection of a session is aiortc's: it takes an     *)
(* offer when stable and an answer when it has offered, and else raises.   *)

CONSTANTS Managers,
          AutoAnswer,    \* those of them that make a session for a stranger's offer
          MaxSessions,   \* bound on the sessions one manager makes
          MaxCalls, MaxHangups, MaxRestarts

ASSUME CallsAssumption ==
  /\ AutoAnswer \subseteq Managers /\ MaxSessions \in Nat \ {0} /\ MaxCalls \in Nat
  /\ MaxHangups \in Nat /\ MaxRestarts \in Nat

SessionIds == 1..MaxSessions
NoSession  == 0

VARIABLES
  session,    \* every session each manager made
  current,    \* _sessions: the one of each peer
  inboxed,    \* the signals in the mailboxes
  handled,    \* _seen: the ids of signals
  routing,    \* the answer the route loop is preparing
  gathering,  \* how many offers of each session are being gathered
  placed, hangups, restarts,
  spoiled     \* history: <<n, p>>: n ended a session with p, refused an offer of p or
              \* passed it over, or failed to send p a signal

callsVars == <<session, current, inboxed, handled, routing, gathering,
               placed, hangups, restarts, spoiled>>

\* "remote" is whose description it took last, "answered" the session of its own
\* that the last answer it took was meant for.
Unused   == [state |-> "unused", remote |-> NoSession, answered |-> NoSession]
MaybeId  == SessionIds \cup {NoSession}
Sessions == [state : {"unused", "stable", "offered", "answering", "closed"},
             remote : MaybeId, answered : MaybeId]
Signals  == [id : Nat, kind : {"offer", "answer"}, from : Managers, to : Managers,
             of : SessionIds, for : MaybeId]
NoRoute     == [step |-> "idle"]
Routes   == {NoRoute} \cup [step : {"answer", "emit"}, sid : SessionIds, offer : Signals]

CallsInit ==
  /\ session = [n \in Managers |-> [s \in SessionIds |-> Unused]]
  /\ current = [n \in Managers |-> [p \in Managers |-> NoSession]]
  /\ inboxed = {} /\ handled = [n \in Managers |-> {}]
  /\ routing = [n \in Managers |-> NoRoute]
  /\ gathering = [n \in Managers |-> [p \in Managers |-> [s \in SessionIds |-> 0]]]
  /\ placed = 0 /\ hangups = 0 /\ restarts = 0 /\ spoiled = {}

-------------------------------------------------------------------------------
(* The session of a peer, made when there is none.                         *)

Spare(n)         == {s \in SessionIds : session[n][s] = Unused}
NewSession(n)    == CHOOSE s \in Spare(n) : TRUE
AlwaysNew(n, p)  == IF Spare(n) = {} THEN current[n][p] ELSE NewSession(n)
SessionFor(n, p) == IF current[n][p] = NoSession THEN NewSession(n) ELSE current[n][p]
InReach(n, p)    == current[n][p] # NoSession \/ Spare(n) # {}
\* A connection is made stable.
StateOf(n, s)    == IF session[n][s] = Unused THEN "stable" ELSE session[n][s].state

Owns(n, p, s, made) ==
  /\ session' = [session EXCEPT ![n][s] = made]
  /\ current' = [current EXCEPT ![n][p] = s]

Emits(kind, n, p, s, for) ==
  inboxed' = inboxed \cup {[id |-> Cardinality(inboxed) + 1, kind |-> kind, from |-> n,
                            to |-> p, of |-> s, for |-> for]}
\* The mailbox cannot be written, or the connection was closed meanwhile; nobody sends
\* the signal again.
FailsToSend(n, p) == spoiled' = spoiled \cup {<<n, p>>} /\ UNCHANGED inboxed

-------------------------------------------------------------------------------
(* call, hangup, and the death of the process.                             *)

Place(n, p) ==
  /\ n # p /\ placed < MaxCalls /\ placed' = placed + 1 /\ InReach(n, p)
  /\ LET s == SessionFor(n, p) IN
       /\ StateOf(n, s) \in {"stable", "offered"}
       /\ Owns(n, p, s, [session[n][s] EXCEPT !.state = "offered"])
       /\ gathering' = [gathering EXCEPT ![n][p][s] = @ + 1]
  /\ UNCHANGED <<inboxed, handled, routing, hangups, restarts, spoiled>>

SendOffered(n, p, s) ==
  /\ gathering[n][p][s] > 0 /\ gathering' = [gathering EXCEPT ![n][p][s] = @ - 1]
  /\ \/ Emits("offer", n, p, s, NoSession) /\ UNCHANGED spoiled
     \/ FailsToSend(n, p)
  /\ UNCHANGED <<session, current, handled, routing, placed, hangups, restarts>>

Hangup(n, p) ==
  /\ current[n][p] # NoSession /\ hangups < MaxHangups /\ hangups' = hangups + 1
  /\ session' = [session EXCEPT ![n][current[n][p]].state = "closed"]
  /\ current' = [current EXCEPT ![n][p] = NoSession]
  /\ spoiled' = spoiled \cup {<<n, p>>}
  /\ UNCHANGED <<inboxed, handled, routing, gathering, placed, restarts>>

ManagerDies(n) ==
  /\ restarts < MaxRestarts /\ restarts' = restarts + 1
  /\ session' = [session EXCEPT ![n] = [s \in SessionIds |->
                   IF @[s] = Unused THEN Unused ELSE [@[s] EXCEPT !.state = "closed"]]]
  /\ current' = [current EXCEPT ![n] = [p \in Managers |-> NoSession]]
  /\ gathering' = [gathering EXCEPT ![n] = [p \in Managers |-> [s \in SessionIds |-> 0]]]
  /\ handled' = [handled EXCEPT ![n] = {}] /\ routing' = [routing EXCEPT ![n] = NoRoute]
  /\ spoiled' = spoiled \cup {<<n, p>> : p \in {q \in Managers : current[n][q] # NoSession}}
  /\ UNCHANGED <<inboxed, placed, hangups>>

-------------------------------------------------------------------------------
(* _route_loop: a signal is seen before it is handled, and not again.      *)

Takes(n, signal) ==
  /\ routing[n] = NoRoute /\ signal.to = n /\ signal.id \notin handled[n]
  /\ handled' = [handled EXCEPT ![n] = @ \cup {signal.id}]
  /\ UNCHANGED <<inboxed, gathering, placed, hangups, restarts>>

\* A manager without auto_answer passes over the offer of a peer it has no session with.
Accepts(n, p, s) == (current[n][p] # NoSession \/ n \in AutoAnswer) /\ StateOf(n, s) = "stable"

\* setRemoteDescription of the offer, in the session there is or a new one.
TakeOffer(n, signal) ==
  /\ Takes(n, signal) /\ signal.kind = "offer" /\ InReach(n, signal.from)
  /\ LET s == SessionFor(n, signal.from) IN
       IF Accepts(n, signal.from, s)
       THEN /\ Owns(n, signal.from, s,
                        [session[n][s] EXCEPT !.state = "answering", !.remote = signal.of])
            /\ routing' = [routing EXCEPT ![n] = [step |-> "answer", sid |-> s, offer |-> signal]]
            /\ UNCHANGED spoiled
       ELSE spoiled' = spoiled \cup {<<n, signal.from>>} /\ UNCHANGED <<session, current, routing>>

\* setLocalDescription of the answer; a connection closed meanwhile raises.
PrepareAnswer(n) ==
  /\ routing[n].step = "answer"
  /\ LET s == routing[n].sid IN
       IF session[n][s].state = "answering"
       THEN /\ session' = [session EXCEPT ![n][s].state = "stable"]
            /\ routing' = [routing EXCEPT ![n].step = "emit"]
       ELSE routing' = [routing EXCEPT ![n] = NoRoute] /\ UNCHANGED session
  /\ UNCHANGED <<current, inboxed, handled, gathering, placed, hangups, restarts, spoiled>>

SendAnswer(n) ==
  /\ routing[n].step = "emit" /\ routing' = [routing EXCEPT ![n] = NoRoute]
  /\ LET r == routing[n] IN
       \/ Emits("answer", n, r.offer.from, r.sid, r.offer.of) /\ UNCHANGED spoiled
       \/ FailsToSend(n, r.offer.from)
  /\ UNCHANGED <<session, current, handled, gathering, placed, hangups, restarts>>

\* An answer nobody waits for is ignored, or raises.
Awaited(n, signal) == LET s == current[n][signal.from] IN
  s # NoSession /\ session[n][s].state = "offered"

TakeAnswer(n, signal) ==
  /\ Takes(n, signal) /\ signal.kind = "answer"
  /\ session' = IF Awaited(n, signal)
                THEN [session EXCEPT ![n][current[n][signal.from]] =
                        [state |-> "stable", remote |-> signal.of, answered |-> signal.for]]
                ELSE session
  /\ UNCHANGED <<current, routing, spoiled>>

CallsNext == \E n \in Managers :
  \/ \E p \in Managers : Place(n, p) \/ Hangup(n, p) \/ \E s \in SessionIds : SendOffered(n, p, s)
  \/ \E signal \in inboxed : TakeOffer(n, signal) \/ TakeAnswer(n, signal)
  \/ PrepareAnswer(n) \/ SendAnswer(n) \/ ManagerDies(n)

CallsSpec == CallsInit /\ [][CallsNext]_callsVars

-------------------------------------------------------------------------------
(* Every variable keeps its shape.                                         *)
CallsTypeOK ==
  /\ session \in [Managers -> [SessionIds -> Sessions]]
  /\ current \in [Managers -> [Managers -> MaybeId]]
  /\ inboxed \subseteq Signals /\ handled \in [Managers -> SUBSET Nat]
  /\ routing \in [Managers -> Routes]
  /\ gathering \in [Managers -> [Managers -> [SessionIds -> Nat]]]
  /\ placed \in 0..MaxCalls /\ hangups \in 0..MaxHangups /\ restarts \in 0..MaxRestarts
  /\ spoiled \subseteq Managers \X Managers

IsLive(n, s) == s # NoSession /\ session[n][s].state # "closed"
\* Nothing of the two is under way.
Settled(n, p) ==
  /\ \A x \in inboxed : <<x.from, x.to>> \in {<<n, p>>, <<p, n>>} => x.id \in handled[x.to]
  /\ \A q \in {n, p} : routing[q] = NoRoute
  /\ \A s \in SessionIds : gathering[n][p][s] = 0 /\ gathering[p][n][s] = 0

\* A call that nobody hangs up or passes over, that crosses no call of the other, and
\* all whose signals could be written connects the two, whatever becomes of the calls
\* with others.
CallsConnect == \A n, p \in Managers :
  LET s == current[n][p] IN
    s # NoSession /\ {<<n, p>>, <<p, n>>} \cap spoiled = {} /\ Settled(n, p) =>
      /\ session[n][s].state = "stable" /\ session[n][s].remote = current[p][n]
      /\ current[p][n] # NoSession /\ session[p][current[p][n]].remote = s

\* The answer a session takes was meant for it, or for one that was ended.
AnswersFit == \A n \in Managers, s \in SessionIds :
  LET a == session[n][s].answered IN a \in {NoSession, s} \/ ~IsLive(n, a)

(* p2p_manager.py, "dispatches inbound signals to the right session".      *)
CallsKeep == CallsConnect /\ AnswersFit

-------------------------------------------------------------------------------
(* Avatars.  One semaphore lets one session at a time use the GPU:         *)
(* create_session takes it before the session starts, destroy_session      *)
(* gives it back when the session has stopped.  Starting and stopping      *)
(* await the network, may raise, and run beside one another on one event   *)
(* loop; whatever lies between two awaits is one step.                     *)

CONSTANTS Avatars,      \* the names of the agents
          Creators,     \* tasks that call create_session
          Destroyers,   \* tasks that call destroy_session
          MaxRaises     \* bound on the exceptions of starts and stops

NoAvatar == "no avatar"

ASSUME FaceTimeAssumption == MaxRaises \in Nat /\ NoAvatar \notin Avatars

VARIABLES
  gpuLock,     \* the permits of _gpu_lock
  avatar,      \* _sessions, with the state of each session
  severed,     \* the registered sessions whose connection failed or closed
  creator,     \* what each create_session does next
  destroyer,   \* the session each destroy_session is stopping
  exceptions   \* history: how many starts and stops raised

faceTimeVars == <<gpuLock, avatar, severed, creator, destroyer, exceptions>>

NoTask == [step |-> "idle", agent |-> NoAvatar]
Stages == {NoTask} \cup [step : {"acquire", "start"}, agent : Avatars]

FaceTimeInit ==
  /\ gpuLock = 1 /\ avatar = [a \in Avatars |-> "none"] /\ severed = {}
  /\ creator = [c \in Creators |-> NoTask]
  /\ destroyer = [d \in Destroyers |-> NoAvatar] /\ exceptions = 0

-------------------------------------------------------------------------------
(* create_session.  For a registered agent it returns the session there is *)
(* and changes nothing.                                                    *)

CreateSession(c, a) ==
  /\ creator[c] = NoTask /\ avatar[a] = "none"
  /\ creator' = [creator EXCEPT ![c] = [step |-> "acquire", agent |-> a]]
  /\ UNCHANGED <<gpuLock, avatar, severed, destroyer, exceptions>>

AcquireGpu(c) ==
  /\ creator[c].step = "acquire" /\ gpuLock > 0
  /\ gpuLock' = gpuLock - 1
  /\ creator' = [creator EXCEPT ![c].step = "start"]
  /\ UNCHANGED <<avatar, severed, destroyer, exceptions>>

Started(c) ==
  /\ creator[c].step = "start"
  /\ avatar' = [avatar EXCEPT ![creator[c].agent] = "SIGNALING"]
  /\ creator' = [creator EXCEPT ![c] = NoTask]
  /\ UNCHANGED <<gpuLock, severed, destroyer, exceptions>>

\* The broker cannot be reached: the exception leaves with the permit.
StartRaises(c) ==
  /\ creator[c].step = "start" /\ exceptions < MaxRaises
  /\ exceptions' = exceptions + 1
  /\ creator' = [creator EXCEPT ![c] = NoTask]
  /\ UNCHANGED <<gpuLock, avatar, severed, destroyer>>

-------------------------------------------------------------------------------
(* destroy_session: only whoever pops the session stops it.                *)

AlsoWhenGone(a) == TRUE
IsThere(a)      == avatar[a] # "none"

DestroySession(d, a) ==
  /\ destroyer[d] = NoAvatar /\ IsThere(a)
  /\ avatar' = [avatar EXCEPT ![a] = "none"]
  /\ destroyer' = [destroyer EXCEPT ![d] = a]
  /\ severed' = severed \ {a}
  /\ UNCHANGED <<gpuLock, creator, exceptions>>

Stopped(d) ==
  /\ destroyer[d] # NoAvatar
  /\ destroyer' = [destroyer EXCEPT ![d] = NoAvatar]
  /\ gpuLock' = gpuLock + 1
  /\ UNCHANGED <<avatar, severed, creator, exceptions>>

StopRaises(d) ==
  /\ destroyer[d] # NoAvatar /\ exceptions < MaxRaises
  /\ exceptions' = exceptions + 1
  /\ destroyer' = [destroyer EXCEPT ![d] = NoAvatar]
  /\ UNCHANGED <<gpuLock, avatar, severed, creator>>

-------------------------------------------------------------------------------
(* What the browser and the network do to a registered session.            *)

Connected(a) ==
  /\ avatar[a] = "SIGNALING" /\ a \notin severed
  /\ avatar' = [avatar EXCEPT ![a] = "CONNECTED"]
  /\ UNCHANGED <<gpuLock, severed, creator, destroyer, exceptions>>

ConnectionEnds(a) ==
  /\ avatar[a] # "none" /\ a \notin severed
  /\ avatar' = [avatar EXCEPT ![a] = "CLOSED"] /\ severed' = severed \cup {a}
  /\ UNCHANGED <<gpuLock, creator, destroyer, exceptions>>

\* The signaling loop reads on after the connection is closed.
PeerLeft(a) ==
  /\ avatar[a] \in {"CONNECTED", "CLOSED"}
  /\ avatar' = [avatar EXCEPT ![a] = "SIGNALING"]
  /\ UNCHANGED <<gpuLock, severed, creator, destroyer, exceptions>>

FaceTimeNext ==
  \/ \E c \in Creators : \/ \E a \in Avatars : CreateSession(c, a)
                         \/ AcquireGpu(c) \/ Started(c) \/ StartRaises(c)
  \/ \E d \in Destroyers : \/ \E a \in Avatars : DestroySession(d, a)
                           \/ Stopped(d) \/ StopRaises(d)
  \/ \E a \in Avatars : Connected(a) \/ ConnectionEnds(a) \/ PeerLeft(a)

FaceTimeSpec == FaceTimeInit /\ [][FaceTimeNext]_faceTimeVars

-------------------------------------------------------------------------------
(* The type invariant.                                                     *)
FaceTimeTypeOK ==
  /\ gpuLock \in 0..1 /\ exceptions \in 0..MaxRaises
  /\ avatar \in [Avatars -> {"none", "SIGNALING", "CONNECTED", "CLOSED"}]
  /\ severed \subseteq Avatars /\ creator \in [Creators -> Stages]
  /\ destroyer \in [Destroyers -> Avatars \cup {NoAvatar}]

Starting   == {c \in Creators : creator[c].step = "start"}
Registered == {a \in Avatars : avatar[a] # "none"}
Ending     == {d \in Destroyers : destroyer[d] # NoAvatar}

(* The GPU permit is never doubled: whoever creates and destroys sessions  *)
(* in whatever order, it is free, or held by the one session that starts,  *)
(* runs or stops, or an exception of start or stop took it away for good.  *)
FaceTimeKeeps ==
  gpuLock + Cardinality(Starting) + Cardinality(Registered) + Cardinality(Ending) + exceptions = 1

===============================================================================
