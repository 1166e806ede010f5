------------------------------- MODULE Signaling -------------------------------
(***************************************************************************)
(* The WebRTC signaling broker (skcomms/signaling.py): websocket           *)
(* connections of authenticated fingerprints meet in a room, which relays  *)
(* their signals.  The broker is one asyncio thread: a handler is          *)
(* suspended only while it sends or receives, and every action below runs  *)
(* from one such point to the next.  The rooms of different ids share      *)
(* nothing, so there is one id here; its room object is made and destroyed *)
(* as its connections come and go.                                         *)
(*                                                                         *)
(* The definitions no action uses are plausible faults of the one after.   *)
(***************************************************************************)
EXTENDS Naturals, FiniteSets

CONSTANTS Conns,         \* websocket connections
          Fps, FpOf,     \* fingerprints, and whose each connection is
          MaxPeers,      \* MAX_PEERS_PER_ROOM
          MaxMessages,   \* MAX_MESSAGES_PER_MINUTE
          NoConn

ASSUME SignalingAssumption ==
  /\ IsFiniteSet(Conns) /\ NoConn \notin Conns /\ FpOf \in [Conns -> Fps]
  /\ MaxPeers \in Nat \ {0} /\ MaxMessages \in Nat

Objects == 1..Cardinality(Conns)   \* room objects: a connection makes at most one

VARIABLES
  room,        \* the broker's room object of this id, 0 for none
  made,        \* room objects made so far
  peers,       \* _peers of each object: fingerprint -> connection
  sessions,    \* _ice_sessions of each object: pairs of fingerprints
  sent,        \* messages of each fingerprint in the current window
  at, inRoom,  \* where each connection's handler is, and in which object
  partners,    \* the sessions its removal still has to cancel
  up,          \* connections whose client is still there
  overlapped,  \* history: connections that shared their fingerprint with another
  late         \* history: fingerprints that negotiated with one being removed

handlers      == <<at, inRoom, partners, up>>
signalingVars == <<room, made, peers, sessions, sent, handlers, overlapped, late>>

Nobody        == [f \in Fps |-> NoConn]
Present(r)    == {f \in Fps : peers[r][f] # NoConn}
Alive(c)       == at[c] \notin {"out", "gone"}
Rivals(c)     == {d \in Conns \ {c} : FpOf[d] = FpOf[c] /\ Alive(d)}
Goes(c, step)   == at' = [at EXCEPT ![c] = step]
IsFull(r)     == Cardinality(Present(r)) >= MaxPeers

SignalingInit ==
  /\ room = 0 /\ made = 0
  /\ peers = [r \in Objects |-> Nobody] /\ sessions = [r \in Objects |-> {}]
  /\ sent = [r \in Objects |-> [f \in Fps |-> 0]]
  /\ at = [c \in Conns |-> "out"] /\ inRoom = [c \in Conns |-> 0]
  /\ partners = [c \in Conns |-> {}] /\ up = {}
  /\ overlapped = {} /\ late = {}

-------------------------------------------------------------------------------
(* get_or_create_room, is_full and the first half of add_peer; the handler *)
(* then awaits the peer_joined and welcome messages.                       *)

RoomFor == IF room # 0 THEN room ELSE made + 1

Connect(c) ==
  /\ at[c] = "out" /\ ~(room # 0 /\ IsFull(room))
  /\ room' = RoomFor /\ made' = IF room # 0 THEN made ELSE made + 1
  /\ peers' = [peers EXCEPT ![RoomFor][FpOf[c]] = c]
  /\ Goes(c, "joining") /\ inRoom' = [inRoom EXCEPT ![c] = RoomFor]
  /\ up' = up \cup {c}
  /\ overlapped' = overlapped \cup IF Rivals(c) = {} THEN {} ELSE Rivals(c) \cup {c}
  /\ UNCHANGED <<sessions, sent, partners, late>>

Refuse(c) ==
  /\ at[c] = "out" /\ room # 0 /\ IsFull(room) /\ Goes(c, "gone")
  /\ UNCHANGED <<room, made, peers, sessions, sent, inRoom, partners, up, overlapped, late>>

Welcome(c) ==
  /\ at[c] = "joining" /\ Goes(c, "open")
  /\ UNCHANGED <<room, made, peers, sessions, sent, inRoom, partners, up, overlapped, late>>

\* add_peer is outside the try: if the welcome cannot be sent, nothing
\* removes the peer again.
WelcomeFails(c) ==
  /\ at[c] = "joining" /\ c \notin up /\ Goes(c, "gone")
  /\ UNCHANGED <<room, made, peers, sessions, sent, inRoom, partners, up, overlapped, late>>

-------------------------------------------------------------------------------
(* The loop of handle_connection.                                          *)

Fp(c)       == FpOf[c]
NotLimited(c)    == sent[inRoom[c]][Fp(c)] > MaxMessages
IsRateLimited(c) == sent[inRoom[c]][Fp(c)] >= MaxMessages

\* The peer is told and its message dropped.
DropMessage(c) ==
  /\ at[c] = "open" /\ IsRateLimited(c) /\ Goes(c, "telling")
  /\ UNCHANGED <<room, made, peers, sessions, sent, inRoom, partners, up, overlapped, late>>

BeingRemoved(f) == \E d \in Conns : FpOf[d] = f /\ at[d] = "cancelling"

\* record_message and relay, up to the send: a candidate opens a session
\* between the two, in both directions.
Relay(c, to, candidate) ==
  /\ at[c] = "open" /\ ~IsRateLimited(c)
  /\ sent' = [sent EXCEPT ![inRoom[c]][Fp(c)] = @ + 1]
  /\ IF peers[inRoom[c]][to] = NoConn
     THEN UNCHANGED <<at, sessions, late>>
     ELSE /\ Goes(c, "telling")
          /\ sessions' = IF candidate
                         THEN [sessions EXCEPT ![inRoom[c]] =
                                 @ \cup {<<Fp(c), to>>, <<to, Fp(c)>>}]
                         ELSE sessions
          /\ late' = late \cup IF candidate /\ BeingRemoved(to) THEN {Fp(c), to} ELSE {}
  /\ UNCHANGED <<room, made, peers, inRoom, partners, up, overlapped>>

Told(c) ==
  /\ at[c] = "telling" /\ Goes(c, "open")
  /\ UNCHANGED <<room, made, peers, sessions, sent, inRoom, partners, up, overlapped, late>>

Window(r, f) ==
  /\ sent[r][f] > 0 /\ sent' = [sent EXCEPT ![r][f] = @ - 1]
  /\ UNCHANGED <<room, made, peers, sessions, handlers, overlapped, late>>

ClientGoes(c) ==
  /\ c \in up /\ up' = up \ {c}
  /\ UNCHANGED <<room, made, peers, sessions, sent, at, inRoom, partners, overlapped, late>>

-------------------------------------------------------------------------------
(* remove_peer and cleanup_room.                                           *)

Own(c) == {s \in sessions[inRoom[c]] : s[1] = Fp(c)}

Disconnect(c) ==
  /\ at[c] = "open" /\ c \notin up /\ Goes(c, "cancelling")
  /\ partners' = [partners EXCEPT ![c] = {s[2] : s \in Own(c)}]
  /\ sessions' = [sessions EXCEPT ![inRoom[c]] = @ \ Own(c)]
  /\ UNCHANGED <<room, made, peers, sent, inRoom, up, overlapped, late>>

KeepReverse(s, c, p) == s
\* The reverse reference goes before the partner is told.
DropReverse(s, c, p) == s \ {<<p, Fp(c)>>}

CancelIce(c, p) ==
  /\ at[c] = "cancelling" /\ p \in partners[c]
  /\ partners' = [partners EXCEPT ![c] = @ \ {p}]
  /\ sessions' = [sessions EXCEPT ![inRoom[c]] = DropReverse(@, c, p)]
  /\ UNCHANGED <<room, made, peers, sent, at, inRoom, up, overlapped, late>>

NeverCleaned(members) == room
\* The room of the id, whichever object it is by now.
CleanupRoom(members) == IF room # 0 /\ members[room] = Nobody THEN 0 ELSE room

\* The entry of the fingerprint is popped, whichever connection it names.
\* With nobody left to notify the handler runs to its end.
Deregister(c) ==
  LET r == inRoom[c] IN
  /\ at[c] = "cancelling" /\ partners[c] = {}
  /\ peers' = [peers EXCEPT ![r][Fp(c)] = NoConn]
  /\ sent' = [sent EXCEPT ![r][Fp(c)] = 0]
  /\ IF Present(r) \subseteq {Fp(c)}
     THEN Goes(c, "gone") /\ room' = CleanupRoom(peers')
     ELSE Goes(c, "leaving") /\ UNCHANGED room
  /\ UNCHANGED <<made, sessions, inRoom, partners, up, overlapped, late>>

Leave(c) ==
  /\ at[c] = "leaving" /\ Goes(c, "gone")
  /\ room' = CleanupRoom(peers)
  /\ UNCHANGED <<made, peers, sessions, sent, inRoom, partners, up, overlapped, late>>

SignalingNext ==
  \/ \E c \in Conns :
       \/ Connect(c) \/ Refuse(c) \/ Welcome(c) \/ WelcomeFails(c)
       \/ DropMessage(c) \/ Told(c) \/ ClientGoes(c)
       \/ Disconnect(c) \/ Deregister(c) \/ Leave(c)
       \/ \E f \in Fps : CancelIce(c, f) \/ \E b \in BOOLEAN : Relay(c, f, b)
  \/ \E r \in Objects, f \in Fps : Window(r, f)

SignalingSpec == SignalingInit /\ [][SignalingNext]_signalingVars

-------------------------------------------------------------------------------
(* Every variable keeps its shape.                                         *)
SignalingTypeOK ==
  /\ room \in 0..made /\ made \in 0..Cardinality(Conns)
  /\ peers \in [Objects -> [Fps -> Conns \cup {NoConn}]]
  /\ sessions \in [Objects -> SUBSET (Fps \X Fps)]
  /\ sent \in [Objects -> [Fps -> 0..MaxMessages]]
  /\ at \in [Conns -> {"out", "joining", "open", "telling", "cancelling", "leaving", "gone"}]
  /\ inRoom \in [Conns -> 0..made] /\ partners \in [Conns -> SUBSET Fps]
  /\ up \subseteq Conns /\ overlapped \subseteq Conns /\ late \subseteq Fps

\* A connection whose fingerprint has no other connection is the one its
\* peers reach: registered, in the room that newcomers are put into.
LoneIsReachable == \A c \in Conns \ overlapped :
  at[c] \in {"joining", "open", "telling"} =>
    inRoom[c] = room /\ peers[room][Fp(c)] = c

\* A room is gone with its last peer, and never takes more than its maximum.
RoomIsAlive == room # 0 => Present(room) # {} /\ Cardinality(Present(room)) <= MaxPeers

\* No ICE session outlives both of its peers, unless a candidate was relayed
\* to a peer that was being removed.
SessionsEnd == room # 0 => \A s \in sessions[room] :
  \/ {s[1], s[2]} \cap late # {}
  \/ \E c \in Conns : Alive(c) /\ inRoom[c] = room /\ FpOf[c] \in {s[1], s[2]}

(* signaling.py, "the single source of truth for all active signaling      *)
(* sessions": connections, rooms and sessions agree however the handlers   *)
(* interleave at their sends.                                              *)
SignalingKeeps == LoneIsReachable /\ RoomIsAlive /\ SessionsEnd
===============================================================================
