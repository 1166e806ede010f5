-------------------------------- MODULE WebRtc --------------------------------
(***************************************************************************)
(* The WebRTC rail of one agent (skcomms/transports/webrtc.py).  Threads   *)
(* call send(); one event loop reads the signaling socket and runs the     *)
(* offers that send() or a welcome started.  _peers maps a remote to a     *)
(* PeerConnection object: a stub without a connection, or the object of    *)
(* the latest offer made or received.  The remotes, the broker and the ICE *)
(* stack do what they like.                                                *)
(*                                                                         *)
(* The definitions no action uses are plausible faults of the one after.   *)
(***************************************************************************)
EXTENDS Naturals, Sequences, FiniteSets

CONSTANTS Remotes, Callers,
          Slots,       \* offers of send() that can be in flight at once
          Reader,      \* the coroutine that reads the signaling socket
          MaxObjects,  \* bound on the PeerConnection objects of a behaviour
          MaxStops     \* bound on stop(), which configure() calls too

ASSUME WebRtcAssumption ==
  /\ Reader \notin Slots /\ MaxObjects \in Nat /\ MaxStops \in Nat
  /\ IsFiniteSet(Remotes) /\ IsFiniteSet(Slots)

Workers == Slots \cup {Reader}

VARIABLES
  running, looping,  \* _running; the loop runs, and accepts work
  broker,            \* the signaling socket is connected
  entry,             \* _peers: an object, 0 for none
  objs,              \* the PeerConnection objects, in the order of their making
  work,              \* what each coroutine does
  todo,              \* peers of a welcome, or of a stop, not yet looked at
  call,              \* what each call of send() does
  stops,
  broken,            \* history: objects whose channel failed a send
  handed, stranded,  \* history: objects whose offer or answer the broker took, or lost
  cleared            \* history: remotes whose negotiation ended under a running offer

webrtcVars == <<running, looping, broker, entry, objs, work, todo, call, stops,
                broken, handed, stranded, cleared>>

Free    == [at |-> "free"]
Reading == work[Reader] = Free /\ todo = {} /\ broker
Offers(p) == {w \in Workers : work[w].at \in {"queued", "offering"} /\ work[w].to = p}
Calls(p)  == {s \in Callers : call[s].at = "scheduling" /\ call[s].to = p}
Busy(p)   == Offers(p) \cup Calls(p) # {}
Clears(P) == cleared' = {p \in cleared \cup P : Busy(p)'}
Keeps     == Clears({})

Stub(p)         == [to |-> p, pc |-> FALSE, connected |-> FALSE, negotiating |-> TRUE,
                    remote |-> FALSE, open |-> FALSE]
Real(p, remote) == [Stub(p) EXCEPT !.pc = TRUE, !.remote = remote]
Room            == Len(objs) < MaxObjects
New             == Len(objs) + 1
Register(o)     == /\ Room /\ objs' = Append(objs, o)
                   /\ entry' = [entry EXCEPT ![o.to] = New]
Ends(o)         == [objs EXCEPT ![o].negotiating = FALSE]
Does(w, t)      == work' = [work EXCEPT ![w] = t]
Hands(o, sent)  == /\ handed' = IF sent THEN handed \cup {o} ELSE handed
                   /\ stranded' = IF sent THEN stranded ELSE stranded \cup {o}
Says(s, t)      == call' = [call EXCEPT ![s] = t]

WebRtcInit ==
  /\ running = TRUE /\ looping = FALSE /\ broker = FALSE
  /\ entry = [p \in Remotes |-> 0] /\ objs = <<>>
  /\ work = [w \in Workers |-> Free] /\ todo = {}
  /\ call = [s \in Callers |-> Free] /\ stops = 0
  /\ broken = {} /\ handed = {} /\ stranded = {} /\ cleared = {}

-------------------------------------------------------------------------------
(* send()                                                                  *)

Call(s, p) ==
  /\ call[s] = Free /\ running /\ Says(s, [at |-> "checked", to |-> p])
  /\ UNCHANGED <<running, looping, broker, entry, objs, work, todo, stops, broken, handed, stranded>>
  /\ Keeps

IsConnected(p)   == entry[p] # 0 /\ objs[entry[p]].connected
IsNegotiating(p) == entry[p] # 0 /\ objs[entry[p]].negotiating

LeftUnmarked(p) == objs
Marked(p)   == [objs EXCEPT ![entry[p]].negotiating = TRUE]

\* The section under _peers_lock.
Decide(s) ==
  LET p == call[s].to IN
  /\ call[s].at = "checked"
  /\ \/ IsConnected(p)
        /\ Says(s, [at |-> "sending", to |-> p, obj |-> entry[p]])
        /\ UNCHANGED <<entry, objs>>
     \/ ~IsConnected(p) /\ IsNegotiating(p) /\ Says(s, Free) /\ UNCHANGED <<entry, objs>>
     \/ /\ ~IsConnected(p) /\ ~IsNegotiating(p)
        /\ IF entry[p] = 0
           THEN /\ Register(Stub(p))
                /\ Says(s, [at |-> "scheduling", to |-> p, obj |-> New])
           ELSE /\ objs' = Marked(p) /\ UNCHANGED entry
                /\ Says(s, [at |-> "scheduling", to |-> p, obj |-> entry[p]])
  /\ UNCHANGED <<running, looping, broker, work, todo, stops, broken, handed, stranded>>
  /\ Keeps

Schedule(s, w) ==
  /\ call[s].at = "scheduling" /\ running /\ looping /\ work[w] = Free
  /\ Does(w, [at |-> "queued", to |-> call[s].to]) /\ Says(s, Free)
  /\ UNCHANGED <<running, looping, broker, entry, objs, todo, stops, broken, handed, stranded>>
  /\ Keeps

\* Before the loop runs and after a stop() it takes no offer, and the mark stays.
CannotSchedule(s) ==
  /\ call[s].at = "scheduling" /\ ~(running /\ looping)
  /\ stranded' = stranded \cup {call[s].obj} /\ Says(s, Free)
  /\ UNCHANGED <<running, looping, broker, entry, objs, work, todo, stops, broken, handed>>
  /\ Keeps

ChannelSent(s) ==
  /\ call[s].at = "sending" /\ looping /\ objs[call[s].obj].open
  /\ Says(s, Free)
  /\ UNCHANGED <<running, looping, broker, entry, objs, work, todo, stops, broken, handed, stranded>>
  /\ Keeps

SameName(s) == entry[call[s].to] # 0
\* "is peer": the entry may have been replaced meanwhile.
SameObject(s) == entry[call[s].to] = call[s].obj

ChannelFailed(s) ==
  /\ call[s].at = "sending"
  /\ objs' = IF SameObject(s) THEN [objs EXCEPT ![entry[call[s].to]].connected = FALSE]
                              ELSE objs
  /\ broken' = broken \cup {call[s].obj}
  /\ Says(s, Free)
  /\ UNCHANGED <<running, looping, broker, entry, work, todo, stops, handed, stranded>>
  /\ Keeps

-------------------------------------------------------------------------------
(* _initiate_offer, run for send() in a slot or by the reader itself.      *)

StartOffer(w) ==
  /\ looping /\ work[w].at = "queued"
  /\ Register(Real(work[w].to, FALSE))
  /\ Does(w, [at |-> "offering", to |-> work[w].to, obj |-> New])
  /\ UNCHANGED <<running, looping, broker, todo, call, stops, broken, handed, stranded>>
  /\ Keeps

\* _send_signal only warns when the broker is away.
SendOffer(w) ==
  /\ looping /\ work[w].at = "offering" /\ Does(w, Free) /\ Hands(work[w].obj, broker)
  /\ UNCHANGED <<running, looping, broker, entry, objs, todo, call, stops, broken>>
  /\ Keeps

StaysMarked(p, o) == objs
\* Only the object of this offer, unless none was made.
FailedOffer(p, o) == IF entry[p] # 0 /\ o \in {0, entry[p]} THEN Ends(entry[p]) ELSE objs

OfferFails(w) ==
  LET p == work[w].to
      o == IF work[w].at = "queued" THEN 0 ELSE work[w].obj IN
  /\ looping /\ work[w].at \in {"queued", "offering"} /\ Does(w, Free)
  /\ objs' = FailedOffer(p, o)
  /\ UNCHANGED <<running, looping, broker, entry, todo, call, stops, broken, handed, stranded>>
  /\ Clears({p})

\* aiortc is not installed: the coroutine returns before it makes a connection, and
\* the mark of the entry stays.
OfferNotBegun(w) ==
  LET p == work[w].to IN
  /\ looping /\ work[w].at = "queued" /\ Does(w, Free)
  /\ stranded' = stranded \cup ({entry[p]} \ {0})
  /\ UNCHANGED <<running, looping, broker, entry, objs, todo, call, stops, broken, handed>>
  /\ Keeps

-------------------------------------------------------------------------------
(* _handle_signal: the reader takes one message at a time.                 *)

Welcomed(P) ==
  /\ looping /\ Reading /\ todo' = P
  /\ UNCHANGED <<running, looping, broker, entry, objs, work, call, stops, broken, handed, stranded>>
  /\ Keeps

\* The check and the stub are one step under the lock.
WelcomePeer(p) ==
  /\ looping /\ running /\ work[Reader] = Free /\ p \in todo /\ todo' = todo \ {p}
  /\ IF entry[p] = 0
     THEN Register(Stub(p)) /\ Does(Reader, [at |-> "queued", to |-> p])
     ELSE UNCHANGED <<entry, objs, work>>
  /\ UNCHANGED <<running, looping, broker, call, stops, broken, handed, stranded>>
  /\ Keeps

PeerLeft(p) ==
  /\ looping /\ Reading /\ entry' = [entry EXCEPT ![p] = 0]
  /\ UNCHANGED <<running, looping, broker, objs, work, todo, call, stops, broken, handed, stranded>>
  /\ Clears({p})

OfferReceived(p) ==
  /\ looping /\ Reading /\ Register(Real(p, TRUE))
  /\ Does(Reader, [at |-> "answering", to |-> p, obj |-> New])
  /\ UNCHANGED <<running, looping, broker, todo, call, stops, broken, handed, stranded>>
  /\ Clears({p})

\* Whether the answer was sent or its making failed, the handler is done; a
\* failure is only logged.
Answered(sentIt) ==
  /\ looping /\ work[Reader].at = "answering" /\ Does(Reader, Free)
  /\ Hands(work[Reader].obj, sentIt /\ broker)
  /\ UNCHANGED <<running, looping, broker, entry, objs, todo, call, stops, broken>>
  /\ Keeps

\* An answer for a stub raises, and the handler logs it.
AnswerReceived(p) ==
  /\ looping /\ Reading /\ entry[p] # 0 /\ objs[entry[p]].pc
  /\ objs' = [objs EXCEPT ![entry[p]].remote = TRUE]
  /\ UNCHANGED <<running, looping, broker, entry, work, todo, call, stops, broken, handed, stranded>>
  /\ Keeps

BrokerLost ==
  /\ looping /\ Reading /\ broker' = FALSE
  /\ objs' = [o \in DOMAIN objs |->
                IF entry[objs[o].to] = o THEN [objs[o] EXCEPT !.negotiating = FALSE]
                                         ELSE objs[o]]
  /\ UNCHANGED <<running, looping, entry, work, todo, call, stops, broken, handed, stranded>>
  /\ Clears(Remotes)

BrokerBack ==
  /\ looping /\ running /\ ~broker /\ broker' = TRUE
  /\ UNCHANGED <<running, looping, entry, objs, work, todo, call, stops, broken, handed, stranded>>
  /\ Keeps

-------------------------------------------------------------------------------
(* The events of a connection whose two descriptions are set.  An object   *)
(* that nothing refers to any more has events, too, but nobody sees them.  *)

Referenced(o) == entry[objs[o].to] = o \/ \E s \in Callers : call[s].at = "sending" /\ call[s].obj = o

Event(o, after) ==
  /\ looping /\ Referenced(o) /\ objs[o].remote /\ objs[o] # after
  /\ objs' = [objs EXCEPT ![o] = after]
  /\ UNCHANGED <<running, looping, broker, entry, work, todo, call, stops, broken, handed, stranded>>
  /\ Clears({objs[o].to})

IceEnds(o)   == Event(o, [objs[o] EXCEPT !.negotiating = FALSE])
ChannelOpens(o) == o \notin broken /\
  Event(o, [objs[o] EXCEPT !.open = TRUE, !.connected = TRUE, !.negotiating = FALSE])
ChannelCloses(o) == objs[o].open /\
  Event(o, [objs[o] EXCEPT !.open = FALSE, !.connected = FALSE])

-------------------------------------------------------------------------------
(* stop() and start(): _async_stop pops the peers it found, then the loop  *)
(* is stopped and what its coroutines were doing is lost.                  *)

Stop ==
  /\ running /\ stops < MaxStops /\ stops' = stops + 1
  /\ running' = FALSE /\ todo' = IF looping THEN {p \in Remotes : entry[p] # 0} ELSE {}
  /\ UNCHANGED <<looping, broker, entry, objs, work, call, broken, handed, stranded>>
  /\ Keeps

StopPeer(p) ==
  /\ ~running /\ looping /\ p \in todo /\ todo' = todo \ {p}
  /\ entry' = [entry EXCEPT ![p] = 0]
  /\ UNCHANGED <<running, looping, broker, objs, work, call, stops, broken, handed, stranded>>
  /\ Clears({p})

\* Also when _async_stop took more than its five seconds.
StopLoop ==
  /\ ~running /\ looping /\ looping' = FALSE /\ broker' = FALSE /\ todo' = {}
  /\ work' = [w \in Workers |-> Free]
  /\ stranded' = stranded \cup {o \in DOMAIN objs : Busy(objs[o].to)}
                          \cup {work[w].obj : w \in {x \in Workers : work[x].at = "answering"}}
  /\ UNCHANGED <<running, entry, objs, call, stops, broken, handed>>
  /\ Clears(Remotes)

Start ==
  /\ ~running /\ ~looping /\ running' = TRUE
  /\ UNCHANGED <<looping, broker, entry, objs, work, todo, call, stops, broken, handed, stranded>>
  /\ Keeps

\* The thread of the loop gets to run it.
RunLoop ==
  /\ running /\ ~looping /\ looping' = TRUE
  /\ UNCHANGED <<running, broker, entry, objs, work, todo, call, stops, broken, handed, stranded>>
  /\ Keeps

WebRtcNext ==
  \/ \E s \in Callers : \/ Decide(s) \/ CannotSchedule(s) \/ ChannelSent(s) \/ ChannelFailed(s)
                        \/ \E p \in Remotes : Call(s, p)
                        \/ \E w \in Slots : Schedule(s, w)
  \/ \E w \in Workers : StartOffer(w) \/ SendOffer(w) \/ OfferFails(w) \/ OfferNotBegun(w)
  \/ \E P \in SUBSET Remotes : Welcomed(P)
  \/ \E p \in Remotes : \/ WelcomePeer(p) \/ PeerLeft(p) \/ OfferReceived(p)
                        \/ AnswerReceived(p) \/ StopPeer(p)
  \/ \E b \in BOOLEAN : Answered(b)
  \/ BrokerLost \/ BrokerBack \/ Stop \/ StopLoop \/ Start \/ RunLoop
  \/ \E o \in DOMAIN objs : IceEnds(o) \/ ChannelOpens(o) \/ ChannelCloses(o)

WebRtcSpec == WebRtcInit /\ [][WebRtcNext]_webrtcVars

-------------------------------------------------------------------------------
PeerConnections == [to : Remotes, pc : BOOLEAN, connected : BOOLEAN,
                    negotiating : BOOLEAN, remote : BOOLEAN, open : BOOLEAN]
Ids    == 1..MaxObjects
Coroutines  == {Free} \cup [at : {"checked", "queued"}, to : Remotes]
                 \cup [at : {"scheduling", "sending", "offering", "answering"},
                       to : Remotes, obj : Ids]

(* Every variable keeps its shape.                                         *)
WebRtcTypeOK ==
  /\ running \in BOOLEAN /\ looping \in BOOLEAN /\ broker \in BOOLEAN
  /\ entry \in [Remotes -> {0} \cup DOMAIN objs]
  /\ Len(objs) \in 0..MaxObjects /\ \A o \in DOMAIN objs : objs[o] \in PeerConnections
  /\ work \in [Workers -> Coroutines] /\ call \in [Callers -> Coroutines]
  /\ todo \subseteq Remotes /\ stops \in 0..MaxStops
  /\ broken \subseteq Ids /\ handed \subseteq Ids /\ stranded \subseteq Ids /\ cleared \subseteq Remotes

(* webrtc.py, "preventing duplicate ICE offers": two offers to one remote  *)
(* are under way only if the first lost its mark to an event of the peer,  *)
(* the broker or a stop.                                                   *)
OneOffer == \A p \in Remotes :
  p \notin cleared => Cardinality(Offers(p)) + Cardinality(Calls(p)) <= 1

(* webrtc.py, "rather than leaving peers stuck in negotiating": a remote   *)
(* whose entry negotiates, and gets no other offer until it stops to, has  *)
(* an offer or answer on its way, or the broker took the entry's own.      *)
(* Stranded are those that met a loop not running or interrupted by a      *)
(* stop, those written while the broker was away, the answers that failed, *)
(* and the offers not begun as aiortc is not installed.                    *)
NobodyStuck == \A p \in Remotes : IsNegotiating(p) =>
  \/ Busy(p) \/ \E w \in Workers : work[w].at = "answering" /\ work[w].to = p
  \/ entry[p] \in handed \cup stranded

(* webrtc.py, "wrongly marking the new stub as disconnected": a channel    *)
(* that is open and never failed is not given up.                          *)
OpenIsUsed == \A o \in DOMAIN objs \ broken : objs[o].open => objs[o].connected

WebRtcKeeps == OneOffer /\ NobodyStuck /\ OpenIsUsed
===============================================================================
