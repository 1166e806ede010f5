--------------------------------- MODULE Radio --------------------------------
(***************************************************************************)
(* The radio rails (skcomms/transports/ble node.py and relay.py;           *)
(* skcomms/transports/lora transport.py and store.py; the framing of       *)
(* ble/protocol.py, which both use).                                       *)
(*                                                                         *)
(* The Bluetooth mesh: a node passes a packet on once, with one hop less   *)
(* to live, when its filter has not seen the packet's id; the filter may   *)
(* mistake a new id for one it has seen.  What a radio broadcasts reaches  *)
(* each neighbour in its own time, or not at all.                          *)
(*                                                                         *)
(* The LoRa rail: a letter is cut into frames; a drain takes from the      *)
(* queue as many as the airtime of the present window still allows, and    *)
(* hands them to the radio one after the other.  The radio blocks the      *)
(* event loop while it sends, so no other drain runs meanwhile, but time   *)
(* passes.  The mesh loses, delays and repeats frames.                     *)
(*                                                                         *)
(* The definitions no action uses are plausible faults of the one after    *)
(* them.                                                                   *)
(***************************************************************************)
EXTENDS Naturals, Sequences, FiniteSets

CONSTANTS MeshNodes,
          Linked,        \* the pairs of nodes whose radios hear each other
          Everyone,      \* BROADCAST_ID
          DefaultTtl,
          PacketCount,   \* bound on the packets sent
          MaxMisses      \* bound on frames lost, ids mistaken and radios stopped

ASSUME MeshAssumption ==
  /\ IsFiniteSet(MeshNodes) /\ Linked \subseteq MeshNodes \X MeshNodes /\ Everyone \notin MeshNodes
  /\ DefaultTtl \in Nat \ {0} /\ PacketCount \in Nat /\ MaxMisses \in Nat

PacketIds == 1..PacketCount
Packets   == [from : MeshNodes, to : MeshNodes \cup {Everyone}]
Hops      == 0..DefaultTtl

VARIABLES
  packet,    \* the packets sent so far, by id
  filter,    \* _seen of each node
  radioOn,
  forwards,  \* rebroadcasts scheduled
  onAir,     \* frames on their way to a neighbour
  given,     \* history: how often a node handed a packet up
  missed,    \* history: the packets of which some frame went astray
  misses     \* history: what went wrong so far

meshVars == <<packet, filter, radioOn, forwards, onAir, given, missed, misses>>

MeshInit ==
  /\ packet = <<>> /\ filter = [n \in MeshNodes |-> {}] /\ radioOn = MeshNodes
  /\ forwards = {} /\ onAir = {}
  /\ given = [n \in MeshNodes |-> [i \in PacketIds |-> 0]]
  /\ missed = {} /\ misses = 0

SentIds   == DOMAIN packet
Near(n) == {m \in MeshNodes : <<n, m>> \in Linked}

\* radio.broadcast: it raises when the radio is not started.
Broadcast(n, i, ttl, rest) ==
  IF n \in radioOn
  THEN /\ onAir' = rest \cup {[by |-> n, to |-> m, id |-> i, ttl |-> ttl] : m \in Near(n)}
       /\ UNCHANGED missed
  ELSE onAir' = rest /\ missed' = missed \cup {i}

-------------------------------------------------------------------------------
(* send_to and send_broadcast: the sender's own filter sees the packet.    *)

SendPacket(n, to) ==
  LET i == Len(packet) + 1 IN
  /\ i \in PacketIds /\ to # n
  /\ packet' = Append(packet, [from |-> n, to |-> to])
  /\ filter' = [filter EXCEPT ![n] = @ \cup {i}]
  /\ Broadcast(n, i, DefaultTtl, onAir)
  /\ UNCHANGED <<radioOn, forwards, given, misses>>

-------------------------------------------------------------------------------
(* consider, and what _handle_frame does with its decision.                *)

HopsLeft(ttl) == ttl - 1
ForMe(n, i)   == packet[i].to = n
DeliverLocal(n, i) == packet[i].to \in {n, Everyone} /\ packet[i].from # n
LastHopLost(n, i, ttl) == HopsLeft(ttl) > 1 /\ ~ForMe(n, i)
Forward(n, i, ttl)     == HopsLeft(ttl) > 0 /\ ~ForMe(n, i)

HearDuplicate(f) ==
  /\ f.to \in radioOn /\ f.id \in filter[f.to]
  /\ onAir' = onAir \ {f}
  /\ UNCHANGED <<packet, filter, radioOn, forwards, given, missed, misses>>

\* The bits of ids seen earlier make this one look seen, now and from now on.
Mistake(f) ==
  /\ f.to \in radioOn /\ f.id \notin filter[f.to]
  /\ misses < MaxMisses /\ misses' = misses + 1
  /\ onAir' = onAir \ {f} /\ missed' = missed \cup {f.id}
  /\ filter' = [filter EXCEPT ![f.to] = @ \cup {f.id}]
  /\ UNCHANGED <<packet, radioOn, forwards, given>>

HearNew(f) ==
  /\ f.to \in radioOn /\ f.id \notin filter[f.to]
  /\ onAir' = onAir \ {f}
  /\ filter' = [filter EXCEPT ![f.to] = @ \cup {f.id}]
  /\ given' = IF DeliverLocal(f.to, f.id) THEN [given EXCEPT ![f.to][f.id] = @ + 1] ELSE given
  /\ forwards' = IF Forward(f.to, f.id, f.ttl)
                 THEN forwards \cup {[by |-> f.to, id |-> f.id, ttl |-> HopsLeft(f.ttl)]}
                 ELSE forwards
  /\ UNCHANGED <<packet, radioOn, missed, misses>>

Rebroadcast(r) ==
  /\ forwards' = forwards \ {r}
  /\ Broadcast(r.by, r.id, r.ttl, onAir)
  /\ UNCHANGED <<packet, filter, radioOn, given, misses>>

-------------------------------------------------------------------------------
(* The air, and radios that stop and start.                                *)

Lose(f) ==
  /\ f.to \notin radioOn \/ misses < MaxMisses
  /\ misses' = IF f.to \in radioOn THEN misses + 1 ELSE misses
  /\ onAir' = onAir \ {f} /\ missed' = missed \cup {f.id}
  /\ UNCHANGED <<packet, filter, radioOn, forwards, given>>

StopRadio(n) ==
  /\ n \in radioOn /\ misses < MaxMisses /\ misses' = misses + 1
  /\ radioOn' = radioOn \ {n}
  /\ UNCHANGED <<packet, filter, forwards, onAir, given, missed>>

StartRadio(n) ==
  /\ n \notin radioOn /\ radioOn' = radioOn \cup {n}
  /\ UNCHANGED <<packet, filter, forwards, onAir, given, missed, misses>>

MeshNext ==
  \/ \E n \in MeshNodes : \/ \E to \in MeshNodes \cup {Everyone} : SendPacket(n, to)
                          \/ StopRadio(n) \/ StartRadio(n)
  \/ \E f \in onAir : HearDuplicate(f) \/ Mistake(f) \/ HearNew(f) \/ Lose(f)
  \/ \E r \in forwards : Rebroadcast(r)

MeshSpec == MeshInit /\ [][MeshNext]_meshVars

-------------------------------------------------------------------------------
(* Every variable of the mesh keeps its shape.                             *)
MeshTypeOK ==
  /\ packet \in Seq(Packets) /\ Len(packet) \in 0..PacketCount
  /\ filter \in [MeshNodes -> SUBSET PacketIds] /\ radioOn \subseteq MeshNodes
  /\ forwards \subseteq [by : MeshNodes, id : PacketIds, ttl : Hops]
  /\ onAir \subseteq [by : MeshNodes, to : MeshNodes, id : PacketIds, ttl : Hops]
  /\ given \in [MeshNodes -> [PacketIds -> 0..1]]
  /\ missed \subseteq PacketIds /\ misses \in 0..MaxMisses

\* m lies in every set of nodes around n that no link leaves.
Connects(n, m) ==
  \A S \in SUBSET MeshNodes : n \in S /\ (\A s \in S : Near(s) \subseteq S) => m \in S

Settled(i) == /\ \A f \in onAir : f.id # i
              /\ \A r \in forwards : r.id # i

(* The flood neither storms nor dries up: a node hands a packet up once at *)
(* most, and when the last frame of a packet has been heard, and none went *)
(* astray, every node it is for that some path of radios reaches has it,   *)
(* whichever copy came first on whichever path, provided the packet may    *)
(* live as many hops as the longest path has.                              *)
MeshKeeps ==
  \A i \in SentIds : \A n \in MeshNodes :
    /\ given[n][i] <= 1
    /\ /\ Settled(i) /\ i \notin missed /\ DefaultTtl >= Cardinality(MeshNodes) - 1
       /\ DeliverLocal(n, i) /\ Connects(packet[i].from, n)
       => given[n][i] = 1

-------------------------------------------------------------------------------
(* The LoRa rail.                                                          *)

CONSTANTS LoraLetters,    \* bound on the letters sent
          PerLetter,      \* frames of a letter; its frames are numbered through
          MaxAirtime,     \* max_bytes, in frames
          WindowTicks,    \* window_s, in ticks
          LastMoment,     \* the clock runs to this tick
          MaxRadioFaults  \* bound on frames lost or repeated and sends that raise

ASSUME LoraAssumption ==
  /\ LoraLetters \in Nat /\ PerLetter \in Nat \ {0} /\ MaxAirtime \in Nat \ {0}
  /\ WindowTicks \in Nat \ {0} /\ LastMoment \in Nat \ {0} /\ MaxRadioFaults \in Nat

LetterNumbers == 1..LoraLetters
FrameNumbers  == 1..(LoraLetters * PerLetter)
FramesOf(l)   == ((l - 1) * PerLetter + 1)..(l * PerLetter)
LetterOf(k)   == (k - 1) \div PerLetter + 1

VARIABLES
  moment,                \* the clock
  queued,                \* _q: the frames held back
  airUsed, windowStart,  \* the budget; the window 0 was never started
  draining,              \* the frames a drain has taken and not yet sent
  cutUp,                 \* the letters sent
  inAir,                 \* frames on their way
  slots,                 \* _buf: the frames of each letter the receiver holds
  faults,
  aired,                 \* history: the tick each frame was sent at
  spilt,                 \* history: frames taken and never sent
  arrived, handedUp      \* history: arrivals of frames, letters handed up

budget   == <<airUsed, windowStart>>
receiver == <<slots, arrived, handedUp>>
loraVars == <<moment, queued, budget, draining, cutUp, inAir, receiver, faults, aired, spilt>>

LoraInit ==
  /\ moment = 1 /\ queued = <<>> /\ airUsed = 0 /\ windowStart = 0
  /\ draining = <<>> /\ cutUp = 0 /\ inAir = {} /\ faults = 0 /\ spilt = 0
  /\ aired = <<>>
  /\ slots = [l \in LetterNumbers |-> {}]
  /\ arrived = [k \in FrameNumbers |-> 0] /\ handedUp = [l \in LetterNumbers |-> 0]

-------------------------------------------------------------------------------
(* _roll, can_send and record; drain_with_dest takes what fits at once.    *)

RollsEarly == windowStart = 0 \/ moment - windowStart >= WindowTicks - 1
Rolls      == windowStart = 0 \/ moment - windowStart >= WindowTicks
Spent      == IF Rolls THEN 0 ELSE airUsed
Fits(q)    == IF Spent + Len(q) <= MaxAirtime THEN Len(q) ELSE MaxAirtime - Spent

\* An empty queue does not even look at the window.
DrainWithDest(q) ==
  /\ draining = <<>>
  /\ draining' = SubSeq(q, 1, Fits(q)) /\ queued' = SubSeq(q, Fits(q) + 1, Len(q))
  /\ airUsed' = Spent + Fits(q)
  /\ windowStart' = IF Rolls THEN moment ELSE windowStart

SendAsync ==
  /\ cutUp < LoraLetters /\ cutUp' = cutUp + 1
  /\ DrainWithDest(queued \o [k \in 1..PerLetter |-> cutUp * PerLetter + k])
  /\ UNCHANGED <<moment, inAir, receiver, faults, aired, spilt>>

Flush ==
  /\ queued # <<>> /\ DrainWithDest(queued)
  /\ UNCHANGED <<moment, cutUp, inAir, receiver, faults, aired, spilt>>

-------------------------------------------------------------------------------
(* The radio.                                                              *)

SendFrame ==
  /\ draining # <<>> /\ draining' = Tail(draining)
  /\ inAir' = inAir \cup {Head(draining)}
  /\ aired' = Append(aired, moment)
  /\ UNCHANGED <<moment, queued, budget, cutUp, receiver, faults, spilt>>

\* The rest of what was taken from the queue is gone.
SendFrameRaises ==
  /\ draining # <<>> /\ draining' = <<>>
  /\ faults < MaxRadioFaults /\ faults' = faults + 1
  /\ spilt' = spilt + Len(draining)
  /\ UNCHANGED <<moment, queued, budget, cutUp, inAir, receiver, aired>>

LoseFrame(k) ==
  /\ faults < MaxRadioFaults /\ faults' = faults + 1
  /\ inAir' = inAir \ {k}
  /\ UNCHANGED <<moment, queued, budget, draining, cutUp, receiver, aired, spilt>>

\* feed: what completes a letter empties its slots.
Hear(k) ==
  LET l == LetterOf(k)
      held == slots[l] \cup {k} IN
  /\ arrived' = [arrived EXCEPT ![k] = @ + 1]
  /\ IF held = FramesOf(l)
     THEN /\ slots' = [slots EXCEPT ![l] = {}]
          /\ handedUp' = [handedUp EXCEPT ![l] = @ + 1]
     ELSE slots' = [slots EXCEPT ![l] = held] /\ UNCHANGED handedUp
  /\ UNCHANGED <<moment, queued, budget, draining, cutUp, aired, spilt>>

HearFrame(k) == inAir' = inAir \ {k} /\ UNCHANGED faults /\ Hear(k)
HearTwice(k) == /\ faults < MaxRadioFaults /\ faults' = faults + 1
                /\ UNCHANGED inAir /\ Hear(k)

ClockTicks ==
  /\ moment < LastMoment /\ moment' = moment + 1
  /\ UNCHANGED <<queued, budget, draining, cutUp, inAir, receiver, faults, aired, spilt>>

LoraNext ==
  \/ SendAsync \/ Flush \/ SendFrame \/ SendFrameRaises \/ ClockTicks
  \/ \E k \in inAir : LoseFrame(k) \/ HearFrame(k) \/ HearTwice(k)

LoraSpec == LoraInit /\ [][LoraNext]_loraVars

-------------------------------------------------------------------------------
(* Every variable of the LoRa rail keeps its shape.                        *)
LoraTypeOK ==
  /\ moment \in 1..LastMoment /\ airUsed \in 0..MaxAirtime /\ windowStart \in 0..moment
  /\ queued \in Seq(FrameNumbers) /\ draining \in Seq(FrameNumbers)
  /\ cutUp \in 0..LoraLetters /\ inAir \subseteq FrameNumbers /\ faults \in 0..MaxRadioFaults
  /\ slots \in [LetterNumbers -> SUBSET FrameNumbers] /\ spilt \in Nat
  /\ aired \in Seq(1..LastMoment) /\ arrived \in [FrameNumbers -> Nat]
  /\ handedUp \in [LetterNumbers -> Nat]

Span(t) == {i \in DOMAIN aired : aired[i] >= t /\ aired[i] < t + WindowTicks}

(* In any stretch of time as long as the window no more than two windows'  *)
(* worth of frames goes on the air, however late the radio sends what a    *)
(* drain took (the bound the comment of AirtimeBudget relies on).  Frames  *)
(* leave in the order they were cut, and none that no send failed on is    *)
(* left out.  A letter is handed up at most as often as its rarest frame   *)
(* was heard.                                                              *)
LoraKeeps ==
  /\ \A t \in 1..LastMoment : Cardinality(Span(t)) <= 2 * MaxAirtime
  /\ LET outOf == Len(aired) + spilt IN
       draining \o queued = [i \in 1..(cutUp * PerLetter - outOf) |-> outOf + i]
  /\ \A l \in LetterNumbers : \A k \in FramesOf(l) : handedUp[l] <= arrived[k]

(* The flood of the mesh reaches whom it can, once (see MeshKeeps), and    *)
(* the LoRa rail keeps its airtime and its order (see LoraKeeps).          *)
RadioKeeps == MeshKeeps /\ LoraKeeps
===============================================================================
