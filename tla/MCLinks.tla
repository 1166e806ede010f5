-------------------------------- MODULE MCLinks --------------------------------
(* The router, the sealing of what it carries, and the links of a node     *)
(* that share no state with it or with one another, in one instance for    *)
(* TLC: "part" chooses which of them a behaviour is about, and the others  *)
(* rest in one of their initial states.                                    *)
EXTENDS MCRouter, Sessions, Nostr, PubSub, Sealing

CONSTANTS V1, V2

VARIABLE part

\* The actors of every part are the Senders, and V1 and V2.
LinksSymmetry == Symmetry \cup Permutations({V1, V2})

LinksInit ==
  /\ part \in {"router", "calls", "nostr", "pubsub", "facetime", "sealing", "wire"}
  /\ Init /\ CallsInit /\ NostrInit /\ PubSubInit /\ FaceTimeInit
  /\ SealingInit
  /\ part # "sealing" => record = "bare" /\ prekey = 0 /\ engine = "whole"
  \* A frame names its speaker: no frame here, so that the speakers are alike.
  /\ IF part = "wire" THEN WireInit
     ELSE /\ ring = {} /\ named = {} /\ hybridRing = {} /\ written = {} /\ frame = {}
          /\ garbles = 0 /\ opened = [r \in Receivers |-> {}]

AtRest(name, state) == IF part = name THEN TRUE ELSE UNCHANGED state

linksVars == <<part, vars, callsVars, nostrVars, pubsubVars, faceTimeVars,
               sealingVars, wireVars>>

LinksNext ==
  /\ \/ /\ part = "router" /\ Next
        /\ \A s \in Senders : ~job'[s].signed   \* of no consequence, as SignedOnly is empty
     \/ part = "calls" /\ CallsNext
     \/ part = "nostr" /\ NostrNext
     \/ part = "pubsub" /\ PubSubNext
     \/ part = "facetime" /\ FaceTimeNext
     \/ part = "sealing" /\ SealingNext
     \/ part = "wire" /\ WireNext
     \/ part # "router" /\ UNCHANGED linksVars   \* at their bounds they stop
  /\ UNCHANGED part
  /\ AtRest("router", vars) /\ AtRest("calls", callsVars) /\ AtRest("nostr", nostrVars)
  /\ AtRest("pubsub", pubsubVars) /\ AtRest("facetime", faceTimeVars)
  /\ AtRest("sealing", sealingVars) /\ AtRest("wire", wireVars)

LinksSpec == LinksInit /\ [][LinksNext]_linksVars

(* Sessions over WebRTC: a call is answered for the offer it is about (see *)
(* CallsKeep), and the GPU permit of the avatars is never doubled (see     *)
(* FaceTimeKeeps).                                                         *)
SessionsKeep == CallsKeep /\ FaceTimeKeeps

(* What is carried: a message is handed once to whom it is for (see        *)
(* BusKeeps), sealed and opened when it can be (see SealingKeeps), and     *)
(* accepted as it was signed or sealed (see WireKeeps).                    *)
TrafficKeeps == BusKeeps /\ SealingKeeps /\ WireKeeps
===============================================================================
