------------------------------- MODULE Delivery -------------------------------
(***************************************************************************)
(* Acknowledged delivery of a sender (skcomms/core.py SKComms.send,        *)
(* receive and sweep_ack_timeouts; skcomms/ack.py AckTracker): each send   *)
(* runs in a thread of its own, `receive` in every thread or process that  *)
(* polls.  A message that reached a file queue only is held in the outbox  *)
(* until its ACK arrives; an ACK that does not arrive within the horizon   *)
(* dead-letters the hold.  The ACK files and the outbox are shared and     *)
(* nothing locks them.                                                     *)
(*                                                                         *)
(* The outbox is seen as one slot per message (Outbox.tla opens it up).    *)
(* The definitions no action uses (UnverifiedAck, RemainingHold, ...) are     *)
(* plausible faults of the definition after them: a property of the run    *)
(* fails with them, which shows that it says something about the code.     *)
(***************************************************************************)
EXTENDS Naturals, FiniteSets

CONSTANTS Msgs,          \* envelope ids
          Receivers,     \* threads and processes that call receive()
          AddressOf,     \* how the caller of send() named the recipient
          VerifyAcks,    \* config ack_verify_signature
          Retries,       \* an entry awaiting retry may fail that often
          MaxCrashes

ASSUME DeliveryAssumption ==
  /\ IsFiniteSet(Msgs) /\ AddressOf \in [Msgs -> {"name", "fqid"}]
  /\ VerifyAcks \in BOOLEAN /\ MaxCrashes \in Nat /\ Retries \in Nat

\* An ACK as it arrives: what it acknowledges, its sender field, whether its
\* signature verifies.  The peer signs and puts its bare name (_send_auto_ack);
\* anybody else may name himself, or claim to be the recipient unsigned.
Acks    == [msg : Msgs, sender : {"name", "fqid", "other"}, signed : BOOLEAN]
PeerAck(m) == [msg |-> m, sender |-> "name", signed |-> TRUE]
Forged(m)  == {[msg |-> m, sender |-> "other", signed |-> TRUE],
               [msg |-> m, sender |-> AddressOf[m], signed |-> FALSE]}
TrackStates == {"none", "pending", "confirmed", "timed_out"}
NoAck   == [msg |-> "none", sender |-> "other", signed |-> FALSE]

VARIABLES
  sending,      \* where the send() of each message is
  wire,         \* the best a rail made of the message
  box,          \* its entry in the outbox
  track,        \* its ACK file
  late,         \* messages whose ACK horizon has passed
  failures,     \* failed retries
  net,          \* ACKs sent so far
  phase, ack,   \* receivers: next step, the ACK in hand
  expired, timed, \* receivers: loaded as expired, marked as timed out
  crashes,
  acked,        \* history: the peer received the message and sent an ACK
  heard         \* history: genuine ACK read while the message was tracked and in time

locals == <<phase, ack, expired, timed>>
vars == <<sending, wire, box, track, late, failures, net, locals, crashes, acked, heard>>

Init ==
  /\ sending = [m \in Msgs |-> "new"]
  /\ wire = [m \in Msgs |-> "none"]
  /\ box = [m \in Msgs |-> "none"]
  /\ track = [m \in Msgs |-> "none"]
  /\ late = {} /\ net = {} /\ acked = {} /\ heard = {} /\ crashes = 0
  /\ failures = [m \in Msgs |-> 0]
  /\ phase = [r \in Receivers |-> "idle"]
  /\ ack = [r \in Receivers |-> NoAck]
  /\ expired = [r \in Receivers |-> {}] /\ timed = [r \in Receivers |-> {}]

-------------------------------------------------------------------------------
(* send(): route, hold a queued-only delivery, track the ACK.              *)

RouteDelivered(m, how) ==
  /\ sending[m] = "new"
  /\ sending' = [sending EXCEPT ![m] = "routed"]
  /\ wire' = [wire EXCEPT ![m] = how]
  /\ UNCHANGED <<box, track, late, failures, net, locals, crashes, acked, heard>>

\* Not delivered: one durable entry, or OutboxFullError (the slot stays empty).
RouteFailed(m) ==
  /\ sending[m] = "new"
  /\ sending' = [sending EXCEPT ![m] = "sent"]
  /\ \E slot \in {"retry", "none"} : box' = [box EXCEPT ![m] = slot]
  /\ UNCHANGED <<wire, track, late, failures, net, locals, crashes, acked, heard>>

\* _hold_queued_delivery: a full outbox only raises an alert.
HoldQueued(m) ==
  /\ sending[m] = "routed"
  /\ sending' = [sending EXCEPT ![m] = "held"]
  /\ \/ wire[m] = "queued" /\ \E slot \in {"hold", "none"} : box' = [box EXCEPT ![m] = slot]
     \/ wire[m] = "confirmed" /\ UNCHANGED box
  /\ UNCHANGED <<wire, track, late, failures, net, locals, crashes, acked, heard>>

Track(m) ==
  /\ sending[m] = "held"
  /\ sending' = [sending EXCEPT ![m] = "sent"]
  /\ track' = [track EXCEPT ![m] = "pending"]
  /\ UNCHANGED <<wire, box, late, failures, net, locals, crashes, acked, heard>>

\* The retry sweep.  It unlinks whatever the router calls delivered, queued or not.
RetryDelivered(m, how) ==
  /\ box[m] = "retry"
  /\ box' = [box EXCEPT ![m] = "none"]
  /\ wire' = [wire EXCEPT ![m] = how]
  /\ UNCHANGED <<sending, track, late, failures, net, locals, crashes, acked, heard>>

RetryFailed(m) ==
  /\ box[m] = "retry"
  /\ IF failures[m] < Retries
     THEN failures' = [failures EXCEPT ![m] = @ + 1] /\ UNCHANGED box
     ELSE box' = [box EXCEPT ![m] = "dead"] /\ UNCHANGED failures
  /\ UNCHANGED <<sending, wire, track, late, net, locals, crashes, acked, heard>>

-------------------------------------------------------------------------------
(* The peer and the rails: net is every ACK ever sent, so each may arrive  *)
(* late, again or never; others forge some; time passes.                   *)

PeerReceives(m) ==
  /\ wire[m] # "none"
  /\ acked' = acked \cup {m}
  /\ net' = net \cup {PeerAck(m)}
  /\ UNCHANGED <<sending, wire, box, track, late, failures, locals, crashes, heard>>

Forge(m) ==
  /\ \E a \in Forged(m) : net' = net \cup {a}
  /\ UNCHANGED <<sending, wire, box, track, late, failures, locals, crashes, acked, heard>>

HorizonPasses(m) ==
  /\ track[m] = "pending" /\ m \notin late
  /\ late' = late \cup {m}
  /\ UNCHANGED <<sending, wire, box, track, failures, net, locals, crashes, acked, heard>>

-------------------------------------------------------------------------------
(* receive(): process the ACKs, then sweep the ACK timeouts.               *)

TakeAck(r, a) ==
  /\ phase[r] = "idle" /\ a \in net
  /\ ack' = [ack EXCEPT ![r] = a]
  /\ phase' = [phase EXCEPT ![r] = "check"]
  /\ UNCHANGED <<sending, wire, box, track, late, failures, net, expired, timed, crashes,
                 acked, heard>>

InvertedAck(a) == /\ track[a.msg] = "pending"
                  /\ a.sender # AddressOf[a.msg]
                  /\ VerifyAcks => a.signed
UnverifiedAck(a) == track[a.msg] = "pending" /\ a.sender = AddressOf[a.msg]
\* process_ack: known, from the identity it was sent to, verified, still pending.
AcceptsAck(a) == /\ track[a.msg] = "pending"
                 /\ a.sender = AddressOf[a.msg]
                 /\ VerifyAcks => a.signed

CheckAck(r) ==
  /\ phase[r] = "check"
  /\ phase' = [phase EXCEPT ![r] = IF AcceptsAck(ack[r]) THEN "confirm" ELSE "idle"]
  /\ ack' = [ack EXCEPT ![r] = IF AcceptsAck(@) THEN @ ELSE NoAck]
  /\ heard' = IF /\ ack[r] = PeerAck(ack[r].msg)
                 /\ track[ack[r].msg] = "pending" /\ ack[r].msg \notin late
              THEN heard \cup {ack[r].msg} ELSE heard
  /\ UNCHANGED <<sending, wire, box, track, late, failures, net, expired, timed,
                 crashes, acked>>

Confirm(r) ==
  /\ phase[r] = "confirm"
  /\ track' = [track EXCEPT ![ack[r].msg] = "confirmed"]
  /\ phase' = [phase EXCEPT ![r] = "drop"]
  /\ UNCHANGED <<sending, wire, box, late, failures, net, ack, expired, timed, crashes,
                 acked, heard>>

RemainingHold(r) ==
  /\ phase[r] = "drop"
  /\ phase' = [phase EXCEPT ![r] = "idle"]
  /\ ack' = [ack EXCEPT ![r] = NoAck]
  /\ UNCHANGED <<sending, wire, box, track, late, failures, net, expired, timed, crashes,
                 acked, heard>>
DropHold(r) ==
  /\ phase[r] = "drop"
  /\ box' = [box EXCEPT ![ack[r].msg] = IF @ \in {"hold", "retry"} THEN "none" ELSE @]
  /\ phase' = [phase EXCEPT ![r] = "idle"]
  /\ ack' = [ack EXCEPT ![r] = NoAck]
  /\ UNCHANGED <<sending, wire, track, late, failures, net, expired, timed, crashes,
                 acked, heard>>

ConfirmedExpires(r) ==
  /\ phase[r] = "idle"
  /\ expired' = [expired EXCEPT ![r] = {m \in Msgs : track[m] # "none" /\ m \in late}]
  /\ timed' = [timed EXCEPT ![r] = {}]
  /\ phase' = [phase EXCEPT ![r] = "mark"]
  /\ UNCHANGED <<sending, wire, box, track, late, failures, net, ack, crashes, acked, heard>>
\* check_timeouts reads every ACK file first and rewrites the expired ones after.
LoadExpired(r) ==
  /\ phase[r] = "idle"
  /\ expired' = [expired EXCEPT ![r] = {m \in Msgs : track[m] = "pending" /\ m \in late}]
  /\ timed' = [timed EXCEPT ![r] = {}]
  /\ phase' = [phase EXCEPT ![r] = "mark"]
  /\ UNCHANGED <<sending, wire, box, track, late, failures, net, ack, crashes, acked, heard>>

MarkTimedOut(r, m) ==
  /\ phase[r] = "mark" /\ m \in expired[r]
  /\ track' = [track EXCEPT ![m] = "timed_out"]
  /\ expired' = [expired EXCEPT ![r] = @ \ {m}]
  /\ timed' = [timed EXCEPT ![r] = @ \cup {m}]
  /\ UNCHANGED <<sending, wire, box, late, failures, net, phase, ack, crashes, acked, heard>>

MarkedAll(r) ==
  /\ phase[r] = "mark" /\ expired[r] = {}
  /\ phase' = [phase EXCEPT ![r] = "bury"]
  /\ UNCHANGED <<sending, wire, box, track, late, failures, net, ack, expired, timed,
                 crashes, acked, heard>>

AlertOnly(r, m) ==
  /\ phase[r] = "bury" /\ m \in timed[r]
  /\ timed' = [timed EXCEPT ![r] = @ \ {m}]
  /\ UNCHANGED <<sending, wire, box, track, late, failures, net, phase, ack, expired, crashes,
                 acked, heard>>
\* Alert and mark_dead whatever pending entry the id has.
Bury(r, m) ==
  /\ phase[r] = "bury" /\ m \in timed[r]
  /\ timed' = [timed EXCEPT ![r] = @ \ {m}]
  /\ box' = [box EXCEPT ![m] = IF @ \in {"hold", "retry"} THEN "dead" ELSE @]
  /\ UNCHANGED <<sending, wire, track, late, failures, net, phase, ack, expired, crashes,
                 acked, heard>>

BuriedAll(r) ==
  /\ phase[r] = "bury" /\ timed[r] = {}
  /\ phase' = [phase EXCEPT ![r] = "idle"]
  /\ UNCHANGED <<sending, wire, box, track, late, failures, net, ack, expired, timed,
                 crashes, acked, heard>>

ReceiverCrash(r) ==
  /\ crashes < MaxCrashes /\ phase[r] # "idle"
  /\ crashes' = crashes + 1
  /\ phase' = [phase EXCEPT ![r] = "idle"] /\ ack' = [ack EXCEPT ![r] = NoAck]
  /\ expired' = [expired EXCEPT ![r] = {}] /\ timed' = [timed EXCEPT ![r] = {}]
  /\ UNCHANGED <<sending, wire, box, track, late, failures, net, acked, heard>>

SenderCrash(m) ==
  /\ crashes < MaxCrashes /\ sending[m] \in {"routed", "held"}
  /\ crashes' = crashes + 1
  /\ sending' = [sending EXCEPT ![m] = "crashed"]
  /\ UNCHANGED <<wire, box, track, late, failures, net, locals, acked, heard>>

-------------------------------------------------------------------------------
Send(m) == \/ \E how \in {"queued", "confirmed"} : RouteDelivered(m, how)
           \/ RouteFailed(m) \/ HoldQueued(m) \/ Track(m)
Retry(m) == (\E how \in {"queued", "confirmed"} : RetryDelivered(m, how)) \/ RetryFailed(m)
HandleAck(r) == CheckAck(r) \/ Confirm(r) \/ DropHold(r)
SweepTimeouts(r) ==
  \/ LoadExpired(r) \/ MarkedAll(r) \/ BuriedAll(r)
  \/ \E m \in Msgs : MarkTimedOut(r, m) \/ Bury(r, m)

Next == \/ \E m \in Msgs : \/ Send(m) \/ Retry(m) \/ PeerReceives(m) \/ Forge(m)
                           \/ HorizonPasses(m) \/ SenderCrash(m)
        \/ \E r \in Receivers : \/ \E a \in net : TakeAck(r, a)
                                \/ HandleAck(r) \/ SweepTimeouts(r) \/ ReceiverCrash(r)

Spec == Init /\ [][Next]_vars

(* The caller of send runs on, the daemon keeps polling (each poll ends    *)
(* with the timeout sweep) and clocks advance; no ACK ever has to arrive.  *)
Fairness == /\ \A m \in Msgs : WF_vars(HoldQueued(m)) /\ WF_vars(Track(m))
                               /\ WF_vars(HorizonPasses(m))
            /\ \A r \in Receivers : /\ WF_vars(HandleAck(r))
                                    /\ WF_vars(SweepTimeouts(r) /\ ~LoadExpired(r))
                                    /\ SF_vars(LoadExpired(r))
FairSpec == Spec /\ Fairness

-------------------------------------------------------------------------------
(* Every variable keeps its shape.                                         *)
TypeOK ==
  /\ sending \in [Msgs -> {"new", "routed", "held", "sent", "crashed"}]
  /\ wire \in [Msgs -> {"none", "queued", "confirmed"}]
  /\ box \in [Msgs -> {"none", "hold", "retry", "dead"}]
  /\ track \in [Msgs -> TrackStates]
  /\ late \subseteq Msgs /\ net \subseteq Acks /\ acked \subseteq Msgs
  /\ heard \subseteq Msgs
  /\ failures \in [Msgs -> 0..Retries] /\ crashes \in 0..MaxCrashes
  /\ phase \in [Receivers -> {"idle", "check", "confirm", "drop", "mark", "bury"}]
  /\ ack \in [Receivers -> Acks \cup {NoAck}]
  /\ expired \in [Receivers -> SUBSET Msgs] /\ timed \in [Receivers -> SUBSET Msgs]

(* process_ack, sender binding: a delivery is confirmed only if the peer   *)
(* it was sent to did receive it, whatever ACKs others put on the rails.   *)
OnlyRecipientConfirms == \A m \in Msgs : track[m] = "confirmed" => m \in acked

(* sweep_ack_timeouts: a confirmed message is never dead-lettered.         *)
ConfirmedNotBuried == \A m \in Msgs : ~(track[m] = "confirmed" /\ box[m] = "dead")

(* _hold_queued_delivery, "so the message stays tracked": once send() has  *)
(* returned, a hold has a pending ACK file or a receiver about to resolve  *)
(* it; otherwise nothing would ever remove it.                             *)
HoldIsTracked ==
  \A m \in Msgs : box[m] = "hold" /\ sending[m] = "sent" /\ crashes = 0 =>
    \/ track[m] = "pending"
    \/ \E r \in Receivers : \/ phase[r] = "drop" /\ ack[r].msg = m
                            \/ phase[r] \in {"mark", "bury"} /\ m \in timed[r]

(* process_ack, replay rejection: confirmed and timed out are final.       *)
Resolved(m) == track[m] \in {"confirmed", "timed_out"}
ResolvedOnce == [][\A m \in Msgs : Resolved(m) => track'[m] = track[m]]_vars

(* A hold never stays for ever: its ACK removes it or its timeout          *)
(* dead-letters it, unless a crash came between the two writes of one.     *)
HoldResolved == \A m \in Msgs :
  (box[m] = "hold" /\ sending[m] = "sent") ~> (box[m] # "hold" \/ crashes > 0)

(* process_ack: an ACK of the peer that is read while its message is       *)
(* tracked and in time saves the hold from the timeout sweep.  A confirmed *)
(* message is never dead-lettered, whatever crashes.                       *)
AnswerCounts ==
  /\ ConfirmedNotBuried
  /\ \A m \in heard : AddressOf[m] = "name" /\ crashes = 0 => box[m] # "dead"
===============================================================================
