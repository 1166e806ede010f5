---------------------------- MODULE Delivery_proofs ----------------------------
(***************************************************************************)
(* Proofs about acknowledged delivery, for any messages, retries, crashes  *)
(* and ways of naming a recipient: what confirms a message, what becomes   *)
(* of a hold, and what one receiver may do to a message that was answered. *)
(* Then about who gets in at all: the first-contact gate, and the          *)
(* admission to a group.                                                   *)
(***************************************************************************)
EXTENDS Delivery, Consent, GroupConsent, FiniteSetTheorems, TLAPS

USE DEF locals, vars

\* A receiver that handles an ACK holds one.
InHand  == \A r \in Receivers :
  phase[r] \in {"check", "confirm", "drop"} => ack[r] \in Acks /\ ack[r].msg \in Msgs
TypeInv == TypeOK /\ InHand

-------------------------------------------------------------------------------
LEMMA AckFacts ==
  /\ \A m \in Msgs : PeerAck(m) \in Acks /\ Forged(m) \subseteq Acks
  /\ \A a \in Acks : a.msg \in Msgs
BY DeliveryAssumption DEF Acks, PeerAck, Forged

LEMMA TypeStart == Init => TypeInv
BY DeliveryAssumption DEF Init, TypeInv, TypeOK, InHand, TrackStates

LEMMA TypeStep == ASSUME TypeInv, [Next]_vars PROVE TypeInv'
<1>. USE DEF TypeInv
<1>1. ASSUME NEW m \in Msgs, Send(m) PROVE TypeInv'
  BY <1>1 DEF Send, RouteDelivered, RouteFailed, HoldQueued, Track, TypeOK, TrackStates, InHand
<1>2. ASSUME NEW m \in Msgs, Retry(m) PROVE TypeInv'
  <2>1. failures' \in [Msgs -> 0..Retries] /\ box' \in [Msgs -> {"none", "hold", "retry", "dead"}]
    BY <1>2, DeliveryAssumption DEF Retry, RetryDelivered, RetryFailed, TypeOK
  <2>. QED BY <1>2, <2>1 DEF Retry, RetryDelivered, RetryFailed, TypeOK, InHand
<1>3. ASSUME NEW m \in Msgs, PeerReceives(m) \/ Forge(m) \/ HorizonPasses(m) PROVE TypeInv'
  <2>1. net' \subseteq Acks
    BY <1>3, AckFacts DEF PeerReceives, Forge, HorizonPasses, TypeOK
  <2>. QED BY <1>3, <2>1 DEF PeerReceives, Forge, HorizonPasses, TypeOK, InHand
<1>4. ASSUME NEW m \in Msgs, SenderCrash(m) PROVE TypeInv'
  <2>1. crashes' \in 0..MaxCrashes
    BY <1>4, DeliveryAssumption DEF SenderCrash, TypeOK
  <2>. QED BY <1>4, <2>1 DEF SenderCrash, TypeOK, InHand
<1>5. ASSUME NEW r \in Receivers, NEW a \in net, TakeAck(r, a) PROVE TypeInv'
  <2>1. a \in Acks /\ a.msg \in Msgs
    BY AckFacts DEF TypeOK
  <2>. QED BY <1>5, <2>1 DEF TakeAck, TypeOK, InHand
<1>6. ASSUME NEW r \in Receivers, HandleAck(r) PROVE TypeInv'
  <2>1. CASE CheckAck(r)
    <3>1. ack[r] \in Acks /\ ack[r].msg \in Msgs
      BY <2>1 DEF CheckAck, InHand
    <3>2. ack' \in [Receivers -> Acks \cup {NoAck}] /\ heard' \subseteq Msgs
      BY <2>1, <3>1 DEF CheckAck, TypeOK
    <3>. QED BY <2>1, <3>1, <3>2 DEF CheckAck, TypeOK, InHand
  <2>2. CASE Confirm(r)
    BY <2>2 DEF Confirm, TypeOK, TrackStates, InHand
  <2>3. CASE DropHold(r)
    BY <2>3 DEF DropHold, TypeOK, InHand
  <2>. QED BY <1>6, <2>1, <2>2, <2>3 DEF HandleAck
<1>7. ASSUME NEW r \in Receivers, SweepTimeouts(r) PROVE TypeInv'
  <2>1. CASE LoadExpired(r) \/ MarkedAll(r) \/ BuriedAll(r)
    BY <2>1 DEF LoadExpired, MarkedAll, BuriedAll, TypeOK, InHand
  <2>2. ASSUME NEW m \in Msgs, MarkTimedOut(r, m) \/ Bury(r, m) PROVE TypeInv'
    BY <2>2 DEF MarkTimedOut, Bury, TypeOK, TrackStates, InHand
  <2>. QED BY <1>7, <2>1, <2>2 DEF SweepTimeouts
<1>8. ASSUME NEW r \in Receivers, ReceiverCrash(r) PROVE TypeInv'
  <2>1. crashes' \in 0..MaxCrashes
    BY <1>8, DeliveryAssumption DEF ReceiverCrash, TypeOK
  <2>. QED BY <1>8, <2>1 DEF ReceiverCrash, TypeOK, InHand
<1>9. CASE UNCHANGED vars
  BY <1>9 DEF TypeOK, InHand
<1>. QED BY <1>1, <1>2, <1>3, <1>4, <1>5, <1>6, <1>7, <1>8, <1>9 DEF Next

(* send, receive and the timeout sweep keep the shape of what they write.  *)
THEOREM TypeCorrect == Spec => []TypeOK
<1>1. TypeInv => TypeOK
  BY DEF TypeInv
<1>. QED BY TypeStart, TypeStep, <1>1, PTL DEF Spec

-------------------------------------------------------------------------------
(* Only the peer confirms.                                                 *)

\* The ACKs that process_ack accepts, on the rails, and what came of them.
Convincing(a) == a.sender = AddressOf[a.msg] /\ a.signed
PeerAnswered ==
  /\ \A a \in net : Convincing(a) => a.msg \in acked
  /\ \A r \in Receivers : phase[r] = "check" => ack[r] \in net
  /\ \A r \in Receivers : phase[r] = "confirm" => ack[r].msg \in acked
  /\ OnlyRecipientConfirms

LEMMA PeerStep ==
  ASSUME VerifyAcks, TypeInv, PeerAnswered, [Next]_vars PROVE PeerAnswered'
<1>. USE DEF TypeInv
<1>1. ASSUME NEW m \in Msgs, Send(m) PROVE PeerAnswered'
  BY <1>1 DEF Send, RouteDelivered, RouteFailed, HoldQueued, Track, PeerAnswered,
              OnlyRecipientConfirms, TypeOK
<1>2. ASSUME NEW m \in Msgs, Retry(m) \/ HorizonPasses(m) \/ SenderCrash(m) PROVE PeerAnswered'
  BY <1>2 DEF Retry, RetryDelivered, RetryFailed, HorizonPasses, SenderCrash, PeerAnswered,
              OnlyRecipientConfirms
<1>3. ASSUME NEW m \in Msgs, PeerReceives(m) PROVE PeerAnswered'
  <2>1. PeerAck(m).msg = m
    BY DEF PeerAck
  <2>. QED BY <1>3, <2>1 DEF PeerReceives, PeerAnswered, OnlyRecipientConfirms
<1>4. ASSUME NEW m \in Msgs, Forge(m) PROVE PeerAnswered'
  <2>1. \A a \in Forged(m) : ~Convincing(a)
    BY DeliveryAssumption DEF Forged, Convincing
  <2>. QED BY <1>4, <2>1 DEF Forge, PeerAnswered, OnlyRecipientConfirms
<1>5. ASSUME NEW r \in Receivers, NEW a \in net, TakeAck(r, a) PROVE PeerAnswered'
  BY <1>5 DEF TakeAck, PeerAnswered, OnlyRecipientConfirms, TypeOK
<1>6. ASSUME NEW r \in Receivers, CheckAck(r) PROVE PeerAnswered'
  <2>1. AcceptsAck(ack[r]) => Convincing(ack[r]) /\ ack[r].msg \in acked
    BY <1>6, VerifyAcks DEF CheckAck, AcceptsAck, Convincing, PeerAnswered
  <2>. QED BY <1>6, <2>1 DEF CheckAck, PeerAnswered, OnlyRecipientConfirms, TypeOK
<1>7. ASSUME NEW r \in Receivers, Confirm(r) PROVE PeerAnswered'
  BY <1>7 DEF Confirm, PeerAnswered, OnlyRecipientConfirms, TypeOK
<1>8. ASSUME NEW r \in Receivers, DropHold(r) PROVE PeerAnswered'
  BY <1>8 DEF DropHold, PeerAnswered, OnlyRecipientConfirms, TypeOK
<1>9. ASSUME NEW r \in Receivers, SweepTimeouts(r) PROVE PeerAnswered'
  BY <1>9 DEF SweepTimeouts, LoadExpired, MarkedAll, BuriedAll, MarkTimedOut, Bury, PeerAnswered,
              OnlyRecipientConfirms, TypeOK
<1>10. ASSUME NEW r \in Receivers, ReceiverCrash(r) PROVE PeerAnswered'
  BY <1>10 DEF ReceiverCrash, PeerAnswered, OnlyRecipientConfirms, TypeOK
<1>11. CASE UNCHANGED vars
  BY <1>11 DEF PeerAnswered, OnlyRecipientConfirms
<1>. QED BY <1>1, <1>2, <1>3, <1>4, <1>5, <1>6, <1>7, <1>8, <1>9, <1>10, <1>11
         DEF Next, HandleAck

(* OnlyRecipientConfirms for any receivers: with ack_verify_signature, no  *)
(* forged or unsigned ACK, however late, makes process_ack confirm.        *)
THEOREM OnlyRecipient == ASSUME VerifyAcks PROVE Spec => []OnlyRecipientConfirms
<1>. DEFINE Inv == TypeInv /\ PeerAnswered
<1>1. Init => Inv
  BY TypeStart DEF Init, PeerAnswered, OnlyRecipientConfirms
<1>2. Inv /\ [Next]_vars => Inv'
  BY TypeStep, PeerStep
<1>3. Inv => OnlyRecipientConfirms
  BY DEF PeerAnswered
<1>. QED BY <1>1, <1>2, <1>3, PTL DEF Spec

-------------------------------------------------------------------------------
(* A hold is tracked.                                                      *)

LEMMA HoldStep ==
  ASSUME TypeInv, HoldIsTracked, [Next]_vars PROVE HoldIsTracked'
<1>. USE DEF TypeInv
<1>1. ASSUME NEW m \in Msgs, Send(m) PROVE HoldIsTracked'
  BY <1>1 DEF Send, RouteDelivered, RouteFailed, HoldQueued, Track, HoldIsTracked, TypeOK
<1>2. ASSUME NEW m \in Msgs, Retry(m) PROVE HoldIsTracked'
  BY <1>2 DEF Retry, RetryDelivered, RetryFailed, HoldIsTracked, TypeOK
<1>3. ASSUME NEW m \in Msgs, PeerReceives(m) \/ Forge(m) \/ HorizonPasses(m) PROVE HoldIsTracked'
  BY <1>3 DEF PeerReceives, Forge, HorizonPasses, HoldIsTracked
<1>4. ASSUME crashes' = crashes + 1 PROVE HoldIsTracked'
  BY <1>4, DeliveryAssumption DEF HoldIsTracked, TypeOK
<1>5. ASSUME NEW r \in Receivers, NEW a \in net, TakeAck(r, a) PROVE HoldIsTracked'
  BY <1>5 DEF TakeAck, HoldIsTracked, TypeOK
<1>6. ASSUME NEW r \in Receivers, CheckAck(r) PROVE HoldIsTracked'
  BY <1>6 DEF CheckAck, HoldIsTracked, TypeOK
<1>7. ASSUME NEW r \in Receivers, Confirm(r) PROVE HoldIsTracked'
  BY <1>7 DEF Confirm, HoldIsTracked, TypeOK, InHand
<1>8. ASSUME NEW r \in Receivers, DropHold(r) PROVE HoldIsTracked'
  BY <1>8 DEF DropHold, HoldIsTracked, TypeOK, InHand
<1>9. ASSUME NEW r \in Receivers, LoadExpired(r) \/ MarkedAll(r) \/ BuriedAll(r) PROVE HoldIsTracked'
  BY <1>9 DEF LoadExpired, MarkedAll, BuriedAll, HoldIsTracked, TypeOK
<1>10. ASSUME NEW r \in Receivers, NEW m \in Msgs, MarkTimedOut(r, m) PROVE HoldIsTracked'
  BY <1>10 DEF MarkTimedOut, HoldIsTracked, TypeOK
<1>11. ASSUME NEW r \in Receivers, NEW m \in Msgs, Bury(r, m) PROVE HoldIsTracked'
  BY <1>11 DEF Bury, HoldIsTracked, TypeOK
<1>12. CASE UNCHANGED vars
  BY <1>12 DEF HoldIsTracked
<1>. QED BY <1>1, <1>2, <1>3, <1>4, <1>5, <1>6, <1>7, <1>8, <1>9, <1>10, <1>11, <1>12
         DEF Next, HandleAck, SweepTimeouts, SenderCrash, ReceiverCrash

(* HoldIsTracked for any receivers: without a crash, a hold whose send()   *)
(* has returned has a pending ACK file or a receiver about to resolve it.  *)
THEOREM HoldsAreTracked == Spec => []HoldIsTracked
<1>. DEFINE Inv == TypeInv /\ HoldIsTracked
<1>1. Init => Inv
  BY TypeStart DEF Init, HoldIsTracked
<1>2. Inv /\ [Next]_vars => Inv'
  BY TypeStep, HoldStep
<1>. QED BY <1>1, <1>2, PTL DEF Spec

-------------------------------------------------------------------------------
(* One receiver.  Two of them may overwrite each other's verdict.          *)

OneReceiver == \A q, r \in Receivers : q = r

\* Only a message whose send() has returned has an ACK file, and none that awaits a retry.
TrackedIsSent == \A m \in Msgs :
  /\ sending[m] # "sent" => track[m] = "none" /\ box[m] \in {"none", "hold"}
  /\ box[m] = "retry" => track[m] = "none"
\* What a receiver has read of an ACK file is still what the file says.
NothingStale == \A r \in Receivers :
  /\ phase[r] = "confirm" => track[ack[r].msg] = "pending"
  /\ phase[r] = "mark" => \A m \in expired[r] : track[m] = "pending"
  /\ phase[r] \in {"mark", "bury"} => \A m \in timed[r] : track[m] = "timed_out"
NotBuried == \A m \in Msgs : track[m] \in {"pending", "confirmed"} => box[m] # "dead"
HeardIsConfirmed == \A m \in heard : AddressOf[m] = "name" /\ crashes = 0 =>
  \/ track[m] = "confirmed"
  \/ \E r \in Receivers : phase[r] = "confirm" /\ ack[r].msg = m

AnswerInv == TypeInv /\ TrackedIsSent /\ NothingStale /\ NotBuried /\ HeardIsConfirmed

LEMMA AnswerStart == Init => AnswerInv
BY TypeStart DEF Init, AnswerInv, TrackedIsSent, NothingStale, NotBuried, HeardIsConfirmed

LEMMA AnswerStep ==
  ASSUME OneReceiver, AnswerInv, [Next]_vars PROVE AnswerInv'
<1>1. TypeInv'
  BY TypeStep DEF AnswerInv
<1>. USE DEF AnswerInv, TypeInv
<1>. DEFINE Others == TrackedIsSent /\ NothingStale /\ NotBuried /\ HeardIsConfirmed
<1>2. ASSUME NEW m \in Msgs, Send(m) PROVE Others'
  <2>1. \A r \in Receivers : /\ phase[r] = "confirm" => ack[r].msg # m
                             /\ phase[r] = "mark" => m \notin expired[r]
                             /\ phase[r] \in {"mark", "bury"} => m \notin timed[r]
    BY <1>2 DEF Send, RouteDelivered, RouteFailed, HoldQueued, Track, TrackedIsSent, NothingStale
  <2>2. UNCHANGED <<heard, crashes, phase, ack, expired, timed>>
        /\ \A n \in Msgs \ {m} : sending'[n] = sending[n] /\ track'[n] = track[n] /\ box'[n] = box[n]
    BY <1>2 DEF Send, RouteDelivered, RouteFailed, HoldQueued, Track, TypeOK
  <2>3. /\ track[m] = "none" /\ box[m] \in {"none", "hold"} /\ track'[m] \in {"none", "pending"}
        /\ box'[m] # "dead"
        /\ track'[m] = "pending" => sending'[m] = "sent" /\ box'[m] \in {"none", "hold"}
        /\ sending'[m] # "sent" => box'[m] \in {"none", "hold"}
    BY <1>2 DEF Send, RouteDelivered, RouteFailed, HoldQueued, Track, TrackedIsSent, TypeOK
  <2>4. TrackedIsSent' /\ NotBuried'
    BY <2>2, <2>3 DEF TrackedIsSent, NotBuried
  <2>5. NothingStale'
    BY <2>1, <2>2 DEF NothingStale, TypeOK, InHand
  <2>6. HeardIsConfirmed'
    BY <2>1, <2>2, <2>3 DEF HeardIsConfirmed, TypeOK
  <2>. QED BY <2>4, <2>5, <2>6
<1>3. ASSUME NEW m \in Msgs, Retry(m) PROVE Others'
  BY <1>3 DEF Retry, RetryDelivered, RetryFailed, TypeOK, TrackedIsSent, NothingStale, NotBuried,
              HeardIsConfirmed
<1>4. ASSUME NEW m \in Msgs, PeerReceives(m) \/ Forge(m) \/ HorizonPasses(m) PROVE Others'
  BY <1>4 DEF PeerReceives, Forge, HorizonPasses, TrackedIsSent, NothingStale, NotBuried,
              HeardIsConfirmed
<1>5. ASSUME NEW m \in Msgs, SenderCrash(m) PROVE Others'
  <2>1. crashes' # 0
    BY <1>5, DeliveryAssumption DEF SenderCrash, TypeOK
  <2>. QED BY <1>5, <2>1 DEF SenderCrash, TypeOK, TrackedIsSent, NothingStale, NotBuried,
                             HeardIsConfirmed
<1>6. ASSUME NEW r \in Receivers, NEW a \in net, TakeAck(r, a) PROVE Others'
  BY <1>6 DEF TakeAck, TypeOK, TrackedIsSent, NothingStale, NotBuried, HeardIsConfirmed
<1>7. ASSUME NEW r \in Receivers, CheckAck(r) PROVE Others'
  <2>1. \A m \in heard' \ heard : AddressOf[m] = "name" =>
          AcceptsAck(ack[r]) /\ ack[r].msg = m
    BY <1>7 DEF CheckAck, AcceptsAck, PeerAck
  <2>2. TrackedIsSent' /\ NotBuried'
    BY <1>7 DEF CheckAck, TrackedIsSent, NotBuried
  <2>3. NothingStale'
    BY <1>7 DEF CheckAck, AcceptsAck, NothingStale, TypeOK
  <2>4. HeardIsConfirmed'
    BY <1>7, <2>1 DEF CheckAck, HeardIsConfirmed, TypeOK
  <2>. QED BY <2>2, <2>3, <2>4
<1>8. ASSUME NEW r \in Receivers, Confirm(r) PROVE Others'
  <2>. DEFINE m == ack[r].msg
  <2>1. m \in Msgs /\ track[m] = "pending" /\ track' = [track EXCEPT ![m] = "confirmed"]
        /\ box[m] # "dead" /\ phase'[r] = "drop" /\ \A q \in Receivers : q = r
    BY <1>8 DEF Confirm, InHand, NothingStale, NotBuried, OneReceiver, TypeOK
  <2>2. TrackedIsSent' /\ NotBuried'
    BY <1>8, <2>1 DEF Confirm, TrackedIsSent, NotBuried, TypeOK
  <2>3. NothingStale'
    BY <1>8, <2>1 DEF Confirm, NothingStale
  <2>4. HeardIsConfirmed'
    BY <1>8, <2>1 DEF Confirm, HeardIsConfirmed, TypeOK
  <2>. QED BY <2>2, <2>3, <2>4
<1>9. ASSUME NEW r \in Receivers, DropHold(r) PROVE Others'
  BY <1>9 DEF DropHold, TypeOK, InHand, TrackedIsSent, NothingStale, NotBuried, HeardIsConfirmed
<1>10. ASSUME NEW r \in Receivers, LoadExpired(r) \/ MarkedAll(r) \/ BuriedAll(r) PROVE Others'
  BY <1>10 DEF LoadExpired, MarkedAll, BuriedAll, TypeOK, TrackedIsSent, NothingStale, NotBuried,
               HeardIsConfirmed
<1>11. ASSUME NEW r \in Receivers, NEW m \in Msgs, MarkTimedOut(r, m) PROVE Others'
  <2>1. track[m] = "pending" /\ phase[r] = "mark" /\ \A q \in Receivers : q = r
    BY <1>11 DEF MarkTimedOut, NothingStale, OneReceiver
  <2>2. track' = [track EXCEPT ![m] = "timed_out"]
        /\ UNCHANGED <<sending, wire, box, phase, ack, crashes, heard>>
    BY <1>11 DEF MarkTimedOut
  <2>3. TrackedIsSent' /\ NotBuried'
    BY <2>1, <2>2 DEF TrackedIsSent, NotBuried, TypeOK
  <2>4. NothingStale'
    BY <1>11, <2>1, <2>2 DEF MarkTimedOut, NothingStale, TypeOK
  <2>5. HeardIsConfirmed'
    BY <2>1, <2>2 DEF HeardIsConfirmed, TypeOK
  <2>. QED BY <2>3, <2>4, <2>5
<1>12. ASSUME NEW r \in Receivers, NEW m \in Msgs, Bury(r, m) PROVE Others'
  <2>1. track[m] = "timed_out"
    BY <1>12 DEF Bury, NothingStale
  <2>. QED BY <1>12, <2>1
           DEF Bury, TypeOK, TrackedIsSent, NothingStale, NotBuried, HeardIsConfirmed
<1>13. ASSUME NEW r \in Receivers, ReceiverCrash(r) PROVE Others'
  <2>1. crashes' # 0
    BY <1>13, DeliveryAssumption DEF ReceiverCrash, TypeOK
  <2>. QED BY <1>13, <2>1
           DEF ReceiverCrash, TypeOK, TrackedIsSent, NothingStale, NotBuried, HeardIsConfirmed
<1>14. ASSUME UNCHANGED vars PROVE Others'
  BY <1>14 DEF TrackedIsSent, NothingStale, NotBuried, HeardIsConfirmed
<1>15. Others'
  <2>. HIDE DEF Others
  <2>. QED BY <1>2, <1>3, <1>4, <1>5, <1>6, <1>7, <1>8, <1>9, <1>10, <1>11, <1>12, <1>13, <1>14
           DEF Next, HandleAck, SweepTimeouts
<1>. QED BY <1>1, <1>15

(* AnswerCounts with one receiver: an ACK of the peer that is read in time *)
(* saves its hold from the timeout sweep, unless a crash came between; and *)
(* a confirmed message is never dead-lettered, whatever crashes.           *)
THEOREM AnswersCount == ASSUME OneReceiver PROVE Spec => []AnswerCounts
<1>1. AnswerInv /\ [Next]_vars => AnswerInv'
  BY AnswerStep
<1>2. AnswerInv => AnswerCounts
  <2>. SUFFICES ASSUME AnswerInv PROVE AnswerCounts
    OBVIOUS
  <2>1. ConfirmedNotBuried
    BY DEF AnswerInv, NotBuried, ConfirmedNotBuried
  <2>2. ASSUME NEW m \in heard, AddressOf[m] = "name", crashes = 0 PROVE box[m] # "dead"
    BY <2>2 DEF AnswerInv, HeardIsConfirmed, NothingStale, NotBuried, TypeInv, TypeOK
  <2>. QED BY <2>1, <2>2 DEF AnswerCounts
<1>. QED BY AnswerStart, <1>1, <1>2, PTL DEF Spec

(* ResolvedOnce with one receiver: process_ack and the timeout sweep leave *)
(* alone what is confirmed or timed out.                                   *)
THEOREM ResolvedIsFinal == ASSUME OneReceiver PROVE Spec => ResolvedOnce
<1>1. AnswerInv /\ [Next]_vars => AnswerInv'
  BY AnswerStep
<1>2. ASSUME AnswerInv, [Next]_vars
      PROVE  [\A m \in Msgs : Resolved(m) => track'[m] = track[m]]_vars
  <2>. SUFFICES ASSUME NEW m \in Msgs, Resolved(m) PROVE track'[m] = track[m]
    OBVIOUS
  <2>1. ASSUME NEW n \in Msgs, Track(n) PROVE track'[m] = track[m]
    BY <1>2, <2>1 DEF Track, AnswerInv, TypeInv, TypeOK, TrackedIsSent, Resolved
  <2>2. ASSUME NEW r \in Receivers, Confirm(r) PROVE track'[m] = track[m]
    BY <1>2, <2>2 DEF Confirm, AnswerInv, TypeInv, TypeOK, InHand, NothingStale, Resolved
  <2>3. ASSUME NEW r \in Receivers, NEW n \in Msgs, MarkTimedOut(r, n) PROVE track'[m] = track[m]
    BY <1>2, <2>3 DEF MarkTimedOut, AnswerInv, TypeInv, TypeOK, NothingStale, Resolved
  <2>. QED BY <1>2, <2>1, <2>2, <2>3
           DEF Next, Send, RouteDelivered, RouteFailed, HoldQueued, Retry, RetryDelivered,
               RetryFailed, PeerReceives, Forge, HorizonPasses, SenderCrash, TakeAck, HandleAck,
               CheckAck, DropHold, SweepTimeouts, LoadExpired, MarkedAll, BuriedAll, Bury,
               ReceiverCrash
<1>. QED BY AnswerStart, <1>1, <1>2, PTL DEF Spec, ResolvedOnce
-------------------------------------------------------------------------------
(* The first-contact gate: what it lets through and what it queues, for    *)
(* any senders, handlers, operators and modes, whatever fails and whoever  *)
(* changes the stores between two of its reads.                            *)

Arriving == [step : Steps, knock : Knocks, seen : SUBSET Senders,
             barred : SUBSET Reasons, stranger : BOOLEAN]

\* What is remembered of an envelope still holds of its sender, and past the ban gate nothing
\* bars it any more.
Judged(a) == a # Idle =>
  /\ a.barred \subseteq BarredBy[SenderOf[a.knock]]
  /\ "feed" \in a.barred => SenderOf[a.knock] \in a.seen
  /\ a.stranger => SenderOf[a.knock] \in Strangers
  /\ a.step # "banGate" => a.barred = {}
  /\ Mode = "public" /\ a.step \in {"verify", "write"} => ~a.stranger

Queued    == [s \in Senders |-> {e \in requests : SenderOf[e] = s}]
Inserting == [s \in Senders |->
                {h \in Handlers : arrival[h].step = "insert" /\ SenderOf[arrival[h].knock] = s}]
\* A handler that counted will insert, whatever it finds then.
Pressing == \A s \in Senders :
  Cardinality(Queued[s]) + Cardinality(Inserting[s]) <= Cap + Cardinality(Handlers) - 1

ConsentInv == ConsentTypeOK /\ (\A h \in Handlers : Judged(arrival[h])) /\ Pressing

-------------------------------------------------------------------------------
LEMMA ArrivingFacts ==
  /\ Idle \notin Arriving /\ Arrivals = {Idle} \cup Arriving
  /\ \A a \in Arriving : a.step # "idle" /\ SenderOf[a.knock] \in Senders
BY ConsentAssumption DEF Idle, Arriving, Arrivals, Steps

\* Finite, however many arrive.
LEMMA Sizes ==
  ASSUME ConsentTypeOK, NEW s \in Senders
  PROVE  /\ IsFiniteSet(Queued[s]) /\ Cardinality(Queued[s]) \in Nat
         /\ IsFiniteSet(Inserting[s]) /\ Cardinality(Inserting[s]) \in Nat
         /\ Inserting[s] \subseteq Handlers /\ Cardinality(Handlers) \in Nat
<1>1. Queued[s] \subseteq Knocks /\ Inserting[s] \subseteq Handlers
  BY DEF Queued, Inserting, ConsentTypeOK
<1>. QED BY <1>1, FS_Subset, FS_CardinalityType, ConsentAssumption

\* With no more queued and no more inserting the queue stays as small as it was.
LEMMA NoMore ==
  ASSUME ConsentTypeOK, Pressing,
         \A s \in Senders : Queued'[s] \subseteq Queued[s] /\ Inserting'[s] \subseteq Inserting[s]
  PROVE  Pressing'
<1>1. ASSUME NEW s \in Senders
      PROVE  Cardinality(Queued'[s]) + Cardinality(Inserting'[s]) <= Cap + Cardinality(Handlers) - 1
  <2>1. /\ IsFiniteSet(Queued[s]) /\ Cardinality(Queued[s]) \in Nat
        /\ IsFiniteSet(Inserting[s]) /\ Cardinality(Inserting[s]) \in Nat /\ Cardinality(Handlers) \in Nat
    BY Sizes
  <2>2. Cardinality(Queued'[s]) <= Cardinality(Queued[s]) /\ Cardinality(Queued'[s]) \in Nat
    BY <2>1, FS_Subset, FS_CardinalityType
  <2>3. Cardinality(Inserting'[s]) <= Cardinality(Inserting[s]) /\ Cardinality(Inserting'[s]) \in Nat
    BY <2>1, FS_Subset, FS_CardinalityType
  <2>4. Cardinality(Queued[s]) + Cardinality(Inserting[s]) <= Cap + Cardinality(Handlers) - 1
    BY DEF Pressing
  <2>. QED BY <2>1, <2>2, <2>3, <2>4, ConsentAssumption
<1>. QED BY <1>1 DEF Pressing

\* Where one handler goes, the others stay.
LEMMA Passing ==
  ASSUME ConsentTypeOK, NEW h \in Handlers, arrival[h] \in Arriving, NEW step \in Steps \cup {"idle"},
         Pass(h, step)
  PROVE  /\ arrival' \in [Handlers -> Arrivals] /\ \A g \in Handlers \ {h} : arrival'[g] = arrival[g]
         /\ step = "idle" => arrival'[h] = Idle
         /\ step # "idle" =>
              /\ arrival'[h] \in Arriving /\ arrival'[h].step = step
              /\ arrival'[h].knock = arrival[h].knock /\ arrival'[h].seen = arrival[h].seen
              /\ arrival'[h].barred = arrival[h].barred /\ arrival'[h].stranger = arrival[h].stranger
<1>1. arrival \in [Handlers -> Arrivals]
  BY DEF ConsentTypeOK
<1>2. CASE step = "idle"
  <2>1. arrival' = [arrival EXCEPT ![h] = Idle]
    BY <1>2 DEF Pass
  <2>. QED BY <1>1, <1>2, <2>1, ArrivingFacts
<1>3. CASE step # "idle"
  <2>. DEFINE new == [arrival[h] EXCEPT !.step = step]
  <2>1. new \in Arriving /\ new.step = step /\ new.knock = arrival[h].knock /\ new.seen = arrival[h].seen
        /\ new.barred = arrival[h].barred /\ new.stranger = arrival[h].stranger
    BY <1>3 DEF Arriving
  <2>2. arrival' = [arrival EXCEPT ![h] = new]
    BY <1>3 DEF Pass
  <2>. HIDE DEF new
  <2>. QED BY <1>1, <1>3, <2>1, <2>2, ArrivingFacts
<1>. QED BY <1>2, <1>3

\* A step of a handler that goes on by the rules keeps what is remembered of every envelope.
LEMMA Judging ==
  ASSUME ConsentInv, NEW h \in Handlers, arrival[h] \in Arriving, NEW step \in Steps \cup {"idle"},
         Pass(h, step), UNCHANGED <<contact, invite, feeds>>,
         step \notin {"idle", "banGate"} => arrival[h].step # "banGate" \/ Admissible(h),
         Mode = "public" /\ step \in {"verify", "write"} => arrival[h].step = "verify" \/ IsKnown(h)
  PROVE  \A g \in Handlers : Judged(arrival[g])'
<1>1. BarredBy' = BarredBy /\ Strangers' = Strangers
  BY DEF BarredBy, Strangers, Banned
<1>2. ASSUME NEW g \in Handlers \ {h} PROVE Judged(arrival[g])'
  <2>1. arrival'[g] = arrival[g]
    BY Passing DEF ConsentInv
  <2>2. Judged(arrival[g])
    BY DEF ConsentInv
  <2>. QED BY <1>1, <2>1, <2>2 DEF Judged
<1>3. Judged(arrival[h])'
  <2>1. CASE step = "idle"
    BY <2>1, Passing DEF ConsentInv, Judged
  <2>2. CASE step # "idle"
    <3>. DEFINE a == arrival[h]
                s == SenderOf[arrival[h].knock]
    <3>1. /\ arrival'[h].step = step /\ arrival'[h].knock = a.knock /\ arrival'[h].seen = a.seen
          /\ arrival'[h].barred = a.barred /\ arrival'[h].stranger = a.stranger
      BY <2>2, Passing DEF ConsentInv
    <3>2. /\ a.barred \subseteq BarredBy[s] /\ ("feed" \in a.barred => s \in a.seen)
          /\ (a.stranger => s \in Strangers) /\ (a.step # "banGate" => a.barred = {})
          /\ (Mode = "public" /\ a.step \in {"verify", "write"} => ~a.stranger) /\ s \in Senders
      BY ArrivingFacts DEF ConsentInv, Judged
    <3>3. Admissible(h) => a.barred = {}
      BY <3>2 DEF Admissible, From, BarredBy, Reasons
    <3>4. IsKnown(h) => ~a.stranger
      BY <3>2 DEF IsKnown, From, Strangers
    <3>5. step # "banGate" => a.barred = {}
      BY <2>2, <3>2, <3>3
    <3>6. Mode = "public" /\ step \in {"verify", "write"} => ~a.stranger
      BY <3>2, <3>4
    <3>. QED BY <1>1, <3>1, <3>2, <3>5, <3>6 DEF Judged
  <2>. QED BY <2>1, <2>2
<1>. QED BY <1>2, <1>3

\* What an operator changes keeps every history that still holds.
LEMMA Remembering ==
  ASSUME ConsentInv, Remember
  PROVE  /\ arrival' \in [Handlers -> Arrivals] /\ \A g \in Handlers : Judged(arrival[g])'
         /\ Inserting' = Inserting
<1>1. ASSUME NEW g \in Handlers
      PROVE  /\ arrival'[g] \in Arrivals /\ Judged(arrival[g])'
             /\ arrival'[g].step = arrival[g].step
             /\ arrival[g].step # "idle" => arrival'[g].knock = arrival[g].knock
  <2>1. CASE arrival[g] = Idle
    <3>1. arrival'[g] = Idle
      BY <2>1 DEF Remember
    <3>. QED BY <2>1, <3>1 DEF Judged, Arrivals, Idle
  <2>2. CASE arrival[g] # Idle
    <3>. DEFINE a == arrival[g]
                s == SenderOf[arrival[g].knock]
                new == [a EXCEPT !.barred = @ \cap BarredBy'[s], !.stranger = @ /\ s \in Strangers']
    <3>1. a \in Arriving /\ Judged(a)
      BY <2>2, ArrivingFacts DEF ConsentInv, ConsentTypeOK
    <3>2. arrival'[g] = new
      BY <2>2 DEF Remember
    <3>3. a.barred \in SUBSET Reasons /\ a.stranger \in BOOLEAN
      BY <3>1 DEF Arriving
    <3>4. /\ new \in Arriving /\ new.step = a.step /\ new.knock = a.knock /\ new.seen = a.seen
          /\ new.barred = a.barred \cap BarredBy'[s] /\ (new.stranger <=> (a.stranger /\ s \in Strangers'))
      <4>1. (a.stranger /\ s \in Strangers') \in BOOLEAN
        OBVIOUS
      <4>. QED BY <3>1, <3>3, <4>1 DEF Arriving
    <3>. HIDE DEF new
    <3>5. Judged(a) /\ a # Idle
      BY <2>2, <3>1
    <3>6. Judged(arrival[g])'
      BY <3>2, <3>4, <3>5 DEF Judged
    <3>. QED BY <3>2, <3>4, <3>6, ArrivingFacts
  <2>. QED BY <2>1, <2>2
<1>2. arrival' \in [Handlers -> Arrivals]
  <2>1. arrival' = [g \in Handlers |-> arrival'[g]]
    BY DEF Remember
  <2>. QED BY <1>1, <2>1
<1>3. Inserting' = Inserting
  BY <1>1 DEF Inserting
<1>. QED BY <1>1, <1>2, <1>3

LEMMA ConsentStart == ConsentInit => ConsentInv
<1>. SUFFICES ASSUME ConsentInit PROVE ConsentInv
  OBVIOUS
<1>1. ConsentTypeOK
  <2>1. arrival \in [Handlers -> Arrivals] /\ desk \in [Operators -> Desks]
    BY DEF ConsentInit, Arrivals, Desks
  <2>2. invite \in [Senders -> Verbs] /\ grey \in [Senders -> {"absent", "seen", "due"}]
    BY DEF ConsentInit, Verbs
  <2>. QED BY <2>1, <2>2 DEF ConsentInit, ConsentTypeOK
<1>2. \A h \in Handlers : Judged(arrival[h])
  BY DEF ConsentInit, Judged
<1>3. Pressing
  <2>1. ASSUME NEW s \in Senders PROVE Queued[s] = {} /\ Inserting[s] = {}
    BY DEF ConsentInit, Queued, Inserting, Idle
  <2>2. Cardinality(Handlers) \in Nat /\ Cap \in Nat /\ Cap # 0
    BY ConsentAssumption, FS_CardinalityType
  <2>3. Cardinality({}) = 0
    BY FS_EmptySet
  <2>4. Handlers # {} /\ IsFiniteSet(Handlers)
    BY ConsentAssumption
  <2>5. Cardinality(Handlers) # 0
    BY <2>4, FS_EmptySet
  <2>6. ASSUME NEW s \in Senders
        PROVE  Cardinality(Queued[s]) + Cardinality(Inserting[s]) <= Cap + Cardinality(Handlers) - 1
    <3>1. Cardinality(Queued[s]) = 0 /\ Cardinality(Inserting[s]) = 0
      BY <2>1, <2>3
    <3>. QED BY <2>2, <2>5, <3>1
  <2>. QED BY <2>6 DEF Pressing
<1>. QED BY <1>1, <1>2, <1>3 DEF ConsentInv

-------------------------------------------------------------------------------
\* The steps of a handler that is at none of the inserts.
LEMMA HandlerKeeps ==
  ASSUME ConsentInv, NEW h \in Handlers, arrival[h] \in Arriving, NEW step \in Steps \cup {"idle"},
         step # "insert", Pass(h, step), UNCHANGED <<contact, requests, issued, invite, feeds, desk>>,
         grey' \in [Senders -> {"absent", "seen", "due"}],
         step \notin {"idle", "banGate"} => arrival[h].step # "banGate" \/ Admissible(h),
         Mode = "public" /\ step \in {"verify", "write"} => arrival[h].step = "verify" \/ IsKnown(h)
  PROVE  ConsentInv'
<1>1. ConsentTypeOK
  BY DEF ConsentInv
<1>2. ConsentTypeOK'
  BY <1>1, Passing DEF ConsentTypeOK
<1>3. \A g \in Handlers : Judged(arrival[g])'
  BY Judging
<1>4. Pressing'
  <2>1. /\ \A g \in Handlers \ {h} : arrival'[g] = arrival[g]
        /\ arrival'[h].step # "insert"
    BY <1>1, Passing DEF Idle
  <2>2. \A s \in Senders : Queued'[s] = Queued[s] /\ Inserting'[s] \subseteq Inserting[s]
    BY <2>1 DEF Queued, Inserting
  <2>. QED BY <1>1, <2>2, NoMore DEF ConsentInv
<1>. QED BY <1>2, <1>3, <1>4 DEF ConsentInv

LEMMA HandleStep ==
  ASSUME ConsentInv, NEW h \in Handlers, Handle(h)
  PROVE  ConsentInv'
<1>t. /\ ConsentTypeOK /\ grey \in [Senders -> {"absent", "seen", "due"}]
      /\ \A g \in Handlers : arrival[g] \in {Idle} \cup Arriving
  BY ArrivingFacts DEF ConsentInv, ConsentTypeOK
<1>b. arrival[h].step \in Steps => arrival[h] \in Arriving
  BY <1>t DEF Idle, Steps
<1>1. CASE Fail(h)
  <2>1. Pass(h, "idle") /\ UNCHANGED <<contact, requests, issued, invite, feeds, desk, grey>>
        /\ arrival[h] \in Arriving
    BY <1>1, <1>b DEF Fail, stores, Steps
  <2>. QED BY <1>t, <2>1, HandlerKeeps
<1>2. CASE BanGate(h)
  <2>. DEFINE next == IF ~Admissible(h) THEN "idle" ELSE IF Mode = "off" THEN "write"
                      ELSE IF At(h, "banGate") THEN "decide" ELSE "policy"
  <2>1. Pass(h, next) /\ UNCHANGED <<contact, requests, issued, invite, feeds, desk, grey>>
        /\ arrival[h] \in Arriving
    BY <1>2, <1>b DEF BanGate, stores, Steps
  <2>2. next \in Steps \cup {"idle"} /\ next # "insert" /\ (next # "idle" => Admissible(h))
        /\ ~(Mode = "public" /\ next \in {"verify", "write"})
    BY DEF Steps
  <2>. HIDE DEF next
  <2>. QED BY <1>t, <2>1, <2>2, HandlerKeeps
<1>3. CASE Policy(h)
  <2>. DEFINE next == IF invite[From(h)] # "allow" THEN "idle"
                      ELSE IF Mode = "tailnet" THEN "write" ELSE "known"
  <2>1. Pass(h, next) /\ UNCHANGED <<contact, requests, issued, invite, feeds, desk, grey>>
        /\ arrival[h] \in Arriving /\ arrival[h].step = "policy"
    BY <1>3, <1>b DEF Policy, At, stores, Steps
  <2>2. next \in Steps \cup {"idle"} /\ next # "insert"
        /\ ~(Mode = "public" /\ next \in {"verify", "write"})
    BY DEF Steps
  <2>. HIDE DEF next
  <2>. QED BY <1>t, <2>1, <2>2, HandlerKeeps
<1>4. CASE Known(h)
  <2>1. UNCHANGED <<contact, requests, issued, invite, feeds, desk, grey>>
        /\ arrival[h] \in Arriving /\ arrival[h].step = "known"
    BY <1>4, <1>b DEF Known, At, stores, Steps
  <2>2. PICK next \in {"write", "verify", "grey", "count"} :
          Pass(h, next) /\ (next \in {"write", "verify"} => IsKnown(h))
    BY <1>4 DEF Known
  <2>3. next \in Steps \cup {"idle"} /\ next # "insert"
    BY DEF Steps
  <2>. QED BY <1>t, <2>1, <2>2, <2>3, HandlerKeeps
<1>5. CASE VerifyToken(h)
  <2>1. UNCHANGED <<contact, requests, issued, invite, feeds, desk, grey>>
        /\ arrival[h] \in Arriving /\ arrival[h].step = "verify"
    BY <1>5, <1>b DEF VerifyToken, At, stores, Steps
  <2>2. PICK next \in {"write", "idle"} : Pass(h, next)
    BY <1>5 DEF VerifyToken
  <2>3. next \in Steps \cup {"idle"} /\ next # "insert"
    BY DEF Steps
  <2>. QED BY <1>t, <2>1, <2>2, <2>3, HandlerKeeps
<1>6. CASE SeeGrey(h)
  <2>1. UNCHANGED <<contact, requests, issued, invite, feeds, desk, grey>>
        /\ arrival[h] \in Arriving /\ arrival[h].step = "grey"
    BY <1>6, <1>b DEF SeeGrey, At, stores, Steps
  <2>2. grey[From(h)] \in {"absent", "seen", "due"}
    BY <1>t, <2>1, ArrivingFacts DEF From
  <2>3. PICK next \in {"insertGrey", "idle", "count"} : Pass(h, next)
    BY <1>6, <2>2 DEF SeeGrey
  <2>4. next \in Steps \cup {"idle"} /\ next # "insert"
    BY DEF Steps
  <2>. QED BY <1>t, <2>1, <2>3, <2>4, HandlerKeeps
<1>7. CASE InsertGrey(h)
  <2>1. UNCHANGED <<contact, requests, issued, invite, feeds, desk>> /\ Pass(h, "idle")
        /\ arrival[h] \in Arriving /\ grey' = [grey EXCEPT ![From(h)] = "seen"]
    BY <1>7, <1>b DEF InsertGrey, At, Steps
  <2>2. grey' \in [Senders -> {"absent", "seen", "due"}]
    BY <1>t, <2>1
  <2>. QED BY <1>t, <2>1, <2>2, HandlerKeeps
<1>8. CASE TieringFails(h)
  <2>. DEFINE new == [arrival[h] EXCEPT !.step = "write", !.stranger = FALSE]
  <2>1. UNCHANGED <<contact, requests, issued, invite, feeds, desk, grey>>
        /\ arrival[h] \in Arriving /\ arrival[h].step # "banGate" /\ arrival' = [arrival EXCEPT ![h] = new]
    BY <1>8, <1>b DEF TieringFails, stores, Steps
  <2>2. /\ new \in Arriving /\ new.step = "write" /\ new.knock = arrival[h].knock
        /\ new.seen = arrival[h].seen /\ new.barred = arrival[h].barred /\ ~new.stranger
    BY <2>1 DEF Arriving, Steps
  <2>. HIDE DEF new
  <2>3. arrival' \in [Handlers -> Arrivals] /\ arrival'[h] = new
        /\ \A g \in Handlers \ {h} : arrival'[g] = arrival[g]
    BY <1>t, <2>1, <2>2, ArrivingFacts DEF ConsentTypeOK
  <2>4. ConsentTypeOK'
    BY <1>t, <2>1, <2>3 DEF ConsentTypeOK
  <2>5. BarredBy' = BarredBy /\ Strangers' = Strangers
    BY <2>1 DEF BarredBy, Strangers, Banned
  <2>6. ASSUME NEW g \in Handlers PROVE Judged(arrival[g])'
    <3>1. CASE g = h
      <4>1. Judged(arrival[h]) /\ arrival[h] # Idle
        BY <2>1, ArrivingFacts DEF ConsentInv
      <4>. QED BY <2>1, <2>2, <2>3, <2>5, <3>1, <4>1 DEF Judged
    <3>2. CASE g # h
      <4>1. Judged(arrival[g])
        BY DEF ConsentInv
      <4>. QED BY <2>3, <2>5, <3>2, <4>1 DEF Judged
    <3>. QED BY <3>1, <3>2
  <2>7. \A s \in Senders : Queued'[s] = Queued[s] /\ Inserting'[s] \subseteq Inserting[s]
    BY <2>1, <2>2, <2>3 DEF Queued, Inserting
  <2>. QED BY <1>t, <2>4, <2>6, <2>7, NoMore DEF ConsentInv
<1>9. CASE CountKnocks(h)
  <2>1. UNCHANGED <<contact, requests, issued, invite, feeds, desk, grey>>
        /\ arrival[h] \in Arriving /\ arrival[h].step = "count"
    BY <1>9, <1>b DEF CountKnocks, At, stores, Steps
  <2>2. CASE ~BelowCap(h)
    <3>1. Pass(h, "idle")
      BY <1>9, <2>2 DEF CountKnocks
    <3>. QED BY <1>t, <2>1, <3>1, HandlerKeeps
  <2>3. CASE BelowCap(h)
    <3>1. Pass(h, "insert") /\ "insert" \in Steps \cup {"idle"}
      BY <1>9, <2>3 DEF CountKnocks, Steps
    <3>2. /\ arrival' \in [Handlers -> Arrivals] /\ \A g \in Handlers \ {h} : arrival'[g] = arrival[g]
          /\ arrival'[h].step = "insert" /\ arrival'[h].knock = arrival[h].knock
      BY <1>t, <2>1, <3>1, Passing
    <3>3. ConsentTypeOK'
      BY <1>t, <2>1, <3>2 DEF ConsentTypeOK
    <3>4. \A g \in Handlers : Judged(arrival[g])'
      BY <2>1, <3>1, Judging
    <3>5. ASSUME NEW s \in Senders
          PROVE  Cardinality(Queued'[s]) + Cardinality(Inserting'[s]) <= Cap + Cardinality(Handlers) - 1
      <4>1. /\ IsFiniteSet(Queued[s]) /\ Cardinality(Queued[s]) \in Nat
            /\ IsFiniteSet(Inserting[s]) /\ Cardinality(Inserting[s]) \in Nat /\ Inserting[s] \subseteq Handlers
            /\ Cardinality(Handlers) \in Nat /\ Cap \in Nat
        BY <1>t, Sizes, ConsentAssumption
      <4>2. Queued'[s] = Queued[s]
        BY <2>1 DEF Queued
      <4>3. CASE s = From(h)
        <5>1. Cardinality(Queued[s]) < Cap
          BY <2>3, <4>3 DEF BelowCap, QueuedOf, Queued
        <5>2. Inserting'[s] \subseteq Handlers
          BY DEF Inserting
        <5>3. Cardinality(Inserting'[s]) <= Cardinality(Handlers) /\ Cardinality(Inserting'[s]) \in Nat
          BY <5>2, FS_Subset, FS_CardinalityType, ConsentAssumption
        <5>. QED BY <4>1, <4>2, <5>1, <5>3
      <4>4. CASE s # From(h)
        <5>1. Inserting'[s] = Inserting[s]
          BY <2>1, <3>2, <4>4 DEF Inserting, From
        <5>. QED BY <4>2, <5>1 DEF ConsentInv, Pressing
      <4>. QED BY <4>3, <4>4
    <3>. QED BY <3>3, <3>4, <3>5 DEF ConsentInv, Pressing
  <2>. QED BY <2>2, <2>3
<1>10. CASE InsertKnock(h)
  <2>1. UNCHANGED <<contact, issued, invite, feeds, desk, grey>> /\ Pass(h, "idle")
        /\ arrival[h] \in Arriving /\ arrival[h].step = "insert" /\ requests' = requests \cup {arrival[h].knock}
    BY <1>10, <1>b DEF InsertKnock, At, Steps
  <2>2. /\ arrival' \in [Handlers -> Arrivals] /\ \A g \in Handlers \ {h} : arrival'[g] = arrival[g]
        /\ arrival'[h] = Idle
    BY <1>t, <2>1, Passing
  <2>3. ConsentTypeOK'
    BY <1>t, <2>1, <2>2 DEF ConsentTypeOK, Arriving
  <2>4. \A g \in Handlers : Judged(arrival[g])'
    BY <2>1, Judging
  <2>5. ASSUME NEW s \in Senders
        PROVE  Cardinality(Queued'[s]) + Cardinality(Inserting'[s]) <= Cap + Cardinality(Handlers) - 1
    <3>1. /\ IsFiniteSet(Queued[s]) /\ Cardinality(Queued[s]) \in Nat
          /\ IsFiniteSet(Inserting[s]) /\ Cardinality(Inserting[s]) \in Nat
          /\ Cardinality(Handlers) \in Nat /\ Cap \in Nat
      BY <1>t, Sizes, ConsentAssumption
    <3>2. Cardinality(Queued[s]) + Cardinality(Inserting[s]) <= Cap + Cardinality(Handlers) - 1
      BY DEF ConsentInv, Pressing
    <3>3. CASE s = From(h)
      <4>1. Queued'[s] = Queued[s] \cup {arrival[h].knock}
        BY <2>1, <3>3 DEF Queued, From
      <4>2. Cardinality(Queued'[s]) <= Cardinality(Queued[s]) + 1 /\ Cardinality(Queued'[s]) \in Nat
        <5>1. CASE arrival[h].knock \in Queued[s]
          <6>1. Queued'[s] = Queued[s]
            BY <4>1, <5>1
          <6>. QED BY <3>1, <6>1
        <5>2. CASE arrival[h].knock \notin Queued[s]
          <6>1. Cardinality(Queued[s] \cup {arrival[h].knock}) = Cardinality(Queued[s]) + 1
            BY <3>1, <5>2, FS_AddElement
          <6>. QED BY <3>1, <4>1, <6>1
        <5>. QED BY <5>1, <5>2
      <4>3. h \in Inserting[s] /\ Inserting'[s] = Inserting[s] \ {h}
        BY <2>1, <2>2, <3>3 DEF Inserting, From, Idle
      <4>4. Cardinality(Inserting'[s]) = Cardinality(Inserting[s]) - 1
        BY <3>1, <4>3, FS_RemoveElement
      <4>. QED BY <3>1, <3>2, <4>2, <4>4
    <3>4. CASE s # From(h)
      <4>1. Queued'[s] = Queued[s] /\ Inserting'[s] = Inserting[s]
        BY <2>1, <2>2, <3>4 DEF Queued, Inserting, From, Idle
      <4>. QED BY <3>2, <4>1
    <3>. QED BY <3>3, <3>4
  <2>. QED BY <2>3, <2>4, <2>5 DEF ConsentInv, Pressing
<1>11. CASE WriteInbox(h)
  <2>1. Pass(h, "idle") /\ UNCHANGED <<contact, requests, issued, invite, feeds, desk, grey>>
        /\ arrival[h] \in Arriving
    BY <1>11, <1>b DEF WriteInbox, At, stores, Steps
  <2>. QED BY <1>t, <2>1, HandlerKeeps
<1>. QED BY <1>1, <1>2, <1>3, <1>4, <1>5, <1>6, <1>7, <1>8, <1>9, <1>10, <1>11 DEF Handle

\* An operator's step, which takes no knock in.
LEMMA OperatorKeeps ==
  ASSUME ConsentInv, Remember \/ UNCHANGED <<contact, invite, feeds, arrival>>, requests' \subseteq requests,
         contact' \in [Senders -> {"unknown", "known", "blocked"}], issued' \subseteq Senders,
         grey' \in [Senders -> {"absent", "seen", "due"}],
         invite' = Torn \/ invite' \in [Senders -> Verbs], feeds' = Torn \/ feeds' \in SUBSET Senders,
         desk' \in [Operators -> Desks]
  PROVE  ConsentInv'
<1>1. /\ arrival' \in [Handlers -> Arrivals] /\ \A g \in Handlers : Judged(arrival[g])'
      /\ Inserting' = Inserting
  <2>1. CASE Remember
    BY <2>1, Remembering
  <2>2. CASE UNCHANGED <<contact, invite, feeds, arrival>>
    <3>1. BarredBy' = BarredBy /\ Strangers' = Strangers
      BY <2>2 DEF BarredBy, Strangers, Banned
    <3>. QED BY <2>2, <3>1 DEF ConsentInv, ConsentTypeOK, Judged, Inserting
  <2>. QED BY <2>1, <2>2
<1>2. ConsentTypeOK'
  BY <1>1 DEF ConsentInv, ConsentTypeOK
<1>3. \A s \in Senders : Queued'[s] \subseteq Queued[s] /\ Inserting'[s] \subseteq Inserting[s]
  BY <1>1 DEF Queued
<1>. QED BY <1>1, <1>2, <1>3, NoMore DEF ConsentInv

LEMMA OperatorStep ==
  ASSUME ConsentInv,
         \/ \E s \in Senders : GreylistDelay(s) \/ Decline(s) \/ Block(s) \/ Unblock(s)
         \/ \E o \in Operators : Operate(o)
  PROVE  ConsentInv'
<1>t. /\ contact \in [Senders -> {"unknown", "known", "blocked"}] /\ requests \subseteq Knocks
      /\ issued \subseteq Senders /\ grey \in [Senders -> {"absent", "seen", "due"}]
      /\ invite = Torn \/ invite \in [Senders -> Verbs]
      /\ feeds = Torn \/ feeds \in SUBSET Senders
      /\ desk \in [Operators -> Desks]
  BY DEF ConsentInv, ConsentTypeOK
<1>d. ASSUME NEW o \in Operators, NEW d \in Desks, Turn(o, d) PROVE desk' \in [Operators -> Desks]
  BY <1>t, <1>d DEF Turn
<1>i. /\ Idle \in Desks /\ [step |-> "feeds"] \in Desks
      /\ \A s \in Senders, step \in {"clear", "drop", "issue"} : [step |-> step, subject |-> s] \in Desks
      /\ \A step \in {"truncate", "save"}, copy \in [Senders -> Verbs] : [step |-> step, copy |-> copy] \in Desks
      /\ \A d \in Desks : /\ d.step \in {"clear", "drop", "issue"} => d \in [step : {"clear", "drop", "issue"}, subject : Senders]
                          /\ d.step \in {"truncate", "save"} => d \in [step : {"truncate", "save"}, copy : [Senders -> Verbs]]
  BY DEF Desks, Idle
<1>1. ASSUME NEW s \in Senders, GreylistDelay(s) PROVE ConsentInv'
  <2>1. grey' = [grey EXCEPT ![s] = "due"] /\ UNCHANGED <<contact, requests, issued, invite, feeds, arrival, desk>>
    BY <1>1 DEF GreylistDelay
  <2>2. grey' \in [Senders -> {"absent", "seen", "due"}]
    BY <1>t, <2>1
  <2>. QED BY <1>t, <2>1, <2>2, OperatorKeeps
<1>2. ASSUME NEW s \in Senders, Decline(s) PROVE ConsentInv'
  <2>1. requests' \subseteq requests /\ UNCHANGED <<contact, issued, grey, invite, feeds, arrival, desk>>
    BY <1>2 DEF Decline
  <2>. QED BY <1>t, <2>1, OperatorKeeps
<1>3. ASSUME NEW s \in Senders, Block(s) \/ Unblock(s) PROVE ConsentInv'
  <2>1. contact' \in [Senders -> {"unknown", "known", "blocked"}]
        /\ UNCHANGED <<requests, issued, grey, invite, feeds, desk>> /\ Remember
    BY <1>t, <1>3 DEF Block, Unblock, SetContact
  <2>. QED BY <1>t, <2>1, OperatorKeeps
<1>4. ASSUME NEW o \in Operators, Operate(o) PROVE ConsentInv'
  <2>1. ASSUME NEW s \in Senders, AcceptRequest(o, s) \/ OnAccept(o, s) \/ DeclineAndBlock(o, s)
        PROVE  ConsentInv'
    <3>1. /\ contact' \in [Senders -> {"unknown", "known", "blocked"}] /\ Remember
          /\ UNCHANGED <<requests, issued, grey, invite, feeds>>
          /\ \E step \in {"clear", "drop", "issue"} : Turn(o, [step |-> step, subject |-> s])
      BY <1>t, <2>1 DEF AcceptRequest, OnAccept, Promote, DeclineAndBlock, SetContact
    <3>2. desk' \in [Operators -> Desks]
      BY <1>d, <1>i, <3>1
    <3>. QED BY <1>t, <3>1, <3>2, OperatorKeeps
  <2>2. ASSUME NEW s \in Senders, NEW v \in Verbs, LoadPolicy(o, s, v) PROVE ConsentInv'
    <3>1. UNCHANGED <<contact, requests, issued, grey, invite, feeds, arrival>> /\ invite # Torn
          /\ Turn(o, [step |-> "truncate", copy |-> [invite EXCEPT ![s] = v]])
      BY <2>2 DEF LoadPolicy, stores
    <3>2. [invite EXCEPT ![s] = v] \in [Senders -> Verbs]
      BY <1>t, <3>1
    <3>3. desk' \in [Operators -> Desks]
      BY <1>d, <1>i, <3>1, <3>2
    <3>. QED BY <1>t, <3>1, <3>3, OperatorKeeps
  <2>3. CASE ClearKnocks(o)
    <3>1. /\ requests' \subseteq requests /\ UNCHANGED <<contact, issued, grey, invite, feeds, arrival>>
          /\ desk[o] \in Desks /\ desk[o].step \in {"clear", "drop"}
          /\ Turn(o, IF desk[o].step = "clear" THEN [desk[o] EXCEPT !.step = "issue"] ELSE Idle)
      BY <1>t, <2>3 DEF ClearKnocks
    <3>2. desk[o] \in [step : {"clear", "drop", "issue"}, subject : Senders]
      BY <1>i, <3>1
    <3>3. [desk[o] EXCEPT !.step = "issue"] \in [step : {"clear", "drop", "issue"}, subject : Senders]
      BY <3>2
    <3>4. (IF desk[o].step = "clear" THEN [desk[o] EXCEPT !.step = "issue"] ELSE Idle) \in Desks
      BY <1>i, <3>3 DEF Desks
    <3>5. desk' \in [Operators -> Desks]
      BY <1>d, <3>1, <3>4
    <3>. QED BY <1>t, <3>1, <3>5, OperatorKeeps
  <2>4. CASE Issue(o)
    <3>1. /\ UNCHANGED <<contact, requests, grey, invite, feeds, arrival>> /\ Turn(o, Idle)
          /\ issued' = issued \cup {desk[o].subject} /\ desk[o] \in Desks /\ desk[o].step = "issue"
      BY <1>t, <2>4 DEF Issue
    <3>2. desk[o].subject \in Senders
      BY <1>i, <3>1
    <3>3. desk' \in [Operators -> Desks]
      BY <1>d, <1>i, <3>1
    <3>. QED BY <1>t, <3>1, <3>2, <3>3, OperatorKeeps
  <2>5. CASE SavePolicy(o)
    <3>1. /\ UNCHANGED <<contact, requests, issued, grey, feeds>> /\ Remember /\ desk[o] \in Desks
          /\ desk[o].step \in {"truncate", "save"}
          /\ \/ invite' = Torn /\ Turn(o, [desk[o] EXCEPT !.step = "save"])
             \/ invite' = desk[o].copy /\ Turn(o, Idle)
      BY <1>t, <2>5 DEF SavePolicy
    <3>2. desk[o] \in [step : {"truncate", "save"}, copy : [Senders -> Verbs]]
      BY <1>i, <3>1
    <3>3. [desk[o] EXCEPT !.step = "save"] \in [step : {"truncate", "save"}, copy : [Senders -> Verbs]]
          /\ desk[o].copy \in [Senders -> Verbs]
      BY <3>2
    <3>4. [desk[o] EXCEPT !.step = "save"] \in Desks
      BY <3>3 DEF Desks
    <3>5. desk' \in [Operators -> Desks] /\ (invite' = Torn \/ invite' \in [Senders -> Verbs])
      BY <1>d, <1>i, <3>1, <3>3, <3>4
    <3>. QED BY <1>t, <3>1, <3>5, OperatorKeeps
  <2>6. CASE TruncateRuntime(o)
    <3>1. UNCHANGED <<contact, requests, issued, grey, invite>> /\ Remember /\ feeds' = Torn
          /\ Turn(o, [step |-> "feeds"])
      BY <2>6 DEF TruncateRuntime
    <3>2. desk' \in [Operators -> Desks]
      BY <1>d, <1>i, <3>1
    <3>. QED BY <1>t, <3>1, <3>2, OperatorKeeps
  <2>7. ASSUME NEW feed \in SUBSET Senders, WriteRuntime(o, feed) PROVE ConsentInv'
    <3>1. UNCHANGED <<contact, requests, issued, grey, invite>> /\ Remember /\ feeds' = feed /\ Turn(o, Idle)
      BY <2>7 DEF WriteRuntime
    <3>2. desk' \in [Operators -> Desks]
      BY <1>d, <1>i, <3>1
    <3>. QED BY <1>t, <3>1, <3>2, OperatorKeeps
  <2>. QED BY <1>4, <2>1, <2>2, <2>3, <2>4, <2>5, <2>6, <2>7 DEF Operate
<1>. QED BY <1>1, <1>2, <1>3, <1>4

LEMMA ConsentStep == ConsentInv /\ [ConsentNext]_consentVars => ConsentInv'
<1>. SUFFICES ASSUME ConsentInv, [ConsentNext]_consentVars PROVE ConsentInv'
  OBVIOUS
<1>1. ASSUME NEW h \in Handlers, NEW e \in Knocks, Arrive(h, e) PROVE ConsentInv'
  <2>. DEFINE new == [step |-> "banGate", knock |-> e, seen |-> Banned,
                      barred |-> BarredBy[SenderOf[e]], stranger |-> SenderOf[e] \in Strangers]
  <2>1. arrival' = [arrival EXCEPT ![h] = new] /\ arrival[h] = Idle
        /\ UNCHANGED <<contact, requests, issued, grey, invite, feeds, desk>>
    BY <1>1 DEF Arrive, stores
  <2>2. /\ Banned \in SUBSET Senders /\ SenderOf[e] \in Senders /\ BarredBy[SenderOf[e]] \in SUBSET Reasons
        /\ (SenderOf[e] \in Strangers) \in BOOLEAN
        /\ ("feed" \in BarredBy[SenderOf[e]] => SenderOf[e] \in Banned)
    BY ConsentAssumption DEF ConsentInv, ConsentTypeOK, Banned, BarredBy, Reasons
  <2>3. /\ new \in Arriving /\ new.step = "banGate" /\ new.knock = e /\ new.seen = Banned
        /\ new.barred = BarredBy[SenderOf[e]] /\ (new.stranger <=> SenderOf[e] \in Strangers)
    BY <2>2 DEF Arriving, Steps
  <2>. HIDE DEF new
  <2>4. arrival' \in [Handlers -> Arrivals] /\ arrival'[h] = new
        /\ \A g \in Handlers \ {h} : arrival'[g] = arrival[g]
    BY <2>1, <2>3, ArrivingFacts DEF ConsentInv, ConsentTypeOK
  <2>5. ConsentTypeOK'
    BY <2>1, <2>4 DEF ConsentInv, ConsentTypeOK
  <2>6. BarredBy' = BarredBy /\ Strangers' = Strangers
    BY <2>1 DEF BarredBy, Strangers, Banned
  <2>7. ASSUME NEW g \in Handlers PROVE Judged(arrival[g])'
    <3>1. CASE g = h
      BY <2>2, <2>3, <2>4, <2>6, <3>1 DEF Judged
    <3>2. CASE g # h
      <4>1. Judged(arrival[g])
        BY DEF ConsentInv
      <4>. QED BY <2>4, <2>6, <3>2, <4>1 DEF Judged
    <3>. QED BY <3>1, <3>2
  <2>8. \A s \in Senders : Queued'[s] = Queued[s] /\ Inserting'[s] \subseteq Inserting[s]
    BY <2>1, <2>3, <2>4 DEF Queued, Inserting
  <2>. QED BY <2>5, <2>7, <2>8, NoMore DEF ConsentInv
<1>2. ASSUME NEW h \in Handlers, Handle(h) PROVE ConsentInv'
  BY <1>2, HandleStep
<1>3. ASSUME \/ \E s \in Senders : GreylistDelay(s) \/ Decline(s) \/ Block(s) \/ Unblock(s)
             \/ \E o \in Operators : Operate(o)
      PROVE  ConsentInv'
  BY <1>3, OperatorStep
<1>4. CASE UNCHANGED consentVars
  <2>1. UNCHANGED <<contact, requests, issued, grey, invite, feeds, arrival, desk>>
    BY <1>4 DEF consentVars, stores
  <2>. QED BY <2>1, OperatorKeeps DEF ConsentInv, ConsentTypeOK
<1>. QED BY <1>1, <1>2, <1>3, <1>4 DEF ConsentNext

-------------------------------------------------------------------------------
\* _consent_classify, the tiering of decide and the request queue (api.py, consent*.py): a sender
\* blocked or banned ever since neither gets through nor is queued, a stranger gets into no inbox in public mode
\* unless the tiering fails, and the queue of a sender exceeds its cap by one knock a handler at
\* most; ConsentKeeps.
THEOREM GateIsKept == ConsentSpec => [](ConsentTypeOK /\ ConsentKeeps)
<1>1. ConsentSpec => []ConsentInv
  BY ConsentStart, ConsentStep, PTL DEF ConsentSpec
<1>2. ConsentInv => ConsentTypeOK /\ ConsentKeeps
  <2>. SUFFICES ASSUME ConsentInv PROVE ConsentTypeOK /\ ConsentKeeps
    OBVIOUS
  <2>1. ASSUME NEW h \in Handlers
        PROVE  /\ arrival[h].step \in {"write", "count", "insert"} => arrival[h].barred = {}
               /\ Mode = "public" /\ arrival[h].step = "write" => ~arrival[h].stranger
    BY DEF ConsentInv, Judged, Idle
  <2>2. GateHolds
    BY <2>1 DEF GateHolds, BlockedStaysOut, StrangerStaysOut, At
  <2>3. ASSUME NEW s \in Senders PROVE Cardinality(QueuedOf(s)) <= Cap + Cardinality(Handlers) - 1
    <3>1. QueuedOf(s) = Queued[s]
      BY DEF QueuedOf, Queued
    <3>2. /\ Cardinality(Queued[s]) \in Nat /\ Cardinality(Inserting[s]) \in Nat
          /\ Cardinality(Handlers) \in Nat /\ Cap \in Nat
      BY Sizes, ConsentAssumption DEF ConsentInv
    <3>3. Cardinality(Queued[s]) + Cardinality(Inserting[s]) <= Cap + Cardinality(Handlers) - 1
      BY DEF ConsentInv, Pressing
    <3>. QED BY <3>1, <3>2, <3>3
  <2>. QED BY <2>2, <2>3 DEF ConsentInv, ConsentKeeps, KnocksBounded
<1>. QED BY <1>1, <1>2, PTL

-------------------------------------------------------------------------------
(* Admission to a group: who becomes a member, what a block outlasts and   *)
(* what a solved challenge buys, for any peers, gates, challenges and join *)
(* modes, whatever interleaves between the statements of a call.           *)

Seating    == [step : {"check", "generate", "write"}, peer : Peers, as : Standings, out : BOOLEAN]
Answering  == [step : {"answer"}, peer : Peers, to : Challenges, read : 0..MaxAttempts, out : BOOLEAN]
Privileged == Members \cup {"invited"}

\* What a call has looked at still entitles it to what it will write.
Minded(g) == visit[g] # Rest =>
  /\ visit[g].out => standing[visit[g].peer] = "blocked"
  /\ visit[g].step \in {"generate", "answer"} => ~visit[g].out
  /\ visit[g].step = "write" /\ visit[g].as # "blocked" /\ visit[g].as # "denied" => ~visit[g].out
  /\ visit[g].step # "answer" /\ visit[g].as \in Privileged => visit[g].peer \in welcome
  /\ visit[g].step = "answer" => visit[g].to \in DOMAIN seats

\* An invitation counts as a welcome before anybody joins on it.
NoneUninvited == Owner \in welcome /\ \A p \in Peers : standing[p] \in Privileged => p \in welcome

\* A live challenge has bought nothing, and what a consumed one bought and may still buy are
\* the calls that had read it.
Answerers == [c \in Challenges |-> {g \in Gates : visit[g].step = "answer" /\ visit[g].to = c}]
Spent == \A c \in DOMAIN seats :
  /\ seats[c] \in Nat /\ (Live(c) => seats[c] = 0)
  /\ seats[c] + Cardinality(Answerers[c]) <= Cardinality(Gates)

GroupInv ==
  /\ GroupTypeOK /\ seats = [c \in DOMAIN seats |-> seats[c]]
  /\ \A g \in Gates : Minded(g)
  /\ NoneUninvited /\ Spent

-------------------------------------------------------------------------------
LEMMA VisitFacts ==
  /\ Visits = {Rest} \cup Seating \cup Answering
  /\ \A v \in Seating : v # Rest /\ v.step \in {"check", "generate", "write"}
  /\ \A v \in Answering : v # Rest /\ v.step = "answer"
  /\ Rest.step = "rest"
BY DEF Visits, Rest, Seating, Answering

LEMMA GroupSizes ==
  ASSUME NEW c \in Challenges
  PROVE  /\ IsFiniteSet(Answerers[c]) /\ Cardinality(Answerers[c]) \in Nat
         /\ Answerers[c] \subseteq Gates /\ Cardinality(Answerers[c]) <= Cardinality(Gates)
         /\ Cardinality(Gates) \in Nat /\ Cardinality(Gates) # 0
<1>1. Answerers[c] \subseteq Gates
  BY DEF Answerers
<1>2. IsFiniteSet(Gates) /\ Gates # {}
  BY GroupAssumption
<1>3. Cardinality(Gates) \in Nat /\ Cardinality(Gates) # 0
  BY <1>2, FS_CardinalityType, FS_EmptySet
<1>4. IsFiniteSet(Answerers[c]) /\ Cardinality(Answerers[c]) <= Cardinality(Gates)
  BY <1>1, <1>2, FS_Subset
<1>5. Cardinality(Answerers[c]) \in Nat
  BY <1>4, FS_CardinalityType
<1>. QED BY <1>1, <1>3, <1>4, <1>5

\* A call goes on: the others are where they were.
LEMMA Going ==
  ASSUME GroupInv, NEW g \in Gates, NEW v \in Visits, Go(g, v)
  PROVE  /\ visit' \in [Gates -> Visits] /\ visit'[g] = v
         /\ \A h \in Gates \ {g} : visit'[h] = visit[h]
BY DEF GroupInv, GroupTypeOK, Go

\* Nobody is blocked or released: the other calls stay as minded as they were.
LEMMA MindsKept ==
  ASSUME GroupInv, NEW g \in Gates, \A h \in Gates \ {g} : visit'[h] = visit[h], Minded(g)',
         UNCHANGED standing, welcome \subseteq welcome', DOMAIN seats \subseteq DOMAIN seats'
  PROVE  \A h \in Gates : Minded(h)'
<1>1. ASSUME NEW h \in Gates \ {g} PROVE Minded(h)'
  <2>1. Minded(h)
    BY DEF GroupInv
  <2>. QED BY <2>1 DEF Minded
<1>. QED BY <1>1

\* A call that answers no challenge, and one that stops answering, buys none.
LEMMA SpentKept ==
  ASSUME GroupInv, NEW g \in Gates, \A h \in Gates \ {g} : visit'[h] = visit[h],
         visit'[g].step # "answer", UNCHANGED seats, DOMAIN attempts' \subseteq DOMAIN attempts
  PROVE  Spent'
<1>1. ASSUME NEW c \in DOMAIN seats
      PROVE  /\ seats[c] \in Nat /\ (Live(c)' => seats[c] = 0)
             /\ seats[c] + Cardinality(Answerers'[c]) <= Cardinality(Gates)
  <2>1. c \in Challenges
    BY DEF GroupInv, GroupTypeOK
  <2>2. seats[c] \in Nat /\ (Live(c) => seats[c] = 0) /\ seats[c] + Cardinality(Answerers[c]) <= Cardinality(Gates)
    BY DEF GroupInv, Spent
  <2>3. Answerers'[c] \subseteq Answerers[c]
    BY <2>1 DEF Answerers
  <2>4. Cardinality(Answerers'[c]) <= Cardinality(Answerers[c]) /\ Cardinality(Answerers'[c]) \in Nat
    BY <2>1, <2>3, GroupSizes, FS_Subset, FS_CardinalityType
  <2>5. Live(c)' => Live(c)
    BY DEF Live
  <2>. QED BY <2>1, <2>2, <2>4, <2>5, GroupSizes
<1>. QED BY <1>1 DEF Spent

LEMMA GroupStart == GroupInit => GroupInv
<1>. SUFFICES ASSUME GroupInit PROVE GroupInv
  OBVIOUS
<1>1. DOMAIN seats = {} /\ DOMAIN attempts = {} /\ seats = [c \in DOMAIN seats |-> seats[c]]
  BY DEF GroupInit
<1>2. standing \in [Peers -> Standings] /\ \A p \in Peers : standing[p] \in Privileged => p = Owner
  BY DEF GroupInit, Standings, Privileged, Members
<1>3. GroupTypeOK
  BY <1>1, <1>2, GroupAssumption, VisitFacts DEF GroupInit, GroupTypeOK
<1>4. NoneUninvited
  BY <1>2 DEF GroupInit, NoneUninvited
<1>5. \A g \in Gates : Minded(g)
  BY DEF GroupInit, Minded
<1>6. Spent
  BY <1>1 DEF Spent
<1>. QED BY <1>1, <1>3, <1>4, <1>5, <1>6 DEF GroupInv

-------------------------------------------------------------------------------
\* A call begins: it looked at the row of its peer.
LEMMA BeginKeeps ==
  ASSUME GroupInv, NEW g \in Gates, NEW v \in Seating, Begin(g, v),
         UNCHANGED <<joinMode, standing, attempts, seats>>,
         welcome \subseteq welcome', welcome' \subseteq Peers,
         v.out => IsBlocked(v.peer), v.step = "generate" => ~v.out,
         v.step = "write" /\ v.as # "blocked" /\ v.as # "denied" => ~v.out,
         v.as \in Privileged => v.peer \in welcome'
  PROVE  GroupInv'
<1>1. v \in Visits /\ v # Rest /\ v.step # "answer" /\ Go(g, v)
  BY VisitFacts DEF Begin, Go
<1>2. visit' \in [Gates -> Visits] /\ visit'[g] = v /\ \A h \in Gates \ {g} : visit'[h] = visit[h]
  BY <1>1, Going
<1>3. Minded(g)'
  BY <1>1, <1>2 DEF Minded, IsBlocked
<1>4. \A h \in Gates : Minded(h)'
  BY <1>2, <1>3, MindsKept
<1>5. Spent'
  BY <1>1, <1>2, SpentKept
<1>. QED BY <1>2, <1>4, <1>5 DEF GroupInv, GroupTypeOK, NoneUninvited

LEMMA JoinKeeps ==
  ASSUME GroupInv, NEW g \in Gates, NEW p \in Peers, Join(g, p)
  PROVE  GroupInv'
<1>. DEFINE as == CASE joinMode = "captcha" -> "pending"
                    [] joinMode = "open"    -> "member"
                    [] joinMode = "knock"   -> "pending"
                    [] OTHER -> IF standing[p] = "invited" THEN "member" ELSE "denied"
            v == [step |-> IF joinMode = "captcha" THEN "generate" ELSE "write", peer |-> p,
                  as |-> as, out |-> IsBlocked(p)]
<1>1. as \in Standings /\ (as \in Privileged => joinMode = "open" \/ standing[p] = "invited")
  BY DEF Standings, Privileged, Members
<1>. HIDE DEF as
<1>2. v \in Seating /\ v.peer = p /\ v.as = as /\ ~v.out
  BY <1>1 DEF Seating, Join, IsBlocked
<1>3. Begin(g, v)
  <2>1. CASE joinMode = "captcha"
    BY <2>1 DEF Join, Writes, Begin, as
  <2>2. CASE joinMode = "open"
    BY <2>2 DEF Join, Writes, Begin, as
  <2>3. CASE joinMode = "knock"
    BY <2>3 DEF Join, Writes, Begin, as
  <2>4. CASE joinMode = "invite_only"
    <3>1. CASE standing[p] = "invited"
      BY <2>4, <3>1 DEF Join, Writes, Begin, as
    <3>2. CASE standing[p] # "invited"
      <4>1. as = "denied" /\ v = Writes(p, "denied")
        BY <2>4, <3>2 DEF as, Writes
      <4>2. (IF standing[p] = "invited" THEN "member" ELSE "denied") = "denied"
        BY <3>2
      <4>3. visit[g] = Rest /\ visit' = [visit EXCEPT ![g] = Writes(p, "denied")]
        BY <2>4, <4>2 DEF Join, Begin
      <4>. QED BY <4>1, <4>3 DEF Begin
    <3>. QED BY <3>1, <3>2
  <2>. QED BY <2>1, <2>2, <2>3, <2>4 DEF GroupInv, GroupTypeOK, JoinModes
<1>4. /\ UNCHANGED <<joinMode, standing, attempts, seats>>
      /\ welcome \subseteq welcome' /\ welcome' \subseteq Peers
      /\ joinMode = "open" => p \in welcome'
  BY DEF Join, GroupInv, GroupTypeOK
<1>5. standing[p] = "invited" => p \in welcome'
  BY <1>4 DEF GroupInv, NoneUninvited, Privileged
<1>. HIDE DEF v
<1>. QED BY <1>1, <1>2, <1>3, <1>4, <1>5, BeginKeeps

LEMMA ModerateKeeps ==
  ASSUME GroupInv, NEW g \in Gates, NEW m \in Peers, NEW p \in Peers,
         NEW s \in {"member", "denied", "blocked", "invited"}, Moderate(g, m, p, s)
  PROVE  GroupInv'
<1>. DEFINE v == [step |-> IF s = "invited" THEN "check" ELSE "write", peer |-> p,
                  as |-> s, out |-> IsBlocked(p)]
<1>1. v \in Seating /\ v.peer = p /\ v.as = s /\ (v.out <=> IsBlocked(p))
      /\ v.step = (IF s = "invited" THEN "check" ELSE "write")
  BY DEF Seating, Standings, IsBlocked
<1>2. Begin(g, v)
  BY DEF Moderate, Writes
<1>3. /\ UNCHANGED <<joinMode, standing, attempts, seats>>
      /\ welcome \subseteq welcome' /\ welcome' \subseteq Peers
      /\ s \in {"member", "invited"} => p \in welcome'
      /\ s = "member" => ~IsBlocked(p)
  BY DEF Moderate, GroupInv, GroupTypeOK, Admittable
<1>. HIDE DEF v
<1>4. v.as \in Privileged => v.peer \in welcome'
  BY <1>1, <1>3 DEF Privileged, Members
<1>. QED BY <1>1, <1>2, <1>3, <1>4, BeginKeeps

LEMMA SeatKeeps ==
  ASSUME GroupInv, NEW g \in Gates, NEW p \in Peers, NEW role \in Members,
         AddMember(g, p, role) \/ (OpenGroup(g) /\ p = Owner /\ role = "moderator")
  PROVE  GroupInv'
<1>. DEFINE w == Writes(p, role)
            v == [w EXCEPT !.out = FALSE]
<1>0. w \in Seating /\ w.peer = p /\ w.as = role /\ w.step = "write"
  BY DEF Seating, Writes, Standings, Members, IsBlocked
<1>2. Begin(g, v)
  BY DEF AddMember, OpenGroup
<1>. HIDE DEF w
<1>1. v \in Seating /\ v.peer = p /\ v.as = role /\ ~v.out /\ v.step = "write"
  BY <1>0 DEF Seating
<1>3. /\ UNCHANGED <<joinMode, standing, attempts, seats>>
      /\ welcome \subseteq welcome' /\ welcome' \subseteq Peers /\ p \in welcome'
  BY DEF AddMember, OpenGroup, GroupInv, GroupTypeOK, NoneUninvited
<1>. HIDE DEF v
<1>. QED BY <1>1, <1>2, <1>3, BeginKeeps

LEMMA InviteKeeps ==
  ASSUME GroupInv, NEW g \in Gates, NEW p \in Peers, Invite(g, p)
  PROVE  GroupInv'
<1>. DEFINE v == [step |-> "check", peer |-> p, as |-> "invited", out |-> IsBlocked(p)]
<1>1. v \in Seating /\ v.peer = p /\ v.step = "check" /\ (v.out <=> IsBlocked(p))
  BY DEF Seating, Standings, IsBlocked
<1>2. Begin(g, v)
  BY DEF Invite, Writes
<1>3. /\ UNCHANGED <<joinMode, standing, attempts, seats>>
      /\ welcome \subseteq welcome' /\ welcome' \subseteq Peers /\ p \in welcome'
  BY DEF Invite, GroupInv, GroupTypeOK
<1>. HIDE DEF v
<1>. QED BY <1>1, <1>2, <1>3, BeginKeeps

-------------------------------------------------------------------------------
\* A call that goes to its write, or ends.
LEMMA GenerateKeeps ==
  ASSUME GroupInv, NEW g \in Gates, Generate(g)
  PROVE  GroupInv'
<1>1. PICK c \in Unissued :
        /\ attempts' = [d \in DOMAIN attempts \cup {c} |-> IF d = c THEN 0 ELSE attempts[d]]
        /\ seats' = [d \in DOMAIN seats \cup {c} |-> IF d = c THEN 0 ELSE seats[d]]
  BY DEF Generate
<1>. DEFINE v == [visit[g] EXCEPT !.step = "write"]
<1>2. visit[g] \in Seating /\ Go(g, v) /\ visit[g].step = "generate"
      /\ UNCHANGED <<joinMode, standing, welcome>>
  BY VisitFacts DEF Generate, GroupInv, GroupTypeOK
<1>3. v \in Seating /\ v.step = "write" /\ v.peer = visit[g].peer /\ v.as = visit[g].as
      /\ v.out = visit[g].out
  BY <1>2 DEF Seating
<1>. HIDE DEF v
<1>4. visit' \in [Gates -> Visits] /\ visit'[g] = v /\ \A h \in Gates \ {g} : visit'[h] = visit[h]
  BY <1>2, <1>3, VisitFacts, Going
<1>5. Minded(g)'
  <2>1. Minded(g) /\ visit[g] # Rest
    BY <1>2, VisitFacts DEF GroupInv
  <2>. QED BY <1>2, <1>3, <1>4, <2>1 DEF Minded
<1>6. \A h \in Gates : Minded(h)'
  BY <1>1, <1>2, <1>4, <1>5, MindsKept
<1>7. GroupTypeOK' /\ seats' = [d \in DOMAIN seats' |-> seats'[d]]
  BY <1>1, <1>2, <1>4, GroupAssumption DEF GroupInv, GroupTypeOK, Unissued
<1>8. Spent'
  <2>1. ASSUME NEW d \in DOMAIN seats'
        PROVE  /\ seats'[d] \in Nat /\ (Live(d)' => seats'[d] = 0)
               /\ seats'[d] + Cardinality(Answerers'[d]) <= Cardinality(Gates)
    <3>1. d \in Challenges
      BY <1>7 DEF GroupTypeOK
    <3>2. /\ Answerers'[d] \subseteq Gates /\ IsFiniteSet(Gates) /\ Cardinality(Gates) \in Nat
          /\ IsFiniteSet(Answerers[d])
      BY <3>1, GroupAssumption, GroupSizes DEF Answerers
    <3>3. Cardinality(Answerers'[d]) \in Nat /\ Cardinality(Answerers'[d]) <= Cardinality(Gates)
      BY <3>2, FS_Subset, FS_CardinalityType
    <3>4. CASE d = c
      BY <1>1, <3>2, <3>3, <3>4
    <3>5. CASE d # c
      <4>1. d \in DOMAIN seats /\ seats'[d] = seats[d] /\ (Live(d)' => Live(d))
        BY <1>1, <3>5 DEF Live
      <4>2. seats[d] \in Nat /\ (Live(d) => seats[d] = 0)
            /\ seats[d] + Cardinality(Answerers[d]) <= Cardinality(Gates)
        BY <4>1 DEF GroupInv, Spent
      <4>3. Answerers'[d] \subseteq Answerers[d]
        BY <1>3, <1>4, <3>1 DEF Answerers
      <4>4. Cardinality(Answerers'[d]) <= Cardinality(Answerers[d]) /\ Cardinality(Answerers[d]) \in Nat
        BY <3>1, <3>2, <4>3, FS_Subset, FS_CardinalityType
      <4>. QED BY <3>2, <3>3, <4>1, <4>2, <4>4
    <3>. QED BY <3>4, <3>5
  <2>. QED BY <2>1 DEF Spent
<1>. QED BY <1>2, <1>6, <1>7, <1>8 DEF GroupInv, NoneUninvited

LEMMA AdmitKeeps ==
  ASSUME GroupInv, NEW g \in Gates, NEW p \in Peers, NEW c \in Challenges, Admit(g, p, c)
  PROVE  GroupInv'
<1>. DEFINE v == [step |-> "answer", peer |-> p, to |-> c, read |-> attempts[c], out |-> IsBlocked(p)]
<1>1. /\ Live(c) /\ ~IsBlocked(p) /\ Go(g, v) /\ visit[g] = Rest
      /\ UNCHANGED <<joinMode, standing, attempts, welcome, seats>>
  BY DEF Admit, Begin, Go, Admittable
<1>2. attempts[c] \in 0..MaxAttempts /\ c \in DOMAIN seats
  BY <1>1, GroupAssumption DEF GroupInv, GroupTypeOK, Live
<1>3. v \in Answering /\ v.step = "answer" /\ v.to = c /\ ~v.out /\ v.peer = p
  BY <1>1, <1>2 DEF Answering, IsBlocked
<1>. HIDE DEF v
<1>4. visit' \in [Gates -> Visits] /\ visit'[g] = v /\ \A h \in Gates \ {g} : visit'[h] = visit[h]
  BY <1>1, <1>3, VisitFacts, Going
<1>5. Minded(g)'
  BY <1>1, <1>2, <1>3, <1>4, VisitFacts DEF Minded
<1>6. \A h \in Gates : Minded(h)'
  BY <1>1, <1>4, <1>5, MindsKept
<1>7. Spent'
  <2>1. ASSUME NEW d \in DOMAIN seats
        PROVE  /\ seats[d] \in Nat /\ (Live(d)' => seats[d] = 0)
               /\ seats[d] + Cardinality(Answerers'[d]) <= Cardinality(Gates)
    <3>1. d \in Challenges /\ (Live(d)' <=> Live(d))
      BY <1>1 DEF GroupInv, GroupTypeOK, Live
    <3>2. seats[d] \in Nat /\ (Live(d) => seats[d] = 0) /\ seats[d] + Cardinality(Answerers[d]) <= Cardinality(Gates)
      BY DEF GroupInv, Spent
    <3>3. CASE d = c
      <4>1. seats[d] = 0
        BY <1>1, <3>2, <3>3
      <4>2. Answerers'[d] \subseteq Gates /\ IsFiniteSet(Gates)
        BY <3>1, GroupAssumption DEF Answerers
      <4>3. Cardinality(Answerers'[d]) <= Cardinality(Gates) /\ Cardinality(Answerers'[d]) \in Nat
        BY <4>2, FS_Subset, FS_CardinalityType
      <4>. QED BY <3>1, <3>2, <4>1, <4>3
    <3>4. CASE d # c
      <4>1. Answerers'[d] = Answerers[d]
        BY <1>1, <1>3, <1>4, <3>1, <3>4, VisitFacts DEF Answerers
      <4>. QED BY <3>1, <3>2, <4>1
    <3>. QED BY <3>3, <3>4
  <2>. QED BY <1>1, <2>1 DEF Spent
<1>. QED BY <1>1, <1>4, <1>6, <1>7 DEF GroupInv, GroupTypeOK, NoneUninvited

LEMMA SolveKeeps ==
  ASSUME GroupInv, NEW g \in Gates, SolveCaptcha(g)
  PROVE  GroupInv'
<1>. DEFINE c == visit[g].to
            v == [step |-> "write", peer |-> visit[g].peer, as |-> "member", out |-> visit[g].out]
<1>1. /\ visit[g] \in Answering /\ Go(g, v) /\ visit[g].step = "answer"
      /\ attempts' = [d \in DOMAIN attempts \ {c} |-> attempts[d]]
      /\ seats' = [seats EXCEPT ![c] = @ + 1] /\ welcome' = welcome \cup {visit[g].peer}
      /\ UNCHANGED <<joinMode, standing>>
  BY VisitFacts DEF SolveCaptcha, Consumed, Without, GroupInv, GroupTypeOK
<1>2. visit[g].peer \in Peers /\ c \in Challenges /\ visit[g].out \in BOOLEAN
  BY <1>1 DEF Answering
<1>3. ~visit[g].out /\ c \in DOMAIN seats
  BY <1>1, VisitFacts DEF GroupInv, Minded
<1>4. v \in Seating /\ v.step = "write" /\ v.peer = visit[g].peer /\ v.as = "member" /\ ~v.out
  BY <1>2, <1>3 DEF Seating, Standings
<1>. HIDE DEF v
<1>5. visit' \in [Gates -> Visits] /\ visit'[g] = v /\ \A h \in Gates \ {g} : visit'[h] = visit[h]
  BY <1>1, <1>4, VisitFacts, Going
<1>6. Minded(g)'
  BY <1>1, <1>4, <1>5 DEF Minded
<1>7. /\ DOMAIN seats' = DOMAIN seats /\ seats'[c] = seats[c] + 1
      /\ \A d \in DOMAIN seats \ {c} : seats'[d] = seats[d]
      /\ seats' = [d \in DOMAIN seats' |-> seats'[d]]
  BY <1>1, <1>3 DEF GroupInv
<1>8. \A h \in Gates : Minded(h)'
  BY <1>1, <1>5, <1>6, <1>7, MindsKept
<1>9. GroupTypeOK'
  BY <1>1, <1>2, <1>5, <1>7 DEF GroupInv, GroupTypeOK
<1>10. Spent'
  <2>1. ASSUME NEW d \in DOMAIN seats
        PROVE  /\ seats'[d] \in Nat /\ (Live(d)' => seats'[d] = 0)
               /\ seats'[d] + Cardinality(Answerers'[d]) <= Cardinality(Gates)
    <3>1. d \in Challenges
      BY DEF GroupInv, GroupTypeOK
    <3>2. seats[d] \in Nat /\ (Live(d) => seats[d] = 0) /\ seats[d] + Cardinality(Answerers[d]) <= Cardinality(Gates)
      BY DEF GroupInv, Spent
    <3>3. CASE d = c
      <4>1. g \in Answerers[d] /\ Answerers'[d] = Answerers[d] \ {g}
        BY <1>1, <1>4, <1>5, <3>1, <3>3 DEF Answerers
      <4>2. Cardinality(Answerers'[d]) = Cardinality(Answerers[d]) - 1
        BY <3>1, <4>1, GroupSizes, FS_RemoveElement
      <4>3. seats'[d] = seats[d] + 1 /\ ~Live(d)'
        BY <1>1, <1>7, <3>3 DEF Live
      <4>. QED BY <3>1, <3>2, <4>2, <4>3, GroupSizes
    <3>4. CASE d # c
      <4>1. Answerers'[d] = Answerers[d]
        BY <1>1, <1>4, <1>5, <3>1, <3>4 DEF Answerers
      <4>2. seats'[d] = seats[d] /\ (Live(d)' => Live(d))
        BY <1>1, <1>7, <3>4 DEF Live
      <4>. QED BY <3>2, <4>1, <4>2
    <3>. QED BY <3>3, <3>4
  <2>. QED BY <1>7, <2>1 DEF Spent
<1>. QED BY <1>1, <1>7, <1>8, <1>9, <1>10 DEF GroupInv, NoneUninvited

\* A call ends without a write, or goes from its look at the row to its write.
LEMMA RestKeeps ==
  ASSUME GroupInv, NEW g \in Gates, Go(g, Rest), UNCHANGED <<joinMode, standing, welcome, seats>>,
         DOMAIN attempts' \subseteq DOMAIN attempts,
         \A c \in DOMAIN attempts' : attempts'[c] \in 0..(MaxAttempts - 1)
  PROVE  GroupInv'
<1>1. visit' \in [Gates -> Visits] /\ visit'[g] = Rest /\ \A h \in Gates \ {g} : visit'[h] = visit[h]
  BY VisitFacts, Going
<1>2. Minded(g)'
  BY <1>1 DEF Minded
<1>3. \A h \in Gates : Minded(h)'
  BY <1>1, <1>2, MindsKept
<1>4. Spent'
  BY <1>1, VisitFacts, SpentKept
<1>. QED BY <1>1, <1>3, <1>4 DEF GroupInv, GroupTypeOK, NoneUninvited

LEMMA MissKeeps ==
  ASSUME GroupInv, NEW g \in Gates, MissCaptcha(g)
  PROVE  GroupInv'
<1>1. Go(g, Rest) /\ UNCHANGED <<joinMode, standing, welcome, seats>>
  BY DEF MissCaptcha
<1>2. visit[g] \in Answering
  BY VisitFacts DEF MissCaptcha, GroupInv, GroupTypeOK
<1>. DEFINE c == visit[g].to
            n == visit[g].read
<1>3. n \in 0..MaxAttempts /\ MaxAttempts \in Nat
  BY <1>2, GroupAssumption DEF Answering
<1>4. \A d \in DOMAIN attempts : attempts[d] \in 0..(MaxAttempts - 1)
  BY DEF GroupInv, GroupTypeOK
<1>5. attempts' = IF ~Live(c) THEN attempts ELSE IF n + 1 >= MaxAttempts THEN Without(c)
                  ELSE [attempts EXCEPT ![c] = n + 1]
  BY DEF MissCaptcha
<1>. HIDE DEF c, n
<1>6. DOMAIN attempts' \subseteq DOMAIN attempts
  BY <1>5 DEF Without
<1>7. ASSUME NEW d \in DOMAIN attempts' PROVE attempts'[d] \in 0..(MaxAttempts - 1)
  <2>1. CASE ~Live(c) \/ n + 1 >= MaxAttempts
    BY <1>4, <1>5, <1>6, <2>1 DEF Without
  <2>2. CASE Live(c) /\ ~(n + 1 >= MaxAttempts)
    <3>1. attempts' = [attempts EXCEPT ![c] = n + 1] /\ n + 1 \in 0..(MaxAttempts - 1)
      BY <1>3, <1>5, <2>2
    <3>. QED BY <1>4, <3>1
  <2>. QED BY <2>1, <2>2
<1>. QED BY <1>1, <1>6, <1>7, RestKeeps

LEMMA CheckKeeps ==
  ASSUME GroupInv, NEW g \in Gates, CheckInvite(g)
  PROVE  GroupInv'
<1>. DEFINE p == visit[g].peer
            v == [visit[g] EXCEPT !.step = "write"]
<1>1. visit[g].step = "check" /\ UNCHANGED <<joinMode, standing, attempts, welcome, seats>>
      /\ visit[g] \in Seating
  BY VisitFacts DEF CheckInvite, GroupInv, GroupTypeOK
<1>2. CASE Go(g, Rest)
  BY <1>1, <1>2, RestKeeps DEF GroupInv, GroupTypeOK
<1>3. CASE ~IsBlocked(p) /\ Go(g, v)
  <2>1. v \in Seating /\ v.step = "write" /\ v.peer = p /\ v.as = visit[g].as /\ v.out = visit[g].out
    BY <1>1 DEF Seating
  <2>2. ~visit[g].out /\ (visit[g].as \in Privileged => p \in welcome)
    <3>1. Minded(g) /\ visit[g] # Rest
      BY <1>1, VisitFacts DEF GroupInv
    <3>. QED BY <1>1, <1>3, <3>1 DEF Minded, IsBlocked
  <2>. HIDE DEF v, p
  <2>3. visit' \in [Gates -> Visits] /\ visit'[g] = v /\ \A h \in Gates \ {g} : visit'[h] = visit[h]
    BY <1>3, <2>1, VisitFacts, Going
  <2>4. Minded(g)'
    BY <1>1, <2>1, <2>2, <2>3 DEF Minded
  <2>5. \A h \in Gates : Minded(h)'
    BY <1>1, <2>3, <2>4, MindsKept
  <2>6. Spent'
    BY <1>1, <2>1, <2>3, SpentKept
  <2>. QED BY <1>1, <2>3, <2>5, <2>6 DEF GroupInv, GroupTypeOK, NoneUninvited
<1>. QED BY <1>2, <1>3 DEF CheckInvite, Go

\* The write: a peer that is not blocked any more ends what the others remember of its block.
LEMMA UpsertKeeps ==
  ASSUME GroupInv, NEW g \in Gates, Upsert(g)
  PROVE  GroupInv'
<1>. DEFINE p == visit[g].peer
            as == visit[g].as
            freed(h) == visit[h] # Rest /\ visit[h].peer = p /\ as # "blocked"
<1>1. /\ visit[g].step = "write" /\ UNCHANGED <<joinMode, attempts, welcome, seats>>
      /\ visit[g] \in Seating /\ standing' = [standing EXCEPT ![p] = as]
  BY VisitFacts DEF Upsert, GroupInv, GroupTypeOK
<1>2. p \in Peers /\ as \in Standings /\ standing \in [Peers -> Standings]
  BY <1>1 DEF Seating, GroupInv, GroupTypeOK
<1>3. as \in Privileged => p \in welcome
  <2>1. Minded(g) /\ visit[g] # Rest
    BY <1>1, VisitFacts DEF GroupInv
  <2>. QED BY <1>1, <2>1 DEF Minded
<1>4. visit' = [h \in Gates |-> CASE h = g -> Rest
                                  [] h # g /\ freed(h) -> [visit[h] EXCEPT !.out = FALSE]
                                  [] OTHER -> visit[h]]
  BY DEF Upsert
<1>5. visit'[g] = Rest
  BY <1>4
<1>. HIDE DEF p, as
<1>6. ASSUME NEW h \in Gates \ {g}
      PROVE  /\ visit'[h] \in Visits /\ Minded(h)'
             /\ visit'[h].step = visit[h].step
             /\ visit[h].step = "answer" => visit'[h].to = visit[h].to
  <2>1. visit[h] \in Visits /\ Minded(h)
    BY DEF GroupInv, GroupTypeOK
  <2>2. CASE freed(h)
    <3>. DEFINE v == [visit[h] EXCEPT !.out = FALSE]
    <3>1. visit'[h] = v
      BY <1>4, <2>2
    <3>2. CASE visit[h] \in Seating
      <4>1. v \in Seating /\ v.step = visit[h].step /\ v.peer = visit[h].peer /\ v.as = visit[h].as /\ ~v.out
        BY <3>2 DEF Seating
      <4>. HIDE DEF v
      <4>2. Minded(h)'
        BY <1>1, <2>1, <3>1, <3>2, <4>1, VisitFacts DEF Minded
      <4>. QED BY <3>1, <3>2, <4>1, <4>2, VisitFacts
    <3>3. CASE visit[h] \in Answering
      <4>1. v \in Answering /\ v.step = visit[h].step /\ v.peer = visit[h].peer /\ v.to = visit[h].to /\ ~v.out
        BY <3>3 DEF Answering
      <4>. HIDE DEF v
      <4>2. Minded(h)'
        BY <1>1, <2>1, <3>1, <3>3, <4>1, VisitFacts DEF Minded
      <4>. QED BY <3>1, <3>3, <4>1, <4>2, VisitFacts
    <3>. QED BY <2>1, <2>2, <3>2, <3>3, VisitFacts
  <2>3. CASE ~freed(h)
    <3>1. visit'[h] = visit[h]
      BY <1>4, <2>3
    <3>2. CASE visit[h] = Rest
      BY <2>1, <3>1, <3>2 DEF Minded
    <3>3. CASE visit[h] # Rest
      <4>1. standing[visit[h].peer] = "blocked" => standing'[visit[h].peer] = "blocked"
        <5>1. visit[h].peer \in Peers
          BY <2>1, <3>3, VisitFacts DEF Seating, Answering
        <5>2. visit[h].peer # p \/ as = "blocked"
          BY <2>3, <3>3
        <5>. QED BY <1>1, <1>2, <5>1, <5>2
      <4>2. Minded(h)'
        BY <1>1, <2>1, <3>1, <4>1 DEF Minded
      <4>. QED BY <2>1, <3>1, <4>2
    <3>. QED BY <3>2, <3>3
  <2>. QED BY <2>2, <2>3
<1>7. visit' \in [Gates -> Visits] /\ \A h \in Gates : Minded(h)'
  <2>1. visit' = [h \in Gates |-> visit'[h]] /\ Rest \in Visits
    BY <1>4, VisitFacts
  <2>2. Minded(g)'
    BY <1>5 DEF Minded
  <2>. QED BY <1>5, <1>6, <2>1, <2>2
<1>8. standing' \in [Peers -> Standings] /\ NoneUninvited'
  BY <1>1, <1>2, <1>3 DEF GroupInv, NoneUninvited
<1>9. Spent'
  <2>1. ASSUME NEW c \in DOMAIN seats PROVE Answerers'[c] = Answerers[c] /\ (Live(c)' <=> Live(c))
    <3>1. c \in Challenges
      BY DEF GroupInv, GroupTypeOK
    <3>2. visit[g].step # "answer" /\ visit'[g].step # "answer"
      BY <1>1, <1>5, VisitFacts
    <3>. QED BY <1>1, <1>6, <3>1, <3>2 DEF Answerers, Live
  <2>. QED BY <1>1, <2>1 DEF GroupInv, Spent
<1>. QED BY <1>1, <1>7, <1>8, <1>9 DEF GroupInv, GroupTypeOK

-------------------------------------------------------------------------------
LEMMA GroupStep == GroupInv /\ [GroupNext]_groupVars => GroupInv'
<1>. SUFFICES ASSUME GroupInv, [GroupNext]_groupVars PROVE GroupInv'
  OBVIOUS
<1>1. ASSUME NEW g \in Gates, NEW p \in Peers,
             \/ Join(g, p) \/ Invite(g, p) \/ \E role \in Members : AddMember(g, p, role)
             \/ \E c \in Challenges : Admit(g, p, c)
             \/ \E m \in Peers, s \in {"member", "denied", "blocked", "invited"} : Moderate(g, m, p, s)
      PROVE  GroupInv'
  BY <1>1, JoinKeeps, InviteKeeps, SeatKeeps, AdmitKeeps, ModerateKeeps
<1>2. ASSUME NEW g \in Gates,
             \/ Generate(g) \/ SolveCaptcha(g) \/ MissCaptcha(g) \/ CheckInvite(g) \/ Upsert(g)
      PROVE  GroupInv'
  BY <1>2, GenerateKeeps, SolveKeeps, MissKeeps, CheckKeeps, UpsertKeeps
<1>3. ASSUME NEW g \in Gates, OpenGroup(g) PROVE GroupInv'
  BY <1>3, GroupAssumption, SeatKeeps DEF Members
<1>4. ASSUME NEW g \in Gates, Abort(g) PROVE GroupInv'
  <2>1. Go(g, Rest) /\ UNCHANGED <<joinMode, standing, attempts, welcome, seats>>
    BY <1>4 DEF Abort
  <2>. QED BY <2>1, RestKeeps DEF GroupInv, GroupTypeOK
<1>5. ASSUME NEW c \in Challenges, ExpireCaptcha(c) PROVE GroupInv'
  <2>1. UNCHANGED <<joinMode, standing, visit, welcome, seats>>
        /\ DOMAIN attempts' \subseteq DOMAIN attempts
        /\ \A d \in DOMAIN attempts' : attempts'[d] = attempts[d]
    BY <1>5 DEF ExpireCaptcha, Without
  <2>2. \A g \in Gates : Minded(g)'
    BY <2>1 DEF GroupInv, Minded
  <2>3. Spent'
    <3>1. Answerers' = Answerers /\ \A d \in DOMAIN seats : Live(d)' => Live(d)
      BY <2>1 DEF Answerers, Live
    <3>. QED BY <2>1, <3>1 DEF GroupInv, Spent
  <2>. QED BY <2>1, <2>2, <2>3 DEF GroupInv, GroupTypeOK, NoneUninvited
<1>6. CASE UNCHANGED groupVars
  <2>1. UNCHANGED <<joinMode, standing, attempts, visit, welcome, seats>>
    BY <1>6 DEF groupVars
  <2>2. \A g \in Gates : Minded(g)'
    BY <2>1 DEF GroupInv, Minded
  <2>3. Spent'
    <3>1. Answerers' = Answerers /\ \A d \in DOMAIN seats : Live(d)' <=> Live(d)
      BY <2>1 DEF Answerers, Live
    <3>. QED BY <2>1, <3>1 DEF GroupInv, Spent
  <2>. QED BY <2>1, <2>2, <2>3 DEF GroupInv, GroupTypeOK, NoneUninvited
<1>. QED BY <1>1, <1>2, <1>3, <1>4, <1>5, <1>6 DEF GroupNext

LEMMA GroupInvKeeps == GroupInv => AdmissionHolds
<1>. SUFFICES ASSUME GroupInv PROVE AdmissionHolds
  OBVIOUS
<1>1. MembershipEarned
  BY DEF GroupInv, NoneUninvited, Privileged, MembershipEarned
<1>2. BlockOutlasts
  <2>1. \A g \in Gates : visit[g].step = "write" => visit[g] # Rest
    BY VisitFacts
  <2>. QED BY <2>1 DEF GroupInv, Minded, BlockOutlasts
<1>3. ChallengeSpent
  <2>1. ASSUME NEW c \in DOMAIN seats PROVE seats[c] <= Cardinality(Gates)
    <3>1. c \in Challenges
      BY DEF GroupInv, GroupTypeOK
    <3>2. seats[c] \in Nat /\ seats[c] + Cardinality(Answerers[c]) <= Cardinality(Gates)
      BY DEF GroupInv, Spent
    <3>3. Cardinality(Answerers[c]) \in Nat /\ Cardinality(Gates) \in Nat
      BY <3>1, GroupSizes
    <3>. QED BY <3>2, <3>3
  <2>. QED BY <2>1 DEF ChallengeSpent
<1>. QED BY <1>1, <1>2, <1>3 DEF AdmissionHolds

(* GroupConsentGate: whoever is a member was welcome, a call that began    *)
(* after a block seats nobody while the block stands, and a challenge buys *)
(* no more seats than there are gates, for any gates and any peers.        *)
THEOREM AdmissionIsEarned == GroupSpec => [](GroupTypeOK /\ AdmissionHolds)
<1>1. GroupInit => GroupInv
  BY GroupStart
<1>2. GroupInv /\ [GroupNext]_groupVars => GroupInv'
  BY GroupStep
<1>3. GroupInv => GroupTypeOK /\ AdmissionHolds
  BY GroupInvKeeps DEF GroupInv
<1>. QED BY <1>1, <1>2, <1>3, PTL DEF GroupSpec
===============================================================================
