------------------------------- MODULE MCOutbox -------------------------------
(* Instances of Outbox for TLC.                                            *)
EXTENDS Outbox

TwoIds   == 1..2
ThreeIds == 1..3

FirstId  == {1}

Durable == [i \in Ids |-> NoKey]
\* A durable message and two beacons of one entity.
Mixed == [i \in Ids |-> IF i = 1 THEN NoKey ELSE CHOOSE k \in Keys : TRUE]
===============================================================================
