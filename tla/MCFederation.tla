----------------------------- MODULE MCFederation -----------------------------
(* Instances of Federation for TLC.                                        *)
EXTENDS Federation

CONSTANT Ahead      \* the message whose sender's clock is ahead of ours

InSync   == [m \in Msgs |-> 0]
OneAhead == [m \in Msgs |-> IF m = Ahead THEN MaxSkew + 1 ELSE 0]
===============================================================================
