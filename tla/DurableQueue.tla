----------------------------- MODULE DurableQueue -----------------------------
(***************************************************************************)
(* What a sender is promised by the outbox: a message it accepted stays    *)
(* held, or set aside as a dead letter, until somebody resolves it, or     *)
(* until two processes that write its file at once spoil it.               *)
(***************************************************************************)
CONSTANT Messages
VARIABLE st

Init == st = [m \in Messages |-> "none"]

Move(m, from, to) == st[m] \in from /\ st' = [st EXCEPT ![m] = to]

Accept(m)  == Move(m, {"none"}, "held")
GiveUp(m)  == Move(m, {"held"}, "dead")        \* retries or the ACK horizon ran out
Revive(m)  == Move(m, {"dead"}, "held")        \* the operator requeues it

Spoil(m)   == Move(m, {"held", "dead"}, "spoiled")

\* Delivered, acknowledged, superseded or purged; one call may purge many.
Resolve(S) == /\ \A m \in S : st[m] \in {"none", "held", "dead", "spoiled"}
              /\ st' = [m \in Messages |-> IF m \in S THEN "resolved" ELSE st[m]]

Next == \/ \E m \in Messages : Accept(m) \/ GiveUp(m) \/ Revive(m) \/ Spoil(m)
        \/ \E S \in SUBSET Messages : Resolve(S)

Spec == Init /\ [][Next]_st
===============================================================================
