------------------------------ MODULE MCDelivery ------------------------------
(* Instances of Delivery for TLC.                                          *)
EXTENDS Delivery

\* One recipient is named by its agent name, another by its fqid.
OneByFqid == [m \in Msgs |-> IF m = CHOOSE x \in Msgs : TRUE THEN "fqid" ELSE "name"]

\* Where a process crashes, one of the messages is not sent.
CrashNext == Next /\ (crashes' = 0 \/ \E m \in Msgs : sending'[m] = "new")
CrashSpec == Init /\ [][CrashNext]_vars /\ Fairness
===============================================================================
