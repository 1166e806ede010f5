------------------------------ MODULE MCFileRail ------------------------------
(* Instances of FileRail for TLC.                                          *)
EXTENDS FileRail

CONSTANTS Signed, Array   \* the messages of another kind

Kinds == [m \in Msgs |-> IF m \in Signed THEN "signed"
                         ELSE IF m = Array THEN "array" ELSE "legacy"]

\* The signed messages are interchangeable.
Symmetry == Permutations(Signed)
===============================================================================
