------------------------------- MODULE MCRouter -------------------------------
(* Instances of Router for TLC: a relay rail, a point-to-point rail and    *)
(* the store-and-forward rail.                                             *)
EXTENDS Router, TLC

CONSTANTS File, Http, NostrSf, Alice, Bob

DefaultChain == SelectSeq(<<Http, File, NostrSf>>, LAMBDA r : r \in Rails)
NoPreference == {<<>>}

(* The file rail reaches everybody but Alice, whom no rail knows; the      *)
(* http rail has its moments; the relay knows neither Alice nor '*'.       *)
Town == [p \in Rails \X Recipients |->
  CASE p = <<File, Alice>>     -> {"perm"}
    [] p = <<File, Bob>>       -> {"ok"}
    [] p = <<File, Star>>      -> {"perm", "transient"}
    [] p[1] = Http             -> {"ok", "transient", "raised"}
    [] p = <<NostrSf, Bob>>    -> {"ok", "transient"}
    [] OTHER                   -> {"no_address"}]

Symmetry == Permutations(Senders)
===============================================================================
