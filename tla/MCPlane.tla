-------------------------------- MODULE MCPlane --------------------------------
(* The federation gate and the parts of the federation and channel plane   *)
(* that share no state with it or with one another, in one instance for    *)
(* TLC: "part" chooses which of them a behaviour is about, and the others  *)
(* rest in one of their initial states.                                    *)
EXTENDS MCFederation, Directory, RealmCache, Adapters, Socket, RateLimit,
        Access, TLC

CONSTANTS Guest

VARIABLE part

\* access.yml lets the one guest write.
AccessYml == (Guest :> {1}) @@ (Anyone :> {})

\* The actors of every part are the Handlers, and the adapters are not symmetric.
PlaneSymmetry == Permutations(Handlers)

PlaneInit ==
  /\ part \in {"gate", "directory", "resolve", "adapters", "socket", "ratelimit", "access"}
  /\ Init /\ DirectoryInit /\ RealmCacheInit /\ AdaptersInit /\ SocketInit
  /\ RateLimitInit /\ AccessInit
  /\ part # "gate" => up
  /\ part # "resolve" => hosted = [directory |-> TRUE, pin |-> TRUE]

AtRest(name, state) == IF part = name THEN TRUE ELSE UNCHANGED state

planeVars == <<part, vars, directoryVars, realmCacheVars, adaptersVars, socketVars,
               rateLimitVars, accessVars>>

PlaneNext ==
  /\ \/ part = "gate" /\ Next
     \/ part = "directory" /\ DirectoryNext
     \/ part = "resolve" /\ RealmCacheNext
     \/ part = "adapters" /\ AdaptersNext
     \/ part = "socket" /\ SocketNext
     \/ part = "ratelimit" /\ RateLimitNext
     \/ part = "access" /\ AccessNext
  /\ UNCHANGED part
  /\ AtRest("gate", vars) /\ AtRest("directory", directoryVars)
  /\ AtRest("resolve", realmCacheVars) /\ AtRest("adapters", adaptersVars)
  /\ AtRest("socket", socketVars) /\ AtRest("ratelimit", rateLimitVars)
  /\ AtRest("access", accessVars)

PlaneSpec == PlaneInit /\ [][PlaneNext]_planeVars
===============================================================================
