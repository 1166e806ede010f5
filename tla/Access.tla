--------------------------------- MODULE Access ---------------------------------
(***************************************************************************)
(* The scope grants of the access plane (skcomms/access grants.py,         *)
(* config.py, server.py).  A clerk is a grant or revoke command: it loads  *)
(* grants.yml, changes it, writes it to the one temporary name it has and  *)
(* renames that, without a lock.  The server merges the file over the      *)
(* static grants of access.yml once, when it starts, and checks every      *)
(* tool call against what it merged.                                       *)
(*                                                                         *)
(* A scope is its rank: a higher one includes the lower ones.  Grants map  *)
(* an identity, or Anyone, to its scopes; the empty set is that it is not  *)
(* named, and a file cut short is read as naming nobody.  The definitions  *)
(* no action uses are plausible faults of the one after them.              *)
(***************************************************************************)
EXTENDS Naturals

CONSTANTS Guests, Anyone,   \* verified identities, and the wildcard
          Ranks,            \* read, write, exec: 0 is read
          Clerks,
          StaticGrants,     \* access.yml
          NoTemp,
          MaxCommands,      \* bound on the commands
          MaxLaunches       \* bound on the server's starts

Identities == Guests \cup {Anyone}
Grants     == [Identities -> SUBSET Ranks]

ASSUME AccessAssumption ==
  /\ Anyone \notin Guests /\ Ranks \subseteq Nat /\ 0 \in Ranks
  /\ StaticGrants \in Grants /\ NoTemp \notin Grants
  /\ MaxCommands \in Nat /\ MaxLaunches \in Nat

VARIABLES
  grantsFile, grantsTemp,   \* grants.yml and grants.yml.tmp; NoTemp when it is not there
  clerk,
  commands, launches,       \* history: commands begun, server starts
  scopeGrants,              \* what the running server merged
  lastCall,                 \* history: the last tool call this server ran
  said,                     \* history: the grants, each command after the other
  everSaid,                 \* history: what was ever granted to whom
  crossed,                  \* history: two commands were under way at once
  mixed,                    \* history: two commands wrote into one file
  basis                     \* history: said, crossed and mixed when the server started

files      == <<grantsFile, grantsTemp>>
server     == <<scopeGrants, lastCall, basis, launches>>
accessVars == <<files, clerk, commands, server, said, everSaid, crossed, mixed>>

NoGrants == [i \in Identities |-> {}]
Off      == [step |-> "off"]

AccessInit ==
  /\ grantsFile = NoGrants /\ grantsTemp = NoTemp /\ clerk = [c \in Clerks |-> Off]
  /\ commands = 0 /\ launches = 0 /\ scopeGrants = NoGrants /\ lastCall = {}
  /\ said = NoGrants /\ everSaid = NoGrants /\ crossed = FALSE /\ mixed = FALSE
  /\ basis = [said |-> NoGrants, crossed |-> FALSE, mixed |-> FALSE]

Proceeds(c, step) == clerk' = [clerk EXCEPT ![c].step = step]

-------------------------------------------------------------------------------
(* grant and revoke: load, change, save.                                   *)

\* A command may name several scopes; here it names one.
Changed(grants, i, s, adds) == [grants EXCEPT ![i] = IF adds THEN @ \cup {s} ELSE @ \ {s}]

Command(c, i, s, adds) ==
  /\ clerk[c] = Off /\ commands < MaxCommands /\ commands' = commands + 1
  /\ clerk' = [clerk EXCEPT ![c] =
       [step |-> "open", copy |-> Changed(grantsFile, i, s, adds),
        of |-> i, scope |-> s, adds |-> adds, into |-> "temp"]]
  /\ crossed' = (crossed \/ \E d \in Clerks \ {c} : clerk[d] # Off)
  /\ everSaid' = IF adds THEN [everSaid EXCEPT ![i] = @ \cup {s}] ELSE everSaid
  /\ UNCHANGED <<files, server, said, mixed>>

\* write_text opens the temporary file, which cuts it to nothing ...
OpenTemp(c) ==
  /\ clerk[c].step = "open" /\ Proceeds(c, "flush") /\ grantsTemp' = NoGrants
  /\ UNCHANGED <<grantsFile, commands, server, said, everSaid, crossed, mixed>>

\* What is left when one text is written over a longer one: the tail of that may list
\* further scopes for the last name, or further names, or not parse at all.
Mixtures(text, over) ==
  LET named == UNION {text[i] \cup over[i] : i \in Identities} IN
    {grants \in Grants : \A i \in Identities : grants[i] \subseteq named}

\* ... and fills it from the start, over what another clerk wrote there since.  A file
\* that was renamed in between is grants.yml itself, until the next one replaces that.
FlushTemp(c) ==
  /\ clerk[c].step = "flush" /\ Proceeds(c, "replace")
  /\ LET into == clerk[c].into
         now  == CASE into = "temp" -> grantsTemp [] into = "yml" -> grantsFile
                   [] OTHER -> NoGrants IN
       /\ mixed' = (mixed \/ now # NoGrants)
       /\ \E text \in IF now = NoGrants THEN {clerk[c].copy} ELSE Mixtures(clerk[c].copy, now) :
            /\ grantsTemp' = IF into = "temp" THEN text ELSE grantsTemp
            /\ grantsFile' = IF into = "yml" THEN text ELSE grantsFile
  /\ UNCHANGED <<commands, server, said, everSaid, crossed>>

Renamed(into) == IF grantsTemp = NoTemp THEN into ELSE IF into = "temp" THEN "yml" ELSE "gone"

\* Another clerk may have renamed the temporary file: then the command fails.
ReplaceFile(c) ==
  /\ clerk[c].step = "replace"
  /\ IF grantsTemp = NoTemp THEN UNCHANGED files
     ELSE grantsFile' = grantsTemp /\ grantsTemp' = NoTemp
  /\ clerk' = [d \in Clerks |-> IF d = c THEN Off
                                ELSE IF clerk[d].step = "flush" THEN [clerk[d] EXCEPT !.into = Renamed(@)]
                                ELSE clerk[d]]
  /\ said' = Changed(said, clerk[c].of, clerk[c].scope, clerk[c].adds)
  /\ UNCHANGED <<commands, server, everSaid, crossed, mixed>>

ClerkDies(c) ==
  /\ clerk[c] # Off /\ clerk' = [clerk EXCEPT ![c] = Off]
  /\ UNCHANGED <<files, commands, server, said, everSaid, crossed, mixed>>

-------------------------------------------------------------------------------
(* The server.                                                             *)

\* merge_grants: an identity the file names has what the file says.
Unioned(base, file) == [i \in Identities |-> base[i] \cup file[i]]
Merged(base, file)  == [i \in Identities |-> IF file[i] = {} THEN base[i] ELSE file[i]]

\* AccessConfig.load.
Launch ==
  /\ launches < MaxLaunches /\ launches' = launches + 1
  /\ lastCall' = {}
  /\ scopeGrants' = Merged(StaticGrants, grantsFile)
  /\ basis' = [said |-> said, crossed |-> crossed, mixed |-> mixed]
  /\ UNCHANGED <<files, clerk, commands, said, everSaid, crossed, mixed>>

\* granted_scopes: what is granted to it, or to anyone, or read.
Granted(grants, g) ==
  IF grants[g] # {} THEN grants[g] ELSE IF grants[Anyone] # {} THEN grants[Anyone] ELSE {0}
Suffices(scopes, need) == \E s \in scopes : s >= need

\* authenticate, or a session bound to the caller; then the tool is run.
CallTool(g, need) ==
  /\ launches > 0 /\ Suffices(Granted(scopeGrants, g), need)
  /\ lastCall' = {<<g, need>>}
  /\ UNCHANGED <<files, clerk, commands, scopeGrants, basis, launches, said, everSaid, crossed,
                 mixed>>

AccessNext ==
  \/ \E c \in Clerks :
       \/ \E i \in Identities, s \in Ranks, adds \in BOOLEAN : Command(c, i, s, adds)
       \/ OpenTemp(c) \/ FlushTemp(c) \/ ReplaceFile(c) \/ ClerkDies(c)
  \/ Launch \/ \E g \in Guests, need \in Ranks : CallTool(g, need)

AccessSpec == AccessInit /\ [][AccessNext]_accessVars

-------------------------------------------------------------------------------
(* Every variable keeps its shape.                                         *)
AccessTypeOK ==
  /\ grantsFile \in Grants /\ scopeGrants \in Grants /\ said \in Grants /\ everSaid \in Grants
  /\ grantsTemp = NoTemp \/ grantsTemp \in Grants
  /\ clerk \in [Clerks -> {Off} \cup
       [step : {"open", "flush", "replace"}, copy : Grants,
        of : Identities, scope : Ranks, adds : BOOLEAN, into : {"temp", "yml", "gone"}]]
  /\ commands \in 0..MaxCommands /\ launches \in 0..MaxLaunches
  /\ crossed \in BOOLEAN /\ mixed \in BOOLEAN /\ lastCall \subseteq Guests \X Ranks
  /\ basis \in [said : Grants, crossed : BOOLEAN, mixed : BOOLEAN]

(* However commands cross, are cut short or die, the file names nobody for *)
(* a scope that no command granted, and the server runs a tool for nobody  *)
(* who was granted its scope neither in access.yml nor by a command; but   *)
(* for this: once two commands have written into one file, a mixture of    *)
(* their texts may grant what neither said.  That is against "a            *)
(* missing/broken store must never grant" (access/grants.py).              *)
NothingInvented ==
  /\ mixed \/ \A i \in Identities : grantsFile[i] \subseteq everSaid[i]
  /\ \/ basis.mixed
     \/ \A c \in lastCall :
          \/ c[2] = 0
          \/ \E i \in {c[1], Anyone} : Suffices(StaticGrants[i] \cup everSaid[i], c[2])

(* A revoke takes effect with the next start of the server: it runs a tool *)
(* only for whom the commands finished by then, one after the other, leave *)
(* a scope for, where a name they leave nothing has what access.yml says.  *)
(* Commands that crossed may have undone one another.                      *)
RevokedIsRevoked ==
  \/ basis.crossed
  \/ LET left == [i \in Identities |-> IF basis.said[i] # {} THEN basis.said[i]
                                                          ELSE StaticGrants[i]] IN
       \A c \in lastCall : Suffices(Granted(left, c[1]), c[2])

AccessKeeps == NothingInvented /\ RevokedIsRevoked
===============================================================================
