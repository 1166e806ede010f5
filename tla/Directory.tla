------------------------------- MODULE Directory -------------------------------
(***************************************************************************)
(* The signed directory of a realm on the node that serves it              *)
(* (skcomms/skfed_directory.py; the announce handler of api.py;            *)
(* skfed_readdr.py).  The API, an agent that announces itself on this node *)
(* and the operator's re-addressing run in processes of their own.  Each   *)
(* loads the directory, changes and signs it in memory, writes it to one   *)
(* temporary file whose name they share, and renames that file to the      *)
(* directory.  Nothing locks it.  Requests to announce arrive in any order.*)
(*                                                                         *)
(* The definitions no action uses are plausible faults of the one after.   *)
(***************************************************************************)
EXTENDS Naturals

CONSTANTS Announcers,    \* the agents of the realm
          DirWriters,    \* processes that change the directory
          MaxAddress,    \* an agent announces addresses 1..MaxAddress
          MaxWriterDeaths

ASSUME DirectoryAssumption == MaxAddress \in Nat /\ MaxWriterDeaths \in Nat

\* An entry: which address its agent announced, and whether its host was made neutral.
NoEntry == [address |-> 0, neutral |-> FALSE]
Entries == {NoEntry} \cup [address : 1..MaxAddress, neutral : BOOLEAN]
Empty   == [a \in Announcers |-> NoEntry]

\* A file holds a directory, is half written so that nothing can parse it, or is not there.
Directories == [Announcers -> Entries]
Holding(list) == [kind |-> "signed", list |-> list]
Torn    == [kind |-> "torn", list |-> Empty]
Missing == [kind |-> "missing", list |-> Empty]
Files   == {Torn, Missing} \cup {Holding(list) : list \in Directories}

VARIABLES
  directory,   \* directory.json
  dirTmp,      \* .directory.json.tmp
  writing,     \* what each process is at
  underWay,    \* requests to announce, as <<agent, address>>
  announced,   \* the addresses each agent announced
  confirmed,   \* history: the address of each agent that was answered "ok" last
  collided,    \* history: two processes changed the directory at once
  writerDeaths

directoryVars == <<directory, dirTmp, writing, underWay, announced, confirmed, collided, writerDeaths>>

\* "handle": the file the process has open is still the temporary file, has become
\* the directory, or is neither.
Resting == [step |-> "idle"]
Writing == {Resting} \cup
           [step : {"open", "flush", "rename"}, new : Directories,
            handle : {"none", "tmp", "directory", "gone"}, whose : SUBSET Announcers]

DirectoryInit ==
  /\ directory = Holding(Empty) /\ dirTmp = Missing
  /\ writing = [w \in DirWriters |-> Resting]
  /\ underWay = {} /\ announced = [a \in Announcers |-> 0]
  /\ confirmed = [a \in Announcers |-> 0] /\ collided = FALSE /\ writerDeaths = 0

\* An agent's address changes, and it sends its announce (or a daemon announces itself).
Announce(a) ==
  /\ announced[a] < MaxAddress
  /\ announced' = [announced EXCEPT ![a] = @ + 1]
  /\ underWay' = underWay \cup {<<a, announced[a] + 1>>}
  /\ UNCHANGED <<directory, dirTmp, writing, confirmed, collided, writerDeaths>>

-------------------------------------------------------------------------------
(* load_directory, upsert or compute_rewrites, save_directory.             *)

StartsOver == Empty
\* An absent or unreadable directory is started anew.
Loaded == directory.list

Begin(w, new, whose) ==
  /\ writing[w] = Resting
  /\ writing' = [writing EXCEPT ![w] =
       [step |-> "open", new |-> new, handle |-> "none", whose |-> whose]]
  /\ collided' = (collided \/ \E v \in DirWriters : writing[v] # Resting)

\* upsert: whatever the entry was; accept_signed admits a request once.
Upsert(w, a, v) ==
  /\ <<a, v>> \in underWay /\ underWay' = underWay \ {<<a, v>>}
  /\ Begin(w, [Loaded EXCEPT ![a] = [address |-> v, neutral |-> FALSE]], {a})
  /\ UNCHANGED <<directory, dirTmp, announced, confirmed, writerDeaths>>

Leaky(e)    == e # NoEntry /\ ~e.neutral
Neutral(e)  == IF Leaky(e) THEN [e EXCEPT !.neutral = TRUE] ELSE e
Readdress(w) ==
  /\ \E a \in Announcers : Leaky(Loaded[a])
  /\ Begin(w, [a \in Announcers |-> Neutral(Loaded[a])], {})
  /\ UNCHANGED <<directory, dirTmp, underWay, announced, confirmed, writerDeaths>>

OpenTmp(w) ==
  /\ writing[w].step = "open"
  /\ writing' = [writing EXCEPT ![w].step = "flush", ![w].handle = "tmp"]
  /\ dirTmp' = Torn
  /\ UNCHANGED <<directory, underWay, announced, confirmed, collided, writerDeaths>>

\* What was flushed over another process's bytes may not parse.
Over(old, new) == IF old = Torn THEN {new} ELSE {new, Torn}
FlushTmp(w) ==
  /\ writing[w].step = "flush"
  /\ LET new == Holding(writing[w].new) IN
       CASE writing[w].handle = "tmp"       -> dirTmp' \in Over(dirTmp, new) /\ UNCHANGED directory
         [] writing[w].handle = "directory" -> directory' \in Over(directory, new) /\ UNCHANGED dirTmp
         [] OTHER                           -> UNCHANGED <<directory, dirTmp>>
  /\ writing' = [writing EXCEPT ![w].step = "rename"]
  /\ UNCHANGED <<underWay, announced, confirmed, collided, writerDeaths>>

\* The temporary file that another process renamed is missing: the request fails.
Ages(h) == CASE h = "tmp" -> "directory" [] h = "directory" -> "gone" [] OTHER -> h
RenameTmp(w) ==
  /\ writing[w].step = "rename"
  /\ IF dirTmp = Missing
     THEN /\ writing' = [writing EXCEPT ![w] = Resting]
          /\ UNCHANGED <<directory, dirTmp, confirmed>>
     ELSE /\ directory' = dirTmp /\ dirTmp' = Missing
          /\ writing' = [v \in DirWriters |->
               IF v = w \/ writing[v] = Resting THEN Resting
               ELSE [writing[v] EXCEPT !.handle = Ages(@)]]
          /\ confirmed' = [a \in Announcers |-> IF a \in writing[w].whose
                                                THEN writing[w].new[a].address ELSE confirmed[a]]
  /\ UNCHANGED <<underWay, announced, collided, writerDeaths>>

WriterDies(w) ==
  /\ writing[w] # Resting /\ writerDeaths < MaxWriterDeaths
  /\ writerDeaths' = writerDeaths + 1
  /\ writing' = [writing EXCEPT ![w] = Resting]
  /\ UNCHANGED <<directory, dirTmp, underWay, announced, confirmed, collided>>

DirectoryNext ==
  \/ \E a \in Announcers : Announce(a)
  \/ \E w \in DirWriters :
       \/ \E a \in Announcers, v \in 1..MaxAddress : Upsert(w, a, v)
       \/ Readdress(w) \/ OpenTmp(w) \/ FlushTmp(w) \/ RenameTmp(w) \/ WriterDies(w)

DirectorySpec == DirectoryInit /\ [][DirectoryNext]_directoryVars

-------------------------------------------------------------------------------
(* Every variable keeps its shape.                                         *)
DirectoryTypeOK ==
  /\ directory \in Files \ {Missing} /\ dirTmp \in Files
  /\ writing \in [DirWriters -> Writing]
  /\ underWay \subseteq Announcers \X (1..MaxAddress)
  /\ announced \in [Announcers -> 0..MaxAddress] /\ confirmed \in [Announcers -> 0..MaxAddress]
  /\ collided \in BOOLEAN /\ writerDeaths \in 0..MaxWriterDeaths

(* skfed_directory.py, "atomically persist", and the announce handler,     *)
(* which answers "ok": whatever dies half way, the directory can be read   *)
(* and holds for each agent the address it was answered for last, as long  *)
(* as no two processes change it at once.  Even then it never lists an     *)
(* address that its agent did not announce.                                *)
DirectoryKeeps ==
  /\ ~collided => /\ directory # Torn
                  /\ \A a \in Announcers : Loaded[a].address = confirmed[a]
  /\ \A a \in Announcers : Loaded[a].address <= announced[a]
===============================================================================
