------------------------------ MODULE Syncthing ------------------------------
(***************************************************************************)
(* The folders that Syncthing shares: how "skcomms rail provision" has the *)
(* daemon share them (skcomms/syncthing_rail.py), and the rail through one *)
(* of them (skcomms/transports/syncthing.py).  The two share no state.  The*)
(* definitions no action uses are plausible faults of the one after them.  *)
(***************************************************************************)
EXTENDS Naturals, FiniteSets

-------------------------------------------------------------------------------
(* Provisioning.  A run of "skcomms rail provision" reads the peers, then  *)
(* the configuration of the daemon, and PUTs over REST first the devices   *)
(* that are missing, then every folder that is absent or lacks a share; a  *)
(* PUT replaces a folder.  Any request may fail and ends the run.  Nothing *)
(* keeps two runs apart, nor a run from the operator, who edits peers.json *)
(* and the folders' shares.                                                *)
(*                                                                         *)
(* A folder is the set of devices it is shared with: its type, label and   *)
(* path follow from its id.                                                *)

CONSTANTS AllOperators, OwnOperator,
          Devices, NoDevice,
          RailRuns,
          MaxEdits        \* bound on the edits of the operator

ASSUME ProvisionAssumption ==
  OwnOperator \in AllOperators /\ NoDevice \notin Devices /\ MaxEdits \in Nat

VARIABLES
  listed,     \* peers.json: <<operator, device>>
  known,      \* the devices configured
  shares,     \* of each folder, NoFolder when it is not configured
  run,
  edits,
  crossed     \* history: the runs during or after which others changed the shares

provisionVars == <<listed, known, shares, run, edits, crossed>>

Entries   == AllOperators \X (Devices \cup {NoDevice})
NoFolder  == {NoDevice}
Layouts   == [role : {"self", "peer"}, op : AllOperators, to : SUBSET Devices]
NotBegun  == [step |-> "none", want |-> {}, devices |-> {}, folders |-> {}]
RunStates == [step : {"none", "read", "put", "failed", "done"}, want : SUBSET Entries,
              devices : SUBSET Devices, folders : SUBSET Layouts]

ProvisionInit ==
  /\ listed \in SUBSET Entries /\ known = {} /\ shares = [o \in AllOperators |-> NoFolder]
  /\ run = [r \in RailRuns |-> NotBegun] /\ edits = 0 /\ crossed = {}

-------------------------------------------------------------------------------
(* build_topology and plan_provision.                                      *)

DevicesOf(entries) == {e[2] : e \in entries} \ {NoDevice}
Topology(entries) ==
  {[role |-> "self", op |-> OwnOperator, to |-> DevicesOf(entries)]} \cup
  {[role |-> "peer", op |-> o, to |-> DevicesOf({e \in entries : e[1] = o})] :
     o \in {e[1] : e \in entries}}

Lacks(folder)       == shares[folder.op] = NoFolder \/ ~(folder.to \subseteq shares[folder.op])
IsAbsent(folder)    == shares[folder.op] = NoFolder
ToPut(entries) ==
  LET touched == {f.op : f \in {g \in Topology(entries) : Lacks(g)}}
  IN  {f \in Topology(entries) : f.op \in touched}

-------------------------------------------------------------------------------
(* provision_rail.                                                         *)

RailStep(r, state) == run' = [run EXCEPT ![r] = state]
\* What is left to PUT; the run is over when nothing is.
Left(r, devices, folders) ==
  RailStep(r, [run[r] EXCEPT !.devices = devices, !.folders = folders,
             !.step = IF devices = {} /\ folders = {} THEN "done" ELSE "put"])

ReadPeers(r) ==
  /\ run[r].step = "none" /\ RailStep(r, [run[r] EXCEPT !.step = "read", !.want = listed])
  /\ crossed' = crossed \ {r}
  /\ UNCHANGED <<listed, known, shares, edits>>

GetConfig(r) ==
  /\ run[r].step = "read"
  /\ Left(r, DevicesOf(run[r].want) \ known, ToPut(run[r].want))
  /\ UNCHANGED <<listed, known, shares, edits, crossed>>

PutDevice(r, d) ==
  /\ run[r].step = "put" /\ d \in run[r].devices
  /\ known' = known \cup {d} /\ Left(r, run[r].devices \ {d}, run[r].folders)
  /\ UNCHANGED <<listed, shares, edits, crossed>>

FolderAtOnce(r, f) == TRUE
FolderNext(r, f)   ==
  /\ run[r].devices = {}
  /\ f.role = "self" \/ \A g \in run[r].folders : g.role = "peer"

\* A run that read other peers finds its shares replaced.
Crosses(r) == {q \in RailRuns : run[q].step # "none" /\ run[q].want # run[r].want}

PutFolder(r, f) ==
  /\ run[r].step = "put" /\ f \in run[r].folders /\ FolderNext(r, f)
  /\ shares' = [shares EXCEPT ![f.op] = f.to]
  /\ Left(r, run[r].devices, run[r].folders \ {f})
  /\ crossed' = crossed \cup Crosses(r)
  /\ UNCHANGED <<listed, known, edits>>

RequestFails(r) ==
  /\ run[r].step \in {"read", "put"} /\ RailStep(r, [run[r] EXCEPT !.step = "failed"])
  /\ UNCHANGED <<listed, known, shares, edits, crossed>>

-------------------------------------------------------------------------------
(* The operator.                                                           *)

Edits == edits < MaxEdits /\ edits' = edits + 1

EditPeers(peer) ==
  /\ Edits
  /\ listed' = IF peer \in listed THEN listed \ {peer} ELSE listed \cup {peer}
  /\ UNCHANGED <<known, shares, run, crossed>>

EditShares(o, to) ==
  /\ Edits /\ shares[o] # NoFolder /\ to \subseteq known /\ to # shares[o]
  /\ shares' = [shares EXCEPT ![o] = to] /\ crossed' = RailRuns
  /\ UNCHANGED <<listed, known, run>>

ProvisionNext ==
  \/ \E r \in RailRuns :
       \/ ReadPeers(r) \/ GetConfig(r) \/ RequestFails(r)
       \/ \E d \in Devices : PutDevice(r, d)
       \/ \E f \in run[r].folders : PutFolder(r, f)
  \/ \E peer \in Entries : EditPeers(peer)
  \/ \E o \in AllOperators, to \in SUBSET Devices : EditShares(o, to)

ProvisionSpec == ProvisionInit /\ [][ProvisionNext]_provisionVars

-------------------------------------------------------------------------------
(* Every variable keeps its shape.                                         *)
ProvisionTypeOK ==
  /\ listed \subseteq Entries /\ known \subseteq Devices
  /\ shares \in [AllOperators -> (SUBSET Devices) \cup {NoFolder}]
  /\ run \in [RailRuns -> RunStates] /\ edits \in 0..MaxEdits /\ crossed \subseteq RailRuns

\* "a folder can only be shared with a known device": at every moment, and
\* whichever requests failed.
SharesAreKnown == \A o \in AllOperators : shares[o] # NoFolder => shares[o] \subseteq known

\* check_share_health of the configuration.
ShareHealth(entries) ==
  shares[OwnOperator] # NoFolder /\ DevicesOf(entries) \subseteq shares[OwnOperator]

\* A run that ends with no request failed leaves nothing to do, whatever failed in
\* earlier runs and though others over the same peers went on beside it; unless a
\* peer is of our own operator, whose folder has the id of our own.
DoneIsDone == \A r \in RailRuns \ crossed :
  run[r].step = "done" /\ run[r].want = listed /\ (\A e \in listed : e[1] # OwnOperator) =>
    /\ ShareHealth(listed) /\ DevicesOf(listed) \subseteq known
    /\ \A f \in Topology(listed) : shares[f.op] # NoFolder /\ f.to \subseteq shares[f.op]

(* syncthing_rail.py provision_rail, "Re-running once the rail is in place *)
(* is a no-op", and check_share_health agrees.                             *)
ProvisionKeeps == SharesAreKnown /\ DoneIsDone

-------------------------------------------------------------------------------
(* The rail.  Senders write envelopes into outbox/<recipient>/ of their    *)
(* own copy of a folder and trim it to its depth cap; the recipient's      *)
(* machine polls that directory of its own copy, hands the envelopes on    *)
(* and moves them away.  Syncthing carries writes and deletions from copy  *)
(* to copy in any order; of two changes made apart from one another, a     *)
(* write wins over a deletion.  Files keep the time of their author's      *)
(* clock.  How the steps of several processes on one machine mix is        *)
(* FileRail's subject.                                                     *)

CONSTANTS Writers,     \* the machines that send
          Reader,      \* the recipient's machine
          Slow,        \* the Writers whose clock is behind that of the others
          Posts,       \* bound on the envelopes' names
          PostWrites,  \* bound on all the writes, retries included
          Unnamed,     \* the Posts that have a name of the kind unknown-<second>
          Cap,         \* max_outbox_depth
          MaxMishaps   \* bound on prunes, failing archivals and polls that die

ASSUME SyncRailAssumption ==
  /\ Reader \notin Writers /\ Slow \subseteq Writers /\ Posts \in Nat
  /\ PostWrites \in Nat \ {0} /\ Cap \in Nat \ {0} /\ MaxMishaps \in Nat
  /\ Unnamed \subseteq 1..Posts

Hosts   == Writers \cup {Reader}
PostIds == 1..Posts
NoPost  == 0
Lag     == PostWrites   \* how far the slow clocks are behind, in writes

VARIABLES
  copy,       \* copy[h][i]: the file of envelope i in the folder of h
  author,     \* who writes i, or is the first to
  writes,     \* how often i was written
  wrote,      \* how often any was
  trimming,   \* the Writers between their write and their trim
  reader,     \* what the poll of the recipient does next
  mishaps,
  written,    \* history: the place of the last write of i among all writes
  trimmed,    \* history: evicted or pruned
  unfair,     \* history: <<i, j>>: a file of i written after j was evicted and j kept
  perished,   \* history: in the batch of a poll that died
  passedOn,   \* history: how often i was handed on
  unmoved,    \* history: stayed in the folder when a poll had read it
  collided    \* history: the names that two envelopes have had

senderSide   == <<author, writes, wrote, trimming, written, unfair, collided>>
pollHistory  == <<perished, passedOn, unmoved>>
syncVars == <<copy, senderSide, reader, mishaps, trimmed, pollHistory>>

NotHere == [on |-> FALSE, edits |-> {}, mtime |-> 0]
ReaderIdle == [step |-> "rest", todo |-> {}, at |-> NoPost, got |-> {}]

SyncRailInit ==
  /\ copy = [h \in Hosts |-> [i \in PostIds |-> NotHere]]
  /\ author \in [PostIds -> Writers] /\ writes = [i \in PostIds |-> 0] /\ wrote = 0
  /\ trimming = {} /\ reader = ReaderIdle /\ mishaps = 0
  /\ written = [i \in PostIds |-> 0]
  /\ trimmed = {} /\ unfair = {} /\ perished = {} /\ passedOn = [i \in PostIds |-> 0]
  /\ unmoved = {} /\ collided = {}

-------------------------------------------------------------------------------
(* Files.  An edit is named after its machine and its number there.        *)

Edit(h, i, on, mtime) ==
  LET mine == {e \in copy[h][i].edits : e[1] = h} IN
  [on |-> on, edits |-> copy[h][i].edits \cup {<<h, Cardinality(mine) + 1>>}, mtime |-> mtime]
Gone(h, i)   == Edit(h, i, FALSE, copy[h][i].mtime)
Listing(h)   == {i \in PostIds : copy[h][i].on}

-------------------------------------------------------------------------------
(* send: the envelope is renamed into place, then the directory trimmed.   *)
(* _extract_id names the file after the envelope, and after the second     *)
(* when it finds no id: in that second anyone may write another envelope   *)
(* under the name.                                                         *)

Ahead(w)   == IF w \in Slow THEN 0 ELSE Lag
Now        == wrote + 1
ClockOf(w) == Now + Ahead(w)
\* The write that the file in the folder of h is of.
WriteOf(h, i) == copy[h][i].mtime - Ahead(author[i])

Write(w, i) ==
  /\ author[i] = w \/ (i \in Unnamed /\ writes[i] > 0)
  /\ w \notin trimming /\ Now <= PostWrites
  /\ collided' = IF i \in Unnamed /\ writes[i] > 0 THEN collided \cup {i} ELSE collided
  /\ writes' = [writes EXCEPT ![i] = @ + 1] /\ wrote' = Now
  /\ written' = [written EXCEPT ![i] = Now]
  /\ copy' = [copy EXCEPT ![w][i] = Edit(w, i, TRUE, ClockOf(w))]
  /\ trimming' = trimming \cup {w}
  /\ UNCHANGED <<author, unfair, reader, mishaps, trimmed, pollHistory>>

\* Oldest first, by time and name.
Before(h, i, j) == \/ copy[h][i].mtime < copy[h][j].mtime
                   \/ copy[h][i].mtime = copy[h][j].mtime /\ i < j
Evicted(h) == LET there == Listing(h) IN
  {i \in there : Cardinality({j \in there : Before(h, j, i)}) + Cap < Cardinality(there)}

TrimToDepth(w) ==
  /\ w \in trimming /\ trimming' = trimming \ {w}
  /\ LET evicted == Evicted(w) IN
       /\ copy' = [copy EXCEPT ![w] = [i \in PostIds |->
                     IF i \in evicted THEN Gone(w, i) ELSE copy[w][i]]]
       /\ trimmed' = trimmed \cup evicted
       /\ unfair' = unfair \cup {p \in evicted \X (Listing(w) \ evicted) :
                                   written[p[2]] < WriteOf(w, p[1])}
  /\ UNCHANGED <<author, writes, wrote, written, collided, reader, mishaps, pollHistory>>

\* prune_outbox removes what its clock calls old.
PruneOutbox(h, i) ==
  /\ mishaps < MaxMishaps /\ mishaps' = mishaps + 1 /\ i \in Listing(h)
  /\ copy' = [copy EXCEPT ![h][i] = Gone(h, i)] /\ trimmed' = trimmed \cup {i}
  /\ UNCHANGED <<senderSide, reader, pollHistory>>

-------------------------------------------------------------------------------
(* receive: list, then read and archive one file after the other.          *)

PollFolder ==
  /\ reader = ReaderIdle /\ Listing(Reader) # {}
  /\ reader' = [ReaderIdle EXCEPT !.step = "read", !.todo = Listing(Reader)]
  /\ UNCHANGED <<copy, senderSide, mishaps, trimmed, pollHistory>>

\* A file that has gone since is skipped.
ReadFile(i) ==
  /\ reader.step = "read" /\ i \in reader.todo
  /\ reader' = IF i \in Listing(Reader)
               THEN [reader EXCEPT !.todo = @ \ {i}, !.step = "archive", !.at = i,
                                   !.got = @ \cup {i}]
               ELSE [reader EXCEPT !.todo = @ \ {i}]
  /\ UNCHANGED <<copy, senderSide, mishaps, trimmed, pollHistory>>

CopiedAway(h, i) == copy[h][i]
MovedAway(h, i)  == IF copy[h][i].on THEN Gone(h, i) ELSE copy[h][i]

ArchiveFile ==
  /\ reader.step = "archive"
  /\ copy' = [copy EXCEPT ![Reader][reader.at] = MovedAway(Reader, reader.at)]
  /\ reader' = [reader EXCEPT !.step = "read", !.at = NoPost]
  /\ UNCHANGED <<senderSide, mishaps, trimmed, pollHistory>>

\* The error is logged; the envelope is in the batch and its file in the folder.
ArchiveFails ==
  /\ reader.step = "archive" /\ mishaps < MaxMishaps /\ mishaps' = mishaps + 1
  /\ unmoved' = unmoved \cup {reader.at}
  /\ reader' = [reader EXCEPT !.step = "read", !.at = NoPost]
  /\ UNCHANGED <<copy, senderSide, trimmed, perished, passedOn>>

HandOn ==
  /\ reader.step = "read" /\ reader.todo = {}
  /\ passedOn' = [i \in PostIds |-> IF i \in reader.got THEN passedOn[i] + 1 ELSE passedOn[i]]
  /\ reader' = ReaderIdle
  /\ UNCHANGED <<copy, senderSide, mishaps, trimmed, perished, unmoved>>

PollDies ==
  /\ reader # ReaderIdle /\ mishaps < MaxMishaps /\ mishaps' = mishaps + 1
  /\ perished' = perished \cup reader.got /\ reader' = ReaderIdle
  /\ UNCHANGED <<copy, senderSide, trimmed, passedOn, unmoved>>

-------------------------------------------------------------------------------
(* Syncthing brings what g knows of a file to h.                           *)

Merged(a, b) ==
  [on |-> a.on \/ b.on, edits |-> a.edits \cup b.edits,
   mtime |-> IF a.on /\ (b.on => a.mtime >= b.mtime) THEN a.mtime ELSE b.mtime]

Sync(g, h, i) ==
  LET theirs == copy[g][i]
      mine   == copy[h][i] IN
  /\ ~(theirs.edits \subseteq mine.edits)
  /\ copy' = [copy EXCEPT ![h][i] =
                IF mine.edits \subseteq theirs.edits THEN theirs ELSE Merged(mine, theirs)]
  /\ UNCHANGED <<senderSide, reader, mishaps, trimmed, pollHistory>>

SyncRailNext ==
  \/ \E w \in Writers : TrimToDepth(w) \/ \E i \in PostIds : Write(w, i)
  \/ \E i \in PostIds : ReadFile(i) \/ \E h \in Hosts : PruneOutbox(h, i)
  \/ PollFolder \/ ArchiveFile \/ ArchiveFails \/ HandOn \/ PollDies
  \/ \E g, h \in Hosts : \E i \in PostIds : Sync(g, h, i)

SyncRailSpec == SyncRailInit /\ [][SyncRailNext]_syncVars

-------------------------------------------------------------------------------
(* The type invariant.                                                     *)
SyncRailTypeOK ==
  /\ \A h \in Hosts, i \in PostIds :
       /\ copy[h][i].on \in BOOLEAN /\ copy[h][i].mtime \in 0..(2 * Lag)
       /\ copy[h][i].edits \subseteq Hosts \X (Nat \ {0})
  /\ author \in [PostIds -> Writers] /\ writes \in [PostIds -> 0..PostWrites]
  /\ trimming \subseteq Writers /\ reader.step \in {"rest", "read", "archive"}
  /\ reader.todo \subseteq PostIds /\ reader.got \subseteq PostIds
  /\ mishaps \in 0..MaxMishaps
  /\ trimmed \subseteq PostIds /\ perished \subseteq PostIds /\ unfair \subseteq PostIds \X PostIds
  /\ unmoved \subseteq PostIds /\ collided \subseteq PostIds

(* Whatever order Syncthing brings writes and deletions in, the file of an *)
(* envelope is in some copy of the folder, or in a poll's batch, or was    *)
(* handed on, unless the cap, a prune or the death of a poll took it; one  *)
(* that its sender wrote once and that every poll could archive is handed  *)
(* on once at most, for no stale copy of it comes back; and the cap prefers*)
(* the file that was written later, unless the clock of its sender is      *)
(* behind that of the earlier one's.  Of a name that two envelopes of one  *)
(* second were written under, nothing is said: one takes the other's place.*)
SyncKeeps ==
  /\ \A i \in PostIds \ collided :
       /\ writes[i] > 0 => \/ \E h \in Hosts : copy[h][i].on
                           \/ i \in reader.got \/ passedOn[i] > 0
                           \/ i \in trimmed \cup perished
       /\ writes[i] = 1 /\ i \notin unmoved => passedOn[i] <= 1
  /\ \A p \in unfair : \/ (author[p[1]] \in Slow /\ author[p[2]] \notin Slow)
                       \/ p[1] \in collided \/ p[2] \in collided

===============================================================================
