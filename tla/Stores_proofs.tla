----------------------------- MODULE Stores_proofs -----------------------------
(***************************************************************************)
(* Proofs about the parts that rest with the outbox in MCStores: what      *)
(* Syncthing shares (its provisioning, the rail through its folders, the   *)
(* mailboxes in them, the conversations that the API lists from them), the *)
(* heartbeat file and the radio rails, for every value of their constants. *)
(***************************************************************************)
EXTENDS MCStores, FiniteSetTheorems, SequenceTheorems, TLAPS

-------------------------------------------------------------------------------
(* Provisioning.  Whatever a run is about to share a folder with it knows, *)
(* or is about to make known (Announced).  As long as only runs over the   *)
(* same peers PUT beside it, what it had not to PUT is as it should be,    *)
(* and what it has PUT stays so (Provided): with no peer of our own        *)
(* operator the folders that are PUT have one layout each.                 *)

Foreign(entries) == \A e \in entries : e[1] # OwnOperator
Laid(f)       == shares[f.op] # NoFolder /\ f.to \subseteq shares[f.op]
Announced(r)  ==
  /\ run[r].folders \subseteq Topology(run[r].want)
  /\ run[r].step \in {"none", "read"} => run[r].folders = {}
  /\ run[r].step = "put" => \A f \in run[r].folders : f.to \subseteq known \cup run[r].devices
Provided(r) ==
  /\ run[r].step = "done" => run[r].devices = {} /\ run[r].folders = {}
  /\ run[r].step \in {"put", "done"} =>
       /\ DevicesOf(run[r].want) \subseteq known \cup run[r].devices
       /\ r \notin crossed /\ Foreign(run[r].want) =>
            \A f \in Topology(run[r].want) : f \in run[r].folders \/ Laid(f)
ProvisionInv ==
  /\ ProvisionTypeOK /\ SharesAreKnown
  /\ \A r \in RailRuns : Announced(r) /\ Provided(r)

\* What the peers call for.
LEMMA TopologyFacts ==
  ASSUME NEW entries \in SUBSET Entries
  PROVE  /\ DevicesOf(entries) \subseteq Devices
         /\ \A f \in Topology(entries) : /\ f \in Layouts /\ f.to \subseteq DevicesOf(entries)
                                         /\ f.to # NoFolder
         /\ ToPut(entries) \subseteq Topology(entries)
         /\ \A f \in Topology(entries) : f \in ToPut(entries) \/ Laid(f)
         /\ Foreign(entries) => \A f, g \in Topology(entries) : f.op = g.op => f = g
<1>. DEFINE Of(o)   == DevicesOf({e \in entries : e[1] = o})
            Peer(o) == [role |-> "peer", op |-> o, to |-> Of(o)]
            self    == [role |-> "self", op |-> OwnOperator, to |-> DevicesOf(entries)]
<1>0. /\ \A e \in entries : e[1] \in AllOperators /\ e[2] \in Devices \cup {NoDevice}
      /\ NoDevice \notin Devices /\ OwnOperator \in AllOperators
  BY ProvisionAssumption DEF Entries
<1>1. DevicesOf(entries) \subseteq Devices
  BY <1>0 DEF DevicesOf
<1>2. ASSUME NEW o PROVE Of(o) \subseteq DevicesOf(entries)
  BY DEF DevicesOf
<1>3. \A f \in Topology(entries) : f = self \/ \E e \in entries : f = Peer(e[1])
  BY DEF Topology
<1>4. \A e \in entries : Peer(e[1]) \in Layouts
  <2>. SUFFICES ASSUME NEW e \in entries PROVE Peer(e[1]) \in Layouts
    OBVIOUS
  <2>1. Of(e[1]) \subseteq Devices
    BY <1>1, <1>2
  <2>. HIDE DEF Of
  <2>. QED BY <1>0, <2>1 DEF Layouts
<1>5. self \in Layouts
  BY <1>0, <1>1 DEF Layouts
<1>b. self.op = OwnOperator /\ self.to = DevicesOf(entries)
  OBVIOUS
<1>c. \A o : Peer(o).op = o /\ Peer(o).to = Of(o)
  OBVIOUS
<1>. HIDE DEF Peer, self, Of
<1>6. ASSUME NEW f \in Topology(entries) PROVE f \in Layouts /\ f.to \subseteq DevicesOf(entries)
  <2>1. CASE f = self
    BY <1>5, <1>b, <2>1
  <2>2. ASSUME NEW e \in entries, f = Peer(e[1]) PROVE f \in Layouts /\ f.to \subseteq DevicesOf(entries)
    BY <1>2, <1>4, <1>c, <2>2
  <2>. QED BY <1>3, <2>1, <2>2
<1>7. \A f \in Topology(entries) : f.to # NoFolder
  BY <1>0, <1>1, <1>6 DEF NoFolder
<1>8. ToPut(entries) \subseteq Topology(entries)
  BY DEF ToPut
<1>9. \A f \in Topology(entries) : f \in ToPut(entries) \/ Laid(f)
  BY DEF ToPut, Lacks, Laid
<1>10. ASSUME Foreign(entries), NEW f \in Topology(entries), NEW g \in Topology(entries), f.op = g.op
       PROVE  f = g
  <2>1. \A e \in entries : e[1] # OwnOperator
    BY <1>10 DEF Foreign
  <2>2. f = self \/ \E e \in entries : f = Peer(e[1])
    BY <1>3
  <2>3. g = self \/ \E e \in entries : g = Peer(e[1])
    BY <1>3
  <2>. QED BY <1>10, <1>b, <1>c, <2>1, <2>2, <2>3
<1>. QED BY <1>1, <1>6, <1>7, <1>8, <1>9, <1>10

LEMMA ProvisionBegins == ProvisionInit => ProvisionInv
<1>. SUFFICES ASSUME ProvisionInit PROVE ProvisionInv
  OBVIOUS
<1>1. NotBegun \in RunStates /\ MaxEdits \in Nat
  BY ProvisionAssumption DEF NotBegun, RunStates
<1>2. ProvisionTypeOK
  <2>1. /\ listed \subseteq Entries /\ known = {} /\ edits = 0 /\ crossed = {}
        /\ shares = [o \in AllOperators |-> NoFolder] /\ run = [q \in RailRuns |-> NotBegun]
    BY DEF ProvisionInit
  <2>2. shares \in [AllOperators -> (SUBSET Devices) \cup {NoFolder}]
    BY <2>1
  <2>. QED BY <1>1, <2>1, <2>2 DEF ProvisionTypeOK
<1>3. SharesAreKnown
  BY DEF ProvisionInit, SharesAreKnown
<1>4. \A r \in RailRuns : Announced(r) /\ Provided(r)
  BY DEF ProvisionInit, NotBegun, Announced, Provided
<1>. QED BY <1>2, <1>3, <1>4 DEF ProvisionInv

\* What a run that makes a step did before holds of it unless the step changes it.
LEMMA RunFacts ==
  ASSUME ProvisionInv, NEW r \in RailRuns
  PROVE  /\ run[r] \in RunStates /\ DOMAIN run = RailRuns
         /\ run[r].want \in SUBSET Entries /\ run[r].folders \subseteq Topology(run[r].want)
         /\ run[r].devices \subseteq Devices
BY DEF ProvisionInv, ProvisionTypeOK, RunStates, Announced

\* A step of one run that leaves the shares as they are leaves the others as they are.
LEMMA OthersKeep ==
  ASSUME ProvisionInv, NEW r \in RailRuns, NEW q \in RailRuns, q # r,
         run'[q] = run[q], UNCHANGED shares, known \subseteq known', q \in crossed => q \in crossed'
  PROVE  Announced(q)' /\ Provided(q)'
<1>1. Announced(q) /\ Provided(q)
  BY DEF ProvisionInv
<1>2. Announced(q)'
  BY <1>1 DEF Announced, Topology, DevicesOf
<1>3. Provided(q)'
  BY <1>1 DEF Provided, Laid, Topology, DevicesOf, Foreign
<1>. QED BY <1>2, <1>3

LEMMA ReadPeersKeeps == ASSUME ProvisionInv, NEW r \in RailRuns, ReadPeers(r) PROVE ProvisionInv'
<1>0. ProvisionTypeOK /\ SharesAreKnown /\ run[r] \in RunStates
  BY RunFacts DEF ProvisionInv
<1>1. /\ run[r].step = "none" /\ run' = [run EXCEPT ![r] = [run[r] EXCEPT !.step = "read", !.want = listed]]
      /\ crossed' = crossed \ {r} /\ UNCHANGED <<listed, known, shares, edits>>
  BY DEF ReadPeers, RailStep
<1>2. /\ run'[r] = [run[r] EXCEPT !.step = "read", !.want = listed]
      /\ \A q \in RailRuns : q # r => run'[q] = run[q]
  BY <1>0, <1>1 DEF ProvisionTypeOK
<1>3. run'[r] \in RunStates /\ run'[r].step = "read" /\ run'[r].folders = {}
  <2>1. run[r].folders = {}
    BY <1>1 DEF ProvisionInv, Announced
  <2>. QED BY <1>0, <1>2, <2>1 DEF RunStates, ProvisionTypeOK
<1>4. ProvisionTypeOK' /\ SharesAreKnown'
  BY <1>0, <1>1, <1>3 DEF ProvisionTypeOK, SharesAreKnown
<1>5. Announced(r)' /\ Provided(r)'
  BY <1>3 DEF Announced, Provided
<1>6. ASSUME NEW q \in RailRuns, q # r PROVE Announced(q)' /\ Provided(q)'
  BY <1>1, <1>2, <1>6, OthersKeep
<1>. QED BY <1>4, <1>5, <1>6 DEF ProvisionInv

LEMMA RequestFailsKeeps == ASSUME ProvisionInv, NEW r \in RailRuns, RequestFails(r) PROVE ProvisionInv'
<1>0. ProvisionTypeOK /\ SharesAreKnown /\ run[r] \in RunStates
  BY RunFacts DEF ProvisionInv
<1>1. /\ run' = [run EXCEPT ![r] = [run[r] EXCEPT !.step = "failed"]]
      /\ UNCHANGED <<listed, known, shares, edits, crossed>>
  BY DEF RequestFails, RailStep
<1>2. /\ run'[r] = [run[r] EXCEPT !.step = "failed"]
      /\ \A q \in RailRuns : q # r => run'[q] = run[q]
  BY <1>0, <1>1 DEF ProvisionTypeOK
<1>3. /\ run'[r] \in RunStates /\ run'[r].step = "failed"
      /\ run'[r].folders = run[r].folders /\ run'[r].want = run[r].want
  BY <1>0, <1>2 DEF RunStates
<1>4. ProvisionTypeOK' /\ SharesAreKnown'
  BY <1>0, <1>1, <1>3 DEF ProvisionTypeOK, SharesAreKnown
<1>5. Announced(r)' /\ Provided(r)'
  BY <1>3, RunFacts DEF Announced, Provided, Topology, DevicesOf
<1>6. ASSUME NEW q \in RailRuns, q # r PROVE Announced(q)' /\ Provided(q)'
  BY <1>1, <1>2, <1>6, OthersKeep
<1>. QED BY <1>4, <1>5, <1>6 DEF ProvisionInv

LEMMA GetConfigKeeps == ASSUME ProvisionInv, NEW r \in RailRuns, GetConfig(r) PROVE ProvisionInv'
<1>. DEFINE w    == run[r].want
            devs == DevicesOf(w) \ known
            fs   == ToPut(w)
<1>0. ProvisionTypeOK /\ SharesAreKnown /\ run[r] \in RunStates /\ w \in SUBSET Entries
  BY RunFacts DEF ProvisionInv
<1>1. /\ run' = [run EXCEPT ![r] = [run[r] EXCEPT !.devices = devs, !.folders = fs,
                                     !.step = IF devs = {} /\ fs = {} THEN "done" ELSE "put"]]
      /\ UNCHANGED <<listed, known, shares, edits, crossed>>
  BY DEF GetConfig, Left, RailStep
<1>a. /\ DevicesOf(w) \subseteq Devices /\ fs \subseteq Topology(w) /\ fs \subseteq Layouts
      /\ \A f \in Topology(w) : f \in fs \/ Laid(f)
      /\ \A f \in fs : f.to \subseteq DevicesOf(w)
  BY <1>0, TopologyFacts
<1>. HIDE DEF fs
<1>2. /\ run'[r] = [run[r] EXCEPT !.devices = devs, !.folders = fs,
                                  !.step = IF devs = {} /\ fs = {} THEN "done" ELSE "put"]
      /\ \A q \in RailRuns : q # r => run'[q] = run[q]
  BY <1>0, <1>1 DEF ProvisionTypeOK
<1>3. /\ run'[r] \in RunStates /\ run'[r].devices = devs /\ run'[r].folders = fs /\ run'[r].want = w
      /\ run'[r].step \in {"put", "done"} /\ (run'[r].step = "done" => devs = {} /\ fs = {})
  BY <1>0, <1>a, <1>2 DEF RunStates
<1>4. ProvisionTypeOK' /\ SharesAreKnown'
  BY <1>0, <1>1, <1>3 DEF ProvisionTypeOK, SharesAreKnown
<1>b. Topology(run[r].want)' = Topology(w) /\ DevicesOf(run[r].want)' = DevicesOf(w)
  BY <1>3 DEF Topology, DevicesOf
<1>5. Announced(r)'
  <2>1. (run[r].folders \subseteq Topology(run[r].want))'
    BY <1>a, <1>b, <1>3
  <2>2. (\A f \in run[r].folders : f.to \subseteq known \cup run[r].devices)'
    BY <1>1, <1>a, <1>3
  <2>. QED BY <1>3, <2>1, <2>2 DEF Announced
<1>6. Provided(r)'
  <2>1. \A f \in Topology(run[r].want)' : f \in run'[r].folders \/ Laid(f)'
    BY <1>1, <1>a, <1>b, <1>3 DEF Laid
  <2>2. DevicesOf(run[r].want)' \subseteq known \cup run'[r].devices
    BY <1>b, <1>3
  <2>. QED BY <1>1, <1>3, <2>1, <2>2 DEF Provided
<1>7. ASSUME NEW q \in RailRuns, q # r PROVE Announced(q)' /\ Provided(q)'
  BY <1>1, <1>2, <1>7, OthersKeep
<1>. QED BY <1>4, <1>5, <1>6, <1>7 DEF ProvisionInv

LEMMA PutDeviceKeeps == ASSUME ProvisionInv, NEW r \in RailRuns, NEW d \in Devices, PutDevice(r, d) PROVE ProvisionInv'
<1>. DEFINE w    == run[r].want
            devs == run[r].devices \ {d}
            fs   == run[r].folders
<1>0. ProvisionTypeOK /\ SharesAreKnown /\ run[r] \in RunStates /\ Announced(r) /\ Provided(r)
  BY RunFacts DEF ProvisionInv
<1>1. /\ run' = [run EXCEPT ![r] = [run[r] EXCEPT !.devices = devs, !.folders = fs,
                                     !.step = IF devs = {} /\ fs = {} THEN "done" ELSE "put"]]
      /\ run[r].step = "put" /\ known' = known \cup {d} /\ UNCHANGED <<listed, shares, edits, crossed>>
  BY DEF PutDevice, Left, RailStep
<1>2. /\ run'[r] = [run[r] EXCEPT !.devices = devs, !.folders = fs,
                                  !.step = IF devs = {} /\ fs = {} THEN "done" ELSE "put"]
      /\ \A q \in RailRuns : q # r => run'[q] = run[q]
  BY <1>0, <1>1 DEF ProvisionTypeOK
<1>3. /\ run'[r] \in RunStates /\ run'[r].devices = devs /\ run'[r].folders = fs /\ run'[r].want = w
      /\ run'[r].step \in {"put", "done"} /\ (run'[r].step = "done" => devs = {} /\ fs = {})
  <2>1. devs \in SUBSET Devices /\ fs \in SUBSET Layouts
    BY <1>0 DEF RunStates
  <2>2. run'[r].devices = devs /\ run'[r].folders = fs /\ run'[r].want = w
    BY <1>0, <1>2 DEF RunStates
  <2>3. run'[r].step = IF devs = {} /\ fs = {} THEN "done" ELSE "put"
    BY <1>0, <1>2 DEF RunStates
  <2>4. run'[r] \in RunStates
    <3>. HIDE DEF devs, fs
    <3>. QED BY <1>0, <1>2, <2>1 DEF RunStates
  <2>. QED BY <2>2, <2>3, <2>4
<1>4. ProvisionTypeOK' /\ SharesAreKnown'
  BY <1>0, <1>1, <1>3 DEF ProvisionTypeOK, SharesAreKnown
<1>b. Topology(run[r].want)' = Topology(w) /\ DevicesOf(run[r].want)' = DevicesOf(w)
  BY <1>3 DEF Topology, DevicesOf
<1>5. Announced(r)'
  BY <1>0, <1>1, <1>b, <1>3 DEF Announced
<1>6. Provided(r)'
  BY <1>0, <1>1, <1>b, <1>3 DEF Provided, Laid, Foreign
<1>7. ASSUME NEW q \in RailRuns, q # r PROVE Announced(q)' /\ Provided(q)'
  BY <1>1, <1>2, <1>7, OthersKeep
<1>. QED BY <1>4, <1>5, <1>6, <1>7 DEF ProvisionInv

LEMMA PutFolderKeeps ==
  ASSUME ProvisionInv, NEW r \in RailRuns, NEW f \in run[r].folders, PutFolder(r, f) PROVE ProvisionInv'
<1>. DEFINE w    == run[r].want
            devs == run[r].devices
            fs   == run[r].folders \ {f}
<1>0. /\ ProvisionTypeOK /\ SharesAreKnown /\ run[r] \in RunStates /\ Announced(r) /\ Provided(r)
      /\ w \in SUBSET Entries
  BY RunFacts DEF ProvisionInv
<1>1. /\ run' = [run EXCEPT ![r] = [run[r] EXCEPT !.devices = devs, !.folders = fs,
                                     !.step = IF devs = {} /\ fs = {} THEN "done" ELSE "put"]]
      /\ run[r].step = "put" /\ run[r].devices = {}
      /\ shares' = [shares EXCEPT ![f.op] = f.to] /\ crossed' = crossed \cup Crosses(r)
      /\ UNCHANGED <<listed, known, edits>>
  BY DEF PutFolder, FolderNext, Left, RailStep
<1>a. /\ f \in Topology(w) /\ f.op \in AllOperators /\ f.to \subseteq Devices /\ f.to \subseteq known
      /\ f.to # NoFolder /\ \A g \in Topology(w) : g.op \in AllOperators
  BY <1>0, <1>1, TopologyFacts DEF Announced, Layouts
<1>2. /\ run'[r] = [run[r] EXCEPT !.devices = devs, !.folders = fs,
                                  !.step = IF devs = {} /\ fs = {} THEN "done" ELSE "put"]
      /\ \A q \in RailRuns : q # r => run'[q] = run[q]
  BY <1>0, <1>1 DEF ProvisionTypeOK
<1>3. /\ run'[r] \in RunStates /\ run'[r].devices = devs /\ run'[r].folders = fs /\ run'[r].want = w
      /\ run'[r].step \in {"put", "done"} /\ (run'[r].step = "done" => devs = {} /\ fs = {})
  <2>1. devs \in SUBSET Devices /\ fs \in SUBSET Layouts
    BY <1>0 DEF RunStates
  <2>2. run'[r].devices = devs /\ run'[r].folders = fs /\ run'[r].want = w
    BY <1>0, <1>2 DEF RunStates
  <2>3. run'[r].step = IF devs = {} /\ fs = {} THEN "done" ELSE "put"
    BY <1>0, <1>2 DEF RunStates
  <2>4. run'[r] \in RunStates
    <3>. HIDE DEF devs, fs
    <3>. QED BY <1>0, <1>2, <2>1 DEF RunStates
  <2>. QED BY <2>2, <2>3, <2>4
<1>4. /\ shares' \in [AllOperators -> (SUBSET Devices) \cup {NoFolder}]
      /\ \A o \in AllOperators : shares'[o] = IF o = f.op THEN f.to ELSE shares[o]
  BY <1>0, <1>1, <1>a DEF ProvisionTypeOK
<1>5. ProvisionTypeOK' /\ SharesAreKnown'
  BY <1>0, <1>1, <1>a, <1>3, <1>4 DEF ProvisionTypeOK, SharesAreKnown, Crosses
<1>b. \A q \in RailRuns : run'[q].want = run[q].want
  BY <1>2, <1>3
<1>c. \A q \in RailRuns : /\ Topology(run[q].want)' = Topology(run[q].want)
                          /\ DevicesOf(run[q].want)' = DevicesOf(run[q].want)
  BY <1>b DEF Topology, DevicesOf
\* Who reads the same peers finds what was PUT as it would PUT it.
<1>6. ASSUME NEW q \in RailRuns, run[q].step # "none", q \notin crossed', Foreign(run[q].want),
             NEW g \in Topology(run[q].want)
      PROVE  (Laid(g) => Laid(g)') /\ (g = f => Laid(g)')
  <2>1. run[q].want = w
    BY <1>1, <1>6 DEF Crosses
  <2>2. g.op \in AllOperators /\ (g.op = f.op => g = f)
    BY <1>0, <1>a, <1>6, <2>1, TopologyFacts
  <2>. QED BY <1>4, <1>a, <2>2 DEF Laid
<1>7. ASSUME NEW q \in RailRuns PROVE Announced(q)' /\ Provided(q)'
  <2>1. Announced(q) /\ Provided(q)
    BY DEF ProvisionInv
  <2>2. CASE q = r
    <3>1. Announced(r)'
      BY <1>1, <1>3, <1>c, <2>1, <2>2 DEF Announced
    <3>2. Provided(r)'
      BY <1>1, <1>3, <1>6, <1>c, <2>1, <2>2 DEF Provided, Foreign
    <3>. QED BY <2>2, <3>1, <3>2
  <2>3. CASE q # r
    <3>1. Announced(q)'
      BY <1>1, <1>2, <1>c, <2>1, <2>3 DEF Announced
    <3>2. Provided(q)'
      BY <1>1, <1>2, <1>6, <1>c, <2>1, <2>3 DEF Provided, Foreign
    <3>. QED BY <3>1, <3>2
  <2>. QED BY <2>2, <2>3
<1>. QED BY <1>5, <1>7 DEF ProvisionInv

LEMMA EditPeersKeeps == ASSUME ProvisionInv, NEW peer \in Entries, EditPeers(peer) PROVE ProvisionInv'
<1>1. /\ edits < MaxEdits /\ edits' = edits + 1 /\ listed' \subseteq listed \cup {peer}
      /\ UNCHANGED <<known, shares, run, crossed>>
  BY DEF EditPeers, Edits
<1>2. ProvisionTypeOK' /\ SharesAreKnown'
  BY <1>1, ProvisionAssumption DEF ProvisionInv, ProvisionTypeOK, SharesAreKnown
<1>3. ASSUME NEW q \in RailRuns PROVE Announced(q)' /\ Provided(q)'
  BY <1>1 DEF ProvisionInv, Announced, Provided, Laid, Topology, DevicesOf, Foreign
<1>. QED BY <1>2, <1>3 DEF ProvisionInv

LEMMA EditSharesKeeps ==
  ASSUME ProvisionInv, NEW o \in AllOperators, NEW to \in SUBSET Devices, EditShares(o, to) PROVE ProvisionInv'
<1>1. /\ edits < MaxEdits /\ edits' = edits + 1 /\ to \subseteq known
      /\ shares' = [shares EXCEPT ![o] = to] /\ crossed' = RailRuns
      /\ UNCHANGED <<listed, known, run>>
  BY DEF EditShares, Edits
<1>2. ProvisionTypeOK' /\ SharesAreKnown'
  BY <1>1, ProvisionAssumption DEF ProvisionInv, ProvisionTypeOK, SharesAreKnown
<1>3. ASSUME NEW q \in RailRuns PROVE Announced(q)' /\ Provided(q)'
  BY <1>1 DEF ProvisionInv, Announced, Provided, Topology, DevicesOf
<1>. QED BY <1>2, <1>3 DEF ProvisionInv

LEMMA ProvisionStep == ProvisionInv /\ [ProvisionNext]_provisionVars => ProvisionInv'
<1>. SUFFICES ASSUME ProvisionInv, [ProvisionNext]_provisionVars PROVE ProvisionInv'
  OBVIOUS
<1>1. CASE UNCHANGED provisionVars
  <2>1. UNCHANGED <<listed, known, shares, run, edits, crossed>>
    BY <1>1 DEF provisionVars
  <2>2. ASSUME NEW q \in RailRuns PROVE Announced(q)' /\ Provided(q)'
    BY <2>1 DEF ProvisionInv, Announced, Provided, Laid, Topology, DevicesOf, Foreign
  <2>. QED BY <2>1, <2>2 DEF ProvisionInv, ProvisionTypeOK, SharesAreKnown
<1>2. ASSUME NEW r \in RailRuns, ReadPeers(r) \/ GetConfig(r) \/ RequestFails(r) PROVE ProvisionInv'
  BY <1>2, ReadPeersKeeps, GetConfigKeeps, RequestFailsKeeps
<1>3. ASSUME NEW r \in RailRuns, \E d \in Devices : PutDevice(r, d) PROVE ProvisionInv'
  BY <1>3, PutDeviceKeeps
<1>4. ASSUME NEW r \in RailRuns, \E f \in run[r].folders : PutFolder(r, f) PROVE ProvisionInv'
  BY <1>4, PutFolderKeeps
<1>5. CASE \E peer \in Entries : EditPeers(peer)
  BY <1>5, EditPeersKeeps
<1>6. CASE \E o \in AllOperators, to \in SUBSET Devices : EditShares(o, to)
  BY <1>6, EditSharesKeeps
<1>. QED BY <1>1, <1>2, <1>3, <1>4, <1>5, <1>6 DEF ProvisionNext

LEMMA ProvisionHolds == ProvisionInv => ProvisionTypeOK /\ ProvisionKeeps
<1>. SUFFICES ASSUME ProvisionInv PROVE DoneIsDone
  BY DEF ProvisionInv, ProvisionKeeps
<1>. SUFFICES ASSUME NEW r \in RailRuns \ crossed, run[r].step = "done", run[r].want = listed,
                     \A e \in listed : e[1] # OwnOperator
              PROVE  /\ ShareHealth(listed) /\ DevicesOf(listed) \subseteq known
                     /\ \A f \in Topology(listed) : Laid(f)
  BY DEF DoneIsDone, Laid
<1>1. DevicesOf(listed) \subseteq known /\ \A f \in Topology(listed) : Laid(f)
  BY DEF ProvisionInv, Provided, Foreign
<1>2. [role |-> "self", op |-> OwnOperator, to |-> DevicesOf(listed)] \in Topology(listed)
  BY DEF Topology
<1>3. ShareHealth(listed)
  BY <1>1, <1>2 DEF ShareHealth, Laid
<1>. QED BY <1>1, <1>3

-------------------------------------------------------------------------------
(* The rail through a shared folder.  Until something took an envelope,    *)
(* every copy that knows of it has it (Fit, its third part).  Of one       *)
(* that was written once, a copy that has it knows of nothing but the      *)
(* write (its second), so that none comes back where the write is known,   *)
(* as it is in the reader's folder from the moment the poll read it, if    *)
(* the poll can archive it (HandedOnce).  And a file that is there is of   *)
(* its last write at most (its last part), unless others wrote under its   *)
(* name: the cap compares the writes but for the clocks.                   *)

Copies   == [on : BOOLEAN, edits : SUBSET (Hosts \X (Nat \ {0})), mtime : 0..(2 * Lag)]
First(i) == <<author[i], 1>>
Whereabouts(i) == i \notin trimmed \cup perished \cup reader.got /\ passedOn[i] = 0
Fit(h, i) ==
  /\ IsFiniteSet(copy[h][i].edits)
  /\ writes[i] = 0 => copy[h][i].edits = {}
  /\ writes[i] <= 1 => /\ copy[h][i].on => copy[h][i].edits = {First(i)}
                       /\ copy[h][i].edits # {} => First(i) \in copy[h][i].edits
  /\ Whereabouts(i) /\ copy[h][i].edits # {} => copy[h][i].on
  /\ copy[h][i].on /\ i \notin collided => copy[h][i].mtime <= written[i] + Ahead(author[i])
Archiving(i) == reader.step = "archive" /\ reader.at = i
HandedOnce(i) ==
  writes[i] <= 1 /\ i \notin unmoved =>
    /\ i \in reader.got \/ passedOn[i] > 0 =>
         First(i) \in copy[Reader][i].edits /\ (~copy[Reader][i].on \/ Archiving(i))
    /\ i \in reader.got => passedOn[i] = 0
    /\ passedOn[i] <= 1
Begun(i) ==
  /\ writes[i] <= wrote /\ written[i] <= wrote
  /\ writes[i] > 0 => copy[author[i]][i].edits # {}
SyncTypes ==
  /\ copy \in [Hosts -> [PostIds -> Copies]]
  /\ author \in [PostIds -> Writers] /\ writes \in [PostIds -> Nat] /\ wrote \in 0..PostWrites
  /\ written \in [PostIds -> Nat] /\ passedOn \in [PostIds -> Nat] /\ trimming \subseteq Writers
  /\ reader \in [step : {"rest", "read", "archive"}, todo : SUBSET PostIds, at : PostIds \cup {NoPost},
                 got : SUBSET PostIds]
  /\ reader.step = "archive" => reader.at \in reader.got
  /\ mishaps \in 0..MaxMishaps /\ trimmed \subseteq PostIds /\ perished \subseteq PostIds
  /\ unfair \subseteq PostIds \X PostIds /\ unmoved \subseteq PostIds /\ collided \subseteq PostIds
Excused(p) == p[1] \in collided \/ p[2] \in collided
Unfair == \A p \in unfair : Excused(p) \/ (author[p[1]] \in Slow /\ author[p[2]] \notin Slow)
SyncInv ==
  /\ SyncTypes /\ Unfair
  /\ \A i \in PostIds : HandedOnce(i) /\ Begun(i) /\ \A h \in Hosts : Fit(h, i)

\* What a step may do to a copy that is not a write.
Removed(h, i) ==
  /\ copy[h][i].on /\ ~copy'[h][i].on /\ copy'[h][i].mtime = copy[h][i].mtime
  /\ \E e \in Hosts \X (Nat \ {0}) : copy'[h][i].edits = copy[h][i].edits \cup {e}
Brought(g, h, i) ==
  /\ ~(copy[g][i].edits \subseteq copy[h][i].edits)
  /\ copy'[h][i] = IF copy[h][i].edits \subseteq copy[g][i].edits THEN copy[g][i]
                   ELSE Merged(copy[h][i], copy[g][i])

LEMMA RailNumbers ==
  /\ PostWrites \in Nat \ {0} /\ Lag = PostWrites /\ Cap \in Nat \ {0} /\ MaxMishaps \in Nat
  /\ Writers \subseteq Hosts /\ Reader \in Hosts /\ Reader \notin Writers
  /\ PostIds \subseteq Nat \ {0} /\ IsFiniteSet(PostIds)
  /\ \A w \in Writers : Ahead(w) = (IF w \in Slow THEN 0 ELSE PostWrites)
<1>1. IsFiniteSet(PostIds)
  BY SyncRailAssumption, FS_Interval DEF PostIds
<1>2. PostIds \subseteq Nat \ {0}
  BY SyncRailAssumption DEF PostIds
<1>3. Writers \subseteq Hosts /\ Reader \in Hosts
  BY DEF Hosts
<1>4. \A w \in Writers : Ahead(w) = (IF w \in Slow THEN 0 ELSE PostWrites)
  BY DEF Ahead, Lag
<1>. QED BY <1>1, <1>2, <1>3, <1>4, SyncRailAssumption DEF Lag

\* An edit of a machine has a number of its own, and the first of all has the first.
LEMMA EditFacts ==
  ASSUME NEW h \in Hosts, NEW i \in PostIds, IsFiniteSet(copy[h][i].edits)
  PROVE  LET n == Cardinality({e \in copy[h][i].edits : e[1] = h}) + 1 IN
         /\ n \in Nat \ {0} /\ (copy[h][i].edits = {} => n = 1)
         /\ \A on, mtime : Edit(h, i, on, mtime) =
              [on |-> on, edits |-> copy[h][i].edits \cup {<<h, n>>}, mtime |-> mtime]
<1>. DEFINE mine == {e \in copy[h][i].edits : e[1] = h}
            n    == Cardinality(mine) + 1
<1>1. IsFiniteSet(mine)
  <2>1. mine \subseteq copy[h][i].edits
    OBVIOUS
  <2>. QED BY <2>1, FS_Subset
<1>2. Cardinality(mine) \in Nat
  BY <1>1, FS_CardinalityType
<1>3. n \in Nat \ {0}
  BY <1>2
<1>4. ASSUME copy[h][i].edits = {} PROVE n = 1
  <2>1. mine = {}
    BY <1>4
  <2>2. Cardinality(mine) = 0
    BY <2>1, FS_EmptySet
  <2>. QED BY <2>2
<1>5. \A on, mtime : Edit(h, i, on, mtime) =
        [on |-> on, edits |-> copy[h][i].edits \cup {<<h, n>>}, mtime |-> mtime]
  BY DEF Edit
<1>. QED BY <1>3, <1>4, <1>5

LEMMA GoneFacts ==
  ASSUME SyncInv, NEW h \in Hosts, NEW i \in PostIds
  PROVE  /\ Gone(h, i) \in Copies /\ ~Gone(h, i).on /\ Gone(h, i).mtime = copy[h][i].mtime
         /\ \E e \in Hosts \X (Nat \ {0}) : Gone(h, i).edits = copy[h][i].edits \cup {e}
<1>1. copy[h][i] \in Copies /\ IsFiniteSet(copy[h][i].edits)
  BY DEF SyncInv, SyncTypes, Fit
<1>2. PICK n \in Nat \ {0} :
        Gone(h, i) = [on |-> FALSE, edits |-> copy[h][i].edits \cup {<<h, n>>}, mtime |-> copy[h][i].mtime]
  <2>. DEFINE n == Cardinality({e \in copy[h][i].edits : e[1] = h}) + 1
  <2>1. n \in Nat \ {0}
    BY <1>1, EditFacts
  <2>2. Gone(h, i) = [on |-> FALSE, edits |-> copy[h][i].edits \cup {<<h, n>>}, mtime |-> copy[h][i].mtime]
    BY DEF Gone, Edit
  <2>. HIDE DEF n
  <2>. QED BY <2>1, <2>2
<1>3. <<h, n>> \in Hosts \X (Nat \ {0})
  OBVIOUS
<1>. QED BY <1>1, <1>2, <1>3 DEF Copies

\* One copy changes.
Becomes(h, i, c) == copy' = [copy EXCEPT ![h][i] = c]
LEMMA OneCopy ==
  ASSUME SyncTypes, NEW h \in Hosts, NEW i \in PostIds, NEW c \in Copies, Becomes(h, i, c)
  PROVE  /\ copy' \in [Hosts -> [PostIds -> Copies]] /\ copy'[h][i] = c
         /\ \A g \in Hosts, j \in PostIds : g # h \/ j # i => copy'[g][j] = copy[g][j]
<1>1. copy \in [Hosts -> [PostIds -> Copies]]
  BY DEF SyncTypes
<1>2. copy[h] \in [PostIds -> Copies] /\ copy' = [copy EXCEPT ![h] = [copy[h] EXCEPT ![i] = c]]
  BY <1>1 DEF Becomes
<1>3. /\ [copy[h] EXCEPT ![i] = c] \in [PostIds -> Copies] /\ [copy[h] EXCEPT ![i] = c][i] = c
      /\ \A j \in PostIds : j # i => [copy[h] EXCEPT ![i] = c][j] = copy[h][j]
  BY <1>2
<1>4. /\ copy'[h] = [copy[h] EXCEPT ![i] = c] /\ \A g \in Hosts : g # h => copy'[g] = copy[g]
  BY <1>1, <1>2
<1>5. copy' \in [Hosts -> [PostIds -> Copies]]
  BY <1>1, <1>2, <1>3
<1>. QED BY <1>3, <1>4, <1>5

\* What merging makes of two copies.
LEMMA MergedFacts ==
  ASSUME NEW a \in Copies, NEW b \in Copies
  PROVE  /\ Merged(a, b) \in Copies /\ Merged(a, b).on = (a.on \/ b.on)
         /\ Merged(a, b).edits = a.edits \cup b.edits
         /\ Merged(a, b).on => \/ a.on /\ Merged(a, b).mtime = a.mtime
                               \/ b.on /\ Merged(a, b).mtime = b.mtime
<1>1. /\ a.on \in BOOLEAN /\ b.on \in BOOLEAN /\ a.mtime \in 0..(2 * Lag) /\ b.mtime \in 0..(2 * Lag)
      /\ a.edits \cup b.edits \in SUBSET (Hosts \X (Nat \ {0}))
  BY DEF Copies
<1>. DEFINE there == a.on \/ b.on
            both  == a.edits \cup b.edits
            later == IF a.on /\ (b.on => a.mtime >= b.mtime) THEN a.mtime ELSE b.mtime
<1>2. Merged(a, b) = [on |-> there, edits |-> both, mtime |-> later]
  BY DEF Merged
<1>3. later \in 0..(2 * Lag) /\ there \in BOOLEAN /\ both \in SUBSET (Hosts \X (Nat \ {0}))
  BY <1>1
<1>4. there => (a.on /\ later = a.mtime) \/ (b.on /\ later = b.mtime)
  BY <1>1
<1>5. there = (a.on \/ b.on) /\ both = a.edits \cup b.edits
  OBVIOUS
<1>. HIDE DEF there, both, later
<1>6. /\ Merged(a, b) \in Copies /\ Merged(a, b).on = there /\ Merged(a, b).edits = both
      /\ Merged(a, b).mtime = later
  BY <1>2, <1>3 DEF Copies
<1>. QED BY <1>4, <1>5, <1>6

\* A copy stays fit, and what the reader knows of it known.
LEMMA CopyKeeps ==
  ASSUME SyncInv, UNCHANGED <<author, writes, wrote, written, collided>>, NEW h \in Hosts, NEW i \in PostIds,
         \/ copy'[h][i] = copy[h][i]
         \/ Removed(h, i) /\ ~Whereabouts(i)'
         \/ \E g \in Hosts : Brought(g, h, i),
         Whereabouts(i)' => Whereabouts(i)
  PROVE  /\ Fit(h, i)' /\ copy[h][i].edits \subseteq copy'[h][i].edits
         /\ writes[i] <= 1 /\ First(i) \in copy[h][i].edits /\ ~copy[h][i].on => ~copy'[h][i].on
<1>1. /\ copy[h][i] \in Copies /\ Fit(h, i) /\ writes[i] \in Nat /\ First(i)' = First(i)
      /\ Ahead(author[i])' = Ahead(author[i])
  BY DEF SyncInv, SyncTypes, First, Ahead, Lag
<1>2. CASE copy'[h][i] = copy[h][i]
  <2>1. Fit(h, i)'
    BY <1>1, <1>2 DEF Fit
  <2>. QED BY <1>2, <2>1
<1>3. CASE Removed(h, i) /\ ~Whereabouts(i)'
  <2>1. PICK e \in Hosts \X (Nat \ {0}) : copy'[h][i].edits = copy[h][i].edits \cup {e}
    BY <1>3 DEF Removed
  <2>2. copy[h][i].on /\ ~copy'[h][i].on
    BY <1>3 DEF Removed
  <2>3. IsFiniteSet(copy'[h][i].edits)
    BY <1>1, <2>1, FS_AddElement DEF Fit
  <2>4. writes[i] # 0
    BY <1>1, <2>2 DEF Fit
  <2>5. writes[i] <= 1 => First(i) \in copy'[h][i].edits
    BY <1>1, <2>1, <2>2 DEF Fit
  <2>6. Fit(h, i)'
    BY <1>1, <1>3, <2>2, <2>3, <2>4, <2>5 DEF Fit
  <2>. QED BY <2>1, <2>2, <2>6
<1>4. ASSUME NEW g \in Hosts, Brought(g, h, i)
      PROVE  /\ Fit(h, i)' /\ copy[h][i].edits \subseteq copy'[h][i].edits
             /\ writes[i] <= 1 /\ First(i) \in copy[h][i].edits /\ ~copy[h][i].on => ~copy'[h][i].on
  <2>. DEFINE theirs == copy[g][i]
              mine   == copy[h][i]
  <2>1. theirs \in Copies /\ Fit(g, i) /\ ~(theirs.edits \subseteq mine.edits)
    BY <1>4 DEF SyncInv, SyncTypes, Brought
  <2>2. CASE mine.edits \subseteq theirs.edits
    <3>1. copy'[h][i] = theirs
      BY <1>4, <2>2 DEF Brought
    <3>2. Fit(h, i)'
      BY <1>1, <2>1, <3>1 DEF Fit
    <3>3. writes[i] <= 1 /\ First(i) \in mine.edits => ~theirs.on
      BY <2>1 DEF Fit
    <3>. QED BY <2>2, <3>1, <3>2, <3>3
  <2>3. CASE ~(mine.edits \subseteq theirs.edits)
    <3>. DEFINE both == Merged(mine, theirs)
    <3>1. copy'[h][i] = both
      BY <1>4, <2>3 DEF Brought
    <3>2. /\ both \in Copies /\ both.on = (mine.on \/ theirs.on) /\ both.edits = mine.edits \cup theirs.edits
          /\ both.on => (mine.on /\ both.mtime = mine.mtime) \/ (theirs.on /\ both.mtime = theirs.mtime)
      BY <1>1, <2>1, MergedFacts
    <3>. HIDE DEF both
    <3>3. IsFiniteSet(both.edits)
      <4>1. IsFiniteSet(mine.edits) /\ IsFiniteSet(theirs.edits)
        BY <1>1, <2>1 DEF Fit
      <4>. QED BY <3>2, <4>1, FS_Union
    <3>4. theirs.edits # {} /\ mine.edits # {}
      BY <2>1, <2>3
    <3>5. writes[i] # 0
      BY <2>1, <3>4 DEF Fit
    <3>6. writes[i] <= 1 => ~mine.on /\ ~theirs.on /\ First(i) \in both.edits
      BY <1>1, <2>1, <2>3, <3>2, <3>4 DEF Fit
    <3>7. Whereabouts(i) => both.on
      BY <1>1, <3>2, <3>4 DEF Fit
    <3>8. both.on /\ i \notin collided => both.mtime <= written[i] + Ahead(author[i])
      BY <1>1, <2>1, <3>2 DEF Fit
    <3>9. writes[i] <= 1 => ~both.on
      BY <3>2, <3>6
    <3>10. Fit(h, i)'
      BY <1>1, <3>1, <3>3, <3>5, <3>6, <3>7, <3>8, <3>9 DEF Fit
    <3>. QED BY <3>1, <3>2, <3>9, <3>10
  <2>. QED BY <2>2, <2>3
<1>. QED BY <1>2, <1>3, <1>4

\* All copies of all envelopes, where nobody writes one.
LEMMA CopiesKeep ==
  ASSUME SyncInv, UNCHANGED <<author, writes, wrote, written, collided>>,
         \A h \in Hosts, i \in PostIds :
           \/ copy'[h][i] = copy[h][i]
           \/ Removed(h, i) /\ ~Whereabouts(i)'
           \/ \E g \in Hosts : Brought(g, h, i),
         \A i \in PostIds : Whereabouts(i)' => Whereabouts(i),
         NEW i \in PostIds
  PROVE  /\ Begun(i)' /\ \A h \in Hosts : Fit(h, i)'
         /\ copy[Reader][i].edits \subseteq copy'[Reader][i].edits
         /\ writes[i] <= 1 /\ First(i) \in copy[Reader][i].edits /\ ~copy[Reader][i].on
              => ~copy'[Reader][i].on
<1>1. ASSUME NEW h \in Hosts
      PROVE  /\ Fit(h, i)' /\ copy[h][i].edits \subseteq copy'[h][i].edits
             /\ writes[i] <= 1 /\ First(i) \in copy[h][i].edits /\ ~copy[h][i].on => ~copy'[h][i].on
  BY CopyKeeps
<1>2. Begun(i) /\ author[i] \in Hosts
  BY RailNumbers DEF SyncInv, SyncTypes
<1>3. copy[author[i]][i].edits \subseteq copy'[author[i]][i].edits
  BY <1>1, <1>2
<1>4. Begun(i)'
  BY <1>2, <1>3 DEF Begun
<1>. QED BY <1>1, <1>4, RailNumbers

\* What was handed on once, where nothing more is.
LEMMA HandedKeeps ==
  ASSUME SyncInv, UNCHANGED <<author, writes, passedOn>>, NEW i \in PostIds,
         copy[Reader][i].edits \subseteq copy'[Reader][i].edits,
         writes[i] <= 1 /\ First(i) \in copy[Reader][i].edits /\ ~copy[Reader][i].on
           => ~copy'[Reader][i].on,
         i \in unmoved => i \in unmoved', i \in reader'.got => i \in reader.got,
         Archiving(i) => Archiving(i)' \/ i \notin reader'.got
  PROVE  HandedOnce(i)'
<1>1. HandedOnce(i) /\ First(i)' = First(i)
  BY DEF SyncInv, First
<1>2. Archiving(i) => i \in reader.got
  BY DEF SyncInv, SyncTypes, Archiving
<1>3. passedOn[i] \in Nat
  BY DEF SyncInv, SyncTypes
<1>4. ASSUME writes[i] <= 1, i \notin unmoved', i \in reader'.got \/ passedOn[i] > 0
      PROVE  First(i) \in copy'[Reader][i].edits /\ (~copy'[Reader][i].on \/ Archiving(i)')
  <2>1. First(i) \in copy[Reader][i].edits /\ (~copy[Reader][i].on \/ Archiving(i))
    BY <1>1, <1>4 DEF HandedOnce
  <2>2. Archiving(i) => Archiving(i)'
    BY <1>1, <1>2, <1>3, <1>4 DEF HandedOnce
  <2>. QED BY <1>4, <2>1, <2>2
<1>5. writes[i] <= 1 /\ i \notin unmoved' => (i \in reader'.got => passedOn[i] = 0) /\ passedOn[i] <= 1
  BY <1>1 DEF HandedOnce
<1>. QED BY <1>1, <1>4, <1>5 DEF HandedOnce

LEMMA PostKeeps == ASSUME SyncInv, NEW w \in Writers, NEW i \in PostIds, Write(w, i) PROVE SyncInv'
<1>0. /\ SyncTypes /\ Unfair /\ Begun(i) /\ w \in Hosts /\ w # Reader /\ copy[w][i] \in Copies
      /\ IsFiniteSet(copy[w][i].edits) /\ Fit(w, i) /\ HandedOnce(i)
  BY RailNumbers DEF SyncInv, SyncTypes, Fit
<1>1. /\ author[i] = w \/ (writes[i] > 0 /\ i \in collided')
      /\ collided' = collided \/ collided' = collided \cup {i}
      /\ wrote + 1 <= PostWrites /\ wrote' = wrote + 1
      /\ writes' = [writes EXCEPT ![i] = writes[i] + 1] /\ written' = [written EXCEPT ![i] = wrote + 1]
      /\ copy' = [copy EXCEPT ![w][i] = Edit(w, i, TRUE, ClockOf(w))] /\ trimming' = trimming \cup {w}
      /\ UNCHANGED <<author, unfair, reader, mishaps, trimmed, perished, passedOn, unmoved>>
  BY DEF Write, Now, pollHistory
<1>a. \A j \in PostIds : author[j] \in Writers /\ Ahead(author[j]) \in Nat
  BY <1>0, RailNumbers DEF SyncTypes
<1>2. ClockOf(w) = wrote + 1 + Ahead(w) /\ ClockOf(w) \in 0..(2 * Lag) /\ Ahead(w) \in Nat
  <2>1. wrote \in Nat /\ PostWrites \in Nat /\ Lag = PostWrites /\ Ahead(w) = (IF w \in Slow THEN 0 ELSE PostWrites)
    BY <1>0, RailNumbers DEF SyncTypes
  <2>2. ClockOf(w) = wrote + 1 + Ahead(w)
    BY DEF ClockOf, Now
  <2>. QED BY <1>1, <2>1, <2>2
<1>3. PICK n \in Nat \ {0} :
        /\ Edit(w, i, TRUE, ClockOf(w)) =
             [on |-> TRUE, edits |-> copy[w][i].edits \cup {<<w, n>>}, mtime |-> ClockOf(w)]
        /\ copy[w][i].edits = {} => n = 1
  <2>. DEFINE n == Cardinality({e \in copy[w][i].edits : e[1] = w}) + 1
  <2>1. n \in Nat \ {0} /\ (copy[w][i].edits = {} => n = 1)
    BY <1>0, EditFacts
  <2>2. Edit(w, i, TRUE, ClockOf(w)) =
          [on |-> TRUE, edits |-> copy[w][i].edits \cup {<<w, n>>}, mtime |-> ClockOf(w)]
    BY DEF Edit
  <2>. HIDE DEF n
  <2>. QED BY <2>1, <2>2
<1>4. PICK new \in Copies :
        /\ new.on /\ new.edits = copy[w][i].edits \cup {<<w, n>>} /\ new.mtime = ClockOf(w)
        /\ copy' = [copy EXCEPT ![w][i] = new]
  <2>. DEFINE rec == [on |-> TRUE, edits |-> copy[w][i].edits \cup {<<w, n>>}, mtime |-> ClockOf(w)]
  <2>1. rec \in Copies
    BY <1>0, <1>2 DEF Copies
  <2>2. rec.on /\ rec.edits = copy[w][i].edits \cup {<<w, n>>} /\ rec.mtime = ClockOf(w)
    OBVIOUS
  <2>3. copy' = [copy EXCEPT ![w][i] = rec]
    BY <1>1, <1>3
  <2>. HIDE DEF rec
  <2>. QED BY <2>1, <2>2, <2>3
<1>5. /\ copy' \in [Hosts -> [PostIds -> Copies]] /\ copy'[w][i] = new
      /\ \A g \in Hosts, j \in PostIds : g # w \/ j # i => copy'[g][j] = copy[g][j]
  <2>1. Becomes(w, i, new) /\ SyncTypes /\ w \in Hosts
    BY <1>0, <1>4 DEF Becomes
  <2>. QED BY <2>1, OneCopy
<1>6. /\ writes' \in [PostIds -> Nat] /\ writes'[i] = writes[i] + 1
      /\ written' \in [PostIds -> Nat] /\ written'[i] = wrote + 1
      /\ \A j \in PostIds : j # i => writes'[j] = writes[j] /\ written'[j] = written[j]
  BY <1>0, <1>1 DEF SyncTypes
<1>7. wrote \in Nat /\ writes[i] \in Nat /\ wrote' \in 0..PostWrites
  BY <1>0, <1>1, RailNumbers DEF SyncTypes
<1>8. SyncTypes'
  <2>1. trimming' \subseteq Writers
    BY <1>0, <1>1 DEF SyncTypes
  <2>. QED BY <1>0, <1>1, <1>5, <1>6, <1>7, <2>1 DEF SyncTypes
<1>9. Unfair'
  BY <1>0, <1>1 DEF Unfair, Excused
<1>10. First(i) = <<author[i], 1>> /\ \A j \in PostIds : /\ First(j)' = First(j)
                                                 /\ Ahead(author[j])' = Ahead(author[j])
                                                 /\ Whereabouts(j)' = Whereabouts(j)
  BY <1>1 DEF First, Ahead, Lag, Whereabouts
<1>11. Fit(w, i)'
  <2>1. IsFiniteSet(copy'[w][i].edits)
    <3>1. copy'[w][i].edits = copy[w][i].edits \cup {<<w, n>>}
      BY <1>4, <1>5
    <3>. QED BY <1>0, <3>1, FS_AddElement
  <2>2. copy'[w][i].on /\ (i \notin collided' => copy'[w][i].mtime <= written'[i] + Ahead(author[i]))
    <3>1. copy'[w][i].on /\ copy'[w][i].mtime = written'[i] + Ahead(w)
      BY <1>2, <1>4, <1>5, <1>6
    <3>2. i \notin collided' => author[i] = w
      BY <1>1
    <3>3. written'[i] \in Nat
      BY <1>6
    <3>. QED BY <1>2, <3>1, <3>2, <3>3
  <2>3. writes'[i] # 0
    BY <1>6, <1>7
  <2>4. writes'[i] <= 1 => copy'[w][i].edits = {First(i)}
    <3>1. ASSUME writes'[i] <= 1 PROVE copy[w][i].edits = {} /\ author[i] = w
      <4>1. writes[i] = 0
        BY <1>6, <1>7, <3>1
      <4>2. author[i] = w
        BY <1>1, <4>1
      <4>. QED BY <1>0, <4>1, <4>2 DEF Fit
    <3>2. writes'[i] <= 1 => copy'[w][i].edits = {<<author[i], 1>>}
      BY <1>3, <1>4, <1>5, <3>1
    <3>. QED BY <1>10, <3>2
  <2>. QED BY <1>10, <2>1, <2>2, <2>3, <2>4 DEF Fit
<1>12. ASSUME NEW h \in Hosts, h # w PROVE Fit(h, i)'
  <2>1. Fit(h, i) /\ copy'[h][i] = copy[h][i]
    BY <1>5, <1>12 DEF SyncInv
  <2>2. writes'[i] <= 1 => writes[i] = 0 /\ writes[i] <= 1
    BY <1>6, <1>7
  <2>3. writes'[i] # 0
    BY <1>6, <1>7
  <2>4. copy[h][i].on /\ i \notin collided' => copy[h][i].mtime <= written'[i] + Ahead(author[i])
    <3>1. copy[h][i].on /\ i \notin collided' => copy[h][i].mtime <= written[i] + Ahead(author[i])
      BY <1>1, <2>1 DEF Fit
    <3>2. copy[h][i].mtime \in Nat /\ written[i] \in Nat /\ Ahead(author[i]) \in Nat /\ written[i] <= wrote
      BY <1>0, <1>a, RailNumbers DEF SyncTypes, Copies, Begun
    <3>. QED BY <1>6, <1>7, <3>1, <3>2
  <2>5. writes'[i] <= 1 => copy[h][i].edits = {} /\ ~copy[h][i].on
    BY <2>1, <2>2 DEF Fit
  <2>. QED BY <1>10, <2>1, <2>3, <2>4, <2>5 DEF Fit
<1>13. ASSUME NEW h \in Hosts, NEW j \in PostIds, j # i PROVE Fit(h, j)'
  <2>1. Fit(h, j) /\ copy'[h][j] = copy[h][j] /\ (j \in collided' <=> j \in collided)
    BY <1>1, <1>5, <1>13 DEF SyncInv
  <2>. QED BY <1>6, <1>10, <1>13, <2>1 DEF Fit
<1>14. ASSUME NEW j \in PostIds PROVE Begun(j)'
  <2>1. Begun(j) /\ writes[j] \in Nat /\ written[j] \in Nat
    BY <1>0 DEF SyncInv, SyncTypes
  <2>2. CASE j = i
    <3>1. writes'[i] <= wrote' /\ written'[i] <= wrote'
      BY <1>0, <1>1, <1>6, <1>7 DEF Begun
    <3>2. copy'[author'[i]][i].edits # {}
      <4>1. CASE author[i] = w
        BY <1>1, <1>4, <1>5, <4>1
      <4>2. CASE author[i] # w
        <5>1. copy'[author[i]][i] = copy[author[i]][i] /\ writes[i] > 0
          BY <1>1, <1>5, <1>a, <4>2, RailNumbers
        <5>. QED BY <1>0, <1>1, <5>1 DEF Begun
      <4>. QED BY <4>1, <4>2
    <3>. QED BY <2>2, <3>1, <3>2 DEF Begun
  <2>3. CASE j # i
    <3>1. copy'[author[j]][j] = copy[author[j]][j]
      BY <1>0, <1>5, <2>3, RailNumbers DEF SyncTypes
    <3>. QED BY <1>1, <1>6, <1>7, <2>1, <2>3, <3>1 DEF Begun
  <2>. QED BY <2>2, <2>3
<1>15. ASSUME NEW j \in PostIds PROVE HandedOnce(j)'
  <2>1. HandedOnce(j) /\ copy'[Reader][j] = copy[Reader][j] /\ Fit(Reader, j) /\ passedOn[j] \in Nat
    BY <1>0, <1>5, RailNumbers DEF SyncInv, SyncTypes
  <2>2. CASE j = i
    <3>1. ASSUME writes'[i] <= 1, i \notin unmoved PROVE i \notin reader.got /\ passedOn[i] = 0
      <4>1. writes[i] = 0 /\ writes[i] <= 1
        BY <1>6, <1>7, <3>1
      <4>2. First(i) \notin copy[Reader][i].edits
        BY <2>1, <2>2, <4>1 DEF Fit
      <4>. QED BY <2>1, <2>2, <3>1, <4>1, <4>2 DEF HandedOnce
    <3>2. reader' = reader /\ passedOn' = passedOn /\ unmoved' = unmoved
      BY <1>1
    <3>3. ASSUME writes'[i] <= 1, i \notin unmoved' PROVE i \notin reader'.got /\ passedOn'[i] = 0
      BY <3>1, <3>2, <3>3
    <3>. QED BY <2>2, <3>3 DEF HandedOnce
  <2>3. CASE j # i
    BY <1>1, <1>6, <1>10, <2>1, <2>3 DEF HandedOnce, Archiving
  <2>. QED BY <2>2, <2>3
<1>. QED BY <1>8, <1>9, <1>11, <1>12, <1>13, <1>14, <1>15 DEF SyncInv

\* Of two files the cap takes the one that comes first.
LEMMA CapPrefers ==
  ASSUME SyncInv, NEW w \in Hosts, NEW i \in Evicted(w), NEW j \in Listing(w) \ Evicted(w)
  PROVE  copy[w][i].mtime <= copy[w][j].mtime
<1>. DEFINE there     == Listing(w)
            ahead(k)  == {l \in there : Before(w, l, k)}
<1>1. there \subseteq PostIds /\ i \in there /\ j \in there /\ IsFiniteSet(there)
  <2>1. there \subseteq PostIds /\ i \in there /\ j \in there
    BY DEF Listing, Evicted
  <2>. QED BY <2>1, RailNumbers, FS_Subset
<1>2. \A k \in there : copy[w][k].mtime \in Nat /\ k \in Nat
  <2>1. \A k \in PostIds : copy[w][k] \in Copies /\ k \in Nat
    BY RailNumbers DEF SyncInv, SyncTypes
  <2>2. \A c \in Copies : c.mtime \in Nat
    BY RailNumbers DEF Copies
  <2>. HIDE DEF there
  <2>. QED BY <1>1, <2>1, <2>2
<1>3. \A k \in there : IsFiniteSet(ahead(k)) /\ Cardinality(ahead(k)) \in Nat
  <2>. SUFFICES ASSUME NEW k \in there PROVE IsFiniteSet(ahead(k)) /\ Cardinality(ahead(k)) \in Nat
    OBVIOUS
  <2>1. IsFiniteSet(ahead(k))
    <3>1. ahead(k) \subseteq there
      OBVIOUS
    <3>. QED BY <1>1, <3>1, FS_Subset
  <2>. QED BY <2>1, FS_CardinalityType
<1>4. Cardinality(there) \in Nat /\ Cap \in Nat
  BY <1>1, FS_CardinalityType, RailNumbers
<1>5. Cardinality(ahead(i)) < Cardinality(ahead(j))
  <2>1. Cardinality(ahead(i)) + Cap < Cardinality(there)
    BY DEF Evicted
  <2>2. ~(Cardinality(ahead(j)) + Cap < Cardinality(there))
    BY <1>1 DEF Evicted
  <2>3. Cardinality(ahead(i)) \in Nat /\ Cardinality(ahead(j)) \in Nat
    BY <1>1, <1>3
  <2>. HIDE DEF ahead, there
  <2>. QED BY <1>4, <2>1, <2>2, <2>3
<1>6. ASSUME copy[w][j].mtime < copy[w][i].mtime PROVE FALSE
  <2>1. ASSUME NEW l \in there, Before(w, l, j) PROVE Before(w, l, i)
    <3>1. copy[w][l].mtime \in Nat /\ copy[w][j].mtime \in Nat /\ copy[w][i].mtime \in Nat
      BY <1>1, <1>2
    <3>2. copy[w][l].mtime <= copy[w][j].mtime
      BY <2>1, <3>1 DEF Before
    <3>3. copy[w][l].mtime < copy[w][i].mtime
      BY <1>6, <3>1, <3>2
    <3>. QED BY <3>3 DEF Before
  <2>2. ahead(j) \subseteq ahead(i)
    BY <2>1
  <2>3. Cardinality(ahead(j)) <= Cardinality(ahead(i))
    BY <1>1, <1>3, <2>2, FS_Subset
  <2>4. Cardinality(ahead(i)) \in Nat /\ Cardinality(ahead(j)) \in Nat
    BY <1>1, <1>3
  <2>. HIDE DEF ahead
  <2>. QED BY <1>5, <2>3, <2>4
<1>. QED BY <1>1, <1>2, <1>6

LEMMA TrimToDepthKeeps == ASSUME SyncInv, NEW w \in Writers, TrimToDepth(w) PROVE SyncInv'
<1>0. SyncTypes /\ Unfair /\ w \in Hosts
  BY RailNumbers DEF SyncInv
<1>1. /\ trimming' = trimming \ {w}
      /\ copy' = [copy EXCEPT ![w] = [i \in PostIds |-> IF i \in Evicted(w) THEN Gone(w, i) ELSE copy[w][i]]]
      /\ trimmed' = trimmed \cup Evicted(w)
      /\ unfair' = unfair \cup {p \in Evicted(w) \X (Listing(w) \ Evicted(w)) :
                                  written[p[2]] < WriteOf(w, p[1])}
      /\ UNCHANGED <<author, writes, wrote, written, collided, reader, mishaps, perished, passedOn, unmoved>>
  BY DEF TrimToDepth, pollHistory
<1>2. /\ Evicted(w) \subseteq PostIds /\ Listing(w) \subseteq PostIds
      /\ \A i \in Evicted(w) : copy[w][i].on
      /\ \A j \in Listing(w) : copy[w][j].on
  BY DEF Evicted, Listing
<1>3. /\ copy' \in [Hosts -> [PostIds -> Copies]]
      /\ \A h \in Hosts, i \in PostIds :
           copy'[h][i] = IF h = w /\ i \in Evicted(w) THEN Gone(w, i) ELSE copy[h][i]
  <2>. DEFINE row == [i \in PostIds |-> IF i \in Evicted(w) THEN Gone(w, i) ELSE copy[w][i]]
  <2>1. copy \in [Hosts -> [PostIds -> Copies]]
    BY <1>0 DEF SyncTypes
  <2>2. \A i \in PostIds : Gone(w, i) \in Copies
    BY <1>0, GoneFacts
  <2>3. row \in [PostIds -> Copies]
    BY <1>0, <2>1, <2>2
  <2>4. \A i \in PostIds : row[i] = IF i \in Evicted(w) THEN Gone(w, i) ELSE copy[w][i]
    OBVIOUS
  <2>5. copy' = [copy EXCEPT ![w] = row]
    BY <1>1
  <2>. HIDE DEF row
  <2>6. /\ copy' \in [Hosts -> [PostIds -> Copies]] /\ copy'[w] = row
        /\ \A h \in Hosts : h # w => copy'[h] = copy[h]
    BY <1>0, <2>1, <2>3, <2>5
  <2>. QED BY <2>4, <2>6
<1>4. ASSUME NEW h \in Hosts, NEW i \in PostIds
      PROVE  copy'[h][i] = copy[h][i] \/ (Removed(h, i) /\ ~Whereabouts(i)')
  <2>1. CASE h = w /\ i \in Evicted(w)
    <3>1. copy'[h][i] = Gone(h, i) /\ copy[h][i].on
      BY <1>2, <1>3, <2>1
    <3>2. Removed(h, i)
      BY <3>1, GoneFacts DEF Removed
    <3>3. i \in trimmed'
      BY <1>1, <2>1
    <3>. QED BY <3>2, <3>3 DEF Whereabouts
  <2>. QED BY <1>3, <2>1
<1>5. \A i \in PostIds : Whereabouts(i)' => Whereabouts(i)
  BY <1>1 DEF Whereabouts
<1>6. ASSUME NEW i \in PostIds PROVE HandedOnce(i)' /\ Begun(i)' /\ \A h \in Hosts : Fit(h, i)'
  <2>1. /\ Begun(i)' /\ \A h \in Hosts : Fit(h, i)'
        /\ copy[Reader][i].edits \subseteq copy'[Reader][i].edits
        /\ writes[i] <= 1 /\ First(i) \in copy[Reader][i].edits /\ ~copy[Reader][i].on
             => ~copy'[Reader][i].on
    BY <1>1, <1>4, <1>5, CopiesKeep
  <2>2. Archiving(i)' = Archiving(i)
    BY <1>1 DEF Archiving
  <2>3. HandedOnce(i)'
    BY <1>1, <2>1, <2>2, HandedKeeps
  <2>. QED BY <2>1, <2>3
<1>7. SyncTypes'
  <2>1. trimming' \subseteq Writers /\ trimmed' \subseteq PostIds
    BY <1>0, <1>1, <1>2 DEF SyncTypes
  <2>2. unfair' \subseteq PostIds \X PostIds
    BY <1>0, <1>1, <1>2 DEF SyncTypes
  <2>. QED BY <1>0, <1>1, <1>3, <2>1, <2>2 DEF SyncTypes
<1>8. Unfair'
  <2>1. ASSUME NEW i \in Evicted(w), NEW j \in Listing(w) \ Evicted(w), written[j] < WriteOf(w, i),
               j \notin collided
        PROVE  author[i] \in Slow /\ author[j] \notin Slow
    <3>1. i \in PostIds /\ j \in PostIds
      BY <1>2
    <3>2. copy[w][i].mtime <= copy[w][j].mtime
      BY <1>0, CapPrefers
    <3>3. copy[w][j].mtime <= written[j] + Ahead(author[j])
      BY <1>0, <1>2, <2>1, <3>1 DEF SyncInv, Fit
    <3>4. WriteOf(w, i) = copy[w][i].mtime - Ahead(author[i])
      BY DEF WriteOf
    <3>5. copy[w][i].mtime \in Nat /\ copy[w][j].mtime \in Nat /\ written[j] \in Nat
      <4>1. copy[w][i] \in Copies /\ copy[w][j] \in Copies
        BY <1>0, <3>1 DEF SyncTypes
      <4>2. \A c \in Copies : c.mtime \in Nat
        BY RailNumbers DEF Copies
      <4>. QED BY <1>0, <3>1, <4>1, <4>2 DEF SyncTypes
    <3>6. /\ author[i] \in Writers /\ author[j] \in Writers /\ PostWrites \in Nat
          /\ Ahead(author[i]) = (IF author[i] \in Slow THEN 0 ELSE PostWrites)
          /\ Ahead(author[j]) = (IF author[j] \in Slow THEN 0 ELSE PostWrites)
      BY <1>0, <3>1, RailNumbers DEF SyncTypes
    <3>7. Ahead(author[i]) \in Nat /\ Ahead(author[j]) \in Nat
      BY <3>6
    <3>8. written[j] < copy[w][i].mtime - Ahead(author[i])
      BY <2>1, <3>4
    <3>9. Ahead(author[i]) < Ahead(author[j])
      BY <3>2, <3>3, <3>5, <3>7, <3>8
    <3>. QED BY <3>6, <3>9
  <2>2. ASSUME NEW p \in unfair' PROVE Excused(p) \/ (author[p[1]] \in Slow /\ author[p[2]] \notin Slow)
    <3>1. CASE p \in unfair
      BY <1>0, <3>1 DEF Unfair
    <3>2. CASE p \in Evicted(w) \X (Listing(w) \ Evicted(w)) /\ written[p[2]] < WriteOf(w, p[1])
      <4>1. p[1] \in Evicted(w) /\ p[2] \in Listing(w) \ Evicted(w)
        BY <3>2
      <4>. QED BY <2>1, <3>2, <4>1 DEF Excused
    <3>. QED BY <1>1, <3>1, <3>2
  <2>. QED BY <1>1, <2>2 DEF Unfair, Excused
<1>. QED BY <1>6, <1>7, <1>8 DEF SyncInv

\* One copy changes, and nothing of what the senders know.
LEMMA OneCopyKeeps ==
  ASSUME SyncInv, UNCHANGED senderSide, NEW h \in Hosts, NEW i \in PostIds, NEW c \in Copies,
         Becomes(h, i, c),
         \/ copy'[h][i] = copy[h][i]
         \/ Removed(h, i) /\ ~Whereabouts(i)'
         \/ \E g \in Hosts : Brought(g, h, i),
         \A j \in PostIds : Whereabouts(j)' => Whereabouts(j)
  PROVE  /\ copy' \in [Hosts -> [PostIds -> Copies]] /\ Unfair'
         /\ UNCHANGED <<author, writes, wrote, trimming, written, unfair, collided>>
         /\ \A j \in PostIds :
              /\ Begun(j)' /\ \A g \in Hosts : Fit(g, j)'
              /\ copy[Reader][j].edits \subseteq copy'[Reader][j].edits
              /\ writes[j] <= 1 /\ First(j) \in copy[Reader][j].edits /\ ~copy[Reader][j].on
                   => ~copy'[Reader][j].on
<1>1. SyncTypes /\ Unfair
  BY DEF SyncInv
<1>2. UNCHANGED <<author, writes, wrote, trimming, written, unfair, collided>>
  BY DEF senderSide
<1>3. /\ copy' \in [Hosts -> [PostIds -> Copies]]
      /\ \A g \in Hosts, j \in PostIds : g # h \/ j # i => copy'[g][j] = copy[g][j]
  BY <1>1, OneCopy
<1>4. ASSUME NEW g \in Hosts, NEW j \in PostIds
      PROVE  \/ copy'[g][j] = copy[g][j]
             \/ Removed(g, j) /\ ~Whereabouts(j)'
             \/ \E k \in Hosts : Brought(k, g, j)
  <2>1. CASE g = h /\ j = i
    BY <2>1
  <2>. QED BY <1>3, <2>1
<1>5. ASSUME NEW j \in PostIds
      PROVE  /\ Begun(j)' /\ \A g \in Hosts : Fit(g, j)'
             /\ copy[Reader][j].edits \subseteq copy'[Reader][j].edits
             /\ writes[j] <= 1 /\ First(j) \in copy[Reader][j].edits /\ ~copy[Reader][j].on
                  => ~copy'[Reader][j].on
  BY <1>2, <1>4, CopiesKeep
<1>6. Unfair'
  BY <1>1, <1>2 DEF Unfair, Excused
<1>. QED BY <1>2, <1>3, <1>5, <1>6

\* No copy changes.
LEMMA NoCopyKeeps ==
  ASSUME SyncInv, UNCHANGED senderSide, UNCHANGED copy,
         \A j \in PostIds : Whereabouts(j)' => Whereabouts(j)
  PROVE  /\ Unfair' /\ UNCHANGED <<author, writes, wrote, trimming, written, unfair, collided>>
         /\ \A j \in PostIds : Begun(j)' /\ \A g \in Hosts : Fit(g, j)'
<1>1. SyncTypes /\ Unfair
  BY DEF SyncInv
<1>2. UNCHANGED <<author, writes, wrote, trimming, written, unfair, collided>>
  BY DEF senderSide
<1>3. ASSUME NEW j \in PostIds PROVE Begun(j)' /\ \A g \in Hosts : Fit(g, j)'
  BY <1>2, CopiesKeep
<1>4. Unfair'
  BY <1>1, <1>2 DEF Unfair, Excused
<1>. QED BY <1>2, <1>3, <1>4

LEMMA PruneOutboxKeeps ==
  ASSUME SyncInv, NEW h \in Hosts, NEW i \in PostIds, PruneOutbox(h, i) PROVE SyncInv'
<1>1. /\ mishaps < MaxMishaps /\ mishaps' = mishaps + 1 /\ copy[h][i].on
      /\ copy' = [copy EXCEPT ![h][i] = Gone(h, i)] /\ trimmed' = trimmed \cup {i}
      /\ UNCHANGED senderSide /\ UNCHANGED <<reader, perished, passedOn, unmoved>>
  BY DEF PruneOutbox, Listing, pollHistory
<1>2. SyncTypes /\ Gone(h, i) \in Copies
  BY GoneFacts DEF SyncInv
<1>3. copy'[h][i] = Gone(h, i)
  <2>1. Becomes(h, i, Gone(h, i))
    BY <1>1 DEF Becomes
  <2>. QED BY <1>2, <2>1, OneCopy
<1>4. Removed(h, i)
  BY <1>1, <1>3, GoneFacts DEF Removed
<1>5. ~Whereabouts(i)' /\ \A j \in PostIds : Whereabouts(j)' => Whereabouts(j)
  BY <1>1 DEF Whereabouts
<1>6. /\ copy' \in [Hosts -> [PostIds -> Copies]] /\ Unfair'
      /\ UNCHANGED <<author, writes, wrote, trimming, written, unfair, collided>>
      /\ \A j \in PostIds :
           /\ Begun(j)' /\ \A g \in Hosts : Fit(g, j)'
           /\ copy[Reader][j].edits \subseteq copy'[Reader][j].edits
           /\ writes[j] <= 1 /\ First(j) \in copy[Reader][j].edits /\ ~copy[Reader][j].on
                => ~copy'[Reader][j].on
  BY <1>1, <1>2, <1>4, <1>5, OneCopyKeeps DEF Becomes
<1>7. SyncTypes'
  <2>1. mishaps' \in 0..MaxMishaps /\ trimmed' \subseteq PostIds
    BY <1>1, <1>2, RailNumbers DEF SyncTypes
  <2>. QED BY <1>1, <1>2, <1>6, <2>1 DEF SyncTypes
<1>8. ASSUME NEW j \in PostIds PROVE HandedOnce(j)'
  <2>1. Archiving(j)' = Archiving(j)
    BY <1>1 DEF Archiving
  <2>. QED BY <1>1, <1>6, <2>1, HandedKeeps
<1>. QED BY <1>6, <1>7, <1>8 DEF SyncInv

LEMMA SyncKeepsInv == ASSUME SyncInv, NEW g \in Hosts, NEW h \in Hosts, NEW i \in PostIds, Sync(g, h, i) PROVE SyncInv'
<1>. DEFINE new == IF copy[h][i].edits \subseteq copy[g][i].edits THEN copy[g][i]
                   ELSE Merged(copy[h][i], copy[g][i])
<1>1. /\ ~(copy[g][i].edits \subseteq copy[h][i].edits) /\ copy' = [copy EXCEPT ![h][i] = new]
      /\ UNCHANGED senderSide /\ UNCHANGED <<reader, mishaps, trimmed, perished, passedOn, unmoved>>
  BY DEF Sync, pollHistory
<1>2. SyncTypes /\ copy[g][i] \in Copies /\ copy[h][i] \in Copies
  BY DEF SyncInv, SyncTypes
<1>3. new \in Copies
  BY <1>2, MergedFacts
<1>4. copy'[h][i] = new
  <2>. HIDE DEF new
  <2>1. Becomes(h, i, new)
    BY <1>1 DEF Becomes
  <2>. QED BY <1>2, <1>3, <2>1, OneCopy
<1>5. Brought(g, h, i)
  BY <1>1, <1>4 DEF Brought
<1>6. \A j \in PostIds : Whereabouts(j)' => Whereabouts(j)
  BY <1>1 DEF Whereabouts
<1>7. /\ copy' \in [Hosts -> [PostIds -> Copies]] /\ Unfair'
      /\ UNCHANGED <<author, writes, wrote, trimming, written, unfair, collided>>
      /\ \A j \in PostIds :
           /\ Begun(j)' /\ \A k \in Hosts : Fit(k, j)'
           /\ copy[Reader][j].edits \subseteq copy'[Reader][j].edits
           /\ writes[j] <= 1 /\ First(j) \in copy[Reader][j].edits /\ ~copy[Reader][j].on
                => ~copy'[Reader][j].on
  <2>. HIDE DEF new
  <2>. QED BY <1>1, <1>3, <1>5, <1>6, OneCopyKeeps DEF Becomes
<1>8. SyncTypes'
  BY <1>1, <1>2, <1>7 DEF SyncTypes
<1>9. ASSUME NEW j \in PostIds PROVE HandedOnce(j)'
  <2>1. Archiving(j)' = Archiving(j)
    BY <1>1 DEF Archiving
  <2>. QED BY <1>1, <1>7, <2>1, HandedKeeps
<1>. QED BY <1>7, <1>8, <1>9 DEF SyncInv

LEMMA ArchiveFileKeeps == ASSUME SyncInv, ArchiveFile PROVE SyncInv'
<1>a. PICK i \in PostIds : i = reader.at
  BY DEF SyncInv, SyncTypes, ArchiveFile
<1>0. /\ SyncTypes /\ i = reader.at /\ i \in reader.got /\ Reader \in Hosts /\ HandedOnce(i)
      /\ reader \in [step : {"rest", "read", "archive"}, todo : SUBSET PostIds, at : PostIds \cup {NoPost},
                     got : SUBSET PostIds]
  BY <1>a, RailNumbers DEF SyncInv, SyncTypes, ArchiveFile
<1>1. /\ reader.step = "archive" /\ copy' = [copy EXCEPT ![Reader][i] = MovedAway(Reader, i)]
      /\ reader' = [reader EXCEPT !.step = "read", !.at = NoPost]
      /\ UNCHANGED senderSide /\ UNCHANGED <<mishaps, trimmed, perished, passedOn, unmoved>>
  BY <1>a DEF ArchiveFile, pollHistory
<1>2. /\ reader'.step = "read" /\ reader'.got = reader.got
      /\ reader' \in [step : {"rest", "read", "archive"}, todo : SUBSET PostIds, at : PostIds \cup {NoPost},
                     got : SUBSET PostIds]
  BY <1>0, <1>1
<1>3. MovedAway(Reader, i) \in Copies
  BY <1>0, GoneFacts DEF MovedAway, SyncTypes
<1>4. copy'[Reader][i] = MovedAway(Reader, i)
  <2>1. Becomes(Reader, i, MovedAway(Reader, i))
    BY <1>1 DEF Becomes
  <2>. QED BY <1>0, <1>3, <2>1, OneCopy
<1>5. /\ ~Whereabouts(i)' /\ \A j \in PostIds : Whereabouts(j)' => Whereabouts(j)
  BY <1>0, <1>1, <1>2 DEF Whereabouts
<1>6. copy'[Reader][i] = copy[Reader][i] \/ (Removed(Reader, i) /\ ~Whereabouts(i)')
  BY <1>0, <1>4, <1>5, GoneFacts DEF MovedAway, Removed
<1>7. /\ copy' \in [Hosts -> [PostIds -> Copies]] /\ Unfair'
      /\ UNCHANGED <<author, writes, wrote, trimming, written, unfair, collided>>
      /\ \A j \in PostIds :
           /\ Begun(j)' /\ \A k \in Hosts : Fit(k, j)'
           /\ copy[Reader][j].edits \subseteq copy'[Reader][j].edits
           /\ writes[j] <= 1 /\ First(j) \in copy[Reader][j].edits /\ ~copy[Reader][j].on
                => ~copy'[Reader][j].on
  BY <1>0, <1>1, <1>3, <1>5, <1>6, OneCopyKeeps DEF Becomes
<1>8. SyncTypes'
  BY <1>0, <1>1, <1>2, <1>7 DEF SyncTypes
<1>9. ~copy'[Reader][i].on
  BY <1>0, <1>4, GoneFacts DEF MovedAway
<1>10. ASSUME NEW j \in PostIds PROVE HandedOnce(j)'
  <2>1. CASE j = i
    <3>1. First(i)' = First(i) /\ writes' = writes /\ passedOn' = passedOn
      BY <1>1, <1>7 DEF First
    <3>2. writes[i] <= 1 /\ i \notin unmoved => First(i) \in copy'[Reader][i].edits /\ passedOn[i] = 0
      BY <1>0, <1>7 DEF HandedOnce
    <3>. QED BY <1>1, <1>9, <2>1, <3>1, <3>2 DEF HandedOnce
  <2>2. CASE j # i
    <3>1. ~Archiving(j)
      BY <1>0, <2>2 DEF Archiving
    <3>. QED BY <1>1, <1>2, <1>7, <3>1, HandedKeeps
  <2>. QED BY <2>1, <2>2
<1>. QED BY <1>7, <1>8, <1>10 DEF SyncInv

LEMMA ArchiveFailsKeeps == ASSUME SyncInv, ArchiveFails PROVE SyncInv'
<1>a. PICK i \in PostIds : i = reader.at
  BY DEF SyncInv, SyncTypes, ArchiveFails
<1>0. /\ SyncTypes
      /\ reader \in [step : {"rest", "read", "archive"}, todo : SUBSET PostIds, at : PostIds \cup {NoPost},
                     got : SUBSET PostIds]
  BY DEF SyncInv, SyncTypes
<1>1. /\ reader.step = "archive" /\ mishaps < MaxMishaps /\ mishaps' = mishaps + 1
      /\ unmoved' = unmoved \cup {i} /\ reader' = [reader EXCEPT !.step = "read", !.at = NoPost]
      /\ UNCHANGED copy /\ UNCHANGED senderSide /\ UNCHANGED <<trimmed, perished, passedOn>>
  BY <1>a DEF ArchiveFails
<1>2. /\ reader'.step = "read" /\ reader'.got = reader.got
      /\ reader' \in [step : {"rest", "read", "archive"}, todo : SUBSET PostIds, at : PostIds \cup {NoPost},
                     got : SUBSET PostIds]
  BY <1>0, <1>1
<1>3. \A j \in PostIds : Whereabouts(j)' => Whereabouts(j)
  BY <1>1, <1>2 DEF Whereabouts
<1>4. /\ Unfair' /\ UNCHANGED <<author, writes, wrote, trimming, written, unfair, collided>>
      /\ \A j \in PostIds : Begun(j)' /\ \A g \in Hosts : Fit(g, j)'
  BY <1>1, <1>3, NoCopyKeeps
<1>5. SyncTypes'
  <2>1. mishaps' \in 0..MaxMishaps
    BY <1>0, <1>1, RailNumbers DEF SyncTypes
  <2>2. unmoved' \subseteq PostIds
    BY <1>0, <1>1 DEF SyncTypes
  <2>. QED BY <1>0, <1>1, <1>2, <1>4, <2>1, <2>2 DEF SyncTypes
<1>6. ASSUME NEW j \in PostIds PROVE HandedOnce(j)'
  <2>1. CASE j = i
    BY <1>1, <2>1 DEF HandedOnce
  <2>2. CASE j # i
    <3>1. ~Archiving(j)
      BY <1>a, <2>2 DEF Archiving
    <3>. QED BY <1>1, <1>2, <1>4, <3>1, HandedKeeps
  <2>. QED BY <2>1, <2>2
<1>. QED BY <1>4, <1>5, <1>6 DEF SyncInv

LEMMA PollFolderKeeps == ASSUME SyncInv, PollFolder PROVE SyncInv'
<1>1. /\ reader = ReaderIdle /\ reader' = [ReaderIdle EXCEPT !.step = "read", !.todo = Listing(Reader)]
      /\ UNCHANGED copy /\ UNCHANGED senderSide /\ UNCHANGED <<mishaps, trimmed, perished, passedOn, unmoved>>
  BY DEF PollFolder, pollHistory
<1>2. SyncTypes /\ Listing(Reader) \subseteq PostIds
  BY DEF SyncInv, Listing
<1>3. /\ reader' = [step |-> "read", todo |-> Listing(Reader), at |-> NoPost, got |-> {}]
      /\ reader.got = {} /\ reader.step = "rest"
  BY <1>1 DEF ReaderIdle
<1>4. /\ reader'.step = "read" /\ reader'.got = {}
      /\ reader' \in [step : {"rest", "read", "archive"}, todo : SUBSET PostIds, at : PostIds \cup {NoPost},
                     got : SUBSET PostIds]
  BY <1>2, <1>3
<1>5. \A j \in PostIds : Whereabouts(j)' => Whereabouts(j)
  BY <1>1, <1>3, <1>4 DEF Whereabouts
<1>6. /\ Unfair' /\ UNCHANGED <<author, writes, wrote, trimming, written, unfair, collided>>
      /\ \A j \in PostIds : Begun(j)' /\ \A g \in Hosts : Fit(g, j)'
  BY <1>1, <1>5, NoCopyKeeps
<1>7. SyncTypes'
  BY <1>1, <1>2, <1>4, <1>6 DEF SyncTypes
<1>8. ASSUME NEW j \in PostIds PROVE HandedOnce(j)'
  BY <1>1, <1>4, <1>6, HandedKeeps
<1>. QED BY <1>6, <1>7, <1>8 DEF SyncInv

LEMMA ReadFileKeeps == ASSUME SyncInv, NEW i \in PostIds, ReadFile(i) PROVE SyncInv'
<1>0. /\ SyncTypes /\ Reader \in Hosts /\ HandedOnce(i) /\ Fit(Reader, i) /\ passedOn[i] \in Nat
      /\ reader \in [step : {"rest", "read", "archive"}, todo : SUBSET PostIds, at : PostIds \cup {NoPost},
                     got : SUBSET PostIds]
  BY RailNumbers DEF SyncInv, SyncTypes
<1>1. /\ reader.step = "read" /\ UNCHANGED copy /\ UNCHANGED senderSide
      /\ UNCHANGED <<mishaps, trimmed, perished, passedOn, unmoved>>
      /\ reader' = IF i \in Listing(Reader)
                   THEN [reader EXCEPT !.todo = reader.todo \ {i}, !.step = "archive", !.at = i,
                                       !.got = reader.got \cup {i}]
                   ELSE [reader EXCEPT !.todo = reader.todo \ {i}]
  BY DEF ReadFile, pollHistory
<1>2. /\ reader' \in [step : {"rest", "read", "archive"}, todo : SUBSET PostIds, at : PostIds \cup {NoPost},
                      got : SUBSET PostIds]
      /\ reader'.got \in {reader.got, reader.got \cup {i}} /\ reader'.step \in {"read", "archive"}
      /\ i \in reader'.got /\ i \notin reader.got => copy[Reader][i].on
      /\ copy[Reader][i].on => reader'.step = "archive" /\ reader'.at = i
      /\ reader'.step = "archive" => reader'.at = i /\ i \in reader'.got /\ copy[Reader][i].on
  <2>1. CASE i \in Listing(Reader)
    <3>1. reader' = [reader EXCEPT !.todo = reader.todo \ {i}, !.step = "archive", !.at = i,
                                   !.got = reader.got \cup {i}]
      BY <1>1, <2>1
    <3>2. copy[Reader][i].on
      BY <2>1 DEF Listing
    <3>3. /\ reader'.todo \subseteq PostIds /\ reader'.step = "archive" /\ reader'.at = i
          /\ reader'.got = reader.got \cup {i}
      BY <1>0, <3>1
    <3>4. reader' \in [step : {"rest", "read", "archive"}, todo : SUBSET PostIds, at : PostIds \cup {NoPost},
                       got : SUBSET PostIds]
      BY <1>0, <3>1
    <3>. QED BY <3>2, <3>3, <3>4
  <2>2. CASE i \notin Listing(Reader)
    <3>1. reader' = [reader EXCEPT !.todo = reader.todo \ {i}]
      BY <1>1, <2>2
    <3>2. ~copy[Reader][i].on
      BY <2>2 DEF Listing
    <3>3. reader'.step = "read" /\ reader'.got = reader.got
      BY <1>0, <1>1, <3>1
    <3>4. reader' \in [step : {"rest", "read", "archive"}, todo : SUBSET PostIds, at : PostIds \cup {NoPost},
                       got : SUBSET PostIds]
      BY <1>0, <3>1
    <3>. QED BY <3>2, <3>3, <3>4
  <2>. QED BY <2>1, <2>2
<1>3. \A j \in PostIds : Whereabouts(j)' => Whereabouts(j)
  BY <1>1, <1>2 DEF Whereabouts
<1>4. /\ Unfair' /\ UNCHANGED <<author, writes, wrote, trimming, written, unfair, collided>>
      /\ \A j \in PostIds : Begun(j)' /\ \A g \in Hosts : Fit(g, j)'
  BY <1>1, <1>3, NoCopyKeeps
<1>5. SyncTypes'
  BY <1>0, <1>1, <1>2, <1>4 DEF SyncTypes
<1>6. ASSUME NEW j \in PostIds PROVE HandedOnce(j)'
  <2>1. CASE j = i /\ copy[Reader][i].on
    <3>1. Archiving(i)' /\ First(i)' = First(i)
      BY <1>2, <1>4, <2>1 DEF Archiving, First
    <3>2. ~Archiving(i)
      BY <1>1 DEF Archiving
    <3>3. writes[i] <= 1 => First(i) \in copy[Reader][i].edits
      BY <1>0, <2>1 DEF Fit
    <3>4. writes[i] <= 1 /\ i \notin unmoved => passedOn[i] = 0
      BY <1>0, <2>1, <3>2 DEF HandedOnce
    <3>. QED BY <1>1, <1>4, <2>1, <3>1, <3>3, <3>4 DEF HandedOnce
  <2>2. CASE j # i \/ ~copy[Reader][i].on
    <3>1. j \in reader'.got => j \in reader.got
      BY <1>2, <2>2
    <3>2. ~Archiving(j)
      BY <1>1 DEF Archiving
    <3>. QED BY <1>1, <1>4, <3>1, <3>2, HandedKeeps
  <2>. QED BY <2>1, <2>2
<1>. QED BY <1>4, <1>5, <1>6 DEF SyncInv

LEMMA HandOnKeeps == ASSUME SyncInv, HandOn PROVE SyncInv'
<1>0. SyncTypes
  BY DEF SyncInv
<1>1. /\ reader.step = "read" /\ reader' = ReaderIdle /\ UNCHANGED copy /\ UNCHANGED senderSide
      /\ passedOn' = [i \in PostIds |-> IF i \in reader.got THEN passedOn[i] + 1 ELSE passedOn[i]]
      /\ UNCHANGED <<mishaps, trimmed, perished, unmoved>>
  BY DEF HandOn
<1>2. /\ reader'.step = "rest" /\ reader'.got = {}
      /\ reader' \in [step : {"rest", "read", "archive"}, todo : SUBSET PostIds, at : PostIds \cup {NoPost},
                      got : SUBSET PostIds]
  BY <1>1 DEF ReaderIdle
<1>3. /\ passedOn' \in [PostIds -> Nat]
      /\ \A j \in PostIds : /\ passedOn[j] \in Nat
                            /\ passedOn'[j] = IF j \in reader.got THEN passedOn[j] + 1 ELSE passedOn[j]
  BY <1>0, <1>1 DEF SyncTypes
<1>4. \A j \in PostIds : Whereabouts(j)' => Whereabouts(j)
  BY <1>1, <1>2, <1>3 DEF Whereabouts
<1>5. /\ Unfair' /\ UNCHANGED <<author, writes, wrote, trimming, written, unfair, collided>>
      /\ \A j \in PostIds : Begun(j)' /\ \A g \in Hosts : Fit(g, j)'
  BY <1>1, <1>4, NoCopyKeeps
<1>6. SyncTypes'
  BY <1>0, <1>1, <1>2, <1>3, <1>5 DEF SyncTypes
<1>7. ASSUME NEW j \in PostIds PROVE HandedOnce(j)'
  <2>1. HandedOnce(j) /\ ~Archiving(j) /\ First(j)' = First(j)
    BY <1>1, <1>5 DEF SyncInv, Archiving, First
  <2>2. ASSUME writes[j] <= 1, j \notin unmoved
        PROVE  /\ passedOn'[j] <= 1
               /\ passedOn'[j] > 0 => First(j) \in copy[Reader][j].edits /\ ~copy[Reader][j].on
    BY <1>3, <2>1, <2>2 DEF HandedOnce
  <2>. QED BY <1>1, <1>2, <1>5, <2>1, <2>2 DEF HandedOnce
<1>. QED BY <1>5, <1>6, <1>7 DEF SyncInv

LEMMA PollDiesKeeps == ASSUME SyncInv, PollDies PROVE SyncInv'
<1>0. SyncTypes
  BY DEF SyncInv
<1>1. /\ mishaps < MaxMishaps /\ mishaps' = mishaps + 1 /\ reader' = ReaderIdle
      /\ perished' = perished \cup reader.got
      /\ UNCHANGED copy /\ UNCHANGED senderSide /\ UNCHANGED <<trimmed, passedOn, unmoved>>
  BY DEF PollDies
<1>2. /\ reader'.step = "rest" /\ reader'.got = {}
      /\ reader' \in [step : {"rest", "read", "archive"}, todo : SUBSET PostIds, at : PostIds \cup {NoPost},
                      got : SUBSET PostIds]
  BY <1>1 DEF ReaderIdle
<1>3. \A j \in PostIds : Whereabouts(j)' => Whereabouts(j)
  BY <1>1, <1>2 DEF Whereabouts
<1>4. /\ Unfair' /\ UNCHANGED <<author, writes, wrote, trimming, written, unfair, collided>>
      /\ \A j \in PostIds : Begun(j)' /\ \A g \in Hosts : Fit(g, j)'
  BY <1>1, <1>3, NoCopyKeeps
<1>5. SyncTypes'
  <2>1. mishaps' \in 0..MaxMishaps
    BY <1>0, <1>1, RailNumbers DEF SyncTypes
  <2>2. perished' \subseteq PostIds
    BY <1>0, <1>1 DEF SyncTypes
  <2>. QED BY <1>0, <1>1, <1>2, <1>4, <2>1, <2>2 DEF SyncTypes
<1>6. ASSUME NEW j \in PostIds PROVE HandedOnce(j)'
  BY <1>1, <1>2, <1>4, HandedKeeps
<1>. QED BY <1>4, <1>5, <1>6 DEF SyncInv

LEMMA SyncBegins == SyncRailInit => SyncInv
<1>. SUFFICES ASSUME SyncRailInit PROVE SyncInv
  OBVIOUS
<1>1. /\ copy = [h \in Hosts |-> [i \in PostIds |-> NotHere]]
      /\ author \in [PostIds -> Writers] /\ writes = [i \in PostIds |-> 0] /\ wrote = 0
      /\ trimming = {} /\ reader = ReaderIdle /\ mishaps = 0 /\ written = [i \in PostIds |-> 0]
      /\ trimmed = {} /\ unfair = {} /\ perished = {} /\ passedOn = [i \in PostIds |-> 0]
      /\ unmoved = {} /\ collided = {}
  BY DEF SyncRailInit
<1>2. NotHere \in Copies /\ ~NotHere.on /\ NotHere.edits = {}
  BY RailNumbers DEF NotHere, Copies
<1>3. SyncTypes
  <2>1. copy \in [Hosts -> [PostIds -> Copies]]
    BY <1>1, <1>2
  <2>2. /\ reader \in [step : {"rest", "read", "archive"}, todo : SUBSET PostIds, at : PostIds \cup {NoPost},
                       got : SUBSET PostIds]
        /\ reader.step = "rest"
    BY <1>1 DEF ReaderIdle
  <2>3. wrote \in 0..PostWrites /\ mishaps \in 0..MaxMishaps
    BY <1>1, RailNumbers
  <2>4. writes \in [PostIds -> Nat] /\ written \in [PostIds -> Nat] /\ passedOn \in [PostIds -> Nat]
    BY <1>1
  <2>. QED BY <1>1, <2>1, <2>2, <2>3, <2>4 DEF SyncTypes
<1>4. ASSUME NEW i \in PostIds PROVE HandedOnce(i) /\ Begun(i) /\ \A h \in Hosts : Fit(h, i)
  <2>1. writes[i] = 0 /\ wrote = 0 /\ written[i] = 0 /\ passedOn[i] = 0 /\ reader.got = {}
    BY <1>1 DEF ReaderIdle
  <2>2. ASSUME NEW h \in Hosts PROVE Fit(h, i)
    <3>1. copy[h][i].edits = {} /\ ~copy[h][i].on
      BY <1>1, <1>2
    <3>. QED BY <3>1, FS_EmptySet DEF Fit
  <2>3. HandedOnce(i)
    BY <2>1 DEF HandedOnce
  <2>4. Begun(i)
    BY <2>1 DEF Begun
  <2>. QED BY <2>2, <2>3, <2>4
<1>5. Unfair
  BY <1>1 DEF Unfair
<1>. QED BY <1>3, <1>4, <1>5 DEF SyncInv

LEMMA SyncStep == SyncInv /\ [SyncRailNext]_syncVars => SyncInv'
<1>. SUFFICES ASSUME SyncInv, [SyncRailNext]_syncVars PROVE SyncInv'
  OBVIOUS
<1>1. CASE UNCHANGED syncVars
  <2>0. UNCHANGED copy /\ UNCHANGED senderSide /\ UNCHANGED <<reader, mishaps, trimmed, perished, passedOn, unmoved>>
    BY <1>1 DEF syncVars, pollHistory
  <2>1. \A j \in PostIds : Whereabouts(j)' => Whereabouts(j)
    BY <2>0 DEF Whereabouts
  <2>2. /\ Unfair' /\ UNCHANGED <<author, writes, wrote, trimming, written, unfair, collided>>
        /\ \A j \in PostIds : Begun(j)' /\ \A g \in Hosts : Fit(g, j)'
    BY <2>0, <2>1, NoCopyKeeps
  <2>3. SyncTypes'
    BY <2>0, <2>2 DEF SyncInv, SyncTypes
  <2>4. ASSUME NEW j \in PostIds PROVE HandedOnce(j)'
    BY <2>0, <2>2 DEF SyncInv, HandedOnce, Archiving, First
  <2>. QED BY <2>2, <2>3, <2>4 DEF SyncInv
<1>2. ASSUME NEW w \in Writers, TrimToDepth(w) \/ \E i \in PostIds : Write(w, i) PROVE SyncInv'
  BY <1>2, TrimToDepthKeeps, PostKeeps
<1>3. ASSUME NEW i \in PostIds, ReadFile(i) \/ \E h \in Hosts : PruneOutbox(h, i) PROVE SyncInv'
  BY <1>3, ReadFileKeeps, PruneOutboxKeeps
<1>4. CASE PollFolder \/ ArchiveFile \/ ArchiveFails \/ HandOn \/ PollDies
  BY <1>4, PollFolderKeeps, ArchiveFileKeeps, ArchiveFailsKeeps, HandOnKeeps, PollDiesKeeps
<1>5. CASE \E g, h \in Hosts : \E i \in PostIds : Sync(g, h, i)
  BY <1>5, SyncKeepsInv
<1>. QED BY <1>1, <1>2, <1>3, <1>4, <1>5 DEF SyncRailNext

LEMMA SyncHolds == SyncInv => SyncRailTypeOK /\ SyncKeeps
<1>. SUFFICES ASSUME SyncInv PROVE SyncRailTypeOK /\ SyncKeeps
  OBVIOUS
<1>0. SyncTypes /\ Unfair
  BY DEF SyncInv
<1>1. SyncRailTypeOK
  <2>1. ASSUME NEW h \in Hosts, NEW i \in PostIds
        PROVE  /\ copy[h][i].on \in BOOLEAN /\ copy[h][i].mtime \in 0..(2 * Lag)
               /\ copy[h][i].edits \subseteq Hosts \X (Nat \ {0})
    BY <1>0 DEF SyncTypes, Copies
  <2>2. writes \in [PostIds -> 0..PostWrites]
    <3>1. \A i \in PostIds : writes[i] \in Nat /\ writes[i] <= wrote
      BY <1>0 DEF SyncInv, SyncTypes, Begun
    <3>2. wrote \in Nat /\ wrote <= PostWrites /\ PostWrites \in Nat
      BY <1>0, RailNumbers DEF SyncTypes
    <3>3. \A i \in PostIds : writes[i] \in 0..PostWrites
      BY <3>1, <3>2
    <3>. QED BY <1>0, <3>3 DEF SyncTypes
  <2>. QED BY <1>0, <2>1, <2>2 DEF SyncTypes, SyncRailTypeOK
<1>2. ASSUME NEW i \in PostIds, writes[i] > 0, ~(i \in reader.got \/ passedOn[i] > 0 \/ i \in trimmed \cup perished)
      PROVE  \E h \in Hosts : copy[h][i].on
  <2>1. author[i] \in Hosts /\ passedOn[i] \in Nat
    BY <1>0, RailNumbers DEF SyncTypes
  <2>2. Whereabouts(i)
    BY <1>2, <2>1 DEF Whereabouts
  <2>3. copy[author[i]][i].edits # {} /\ Fit(author[i], i)
    BY <1>2, <2>1 DEF SyncInv, Begun
  <2>4. copy[author[i]][i].on
    BY <2>2, <2>3 DEF Fit
  <2>. QED BY <2>1, <2>4
<1>3. \A i \in PostIds : writes[i] = 1 /\ i \notin unmoved => passedOn[i] <= 1
  BY DEF SyncInv, HandedOnce
<1>. QED BY <1>0, <1>1, <1>2, <1>3 DEF SyncKeeps, Unfair, Excused

-------------------------------------------------------------------------------
(* Mailboxes.  What a file may hold is settled when the letter is sealed   *)
(* (Sealing), and until its record is written the sweep has not seen it    *)
(* (Unsent); what the sweep is about to write in its place the sender can  *)
(* open (Sweeping).                                                        *)

Sealing(l) ==
  /\ missive[l].from.operator = HomeOperator
  /\ missive[l].record \in {NoFile, Plain, Opaque} \cup HeldBy(missive[l].from)
  /\ missive[l].drop \in {NoFile, NoMailKey, Opaque} \cup HeldBy(missive[l].to)
  /\ post[l] \in {"record", "drop"} => missive[l].drop # NoMailKey
Unsent(l) ==
  /\ post[l] = "new" => outboxed[l] = NoFile /\ inboxed[l] = NoFile
  /\ post[l] \in {"new", "record"} =>
       l \notin swept /\ outboxed[l] \in {NoFile, HalfWritten} /\ (sweeper = SweepIdle \/ sweeper.at # l)
Sweeping ==
  sweeper = SweepIdle \/ sweeper.by \in {NoMailKey} \cup HeldBy(missive[sweeper.at].from)
MailboxInv == MailboxTypeOK /\ MailboxKeeps /\ Sweeping /\ \A l \in Missives : Sealing(l) /\ Unsent(l)

\* No two marks of a file are the same, and no key is one of them.
LEMMA MarksDiffer ==
  /\ \A key \in MailKeys : key \notin {NoFile, HalfWritten, Plain, Opaque, NoMailKey}
  /\ NoFile \notin {HalfWritten, Plain, Opaque, NoMailKey}
  /\ HalfWritten \notin {Plain, Opaque, NoMailKey} /\ Plain \notin {Opaque, NoMailKey}
  /\ Opaque # NoMailKey
<1>1. \A f \in Fqids : AgentKey(f) \notin {NoFile, HalfWritten, Plain, Opaque, NoMailKey}
  BY DEF AgentKey, NoFile, HalfWritten, Plain, Opaque, NoMailKey
<1>2. OperatorKey \notin {NoFile, HalfWritten, Plain, Opaque, NoMailKey}
  BY DEF OperatorKey, NoFile, HalfWritten, Plain, Opaque, NoMailKey
<1>3. /\ NoFile \notin {HalfWritten, Plain, Opaque, NoMailKey}
      /\ HalfWritten \notin {Plain, Opaque, NoMailKey} /\ Plain \notin {Opaque, NoMailKey}
      /\ Opaque # NoMailKey
  BY DEF NoFile, HalfWritten, Plain, Opaque, NoMailKey
<1>. QED BY <1>1, <1>2, <1>3 DEF MailKeys

\* Whom a letter is sealed to can open it.
LEMMA SealedRight ==
  ASSUME NEW f \in Fqids
  PROVE  /\ HeldBy(f) \subseteq MailKeys
         /\ RecipientKey(f) \in {NoMailKey} \cup HeldBy(f)
         /\ f.operator = HomeOperator => SignerKey(f) \in HeldBy(f)
<1>1. HeldBy(f) \subseteq MailKeys
  BY DEF HeldBy, MailKeys
<1>2. f.operator = HomeOperator => OwnAgent(f.name) = f
  BY DEF Fqids, OwnAgent
<1>. QED BY <1>1, <1>2 DEF RecipientKey, SignerKey, SameBox, HeldBy

LEMMA SealedParts ==
  ASSUME NEW from \in Fqids, NEW to \in Fqids, from.operator = HomeOperator,
         NEW body \in {"plain", "readable", "opaque"}
  PROVE  /\ Sealed(from, to, body) \in [from : Fqids, to : Fqids, record : MailFiles, drop : MailFiles \cup {NoMailKey}]
         /\ Sealed(from, to, body).from = from /\ Sealed(from, to, body).to = to
         /\ Sealed(from, to, body).record \in {NoFile, Plain, Opaque} \cup HeldBy(from)
         /\ Sealed(from, to, body).drop \in {NoFile, NoMailKey, Opaque} \cup HeldBy(to)
<1>1. /\ RecipientKey(to) \in {NoMailKey} \cup HeldBy(to) /\ SignerKey(from) \in HeldBy(from)
      /\ HeldBy(to) \subseteq MailFiles /\ HeldBy(from) \subseteq MailFiles
      /\ {Plain, Opaque} \subseteq MailFiles
  BY SealedRight DEF MailFiles
<1>2. CASE body = "opaque"
  <2>1. Sealed(from, to, body) = [from |-> from, to |-> to, record |-> Opaque, drop |-> Opaque]
    BY <1>2 DEF Sealed
  <2>. QED BY <1>1, <2>1
<1>3. CASE body = "readable"
  <2>1. Sealed(from, to, body) = [from |-> from, to |-> to, record |-> Plain, drop |-> RecipientKey(to)]
    BY <1>3 DEF Sealed
  <2>. QED BY <1>1, <2>1
<1>4. CASE body = "plain"
  <2>1. Sealed(from, to, body) = [from |-> from, to |-> to, record |-> SignerKey(from), drop |-> RecipientKey(to)]
    BY <1>4 DEF Sealed
  <2>. QED BY <1>1, <2>1
<1>. QED BY <1>2, <1>3, <1>4

LEMMA MailboxBegins == MailboxInit => MailboxInv
<1>. SUFFICES ASSUME MailboxInit PROVE MailboxInv
  OBVIOUS
<1>1. \A n \in Names : OwnAgent(n) \in Fqids /\ OwnAgent(n).operator = HomeOperator
  BY MailboxAssumption DEF OwnAgent, Fqids
<1>2. /\ missive \in [Missives -> [from : Fqids, to : Fqids, record : {NoFile}, drop : {NoFile}]]
      /\ \A l \in Missives : missive[l].from.operator = HomeOperator
  <2>1. missive \in [Missives -> OldMissives]
    BY DEF MailboxInit
  <2>2. \A m \in OldMissives : /\ m \in [from : Fqids, to : Fqids, record : {NoFile}, drop : {NoFile}]
                               /\ m.from.operator = HomeOperator
    BY <1>1 DEF OldMissives
  <2>. QED BY <2>1, <2>2
<1>3. /\ identities \subseteq Names /\ pinned = {} /\ outboxed \in [Missives -> {NoFile, Plain}]
      /\ post = [l \in Missives |-> IF outboxed[l] = Plain THEN "sent" ELSE "new"]
      /\ inboxed = [l \in Missives |-> NoFile] /\ sweeper = SweepIdle /\ upsets = 0 /\ swept = {}
  BY DEF MailboxInit
<1>4. /\ {NoFile, Plain} \subseteq MailFiles /\ MaxUpsets \in Nat /\ NoFile # Plain
  BY MailboxAssumption, MarksDiffer DEF MailFiles
<1>5. MailboxTypeOK
  <2>1. post \in [Missives -> {"new", "refused", "record", "drop", "sent", "died"}]
    BY <1>3
  <2>2. outboxed \in [Missives -> MailFiles] /\ inboxed \in [Missives -> MailFiles]
    BY <1>3, <1>4
  <2>3. missive \in [Missives -> [from : Fqids, to : Fqids, record : MailFiles, drop : MailFiles \cup {NoMailKey}]]
    BY <1>2, <1>4
  <2>4. upsets \in 0..MaxUpsets /\ identities \subseteq Names /\ pinned \subseteq Fqids /\ swept \subseteq Missives
    BY <1>3, <1>4
  <2>. QED BY <1>3, <2>1, <2>2, <2>3, <2>4 DEF MailboxTypeOK
<1>6. ASSUME NEW l \in Missives
      PROVE  /\ Sealing(l) /\ Unsent(l) /\ inboxed[l] = NoFile /\ outboxed[l] \in {NoFile, Plain}
             /\ l \notin swept
  <2>1. /\ missive[l].record = NoFile /\ missive[l].drop = NoFile /\ missive[l].from.operator = HomeOperator
        /\ outboxed[l] \in {NoFile, Plain} /\ inboxed[l] = NoFile /\ post[l] \in {"sent", "new"}
        /\ post[l] = "new" => outboxed[l] = NoFile
    BY <1>2, <1>3
  <2>. QED BY <1>3, <2>1 DEF Sealing, Unsent
<1>7. MailboxKeeps
  BY <1>6 DEF MailboxKeeps
<1>. QED BY <1>3, <1>5, <1>6, <1>7 DEF MailboxInv, Sweeping

LEMMA SendMessageKeeps ==
  ASSUME MailboxInv, NEW l \in Missives, NEW n \in Names, NEW to \in Fqids,
         NEW body \in {"plain", "readable", "opaque"}, SendMessage(l, OwnAgent(n), to, body)
  PROVE  MailboxInv'
<1>. DEFINE new == Sealed(OwnAgent(n), to, body)
<1>1. OwnAgent(n) \in Fqids /\ OwnAgent(n).operator = HomeOperator
  BY MailboxAssumption DEF OwnAgent, Fqids
<1>2. /\ new \in [from : Fqids, to : Fqids, record : MailFiles, drop : MailFiles \cup {NoMailKey}]
      /\ new.from = OwnAgent(n) /\ new.to = to
      /\ new.record \in {NoFile, Plain, Opaque} \cup HeldBy(new.from)
      /\ new.drop \in {NoFile, NoMailKey, Opaque} \cup HeldBy(new.to)
  BY <1>1, SealedParts
<1>3. /\ post[l] = "new" /\ missive' = [missive EXCEPT ![l] = new]
      /\ post' = [post EXCEPT ![l] = IF new.drop = NoMailKey THEN "refused" ELSE "record"]
      /\ UNCHANGED <<identities, pinned, outboxed, inboxed, sweeper, upsets, swept>>
  BY DEF SendMessage, keyFiles
<1>. HIDE DEF new
<1>4. MailboxTypeOK /\ MailboxKeeps /\ Sweeping /\ Sealing(l) /\ Unsent(l)
  BY DEF MailboxInv
<1>5. /\ missive'[l] = new /\ post'[l] = (IF new.drop = NoMailKey THEN "refused" ELSE "record")
      /\ \A k \in Missives : k # l => missive'[k] = missive[k] /\ post'[k] = post[k]
  BY <1>3, <1>4 DEF MailboxTypeOK
<1>6. MailboxTypeOK'
  <2>1. missive' \in [Missives -> [from : Fqids, to : Fqids, record : MailFiles, drop : MailFiles \cup {NoMailKey}]]
    BY <1>2, <1>3, <1>4 DEF MailboxTypeOK
  <2>2. post' \in [Missives -> {"new", "refused", "record", "drop", "sent", "died"}]
    BY <1>3, <1>4 DEF MailboxTypeOK
  <2>. QED BY <1>3, <1>4, <2>1, <2>2 DEF MailboxTypeOK
<1>7. outboxed[l] = NoFile /\ inboxed[l] = NoFile /\ l \notin swept /\ (sweeper = SweepIdle \/ sweeper.at # l)
  BY <1>3, <1>4 DEF Unsent
<1>8. MailboxKeeps'
  BY <1>3, <1>4, <1>5, <1>7, MarksDiffer DEF MailboxKeeps
<1>9. Sweeping'
  <2>1. sweeper = SweepIdle \/ sweeper.at \in Missives
    BY <1>4 DEF MailboxTypeOK
  <2>. QED BY <1>3, <1>4, <1>5, <1>7, <2>1 DEF Sweeping
<1>10. ASSUME NEW k \in Missives PROVE Sealing(k)' /\ Unsent(k)'
  <2>1. CASE k = l
    <3>1. Sealing(l)'
      BY <1>1, <1>2, <1>5 DEF Sealing
    <3>2. Unsent(l)'
      BY <1>3, <1>5, <1>7 DEF Unsent
    <3>. QED BY <2>1, <3>1, <3>2
  <2>2. CASE k # l
    BY <1>3, <1>5, <2>2 DEF MailboxInv, Sealing, Unsent
  <2>. QED BY <2>1, <2>2
<1>. QED BY <1>6, <1>8, <1>9, <1>10 DEF MailboxInv

LEMMA WriteRecordKeeps == ASSUME MailboxInv, NEW l \in Missives, WriteRecord(l) PROVE MailboxInv'
<1>1. /\ post[l] = "record"
      /\ outboxed' = [outboxed EXCEPT ![l] = IF outboxed[l] = NoFile THEN HalfWritten ELSE missive[l].record]
      /\ post' = IF outboxed[l] = NoFile THEN post ELSE [post EXCEPT ![l] = "drop"]
      /\ UNCHANGED <<identities, pinned, missive, inboxed, sweeper, upsets, swept>>
  BY DEF WriteRecord, keyFiles
<1>2. MailboxTypeOK /\ MailboxKeeps /\ Sweeping /\ Sealing(l) /\ Unsent(l)
  BY DEF MailboxInv
<1>3. /\ outboxed'[l] = (IF outboxed[l] = NoFile THEN HalfWritten ELSE missive[l].record)
      /\ post'[l] = (IF outboxed[l] = NoFile THEN "record" ELSE "drop")
      /\ \A k \in Missives : k # l => outboxed'[k] = outboxed[k] /\ post'[k] = post[k]
  BY <1>1, <1>2 DEF MailboxTypeOK
<1>4. MailboxTypeOK'
  <2>1. HalfWritten \in MailFiles /\ missive[l].record \in MailFiles
    BY <1>2 DEF MailboxTypeOK, MailFiles
  <2>2. outboxed' \in [Missives -> MailFiles]
    BY <1>1, <1>2, <2>1 DEF MailboxTypeOK
  <2>3. post' \in [Missives -> {"new", "refused", "record", "drop", "sent", "died"}]
    BY <1>1, <1>2 DEF MailboxTypeOK
  <2>. QED BY <1>1, <1>2, <2>2, <2>3 DEF MailboxTypeOK
<1>5. l \notin swept /\ (sweeper = SweepIdle \/ sweeper.at # l) /\ missive[l].drop # NoMailKey
  BY <1>1, <1>2 DEF Unsent, Sealing
<1>6. MailboxKeeps'
  BY <1>1, <1>2, <1>3, <1>5 DEF MailboxKeeps, Sealing
<1>7. Sweeping'
  BY <1>1, <1>2 DEF Sweeping
<1>8. ASSUME NEW k \in Missives PROVE Sealing(k)' /\ Unsent(k)'
  <2>1. CASE k = l
    <3>1. Sealing(l)'
      BY <1>1, <1>2, <1>5 DEF Sealing
    <3>2. Unsent(l)'
      BY <1>1, <1>3, <1>5 DEF Unsent
    <3>. QED BY <2>1, <3>1, <3>2
  <2>2. CASE k # l
    BY <1>1, <1>3, <2>2 DEF MailboxInv, Sealing, Unsent
  <2>. QED BY <2>1, <2>2
<1>. QED BY <1>4, <1>6, <1>7, <1>8 DEF MailboxInv

LEMMA WriteDropKeeps == ASSUME MailboxInv, NEW l \in Missives, WriteDrop(l) PROVE MailboxInv'
<1>1. /\ post[l] = "drop"
      /\ inboxed' = [inboxed EXCEPT ![l] = IF inboxed[l] = NoFile THEN HalfWritten ELSE missive[l].drop]
      /\ post' = IF inboxed[l] = NoFile THEN post ELSE [post EXCEPT ![l] = "sent"]
      /\ UNCHANGED <<identities, pinned, missive, outboxed, sweeper, upsets, swept>>
  BY DEF WriteDrop, keyFiles
<1>2. MailboxTypeOK /\ MailboxKeeps /\ Sweeping /\ Sealing(l) /\ Unsent(l)
  BY DEF MailboxInv
<1>3. /\ inboxed'[l] = (IF inboxed[l] = NoFile THEN HalfWritten ELSE missive[l].drop)
      /\ post'[l] = (IF inboxed[l] = NoFile THEN "drop" ELSE "sent")
      /\ \A k \in Missives : k # l => inboxed'[k] = inboxed[k] /\ post'[k] = post[k]
  BY <1>1, <1>2 DEF MailboxTypeOK
<1>5. missive[l].drop \in {NoFile, Opaque} \cup HeldBy(missive[l].to) /\ missive[l].drop # NoMailKey
  BY <1>1, <1>2 DEF Sealing
<1>4. MailboxTypeOK'
  <2>1. HalfWritten \in MailFiles /\ missive[l].drop \in MailFiles
    BY <1>2, <1>5 DEF MailboxTypeOK, MailFiles
  <2>2. inboxed' \in [Missives -> MailFiles]
    BY <1>1, <1>2, <2>1 DEF MailboxTypeOK
  <2>3. post' \in [Missives -> {"new", "refused", "record", "drop", "sent", "died"}]
    BY <1>1, <1>2 DEF MailboxTypeOK
  <2>. QED BY <1>1, <1>2, <2>2, <2>3 DEF MailboxTypeOK
<1>6. MailboxKeeps'
  BY <1>1, <1>2, <1>3, <1>5 DEF MailboxKeeps
<1>7. Sweeping'
  BY <1>1, <1>2 DEF Sweeping
<1>8. ASSUME NEW k \in Missives PROVE Sealing(k)' /\ Unsent(k)'
  <2>1. CASE k = l
    <3>1. Sealing(l)'
      BY <1>1, <1>2, <1>5 DEF Sealing
    <3>2. Unsent(l)'
      BY <1>3 DEF Unsent
    <3>. QED BY <2>1, <3>1, <3>2
  <2>2. CASE k # l
    BY <1>1, <1>3, <2>2 DEF MailboxInv, Sealing, Unsent
  <2>. QED BY <2>1, <2>2
<1>. QED BY <1>4, <1>6, <1>7, <1>8 DEF MailboxInv

LEMMA SendDiesKeeps == ASSUME MailboxInv, NEW l \in Missives, SendDies(l) PROVE MailboxInv'
<1>1. /\ post' = [post EXCEPT ![l] = "died"] /\ upsets < MaxUpsets /\ upsets' = upsets + 1
      /\ UNCHANGED <<identities, pinned, missive, outboxed, inboxed, sweeper, swept>>
  BY DEF SendDies, keyFiles
<1>2. MailboxTypeOK /\ MailboxKeeps /\ Sweeping
  BY DEF MailboxInv
<1>3. post'[l] = "died" /\ \A k \in Missives : k # l => post'[k] = post[k]
  BY <1>1, <1>2 DEF MailboxTypeOK
<1>4. MailboxTypeOK'
  <2>1. post' \in [Missives -> {"new", "refused", "record", "drop", "sent", "died"}]
    BY <1>1, <1>2 DEF MailboxTypeOK
  <2>2. upsets' \in 0..MaxUpsets
    BY <1>1, <1>2, MailboxAssumption DEF MailboxTypeOK
  <2>. QED BY <1>1, <1>2, <2>1, <2>2 DEF MailboxTypeOK
<1>5. MailboxKeeps' /\ Sweeping'
  BY <1>1, <1>2 DEF MailboxKeeps, Sweeping
<1>6. ASSUME NEW k \in Missives PROVE Sealing(k)' /\ Unsent(k)'
  BY <1>1, <1>3 DEF MailboxInv, Sealing, Unsent
<1>. QED BY <1>4, <1>5, <1>6 DEF MailboxInv

LEMMA SweepReadKeeps == ASSUME MailboxInv, NEW l \in Missives, SweepRead(l) PROVE MailboxInv'
<1>1. /\ sweeper = SweepIdle /\ outboxed[l] \notin {NoFile, HalfWritten}
      /\ UNCHANGED <<identities, pinned, missive, post, outboxed, inboxed, upsets>>
      /\ \/ sweeper' = [at |-> l, by |-> RecipientKey(missive[l].from)] /\ swept' = swept
         \/ outboxed[l] # Plain /\ sweeper' = sweeper /\ swept' = swept \cup {l}
  BY DEF SweepRead, keyFiles
<1>2. MailboxTypeOK /\ MailboxKeeps /\ Sealing(l) /\ Unsent(l) /\ missive[l].from \in Fqids
  BY DEF MailboxInv, MailboxTypeOK
<1>3. post[l] \notin {"new", "record"}
  BY <1>1, <1>2 DEF Unsent
<1>4. sweeper' = SweepIdle \/ (sweeper'.at = l /\ sweeper'.by \in {NoMailKey} \cup HeldBy(missive[l].from)
                               /\ sweeper' \in [at : Missives, by : MailKeys \cup {NoMailKey}])
  <2>1. RecipientKey(missive[l].from) \in {NoMailKey} \cup HeldBy(missive[l].from)
        /\ HeldBy(missive[l].from) \subseteq MailKeys
    BY <1>2, SealedRight
  <2>. QED BY <1>1, <2>1
<1>5. MailboxTypeOK'
  BY <1>1, <1>2, <1>4 DEF MailboxTypeOK
<1>6. MailboxKeeps'
  BY <1>1, <1>2 DEF MailboxKeeps
<1>7. Sweeping'
  BY <1>1, <1>4 DEF Sweeping
<1>8. ASSUME NEW k \in Missives PROVE Sealing(k)' /\ Unsent(k)'
  <2>1. Sealing(k) /\ Unsent(k)
    BY DEF MailboxInv
  <2>2. Sealing(k)'
    BY <1>1, <2>1 DEF Sealing
  <2>3. Unsent(k)'
    BY <1>1, <1>3, <1>4, <2>1 DEF Unsent
  <2>. QED BY <2>2, <2>3
<1>. QED BY <1>5, <1>6, <1>7, <1>8 DEF MailboxInv

LEMMA SweepReplaceKeeps == ASSUME MailboxInv, SweepReplace PROVE MailboxInv'
<1>. DEFINE l == sweeper.at
<1>1. /\ sweeper # SweepIdle /\ sweeper' = SweepIdle /\ outboxed' = [outboxed EXCEPT ![l] = Swept(sweeper.by)]
      /\ swept' = swept \cup {l} /\ UNCHANGED <<identities, pinned, missive, post, inboxed, upsets>>
  BY DEF SweepReplace, keyFiles
<1>2. /\ MailboxTypeOK /\ MailboxKeeps /\ Sweeping /\ l \in Missives
      /\ sweeper.by \in {NoMailKey} \cup HeldBy(missive[l].from) /\ missive[l].from \in Fqids
  BY <1>1 DEF MailboxInv, MailboxTypeOK, Sweeping
<1>3. /\ Swept(sweeper.by) \in {NoFile} \cup HeldBy(missive[l].from)
      /\ Swept(sweeper.by) \in MailFiles /\ Swept(sweeper.by) # Plain
  <2>1. HeldBy(missive[l].from) \subseteq MailKeys
    BY <1>2, SealedRight
  <2>. QED BY <1>2, <2>1, MarksDiffer DEF Swept, MailFiles
<1>4. /\ outboxed' \in [Missives -> MailFiles] /\ outboxed'[l] = Swept(sweeper.by)
      /\ \A k \in Missives : k # l => outboxed'[k] = outboxed[k]
  BY <1>1, <1>2, <1>3 DEF MailboxTypeOK
<1>5. MailboxTypeOK'
  BY <1>1, <1>2, <1>4 DEF MailboxTypeOK
<1>6. MailboxKeeps'
  BY <1>1, <1>2, <1>3, <1>4 DEF MailboxKeeps
<1>7. Sweeping'
  BY <1>1 DEF Sweeping
<1>8. ASSUME NEW k \in Missives PROVE Sealing(k)' /\ Unsent(k)'
  <2>1. Sealing(k) /\ Unsent(k)
    BY DEF MailboxInv
  <2>2. Sealing(k)'
    BY <1>1, <2>1 DEF Sealing
  <2>3. k = l => post[k] \notin {"new", "record"}
    BY <1>1, <2>1 DEF Unsent
  <2>4. Unsent(k)'
    BY <1>1, <1>4, <2>1, <2>3 DEF Unsent
  <2>. QED BY <2>2, <2>4
<1>. QED BY <1>5, <1>6, <1>7, <1>8 DEF MailboxInv

\* Any step but these leaves the letters and their record as they are, but for what
\* it removes.
LEMMA LettersKeep ==
  ASSUME MailboxInv, UNCHANGED <<missive, post, inboxed, swept>>,
         sweeper' \in {sweeper, SweepIdle}, upsets' \in 0..MaxUpsets,
         identities' \subseteq Names, pinned' \subseteq Fqids,
         outboxed' \in [Missives -> MailFiles],
         \A l \in Missives : outboxed'[l] = outboxed[l] \/ outboxed'[l] = NoFile
  PROVE  MailboxInv'
<1>1. MailboxTypeOK /\ MailboxKeeps /\ Sweeping
  BY DEF MailboxInv
<1>2. MailboxTypeOK'
  BY <1>1 DEF MailboxTypeOK
<1>3. MailboxKeeps'
  BY <1>1, MarksDiffer DEF MailboxKeeps
<1>4. Sweeping'
  BY <1>1 DEF Sweeping
<1>5. ASSUME NEW k \in Missives PROVE Sealing(k)' /\ Unsent(k)'
  BY DEF MailboxInv, Sealing, Unsent
<1>. QED BY <1>2, <1>3, <1>4, <1>5 DEF MailboxInv

LEMMA MailboxStep == MailboxInv /\ [MailboxNext]_mailboxVars => MailboxInv'
<1>. SUFFICES ASSUME MailboxInv, [MailboxNext]_mailboxVars PROVE MailboxInv'
  OBVIOUS
<1>0. /\ upsets \in 0..MaxUpsets /\ identities \subseteq Names /\ pinned \subseteq Fqids /\ MaxUpsets \in Nat
      /\ outboxed \in [Missives -> MailFiles] /\ NoFile \in MailFiles
  BY MailboxAssumption DEF MailboxInv, MailboxTypeOK, MailFiles
<1>1. CASE UNCHANGED mailboxVars
  BY <1>0, <1>1, LettersKeep DEF mailboxVars, keyFiles
<1>2. ASSUME NEW l \in Missives,
             \E n \in Names, to \in Fqids, body \in {"plain", "readable", "opaque"} :
               SendMessage(l, OwnAgent(n), to, body)
      PROVE  MailboxInv'
  BY <1>2, SendMessageKeeps
<1>3. ASSUME NEW l \in Missives, WriteRecord(l) \/ WriteDrop(l) \/ SendDies(l) \/ SweepRead(l)
      PROVE  MailboxInv'
  BY <1>3, WriteRecordKeeps, WriteDropKeeps, SendDiesKeeps, SweepReadKeeps
<1>4. ASSUME NEW l \in Missives, PruneRecord(l) PROVE MailboxInv'
  <2>1. /\ outboxed' = [outboxed EXCEPT ![l] = NoFile]
        /\ UNCHANGED <<identities, pinned, missive, post, inboxed, sweeper, upsets, swept>>
    BY <1>4 DEF PruneRecord, keyFiles
  <2>2. /\ outboxed' \in [Missives -> MailFiles]
        /\ \A k \in Missives : outboxed'[k] = outboxed[k] \/ outboxed'[k] = NoFile
    BY <1>0, <2>1
  <2>. QED BY <1>0, <2>1, <2>2, LettersKeep
<1>5. CASE SweepReplace
  BY <1>5, SweepReplaceKeeps
<1>6. CASE SweepFails
  <2>1. /\ sweeper' = SweepIdle /\ upsets < MaxUpsets /\ upsets' = upsets + 1
        /\ UNCHANGED <<identities, pinned, missive, post, outboxed, inboxed, swept>>
    BY <1>6 DEF SweepFails, keyFiles
  <2>2. upsets' \in 0..MaxUpsets
    BY <1>0, <2>1
  <2>. QED BY <1>0, <2>1, <2>2, LettersKeep
<1>7. CASE EditKeys
  <2>1. /\ upsets < MaxUpsets /\ upsets' = upsets + 1
        /\ UNCHANGED <<missive, post, outboxed, inboxed, sweeper, swept>>
    BY <1>7 DEF EditKeys
  <2>2. upsets' \in 0..MaxUpsets
    BY <1>0, <2>1
  <2>3. identities' \subseteq Names /\ pinned' \subseteq Fqids
    BY <1>0, <1>7 DEF EditKeys, SymDiff
  <2>. QED BY <1>0, <2>1, <2>2, <2>3, LettersKeep
<1>. QED BY <1>1, <1>2, <1>3, <1>4, <1>5, <1>6, <1>7 DEF MailboxNext

LEMMA MailboxHolds == MailboxInv => MailboxTypeOK /\ MailboxKeeps
BY DEF MailboxInv

-------------------------------------------------------------------------------
(* Conversations.  A message that is to be shown is in the answer already, *)
(* or all its files are still to be read (Complete): where it moves on to is  *)
(* read later than where it lies (Onward).  For a message before which     *)
(* nothing stepped back, came or went, what the messages before it show    *)
(* stays the same, and so does its place on the pages (Paged).             *)

Unread      == {toRead[k] : k \in DOMAIN toRead}
Shown(t)    == \/ form[t] = "text" /\ lies[t] # {}
               \/ form[t] = "ack" /\ lies[t] \cap Queues # {}
Relevant(t) == IF form[t] = "text" THEN lies[t] ELSE lies[t] \cap Queues
Complete(t)    == t \notin moved /\ Shown(t) => t \in Listed \/ Relevant(t) \subseteq Unread
Honest(t)   == request = "messages" /\ t \notin moved /\ t \in Listed => Shown(t)
Remembered(t) == t \in filed /\ t \notin moved => form[t] = "text" /\ lies[t] # {}
Once(t) == \A p, q \in Sources :
  <<t, p>> \in found /\ <<t, q>> \in found /\ (request = "messages" \/ {p, q} \subseteq Folders) => p = q
Undisturbed(t) == \A u \in Turns : u <= t => u \notin moved
Count(t) == Cardinality({u \in Turns : u <= t /\ Shown(u)})
Paged ==
  /\ pages \in Seq(SUBSET Turns) /\ Len(pages) <= 2
  /\ \A t \in Turns : Undisturbed(t) =>
       /\ Len(pages) >= 1 => (t \in pages[1] <=> Shown(t) /\ Count(t) \in 1..PageLimit)
       /\ Len(pages) >= 2 =>
            (t \in pages[2] <=> Shown(t) /\ Count(t) \in (PageLimit + 1)..(2 * PageLimit))
Goes(order) ==
  /\ order \in Seq(Sources)
  /\ \A i \in DOMAIN order : \A q \in Queues \cup Folders :
       Precedes(order[i], q) => \E j \in DOMAIN order : i < j /\ order[j] = q
Onward ==
  /\ Goes(toRead)
  /\ request = "messages" => \A k \in DOMAIN toRead : toRead[k] = "history" => k = 1 /\ found = {}
ConversationsInv ==
  /\ ConversationsTypeOK /\ Onward /\ Paged /\ halfFile \subseteq moved
  /\ \A t \in Turns : Complete(t) /\ Honest(t) /\ Remembered(t) /\ Once(t)

\* The way of a message.
LEMMA WayFacts ==
  \A p, q \in Queues \cup Folders :
    /\ p # q => Precedes(p, q) \/ Precedes(q, p)
    /\ Precedes(p, q) <=> \/ p = "pending" /\ q \in {"dead", "outbox", "inbox"}
                          \/ p = "dead" /\ q \in {"outbox", "inbox"}
                          \/ p = "outbox" /\ q = "inbox"
<1>1. /\ DOMAIN Way = 1..4 /\ Way[1] = "pending" /\ Way[2] = "dead" /\ Way[3] = "outbox" /\ Way[4] = "inbox"
  BY DEF Way
<1>2. Queues \cup Folders = {"pending", "dead", "outbox", "inbox"}
  BY DEF Queues, Folders
<1>3. \A k \in 1..4 : k \in {1, 2, 3, 4}
  OBVIOUS
<1>4. ASSUME NEW p \in Queues \cup Folders, NEW q \in Queues \cup Folders
      PROVE  Precedes(p, q) <=> \/ p = "pending" /\ q \in {"dead", "outbox", "inbox"}
                                \/ p = "dead" /\ q \in {"outbox", "inbox"}
                                \/ p = "outbox" /\ q = "inbox"
  <2>1. ASSUME Precedes(p, q)
        PROVE  \/ p = "pending" /\ q \in {"dead", "outbox", "inbox"}
               \/ p = "dead" /\ q \in {"outbox", "inbox"}
               \/ p = "outbox" /\ q = "inbox"
    <3>1. PICK i, j \in 1..4 : i < j /\ Way[i] = p /\ Way[j] = q
      BY <1>1, <2>1 DEF Precedes
    <3>2. i \in {1, 2, 3, 4} /\ j \in {1, 2, 3, 4}
      BY <1>3
    <3>. QED BY <1>1, <3>1, <3>2
  <2>2. \A i, j \in 1..4 : i < j /\ Way[i] = p /\ Way[j] = q => Precedes(p, q)
    BY <1>1 DEF Precedes
  <2>3. ASSUME \/ p = "pending" /\ q \in {"dead", "outbox", "inbox"}
               \/ p = "dead" /\ q \in {"outbox", "inbox"}
               \/ p = "outbox" /\ q = "inbox"
        PROVE  Precedes(p, q)
    BY <1>1, <2>2, <2>3
  <2>. QED BY <2>1, <2>3
<1>. QED BY <1>2, <1>4

\* The two parts of a sequence that was put together.
LEMMA PutTogether ==
  ASSUME NEW S, NEW a \in Seq(S), NEW b \in Seq(S)
  PROVE  /\ a \o b \in Seq(S) /\ Len(a \o b) = Len(a) + Len(b) /\ DOMAIN (a \o b) = 1..(Len(a) + Len(b))
         /\ \A i \in 1..Len(a) : (a \o b)[i] = a[i]
         /\ \A i \in 1..Len(b) : (a \o b)[Len(a) + i] = b[i]
<1>1. a \o b \in Seq(S) /\ Len(a \o b) = Len(a) + Len(b) /\ Len(a) \in Nat /\ Len(b) \in Nat
  BY ConcatProperties, LenProperties
<1>2. \A i \in 1..(Len(a) + Len(b)) : (a \o b)[i] = IF i <= Len(a) THEN a[i] ELSE b[i - Len(a)]
  BY ConcatProperties
<1>3. DOMAIN (a \o b) = 1..(Len(a) + Len(b))
  BY <1>1, LenProperties
<1>4. ASSUME NEW m \in Nat, NEW n \in Nat, NEW i \in 1..n
      PROVE  m + i \in 1..(m + n) /\ ~(m + i <= m) /\ (m + i) - m = i
  OBVIOUS
<1>5. ASSUME NEW m \in Nat, NEW n \in Nat, NEW i \in 1..m
      PROVE  i \in 1..(m + n) /\ i <= m
  OBVIOUS
<1>. QED BY <1>1, <1>2, <1>3, <1>4, <1>5

\* Every request reads all places, those where messages move to later than those
\* where they move from.
LEMMA OrderFacts ==
  ASSUME NEW asked \in Requests
  PROVE  /\ Goes(ReadingOrder(asked))
         /\ \A p \in Queues \cup Folders : \E k \in DOMAIN ReadingOrder(asked) : ReadingOrder(asked)[k] = p
         /\ asked = "messages" => \A k \in DOMAIN ReadingOrder(asked) :
                                    ReadingOrder(asked)[k] = "history" => k = 1
<1>1. Sources = {"pending", "dead", "outbox", "inbox", "history"}
      /\ Queues \cup Folders = {"pending", "dead", "outbox", "inbox"}
  BY DEF Sources, Queues, Folders
<1>2. ASSUME NEW q \in Queues \cup Folders PROVE ~Precedes("history", q)
  <2>1. DOMAIN Way = 1..4 /\ \A k \in 1..4 : Way[k] # "history"
    <3>1. \A k \in 1..4 : k \in {1, 2, 3, 4}
      OBVIOUS
    <3>. QED BY <3>1 DEF Way
  <2>. QED BY <2>1 DEF Precedes
<1>6. /\ Way \in Seq(Sources) /\ Len(Way) = 4 /\ <<"history">> \in Seq(Sources) /\ Len(<<"history">>) = 1
      /\ Way[1] = "pending" /\ Way[2] = "dead" /\ Way[3] = "outbox" /\ Way[4] = "inbox"
  BY <1>1 DEF Way
<1>3. CASE asked = "threads"
  <2>. DEFINE order == Way \o <<"history">>
  <2>1. ReadingOrder(asked) = order
    BY <1>3 DEF ReadingOrder
  <2>2. /\ order \in Seq(Sources) /\ DOMAIN order = 1..5 /\ order[1] = "pending" /\ order[2] = "dead"
        /\ order[3] = "outbox" /\ order[4] = "inbox" /\ order[5] = "history"
    <3>0. ASSUME NEW a \in Seq(Sources), NEW b \in Seq(Sources), Len(a) = 4, Len(b) = 1
          PROVE  /\ a \o b \in Seq(Sources) /\ DOMAIN (a \o b) = 1..(4 + 1)
                 /\ \A i \in 1..4 : (a \o b)[i] = a[i]
                 /\ \A i \in 1..1 : (a \o b)[4 + i] = b[i]
      <4>1. /\ a \o b \in Seq(Sources) /\ DOMAIN (a \o b) = 1..(Len(a) + Len(b))
            /\ \A i \in 1..Len(a) : (a \o b)[i] = a[i]
            /\ \A i \in 1..Len(b) : (a \o b)[Len(a) + i] = b[i]
        BY PutTogether
      <4>. QED BY <3>0, <4>1
    <3>1. /\ order \in Seq(Sources) /\ DOMAIN order = 1..(4 + 1)
          /\ \A i \in 1..4 : order[i] = Way[i]
          /\ \A i \in 1..1 : order[4 + i] = <<"history">>[i]
      BY <1>6, <3>0
    <3>2. <<"history">>[1] = "history" /\ 4 + 1 = 5
      OBVIOUS
    <3>. HIDE DEF order
    <3>. QED BY <1>6, <3>1, <3>2
  <2>. HIDE DEF order
  <2>3. Goes(order)
    <3>1. ASSUME NEW i \in 1..5, NEW q \in Queues \cup Folders, Precedes(order[i], q)
          PROVE  \E j \in 1..5 : i < j /\ order[j] = q
      <4>1. i \in {1, 2, 3, 4, 5}
        OBVIOUS
      <4>2. order[i] # "history" /\ order[i] \in Queues \cup Folders
        BY <1>1, <1>2, <2>2, <3>1, <4>1
      <4>3. \/ order[i] = "pending" /\ q \in {"dead", "outbox", "inbox"}
            \/ order[i] = "dead" /\ q \in {"outbox", "inbox"}
            \/ order[i] = "outbox" /\ q = "inbox"
        BY <3>1, <4>2, WayFacts
      <4>. QED BY <2>2, <4>1, <4>3
    <3>. QED BY <2>2, <3>1 DEF Goes
  <2>4. \A p \in Queues \cup Folders : \E k \in DOMAIN order : order[k] = p
    BY <1>1, <2>2
  <2>. QED BY <1>3, <2>1, <2>3, <2>4
<1>4. CASE asked = "detail"
  <2>. DEFINE order == <<"pending", "dead", "outbox", "inbox">>
  <2>1. ReadingOrder(asked) = order
    BY <1>4 DEF ReadingOrder, Way
  <2>2. /\ order \in Seq(Sources) /\ DOMAIN order = 1..4 /\ order[1] = "pending" /\ order[2] = "dead"
        /\ order[3] = "outbox" /\ order[4] = "inbox"
    BY <1>1
  <2>. HIDE DEF order
  <2>3. Goes(order)
    <3>1. ASSUME NEW i \in 1..4, NEW q \in Queues \cup Folders, Precedes(order[i], q)
          PROVE  \E j \in 1..4 : i < j /\ order[j] = q
      <4>1. i \in {1, 2, 3, 4}
        OBVIOUS
      <4>2. order[i] \in Queues \cup Folders
        BY <1>1, <2>2, <4>1
      <4>3. \/ order[i] = "pending" /\ q \in {"dead", "outbox", "inbox"}
            \/ order[i] = "dead" /\ q \in {"outbox", "inbox"}
            \/ order[i] = "outbox" /\ q = "inbox"
        BY <3>1, <4>2, WayFacts
      <4>. QED BY <2>2, <4>1, <4>3
    <3>. QED BY <2>2, <3>1 DEF Goes
  <2>4. \A p \in Queues \cup Folders : \E k \in DOMAIN order : order[k] = p
    BY <1>1, <2>2
  <2>. QED BY <1>4, <2>1, <2>3, <2>4
<1>5. CASE asked = "messages"
  <2>. DEFINE order == <<"history">> \o Way
  <2>1. ReadingOrder(asked) = order
    BY <1>5 DEF ReadingOrder
  <2>2. /\ order \in Seq(Sources) /\ DOMAIN order = 1..5 /\ order[1] = "history" /\ order[2] = "pending"
        /\ order[3] = "dead" /\ order[4] = "outbox" /\ order[5] = "inbox"
    <3>0. ASSUME NEW a \in Seq(Sources), NEW b \in Seq(Sources), Len(a) = 1, Len(b) = 4
          PROVE  /\ a \o b \in Seq(Sources) /\ DOMAIN (a \o b) = 1..(1 + 4)
                 /\ \A i \in 1..1 : (a \o b)[i] = a[i]
                 /\ \A i \in 1..4 : (a \o b)[1 + i] = b[i]
      <4>1. /\ a \o b \in Seq(Sources) /\ DOMAIN (a \o b) = 1..(Len(a) + Len(b))
            /\ \A i \in 1..Len(a) : (a \o b)[i] = a[i]
            /\ \A i \in 1..Len(b) : (a \o b)[Len(a) + i] = b[i]
        BY PutTogether
      <4>. QED BY <3>0, <4>1
    <3>1. /\ order \in Seq(Sources) /\ DOMAIN order = 1..(1 + 4)
          /\ \A i \in 1..1 : order[i] = <<"history">>[i]
          /\ \A i \in 1..4 : order[1 + i] = Way[i]
      BY <1>6, <3>0
    <3>2. <<"history">>[1] = "history" /\ 1 + 1 = 2 /\ 1 + 2 = 3 /\ 1 + 3 = 4 /\ 1 + 4 = 5
      OBVIOUS
    <3>. HIDE DEF order
    <3>. QED BY <1>6, <3>1, <3>2
  <2>. HIDE DEF order
  <2>3. Goes(order)
    <3>1. ASSUME NEW i \in 1..5, NEW q \in Queues \cup Folders, Precedes(order[i], q)
          PROVE  \E j \in 1..5 : i < j /\ order[j] = q
      <4>1. i \in {1, 2, 3, 4, 5}
        OBVIOUS
      <4>2. order[i] # "history" /\ order[i] \in Queues \cup Folders
        BY <1>1, <1>2, <2>2, <3>1, <4>1
      <4>3. \/ order[i] = "pending" /\ q \in {"dead", "outbox", "inbox"}
            \/ order[i] = "dead" /\ q \in {"outbox", "inbox"}
            \/ order[i] = "outbox" /\ q = "inbox"
        BY <3>1, <4>2, WayFacts
      <4>. QED BY <2>2, <4>1, <4>3
    <3>. QED BY <2>2, <3>1 DEF Goes
  <2>4. \A p \in Queues \cup Folders : \E k \in DOMAIN order : order[k] = p
    BY <1>1, <2>2
  <2>5. \A k \in DOMAIN order : order[k] = "history" => k = 1
    <3>1. \A k \in 1..5 : k \in {1, 2, 3, 4, 5}
      OBVIOUS
    <3>. QED BY <2>2, <3>1
  <2>. QED BY <2>1, <2>3, <2>4, <2>5
<1>. QED BY <1>3, <1>4, <1>5 DEF Requests

\* What a request that begins has still to read.
LEMMA RequestBegins ==
  ASSUME NEW asked \in Requests, NEW order, order = ReadingOrder(asked)
  PROVE  Goes(order) /\ Queues \cup Folders \subseteq {order[k] : k \in DOMAIN order}
BY OrderFacts

LEMMA ConversationsNumbers ==
  /\ TurnCount \in Nat /\ PageLimit \in Nat \ {0} /\ MaxMoves \in Nat /\ IsFiniteSet(Turns)
  /\ \A t \in Turns : t \in Nat /\ t >= 1
<1>1. IsFiniteSet(Turns)
  BY ConversationsAssumption, FS_Interval DEF Turns
<1>. QED BY <1>1, ConversationsAssumption DEF Turns

LEMMA ConversationsBegin == ConversationsInit => ConversationsInv
<1>. SUFFICES ASSUME ConversationsInit PROVE ConversationsInv
  OBVIOUS
<1>1. /\ form \in [Turns -> {"text", "ack", "signed"}]
      /\ lies \in [Turns -> {{}, {"pending"}, {"dead"}, {"pending", "outbox"}, {"inbox"}}]
      /\ halfFile = {} /\ filed = {} /\ request \in Requests /\ toRead = ReadingOrder(request) /\ found = {}
      /\ pages = <<>> /\ moves = 0 /\ moved = {}
  BY DEF ConversationsInit
<1>2. Goes(toRead) /\ Queues \cup Folders \subseteq Unread
  BY <1>1, RequestBegins DEF Unread
<1>3. lies \in [Turns -> SUBSET (Queues \cup Folders)]
  <2>1. {{}, {"pending"}, {"dead"}, {"pending", "outbox"}, {"inbox"}} \subseteq SUBSET (Queues \cup Folders)
    BY DEF Queues, Folders
  <2>. QED BY <1>1, <2>1
<1>4. ConversationsTypeOK
  <2>1. moves \in 0..MaxMoves
    BY <1>1, ConversationsNumbers
  <2>2. toRead \in Seq(Sources)
    BY <1>2 DEF Goes
  <2>. QED BY <1>1, <1>3, <2>1, <2>2 DEF ConversationsTypeOK
<1>5. Onward
  BY <1>1, <1>2, OrderFacts DEF Onward
<1>6. Paged
  <2>1. pages \in Seq(SUBSET Turns) /\ Len(pages) = 0
    BY <1>1, EmptySeq
  <2>. QED BY <2>1 DEF Paged
<1>7. ASSUME NEW t \in Turns PROVE Complete(t) /\ Honest(t) /\ Remembered(t) /\ Once(t)
  <2>1. Relevant(t) \subseteq Unread
    BY <1>2, <1>3 DEF Relevant
  <2>2. t \notin Listed
    BY <1>1 DEF Listed
  <2>. QED BY <1>1, <2>1, <2>2 DEF Complete, Honest, Remembered, Once
<1>. QED BY <1>1, <1>4, <1>5, <1>6, <1>7 DEF ConversationsInv

\* The other processes move one message on.
LEMMA MovesKeep ==
  ASSUME ConversationsInv, UNCHANGED <<form, answerVars>>, moves' \in 0..MaxMoves,
         lies' \in [Turns -> SUBSET (Queues \cup Folders)],
         halfFile' \subseteq moved', filed' \subseteq Turns, moved' \subseteq Turns, moved \subseteq moved',
         \A u \in Turns : u \notin moved' =>
            /\ Shown(u)' = Shown(u) /\ Remembered(u)'
            /\ Shown(u) /\ Relevant(u) \subseteq Unread => Relevant(u)' \subseteq Unread
  PROVE  ConversationsInv'
<1>1. ConversationsTypeOK /\ Onward /\ Paged
  BY DEF ConversationsInv
<1>2. form' = form /\ request' = request /\ toRead' = toRead /\ found' = found /\ pages' = pages
  BY DEF answerVars
<1>3. Unread' = Unread /\ Listed' = Listed
  BY <1>2 DEF Unread, Listed
<1>4. ConversationsTypeOK'
  <2>1. halfFile' \subseteq Turns
    OBVIOUS
  <2>. QED BY <1>1, <1>2, <2>1 DEF ConversationsTypeOK
<1>5. Onward'
  BY <1>1, <1>2 DEF Onward, Goes
<1>6. ASSUME NEW t \in Turns, Undisturbed(t)' PROVE Undisturbed(t) /\ Shown(t)' = Shown(t) /\ Count(t)' = Count(t)
  <2>1. \A u \in Turns : u <= t => u \notin moved'
    BY <1>6 DEF Undisturbed
  <2>2. t \notin moved'
    BY <2>1, ConversationsNumbers
  <2>3. {u \in Turns : u <= t /\ Shown(u)'} = {u \in Turns : u <= t /\ Shown(u)}
    BY <2>1
  <2>4. Count(t)' = Cardinality({u \in Turns : u <= t /\ Shown(u)'})
    BY DEF Count
  <2>5. Count(t)' = Count(t)
    BY <2>3, <2>4 DEF Count
  <2>. QED BY <2>1, <2>2, <2>5 DEF Undisturbed
<1>7. Paged'
  BY <1>1, <1>2, <1>6 DEF Paged
<1>8. ASSUME NEW t \in Turns PROVE Complete(t)' /\ Honest(t)' /\ Remembered(t)' /\ Once(t)'
  <2>1. Complete(t) /\ Honest(t) /\ Once(t)
    BY DEF ConversationsInv
  <2>2. Once(t)'
    BY <1>2, <2>1 DEF Once
  <2>3. CASE t \in moved'
    BY <2>2, <2>3 DEF Complete, Honest, Remembered
  <2>4. CASE t \notin moved'
    <3>1. Shown(t)' = Shown(t) /\ Remembered(t)' /\ t \notin moved
      BY <2>4
    <3>2. Shown(t) /\ Relevant(t) \subseteq Unread => Relevant(t)' \subseteq Unread
      BY <2>4
    <3>3. Complete(t)'
      BY <1>3, <2>1, <3>1, <3>2 DEF Complete
    <3>4. Honest(t)'
      BY <1>2, <1>3, <2>1, <3>1 DEF Honest
    <3>. QED BY <2>2, <3>1, <3>3, <3>4
  <2>. QED BY <2>3, <2>4
<1>. QED BY <1>4, <1>5, <1>7, <1>8 DEF ConversationsInv

\* What a message shows, when it is not the one that moved.
LEMMA OthersStay ==
  ASSUME ConversationsInv, UNCHANGED form, NEW u \in Turns, lies'[u] = lies[u], u \in filed' => u \in filed,
         u \notin moved
  PROVE  Shown(u)' = Shown(u) /\ Remembered(u)' /\ Relevant(u)' = Relevant(u)
<1>1. Remembered(u)
  BY DEF ConversationsInv
<1>2. Relevant(u)' = Relevant(u)
  BY DEF Relevant
<1>3. Shown(u)' = Shown(u)
  BY DEF Shown
<1>. QED BY <1>1, <1>2, <1>3 DEF Remembered

LEMMA AppearKeeps ==
  ASSUME ConversationsInv, NEW t \in Turns, NEW p \in Queues \cup Folders, Appear(t, p) PROVE ConversationsInv'
<1>0. ConversationsTypeOK /\ Onward /\ halfFile \subseteq moved /\ Remembered(t)
  BY DEF ConversationsInv
<1>1. /\ moves < MaxMoves /\ moves' = moves + 1 /\ UNCHANGED answerVars /\ p \notin lies[t]
      /\ lies' = [lies EXCEPT ![t] = lies[t] \cup {p}] /\ UNCHANGED <<form, halfFile, filed>>
      /\ moved' = IF lies[t] = {} \/ form[t] = "ack" \/ \E q \in lies[t] : Precedes(p, q)
                  THEN moved \cup {t} ELSE moved
  BY DEF Appear, Move
<1>2. moves' \in 0..MaxMoves /\ moved' \subseteq Turns /\ moved \subseteq moved'
  BY <1>0, <1>1, ConversationsNumbers DEF ConversationsTypeOK
<1>3. /\ lies' \in [Turns -> SUBSET (Queues \cup Folders)] /\ lies'[t] = lies[t] \cup {p}
      /\ \A u \in Turns : u # t => lies'[u] = lies[u]
  BY <1>0, <1>1 DEF ConversationsTypeOK
<1>4. ASSUME NEW u \in Turns, u \notin moved'
      PROVE  /\ Shown(u)' = Shown(u) /\ Remembered(u)'
             /\ Shown(u) /\ Relevant(u) \subseteq Unread => Relevant(u)' \subseteq Unread
  <2>1. CASE u # t
    BY <1>1, <1>2, <1>3, <1>4, <2>1, OthersStay
  <2>2. CASE u = t
    <3>1. lies[t] # {} /\ form[t] # "ack" /\ \A q \in lies[t] : ~Precedes(p, q)
      BY <1>1, <1>4, <2>2
    <3>2. Shown(t)' = Shown(t) /\ Remembered(t)'
      BY <1>0, <1>1, <1>2, <1>3, <1>4, <2>2, <3>1 DEF Shown, Remembered
    <3>3. ASSUME Shown(t), Relevant(t) \subseteq Unread PROVE Relevant(t)' \subseteq Unread
      <4>1. form[t] = "text" /\ Relevant(t) = lies[t] /\ Relevant(t)' = lies[t] \cup {p}
        BY <1>1, <1>3, <3>1, <3>3 DEF Shown, Relevant
      <4>2. PICK q \in lies[t] : TRUE
        BY <3>1
      <4>3. q \in Queues \cup Folders /\ q # p /\ ~Precedes(p, q)
        BY <1>0, <1>1, <3>1, <4>2 DEF ConversationsTypeOK
      <4>4. Precedes(q, p)
        BY <4>3, WayFacts
      <4>5. PICK i \in DOMAIN toRead : toRead[i] = q
        BY <3>3, <4>1, <4>2 DEF Unread
      <4>6. \E j \in DOMAIN toRead : i < j /\ toRead[j] = p
        BY <1>0, <4>4, <4>5 DEF Onward, Goes
      <4>7. p \in Unread
        BY <4>6 DEF Unread
      <4>. QED BY <3>3, <4>1, <4>7
    <3>. QED BY <2>2, <3>2, <3>3
  <2>. QED BY <2>1, <2>2
<1>5. halfFile' \subseteq moved' /\ filed' \subseteq Turns
  BY <1>0, <1>1, <1>2 DEF ConversationsTypeOK
<1>. QED BY <1>1, <1>2, <1>3, <1>4, <1>5, MovesKeep

LEMMA DisappearsKeeps ==
  ASSUME ConversationsInv, NEW t \in Turns, NEW p \in Queues \cup Folders, Disappears(t, p) PROVE ConversationsInv'
<1>0. ConversationsTypeOK /\ halfFile \subseteq moved /\ Remembered(t)
  BY DEF ConversationsInv
<1>1. /\ moves < MaxMoves /\ moves' = moves + 1 /\ UNCHANGED answerVars /\ p \in lies[t]
      /\ lies' = [lies EXCEPT ![t] = lies[t] \ {p}] /\ UNCHANGED <<form, halfFile, filed>>
      /\ moved' = IF lies[t] = {p} \/ form[t] = "ack" THEN moved \cup {t} ELSE moved
  BY DEF Disappears, Move
<1>2. moves' \in 0..MaxMoves /\ moved' \subseteq Turns /\ moved \subseteq moved'
  BY <1>0, <1>1, ConversationsNumbers DEF ConversationsTypeOK
<1>3. /\ lies' \in [Turns -> SUBSET (Queues \cup Folders)] /\ lies'[t] = lies[t] \ {p}
      /\ \A u \in Turns : u # t => lies'[u] = lies[u]
  BY <1>0, <1>1 DEF ConversationsTypeOK
<1>4. ASSUME NEW u \in Turns, u \notin moved'
      PROVE  /\ Shown(u)' = Shown(u) /\ Remembered(u)'
             /\ Shown(u) /\ Relevant(u) \subseteq Unread => Relevant(u)' \subseteq Unread
  <2>1. CASE u # t
    BY <1>1, <1>2, <1>3, <1>4, <2>1, OthersStay
  <2>2. CASE u = t
    <3>1. lies[t] # {p} /\ form[t] # "ack"
      BY <1>1, <1>4, <2>2
    <3>2. lies[t] # {} /\ lies'[t] # {}
      BY <1>1, <1>3, <3>1
    <3>3. Shown(t)' = Shown(t) /\ Remembered(t)'
      BY <1>0, <1>1, <1>2, <1>4, <2>2, <3>1, <3>2 DEF Shown, Remembered
    <3>4. Relevant(t)' \subseteq Relevant(t)
      BY <1>1, <1>3 DEF Relevant
    <3>. QED BY <2>2, <3>3, <3>4
  <2>. QED BY <2>1, <2>2
<1>5. halfFile' \subseteq moved' /\ filed' \subseteq Turns
  BY <1>0, <1>1, <1>2 DEF ConversationsTypeOK
<1>. QED BY <1>1, <1>2, <1>3, <1>4, <1>5, MovesKeep

LEMMA RewrittenKeeps == ASSUME ConversationsInv, NEW t \in Turns, Rewritten(t) PROVE ConversationsInv'
<1>0. ConversationsTypeOK /\ halfFile \subseteq moved
  BY DEF ConversationsInv
<1>1. /\ moves < MaxMoves /\ moves' = moves + 1 /\ UNCHANGED answerVars
      /\ halfFile' = SymDiff(halfFile, {t}) /\ moved' = moved \cup {t} /\ UNCHANGED <<form, lies, filed>>
  BY DEF Rewritten, Move
<1>2. moves' \in 0..MaxMoves /\ moved' \subseteq Turns /\ moved \subseteq moved'
  BY <1>0, <1>1, ConversationsNumbers DEF ConversationsTypeOK
<1>3. halfFile' \subseteq moved' /\ filed' \subseteq Turns /\ lies' \in [Turns -> SUBSET (Queues \cup Folders)]
  BY <1>0, <1>1 DEF ConversationsTypeOK, SymDiff
<1>4. ASSUME NEW u \in Turns, u \notin moved'
      PROVE  /\ Shown(u)' = Shown(u) /\ Remembered(u)'
             /\ Shown(u) /\ Relevant(u) \subseteq Unread => Relevant(u)' \subseteq Unread
  BY <1>1, <1>2, <1>4, OthersStay
<1>. QED BY <1>1, <1>2, <1>3, <1>4, MovesKeep

LEMMA FiledKeeps == ASSUME ConversationsInv, NEW t \in Turns, Filed(t) PROVE ConversationsInv'
<1>0. ConversationsTypeOK /\ halfFile \subseteq moved
  BY DEF ConversationsInv
<1>1. /\ moves < MaxMoves /\ moves' = moves + 1 /\ UNCHANGED answerVars /\ lies[t] # {}
      /\ filed' = filed \cup {t} /\ UNCHANGED <<form, lies, halfFile>>
      /\ moved' = IF form[t] = "text" THEN moved ELSE moved \cup {t}
  BY DEF Filed, Move
<1>2. moves' \in 0..MaxMoves /\ moved' \subseteq Turns /\ moved \subseteq moved'
  BY <1>0, <1>1, ConversationsNumbers DEF ConversationsTypeOK
<1>3. halfFile' \subseteq moved' /\ filed' \subseteq Turns /\ lies' \in [Turns -> SUBSET (Queues \cup Folders)]
  BY <1>0, <1>1 DEF ConversationsTypeOK
<1>4. ASSUME NEW u \in Turns, u \notin moved'
      PROVE  /\ Shown(u)' = Shown(u) /\ Remembered(u)'
             /\ Shown(u) /\ Relevant(u) \subseteq Unread => Relevant(u)' \subseteq Unread
  <2>1. CASE u # t
    BY <1>1, <1>2, <1>4, <2>1, OthersStay
  <2>2. CASE u = t
    <3>1. form[t] = "text" /\ form' = form /\ lies' = lies
      BY <1>1, <1>4, <2>2
    <3>2. Shown(t)' = Shown(t) /\ Relevant(t)' = Relevant(t)
      BY <3>1 DEF Shown, Relevant
    <3>. QED BY <1>1, <2>2, <3>1, <3>2 DEF Remembered
  <2>. QED BY <2>1, <2>2
<1>. QED BY <1>1, <1>2, <1>3, <1>4, MovesKeep

\* A file that a request reads is of a message that it shows, once.
LEMMA ListsFacts ==
  ASSUME ConversationsInv, NEW t \in Turns, NEW p \in Sources, Lists(t, p),
         p = "history" /\ request = "messages" => found = {}
  PROVE  /\ t \notin moved /\ request = "messages" => Shown(t)
         /\ \A q \in Sources : /\ <<t, q>> \in found
                               /\ request = "messages" \/ {p, q} \subseteq Folders
                               => p = q
<1>1. /\ ConversationsTypeOK /\ Remembered(t)
      /\ Sources = {"pending", "dead", "outbox", "inbox", "history"} /\ Queues = {"pending", "dead"}
      /\ Folders = {"outbox", "inbox"} /\ request \in {"threads", "detail", "messages"}
  BY DEF ConversationsInv, ConversationsTypeOK, Sources, Queues, Folders, Requests
<1>2. CASE p = "history"
  <2>1. t \in filed
    BY <1>2 DEF Lists
  <2>2. t \notin moved => Shown(t)
    BY <1>1, <2>1 DEF Remembered, Shown
  <2>. QED BY <1>1, <1>2, <2>2
<1>3. CASE p # "history" /\ request = "threads"
  <2>1. Parses(t, p) /\ OnThreads(t, p)
    BY <1>3 DEF Lists
  <2>2. p \in Folders => \A q \in Folders : <<t, q>> \notin found
    BY <2>1 DEF OnThreads, KnownFrom
  <2>. QED BY <1>3, <2>2
<1>4. CASE p # "history" /\ request = "detail"
  <2>1. Parses(t, p) /\ OnDetail(t, p)
    BY <1>4 DEF Lists
  <2>2. p \in Folders => \A q \in Sources : <<t, q>> \notin found
    BY <2>1 DEF OnDetail, KnownFrom
  <2>. QED BY <1>4, <2>2
<1>5. CASE p # "history" /\ request = "messages"
  <2>1. Parses(t, p) /\ OnMessages(t, p)
    BY <1>5 DEF Lists
  <2>2. \A q \in Sources : <<t, q>> \notin found
    BY <2>1 DEF OnMessages, KnownFrom
  <2>3. p \in lies[t] /\ form[t] # "signed" /\ (form[t] = "ack" => p \in Queues)
    BY <1>1, <1>5, <2>1 DEF Parses, OnMessages
  <2>4. form[t] \in {"text", "ack", "signed"}
    BY <1>1 DEF ConversationsTypeOK
  <2>5. Shown(t)
    BY <2>3, <2>4 DEF Shown
  <2>. QED BY <2>2, <2>5
<1>. QED BY <1>1, <1>2, <1>3, <1>4, <1>5

\* A relevant file is listed, unless its message is already.
LEMMA RelevantListed ==
  ASSUME ConversationsInv, NEW t \in Turns, NEW p \in Relevant(t), Shown(t), t \notin moved, t \notin Listed
  PROVE  p \in Sources /\ Lists(t, p)
<1>1. /\ ConversationsTypeOK /\ halfFile \subseteq moved /\ p \in lies[t] /\ p \in Queues \cup Folders
      /\ form[t] \in {"text", "ack"} /\ (form[t] = "ack" => p \in Queues)
  BY DEF ConversationsInv, ConversationsTypeOK, Shown, Relevant
<1>2. Parses(t, p)
  BY <1>1 DEF Parses
<1>3. \A places : ~KnownFrom(t, places)
  <2>1. \A q : <<t, q>>[1] = t
    OBVIOUS
  <2>2. \A q : <<t, q>> \notin found
    BY <2>1 DEF Listed
  <2>. QED BY <2>2 DEF KnownFrom
<1>4. p # "history" /\ p \in Sources /\ (p \in Folders => form[t] # "ack")
  BY <1>1 DEF Queues, Folders, Sources
<1>5. OnThreads(t, p) /\ OnDetail(t, p) /\ OnMessages(t, p)
  BY <1>3, <1>4 DEF OnThreads, OnDetail, OnMessages
<1>6. request = "threads" \/ request = "detail" \/ request = "messages"
  BY <1>1 DEF ConversationsTypeOK, Requests
<1>7. CASE request = "threads"
  BY <1>2, <1>4, <1>5, <1>7 DEF Lists
<1>8. CASE request = "detail"
  BY <1>2, <1>4, <1>5, <1>8 DEF Lists
<1>9. CASE request = "messages"
  BY <1>2, <1>4, <1>5, <1>9 DEF Lists
<1>. QED BY <1>4, <1>6, <1>7, <1>8, <1>9

LEMMA ReadPlaceKeeps == ASSUME ConversationsInv, ReadPlace PROVE ConversationsInv'
<1>0. ConversationsTypeOK /\ Onward /\ Paged /\ halfFile \subseteq moved /\ Goes(toRead)
  BY DEF ConversationsInv, Onward
<1>1. PICK p \in Sources : /\ p = Head(toRead) /\ toRead \in Seq(Sources) /\ toRead # <<>>
  BY <1>0, HeadTailProperties DEF ReadPlace, Goes
<1>2. /\ toRead' = Tail(toRead) /\ found' = found \cup ({t \in Turns : Lists(t, p)} \X {p})
      /\ UNCHANGED <<form, lies, halfFile, filed, request, pages, moves, moved>>
  BY <1>1 DEF ReadPlace, filesVars
<1>3. /\ toRead' \in Seq(Sources) /\ Len(toRead') = Len(toRead) - 1 /\ Len(toRead) \in Nat /\ Len(toRead) >= 1
      /\ DOMAIN toRead = 1..Len(toRead) /\ DOMAIN toRead' = 1..Len(toRead')
      /\ \A k \in DOMAIN toRead' : toRead'[k] = toRead[k + 1] /\ toRead[1] = p
  <2>1. /\ Tail(toRead) \in Seq(Sources) /\ Len(Tail(toRead)) = Len(toRead) - 1
        /\ \A k \in 1..Len(Tail(toRead)) : Tail(toRead)[k] = toRead[k + 1]
    BY <1>1, HeadTailProperties
  <2>2. Len(toRead) \in Nat /\ Len(toRead) >= 1 /\ DOMAIN toRead = 1..Len(toRead)
    BY <1>1, LenProperties, EmptySeq
  <2>3. DOMAIN Tail(toRead) = 1..Len(Tail(toRead))
    BY <2>1, LenProperties
  <2>4. toRead[1] = p
    BY <1>1
  <2>. QED BY <1>2, <2>1, <2>2, <2>3, <2>4
<1>4. toRead[1] = p
  BY <1>1
<1>5. ASSUME NEW q \in Unread, q # p PROVE q \in Unread'
  <2>1. PICK k \in DOMAIN toRead : toRead[k] = q
    BY DEF Unread
  <2>2. k # 1
    BY <1>4, <1>5, <2>1
  <2>3. k - 1 \in DOMAIN toRead' /\ k = (k - 1) + 1
    BY <1>3, <2>1, <2>2
  <2>4. toRead'[k - 1] = q
    BY <1>3, <2>1, <2>3
  <2>. QED BY <2>3, <2>4 DEF Unread
<1>6. Goes(toRead')
  <2>1. ASSUME NEW i \in DOMAIN toRead', NEW q \in Queues \cup Folders, Precedes(toRead'[i], q)
        PROVE  \E j \in DOMAIN toRead' : i < j /\ toRead'[j] = q
    <3>1. i + 1 \in DOMAIN toRead /\ toRead'[i] = toRead[i + 1] /\ i \in Nat /\ i >= 1
      BY <1>3
    <3>2. PICK j \in DOMAIN toRead : i + 1 < j /\ toRead[j] = q
      BY <1>0, <2>1, <3>1 DEF Goes
    <3>3. j - 1 \in DOMAIN toRead' /\ j = (j - 1) + 1 /\ i < j - 1
      BY <1>3, <3>1, <3>2
    <3>4. toRead'[j - 1] = q
      BY <1>3, <3>2, <3>3
    <3>. QED BY <3>3, <3>4
  <2>. QED BY <1>3, <2>1 DEF Goes
<1>7. request = "messages" => \A k \in DOMAIN toRead' : toRead'[k] # "history"
  <2>1. ASSUME request = "messages", NEW k \in DOMAIN toRead', toRead'[k] = "history" PROVE FALSE
    <3>1. k + 1 \in DOMAIN toRead /\ toRead[k + 1] = "history" /\ k + 1 # 1
      BY <1>3, <2>1
    <3>. QED BY <1>0, <2>1, <3>1 DEF Onward
  <2>. QED BY <2>1
<1>8. Onward'
  <2>1. Goes(toRead)'
    BY <1>6 DEF Goes
  <2>. QED BY <1>2, <1>7, <2>1 DEF Onward
<1>9. p = "history" /\ request = "messages" => found = {}
  <2>1. 1 \in DOMAIN toRead
    BY <1>3
  <2>. QED BY <1>0, <1>4, <2>1 DEF Onward
<1>10. ConversationsTypeOK'
  <2>1. found' \subseteq Turns \X Sources
    BY <1>0, <1>2 DEF ConversationsTypeOK
  <2>. QED BY <1>0, <1>2, <1>3, <2>1 DEF ConversationsTypeOK
<1>11. Paged'
  <2>1. \A t \in Turns : Undisturbed(t)' = Undisturbed(t) /\ Shown(t)' = Shown(t) /\ Count(t)' = Count(t)
    BY <1>2 DEF Undisturbed, Shown, Count
  <2>. QED BY <1>0, <1>2, <2>1 DEF Paged
<1>12. \A t \in Turns : t \in Listed' <=> t \in Listed \/ Lists(t, p)
  <2>1. ASSUME NEW t \in Turns PROVE t \in Listed' <=> t \in Listed \/ Lists(t, p)
    <3>1. t \in Listed <=> \E line \in found : line[1] = t
      BY DEF Listed
    <3>2. t \in Listed' <=> \E line \in found' : line[1] = t
      BY DEF Listed
    <3>3. Lists(t, p) => <<t, p>> \in found' /\ <<t, p>>[1] = t
      BY <1>2
    <3>4. \A line \in found' : line \in found \/ (line[1] \in Turns /\ Lists(line[1], p))
      BY <1>2
    <3>5. found \subseteq found'
      BY <1>2
    <3>. QED BY <3>1, <3>2, <3>3, <3>4, <3>5
  <2>. QED BY <2>1
<1>13. ASSUME NEW t \in Turns PROVE Complete(t)' /\ Honest(t)' /\ Remembered(t)' /\ Once(t)'
  <2>1. Complete(t) /\ Honest(t) /\ Remembered(t) /\ Once(t)
    BY DEF ConversationsInv
  <2>2. Shown(t)' = Shown(t) /\ Relevant(t)' = Relevant(t) /\ Remembered(t)'
    BY <1>2, <2>1 DEF Shown, Relevant, Remembered
  <2>3. Complete(t)'
    <3>1. ASSUME t \notin moved, Shown(t), t \notin Listed' PROVE Relevant(t) \subseteq Unread'
      <4>1. t \notin Listed /\ ~Lists(t, p)
        BY <1>12, <3>1
      <4>2. p \notin Relevant(t)
        BY <3>1, <4>1, RelevantListed
      <4>3. Relevant(t) \subseteq Unread
        BY <2>1, <3>1, <4>1 DEF Complete
      <4>. QED BY <1>5, <4>2, <4>3
    <3>. QED BY <1>2, <2>2, <3>1 DEF Complete
  <2>4. Honest(t)'
    <3>1. ASSUME request = "messages", t \notin moved, t \in Listed' PROVE Shown(t)
      <4>1. CASE t \in Listed
        BY <2>1, <3>1, <4>1 DEF Honest
      <4>2. CASE Lists(t, p)
        BY <1>9, <3>1, <4>2, ListsFacts
      <4>. QED BY <1>12, <3>1, <4>1, <4>2
    <3>. QED BY <1>2, <2>2, <3>1 DEF Honest
  <2>5. Once(t)'
    <3>1. ASSUME NEW q \in Sources, NEW r \in Sources, <<t, q>> \in found', <<t, r>> \in found',
                 request = "messages" \/ {q, r} \subseteq Folders
          PROVE  q = r
      <4>1. \A s \in Sources : <<t, s>> \in found' => <<t, s>> \in found \/ (s = p /\ Lists(t, p))
        BY <1>2
      <4>2. CASE <<t, q>> \in found /\ <<t, r>> \in found
        BY <2>1, <3>1, <4>2 DEF Once
      <4>3. CASE q = p /\ r = p
        BY <4>3
      <4>4. CASE q = p /\ Lists(t, p) /\ <<t, r>> \in found
        <5>1. request = "messages" \/ {p, r} \subseteq Folders
          BY <3>1, <4>4
        <5>. QED BY <1>9, <4>4, <5>1, ListsFacts
      <4>5. CASE r = p /\ Lists(t, p) /\ <<t, q>> \in found
        <5>1. request = "messages" \/ {p, q} \subseteq Folders
          BY <3>1, <4>5
        <5>. QED BY <1>9, <4>5, <5>1, ListsFacts
      <4>. QED BY <3>1, <4>1, <4>2, <4>3, <4>4, <4>5
    <3>. QED BY <1>2, <3>1 DEF Once
  <2>. QED BY <2>2, <2>3, <2>4, <2>5
<1>14. halfFile' \subseteq moved'
  BY <1>0, <1>2
<1>. QED BY <1>8, <1>10, <1>11, <1>13, <1>14 DEF ConversationsInv

\* The answer that lists the messages: as far as nothing was disturbed, it has what is
\* to be shown, in its places.
LEMMA ListedIsShown ==
  ASSUME ConversationsInv, request = "messages", toRead = <<>>, NEW t \in Turns, Undisturbed(t)
  PROVE  (t \in Listed <=> Shown(t)) /\ Rank(t) = Count(t)
<1>1. Unread = {}
  BY DEF Unread
<1>2. Listed \subseteq Turns
  <2>1. \A line \in found : line[1] \in Turns
    BY DEF ConversationsInv, ConversationsTypeOK
  <2>. QED BY <2>1 DEF Listed
<1>3. ASSUME NEW u \in Turns, u <= t PROVE u \in Listed <=> Shown(u)
  <2>1. u \notin moved /\ Complete(u) /\ Honest(u)
    BY <1>3 DEF Undisturbed, ConversationsInv
  <2>2. Shown(u) => Relevant(u) # {}
    BY DEF Shown, Relevant
  <2>3. Shown(u) => u \in Listed
    BY <1>1, <2>1, <2>2 DEF Complete
  <2>. QED BY <2>1, <2>3 DEF Honest
<1>4. {u \in Listed : u <= t} = {u \in Turns : u <= t /\ Shown(u)}
  BY <1>2, <1>3
<1>5. t <= t
  BY ConversationsNumbers
<1>. QED BY <1>3, <1>4, <1>5 DEF Rank, Count

LEMMA AnswerKeeps == ASSUME ConversationsInv, Answer PROVE ConversationsInv'
<1>0. ConversationsTypeOK /\ Onward /\ Paged /\ halfFile \subseteq moved /\ pages \in Seq(SUBSET Turns)
  BY DEF ConversationsInv, Paged
<1>1. /\ request = "messages" /\ toRead = <<>> /\ Len(pages) < 2
      /\ pages' = Append(pages, Page(PageLimit * Len(pages)))
      /\ UNCHANGED <<form, lies, halfFile, filed, request, moves, moved>>
      /\ pages = <<>> => toRead' = ReadingOrder(request) /\ found' = {}
      /\ pages # <<>> => toRead' = toRead /\ found' = found
  BY DEF Answer, filesVars
<1>2. Listed \subseteq Turns
  <2>1. \A line \in found : line[1] \in Turns
    BY <1>0 DEF ConversationsTypeOK
  <2>. QED BY <2>1 DEF Listed
<1>3. Len(pages) \in Nat /\ (pages # <<>> => Len(pages) # 0)
  BY <1>0, LenProperties, EmptySeq
<1>4. Page(PageLimit * Len(pages)) \in SUBSET Turns
  BY <1>2 DEF Page
<1>5. /\ pages' \in Seq(SUBSET Turns) /\ Len(pages') = Len(pages) + 1
      /\ \A i \in 1..Len(pages) : pages'[i] = pages[i]
      /\ pages'[Len(pages) + 1] = Page(PageLimit * Len(pages))
  BY <1>0, <1>1, <1>4, AppendProperties
<1>6. ASSUME NEW t \in Turns
      PROVE  /\ Undisturbed(t)' = Undisturbed(t) /\ Shown(t)' = Shown(t) /\ Count(t)' = Count(t)
             /\ Relevant(t)' = Relevant(t) /\ Remembered(t)' = Remembered(t)
  BY <1>1 DEF Undisturbed, Shown, Count, Relevant, Remembered
<1>7. Paged'
  <2>0. ASSUME NEW n \in Nat, n < 2 PROVE n = 0 \/ n = 1
    BY <2>0
  <2>1. CASE Len(pages) = 0
    <3>1. PageLimit * Len(pages) = 0 /\ (0 + 1)..(0 + PageLimit) = 1..PageLimit
      BY <2>1, ConversationsNumbers
    <3>2. pages' \in Seq(SUBSET Turns) /\ Len(pages') = 1 /\ pages'[1] = Page(0)
      BY <1>5, <2>1, <3>1
    <3>3. \A t \in Turns : Undisturbed(t) => (t \in Page(0) <=> Shown(t) /\ Count(t) \in 1..PageLimit)
      BY <1>1, <3>1, ListedIsShown DEF Page
    <3>. QED BY <1>6, <3>2, <3>3 DEF Paged
  <2>2. CASE Len(pages) = 1
    <3>1. /\ PageLimit * Len(pages) = PageLimit
          /\ (PageLimit + 1)..(PageLimit + PageLimit) = (PageLimit + 1)..(2 * PageLimit)
      BY <2>2, ConversationsNumbers
    <3>2. pages' \in Seq(SUBSET Turns) /\ Len(pages') = 2 /\ pages'[1] = pages[1] /\ pages'[2] = Page(PageLimit)
      BY <1>5, <2>2, <3>1
    <3>3. \A t \in Turns : Undisturbed(t) =>
             (t \in Page(PageLimit) <=> Shown(t) /\ Count(t) \in (PageLimit + 1)..(2 * PageLimit))
      BY <1>1, <3>1, ListedIsShown DEF Page
    <3>4. \A t \in Turns : Undisturbed(t) => (t \in pages[1] <=> Shown(t) /\ Count(t) \in 1..PageLimit)
      BY <1>0, <2>2 DEF Paged
    <3>. QED BY <1>6, <3>2, <3>3, <3>4 DEF Paged
  <2>3. Len(pages) < 2
    BY <1>1
  <2>. QED BY <1>3, <2>0, <2>1, <2>2, <2>3
<1>8. CASE pages # <<>>
  <2>1. Onward'
    BY <1>0, <1>1, <1>8 DEF Onward, Goes
  <2>2. ConversationsTypeOK' /\ halfFile' \subseteq moved'
    BY <1>0, <1>1, <1>8 DEF ConversationsTypeOK
  <2>3. ASSUME NEW t \in Turns PROVE Complete(t)' /\ Honest(t)' /\ Remembered(t)' /\ Once(t)'
    <3>1. Complete(t) /\ Honest(t) /\ Remembered(t) /\ Once(t)
      BY DEF ConversationsInv
    <3>2. Unread' = Unread /\ Listed' = Listed
      BY <1>1, <1>8 DEF Unread, Listed
    <3>3. Complete(t)'
      BY <1>1, <1>6, <3>1, <3>2 DEF Complete
    <3>4. Honest(t)'
      BY <1>1, <1>6, <3>1, <3>2 DEF Honest
    <3>5. Once(t)'
      BY <1>1, <1>8, <3>1 DEF Once
    <3>. QED BY <1>6, <3>1, <3>3, <3>4, <3>5
  <2>. QED BY <1>7, <2>1, <2>2, <2>3 DEF ConversationsInv
<1>9. CASE pages = <<>>
  <2>1. PICK order : order = ReadingOrder(request)
    OBVIOUS
  <2>2. toRead' = order /\ found' = {} /\ request \in Requests
    BY <1>0, <1>1, <1>9, <2>1 DEF ConversationsTypeOK
  <2>3. Goes(order) /\ Queues \cup Folders \subseteq {order[k] : k \in DOMAIN order}
    BY <2>1, <2>2, RequestBegins
  <2>4. request = "messages" => \A k \in DOMAIN order : order[k] = "history" => k = 1
    BY <2>1, <2>2, OrderFacts
  <2>5. Onward'
    BY <1>1, <2>2, <2>3, <2>4 DEF Onward, Goes
  <2>6. ConversationsTypeOK' /\ halfFile' \subseteq moved'
    BY <1>0, <1>1, <2>2, <2>3 DEF ConversationsTypeOK, Goes
  <2>7. ASSUME NEW t \in Turns PROVE Complete(t)' /\ Honest(t)' /\ Remembered(t)' /\ Once(t)'
    <3>1. Remembered(t)'
      <4>1. Remembered(t)
        BY DEF ConversationsInv
      <4>. QED BY <1>6, <4>1
    <3>2. Relevant(t) \subseteq Unread'
      BY <1>0, <2>2, <2>3 DEF Unread, Relevant, ConversationsTypeOK
    <3>3. Listed' = {}
      BY <2>2 DEF Listed
    <3>4. Complete(t)'
      BY <1>6, <3>2 DEF Complete
    <3>5. Honest(t)' /\ Once(t)'
      BY <2>2, <3>3 DEF Honest, Once
    <3>. QED BY <3>1, <3>4, <3>5
  <2>. QED BY <1>7, <2>5, <2>6, <2>7 DEF ConversationsInv
<1>. QED BY <1>8, <1>9

LEMMA ConversationsStep == ConversationsInv /\ [ConversationsNext]_conversationsVars => ConversationsInv'
<1>. SUFFICES ASSUME ConversationsInv, [ConversationsNext]_conversationsVars PROVE ConversationsInv'
  OBVIOUS
<1>1. CASE UNCHANGED conversationsVars
  <2>1. /\ UNCHANGED <<form, lies, halfFile, filed, request, toRead, found, pages, moves, moved>>
        /\ UNCHANGED <<form, answerVars>> /\ ConversationsTypeOK /\ halfFile \subseteq moved
    BY <1>1 DEF conversationsVars, filesVars, answerVars, ConversationsInv
  <2>2. ASSUME NEW u \in Turns, u \notin moved'
        PROVE  /\ Shown(u)' = Shown(u) /\ Remembered(u)'
               /\ Shown(u) /\ Relevant(u) \subseteq Unread => Relevant(u)' \subseteq Unread
    BY <2>1, <2>2, OthersStay
  <2>. QED BY <2>1, <2>2, MovesKeep DEF ConversationsTypeOK
<1>2. CASE ReadPlace
  BY <1>2, ReadPlaceKeeps
<1>3. CASE Answer
  BY <1>3, AnswerKeeps
<1>4. ASSUME NEW t \in Turns,
             \/ Enqueued(t) \/ Arrives(t) \/ HeldForAck(t) \/ RailQueues(t) \/ DeadLetters(t) \/ Requeued(t)
      PROVE  ConversationsInv'
  <2>1. \E p \in Queues \cup Folders : Appear(t, p)
    BY <1>4 DEF Enqueued, Arrives, HeldForAck, RailQueues, DeadLetters, Requeued, Queues, Folders
  <2>. QED BY <2>1, AppearKeeps
<1>5. ASSUME NEW t \in Turns, Rewritten(t) PROVE ConversationsInv'
  BY <1>5, RewrittenKeeps
<1>6. ASSUME NEW t \in Turns, Filed(t) PROVE ConversationsInv'
  BY <1>6, FiledKeeps
<1>7. ASSUME NEW t \in Turns, NEW p \in Queues \cup Folders, Disappears(t, p) PROVE ConversationsInv'
  BY <1>7, DisappearsKeeps
<1>. QED BY <1>1, <1>2, <1>3, <1>4, <1>5, <1>6, <1>7 DEF ConversationsNext

\* What of these sets is in the list at most once.
LEMMA AtMostOne ==
  ASSUME NEW S, \A p, q \in S : p = q
  PROVE  Cardinality(S) <= 1
<1>0. 0 <= 1 /\ 1 <= 1
  OBVIOUS
<1>1. CASE S = {}
  BY <1>0, <1>1, FS_EmptySet
<1>2. CASE S # {}
  <2>1. PICK p : p \in S
    BY <1>2
  <2>2. S = {p}
    BY <2>1
  <2>3. Cardinality({p}) = 1
    BY FS_Singleton
  <2>. QED BY <1>0, <2>2, <2>3
<1>. QED BY <1>1, <1>2

LEMMA ConversationsHolds == ConversationsInv => ConversationsTypeOK /\ ConversationsKeep
<1>. SUFFICES ASSUME ConversationsInv PROVE ConversationsTypeOK /\ ConversationsKeep
  OBVIOUS
<1>0. ConversationsTypeOK /\ Paged
  BY DEF ConversationsInv
<1>1. NothingSlipsThrough
  <2>1. ASSUME NEW t \in Turns, toRead = <<>>, form[t] = "text", lies[t] # {}, t \notin moved
        PROVE  t \in Listed
    <3>1. Shown(t) /\ Relevant(t) # {}
      BY <2>1 DEF Shown, Relevant
    <3>2. Complete(t) /\ Unread = {}
      BY <2>1 DEF ConversationsInv, Unread
    <3>. QED BY <2>1, <3>1, <3>2 DEF Complete
  <2>. QED BY <2>1 DEF NothingSlipsThrough
<1>2. ListedOnce
  <2>1. ASSUME NEW t \in Turns
        PROVE  Cardinality({p \in Sources : <<t, p>> \in found /\ (request = "messages" \/ p \in Folders)}) <= 1
    <3>1. Once(t)
      BY DEF ConversationsInv
    <3>2. \A p, q \in {r \in Sources : <<t, r>> \in found /\ (request = "messages" \/ r \in Folders)} : p = q
      BY <3>1 DEF Once
    <3>. QED BY <3>2, AtMostOne
  <2>. QED BY <2>1 DEF ListedOnce
<1>3. PagesFit
  <2>1. ASSUME Len(pages) = 2, NEW t \in Turns, form[t] = "text", lies[t] # {}, moved \cap 1..t = {},
               t <= 2 * PageLimit
        PROVE  (t \in pages[1]) # (t \in pages[2])
    <3>1. Shown(t) /\ t \in Nat /\ t >= 1 /\ PageLimit \in Nat \ {0}
      BY <2>1, ConversationsNumbers DEF Shown
    <3>2. Undisturbed(t)
      <4>1. \A u \in Turns : u <= t => u \in 1..t
        <5>1. ASSUME NEW a \in Nat, NEW b \in Nat, a >= 1, a <= b PROVE a \in 1..b
          BY <5>1
        <5>. QED BY <3>1, <5>1, ConversationsNumbers
      <4>. QED BY <2>1, <4>1 DEF Undisturbed
    <3>3. Count(t) \in 1..t
      <4>. DEFINE S == {u \in Turns : u <= t /\ Shown(u)}
      <4>1. S \in SUBSET (1..t) /\ t \in S
        <5>1. ASSUME NEW a \in Nat, NEW b \in Nat, a >= 1, a <= b PROVE a \in 1..b
          BY <5>1
        <5>2. \A u \in Turns : u <= t => u \in 1..t
          BY <3>1, <5>1, ConversationsNumbers
        <5>3. t <= t
          BY <3>1
        <5>. QED BY <3>1, <5>2, <5>3
      <4>2. IsFiniteSet(1..t) /\ Cardinality(1..t) = t
        BY <3>1, FS_Interval
      <4>3. Count(t) = Cardinality(S)
        BY DEF Count
      <4>. HIDE DEF S
      <4>4. IsFiniteSet(S) /\ Cardinality(S) <= t
        BY <4>1, <4>2, FS_Subset
      <4>5. Cardinality(S) \in Nat /\ Cardinality(S) # 0
        BY <4>1, <4>4, FS_CardinalityType, FS_EmptySet
      <4>. QED BY <3>1, <4>3, <4>4, <4>5
    <3>4. Count(t) \in Nat /\ Count(t) >= 1 /\ Count(t) <= 2 * PageLimit
      BY <2>1, <3>1, <3>3
    <3>5. (t \in pages[1] <=> Count(t) \in 1..PageLimit)
          /\ (t \in pages[2] <=> Count(t) \in (PageLimit + 1)..(2 * PageLimit))
      BY <1>0, <2>1, <3>1, <3>2 DEF Paged
    <3>6. Count(t) \in 1..PageLimit <=> ~(Count(t) \in (PageLimit + 1)..(2 * PageLimit))
      BY <3>1, <3>4
    <3>. QED BY <3>5, <3>6
  <2>. QED BY <2>1 DEF PagesFit
<1>. QED BY <1>0, <1>1, <1>2, <1>3 DEF ConversationsKeep

(* Whatever is edited meanwhile, whichever requests, archivals, polls and  *)
(* sweeps fail and in whatever order Syncthing brings changes: a run that  *)
(* nobody crossed shares what the peers' records call for, what is written *)
(* into a shared folder is lost, or handed on twice, for the reasons that  *)
(* SyncKeeps names and for no other, only its readers can open it, and the *)
(* API's lists of it are whole and have nothing twice.  The four share no  *)
(* state.                                                                  *)
THEOREM SyncthingIsTrue ==
  ProvisionSpec /\ SyncRailSpec /\ MailboxSpec /\ ConversationsSpec =>
    [](SyncthingKeeps /\ ProvisionTypeOK /\ SyncRailTypeOK /\ MailboxTypeOK /\ ConversationsTypeOK)
<1>1. ProvisionSpec => [](ProvisionTypeOK /\ ProvisionKeeps)
  <2>1. ProvisionSpec => []ProvisionInv
    BY ProvisionBegins, ProvisionStep, PTL DEF ProvisionSpec
  <2>. QED BY <2>1, ProvisionHolds, PTL
<1>2. SyncRailSpec => [](SyncRailTypeOK /\ SyncKeeps)
  <2>1. SyncRailSpec => []SyncInv
    BY SyncBegins, SyncStep, PTL DEF SyncRailSpec
  <2>. QED BY <2>1, SyncHolds, PTL
<1>3. MailboxSpec => [](MailboxTypeOK /\ MailboxKeeps)
  <2>1. MailboxSpec => []MailboxInv
    BY MailboxBegins, MailboxStep, PTL DEF MailboxSpec
  <2>. QED BY <2>1, MailboxHolds, PTL
<1>4. ConversationsSpec => [](ConversationsTypeOK /\ ConversationsKeep)
  <2>1. ConversationsSpec => []ConversationsInv
    BY ConversationsBegin, ConversationsStep, PTL DEF ConversationsSpec
  <2>. QED BY <2>1, ConversationsHolds, PTL
<1>5. ProvisionKeeps /\ SyncKeeps /\ MailboxKeeps /\ ConversationsKeep => SyncthingKeeps
  BY DEF SyncthingKeeps
<1>. QED BY <1>1, <1>2, <1>3, <1>4, <1>5, PTL

-------------------------------------------------------------------------------
(* The heartbeat file.  While publishers do not overlap, one at a time has *)
(* a file open, and it is the temporary one (Alone, Whole).  The times the *)
(* loop, Syncthing and a publish may take bound the age of what will be    *)
(* read (Timely); once the loop has published, no beat that is in the      *)
(* file, or about to be, is older than the last round of the loop, and the *)
(* copy was not when it went out of date (Recent).                         *)

Alone  == \A v, w \in BeatWriters : file[v] # "none" /\ file[w] # "none" => v = w
Whole  ==
  /\ \A w \in BeatWriters : /\ file[w] \in {"none", "tmp", "written"}
                            /\ file[w] = "tmp" => tmp = HalfBeat /\ stamp[w] <= now
                            /\ file[w] = "written" => tmp \in 1..now
  /\ target \in {NoBeat} \cup 1..now /\ view \in {NoBeat} \cup 1..now
Looping ==
  /\ thread # "publishing" => file[Loop] = "none"
  /\ orders = 0 => thread = "none" /\ ~wanted
  /\ orders = 1 => wanted /\ ~stopEvent /\ thread # "none" /\ begun <= since
Timely ==
  /\ since <= now /\ changed <= now
  /\ thread = "publishing" => now - since <= PublishTime
  /\ thread = "waiting" => now - since <= Interval
  /\ view # target => now - changed <= SyncDelay

\* The loop has published at least once.
Published == thread = "waiting" \/ since # begun
\* No beat since the last round of the loop is older.
Oldest    == IF thread = "waiting" THEN since - PublishTime ELSE since - Interval - PublishTime
Longest   == Interval + 2 * PublishTime
Recent ==
  /\ file[Loop] = "tmp" => stamp[Loop] >= since
  /\ file[Loop] = "written" => tmp >= since
  /\ Published =>
       /\ target >= Oldest /\ target \in 1..now
       /\ \A w \in BeatWriters : /\ file[w] = "tmp" => stamp[w] >= Oldest
                                 /\ file[w] = "written" => tmp >= Oldest
       /\ \/ view = target
          \/ changed <= begun + PublishTime
          \/ view \in 1..now /\ changed - view <= Longest

BeatInv ==
  /\ HeartbeatTypeOK /\ StartedRuns /\ Looping /\ Timely
  /\ ~overlapped => Alone /\ Whole /\ (orders = 1 => Recent)

LEMMA BeatFacts ==
  /\ Loop \in BeatWriters /\ NoBeat = 0 - 1 /\ HalfBeat = 0
  /\ Interval \in Nat /\ Ttl \in Nat /\ PublishTime \in Nat /\ SyncDelay \in Nat /\ MaxOrders \in Nat
  /\ LastBeat \in Nat /\ LastBeat >= 1 /\ Ttl >= Longest + SyncDelay /\ Longest \in Nat
BY HeartbeatAssumption DEF BeatWriters, NoBeat, HalfBeat, Longest

LEMMA BeatTypes ==
  ASSUME HeartbeatTypeOK
  PROVE  /\ now \in Nat /\ now >= 1 /\ since \in Nat /\ since >= 1 /\ changed \in Nat /\ begun \in Nat
         /\ tmp \in Int /\ target \in Int /\ view \in Int /\ orders \in Nat
         /\ \A w \in BeatWriters : stamp[w] \in Nat /\ stamp[w] >= 1
         /\ DOMAIN file = BeatWriters /\ DOMAIN stamp = BeatWriters
<1>1. LastBeat \in Nat /\ NoBeat \in Int /\ MaxOrders \in Nat
  BY BeatFacts
<1>2. tmp \in NoBeat..LastBeat /\ target \in NoBeat..LastBeat /\ view \in NoBeat..LastBeat
  BY DEF HeartbeatTypeOK
<1>3. since \in 1..LastBeat /\ changed \in 1..LastBeat /\ begun \in 1..LastBeat /\ now \in 1..LastBeat
  BY DEF HeartbeatTypeOK
<1>. QED BY <1>1, <1>2, <1>3 DEF HeartbeatTypeOK

LEMMA BeatBegins == HeartbeatInit => BeatInv
<1>. SUFFICES ASSUME HeartbeatInit PROVE BeatInv
  OBVIOUS
<1>0. HeartbeatTypeOK
  <2>1. {tmp, target, view} \subseteq NoBeat..LastBeat /\ {since, changed, begun} \subseteq 1..LastBeat
        /\ now \in 1..LastBeat /\ orders \in 0..MaxOrders
    BY BeatFacts DEF HeartbeatInit
  <2>2. file \in [BeatWriters -> {"none", "tmp", "target", "gone", "written"}] /\ stamp \in [BeatWriters -> 1..LastBeat]
    BY BeatFacts DEF HeartbeatInit
  <2>3. {stopEvent, wanted, ignored, overlapped} \subseteq BOOLEAN /\ thread \in {"none", "publishing", "waiting"}
    BY DEF HeartbeatInit
  <2>. QED BY <2>1, <2>2, <2>3 DEF HeartbeatTypeOK
<1>1. HeartbeatTypeOK /\ StartedRuns /\ Looping /\ Timely
  BY <1>0, BeatFacts DEF HeartbeatInit, StartedRuns, Looping, Timely
<1>2. Alone /\ Whole /\ orders # 1
  BY BeatFacts DEF HeartbeatInit, Alone, Whole
<1>. QED BY <1>1, <1>2 DEF BeatInv

\* A publish begins.
LEMMA OpenKeeps == ASSUME BeatInv, NEW w \in BeatWriters, Open(w) PROVE BeatInv'
<1>0. HeartbeatTypeOK /\ StartedRuns /\ Looping /\ Timely
  BY DEF BeatInv
<1>1. /\ file[w] = "none" /\ (w = Loop => thread = "publishing")
      /\ file' = [file EXCEPT ![w] = "tmp"] /\ stamp' = [stamp EXCEPT ![w] = now] /\ tmp' = HalfBeat
      /\ overlapped' = (overlapped \/ \E v \in BeatWriters : file[v] # "none")
      /\ UNCHANGED <<now, target, thread, stopEvent, since, orders, wanted, begun, ignored, view, changed>>
  BY DEF Open, MayPublish, loopVars
<1>2. HeartbeatTypeOK'
  BY <1>0, <1>1, BeatFacts DEF HeartbeatTypeOK
<1>3. StartedRuns' /\ Timely'
  BY <1>0, <1>1 DEF StartedRuns, Timely
<1>4. Looping'
  BY <1>0, <1>1, BeatTypes, BeatFacts DEF Looping
<1>5. ASSUME ~overlapped' PROVE Alone' /\ Whole' /\ (orders' = 1 => Recent')
  <2>1. ~overlapped /\ \A v \in BeatWriters : file[v] = "none"
    BY <1>1, <1>5
  <2>2. Whole /\ (orders = 1 => Recent)
    BY <2>1 DEF BeatInv
  <2>3. \A v \in BeatWriters : file'[v] = IF v = w THEN "tmp" ELSE "none"
    BY <1>0, <1>1, <2>1, BeatTypes
  <2>4. \A v \in BeatWriters : stamp'[v] = IF v = w THEN now ELSE stamp[v]
    BY <1>0, <1>1, BeatTypes
  <2>5. Alone'
    BY <2>3 DEF Alone
  <2>6. Whole'
    BY <1>0, <1>1, <2>2, <2>3, <2>4, BeatTypes DEF Whole
  <2>7. ASSUME orders' = 1 PROVE Recent'
    <3>1. Recent
      BY <1>1, <2>2, <2>7
    <3>2. now >= since /\ since >= Oldest
      BY <1>0, BeatTypes, BeatFacts DEF Timely, Oldest
    <3>3. Published' = Published /\ Oldest' = Oldest /\ Oldest \in Int
      BY <1>0, <1>1, BeatTypes, BeatFacts DEF Published, Oldest
    <3>. QED BY <1>0, <1>1, <2>3, <2>4, <3>1, <3>2, <3>3, BeatTypes, BeatFacts DEF Recent
  <2>. QED BY <2>5, <2>6, <2>7
<1>. QED BY <1>2, <1>3, <1>4, <1>5 DEF BeatInv

\* It writes the heartbeat.
LEMMA WriteKeeps == ASSUME BeatInv, NEW w \in BeatWriters, WriteBeat(w) PROVE BeatInv'
<1>0. HeartbeatTypeOK /\ StartedRuns /\ Looping /\ Timely
  BY DEF BeatInv
<1>1. /\ file[w] # "none" /\ file' = [file EXCEPT ![w] = "written"] /\ stamp' = [stamp EXCEPT ![w] = 1]
      /\ UNCHANGED <<now, overlapped, thread, stopEvent, since, orders, wanted, begun, ignored, view>>
  BY DEF WriteBeat, loopVars
<1>2. /\ tmp' \in {tmp, HalfBeat, stamp[w]} /\ target' \in {target, HalfBeat, stamp[w]}
      /\ changed' \in {changed, now}
  BY DEF WriteBeat, WrittenOver, Stale
<1>3. HeartbeatTypeOK'
  <2>1. {tmp', target', view'} \subseteq NoBeat..LastBeat /\ {since', changed', begun'} \subseteq 1..LastBeat
    BY <1>0, <1>1, <1>2, BeatFacts, BeatTypes DEF HeartbeatTypeOK
  <2>. QED BY <1>0, <1>1, <2>1, BeatFacts DEF HeartbeatTypeOK
<1>4. StartedRuns'
  BY <1>0, <1>1 DEF StartedRuns
<1>5. Looping'
  BY <1>0, <1>1, BeatTypes, BeatFacts DEF Looping
<1>6. Timely'
  <2>1. \/ target' = target /\ changed' = changed
        \/ changed' = IF view = target THEN now ELSE changed
    BY DEF WriteBeat, Stale
  <2>. QED BY <1>0, <1>1, <1>2, <2>1, BeatTypes, BeatFacts DEF Timely
<1>7. ASSUME ~overlapped PROVE Alone' /\ Whole' /\ (orders' = 1 => Recent')
  <2>1. Alone /\ Whole /\ (orders = 1 => Recent)
    BY <1>7 DEF BeatInv
  <2>2. file[w] = "tmp" /\ tmp = HalfBeat /\ stamp[w] \in 1..now
    BY <1>0, <1>1, <2>1, BeatTypes DEF Whole, WriteBeat
  <2>3. tmp' = stamp[w] /\ UNCHANGED <<target, changed>>
    BY <2>2 DEF WriteBeat, WrittenOver
  <2>4. \A v \in BeatWriters : file'[v] = IF v = w THEN "written" ELSE "none"
    BY <1>0, <1>1, <2>1, BeatTypes DEF Alone
  <2>5. Alone' /\ Whole'
    BY <1>1, <2>1, <2>2, <2>3, <2>4 DEF Alone, Whole
  <2>6. ASSUME orders' = 1 PROVE Recent'
    <3>1. Recent
      BY <1>1, <2>1, <2>6
    <3>2. Published' = Published /\ Oldest' = Oldest
      BY <1>1 DEF Published, Oldest
    <3>. QED BY <1>1, <2>2, <2>3, <2>4, <3>1, <3>2, BeatFacts DEF Recent
  <2>. QED BY <2>5, <2>6
<1>. QED BY <1>1, <1>3, <1>4, <1>5, <1>6, <1>7 DEF BeatInv

\* A caller dies.
LEMMA CallerDiesKeeps == ASSUME BeatInv, NEW w \in BeatWriters, CallerDies(w) PROVE BeatInv'
<1>0. HeartbeatTypeOK /\ StartedRuns /\ Looping /\ Timely
  BY DEF BeatInv
<1>1. /\ w # Loop /\ file' = [file EXCEPT ![w] = "none"]
      /\ UNCHANGED <<now, tmp, target, stamp, overlapped, view, changed>>
      /\ UNCHANGED <<thread, stopEvent, since, orders, wanted, begun, ignored>>
  BY HeartbeatAssumption DEF CallerDies, loopVars, Loop
<1>2. \A v \in BeatWriters : file'[v] = IF v = w THEN "none" ELSE file[v]
  BY <1>0, <1>1, BeatTypes
<1>3. HeartbeatTypeOK'
  BY <1>0, <1>1, BeatFacts DEF HeartbeatTypeOK
<1>4. StartedRuns' /\ Looping' /\ Timely'
  BY <1>0, <1>1, <1>2, BeatFacts DEF StartedRuns, Looping, Timely
<1>5. Alone => Alone'
  BY <1>2 DEF Alone
<1>6. Whole => Whole'
  BY <1>1, <1>2 DEF Whole
<1>7. Recent => Recent'
  BY <1>1, <1>2, BeatFacts DEF Recent, Published, Oldest
<1>. QED BY <1>1, <1>3, <1>4, <1>5, <1>6, <1>7 DEF BeatInv

\* It renames the file.
LEMMA RenameKeeps == ASSUME BeatInv, NEW w \in BeatWriters, Rename(w) PROVE BeatInv'
<1>0. HeartbeatTypeOK /\ StartedRuns /\ Looping /\ Timely
  BY DEF BeatInv
<1>1. /\ file[w] = "written" /\ thread' = (IF w = Loop THEN "waiting" ELSE thread)
      /\ since' = (IF w = Loop THEN now ELSE since)
      /\ UNCHANGED <<now, stamp, overlapped, stopEvent, orders, wanted, begun, ignored, view>>
  BY DEF Rename, Ended
<1>2. \/ UNCHANGED <<tmp, target, changed>>
      \/ /\ target' = tmp /\ tmp' = NoBeat /\ changed' = IF view = target THEN now ELSE changed
         /\ tmp # NoBeat
  BY DEF Rename, Stale
<1>3. file' \in [BeatWriters -> {"none", "tmp", "target", "gone", "written"}] /\ file'[w] = "none"
  BY <1>0 DEF Rename, Moved, HeartbeatTypeOK
<1>4. HeartbeatTypeOK'
  <2>1. {tmp', target', view'} \subseteq NoBeat..LastBeat /\ {since', changed', begun'} \subseteq 1..LastBeat
    BY <1>0, <1>1, <1>2, BeatFacts DEF HeartbeatTypeOK
  <2>. QED BY <1>0, <1>1, <1>3, <2>1 DEF HeartbeatTypeOK
<1>5. w = Loop => thread = "publishing"
  BY <1>0, <1>1 DEF Looping
<1>6. StartedRuns' /\ Timely'
  BY <1>0, <1>1, <1>2, <1>5, BeatTypes, BeatFacts DEF StartedRuns, Timely
<1>7. Looping'
  <2>1. file[Loop] = "none" => file'[Loop] = "none"
    BY BeatFacts DEF Rename, Moved
  <2>. QED BY <1>0, <1>1, <1>3, <1>5, <2>1, BeatTypes DEF Looping, Timely
<1>8. ASSUME ~overlapped PROVE Alone' /\ Whole' /\ (orders' = 1 => Recent')
  <2>1. Alone /\ Whole /\ (orders = 1 => Recent)
    BY <1>8 DEF BeatInv
  <2>2. tmp \in 1..now
    BY <1>1, <2>1 DEF Whole
  <2>3. target' = tmp /\ tmp' = NoBeat /\ changed' = IF view = target THEN now ELSE changed
    BY <2>2, BeatFacts, BeatTypes, <1>0 DEF Rename, Stale
  <2>4. \A v \in BeatWriters : file'[v] = "none"
    BY <1>1, <2>1 DEF Rename, Moved, Alone
  <2>5. Alone' /\ Whole'
    BY <1>1, <2>1, <2>2, <2>3, <2>4 DEF Alone, Whole
  <2>6. ASSUME orders' = 1 PROVE Recent'
    <3>1. Recent /\ begun <= since
      BY <1>0, <1>1, <2>1, <2>6 DEF Looping
    <3>a. ~Published => now <= begun + PublishTime
      BY <1>0, <1>1, <2>6, BeatTypes, BeatFacts DEF Published, Timely, Looping, HeartbeatTypeOK
    <3>2. \/ view' = target'
          \/ changed' <= begun + PublishTime
          \/ view' \in 1..now /\ changed' - view' <= Longest
      <4>1. CASE view # target
        <5>1. view' = view /\ changed' = changed /\ begun' = begun
          BY <1>1, <2>3, <4>1
        <5>2. CASE Published
          BY <3>1, <4>1, <5>1, <5>2 DEF Recent
        <5>3. CASE ~Published
          BY <1>0, <3>a, <5>1, <5>3, BeatTypes, BeatFacts DEF Timely
        <5>. QED BY <5>2, <5>3
      <4>2. CASE view = target /\ ~Published
        BY <1>1, <2>3, <3>a, <4>2
      <4>3. CASE view = target /\ Published
        <5>1. target \in 1..now /\ target >= Oldest
          BY <3>1, <4>3 DEF Recent
        <5>2. now - Oldest <= Longest
          BY <1>0, BeatTypes, BeatFacts, <4>3, <2>6, <1>1 DEF Oldest, Longest, Timely, Looping, HeartbeatTypeOK
        <5>. QED BY <1>0, <1>1, <2>3, <4>3, <5>1, <5>2, BeatTypes, BeatFacts DEF Oldest
      <4>. QED BY <4>1, <4>2, <4>3
    <3>4. ASSUME Published' PROVE tmp >= Oldest'
      <4>1. CASE w = Loop
        BY <1>0, <1>1, <1>5, <3>1, <4>1, BeatTypes, BeatFacts DEF Recent, Oldest, Timely
      <4>2. CASE w # Loop
        BY <1>1, <3>1, <3>4, <4>2 DEF Recent, Oldest, Published
      <4>. QED BY <4>1, <4>2
    <3>. QED BY <1>1, <2>2, <2>3, <2>4, <3>2, <3>4, BeatFacts DEF Recent
  <2>. QED BY <2>5, <2>6
<1>. QED BY <1>1, <1>4, <1>6, <1>7, <1>8 DEF BeatInv

\* start and stop.
LEMMA OrdersKeep == ASSUME BeatInv, Start \/ Stop PROVE BeatInv'
<1>0. HeartbeatTypeOK /\ StartedRuns /\ Looping /\ Timely
  BY DEF BeatInv
<1>1. /\ UNCHANGED <<now, tmp, target, file, stamp, overlapped, view, changed>>
      /\ orders < MaxOrders /\ orders' = orders + 1
  BY DEF Start, Stop, Order, fileVars
<1>2. CASE Start
  <2>1. /\ wanted' = TRUE /\ begun' = now
        /\ thread # "none" => /\ ignored' = (ignored \/ stopEvent)
                              /\ UNCHANGED <<thread, stopEvent, since>>
        /\ thread = "none" => /\ thread' = "publishing" /\ stopEvent' = FALSE /\ since' = now
                              /\ ignored' = ignored
    BY <1>2 DEF Start
  <2>2. HeartbeatTypeOK'
    <3>1. {since', changed', begun'} \subseteq 1..LastBeat /\ orders' \in 0..MaxOrders
      BY <1>0, <1>1, <2>1, BeatTypes, BeatFacts DEF HeartbeatTypeOK
    <3>2. ignored' \in BOOLEAN /\ stopEvent' \in BOOLEAN /\ wanted' \in BOOLEAN /\ overlapped' \in BOOLEAN
      BY <1>0, <1>1, <2>1 DEF HeartbeatTypeOK
    <3>3. thread' \in {"none", "publishing", "waiting"}
      BY <1>0, <2>1 DEF HeartbeatTypeOK
    <3>. QED BY <1>0, <1>1, <3>1, <3>2, <3>3 DEF HeartbeatTypeOK
  <2>3. StartedRuns'
    BY <1>0, <2>1 DEF StartedRuns
  <2>4. Timely'
    BY <1>0, <1>1, <2>1, BeatTypes, BeatFacts DEF Timely
  <2>5. Looping'
    BY <1>0, <1>1, <2>1, BeatTypes DEF Looping
  <2>6. ~overlapped => Alone' /\ Whole'
    BY <1>1 DEF BeatInv, Alone, Whole
  <2>7. orders' = 1 => Recent'
    <3>. SUFFICES ASSUME orders' = 1 PROVE Recent'
      OBVIOUS
    <3>1. orders = 0 /\ thread = "none" /\ file[Loop] = "none"
      BY <1>0, <1>1, BeatTypes DEF Looping
    <3>. QED BY <1>1, <2>1, <3>1 DEF Recent, Published
  <2>. QED BY <1>1, <2>2, <2>3, <2>4, <2>5, <2>6, <2>7 DEF BeatInv
<1>3. CASE Stop
  <2>1. /\ wanted /\ wanted' = FALSE /\ stopEvent' = TRUE /\ ignored' = FALSE
        /\ UNCHANGED <<thread, since, begun>>
    BY <1>3 DEF Stop
  <2>2. HeartbeatTypeOK'
    <3>0. orders' \in 0..MaxOrders
      BY <1>0, <1>1, BeatTypes, BeatFacts
    <3>1. orders' \in 0..MaxOrders /\ {stopEvent', wanted', ignored', overlapped'} \subseteq BOOLEAN
      BY <1>0, <1>1, <2>1, <3>0 DEF HeartbeatTypeOK
    <3>. QED BY <1>0, <1>1, <2>1, <3>1 DEF HeartbeatTypeOK
  <2>3. StartedRuns' /\ Timely' /\ orders' > 1
    BY <1>0, <1>1, <2>1, BeatTypes DEF StartedRuns, Timely, Looping
  <2>4. Looping'
    BY <1>0, <1>1, <2>1, <2>3, BeatTypes DEF Looping
  <2>5. ~overlapped => Alone' /\ Whole'
    BY <1>1 DEF BeatInv, Alone, Whole
  <2>. QED BY <1>1, <2>2, <2>3, <2>4, <2>5, BeatTypes, <1>0 DEF BeatInv
<1>. QED BY <1>2, <1>3

\* The loop goes round, or ends.
LEMMA LoopKeeps == ASSUME BeatInv, LoopEnds \/ LoopPublishes PROVE BeatInv'
<1>0. HeartbeatTypeOK /\ StartedRuns /\ Looping /\ Timely
  BY DEF BeatInv
<1>1. /\ UNCHANGED <<now, tmp, target, file, stamp, overlapped, view, changed>>
      /\ UNCHANGED <<stopEvent, orders, wanted, begun, ignored>>
  BY DEF LoopEnds, LoopPublishes, fileVars
<1>2. \/ stopEvent /\ file[Loop] = "none" /\ thread' = "none" /\ since' = since
      \/ thread = "waiting" /\ ~stopEvent /\ thread' = "publishing" /\ since' = now
  BY DEF LoopEnds, LoopPublishes, Due
<1>3. HeartbeatTypeOK'
  BY <1>0, <1>1, <1>2, BeatFacts DEF HeartbeatTypeOK
<1>4. StartedRuns' /\ Timely'
  BY <1>0, <1>1, <1>2, BeatTypes, BeatFacts DEF StartedRuns, Timely
<1>5. Looping'
  BY <1>0, <1>1, <1>2, BeatTypes DEF Looping, Timely
<1>6. ~overlapped => Alone' /\ Whole'
  BY <1>1 DEF BeatInv, Alone, Whole
<1>7. ASSUME ~overlapped, orders = 1 PROVE Recent'
  <2>1. Recent /\ ~stopEvent
    BY <1>0, <1>7 DEF BeatInv, Looping
  <2>2. thread = "waiting" /\ thread' = "publishing" /\ since' = now /\ file[Loop] = "none" /\ Published
    BY <1>0, <1>2, <2>1 DEF Looping, Published
  <2>3. Oldest' <= Oldest /\ Oldest \in Int /\ Oldest' \in Int
    BY <1>0, <1>1, <2>2, BeatTypes, BeatFacts DEF Oldest, Timely
  <2>4. /\ target >= Oldest /\ target \in 1..now
        /\ \A w \in BeatWriters : /\ file[w] = "tmp" => stamp[w] >= Oldest
                                  /\ file[w] = "written" => tmp >= Oldest
        /\ \/ view = target
           \/ changed <= begun + PublishTime
           \/ view \in 1..now /\ changed - view <= Longest
    BY <2>1, <2>2 DEF Recent
  <2>. QED BY <1>0, <1>1, <2>2, <2>3, <2>4, BeatTypes DEF Recent
<1>. QED BY <1>1, <1>3, <1>4, <1>5, <1>6, <1>7 DEF BeatInv

\* Time passes, and Syncthing copies.
LEMMA TickKeeps == ASSUME BeatInv, CopyBeat \/ Tick PROVE BeatInv'
<1>0. HeartbeatTypeOK /\ StartedRuns /\ Looping /\ Timely
  BY DEF BeatInv
<1>1. /\ UNCHANGED <<tmp, target, file, stamp, overlapped, changed>>
      /\ UNCHANGED <<thread, stopEvent, since, orders, wanted, begun, ignored>>
  BY DEF CopyBeat, Tick, fileVars, loopVars
<1>2. \/ now' = now /\ view' = target
      \/ now' = now + 1 /\ view' = view /\ now < LastBeat /\ InTime
  BY DEF CopyBeat, Tick
<1>3. HeartbeatTypeOK'
  <2>1. now' \in 1..LastBeat /\ {tmp', target', view'} \subseteq NoBeat..LastBeat
    BY <1>0, <1>1, <1>2, BeatFacts DEF HeartbeatTypeOK
  <2>. QED BY <1>0, <1>1, <2>1 DEF HeartbeatTypeOK
<1>4. StartedRuns' /\ Looping'
  BY <1>0, <1>1 DEF StartedRuns, Looping
<1>5. Timely'
  BY <1>0, <1>1, <1>2, BeatTypes, BeatFacts DEF Timely, InTime, Due
<1>6. ASSUME ~overlapped PROVE Alone' /\ Whole' /\ (orders = 1 => Recent')
  <2>1. Alone /\ Whole /\ (orders = 1 => Recent)
    BY <1>6 DEF BeatInv
  <2>2. Alone' /\ Whole'
    BY <1>0, <1>1, <1>2, <2>1, BeatTypes DEF Alone, Whole
  <2>3. Recent => Recent'
    BY <1>0, <1>1, <1>2, BeatTypes DEF Recent, Published, Oldest
  <2>. QED BY <2>1, <2>2, <2>3
<1>. QED BY <1>1, <1>3, <1>4, <1>5, <1>6 DEF BeatInv

LEMMA BeatStep == BeatInv /\ [HeartbeatNext]_heartbeatVars => BeatInv'
<1>. SUFFICES ASSUME BeatInv, [HeartbeatNext]_heartbeatVars PROVE BeatInv'
  OBVIOUS
<1>1. CASE UNCHANGED heartbeatVars
  BY <1>1 DEF heartbeatVars, fileVars, loopVars, BeatInv, HeartbeatTypeOK, StartedRuns, Looping, Timely,
              Alone, Whole, Recent, Published, Oldest
<1>. QED BY <1>1, OpenKeeps, WriteKeeps, RenameKeeps, CallerDiesKeeps, OrdersKeep, LoopKeeps, TickKeeps
     DEF HeartbeatNext

LEMMA BeatHolds == BeatInv => HeartbeatTypeOK /\ HeartbeatKeeps
<1>. SUFFICES ASSUME BeatInv PROVE HeartbeatTypeOK /\ HeartbeatKeeps
  OBVIOUS
<1>0. HeartbeatTypeOK /\ StartedRuns /\ Looping /\ Timely
  BY DEF BeatInv
<1>1. NeverPartial
  BY <1>0, BeatTypes, BeatFacts DEF BeatInv, Whole, NeverPartial
<1>2. ASSUME ~overlapped, orders = 1, now - begun > PublishTime + SyncDelay PROVE Discovered
  <2>1. Recent /\ Whole /\ thread \in {"publishing", "waiting"}
    BY <1>0, <1>2 DEF BeatInv, Looping, HeartbeatTypeOK
  <2>2. Published
    BY <1>0, <1>2, <2>1, BeatTypes, BeatFacts DEF Published, Timely
  <2>3. target \in 1..now /\ now - target <= Longest
    <3>1. target \in 1..now /\ target >= Oldest
      BY <2>1, <2>2 DEF Recent
    <3>2. now - Oldest <= Longest /\ Oldest \in Int
      BY <1>0, <2>1, BeatTypes, BeatFacts DEF Oldest, Longest, Timely
    <3>. QED BY <1>0, <3>1, <3>2, BeatTypes, BeatFacts
  <2>4. view \in 1..now /\ now - view <= Ttl
    <3>1. CASE view = target
      BY <1>0, <2>3, <3>1, BeatTypes, BeatFacts
    <3>2. CASE view # target
      <4>1. now - changed <= SyncDelay
        BY <1>0, <3>2 DEF Timely
      <4>2. view \in 1..now /\ changed - view <= Longest
        BY <1>0, <1>2, <2>1, <2>2, <3>2, <4>1, BeatTypes, BeatFacts DEF Recent
      <4>. QED BY <1>0, <4>1, <4>2, BeatTypes, BeatFacts
    <3>. QED BY <3>1, <3>2
  <2>. QED BY <1>0, <2>4, BeatTypes, BeatFacts DEF Discovered, IsExpired
<1>. QED BY <1>0, <1>1, <1>2 DEF HeartbeatKeeps, RunningIsSeen

-------------------------------------------------------------------------------
(* The mesh.  A frame has as many nodes behind it as it has lost hops, all *)
(* of which have seen the packet (Trailing): a packet that may live as     *)
(* long as there are nodes to pass runs out of nodes first.  A node that   *)
(* has seen a packet passed it on, is about to, or need not (Passing), and *)
(* had it handed up if it is for it (HandedUp), unless a frame went        *)
(* astray.                                                                 *)

Seen(i)      == {n \in MeshNodes : i \in filter[n]}
Known        == /\ \A n \in MeshNodes : filter[n] \subseteq SentIds
                /\ \A n \in MeshNodes : \A i \in PacketIds : given[n][i] # 0 => n \in Seen(i)
                /\ \A f \in onAir \cup forwards : f.id \in SentIds /\ f.ttl >= 1
Trailing     == \A f \in onAir \cup forwards : Cardinality(Seen(f.id)) + f.ttl > DefaultTtl
HandedUp(i)  == /\ packet[i].from \in Seen(i)
                /\ i \notin missed => \A n \in Seen(i) : DeliverLocal(n, i) => given[n][i] = 1
LongLived    == DefaultTtl >= Cardinality(MeshNodes) - 1
OnItsWay(m, i) == m \in Seen(i) \/ \E f \in onAir : f.to = m /\ f.id = i
Passing(n, i) == \/ ForMe(n, i)
                 \/ \E r \in forwards : r.by = n /\ r.id = i
                 \/ \A m \in Near(n) : OnItsWay(m, i)
                 \/ LongLived => Seen(i) = MeshNodes
MeshInv ==
  /\ MeshTypeOK /\ Known /\ Trailing
  /\ \A i \in SentIds : HandedUp(i) /\ (i \notin missed => \A n \in Seen(i) : Passing(n, i))

LEMMA SeenIsFinite ==
  ASSUME NEW i
  PROVE  IsFiniteSet(Seen(i)) /\ Cardinality(Seen(i)) \in Nat /\ Seen(i) \subseteq MeshNodes
<1>1. Seen(i) \subseteq MeshNodes /\ IsFiniteSet(MeshNodes)
  BY MeshAssumption DEF Seen
<1>. QED BY <1>1, FS_Subset, FS_CardinalityType

\* A node that sees a packet counts.
LEMMA SeenGrows ==
  ASSUME MeshTypeOK, NEW n \in MeshNodes, NEW i, n \notin Seen(i),
         filter' = [filter EXCEPT ![n] = filter[n] \cup {i}]
  PROVE  /\ Seen(i)' = Seen(i) \cup {n} /\ \A j : j # i => Seen(j)' = Seen(j)
         /\ Cardinality(Seen(i)') = Cardinality(Seen(i)) + 1
<1>1. DOMAIN filter = MeshNodes
  BY DEF MeshTypeOK
<1>2. Seen(i)' = Seen(i) \cup {n}
  BY <1>1 DEF Seen
<1>3. \A j : j # i => Seen(j)' = Seen(j)
  BY <1>1 DEF Seen
<1>. QED BY <1>2, <1>3, SeenIsFinite, FS_AddElement

LEMMA MeshFacts ==
  /\ DefaultTtl \in Nat /\ DefaultTtl >= 1 /\ PacketCount \in Nat /\ MaxMisses \in Nat
  /\ \A t \in Hops : t \in Nat /\ t <= DefaultTtl
  /\ \A n : Near(n) \subseteq MeshNodes
BY MeshAssumption DEF Hops, Near

LEMMA MeshBegins == MeshInit => MeshInv
<1>. SUFFICES ASSUME MeshInit PROVE MeshInv
  OBVIOUS
<1>1. SentIds = {}
  BY DEF MeshInit, SentIds
<1>2. MeshTypeOK
  BY MeshFacts DEF MeshInit, MeshTypeOK
<1>3. Known /\ Trailing
  BY DEF MeshInit, Known, Trailing
<1>. QED BY <1>1, <1>2, <1>3 DEF MeshInv

LEMMA SendPacketKeeps ==
  ASSUME MeshInv, NEW n \in MeshNodes, NEW to \in MeshNodes \cup {Everyone}, SendPacket(n, to)
  PROVE  MeshInv'
<1>a. PICK i \in PacketIds : i = Len(packet) + 1
  BY DEF SendPacket
<1>. DEFINE p == [from |-> n, to |-> to]
            rest == {[by |-> n, to |-> m, id |-> i, ttl |-> DefaultTtl] : m \in Near(n)}
<1>0. MeshTypeOK /\ Known /\ Trailing /\ packet \in Seq(Packets) /\ Len(packet) \in Nat
  BY MeshFacts DEF MeshInv, MeshTypeOK
<1>1. /\ to # n /\ packet' = Append(packet, p)
      /\ filter' = [filter EXCEPT ![n] = filter[n] \cup {i}]
      /\ UNCHANGED <<radioOn, forwards, given, misses>>
      /\ \/ onAir' = onAir \cup rest /\ UNCHANGED missed
         \/ onAir' = onAir /\ missed' = missed \cup {i}
  BY <1>a DEF SendPacket, Broadcast
<1>2. p \in Packets
  BY DEF Packets
<1>3. /\ packet' \in Seq(Packets) /\ Len(packet') = i /\ packet'[i] = p
      /\ \A j \in SentIds : packet'[j] = packet[j]
      /\ SentIds = 1..Len(packet) /\ SentIds' = SentIds \cup {i} /\ i \notin SentIds
  <2>1. packet' \in Seq(Packets) /\ Len(packet') = i /\ packet'[i] = p
        /\ \A j \in 1..Len(packet) : packet'[j] = packet[j]
    BY <1>a, <1>0, <1>1, <1>2, AppendProperties
  <2>2. SentIds = 1..Len(packet) /\ SentIds' = 1..i
    BY <1>0, <2>1, LenProperties DEF SentIds
  <2>. QED BY <1>a, <1>0, <2>1, <2>2
<1>. HIDE DEF p
<1>4. Seen(i) = {}
  BY <1>0, <1>3 DEF Known, Seen
<1>5. /\ Seen(i)' = {n} /\ \A j \in SentIds : Seen(j)' = Seen(j)
      /\ Cardinality(Seen(i)') = 1
  <2>1. /\ Seen(i)' = Seen(i) \cup {n} /\ \A j : j # i => Seen(j)' = Seen(j)
    BY <1>0, <1>1, <1>4, SeenGrows
  <2>2. Seen(i)' = {n} /\ Cardinality({n}) = 1
    BY <1>4, <2>1, FS_Singleton
  <2>. QED BY <1>3, <2>1, <2>2
<1>6. \A f \in rest : f.id = i /\ f.ttl = DefaultTtl /\ f \in [by : MeshNodes, to : MeshNodes, id : PacketIds, ttl : Hops]
  BY <1>1, MeshFacts DEF Hops
<1>. HIDE DEF rest
<1>7. onAir \subseteq onAir' /\ onAir' \subseteq onAir \cup rest /\ missed \subseteq missed'
  BY <1>1
<1>8. MeshTypeOK'
  <2>1. filter' \in [MeshNodes -> SUBSET PacketIds] /\ missed' \subseteq PacketIds
    BY <1>0, <1>1 DEF MeshTypeOK
  <2>2. Len(packet') \in 0..PacketCount
    BY <1>0, <1>1, <1>3, MeshFacts DEF PacketIds
  <2>. QED BY <1>0, <1>1, <1>3, <1>6, <1>7, <2>1, <2>2 DEF MeshTypeOK
<1>9. Known'
  <2>1. \A m \in MeshNodes : filter'[m] \subseteq SentIds'
    BY <1>0, <1>1, <1>3 DEF Known, MeshTypeOK
  <2>2. \A m \in MeshNodes : \A j \in PacketIds : given[m][j] # 0 => m \in Seen(j)'
    BY <1>0, <1>1 DEF Known, Seen, MeshTypeOK
  <2>3. \A f \in onAir' \cup forwards' : f.id \in SentIds' /\ f.ttl >= 1
    BY <1>0, <1>1, <1>3, <1>6, <1>7, MeshFacts DEF Known
  <2>. QED BY <1>1, <2>1, <2>2, <2>3 DEF Known
<1>10. Trailing'
  <2>. SUFFICES ASSUME NEW f \in onAir' \cup forwards' PROVE Cardinality(Seen(f.id)') + f.ttl > DefaultTtl
    BY DEF Trailing
  <2>1. CASE f \in rest
    BY <1>5, <1>6, <2>1, MeshFacts
  <2>2. CASE f \in onAir \cup forwards
    BY <1>0, <1>5, <2>2 DEF Trailing, Known
  <2>. QED BY <1>1, <1>7, <2>1, <2>2
<1>11. ASSUME NEW j \in SentIds'
       PROVE  HandedUp(j)' /\ (j \notin missed' => \A m \in Seen(j)' : Passing(m, j)')
  <2>1. CASE j = i
    <3>1. HandedUp(j)'
      BY <1>2, <1>3, <1>5, <2>1 DEF HandedUp, DeliverLocal, p
    <3>2. ASSUME i \notin missed' PROVE \A m \in Near(n) : OnItsWay(m, i)'
      <4>1. onAir' = onAir \cup rest
        BY <1>1, <3>2
      <4>2. ASSUME NEW m \in Near(n) PROVE OnItsWay(m, i)'
        <5>1. [by |-> n, to |-> m, id |-> i, ttl |-> DefaultTtl] \in rest
          BY DEF rest
        <5>. QED BY <4>1, <5>1 DEF OnItsWay
      <4>. QED BY <4>2
    <3>. QED BY <1>5, <2>1, <3>1, <3>2 DEF Passing
  <2>2. CASE j \in SentIds
    <3>1. HandedUp(j) /\ (j \notin missed => \A m \in Seen(j) : Passing(m, j))
      BY <2>2 DEF MeshInv
    <3>2. packet'[j] = packet[j] /\ Seen(j)' = Seen(j) /\ (j \notin missed' => j \notin missed)
      BY <1>3, <1>5, <1>7, <2>2
    <3>3. HandedUp(j)'
      BY <1>1, <3>1, <3>2 DEF HandedUp, DeliverLocal
    <3>4. \A m : OnItsWay(m, j) => OnItsWay(m, j)'
      BY <1>7, <3>2 DEF OnItsWay
    <3>. QED BY <1>1, <3>1, <3>2, <3>3, <3>4 DEF Passing, ForMe, LongLived
  <2>. QED BY <1>3, <2>1, <2>2
<1>. QED BY <1>8, <1>9, <1>10, <1>11 DEF MeshInv

(* A step at which no node sees a packet: every frame goes on from an      *)
(* earlier one, and what was coming to a node comes still, unless it went  *)
(* astray.                                                                 *)
LEMMA AirKeeps ==
  ASSUME MeshInv, MeshTypeOK', UNCHANGED <<packet, filter, given>>, missed \subseteq missed',
         \A f \in onAir' \cup forwards' : \E g \in onAir \cup forwards : g.id = f.id /\ g.ttl = f.ttl,
         \A i \in SentIds \ missed' :
           /\ \A m \in MeshNodes : OnItsWay(m, i) => OnItsWay(m, i)'
           /\ \A r \in forwards : r.id = i => r \in forwards' \/ \A m \in Near(r.by) : OnItsWay(m, i)'
  PROVE  MeshInv'
<1>0. MeshTypeOK /\ Known /\ Trailing
  BY DEF MeshInv
<1>1. SentIds' = SentIds /\ \A i : Seen(i)' = Seen(i)
  BY DEF SentIds, Seen
<1>2. Known'
  BY <1>0, <1>1 DEF Known
<1>3. Trailing'
  BY <1>0, <1>1 DEF Trailing
<1>4. ASSUME NEW i \in SentIds
      PROVE  HandedUp(i)' /\ (i \notin missed' => \A n \in Seen(i) : Passing(n, i)')
  <2>1. HandedUp(i) /\ (i \notin missed => \A n \in Seen(i) : Passing(n, i))
    BY DEF MeshInv
  <2>2. HandedUp(i)'
    BY <1>1, <2>1 DEF HandedUp, DeliverLocal
  <2>3. ASSUME i \notin missed', NEW n \in Seen(i) PROVE Passing(n, i)'
    <3>1. Passing(n, i)
      BY <2>1, <2>3
    <3>2. \A m \in Near(n) : OnItsWay(m, i) => OnItsWay(m, i)'
      BY <2>3, MeshFacts
    <3>. QED BY <1>1, <2>3, <3>1, <3>2 DEF Passing, ForMe, LongLived
  <2>. QED BY <2>2, <2>3
<1>. QED BY <1>1, <1>2, <1>3, <1>4 DEF MeshInv

LEMMA DuplicateKeeps == ASSUME MeshInv, NEW f \in onAir, HearDuplicate(f) PROVE MeshInv'
<1>1. /\ f.id \in filter[f.to] /\ onAir' = onAir \ {f}
      /\ UNCHANGED <<packet, filter, radioOn, forwards, given, missed, misses>>
  BY DEF HearDuplicate
<1>2. MeshTypeOK /\ f.to \in MeshNodes
  BY DEF MeshInv, MeshTypeOK
<1>3. MeshTypeOK'
  BY <1>1, <1>2 DEF MeshTypeOK
<1>4. \A m \in MeshNodes, i \in SentIds : OnItsWay(m, i) => OnItsWay(m, i)'
  BY <1>1, <1>2 DEF OnItsWay, Seen
<1>. QED BY <1>1, <1>3, <1>4, AirKeeps

LEMMA LoseKeeps == ASSUME MeshInv, NEW f \in onAir, Lose(f) PROVE MeshInv'
<1>1. /\ misses' = (IF f.to \in radioOn THEN misses + 1 ELSE misses)
      /\ f.to \in radioOn => misses < MaxMisses
      /\ onAir' = onAir \ {f} /\ missed' = missed \cup {f.id}
      /\ UNCHANGED <<packet, filter, radioOn, forwards, given>>
  BY DEF Lose
<1>2. MeshTypeOK /\ f.id \in PacketIds
  BY DEF MeshInv, MeshTypeOK
<1>3. MeshTypeOK'
  <2>1. misses' \in 0..MaxMisses
    BY <1>1, <1>2, MeshFacts DEF MeshTypeOK
  <2>. QED BY <1>1, <1>2, <2>1 DEF MeshTypeOK
<1>4. \A m \in MeshNodes, i \in SentIds \ missed' : OnItsWay(m, i) => OnItsWay(m, i)'
  BY <1>1 DEF OnItsWay, Seen
<1>. QED BY <1>1, <1>3, <1>4, AirKeeps

LEMMA RebroadcastKeeps == ASSUME MeshInv, NEW r \in forwards, Rebroadcast(r) PROVE MeshInv'
<1>a. PICK n \in MeshNodes, i \in PacketIds, t \in Hops : r.by = n /\ r.id = i /\ r.ttl = t
  BY DEF MeshInv, MeshTypeOK
<1>. DEFINE copies == {[by |-> n, to |-> m, id |-> i, ttl |-> t] : m \in Near(n)}
<1>1. /\ forwards' = forwards \ {r}
      /\ UNCHANGED <<packet, filter, radioOn, given, misses>>
      /\ \/ onAir' = onAir \cup copies /\ UNCHANGED missed
         \/ onAir' = onAir /\ missed' = missed \cup {i}
  BY <1>a DEF Rebroadcast, Broadcast
<1>2. MeshTypeOK
  BY DEF MeshInv
<1>3. \A f \in copies : /\ f.id = r.id /\ f.ttl = r.ttl
                        /\ f \in [by : MeshNodes, to : MeshNodes, id : PacketIds, ttl : Hops]
  BY <1>a, MeshFacts
<1>4. \A m \in Near(n) : [by |-> n, to |-> m, id |-> i, ttl |-> t] \in copies
  OBVIOUS
<1>. HIDE DEF copies
<1>5. onAir \subseteq onAir' /\ onAir' \subseteq onAir \cup copies /\ missed \subseteq missed'
  BY <1>1
<1>6. MeshTypeOK'
  BY <1>1, <1>2, <1>3, <1>5 DEF MeshTypeOK
<1>7. \A m \in MeshNodes, j \in SentIds : OnItsWay(m, j) => OnItsWay(m, j)'
  BY <1>1, <1>5 DEF OnItsWay, Seen
<1>8. \A j \in SentIds \ missed' : \A q \in forwards :
        q.id = j => q \in forwards' \/ \A m \in Near(q.by) : OnItsWay(m, j)'
  <2>. SUFFICES ASSUME i \notin missed' PROVE \A m \in Near(n) : OnItsWay(m, i)'
    BY <1>a, <1>1
  <2>. SUFFICES ASSUME NEW m \in Near(n) PROVE \E f \in onAir' : f.to = m /\ f.id = i
    BY DEF OnItsWay
  <2>1. [by |-> n, to |-> m, id |-> i, ttl |-> t] \in onAir'
    BY <1>1, <1>4
  <2>. QED BY <2>1
<1>9. \A f \in onAir' \cup forwards' : \E g \in onAir \cup forwards : g.id = f.id /\ g.ttl = f.ttl
  BY <1>1, <1>3, <1>5
<1>. QED BY <1>1, <1>5, <1>6, <1>7, <1>8, <1>9, AirKeeps

LEMMA RadioKeepsOn ==
  ASSUME MeshInv, NEW n \in MeshNodes, StopRadio(n) \/ StartRadio(n) PROVE MeshInv'
<1>1. /\ UNCHANGED <<packet, filter, forwards, onAir, given, missed>>
      /\ radioOn' \in {radioOn \ {n}, radioOn \cup {n}}
      /\ \/ misses' = misses
         \/ misses < MaxMisses /\ misses' = misses + 1
  BY DEF StopRadio, StartRadio
<1>2. MeshTypeOK
  BY DEF MeshInv
<1>3. MeshTypeOK'
  <2>1. misses' \in 0..MaxMisses
    BY <1>1, <1>2, MeshFacts DEF MeshTypeOK
  <2>. QED BY <1>1, <1>2, <2>1 DEF MeshTypeOK
<1>4. \A m \in MeshNodes, i \in SentIds : OnItsWay(m, i) => OnItsWay(m, i)'
  BY <1>1 DEF OnItsWay, Seen
<1>. QED BY <1>1, <1>3, <1>4, AirKeeps

(* A node sees a packet for the first time, or takes it for one it has     *)
(* seen.                                                                   *)
LEMMA HearKeeps == ASSUME MeshInv, NEW f \in onAir, HearNew(f) \/ Mistake(f) PROVE MeshInv'
<1>a. PICK n \in MeshNodes, i \in PacketIds, t \in Hops : f.to = n /\ f.id = i /\ f.ttl = t
  BY DEF MeshInv, MeshTypeOK
<1>0. MeshTypeOK /\ Known /\ Trailing /\ i \in SentIds /\ t \in Nat /\ t >= 1 /\ t <= DefaultTtl
  BY <1>a, MeshFacts DEF MeshInv, Known
<1>1. /\ i \notin filter[n] /\ onAir' = onAir \ {f} /\ filter' = [filter EXCEPT ![n] = filter[n] \cup {i}]
      /\ UNCHANGED <<packet, radioOn>>
  BY <1>a DEF HearNew, Mistake
<1>2. /\ Seen(i)' = Seen(i) \cup {n} /\ \A j : j # i => Seen(j)' = Seen(j)
      /\ Cardinality(Seen(i)') = Cardinality(Seen(i)) + 1 /\ n \notin Seen(i)
  <2>1. n \notin Seen(i)
    BY <1>1 DEF Seen
  <2>. QED BY <1>0, <1>1, <2>1, SeenGrows
<1>3. SentIds' = SentIds
  BY <1>1 DEF SentIds
<1>. DEFINE r == [by |-> n, id |-> i, ttl |-> t - 1]
<1>4. \/ /\ misses' = misses + 1 /\ misses < MaxMisses /\ missed' = missed \cup {i}
         /\ UNCHANGED <<forwards, given>>
      \/ /\ UNCHANGED <<missed, misses>>
         /\ given' = IF DeliverLocal(n, i) THEN [given EXCEPT ![n][i] = given[n][i] + 1] ELSE given
         /\ forwards' = IF Forward(n, i, t) THEN forwards \cup {r} ELSE forwards
  BY <1>a DEF HearNew, Mistake, HopsLeft
<1>5. given[n][i] = 0 /\ given[n] \in [PacketIds -> 0..1] /\ given \in [MeshNodes -> [PacketIds -> 0..1]]
  BY <1>0, <1>2 DEF Known, MeshTypeOK
<1>6. /\ given' \in [MeshNodes -> [PacketIds -> 0..1]]
      /\ \A m \in MeshNodes : \A j \in PacketIds : m # n \/ j # i => given'[m][j] = given[m][j]
  BY <1>4, <1>5
<1>7. forwards \subseteq forwards' /\ forwards' \subseteq forwards \cup {r} /\ missed \subseteq missed'
  BY <1>4
<1>8. Forward(n, i, t) => r \in [by : MeshNodes, id : PacketIds, ttl : Hops] /\ r.ttl >= 1
  <2>1. Forward(n, i, t) => t - 1 \in Hops /\ t - 1 >= 1
    BY <1>0, MeshFacts DEF Forward, HopsLeft, Hops
  <2>. QED BY <2>1
<1>9. r \in forwards' => r \in forwards \/ Forward(n, i, t)
  BY <1>4
<1>b. r.by = n /\ r.id = i /\ r.ttl = t - 1
  OBVIOUS
<1>. HIDE DEF r
<1>10. MeshTypeOK'
  <2>1. misses' \in 0..MaxMisses /\ missed' \subseteq PacketIds
    BY <1>0, <1>4, MeshFacts DEF MeshTypeOK
  <2>2. filter' \in [MeshNodes -> SUBSET PacketIds]
    BY <1>0, <1>1 DEF MeshTypeOK
  <2>3. forwards' \subseteq [by : MeshNodes, id : PacketIds, ttl : Hops]
    BY <1>0, <1>7, <1>8, <1>9 DEF MeshTypeOK
  <2>. QED BY <1>0, <1>1, <1>6, <2>1, <2>2, <2>3 DEF MeshTypeOK
<1>11. Known'
  <2>1. \A m \in MeshNodes : filter'[m] \subseteq SentIds
    BY <1>0, <1>1 DEF Known, MeshTypeOK
  <2>2. \A m \in MeshNodes : \A j \in PacketIds : given'[m][j] # 0 => m \in Seen(j)'
    BY <1>0, <1>2, <1>6 DEF Known
  <2>3. \A g \in onAir' \cup forwards' : g.id \in SentIds /\ g.ttl >= 1
    BY <1>0, <1>1, <1>7, <1>8, <1>9, <1>b DEF Known
  <2>. QED BY <1>3, <2>1, <2>2, <2>3 DEF Known
<1>12. Cardinality(Seen(i)) + t > DefaultTtl
  BY <1>0, <1>a DEF Trailing
<1>13. Trailing'
  <2>. SUFFICES ASSUME NEW g \in onAir' \cup forwards' PROVE Cardinality(Seen(g.id)') + g.ttl > DefaultTtl
    BY DEF Trailing
  <2>1. CASE g = r
    <3>1. g.id = i /\ g.ttl = t - 1
      BY <1>b, <2>1
    <3>2. Seen(g.id)' = Seen(i)'
      BY <3>1 DEF Seen
    <3>3. Cardinality(Seen(i)') + (t - 1) > DefaultTtl
      BY <1>0, <1>2, <1>12, SeenIsFinite, MeshFacts
    <3>. QED BY <3>1, <3>2, <3>3
  <2>2. CASE g \in onAir \cup forwards
    <3>1. Cardinality(Seen(g.id)) + g.ttl > DefaultTtl /\ g.ttl \in Nat
      BY <1>0, <2>2, MeshFacts DEF Trailing, MeshTypeOK
    <3>2. Cardinality(Seen(g.id)') >= Cardinality(Seen(g.id))
      BY <1>2, SeenIsFinite
    <3>. QED BY <3>1, <3>2, SeenIsFinite, MeshFacts, <1>2
  <2>. QED BY <1>1, <1>7, <2>1, <2>2
<1>14. ASSUME NEW j \in SentIds, j # i
       PROVE  HandedUp(j)' /\ (j \notin missed' => \A m \in Seen(j)' : Passing(m, j)')
  <2>1. HandedUp(j) /\ (j \notin missed => \A m \in Seen(j) : Passing(m, j)) /\ Seen(j)' = Seen(j)
    BY <1>2, <1>14 DEF MeshInv
  <2>2. j \in PacketIds /\ Seen(j) \subseteq MeshNodes
    BY <1>0, SeenIsFinite, LenProperties, MeshFacts DEF MeshTypeOK, SentIds, PacketIds
  <2>3. HandedUp(j)'
    BY <1>1, <1>6, <1>7, <1>14, <2>1, <2>2 DEF HandedUp, DeliverLocal
  <2>4. \A m : OnItsWay(m, j) => OnItsWay(m, j)'
    BY <1>a, <1>1, <1>14, <2>1 DEF OnItsWay
  <2>. QED BY <1>1, <1>7, <2>1, <2>3, <2>4 DEF Passing, ForMe, LongLived
<1>15. HandedUp(i)' /\ (i \notin missed' => \A m \in Seen(i)' : Passing(m, i)')
  <2>1. HandedUp(i) /\ (i \notin missed => \A m \in Seen(i) : Passing(m, i))
    BY <1>0 DEF MeshInv
  <2>2. HandedUp(i)'
    <3>1. ASSUME i \notin missed', NEW m \in Seen(i)', DeliverLocal(m, i) PROVE given'[m][i] = 1
      <4>1. CASE m = n
        BY <1>4, <1>5, <3>1, <4>1
      <4>2. CASE m # n
        BY <1>2, <1>6, <1>7, <2>1, <3>1, <4>2, SeenIsFinite DEF HandedUp
      <4>. QED BY <4>1, <4>2
    <3>2. packet[i].from \in Seen(i)'
      BY <1>2, <2>1 DEF HandedUp
    <3>. QED BY <1>1, <3>1, <3>2 DEF HandedUp, DeliverLocal
  <2>3. ASSUME i \notin missed' PROVE \A m \in Seen(i) : Passing(m, i)'
    <3>1. \A m : OnItsWay(m, i) => OnItsWay(m, i)'
      BY <1>a, <1>1, <1>2 DEF OnItsWay
    <3>2. \A m \in Seen(i) : Passing(m, i)
      BY <1>7, <2>1, <2>3
    <3>3. Seen(i) = MeshNodes => Seen(i)' = MeshNodes
      BY <1>2
    <3>. QED BY <1>1, <1>7, <3>1, <3>2, <3>3 DEF Passing, ForMe, LongLived
  <2>4. ASSUME i \notin missed' PROVE Passing(n, i)'
    <3>1. CASE ForMe(n, i)
      BY <1>1, <3>1 DEF Passing, ForMe
    <3>2. CASE Forward(n, i, t)
      <4>1. r \in forwards'
        BY <1>4, <2>4, <3>2
      <4>. QED BY <1>b, <4>1 DEF Passing
    <3>3. CASE t = 1
      <4>1. Cardinality(Seen(i)') >= DefaultTtl + 1
        BY <1>2, <1>12, <3>3, SeenIsFinite, MeshFacts
      <4>2. LongLived => Seen(i)' = MeshNodes
        <5>. SUFFICES ASSUME LongLived PROVE Seen(i)' = MeshNodes
          OBVIOUS
        <5>1. IsFiniteSet(MeshNodes) /\ Cardinality(MeshNodes) \in Nat /\ Seen(i)' \subseteq MeshNodes
          BY <1>2, SeenIsFinite, MeshAssumption, FS_CardinalityType
        <5>2. Cardinality(Seen(i)') >= Cardinality(MeshNodes)
          BY <4>1, <5>1, MeshFacts, <1>2, SeenIsFinite DEF LongLived
        <5>3. Cardinality(Seen(i)') <= Cardinality(MeshNodes) /\ Cardinality(Seen(i)') \in Nat
          BY <5>1, FS_Subset, FS_CardinalityType
        <5>. QED BY <5>1, <5>2, <5>3, FS_Subset
      <4>. QED BY <4>2 DEF Passing, LongLived
    <3>. QED BY <1>0, <3>1, <3>2, <3>3 DEF Forward, HopsLeft
  <2>. QED BY <1>2, <2>2, <2>3, <2>4
<1>. QED BY <1>3, <1>10, <1>11, <1>13, <1>14, <1>15 DEF MeshInv

LEMMA MeshStep == MeshInv /\ [MeshNext]_meshVars => MeshInv'
<1>. SUFFICES ASSUME MeshInv, [MeshNext]_meshVars PROVE MeshInv'
  OBVIOUS
<1>1. CASE UNCHANGED meshVars
  <2>1. /\ MeshTypeOK' = MeshTypeOK /\ SentIds' = SentIds /\ \A i : Seen(i)' = Seen(i)
    BY <1>1 DEF meshVars, MeshTypeOK, SentIds, Seen
  <2>2. MeshTypeOK' /\ UNCHANGED <<packet, filter, given, onAir, forwards, missed>>
    BY <1>1, <2>1 DEF MeshInv, meshVars
  <2>3. \A m \in MeshNodes, i \in SentIds : OnItsWay(m, i) => OnItsWay(m, i)'
    BY <2>1, <2>2 DEF OnItsWay
  <2>. QED BY <2>2, <2>3, AirKeeps
<1>2. CASE \E n \in MeshNodes : \E to \in MeshNodes \cup {Everyone} : SendPacket(n, to)
  BY <1>2, SendPacketKeeps
<1>3. CASE \E n \in MeshNodes : StopRadio(n) \/ StartRadio(n)
  BY <1>3, RadioKeepsOn
<1>4. CASE \E f \in onAir : HearDuplicate(f) \/ Mistake(f) \/ HearNew(f) \/ Lose(f)
  BY <1>4, DuplicateKeeps, HearKeeps, LoseKeeps
<1>5. CASE \E r \in forwards : Rebroadcast(r)
  BY <1>5, RebroadcastKeeps
<1>. QED BY <1>1, <1>2, <1>3, <1>4, <1>5 DEF MeshNext

\* The nodes that saw a packet which settled and lost no frame are closed
\* under the links, but for the node it is for.
LEMMA MeshHolds == MeshInv => MeshTypeOK /\ MeshKeeps
<1>. SUFFICES ASSUME MeshInv PROVE MeshKeeps
  BY DEF MeshInv
<1>0. MeshTypeOK
  BY DEF MeshInv
<1>1. ASSUME NEW i \in SentIds, NEW n \in MeshNodes PROVE given[n][i] <= 1
  <2>1. i \in PacketIds
    BY <1>0, LenProperties, MeshFacts DEF MeshTypeOK, SentIds, PacketIds
  <2>. QED BY <1>0, <2>1 DEF MeshTypeOK
<1>2. ASSUME NEW i \in SentIds, NEW n \in MeshNodes,
             Settled(i), i \notin missed, DefaultTtl >= Cardinality(MeshNodes) - 1,
             DeliverLocal(n, i), Connects(packet[i].from, n)
      PROVE  given[n][i] = 1
  <2>1. HandedUp(i) /\ \A m \in Seen(i) : Passing(m, i)
    BY <1>2 DEF MeshInv
  <2>2. packet[i].from \in Seen(i) /\ (n \in Seen(i) => given[n][i] = 1)
    BY <1>2, <2>1 DEF HandedUp
  <2>. SUFFICES ASSUME n \notin Seen(i) PROVE FALSE
    BY <2>2
  <2>3. \A m \in Seen(i) : ~ForMe(m, i)
    <3>1. ASSUME NEW m \in Seen(i), ForMe(m, i) PROVE FALSE
      <4>1. packet[i].to = m /\ m \in MeshNodes /\ m # Everyone
        BY <3>1, SeenIsFinite, MeshAssumption DEF ForMe
      <4>2. m = n
        BY <1>2, <4>1 DEF DeliverLocal
      <4>. QED BY <3>1, <4>2
    <3>. QED BY <3>1
  <2>4. ASSUME NEW m \in Seen(i) PROVE Near(m) \subseteq Seen(i)
    <3>1. \A k \in Near(m) : OnItsWay(k, i)
      <4>1. ~(\E r \in forwards : r.by = m /\ r.id = i)
        BY <1>2 DEF Settled
      <4>2. Seen(i) # MeshNodes /\ LongLived
        BY <1>2 DEF LongLived
      <4>. QED BY <2>1, <2>3, <4>1, <4>2 DEF Passing
    <3>. QED BY <1>2, <3>1 DEF OnItsWay, Settled
  <2>5. Seen(i) \in SUBSET MeshNodes
    BY SeenIsFinite
  <2>. QED BY <1>2, <2>2, <2>4, <2>5 DEF Connects
<1>. QED BY <1>1, <1>2 DEF MeshKeeps

-------------------------------------------------------------------------------
(* The LoRa rail.  Of the frames that went on the air, those after the     *)
(* k0-th left in the present window, as far as its budget was spent; those *)
(* after the k1-th left in the window before at the latest, a window's     *)
(* worth of them; and those up to the k1-th at least one whole window      *)
(* before the present one started.  A stretch of time that holds the       *)
(* present moment therefore holds none of the last.                        *)

Sent == Len(aired)
InWindows(k0, k1) ==
  /\ (Sent - k0) + Len(draining) <= airUsed /\ k0 - k1 <= MaxAirtime
  /\ \A i \in 1..k1 : aired[i] + WindowTicks <= windowStart
  /\ \A i \in 1..k0 : aired[i] <= windowStart
Airtime == /\ \E k0 \in 0..Sent : \E k1 \in 0..k0 : InWindows(k0, k1)
           /\ \A i \in 1..Sent : aired[i] <= moment
           /\ \A t \in 1..LastMoment : Cardinality(Span(t)) <= 2 * MaxAirtime

\* The frames are numbered through, and those not sent yet are in order.
Departed    == Sent + spilt
InOrder == /\ Departed + Len(draining) + Len(queued) = cutUp * PerLetter
           /\ \A i \in 1..Len(draining) : draining[i] = Departed + i
           /\ \A i \in 1..Len(queued) : queued[i] = Departed + Len(draining) + i

\* A frame the receiver holds was heard once more than its letter was
\* handed up.
Earned  == \A l \in LetterNumbers : \A k \in FramesOf(l) :
             /\ handedUp[l] <= arrived[k]
             /\ k \in slots[l] => handedUp[l] < arrived[k]

LoraInv == LoraTypeOK /\ Airtime /\ InOrder /\ Earned

LEMMA LoraFacts ==
  /\ PerLetter \in Nat /\ PerLetter >= 1 /\ MaxAirtime \in Nat /\ MaxAirtime >= 1
  /\ WindowTicks \in Nat /\ WindowTicks >= 1 /\ LastMoment \in Nat /\ LastMoment >= 1
  /\ MaxRadioFaults \in Nat /\ LoraLetters \in Nat /\ LoraLetters * PerLetter \in Nat
BY LoraAssumption

LEMMA LettersFit ==
  ASSUME NEW c \in Nat, c < LoraLetters
  PROVE  /\ c * PerLetter \in Nat /\ (c + 1) * PerLetter = c * PerLetter + PerLetter
         /\ c * PerLetter + PerLetter <= LoraLetters * PerLetter
<1>1. c * PerLetter \in Nat /\ (c + 1) * PerLetter = c * PerLetter + PerLetter
  BY LoraFacts
<1>2. PICK d \in Nat : LoraLetters = (c + 1) + d
  <2>1. LoraLetters - (c + 1) \in Nat /\ LoraLetters = (c + 1) + (LoraLetters - (c + 1))
    BY LoraFacts
  <2>. QED BY <2>1
<1>3. LoraLetters * PerLetter = (c + 1) * PerLetter + d * PerLetter /\ d * PerLetter \in Nat
  BY <1>2, LoraFacts
<1>. QED BY <1>1, <1>3, LoraFacts

LEMMA FramesFit == \A l \in LetterNumbers : FramesOf(l) \subseteq FrameNumbers
<1>. SUFFICES ASSUME NEW l \in LetterNumbers PROVE FramesOf(l) \subseteq FrameNumbers
  OBVIOUS
<1>. DEFINE c == l - 1
<1>1. c \in Nat /\ c < LoraLetters /\ l = c + 1
  BY LoraFacts DEF LetterNumbers
<1>. HIDE DEF c
<1>2. c * PerLetter \in Nat /\ (c + 1) * PerLetter <= LoraLetters * PerLetter /\ l - 1 = c
  BY <1>1, LettersFit
<1>3. FramesOf(l) = (c * PerLetter + 1)..((c + 1) * PerLetter)
  BY <1>1, <1>2 DEF FramesOf
<1>. QED BY <1>1, <1>2, <1>3, LoraFacts, LettersFit DEF FrameNumbers

LEMMA LoraTypes ==
  ASSUME LoraTypeOK
  PROVE  /\ Sent \in Nat /\ Departed \in Nat /\ Len(draining) \in Nat /\ Len(queued) \in Nat
         /\ moment \in Nat /\ airUsed \in Nat /\ windowStart \in Nat /\ spilt \in Nat /\ cutUp \in Nat
         /\ DOMAIN aired = 1..Sent
         /\ \A i \in 1..Sent : aired[i] \in Nat /\ aired[i] >= 1 /\ aired[i] <= LastMoment
<1>1. Sent \in Nat /\ DOMAIN aired = 1..Sent /\ \A i \in 1..Sent : aired[i] \in 1..LastMoment
  BY LenProperties, ElementOfSeq DEF LoraTypeOK, Sent
<1>2. Len(draining) \in Nat /\ Len(queued) \in Nat
  BY LenProperties DEF LoraTypeOK
<1>3. spilt \in Nat /\ moment \in Nat /\ airUsed \in Nat /\ windowStart \in Nat /\ cutUp \in Nat
  BY LoraFacts DEF LoraTypeOK
<1>. QED BY <1>1, <1>2, <1>3, LoraFacts DEF Departed

LEMMA LoraBegins == LoraInit => LoraInv
<1>. SUFFICES ASSUME LoraInit PROVE LoraInv
  OBVIOUS
<1>0. /\ aired = <<>> /\ draining = <<>> /\ queued = <<>> /\ Len(<<>>) = 0
      /\ \A S : <<>> \in Seq(S)
      /\ moment = 1 /\ airUsed = 0 /\ windowStart = 0 /\ spilt = 0 /\ cutUp = 0
  BY EmptySeq DEF LoraInit, budget
<1>1. LoraTypeOK
  BY <1>0, LoraFacts DEF LoraInit, LoraTypeOK
<1>2. Sent = 0 /\ Departed = 0
  BY <1>0 DEF Sent, Departed
<1>3. Airtime
  <2>1. InWindows(0, 0)
    BY <1>0, <1>2, LoraFacts DEF InWindows
  <2>2. \A t : Span(t) = {}
    BY <1>1, <1>2, LoraTypes DEF Span
  <2>. QED BY <1>2, <2>1, <2>2, FS_EmptySet, LoraFacts DEF Airtime
<1>4. InOrder
  BY <1>0, <1>2, LoraFacts DEF InOrder
<1>5. Earned
  BY FramesFit DEF LoraInit, Earned
<1>. QED BY <1>1, <1>3, <1>4, <1>5 DEF LoraInv

\* A drain takes what the airtime allows from the front of the queue.
LEMMA DrainTakes ==
  ASSUME LoraInv, NEW q \in Seq(FrameNumbers), DrainWithDest(q),
         Departed + Len(q) \in Nat, \A i \in 1..Len(q) : q[i] = Departed + i,
         UNCHANGED <<moment, aired, spilt>>
  PROVE  /\ draining' \in Seq(FrameNumbers) /\ queued' \in Seq(FrameNumbers)
         /\ airUsed' \in 0..MaxAirtime /\ windowStart' \in 0..moment
         /\ Len(draining') + Len(queued') = Len(q) /\ Airtime' /\ Departed' = Departed
         /\ \A i \in 1..Len(draining') : draining'[i] = Departed + i
         /\ \A i \in 1..Len(queued') : queued'[i] = Departed + Len(draining') + i
<1>0. LoraTypeOK /\ Airtime /\ draining = <<>> /\ Len(draining) = 0
  BY EmptySeq DEF LoraInv, DrainWithDest
<1>1. Spent \in Nat /\ Spent <= MaxAirtime
  BY <1>0, LoraFacts DEF LoraTypeOK, Spent
<1>. DEFINE F == Fits(q)
<1>2. Len(q) \in Nat /\ \A i \in 1..Len(q) : q[i] \in FrameNumbers
  BY LenProperties, ElementOfSeq
<1>3. F \in Nat /\ F <= Len(q) /\ Spent + F <= MaxAirtime
  BY <1>1, <1>2, LoraFacts DEF Fits
<1>4. /\ draining' = SubSeq(q, 1, F) /\ queued' = SubSeq(q, F + 1, Len(q)) /\ airUsed' = Spent + F
      /\ windowStart' = IF Rolls THEN moment ELSE windowStart
  BY DEF DrainWithDest
<1>. HIDE DEF F
<1>5. /\ draining' \in Seq(FrameNumbers) /\ Len(draining') = F
      /\ \A i \in 1..F : draining'[i] = q[i]
  <2>1. \A i \in 1..F : q[i] \in FrameNumbers
    BY <1>2, <1>3
  <2>2. /\ SubSeq(q, 1, F) \in Seq(FrameNumbers)
        /\ Len(SubSeq(q, 1, F)) = IF 1 <= F THEN F - 1 + 1 ELSE 0
        /\ \A i \in 1..(F - 1 + 1) : SubSeq(q, 1, F)[i] = q[1 + i - 1]
    BY <1>3, <2>1, SubSeqProperties
  <2>. QED BY <1>3, <1>4, <2>2
<1>6. /\ queued' \in Seq(FrameNumbers) /\ Len(queued') = Len(q) - F
      /\ \A i \in 1..(Len(q) - F) : queued'[i] = q[F + i]
  <2>1. \A i \in (F + 1)..Len(q) : q[i] \in FrameNumbers
    BY <1>2, <1>3
  <2>2. /\ SubSeq(q, F + 1, Len(q)) \in Seq(FrameNumbers)
        /\ Len(SubSeq(q, F + 1, Len(q))) = IF F + 1 <= Len(q) THEN Len(q) - (F + 1) + 1 ELSE 0
        /\ \A i \in 1..(Len(q) - (F + 1) + 1) : SubSeq(q, F + 1, Len(q))[i] = q[(F + 1) + i - 1]
    BY <1>2, <1>3, <2>1, SubSeqProperties
  <2>3. /\ Len(q) - (F + 1) + 1 = Len(q) - F
        /\ (IF F + 1 <= Len(q) THEN Len(q) - (F + 1) + 1 ELSE 0) = Len(q) - F
    <3>1. F + 1 > Len(q) => F = Len(q)
      BY <1>2, <1>3
    <3>. QED BY <1>2, <1>3, <3>1
  <2>4. Len(queued') = Len(q) - F
    BY <1>4, <2>2, <2>3
  <2>5. ASSUME NEW i \in 1..(Len(q) - F) PROVE queued'[i] = q[F + i]
    <3>1. (F + 1) + i - 1 = F + i
      BY <1>2, <1>3
    <3>. QED BY <1>4, <2>2, <2>3, <3>1
  <2>. QED BY <1>4, <2>2, <2>4, <2>5
<1>7. airUsed' \in 0..MaxAirtime /\ windowStart' \in 0..moment
  BY <1>0, <1>1, <1>3, <1>4, LoraTypes, LoraFacts DEF LoraTypeOK
<1>8. Departed' = Departed /\ Sent' = Sent /\ Departed \in Nat
  BY <1>0, LoraTypes DEF Departed, Sent
<1>9. Airtime'
  <2>1. PICK k0 \in 0..Sent : \E k1 \in 0..k0 : InWindows(k0, k1)
    BY <1>0 DEF Airtime
  <2>2. PICK k1 \in 0..k0 : InWindows(k0, k1)
    BY <2>1
  <2>3. Sent \in Nat /\ k0 \in Nat /\ k1 \in Nat /\ k0 <= Sent /\ k1 <= k0
    BY <1>0, LoraTypes
  <2>4. CASE Rolls
    <3>1. InWindows(Sent, k0)'
      <4>1. (Sent' - Sent') + Len(draining') <= airUsed'
        BY <1>1, <1>3, <1>4, <1>5, <1>8, <2>3
      <4>2. Sent' - k0 <= MaxAirtime
        BY <1>0, <1>8, <2>2, <2>3, LoraTypes, LoraFacts DEF InWindows, LoraTypeOK
      <4>3. \A i \in 1..k0 : aired[i] + WindowTicks <= moment
        <5>. SUFFICES ASSUME NEW i \in 1..k0 PROVE aired[i] + WindowTicks <= moment
          OBVIOUS
        <5>1. aired[i] <= windowStart /\ aired[i] \in Nat /\ aired[i] >= 1
          BY <1>0, <2>2, <2>3, LoraTypes DEF InWindows
        <5>2. moment - windowStart >= WindowTicks
          BY <1>0, <2>4, <5>1, LoraTypes DEF Rolls
        <5>3. moment \in Nat /\ windowStart \in Nat /\ WindowTicks \in Nat
          BY <1>0, LoraTypes, LoraFacts
        <5>. QED BY <5>1, <5>2, <5>3
      <4>4. \A i \in 1..Sent : aired[i] <= moment
        BY <1>0 DEF Airtime
      <4>. QED BY <1>4, <1>8, <2>4, <4>1, <4>2, <4>3, <4>4 DEF InWindows
    <3>2. Sent \in 0..Sent' /\ k0 \in 0..Sent
      BY <1>8, <2>3
    <3>3. \E j0 \in 0..Sent' : \E j1 \in 0..j0 : InWindows(j0, j1)'
      BY <1>8, <3>1, <3>2
    <3>. QED BY <1>0, <1>8, <3>3 DEF Airtime, Span
  <2>5. CASE ~Rolls
    <3>1. InWindows(k0, k1)'
      <4>1. (Sent - k0) + F <= airUsed + F
        BY <1>0, <1>3, <2>2, <2>3, LoraTypes DEF InWindows
      <4>. QED BY <1>4, <1>5, <1>8, <2>2, <2>5, <4>1 DEF InWindows, Spent
    <3>2. \E j0 \in 0..Sent' : \E j1 \in 0..j0 : InWindows(j0, j1)'
      BY <1>8, <3>1
    <3>. QED BY <1>0, <1>8, <3>2 DEF Airtime, Span
  <2>. QED BY <2>4, <2>5
<1>10. \A i \in 1..Len(draining') : draining'[i] = Departed + i
  BY <1>2, <1>3, <1>5
<1>11. \A i \in 1..Len(queued') : queued'[i] = Departed + Len(draining') + i
  BY <1>2, <1>3, <1>5, <1>6, <1>8
<1>12. Len(draining') + Len(queued') = Len(q)
  BY <1>2, <1>3, <1>5, <1>6
<1>. QED BY <1>5, <1>6, <1>7, <1>8, <1>9, <1>10, <1>11, <1>12

LEMMA SendAsyncKeeps == ASSUME LoraInv, SendAsync PROVE LoraInv'
<1>. DEFINE cut == [k \in 1..PerLetter |-> cutUp * PerLetter + k]
            q   == queued \o cut
<1>0. LoraTypeOK /\ InOrder /\ Earned
  BY DEF LoraInv
<1>1. /\ cutUp < LoraLetters /\ cutUp' = cutUp + 1 /\ DrainWithDest(q)
      /\ UNCHANGED <<moment, inAir, slots, arrived, handedUp, faults, aired, spilt>>
  BY DEF SendAsync, receiver
<1>2. /\ cutUp \in Nat /\ cutUp * PerLetter \in Nat /\ (cutUp + 1) * PerLetter = cutUp * PerLetter + PerLetter
      /\ cutUp * PerLetter + PerLetter <= LoraLetters * PerLetter
  BY <1>0, <1>1, LoraTypes, LettersFit
<1>3. cut \in Seq(FrameNumbers) /\ Len(cut) = PerLetter /\ \A k \in 1..PerLetter : cut[k] = cutUp * PerLetter + k
  <2>1. \A k \in 1..PerLetter : cutUp * PerLetter + k \in FrameNumbers
    BY <1>2, LoraFacts DEF FrameNumbers
  <2>2. cut \in [1..PerLetter -> FrameNumbers]
    BY <2>1
  <2>3. cut \in Seq(FrameNumbers) /\ Len(cut) = PerLetter
    BY <2>2, LoraFacts
  <2>. QED BY <2>3
<1>. HIDE DEF cut
<1>4. /\ Departed + Len(queued) = cutUp * PerLetter /\ \A i \in 1..Len(queued) : queued[i] = Departed + i
      /\ Departed \in Nat /\ Len(queued) \in Nat
  <2>1. Len(draining) = 0
    BY <1>1, EmptySeq DEF DrainWithDest
  <2>. QED BY <1>0, <2>1, LoraTypes DEF InOrder
<1>5. q \in Seq(FrameNumbers) /\ Len(q) = Len(queued) + PerLetter /\ \A i \in 1..Len(q) : q[i] = Departed + i
  <2>1. /\ q \in Seq(FrameNumbers) /\ Len(q) = Len(queued) + PerLetter
        /\ \A i \in 1..(Len(queued) + PerLetter) :
             q[i] = IF i <= Len(queued) THEN queued[i] ELSE cut[i - Len(queued)]
    BY <1>0, <1>3, ConcatProperties DEF LoraTypeOK
  <2>2. ASSUME NEW i \in 1..Len(q) PROVE q[i] = Departed + i
    <3>1. CASE i <= Len(queued)
      BY <1>4, <2>1, <2>2, <3>1
    <3>2. CASE i > Len(queued)
      <4>1. i - Len(queued) \in 1..PerLetter
        BY <1>4, <2>1, <2>2, <3>2, LoraFacts
      <4>2. q[i] = cutUp * PerLetter + (i - Len(queued))
        BY <1>3, <1>4, <2>1, <2>2, <3>2, <4>1
      <4>. QED BY <1>2, <1>4, <2>2, <4>2
    <3>. QED BY <1>4, <3>1, <3>2
  <2>. QED BY <2>1, <2>2
<1>. HIDE DEF q
<1>6. Departed + Len(q) = (cutUp + 1) * PerLetter /\ Departed + Len(q) \in Nat
  BY <1>2, <1>4, <1>5, LoraFacts
<1>7. /\ draining' \in Seq(FrameNumbers) /\ queued' \in Seq(FrameNumbers)
      /\ airUsed' \in 0..MaxAirtime /\ windowStart' \in 0..moment
      /\ Len(draining') + Len(queued') = Len(q) /\ Airtime' /\ Departed' = Departed
      /\ \A i \in 1..Len(draining') : draining'[i] = Departed + i
      /\ \A i \in 1..Len(queued') : queued'[i] = Departed + Len(draining') + i
  BY <1>1, <1>5, <1>6, DrainTakes
<1>8. LoraTypeOK'
  <2>1. cutUp' \in 0..LoraLetters
    BY <1>1, <1>2, LoraFacts
  <2>. QED BY <1>0, <1>1, <1>7, <2>1 DEF LoraTypeOK
<1>9. InOrder'
  <2>1. Len(draining') \in Nat /\ Len(queued') \in Nat
    BY <1>7, LenProperties
  <2>2. Departed' + Len(draining') + Len(queued') = Departed + Len(q)
    <3>1. Departed' = Departed /\ Departed \in Nat /\ Len(draining') + Len(queued') = Len(q)
      BY <1>4, <1>7
    <3>. QED BY <2>1, <3>1
  <2>3. Departed' + Len(draining') + Len(queued') = cutUp' * PerLetter
    BY <1>1, <1>6, <2>2
  <2>. QED BY <1>7, <2>3 DEF InOrder
<1>10. Earned'
  BY <1>0, <1>1 DEF Earned
<1>. QED BY <1>7, <1>8, <1>9, <1>10 DEF LoraInv

LEMMA FlushKeeps == ASSUME LoraInv, Flush PROVE LoraInv'
<1>0. LoraTypeOK /\ InOrder /\ Earned
  BY DEF LoraInv
<1>1. /\ DrainWithDest(queued)
      /\ UNCHANGED <<moment, cutUp, inAir, slots, arrived, handedUp, faults, aired, spilt>>
  BY DEF Flush, receiver
<1>2. /\ Departed + Len(queued) = cutUp * PerLetter /\ \A i \in 1..Len(queued) : queued[i] = Departed + i
      /\ Departed \in Nat /\ Len(queued) \in Nat /\ queued \in Seq(FrameNumbers)
  <2>1. Len(draining) = 0
    BY <1>1, EmptySeq DEF DrainWithDest
  <2>. QED BY <1>0, <2>1, LoraTypes DEF InOrder, LoraTypeOK
<1>3. /\ draining' \in Seq(FrameNumbers) /\ queued' \in Seq(FrameNumbers)
      /\ airUsed' \in 0..MaxAirtime /\ windowStart' \in 0..moment
      /\ Len(draining') + Len(queued') = Len(queued) /\ Airtime' /\ Departed' = Departed
      /\ \A i \in 1..Len(draining') : draining'[i] = Departed + i
      /\ \A i \in 1..Len(queued') : queued'[i] = Departed + Len(draining') + i
  BY <1>1, <1>2, DrainTakes
<1>4. LoraTypeOK'
  BY <1>0, <1>1, <1>3 DEF LoraTypeOK
<1>5. InOrder'
  <2>1. Len(draining') \in Nat /\ Len(queued') \in Nat
    BY <1>3, LenProperties
  <2>2. Departed' + Len(draining') + Len(queued') = cutUp' * PerLetter
    BY <1>1, <1>2, <1>3, <2>1
  <2>. QED BY <1>3, <2>2 DEF InOrder
<1>6. Earned'
  BY <1>0, <1>1 DEF Earned
<1>. QED BY <1>3, <1>4, <1>5, <1>6 DEF LoraInv

LEMMA SendFrameKeeps == ASSUME LoraInv, SendFrame PROVE LoraInv'
<1>0. LoraTypeOK /\ Airtime /\ InOrder /\ Earned
  BY DEF LoraInv
<1>1. /\ draining # <<>> /\ draining' = Tail(draining) /\ inAir' = inAir \cup {Head(draining)}
      /\ aired' = Append(aired, moment)
      /\ UNCHANGED <<moment, queued, airUsed, windowStart, cutUp, slots, arrived, handedUp, faults, spilt>>
  BY DEF SendFrame, budget, receiver
<1>2. /\ Sent \in Nat /\ Departed \in Nat /\ Len(draining) \in Nat /\ Len(queued) \in Nat /\ moment \in Nat
      /\ moment \in 1..LastMoment /\ aired \in Seq(1..LastMoment) /\ draining \in Seq(FrameNumbers)
      /\ Departed = Sent + spilt /\ spilt \in Nat
  BY <1>0, LoraTypes DEF LoraTypeOK, Departed
<1>3. /\ draining' \in Seq(FrameNumbers) /\ Head(draining) \in FrameNumbers
      /\ Len(draining') = Len(draining) - 1 /\ Len(draining) >= 1
      /\ \A i \in 1..Len(draining') : draining'[i] = draining[i + 1]
  <2>1. /\ Head(draining) \in FrameNumbers /\ Tail(draining) \in Seq(FrameNumbers)
        /\ Len(Tail(draining)) = Len(draining) - 1
        /\ \A i \in 1..Len(Tail(draining)) : Tail(draining)[i] = draining[i + 1]
    BY <1>1, <1>2, HeadTailProperties
  <2>2. Len(draining) \in Nat \ {0}
    BY <1>1, <1>2, EmptySeq
  <2>. QED BY <1>1, <2>1, <2>2
<1>4. /\ aired' \in Seq(1..LastMoment) /\ Sent' = Sent + 1 /\ aired'[Sent + 1] = moment
      /\ \A i \in 1..Sent : aired'[i] = aired[i]
      /\ Departed' = Departed + 1
  <2>1. /\ aired' \in Seq(1..LastMoment) /\ Len(aired') = Len(aired) + 1
        /\ aired'[Len(aired) + 1] = moment /\ \A i \in 1..Len(aired) : aired'[i] = aired[i]
    BY <1>1, <1>2, AppendProperties
  <2>. QED BY <1>1, <1>2, <2>1 DEF Sent, Departed
<1>5. LoraTypeOK'
  BY <1>0, <1>1, <1>3, <1>4 DEF LoraTypeOK
<1>6. InOrder'
  <2>1. Departed' + Len(draining') + Len(queued') = cutUp' * PerLetter
    BY <1>0, <1>1, <1>2, <1>3, <1>4 DEF InOrder
  <2>2. ASSUME NEW i \in 1..Len(draining') PROVE draining'[i] = Departed' + i
    <3>1. i + 1 \in 1..Len(draining) /\ (Departed + 1) + i = Departed + (i + 1)
      BY <1>2, <1>3, <2>2
    <3>. QED BY <1>0, <1>3, <1>4, <2>2, <3>1 DEF InOrder
  <2>3. ASSUME NEW i \in 1..Len(queued') PROVE queued'[i] = Departed' + Len(draining') + i
    <3>1. (Departed + 1) + (Len(draining) - 1) + i = Departed + Len(draining) + i
      BY <1>1, <1>2, <2>3
    <3>. QED BY <1>0, <1>1, <1>3, <1>4, <2>3, <3>1 DEF InOrder
  <2>. QED BY <2>1, <2>2, <2>3 DEF InOrder
<1>7. Airtime'
  <2>1. PICK k0 \in 0..Sent : \E k1 \in 0..k0 : InWindows(k0, k1)
    BY <1>0 DEF Airtime
  <2>2. PICK k1 \in 0..k0 : InWindows(k0, k1)
    BY <2>1
  <2>3. /\ k0 \in Nat /\ k1 \in Nat /\ k0 <= Sent /\ k1 <= k0 /\ airUsed \in Nat /\ airUsed <= MaxAirtime
        /\ windowStart \in Nat /\ windowStart <= moment
    BY <1>0, <1>2, LoraFacts DEF LoraTypeOK
  <2>4. InWindows(k0, k1)'
    <3>1. (Sent + 1 - k0) + (Len(draining) - 1) <= airUsed
      BY <1>2, <1>3, <2>2, <2>3 DEF InWindows
    <3>2. (Sent' - k0) + Len(draining') <= airUsed'
      <4>1. Sent' = Sent + 1 /\ Len(draining') = Len(draining) - 1 /\ airUsed' = airUsed
        BY <1>1, <1>3, <1>4
      <4>. QED BY <1>2, <2>3, <3>1, <4>1
    <3>3. \A i \in 1..k0 : aired'[i] = aired[i]
      BY <1>2, <1>4, <2>3
    <3>4. \A i \in 1..k1 : aired'[i] = aired[i]
      BY <1>2, <1>4, <2>3
    <3>. QED BY <1>1, <2>2, <3>2, <3>3, <3>4 DEF InWindows
  <2>5. ASSUME NEW i \in 1..Sent' PROVE aired'[i] <= moment
    <3>1. CASE i \in 1..Sent
      <4>1. aired'[i] = aired[i]
        BY <1>4, <3>1
      <4>2. aired[i] <= moment
        BY <1>0, <3>1 DEF Airtime
      <4>. QED BY <4>1, <4>2
    <3>2. CASE i = Sent + 1
      BY <1>2, <1>4, <3>2
    <3>3. Sent' = Sent + 1
      BY <1>4
    <3>. QED BY <1>2, <2>5, <3>1, <3>2, <3>3
  <2>6. ASSUME NEW t \in 1..LastMoment PROVE Cardinality(Span(t)') <= 2 * MaxAirtime
    <3>1. t \in Nat /\ DOMAIN aired = 1..Sent /\ DOMAIN aired' = 1..(Sent + 1)
      BY <1>0, <1>4, <1>5, LoraTypes, LoraFacts, LenProperties DEF LoraTypeOK, Sent
    <3>2. CASE ~(moment >= t /\ moment < t + WindowTicks)
      <4>1. Span(t)' = Span(t)
        BY <1>2, <1>4, <3>1, <3>2 DEF Span
      <4>. QED BY <1>0, <2>6, <4>1 DEF Airtime
    <3>3. CASE moment >= t /\ moment < t + WindowTicks
      <4>1. Span(t)' \subseteq (k1 + 1)..(Sent + 1)
        <5>. SUFFICES ASSUME NEW i \in 1..(Sent + 1), aired'[i] >= t, i <= k1 PROVE FALSE
          BY <1>2, <2>3, <3>1 DEF Span
        <5>1. i \in 1..k1 /\ i \in 1..Sent /\ aired'[i] = aired[i]
          BY <1>2, <1>4, <2>3
        <5>2. aired[i] + WindowTicks <= windowStart /\ aired[i] \in Nat
          BY <1>0, <2>2, <5>1, LoraTypes DEF InWindows
        <5>. QED BY <1>2, <2>3, <3>1, <3>3, <5>1, <5>2, LoraFacts
      <4>2. (Sent + 1) - (k1 + 1) + 1 <= 2 * MaxAirtime
        BY <1>2, <1>3, <2>2, <2>3, LoraFacts DEF InWindows
      <4>3. /\ IsFiniteSet((k1 + 1)..(Sent + 1))
            /\ Cardinality((k1 + 1)..(Sent + 1)) = (Sent + 1) - (k1 + 1) + 1
        <5>1. k1 + 1 \in Int /\ Sent + 1 \in Int /\ ~(k1 + 1 > Sent + 1)
          BY <1>2, <2>3
        <5>. QED BY <5>1, FS_Interval
      <4>4. Cardinality(Span(t)') <= Cardinality((k1 + 1)..(Sent + 1)) /\ Cardinality(Span(t)') \in Nat
        BY <4>1, <4>3, FS_Subset, FS_CardinalityType
      <4>. QED BY <1>2, <2>3, <4>2, <4>3, <4>4, LoraFacts
    <3>. QED BY <3>2, <3>3
  <2>7. \E j0 \in 0..Sent' : \E j1 \in 0..j0 : InWindows(j0, j1)'
    BY <1>2, <1>4, <2>3, <2>4
  <2>. QED BY <1>1, <2>5, <2>6, <2>7 DEF Airtime
<1>8. Earned'
  BY <1>0, <1>1 DEF Earned
<1>. QED BY <1>5, <1>6, <1>7, <1>8 DEF LoraInv

LEMMA RaisesKeeps == ASSUME LoraInv, SendFrameRaises PROVE LoraInv'
<1>0. LoraTypeOK /\ Airtime /\ InOrder /\ Earned
  BY DEF LoraInv
<1>1. /\ draining' = <<>> /\ Len(draining') = 0 /\ draining' \in Seq(FrameNumbers)
      /\ faults < MaxRadioFaults /\ faults' = faults + 1 /\ spilt' = spilt + Len(draining)
      /\ UNCHANGED <<moment, queued, airUsed, windowStart, cutUp, inAir, slots, arrived, handedUp, aired>>
  BY EmptySeq DEF SendFrameRaises, budget, receiver
<1>2. /\ Sent \in Nat /\ Departed \in Nat /\ Len(draining) \in Nat /\ Len(queued) \in Nat
      /\ Departed = Sent + spilt /\ spilt \in Nat /\ Sent' = Sent
  BY <1>0, <1>1, LoraTypes DEF Departed, Sent
<1>3. LoraTypeOK'
  <2>1. faults' \in 0..MaxRadioFaults /\ spilt' \in Nat
    BY <1>0, <1>1, <1>2, LoraFacts DEF LoraTypeOK
  <2>. QED BY <1>0, <1>1, <2>1 DEF LoraTypeOK
<1>4. Airtime'
  <2>1. PICK k0 \in 0..Sent : \E k1 \in 0..k0 : InWindows(k0, k1)
    BY <1>0 DEF Airtime
  <2>2. PICK k1 \in 0..k0 : InWindows(k0, k1)
    BY <2>1
  <2>3. (Sent' - k0) + Len(draining') <= airUsed'
    <3>1. airUsed \in Nat /\ k0 \in Nat
      BY <1>0, <1>2, LoraTypes
    <3>. QED BY <1>1, <1>2, <2>2, <3>1 DEF InWindows
  <2>4. InWindows(k0, k1)'
    BY <1>1, <2>2, <2>3 DEF InWindows
  <2>5. \E j0 \in 0..Sent' : \E j1 \in 0..j0 : InWindows(j0, j1)'
    BY <1>2, <2>4
  <2>. QED BY <1>0, <1>1, <1>2, <2>5 DEF Airtime, Span
<1>5. InOrder'
  <2>1. Departed' = Departed + Len(draining)
    BY <1>1, <1>2 DEF Departed
  <2>. QED BY <1>0, <1>1, <1>2, <2>1 DEF InOrder
<1>6. Earned'
  BY <1>0, <1>1 DEF Earned
<1>. QED BY <1>3, <1>4, <1>5, <1>6 DEF LoraInv

\* A step of the clock or of the air leaves the sender as it is.
LEMMA SenderKeeps ==
  ASSUME LoraInv, UNCHANGED <<queued, airUsed, windowStart, draining, cutUp, aired, spilt>>,
         moment' \in Nat, moment' >= moment
  PROVE  Airtime' /\ InOrder'
<1>0. LoraTypeOK /\ Airtime /\ InOrder
  BY DEF LoraInv
<1>1. Sent' = Sent /\ Departed' = Departed /\ Sent \in Nat
  BY <1>0, LoraTypes DEF Sent, Departed
<1>2. InOrder'
  BY <1>0, <1>1 DEF InOrder
<1>3. ASSUME NEW i \in 1..Sent PROVE aired[i] <= moment'
  BY <1>0, LoraTypes DEF Airtime
<1>4. \A k0, k1 : InWindows(k0, k1)' <=> InWindows(k0, k1)
  BY <1>1 DEF InWindows
<1>5. \A t : Span(t)' = Span(t)
  BY DEF Span
<1>. QED BY <1>0, <1>1, <1>2, <1>3, <1>4, <1>5 DEF Airtime

LEMMA TicksKeeps == ASSUME LoraInv, ClockTicks PROVE LoraInv'
<1>0. LoraTypeOK /\ Earned /\ moment \in Nat /\ windowStart \in Nat
  BY LoraTypes DEF LoraInv
<1>1. /\ moment < LastMoment /\ moment' = moment + 1
      /\ UNCHANGED <<queued, airUsed, windowStart, draining, cutUp, inAir, slots, arrived, handedUp,
                     faults, aired, spilt>>
  BY DEF ClockTicks, budget, receiver
<1>2. LoraTypeOK'
  <2>1. moment' \in 1..LastMoment /\ windowStart' \in 0..moment'
    BY <1>0, <1>1, LoraFacts DEF LoraTypeOK
  <2>. QED BY <1>0, <1>1, <2>1 DEF LoraTypeOK
<1>3. Earned'
  BY <1>0, <1>1 DEF Earned
<1>. QED BY <1>0, <1>1, <1>2, <1>3, SenderKeeps DEF LoraInv

LEMMA AirLossKeeps == ASSUME LoraInv, NEW k \in inAir, LoseFrame(k) PROVE LoraInv'
<1>0. LoraTypeOK /\ Earned /\ moment \in Nat
  BY LoraTypes DEF LoraInv
<1>1. /\ faults < MaxRadioFaults /\ faults' = faults + 1 /\ inAir' = inAir \ {k}
      /\ UNCHANGED <<moment, queued, airUsed, windowStart, draining, cutUp, slots, arrived, handedUp,
                     aired, spilt>>
  BY DEF LoseFrame, budget, receiver
<1>2. LoraTypeOK'
  <2>1. faults' \in 0..MaxRadioFaults
    BY <1>0, <1>1, LoraFacts DEF LoraTypeOK
  <2>. QED BY <1>0, <1>1, <2>1 DEF LoraTypeOK
<1>3. Earned'
  BY <1>0, <1>1 DEF Earned
<1>. QED BY <1>0, <1>1, <1>2, <1>3, SenderKeeps DEF LoraInv

\* A letter that is complete uses up one arrival of each of its frames.
LEMMA HearFrameKeeps == ASSUME LoraInv, NEW k \in inAir, HearFrame(k) \/ HearTwice(k) PROVE LoraInv'
<1>. DEFINE l == LetterOf(k)
            held == slots[l] \cup {k}
<1>0. LoraTypeOK /\ Earned /\ moment \in Nat /\ k \in FrameNumbers
  BY LoraTypes DEF LoraInv, LoraTypeOK
<1>1. /\ inAir' \subseteq inAir /\ faults' \in 0..MaxRadioFaults
      /\ UNCHANGED <<moment, queued, airUsed, windowStart, draining, cutUp, aired, spilt>>
      /\ arrived' = [arrived EXCEPT ![k] = arrived[k] + 1]
      /\ \/ /\ held = FramesOf(l) /\ slots' = [slots EXCEPT ![l] = {}]
            /\ handedUp' = [handedUp EXCEPT ![l] = handedUp[l] + 1]
         \/ slots' = [slots EXCEPT ![l] = held] /\ UNCHANGED handedUp
  <2>1. Hear(k) /\ inAir' \subseteq inAir
    BY DEF HearFrame, HearTwice
  <2>2. faults' \in 0..MaxRadioFaults
    BY <1>0, LoraFacts DEF HearFrame, HearTwice, LoraTypeOK
  <2>. QED BY <2>1, <2>2 DEF Hear, budget
<1>. HIDE DEF l
<1>2. /\ arrived' \in [FrameNumbers -> Nat] /\ arrived'[k] = arrived[k] + 1
      /\ \A j \in FrameNumbers : j # k => arrived'[j] = arrived[j]
      /\ \A j \in FrameNumbers : arrived[j] \in Nat
  BY <1>0, <1>1 DEF LoraTypeOK
<1>3. /\ slots \in [LetterNumbers -> SUBSET FrameNumbers] /\ handedUp \in [LetterNumbers -> Nat]
      /\ \A m \in LetterNumbers : handedUp[m] \in Nat
  BY <1>0 DEF LoraTypeOK
<1>4. LoraTypeOK'
  <2>1. slots' \in [LetterNumbers -> SUBSET FrameNumbers]
    BY <1>0, <1>1, <1>3
  <2>2. handedUp' \in [LetterNumbers -> Nat]
    BY <1>1, <1>3
  <2>. QED BY <1>0, <1>1, <1>2, <2>1, <2>2 DEF LoraTypeOK
<1>5. ASSUME NEW m \in LetterNumbers, NEW j \in FramesOf(m)
      PROVE  handedUp'[m] <= arrived'[j] /\ (j \in slots'[m] => handedUp'[m] < arrived'[j])
  <2>1. j \in FrameNumbers
    BY <1>5, FramesFit
  <2>2. handedUp[m] <= arrived[j] /\ (j \in slots[m] => handedUp[m] < arrived[j])
    BY <1>0, <1>5 DEF Earned
  <2>3. handedUp[m] \in Nat /\ arrived[j] \in Nat /\ arrived'[j] = IF j = k THEN arrived[j] + 1 ELSE arrived[j]
    BY <1>2, <1>3, <2>1
  <2>4. CASE m # l
    <3>1. slots'[m] = slots[m] /\ handedUp'[m] = handedUp[m]
      BY <1>1, <1>3, <2>4
    <3>. QED BY <2>2, <2>3, <3>1
  <2>5. CASE m = l /\ slots' = [slots EXCEPT ![l] = held] /\ UNCHANGED handedUp
    <3>1. slots'[m] = slots[m] \cup {k} /\ handedUp'[m] = handedUp[m]
      BY <1>3, <2>5
    <3>. QED BY <2>2, <2>3, <3>1
  <2>6. CASE /\ m = l /\ held = FramesOf(l) /\ slots' = [slots EXCEPT ![l] = {}]
             /\ handedUp' = [handedUp EXCEPT ![l] = handedUp[l] + 1]
    <3>1. slots'[m] = {} /\ handedUp'[m] = handedUp[m] + 1
      BY <1>3, <2>6
    <3>2. j \in slots[m] \/ j = k
      BY <1>5, <2>6
    <3>. QED BY <2>2, <2>3, <3>1, <3>2
  <2>. QED BY <1>1, <2>4, <2>5, <2>6
<1>6. Earned'
  BY <1>5 DEF Earned
<1>. QED BY <1>0, <1>1, <1>4, <1>6, SenderKeeps DEF LoraInv

LEMMA LoraStep == LoraInv /\ [LoraNext]_loraVars => LoraInv'
<1>. SUFFICES ASSUME LoraInv, [LoraNext]_loraVars PROVE LoraInv'
  OBVIOUS
<1>1. CASE UNCHANGED loraVars
  <2>1. UNCHANGED <<moment, queued, airUsed, windowStart, draining, cutUp, inAir, slots, arrived, handedUp,
                    faults, aired, spilt>>
    BY <1>1 DEF loraVars, budget, receiver
  <2>2. LoraTypeOK /\ Earned /\ moment \in Nat
    BY LoraTypes DEF LoraInv
  <2>3. LoraTypeOK' /\ Earned'
    BY <2>1, <2>2 DEF LoraTypeOK, Earned
  <2>. QED BY <2>1, <2>2, <2>3, SenderKeeps DEF LoraInv
<1>2. CASE SendAsync \/ Flush \/ SendFrame \/ SendFrameRaises \/ ClockTicks
  BY <1>2, SendAsyncKeeps, FlushKeeps, SendFrameKeeps, RaisesKeeps, TicksKeeps
<1>3. CASE \E k \in inAir : LoseFrame(k) \/ HearFrame(k) \/ HearTwice(k)
  BY <1>3, AirLossKeeps, HearFrameKeeps
<1>. QED BY <1>1, <1>2, <1>3 DEF LoraNext

LEMMA LoraHolds == LoraInv => LoraTypeOK /\ LoraKeeps
<1>. SUFFICES ASSUME LoraInv PROVE LoraKeeps
  BY DEF LoraInv
<1>. DEFINE n == cutUp * PerLetter - Departed
            waiting == draining \o queued
<1>0. LoraTypeOK /\ Airtime /\ InOrder /\ Earned
  BY DEF LoraInv
<1>1. /\ waiting \in Seq(FrameNumbers) /\ Len(waiting) = Len(draining) + Len(queued)
      /\ \A i \in 1..(Len(draining) + Len(queued)) :
           waiting[i] = IF i <= Len(draining) THEN draining[i] ELSE queued[i - Len(draining)]
  BY <1>0, ConcatProperties DEF LoraTypeOK
<1>2. Departed \in Nat /\ Len(draining) \in Nat /\ Len(queued) \in Nat /\ cutUp \in Nat
  BY <1>0, LoraTypes
<1>3. n = Len(waiting)
  BY <1>0, <1>1, <1>2, LoraFacts DEF InOrder
<1>4. ASSUME NEW i \in 1..Len(waiting) PROVE waiting[i] = Departed + i
  <2>1. CASE i <= Len(draining)
    BY <1>0, <1>1, <1>2, <1>4, <2>1 DEF InOrder
  <2>2. CASE i > Len(draining)
    <3>1. i - Len(draining) \in 1..Len(queued) /\ Departed + Len(draining) + (i - Len(draining)) = Departed + i
      BY <1>1, <1>2, <1>4, <2>2
    <3>2. waiting[i] = queued[i - Len(draining)]
      BY <1>1, <1>2, <1>4, <2>2
    <3>. QED BY <1>0, <3>1, <3>2 DEF InOrder
  <2>. QED BY <1>1, <1>2, <1>4, <2>1, <2>2
<1>5. waiting = [i \in 1..Len(waiting) |-> waiting[i]]
  <2>1. waiting \in [1..Len(waiting) -> FrameNumbers]
    BY <1>1, LenProperties
  <2>. QED BY <2>1
<1>6. waiting = [i \in 1..n |-> Departed + i]
  <2>. HIDE DEF waiting, n
  <2>1. [i \in 1..Len(waiting) |-> waiting[i]] = [i \in 1..Len(waiting) |-> Departed + i]
    BY <1>4
  <2>. QED BY <1>3, <1>5, <2>1
<1>7. \A l \in LetterNumbers : \A k \in FramesOf(l) : handedUp[l] <= arrived[k]
  BY <1>0 DEF Earned
<1>. QED BY <1>0, <1>6, <1>7 DEF LoraKeeps, Airtime, Departed, Sent

(* Where the loop, Syncthing and a publish keep their times, the heartbeat *)
(* file a peer reads is whole and recent; the mesh reaches whom it can,    *)
(* once; and the LoRa rail keeps its airtime and its order.  The three     *)
(* share no state.                                                         *)
THEOREM BeaconsAreTrue ==
  MeshSpec /\ LoraSpec /\ HeartbeatSpec => [](BeaconsKeep /\ MeshTypeOK /\ LoraTypeOK /\ HeartbeatTypeOK)
<1>1. MeshSpec => [](MeshTypeOK /\ MeshKeeps)
  <2>1. MeshSpec => []MeshInv
    BY MeshBegins, MeshStep, PTL DEF MeshSpec
  <2>. QED BY <2>1, MeshHolds, PTL
<1>2. LoraSpec => [](LoraTypeOK /\ LoraKeeps)
  <2>1. LoraSpec => []LoraInv
    BY LoraBegins, LoraStep, PTL DEF LoraSpec
  <2>. QED BY <2>1, LoraHolds, PTL
<1>3. HeartbeatSpec => [](HeartbeatTypeOK /\ HeartbeatKeeps)
  <2>1. HeartbeatSpec => []BeatInv
    BY BeatBegins, BeatStep, PTL DEF HeartbeatSpec
  <2>. QED BY <2>1, BeatHolds, PTL
<1>4. MeshKeeps /\ LoraKeeps /\ HeartbeatKeeps => BeaconsKeep
  BY DEF RadioKeeps, BeaconsKeep
<1>. QED BY <1>1, <1>2, <1>3, <1>4, PTL
===============================================================================
