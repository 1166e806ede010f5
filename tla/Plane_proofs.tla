----------------------------- MODULE Plane_proofs ------------------------------
(***************************************************************************)
(* Proofs about the parts of a node's planes that share no state with one  *)
(* another: the directory of a realm, its resolving cache, the socket of   *)
(* the WebSocket rail, the grants of the access plane, the rate limiter,   *)
(* the channel adapters and, at the end, the gate of the federation.       *)
(***************************************************************************)
EXTENDS Federation, Directory, RealmCache, Socket, Access, RateLimit,
        Adapters, FiniteSetTheorems, SequenceTheorems, TLAPS

USE DEF directoryVars, realmCacheVars, socketVars

-------------------------------------------------------------------------------
(* The directory of a realm: what it lists was announced, and as long as its *)
(* writers take turns it can be read and holds what each agent was answered *)
(* for last; for any agents, writers and deaths of writers.                *)

Busy(w) == writing[w] # Resting
AtWork  == [step : {"open", "flush", "rename"}, new : Directories,
            handle : {"none", "tmp", "directory", "gone"}, whose : SUBSET Announcers]

\* Nothing on disk, in memory or under way is newer than what its agent announced.
WithinAnnounced(list) == \A a \in Announcers : list[a].address <= announced[a]
NothingAhead ==
  /\ WithinAnnounced(directory.list) /\ WithinAnnounced(dirTmp.list)
  /\ \A w \in DirWriters : Busy(w) => WithinAnnounced(writing[w].new)
  /\ \A a \in Announcers, v \in 1..MaxAddress : <<a, v>> \in underWay => v <= announced[a]

\* A writer that nobody disturbs: it starts from what was confirmed, changes the entries it
\* is answerable for, and renames what it wrote.
TakingTurns == ~collided =>
  /\ \A v, w \in DirWriters : Busy(v) /\ Busy(w) => v = w
  /\ directory # Torn /\ \A a \in Announcers : Loaded[a].address = confirmed[a]
  /\ \A w \in DirWriters : Busy(w) =>
       /\ \A a \in Announcers \ writing[w].whose : writing[w].new[a].address = Loaded[a].address
       /\ writing[w].step = "flush" => writing[w].handle = "tmp" /\ dirTmp = Torn
       /\ writing[w].step = "rename" => dirTmp = Holding(writing[w].new)

DirInv == DirectoryTypeOK /\ NothingAhead /\ TakingTurns


-------------------------------------------------------------------------------
LEMMA FileFacts ==
  /\ Empty \in Directories /\ Torn \in Files /\ Missing \in Files /\ Torn # Missing
  /\ \A list \in Directories : /\ Holding(list) \in Files /\ Holding(list).list = list
                               /\ Holding(list) # Torn /\ Holding(list) # Missing
  /\ \A f \in Files : f.list \in Directories
<1>1. Empty \in Directories
  BY DEF Empty, Directories, Entries
<1>2. Torn \in Files /\ Missing \in Files /\ Torn # Missing
  BY DEF Files, Torn, Missing
<1>3. ASSUME NEW list \in Directories
      PROVE  /\ Holding(list) \in Files /\ Holding(list).list = list
             /\ Holding(list) # Torn /\ Holding(list) # Missing
  BY DEF Files, Holding, Torn, Missing
<1>4. ASSUME NEW f \in Files PROVE f.list \in Directories
  <2>1. CASE f \in {Torn, Missing}
    BY <1>1, <2>1 DEF Torn, Missing
  <2>2. CASE \E list \in Directories : f = Holding(list)
    BY <1>3, <2>2
  <2>. QED BY <2>1, <2>2 DEF Files
<1>. QED BY <1>1, <1>2, <1>3, <1>4

LEMMA WriterFacts ==
  ASSUME DirectoryTypeOK, NEW w \in DirWriters
  PROVE  /\ Busy(w) => writing[w] \in AtWork /\ writing[w].step # "idle"
         /\ ~Busy(w) => writing[w] = Resting /\ writing[w].step = "idle"
         /\ Resting \in Writing /\ AtWork \subseteq Writing
BY DEF DirectoryTypeOK, Writing, Resting, Busy, AtWork

-------------------------------------------------------------------------------
(* A process that begins to change the directory.                          *)
LEMMA Beginning ==
  ASSUME DirInv, NEW w \in DirWriters, NEW new \in Directories, NEW whose \in SUBSET Announcers,
         Begin(w, new, whose), WithinAnnounced(new),
         \A a \in Announcers \ whose : new[a].address = Loaded[a].address,
         underWay' \subseteq underWay,
         UNCHANGED <<directory, dirTmp, announced, confirmed, writerDeaths>>
  PROVE  DirInv'
<1>. DEFINE begun == [step |-> "open", new |-> new, handle |-> "none", whose |-> whose]
<1>1. begun \in AtWork /\ begun # Resting /\ begun \in Writing
  BY DEF AtWork, Resting, Writing
<1>2. /\ writing' = [writing EXCEPT ![w] = begun] /\ writing \in [DirWriters -> Writing]
      /\ ~Busy(w) /\ collided' = (collided \/ \E v \in DirWriters : Busy(v))
  BY DEF Begin, DirInv, DirectoryTypeOK, Busy
<1>3. DirectoryTypeOK'
  BY <1>1, <1>2 DEF DirInv, DirectoryTypeOK
<1>4. \A v \in DirWriters : v # w => writing'[v] = writing[v]
  BY <1>2
<1>5. writing'[w] = begun
  BY <1>2
<1>6. NothingAhead'
  BY <1>4, <1>5 DEF NothingAhead, DirInv, WithinAnnounced, Busy
<1>7. TakingTurns'
  <2>. SUFFICES ASSUME ~collided' PROVE TakingTurns'
    BY DEF TakingTurns
  <2>1. ~collided /\ \A v \in DirWriters : ~Busy(v)
    BY <1>2, <1>3 DEF DirInv, DirectoryTypeOK
  <2>2. \A v \in DirWriters : Busy(v)' => v = w
    BY <1>4, <2>1 DEF Busy
  <2>. QED BY <1>5, <2>1, <2>2 DEF TakingTurns, DirInv, Loaded
<1>. QED BY <1>3, <1>6, <1>7 DEF DirInv

LEMMA DirInit == DirectoryInit => DirInv
<1>. SUFFICES ASSUME DirectoryInit PROVE DirInv
  OBVIOUS
<1>1. \A a \in Announcers : Empty[a].address = 0
  BY DEF Empty, NoEntry
<1>2. directory = Holding(Empty) /\ directory.list = Empty /\ dirTmp.list = Empty
      /\ directory # Torn /\ directory # Missing
  BY FileFacts DEF DirectoryInit, Missing
<1>3. DirectoryTypeOK
  <2>1. directory \in Files \ {Missing} /\ dirTmp \in Files
    BY <1>2, FileFacts DEF DirectoryInit
  <2>2. writing \in [DirWriters -> Writing]
    BY DEF DirectoryInit, Writing
  <2>3. underWay \subseteq Announcers \X (1..MaxAddress)
    BY DEF DirectoryInit
  <2>4. 0 \in 0..MaxAddress /\ 0 \in 0..MaxWriterDeaths
    BY DirectoryAssumption
  <2>. QED BY <2>1, <2>2, <2>3, <2>4 DEF DirectoryInit, DirectoryTypeOK
<1>4. \A w \in DirWriters : ~Busy(w)
  BY DEF DirectoryInit, Busy
<1>5. NothingAhead
  BY <1>1, <1>2, <1>4, DirectoryAssumption DEF DirectoryInit, NothingAhead, WithinAnnounced
<1>6. TakingTurns
  BY <1>1, <1>2, <1>4 DEF DirectoryInit, TakingTurns, Loaded
<1>. QED BY <1>3, <1>5, <1>6 DEF DirInv

LEMMA DirStep ==
  ASSUME DirInv, [DirectoryNext]_directoryVars
  PROVE  DirInv'
<1>. USE DEF DirInv
<1>1. ASSUME NEW a \in Announcers, Announce(a) PROVE DirInv'
  <2>1. announced \in [Announcers -> Nat] /\ announced[a] + 1 \in 1..MaxAddress
        /\ announced' = [announced EXCEPT ![a] = @ + 1]
    BY <1>1, DirectoryAssumption DEF Announce, DirectoryTypeOK
  <2>2. \A b \in Announcers : announced[b] <= announced'[b]
    BY <2>1
  <2>3. DirectoryTypeOK'
    BY <1>1, <2>1, DirectoryAssumption DEF Announce, DirectoryTypeOK
  <2>4. \A list \in Directories : WithinAnnounced(list) => WithinAnnounced(list)'
    <3>. SUFFICES ASSUME NEW list \in Directories, WithinAnnounced(list), NEW b \in Announcers
                  PROVE  list[b].address <= announced'[b]
      BY DEF WithinAnnounced
    <3>1. list[b].address \in Nat
      BY DEF Directories, Entries, NoEntry
    <3>. QED BY <2>1, <2>2, <3>1 DEF WithinAnnounced
  <2>5. NothingAhead'
    <3>1. directory.list \in Directories /\ dirTmp.list \in Directories
      BY FileFacts DEF DirectoryTypeOK
    <3>2. \A w \in DirWriters : Busy(w) => writing[w].new \in Directories
      BY WriterFacts DEF AtWork
    <3>3. WithinAnnounced(directory.list)' /\ WithinAnnounced(dirTmp.list)'
      BY <1>1, <2>4, <3>1 DEF Announce, NothingAhead, WithinAnnounced
    <3>4. \A w \in DirWriters : Busy(w)' => WithinAnnounced(writing[w].new)'
      BY <1>1, <2>4, <3>2 DEF Announce, NothingAhead, WithinAnnounced, Busy
    <3>5. \A b \in Announcers, v \in 1..MaxAddress : <<b, v>> \in underWay' => v <= announced'[b]
      BY <1>1, <2>1, <2>2 DEF Announce, NothingAhead
    <3>. QED BY <3>3, <3>4, <3>5 DEF NothingAhead
  <2>6. TakingTurns'
    BY <1>1 DEF Announce, TakingTurns, Busy, Loaded
  <2>. QED BY <2>3, <2>5, <2>6
<1>2. ASSUME NEW w \in DirWriters, NEW a \in Announcers, NEW v \in 1..MaxAddress, Upsert(w, a, v)
      PROVE  DirInv'
  <2>. DEFINE new == [Loaded EXCEPT ![a] = [address |-> v, neutral |-> FALSE]]
  <2>1. Loaded \in Directories /\ v <= announced[a] /\ WithinAnnounced(Loaded)
    BY <1>2, FileFacts DEF Upsert, DirectoryTypeOK, NothingAhead, Loaded
  <2>2. new \in Directories
    BY <2>1 DEF Directories, Entries
  <2>3. /\ \A b \in Announcers \ {a} : new[b] = Loaded[b]
        /\ new[a].address = v
    BY <2>1 DEF Directories
  <2>4. WithinAnnounced(new)
    BY <2>1, <2>3 DEF WithinAnnounced
  <2>. HIDE DEF new
  <2>5. /\ Begin(w, new, {a}) /\ underWay' \subseteq underWay /\ {a} \in SUBSET Announcers
        /\ UNCHANGED <<directory, dirTmp, announced, confirmed, writerDeaths>>
    BY <1>2 DEF Upsert, new
  <2>6. \A b \in Announcers \ {a} : new[b].address = Loaded[b].address
    BY <2>3
  <2>. QED BY <2>2, <2>4, <2>5, <2>6, Beginning
<1>3. ASSUME NEW w \in DirWriters, Readdress(w) PROVE DirInv'
  <2>. DEFINE new == [a \in Announcers |-> Neutral(Loaded[a])]
  <2>1. Loaded \in Directories /\ WithinAnnounced(Loaded)
    BY FileFacts DEF DirectoryTypeOK, NothingAhead, Loaded
  <2>2. ASSUME NEW e \in Entries PROVE Neutral(e) \in Entries /\ Neutral(e).address = e.address
    <3>1. CASE Leaky(e)
      <4>1. e \in [address : 1..MaxAddress, neutral : BOOLEAN]
        BY <3>1 DEF Leaky, Entries
      <4>. QED BY <3>1, <4>1 DEF Neutral, Entries
    <3>2. CASE ~Leaky(e)
      BY <3>2 DEF Neutral
    <3>. QED BY <3>1, <3>2
  <2>3. new \in Directories /\ \A a \in Announcers : new[a].address = Loaded[a].address
    BY <2>1, <2>2 DEF Directories
  <2>4. WithinAnnounced(new)
    BY <2>1, <2>3 DEF WithinAnnounced
  <2>. QED BY <1>3, <2>3, <2>4, Beginning DEF Readdress
<1>4. ASSUME NEW w \in DirWriters, OpenTmp(w) PROVE DirInv'
  <2>1. Busy(w) /\ writing[w] \in AtWork
    BY <1>4, WriterFacts DEF OpenTmp
  <2>2. /\ writing' = [writing EXCEPT ![w] = [writing[w] EXCEPT !.step = "flush", !.handle = "tmp"]]
        /\ [writing[w] EXCEPT !.step = "flush", !.handle = "tmp"] \in AtWork
    BY <1>4, <2>1 DEF OpenTmp, AtWork, DirectoryTypeOK
  <2>3. DirectoryTypeOK'
    BY <1>4, <2>1, <2>2, WriterFacts, FileFacts DEF OpenTmp, DirectoryTypeOK
  <2>4. /\ \A v \in DirWriters : Busy(v)' <=> Busy(v)
        /\ \A v \in DirWriters \ {w} : writing'[v] = writing[v]
        /\ writing'[w].new = writing[w].new /\ writing'[w].whose = writing[w].whose
        /\ writing'[w].step = "flush" /\ writing'[w].handle = "tmp"
    BY <2>1, <2>2 DEF DirectoryTypeOK, Busy, AtWork, Resting
  <2>5. WithinAnnounced(Torn.list)
    BY DEF Torn, Empty, NoEntry, WithinAnnounced, DirectoryTypeOK
  <2>6. NothingAhead'
    BY <1>4, <2>4, <2>5 DEF OpenTmp, NothingAhead, WithinAnnounced
  <2>7. TakingTurns'
    <3>. SUFFICES ASSUME ~collided PROVE TakingTurns'
      BY <1>4 DEF OpenTmp, TakingTurns
    <3>1. \A v \in DirWriters : Busy(v)' => v = w
      BY <2>1, <2>4 DEF TakingTurns
    <3>2. UNCHANGED <<directory, confirmed>> /\ dirTmp' = Torn
      BY <1>4 DEF OpenTmp
    <3>. QED BY <2>1, <2>4, <3>1, <3>2 DEF TakingTurns, Loaded
  <2>. QED BY <2>3, <2>6, <2>7
<1>5. ASSUME NEW w \in DirWriters, FlushTmp(w) PROVE DirInv'
  <2>. DEFINE new == Holding(writing[w].new)
  <2>1. Busy(w) /\ writing[w] \in AtWork /\ writing[w].step = "flush"
    BY <1>5, WriterFacts DEF FlushTmp
  <2>2. /\ writing' = [writing EXCEPT ![w] = [writing[w] EXCEPT !.step = "rename"]]
        /\ [writing[w] EXCEPT !.step = "rename"] \in AtWork
    BY <1>5, <2>1 DEF FlushTmp, AtWork, DirectoryTypeOK
  <2>3. /\ \A v \in DirWriters : Busy(v)' <=> Busy(v)
        /\ \A v \in DirWriters \ {w} : writing'[v] = writing[v]
        /\ writing'[w].new = writing[w].new /\ writing'[w].whose = writing[w].whose
        /\ writing'[w].step = "rename"
    BY <2>1, <2>2 DEF DirectoryTypeOK, Busy, AtWork, Resting
  <2>4. /\ writing[w].new \in Directories /\ new \in Files \ {Missing, Torn}
        /\ new.list = writing[w].new /\ WithinAnnounced(writing[w].new)
        /\ WithinAnnounced(Torn.list)
    BY <2>1, FileFacts DEF AtWork, NothingAhead, Torn, Empty, NoEntry, WithinAnnounced,
                           DirectoryTypeOK
  <2>5. /\ directory' \in {directory, new, Torn} /\ dirTmp' \in {dirTmp, new, Torn}
        /\ UNCHANGED <<underWay, announced, confirmed, collided, writerDeaths>>
    BY <1>5 DEF FlushTmp, Over
  <2>6. DirectoryTypeOK'
    <3>1. directory' \in Files \ {Missing} /\ dirTmp' \in Files
      BY <2>4, <2>5, FileFacts DEF DirectoryTypeOK
    <3>2. writing' \in [DirWriters -> Writing]
      BY <2>1, <2>2, WriterFacts DEF DirectoryTypeOK
    <3>. QED BY <2>5, <3>1, <3>2 DEF DirectoryTypeOK
  <2>7. NothingAhead'
    <3>1. WithinAnnounced(directory'.list) /\ WithinAnnounced(dirTmp'.list)
      BY <2>4, <2>5 DEF NothingAhead
    <3>. QED BY <2>3, <2>5, <3>1 DEF NothingAhead, WithinAnnounced
  <2>8. TakingTurns'
    <3>. SUFFICES ASSUME ~collided PROVE TakingTurns'
      BY <2>5 DEF TakingTurns
    <3>1. writing[w].handle = "tmp" /\ dirTmp = Torn /\ \A v \in DirWriters : Busy(v) => v = w
      BY <2>1 DEF TakingTurns
    <3>2. dirTmp' = new /\ directory' = directory
      BY <1>5, <3>1 DEF FlushTmp, Over
    <3>. QED BY <2>1, <2>3, <2>5, <3>1, <3>2 DEF TakingTurns, Loaded
  <2>. QED BY <2>6, <2>7, <2>8
<1>6. ASSUME NEW w \in DirWriters, RenameTmp(w) PROVE DirInv'
  <2>1. Busy(w) /\ writing[w] \in AtWork /\ writing[w].step = "rename"
    BY <1>6, WriterFacts DEF RenameTmp
  <2>2. CASE dirTmp = Missing
    <3>1. /\ writing' = [writing EXCEPT ![w] = Resting]
          /\ UNCHANGED <<directory, dirTmp, underWay, announced, confirmed, collided, writerDeaths>>
      BY <1>6, <2>2 DEF RenameTmp
    <3>2. DirectoryTypeOK'
      BY <3>1, WriterFacts DEF DirectoryTypeOK
    <3>3. \A v \in DirWriters : Busy(v)' => Busy(v) /\ writing'[v] = writing[v]
      BY <3>1 DEF DirectoryTypeOK, Busy
    <3>. QED BY <3>1, <3>2, <3>3 DEF NothingAhead, WithinAnnounced, TakingTurns, Loaded
  <2>3. CASE dirTmp # Missing
    <3>1. /\ directory' = dirTmp /\ dirTmp' = Missing
          /\ UNCHANGED <<underWay, announced, collided, writerDeaths>>
          /\ writing' = [v \in DirWriters |->
               IF v = w \/ writing[v] = Resting THEN Resting
               ELSE [writing[v] EXCEPT !.handle = Ages(@)]]
          /\ confirmed' = [a \in Announcers |-> IF a \in writing[w].whose
                                                THEN writing[w].new[a].address ELSE confirmed[a]]
      BY <1>6, <2>3 DEF RenameTmp
    <3>2. \A v \in DirWriters : writing'[v] \in Writing
      <4>. SUFFICES ASSUME NEW v \in DirWriters, Busy(v), v # w PROVE writing'[v] \in Writing
        BY <3>1, WriterFacts DEF Busy
      <4>1. writing[v] \in AtWork /\ Ages(writing[v].handle) \in {"directory", "gone", "none"}
        BY WriterFacts DEF AtWork, Ages
      <4>2. [writing[v] EXCEPT !.handle = Ages(@)] \in AtWork
        BY <4>1 DEF AtWork
      <4>. QED BY <3>1, <4>2, WriterFacts DEF Busy
    <3>3. confirmed' \in [Announcers -> 0..MaxAddress]
      <4>1. \A a \in Announcers : writing[w].new[a].address \in 0..MaxAddress
        BY <2>1, DirectoryAssumption DEF AtWork, Directories, Entries, NoEntry
      <4>. QED BY <3>1, <4>1 DEF DirectoryTypeOK
    <3>4. DirectoryTypeOK'
      BY <2>3, <3>1, <3>2, <3>3, FileFacts DEF DirectoryTypeOK
    <3>5. \A v \in DirWriters : Busy(v)' => /\ Busy(v) /\ v # w
                                            /\ writing'[v].new = writing[v].new
      BY <3>1, WriterFacts DEF Busy, AtWork
    <3>6. NothingAhead'
      BY <3>1, <3>5 DEF NothingAhead, WithinAnnounced, Missing, Empty, NoEntry, DirectoryTypeOK
    <3>7. TakingTurns'
      <4>. SUFFICES ASSUME ~collided PROVE TakingTurns'
        BY <3>1 DEF TakingTurns
      <4>1. \A v \in DirWriters : ~Busy(v)'
        BY <2>1, <3>5 DEF TakingTurns
      <4>2. directory' = Holding(writing[w].new) /\ writing[w].new \in Directories
        BY <2>1, <3>1 DEF TakingTurns, AtWork
      <4>3. directory' # Torn /\ Loaded' = writing[w].new
        BY <4>2, FileFacts DEF Loaded
      <4>4. \A a \in Announcers : writing[w].new[a].address = confirmed'[a]
        BY <2>1, <3>1 DEF TakingTurns
      <4>. QED BY <4>1, <4>3, <4>4 DEF TakingTurns
    <3>. QED BY <3>4, <3>6, <3>7
  <2>. QED BY <2>2, <2>3
<1>7. ASSUME NEW w \in DirWriters, WriterDies(w) PROVE DirInv'
  <2>1. \A v \in DirWriters : Busy(v)' => Busy(v) /\ writing'[v] = writing[v]
    BY <1>7 DEF WriterDies, DirectoryTypeOK, Busy
  <2>2. DirectoryTypeOK'
    BY <1>7, WriterFacts, DirectoryAssumption DEF WriterDies, DirectoryTypeOK
  <2>. QED BY <1>7, <2>1, <2>2 DEF WriterDies, NothingAhead, WithinAnnounced, TakingTurns, Loaded
<1>8. CASE UNCHANGED directoryVars
  BY <1>8 DEF DirectoryTypeOK, NothingAhead, WithinAnnounced, TakingTurns, Busy, Loaded
<1>. QED BY <1>1, <1>2, <1>3, <1>4, <1>5, <1>6, <1>7, <1>8 DEF DirectoryNext

-------------------------------------------------------------------------------
(* DirectoryKeeps for every value of the constants, with the shape of the  *)
(* state: save_directory and the announce handler keep what they answered  *)
(* "ok" for while one process at a time changes the directory, and never   *)
(* list an address that was not announced.                                 *)
THEOREM ListsWhatWasAnnounced == DirectorySpec => [](DirectoryTypeOK /\ DirectoryKeeps)
<1>1. DirectoryInit => DirInv
  BY DirInit
<1>2. DirInv /\ [DirectoryNext]_directoryVars => DirInv'
  BY DirStep
<1>3. DirInv => DirectoryTypeOK /\ DirectoryKeeps
  BY DEF DirInv, DirectoryKeeps, NothingAhead, WithinAnnounced, TakingTurns, Loaded
<1>. QED BY <1>1, <1>2, <1>3, PTL DEF DirectorySpec

-------------------------------------------------------------------------------
(* Resolving in a realm: what a thread resolves was signed by the pinned   *)
(* operator and is not older than the life of the cache allows, for any number *)
(* of threads, however they interleave.                                    *)

\* What is cached was verified within one fetch of when it was served.
CacheIsSound ==
  cache # NotCached => /\ cache.genuine /\ hosted.pin
                       /\ cache.until <= cache.from + Lifetime + 1

\* A thread is at a step for one unit of time at most, and it verifies what it fetched
\* when it began to.
LookIsRecent == \A t \in Lookers :
  looking[t] # Idle =>
    /\ lookTime <= looking[t].began + 1
    /\ looking[t].step = "verify" => looking[t].got.from = looking[t].began

CacheInv == RealmCacheTypeOK /\ CacheIsSound /\ LookIsRecent /\ RealmCacheKeeps


-------------------------------------------------------------------------------
(* The parts of a step that Look, Fetch and Verify share.                  *)

\* A thread that goes to a step is a thread in good order.
LEMMA GoingIsTyped ==
  ASSUME CacheInv, NEW t \in Lookers, NEW step \in {"drop", "fetch", "verify"},
         NEW got \in Cached \cup {NotCached}, Goes(t, step, got),
         step = "verify" => got.from = lookTime, UNCHANGED lookTime
  PROVE  looking' \in [Lookers -> Lookings] /\ LookIsRecent'
<1>. DEFINE new == [step |-> step, began |-> lookTime, got |-> got]
<1>1. new \in Lookings
  BY DEF CacheInv, RealmCacheTypeOK, Lookings
<1>2. looking \in [Lookers -> Lookings] /\ lookTime \in Nat
  BY DEF CacheInv, RealmCacheTypeOK
<1>3. looking' = [looking EXCEPT ![t] = new]
  BY DEF Goes
<1>4. looking' \in [Lookers -> Lookings]
  BY <1>1, <1>2, <1>3
<1>5. LookIsRecent'
  BY <1>2, <1>3 DEF LookIsRecent, CacheInv
<1>. QED BY <1>4, <1>5

LEMMA EndingIsTyped ==
  ASSUME CacheInv, NEW t \in Lookers, Ends(t), UNCHANGED lookTime
  PROVE  looking' \in [Lookers -> Lookings] /\ LookIsRecent'
<1>1. looking \in [Lookers -> Lookings] /\ Idle \in Lookings
  BY DEF CacheInv, RealmCacheTypeOK, Lookings
<1>. QED BY <1>1 DEF Ends, LookIsRecent, CacheInv

\* An answer from a directory that is sound and recent enough keeps the promise.
LEMMA AnswerIsSound ==
  ASSUME CacheInv, NEW t \in Lookers, NEW d \in Cached \cup {NotCached},
         Answers(t, d), UNCHANGED hosted,
         d # NotCached => d.genuine /\ hosted.pin /\ lookTime < d.from + Lifetime + 2
  PROVE  /\ answer' \in [Lookers -> [found : BOOLEAN, from : 0..LastLook, at : 0..LastLook,
                                     genuine : BOOLEAN]]
         /\ RealmCacheKeeps'
<1>. DEFINE new == IF d = NotCached THEN NoAnswer
                   ELSE [found |-> TRUE, from |-> d.from, at |-> lookTime, genuine |-> d.genuine]
            Shape == [found : BOOLEAN, from : 0..LastLook, at : 0..LastLook, genuine : BOOLEAN]
<1>1. answer \in [Lookers -> Shape] /\ lookTime \in 0..LastLook
  BY DEF CacheInv, RealmCacheTypeOK
<1>2. new \in Shape
  BY <1>1, RealmCacheAssumption DEF NoAnswer, Cached
<1>3. answer' = [answer EXCEPT ![t] = new]
  BY DEF Answers
<1>4. new.found => new.genuine /\ hosted.pin /\ new.at < new.from + Lifetime + 2
  BY DEF NoAnswer
<1>5. answer' \in [Lookers -> Shape]
  BY <1>1, <1>2, <1>3
<1>6. RealmCacheKeeps'
  <2>. SUFFICES ASSUME NEW u \in Lookers, answer'[u].found
                PROVE  /\ answer'[u].genuine /\ hosted'.pin
                       /\ answer'[u].at < answer'[u].from + Lifetime + 2
    BY DEF RealmCacheKeeps
  <2>1. CASE u = t
    BY <2>1, <1>1, <1>3, <1>4
  <2>2. CASE u # t
    BY <2>2, <1>1, <1>3 DEF CacheInv, RealmCacheKeeps
  <2>. QED BY <2>1, <2>2
<1>. QED BY <1>5, <1>6

-------------------------------------------------------------------------------
LEMMA CacheInit == RealmCacheInit => CacheInv
BY RealmCacheAssumption DEF RealmCacheInit, CacheInv, RealmCacheTypeOK, CacheIsSound,
       LookIsRecent, RealmCacheKeeps, NotCached, NoAnswer, Lookings, Idle

LEMMA CacheStep ==
  ASSUME CacheInv, [RealmCacheNext]_realmCacheVars
  PROVE  CacheInv'
<1>. USE DEF CacheInv
<1>1. ASSUME NEW t \in Lookers, Look(t) PROVE CacheInv'
  <2>1. cache \in Cached \cup {NotCached} /\ NotCached \in Cached \cup {NotCached}
    BY DEF RealmCacheTypeOK
  <2>2. CASE cache # NotCached /\ ~Expired(cache) /\ Answers(t, cache) /\ UNCHANGED looking
    <3>1. lookTime < cache.from + Lifetime + 2
      BY <2>1, <2>2, RealmCacheAssumption
         DEF Expired, CacheIsSound, Cached, RealmCacheTypeOK
    <3>2. RealmCacheKeeps' /\ RealmCacheTypeOK'
      BY <1>1, <2>1, <2>2, <3>1, AnswerIsSound DEF Look, CacheIsSound, RealmCacheTypeOK
    <3>. QED BY <1>1, <2>2, <3>2 DEF Look, CacheIsSound, LookIsRecent
  <2>3. CASE UNCHANGED answer /\ \E step \in {"drop", "fetch"} : Goes(t, step, NotCached)
    <3>1. looking' \in [Lookers -> Lookings] /\ LookIsRecent'
      BY <1>1, <2>1, <2>3, GoingIsTyped DEF Look
    <3>. QED BY <1>1, <2>3, <3>1 DEF Look, RealmCacheTypeOK, CacheIsSound, RealmCacheKeeps
  <2>. QED BY <1>1, <2>2, <2>3 DEF Look
<1>2. ASSUME NEW t \in Lookers, Drop(t) PROVE CacheInv'
  <2>1. CASE cache # NotCached
    <3>1. looking' \in [Lookers -> Lookings] /\ LookIsRecent'
      BY <1>2, <2>1, GoingIsTyped DEF Drop
    <3>. QED BY <1>2, <2>1, <3>1 DEF Drop, RealmCacheTypeOK, CacheIsSound, RealmCacheKeeps
  <2>2. CASE cache = NotCached
    <3>1. looking' \in [Lookers -> Lookings] /\ LookIsRecent'
      BY <1>2, <2>2, EndingIsTyped DEF Drop
    <3>2. RealmCacheKeeps' /\ answer' \in [Lookers -> [found : BOOLEAN, from : 0..LastLook,
                                                       at : 0..LastLook, genuine : BOOLEAN]]
      BY <1>2, <2>2, AnswerIsSound DEF Drop
    <3>3. raised' \in 0..MaxRaised
      BY <1>2, <2>2, RealmCacheAssumption DEF Drop, RealmCacheTypeOK
    <3>. QED BY <1>2, <2>2, <3>1, <3>2, <3>3 DEF Drop, RealmCacheTypeOK, CacheIsSound
  <2>. QED BY <2>1, <2>2
<1>3. ASSUME NEW t \in Lookers, Fetch(t) PROVE CacheInv'
  <2>1. ASSUME NEW genuine \in BOOLEAN, UNCHANGED answer,
               Goes(t, "verify", [from |-> lookTime, until |-> 0, genuine |-> genuine])
        PROVE  CacheInv'
    <3>1. [from |-> lookTime, until |-> 0, genuine |-> genuine] \in Cached
      BY RealmCacheAssumption DEF Cached, RealmCacheTypeOK
    <3>2. looking' \in [Lookers -> Lookings] /\ LookIsRecent'
      BY <1>3, <2>1, <3>1, GoingIsTyped DEF Fetch
    <3>. QED BY <1>3, <2>1, <3>2 DEF Fetch, RealmCacheTypeOK, CacheIsSound, RealmCacheKeeps
  <2>2. CASE Ends(t) /\ Answers(t, NotCached)
    <3>1. looking' \in [Lookers -> Lookings] /\ LookIsRecent'
      BY <1>3, <2>2, EndingIsTyped DEF Fetch
    <3>2. RealmCacheKeeps' /\ answer' \in [Lookers -> [found : BOOLEAN, from : 0..LastLook,
                                                       at : 0..LastLook, genuine : BOOLEAN]]
      BY <1>3, <2>2, AnswerIsSound DEF Fetch
    <3>. QED BY <1>3, <2>2, <3>1, <3>2 DEF Fetch, RealmCacheTypeOK, CacheIsSound
  <2>. QED BY <1>3, <2>1, <2>2 DEF Fetch
<1>4. ASSUME NEW t \in Lookers, Verify(t) PROVE CacheInv'
  <2>. DEFINE got == looking[t].got
              d   == [got EXCEPT !.until = lookTime + Lifetime]
  <2>1. looking[t] # Idle /\ looking[t] \in Lookings
    BY <1>4 DEF Verify, Idle, RealmCacheTypeOK
  <2>2. got \in Cached \cup {NotCached} /\ got.from = looking[t].began
        /\ lookTime <= looking[t].began + 1 /\ looking[t].began \in 0..LastLook
    BY <1>4, <2>1 DEF Verify, Lookings, LookIsRecent
  <2>3. d \in Cached /\ d.from = got.from /\ d.genuine = got.genuine
        /\ d.until = lookTime + Lifetime
    <3>1. got \in Cached
      <4>1. 0 \in 0..LastLook /\ 0 \in 0..LastLook + Lifetime
        BY RealmCacheAssumption
      <4>2. NotCached \in Cached
        BY <4>1 DEF Cached, NotCached
      <4>. QED BY <2>2, <4>2
    <3>2. lookTime + Lifetime \in 0..LastLook + Lifetime
      BY RealmCacheAssumption DEF RealmCacheTypeOK
    <3>. QED BY <3>1, <3>2 DEF Cached
  <2>4. looking' \in [Lookers -> Lookings] /\ LookIsRecent'
    BY <1>4, EndingIsTyped DEF Verify
  <2>5. CASE Verifies(d)
    <3>1. d.genuine /\ hosted.pin /\ lookTime < d.from + Lifetime + 2
          /\ d.until <= d.from + Lifetime + 1
      BY <2>2, <2>3, <2>5, RealmCacheAssumption
         DEF Verifies, RealmCacheTypeOK
    <3>2. cache' = d /\ Answers(t, d) /\ UNCHANGED <<lookTime, hosted, raised>>
      BY <1>4, <2>5 DEF Verify
    <3>3. RealmCacheKeeps' /\ answer' \in [Lookers -> [found : BOOLEAN, from : 0..LastLook,
                                                       at : 0..LastLook, genuine : BOOLEAN]]
      BY <2>3, <3>1, <3>2, AnswerIsSound
    <3>. QED BY <2>3, <2>4, <3>1, <3>2, <3>3 DEF RealmCacheTypeOK, CacheIsSound
  <2>6. CASE ~Verifies(d)
    <3>1. Answers(t, NotCached) /\ UNCHANGED <<cache, lookTime, hosted, raised>>
      BY <1>4, <2>6 DEF Verify
    <3>2. RealmCacheKeeps' /\ answer' \in [Lookers -> [found : BOOLEAN, from : 0..LastLook,
                                                       at : 0..LastLook, genuine : BOOLEAN]]
      BY <3>1, AnswerIsSound
    <3>. QED BY <2>4, <3>1, <3>2 DEF RealmCacheTypeOK, CacheIsSound
  <2>. QED BY <2>5, <2>6
<1>5. CASE LookTick
  <2>1. lookTime' \in 0..LastLook /\ lookTime' = lookTime + 1 /\ lookTime \in Nat
    BY <1>5, RealmCacheAssumption DEF LookTick, RealmCacheTypeOK
  <2>2. LookIsRecent'
    BY <1>5, <2>1 DEF LookTick, LookIsRecent
  <2>. QED BY <1>5, <2>1, <2>2 DEF LookTick, RealmCacheTypeOK, CacheIsSound, RealmCacheKeeps
<1>6. CASE UNCHANGED realmCacheVars
  BY <1>6 DEF RealmCacheTypeOK, CacheIsSound, LookIsRecent, RealmCacheKeeps
<1>. QED BY <1>1, <1>2, <1>3, <1>4, <1>5, <1>6 DEF RealmCacheNext

-------------------------------------------------------------------------------
(* RealmCacheKeeps for every value of the constants, with the shape of the *)
(* state: resolve_agent fails closed, and what it answers was served less  *)
(* than the lifetime of the cache and one fetch ago.                       *)
THEOREM FailsClosed == RealmCacheSpec => [](RealmCacheTypeOK /\ RealmCacheKeeps)
<1>1. RealmCacheInit => CacheInv
  BY CacheInit
<1>2. CacheInv /\ [RealmCacheNext]_realmCacheVars => CacheInv'
  BY CacheStep
<1>3. CacheInv => RealmCacheTypeOK /\ RealmCacheKeeps
  BY DEF CacheInv
<1>. QED BY <1>1, <1>2, <1>3, PTL DEF RealmCacheSpec

-------------------------------------------------------------------------------
(* The WebSocket rail: as long as connect starts no receiver beside another *)
(* one, the rail's _ws and _connected agree with the connection that its   *)
(* receiver has; for any number of connections and senders.                *)

\* disconnect runs with _running clear; no receiver runs but the one connect started last.
Stopping    == stopping # "no" => ~running
OneReceiver == /\ \A r \in Receivers : receiving[r].step # "none" => r \in latest
               /\ \A q, r \in latest : q = r

\* What _ws, _connected and the open connections say of the receiver.
NamesItsSocket == running => \A r \in Receivers :
  /\ receiving[r].step \in {"opened", "open"} => ws = receiving[r].on
  /\ receiving[r].step = "open" => connected \/ failedSend
NamesNoOther ==
  /\ ws # 0 => \E r \in Receivers : receiving[r].step \in {"opened", "open"}
  /\ connected => \E r \in Receivers : receiving[r].step \in {"open", "closing"}
  /\ \A c \in alive : \E r \in Receivers :
       receiving[r].step \in {"opened", "open", "closing"} /\ receiving[r].on = c

SocketInv ==
  /\ SocketTypeOK /\ Stopping
  /\ ~overlapped => OneReceiver /\ NamesItsSocket /\ NamesNoOther


-------------------------------------------------------------------------------
\* A receiver goes to a step; the others stay where they are.
LEMMA GoFacts ==
  ASSUME SocketTypeOK, NEW r \in Receivers, NEW c \in Sockets,
         NEW step \in {"none", "loop", "opening", "opened", "open", "closing", "backoff"},
         Go(r, step, c)
  PROVE  /\ receiving' \in [Receivers -> Receiving]
         /\ receiving'[r].step = step /\ receiving'[r].on = c
         /\ \A q \in Receivers \ {r} : receiving'[q] = receiving[q]
<1>1. At(step, c) \in Receiving /\ At(step, c).step = step /\ At(step, c).on = c
  BY DEF At, Receiving
<1>2. receiving \in [Receivers -> Receiving] /\ receiving' = [receiving EXCEPT ![r] = At(step, c)]
  BY DEF Go, SocketTypeOK
<1>. QED BY <1>1, <1>2

\* What the type invariant says of one receiver.
LEMMA SocketFacts ==
  ASSUME SocketTypeOK
  PROVE  /\ 0 \in Sockets
         /\ \A r \in Receivers : receiving[r].on \in Sockets
         /\ {running, connected, overlapped, failedSend} \subseteq BOOLEAN
         /\ ws \in Sockets /\ opened \in Sockets /\ alive \subseteq Sockets \ {0}
BY SocketAssumption DEF SocketTypeOK, Receiving, Sockets

\* While one receiver runs it is the only one that is not at rest.
LEMMA Alone ==
  ASSUME OneReceiver, NEW r \in Receivers, receiving[r].step # "none"
  PROVE  \A q \in Receivers \ {r} : receiving[q].step = "none"
BY DEF OneReceiver

LEMMA SocketStart == SocketInit => SocketInv
<1>. SUFFICES ASSUME SocketInit PROVE SocketInv
  OBVIOUS
<1>1. 0 \in Sockets /\ 0 \in 0..InboxCap
  BY SocketAssumption DEF Sockets
<1>2. At("none", 0) \in Receiving /\ At("none", 0).step = "none"
  BY <1>1 DEF At, Receiving
<1>3. SocketTypeOK
  BY <1>1, <1>2 DEF SocketInit, SocketTypeOK
<1>. QED BY <1>2, <1>3 DEF SocketInit, SocketInv, Stopping, OneReceiver, NamesItsSocket, NamesNoOther

-------------------------------------------------------------------------------
LEMMA SocketStep ==
  ASSUME SocketInv, [SocketNext]_socketVars
  PROVE  SocketInv'
<1>. USE DEF SocketInv
<1>. DEFINE Sound == OneReceiver /\ NamesItsSocket /\ NamesNoOther
<1>1. CASE Connect_
  <2>. PICK r \in Receivers \ Live : Go(r, "loop", 0) /\ latest' = {r}
    BY <1>1 DEF Connect_
  <2>1. /\ receiving' \in [Receivers -> Receiving] /\ receiving'[r].step = "loop"
        /\ \A q \in Receivers \ {r} : receiving'[q] = receiving[q]
    BY GoFacts, SocketFacts
  <2>2. SocketTypeOK' /\ Stopping'
    BY <1>1, <2>1 DEF Connect_, SocketTypeOK, Stopping
  <2>3. ASSUME ~overlapped' PROVE Sound'
    <3>1. ~overlapped /\ \A q \in Receivers : receiving[q].step = "none"
      BY <1>1, <2>3, SocketFacts DEF Connect_, Live
    <3>. QED BY <1>1, <2>1, <3>1 DEF Connect_, OneReceiver, NamesItsSocket, NamesNoOther
  <2>. QED BY <2>2, <2>3
<1>2. CASE DisconnectBegins
  BY <1>2 DEF DisconnectBegins, SocketTypeOK, Stopping, OneReceiver, NamesItsSocket, NamesNoOther
<1>19. CASE JoinReturns
  BY <1>19 DEF JoinReturns, SocketTypeOK, Stopping, OneReceiver, NamesItsSocket, NamesNoOther
<1>3. CASE DisconnectCloses
  <2>1. SocketTypeOK' /\ Stopping'
    BY <1>3, SocketFacts DEF DisconnectCloses, SocketTypeOK, Stopping
  <2>2. ASSUME ~overlapped' PROVE Sound'
    <3>1. ~overlapped /\ ~running
      BY <1>3, <2>2 DEF DisconnectCloses, Stopping
    <3>. QED BY <1>3, <2>2, <3>1 DEF DisconnectCloses, OneReceiver, NamesItsSocket, NamesNoOther
  <2>. QED BY <2>1, <2>2
<1>4. CASE DisconnectEnds
  BY <1>4 DEF DisconnectEnds, SocketTypeOK, Stopping, OneReceiver, NamesItsSocket, NamesNoOther
<1>5. CASE Receive
  BY <1>5, SocketAssumption
     DEF Receive, SocketTypeOK, Stopping, OneReceiver, NamesItsSocket, NamesNoOther
<1>6. ASSUME NEW r \in Receivers, Loop(r) \/ Backoff(r) PROVE SocketInv'
  <2>1. PICK step \in {"none", "loop", "opening"} : Go(r, step, 0)
    BY <1>6 DEF Loop, Backoff
  <2>2. /\ receiving' \in [Receivers -> Receiving] /\ receiving'[r].step = step
        /\ \A q \in Receivers \ {r} : receiving'[q] = receiving[q]
        /\ receiving[r].step \in {"loop", "backoff"}
        /\ UNCHANGED <<running, ws, connected, alive, opened, inbox, stopping, latest, sending,
                       overlapped, failedSend>>
    BY <1>6, <2>1, GoFacts, SocketFacts DEF Loop, Backoff
  <2>3. SocketTypeOK' /\ Stopping'
    BY <2>2 DEF SocketTypeOK, Stopping
  <2>4. ASSUME ~overlapped PROVE Sound'
    <3>1. OneReceiver' /\ NamesItsSocket'
      BY <2>2, <2>4 DEF OneReceiver, NamesItsSocket
    <3>2. ws = 0 /\ ~connected /\ alive = {}
      BY <2>2, <2>4, Alone DEF NamesNoOther
    <3>. QED BY <2>2, <3>1, <3>2 DEF NamesNoOther
  <2>. QED BY <2>2, <2>3, <2>4
<1>7. ASSUME NEW r \in Receivers, OpenSocket(r) PROVE SocketInv'
  <2>. DEFINE c == opened + 1
  <2>1. c \in Sockets \ {0}
    BY <1>7, SocketAssumption, SocketFacts DEF OpenSocket, Sockets
  <2>2. /\ receiving' \in [Receivers -> Receiving]
        /\ receiving'[r].step = "opened" /\ receiving'[r].on = c
        /\ \A q \in Receivers \ {r} : receiving'[q] = receiving[q]
        /\ receiving[r].step = "opening"
        /\ alive' = alive \cup {c} /\ ws' = c /\ opened' = c /\ failedSend' = FALSE
        /\ UNCHANGED <<running, connected, inbox, stopping, latest, sending, overlapped>>
    BY <1>7, <2>1, GoFacts DEF OpenSocket
  <2>3. SocketTypeOK' /\ Stopping'
    BY <2>1, <2>2 DEF SocketTypeOK, Stopping
  <2>4. ASSUME ~overlapped PROVE Sound'
    <3>1. \A q \in Receivers \ {r} : receiving[q].step = "none"
      BY <2>2, <2>4, Alone
    <3>2. ~connected /\ alive = {}
      BY <2>2, <2>4, <3>1 DEF NamesNoOther
    <3>3. OneReceiver'
      BY <2>2, <2>4 DEF OneReceiver
    <3>. QED BY <2>2, <3>1, <3>2, <3>3 DEF NamesItsSocket, NamesNoOther
  <2>. QED BY <2>2, <2>3, <2>4
<1>8. ASSUME NEW r \in Receivers, SayConnected(r) PROVE SocketInv'
  <2>1. /\ receiving' \in [Receivers -> Receiving]
        /\ receiving'[r].step = "open" /\ receiving'[r].on = receiving[r].on
        /\ \A q \in Receivers \ {r} : receiving'[q] = receiving[q]
        /\ receiving[r].step = "opened" /\ connected' = TRUE
        /\ UNCHANGED <<running, ws, alive, opened, inbox, stopping, latest, sending, overlapped,
                       failedSend>>
    BY <1>8, GoFacts, SocketFacts DEF SayConnected
  <2>2. SocketTypeOK' /\ Stopping'
    BY <2>1 DEF SocketTypeOK, Stopping
  <2>3. ASSUME ~overlapped PROVE Sound'
    <3>1. OneReceiver' /\ NamesItsSocket'
      BY <2>1, <2>3 DEF OneReceiver, NamesItsSocket
    <3>2. \A q \in Receivers : receiving[q].step # "none" => q = r
      BY <2>1, <2>3, Alone
    <3>. QED BY <2>1, <2>3, <3>1, <3>2 DEF NamesNoOther
  <2>. QED BY <2>1, <2>2, <2>3
<1>9. ASSUME NEW r \in Receivers, OpenFails(r) PROVE SocketInv'
  <2>1. /\ receiving' \in [Receivers -> Receiving] /\ receiving'[r].step = "backoff"
        /\ \A q \in Receivers \ {r} : receiving'[q] = receiving[q]
        /\ receiving[r].step = "opening" /\ ws' = 0 /\ connected' = FALSE
        /\ UNCHANGED <<running, alive, opened, inbox, stopping, latest, sending, overlapped, failedSend>>
    BY <1>9, GoFacts, SocketFacts DEF OpenFails
  <2>2. SocketTypeOK' /\ Stopping'
    BY <2>1, SocketFacts DEF SocketTypeOK, Stopping
  <2>3. ASSUME ~overlapped PROVE Sound'
    <3>1. \A q \in Receivers \ {r} : receiving[q].step = "none"
      BY <2>1, <2>3, Alone
    <3>2. alive = {}
      BY <2>1, <2>3, <3>1 DEF NamesNoOther
    <3>. QED BY <2>1, <2>3, <3>1, <3>2 DEF OneReceiver, NamesItsSocket, NamesNoOther
  <2>. QED BY <2>1, <2>2, <2>3
<1>10. ASSUME NEW r \in Receivers, Arrives(r) PROVE SocketInv'
  <2>1. inbox' \in 0..InboxCap
    BY <1>10, SocketAssumption DEF Arrives, SocketTypeOK
  <2>. QED BY <1>10, <2>1
           DEF Arrives, SocketTypeOK, Stopping, OneReceiver, NamesItsSocket, NamesNoOther
<1>11. ASSUME NEW r \in Receivers, Leave(r) PROVE SocketInv'
  <2>1. /\ receiving' \in [Receivers -> Receiving]
        /\ receiving'[r].step = "closing" /\ receiving'[r].on = receiving[r].on
        /\ \A q \in Receivers \ {r} : receiving'[q] = receiving[q]
        /\ receiving[r].step = "open" /\ ws' = 0
        /\ UNCHANGED <<running, connected, alive, opened, inbox, stopping, latest, sending, overlapped,
                       failedSend>>
    BY <1>11, GoFacts, SocketFacts DEF Leave, LeavesWs
  <2>2. SocketTypeOK' /\ Stopping'
    BY <2>1, SocketFacts DEF SocketTypeOK, Stopping
  <2>3. ASSUME ~overlapped PROVE Sound'
    <3>1. \A q \in Receivers \ {r} : receiving[q].step = "none"
      BY <2>1, <2>3, Alone
    <3>2. OneReceiver' /\ NamesItsSocket'
      BY <2>1, <2>3, <3>1 DEF OneReceiver, NamesItsSocket
    <3>3. NamesNoOther'
      BY <2>1, <2>3, <3>1 DEF NamesNoOther
    <3>. QED BY <3>2, <3>3
  <2>. QED BY <2>1, <2>2, <2>3
<1>12. ASSUME NEW r \in Receivers, CloseSocket(r) PROVE SocketInv'
  <2>1. PICK step \in {"loop", "backoff"} : Go(r, step, 0)
    BY <1>12 DEF CloseSocket
  <2>2. /\ receiving' \in [Receivers -> Receiving] /\ receiving'[r].step = step
        /\ \A q \in Receivers \ {r} : receiving'[q] = receiving[q]
        /\ receiving[r].step = "closing" /\ ws' \in {ws, 0} /\ connected' = FALSE
        /\ alive' = alive \ {receiving[r].on}
        /\ UNCHANGED <<running, opened, inbox, stopping, latest, sending, overlapped, failedSend>>
    BY <1>12, <2>1, GoFacts, SocketFacts DEF CloseSocket
  <2>3. SocketTypeOK' /\ Stopping'
    BY <2>2, SocketFacts DEF SocketTypeOK, Stopping
  <2>4. ASSUME ~overlapped PROVE Sound'
    <3>1. \A q \in Receivers \ {r} : receiving[q].step = "none"
      BY <2>2, <2>4, Alone
    <3>2. ws = 0 /\ alive \subseteq {receiving[r].on}
      BY <2>2, <2>4, <3>1 DEF NamesNoOther
    <3>. QED BY <2>2, <2>4, <3>1, <3>2 DEF OneReceiver, NamesItsSocket, NamesNoOther
  <2>. QED BY <2>2, <2>3, <2>4
<1>13. ASSUME NEW c \in Sockets, Breaks(c) PROVE SocketInv'
  BY <1>13 DEF Breaks, SocketTypeOK, Stopping, OneReceiver, NamesItsSocket, NamesNoOther
<1>14. ASSUME NEW s \in Senders, LooksUp(s) PROVE SocketInv'
  BY <1>14 DEF LooksUp, SocketTypeOK, Stopping, OneReceiver, NamesItsSocket, NamesNoOther
<1>15. ASSUME NEW s \in Senders, SendEnds(s) PROVE SocketInv'
  <2>1. /\ sending' \in [Senders -> Sockets]
        /\ UNCHANGED <<running, ws, receiving, alive, opened, inbox, stopping, latest, overlapped>>
        /\ \/ UNCHANGED <<connected, failedSend>>
           \/ ~connected' /\ failedSend' /\ {connected', failedSend'} \subseteq BOOLEAN
    BY <1>15, SocketFacts DEF SendEnds, SocketTypeOK
  <2>2. SocketTypeOK' /\ Stopping'
    BY <2>1 DEF SocketTypeOK, Stopping
  <2>3. ASSUME ~overlapped PROVE Sound'
    BY <2>1, <2>3 DEF OneReceiver, NamesItsSocket, NamesNoOther
  <2>. QED BY <2>1, <2>2, <2>3
<1>16. CASE UNCHANGED socketVars
  BY <1>16 DEF SocketTypeOK, Stopping, OneReceiver, NamesItsSocket, NamesNoOther
<1>. QED BY <1>1, <1>2, <1>3, <1>4, <1>5, <1>6, <1>7, <1>8, <1>9, <1>10, <1>11, <1>12, <1>13,
            <1>14, <1>15, <1>16, <1>19 DEF SocketNext

-------------------------------------------------------------------------------
(* SocketKeeps for every value of the constants, with the shape of the     *)
(* state: connect, disconnect, send and the receiver of websocket.py agree *)
(* on the connection, unless a receiver was started beside another one.    *)
THEOREM AgreesOnItsSocket == SocketSpec => [](SocketTypeOK /\ SocketKeeps)
<1>1. SocketInit => SocketInv
  BY SocketStart
<1>2. SocketInv /\ [SocketNext]_socketVars => SocketInv'
  BY SocketStep
<1>3. SocketInv => SocketTypeOK /\ SocketKeeps
  BY DEF SocketInv, SocketKeeps, OneReceiver, NamesItsSocket, NamesNoOther, Live
<1>. QED BY <1>1, <1>2, <1>3, PTL DEF SocketSpec

-------------------------------------------------------------------------------
(* The scope grants: what any command, merge or tool call works with was   *)
(* granted, and as long as no two commands are under way at once the file  *)
(* is what the commands say, one after the other; for any clerks, crashes  *)
(* and starts of the server.                                               *)

Commanding == [step : {"open", "flush", "replace"}, copy : Grants,
               of : Identities, scope : Ranks, adds : BOOLEAN, into : {"temp", "yml", "gone"}]

Below(grants, most) == \A i \in Identities : grants[i] \subseteq most[i]
\* Until two commands write into one file, nothing on disk or in a command names anybody for what nobody granted.
OnlyWhatWasSaid ==
  ~mixed => /\ Below(grantsFile, everSaid)
            /\ grantsTemp # NoTemp => Below(grantsTemp, everSaid)
            /\ \A c \in Clerks : clerk[c] # Off => Below(clerk[c].copy, everSaid)
\* The server merged what was on disk then.
ServerWasTold ==
  ~basis.mixed => \A i \in Identities : scopeGrants[i] \subseteq StaticGrants[i] \cup everSaid[i]

\* A command nobody crosses starts from what was said, writes that with its own change,
\* and renames what it wrote.
OneAtATime == ~crossed =>
  /\ grantsFile = said
  /\ \A c, d \in Clerks : clerk[c] # Off /\ clerk[d] # Off => c = d
  /\ \A c \in Clerks : clerk[c] # Off =>
       /\ clerk[c].into = "temp"
       /\ clerk[c].copy = Changed(said, clerk[c].of, clerk[c].scope, clerk[c].adds)
       /\ clerk[c].step = "flush" => grantsTemp = NoGrants
       /\ clerk[c].step = "replace" => grantsTemp = clerk[c].copy

\* What the server runs it decides by what it merged when it started.
MergedAtLaunch == launches > 0 /\ ~basis.crossed => scopeGrants = Merged(StaticGrants, basis.said)
CallsAreGranted ==
  /\ lastCall # {} => launches > 0
  /\ \A c \in lastCall : Suffices(Granted(scopeGrants, c[1]), c[2])

AccessInv == /\ AccessTypeOK /\ OnlyWhatWasSaid /\ ServerWasTold /\ OneAtATime
             /\ MergedAtLaunch /\ CallsAreGranted

-------------------------------------------------------------------------------
LEMMA GrantFacts ==
  /\ NoGrants \in Grants /\ NoGrants # NoTemp /\ Off \notin Commanding
  /\ \A work \in Commanding : work # Off /\ work.step # "off"
<1>1. NoGrants \in Grants
  BY DEF NoGrants, Grants
<1>2. NoGrants # NoTemp
  BY <1>1, AccessAssumption
<1>. QED BY <1>1, <1>2 DEF Off, Commanding

\* A command changes the entry of one identity, by one scope.
LEMMA ChangeFacts ==
  ASSUME NEW grants \in Grants, NEW i \in Identities, NEW s \in Ranks, NEW adds \in BOOLEAN
  PROVE  /\ Changed(grants, i, s, adds) \in Grants
         /\ \A j \in Identities : Changed(grants, i, s, adds)[j] \subseteq
                                    grants[j] \cup (IF adds /\ j = i THEN {s} ELSE {})
<1>. DEFINE new == IF adds THEN grants[i] \cup {s} ELSE grants[i] \ {s}
<1>1. Changed(grants, i, s, adds) = [grants EXCEPT ![i] = new]
  BY DEF Changed
<1>2. new \in SUBSET Ranks
  BY DEF Grants
<1>3. new \subseteq grants[i] \cup (IF adds THEN {s} ELSE {})
  OBVIOUS
<1>. HIDE DEF new
<1>4. Changed(grants, i, s, adds) \in Grants
  BY <1>1, <1>2 DEF Grants
<1>5. ASSUME NEW j \in Identities
      PROVE  Changed(grants, i, s, adds)[j] \subseteq grants[j] \cup (IF adds /\ j = i THEN {s} ELSE {})
  BY <1>1, <1>3 DEF Grants
<1>. QED BY <1>4, <1>5

LEMMA MergeFacts ==
  ASSUME NEW base \in Grants, NEW file \in Grants
  PROVE  /\ Merged(base, file) \in Grants
         /\ \A i \in Identities : Merged(base, file)[i] \subseteq base[i] \cup file[i]
BY DEF Merged, Grants

LEMMA AccessStart == AccessInit => AccessInv
<1>. SUFFICES ASSUME AccessInit PROVE AccessInv
  OBVIOUS
<1>1. AccessTypeOK
  <2>1. clerk \in [Clerks -> {Off} \cup Commanding]
    BY DEF AccessInit
  <2>2. basis \in [said : Grants, crossed : BOOLEAN, mixed : BOOLEAN] /\ lastCall \subseteq Guests \X Ranks
    BY GrantFacts DEF AccessInit
  <2>3. /\ grantsFile \in Grants /\ scopeGrants \in Grants /\ said \in Grants /\ everSaid \in Grants
        /\ grantsTemp = NoTemp /\ crossed \in BOOLEAN /\ mixed \in BOOLEAN
    BY GrantFacts DEF AccessInit
  <2>4. commands \in 0..MaxCommands /\ launches \in 0..MaxLaunches
    BY AccessAssumption DEF AccessInit
  <2>. QED BY <2>1, <2>2, <2>3, <2>4, Zenon DEF AccessTypeOK, Commanding
<1>2. OnlyWhatWasSaid /\ ServerWasTold
  BY AccessAssumption DEF AccessInit, OnlyWhatWasSaid, ServerWasTold, Below, NoGrants
<1>3. OneAtATime
  BY DEF AccessInit, OneAtATime
<1>4. MergedAtLaunch /\ CallsAreGranted
  BY DEF AccessInit, MergedAtLaunch, CallsAreGranted
<1>. QED BY <1>1, <1>2, <1>3, <1>4 DEF AccessInv

-------------------------------------------------------------------------------
LEMMA AccessStep == AccessInv /\ [AccessNext]_accessVars => AccessInv'
<1>. SUFFICES ASSUME AccessInv, [AccessNext]_accessVars PROVE AccessInv'
  OBVIOUS
<1>. USE DEF AccessInv
<1>. USE GrantFacts, AccessAssumption
<1>t. clerk \in [Clerks -> {Off} \cup Commanding]
  BY DEF AccessTypeOK, Commanding
\* The server's part is as it was in every step of a clerk, as long as what was granted grows.
<1>s. ASSUME UNCHANGED server, Below(everSaid, everSaid')
      PROVE  MergedAtLaunch' /\ CallsAreGranted' /\ ServerWasTold'
  BY <1>s DEF server, MergedAtLaunch, CallsAreGranted, ServerWasTold, Below
<1>1. ASSUME NEW c \in Clerks, NEW i \in Identities, NEW s \in Ranks, NEW adds \in BOOLEAN,
             Command(c, i, s, adds)
      PROVE  AccessInv'
  <2>. DEFINE copy == Changed(grantsFile, i, s, adds)
              new  == [step |-> "open", copy |-> copy, of |-> i, scope |-> s, adds |-> adds,
                       into |-> "temp"]
  <2>1. /\ copy \in Grants
        /\ \A j \in Identities : copy[j] \subseteq grantsFile[j] \cup (IF adds /\ j = i THEN {s} ELSE {})
    BY ChangeFacts DEF AccessTypeOK
  <2>2. /\ new \in Commanding /\ new.copy = copy /\ new.into = "temp" /\ new.step = "open"
        /\ new.of = i /\ new.scope = s /\ new.adds = adds
    BY <2>1 DEF Commanding
  <2>3. clerk' = [clerk EXCEPT ![c] = new] /\ clerk[c] = Off /\ UNCHANGED <<grantsFile, grantsTemp, said, mixed>>
    BY <1>1 DEF Command, files
  <2>. HIDE DEF new
  <2>4. everSaid' \in Grants /\ Below(everSaid, everSaid') /\ (adds => s \in everSaid'[i])
    <3>1. CASE adds
      <4>1. everSaid' = [everSaid EXCEPT ![i] = @ \cup {s}]
        BY <1>1, <3>1 DEF Command
      <4>. QED BY <4>1 DEF AccessTypeOK, Grants, Below
    <3>2. CASE ~adds
      BY <1>1, <3>2 DEF Command, AccessTypeOK, Below
    <3>. QED BY <3>1, <3>2
  <2>5. UNCHANGED server
    BY <1>1 DEF Command
  <2>. HIDE DEF copy
  <2>6. ~mixed => Below(copy, everSaid')
    BY <2>1, <2>4 DEF Below, OnlyWhatWasSaid
  <2>7. clerk' \in [Clerks -> {Off} \cup Commanding]
    BY <1>t, <2>2, <2>3
  <2>8. AccessTypeOK'
    BY <1>1, <2>3, <2>4, <2>5, <2>7 DEF Command, AccessTypeOK, server, Commanding
  <2>9. OnlyWhatWasSaid'
    <3>. SUFFICES ASSUME ~mixed' PROVE OnlyWhatWasSaid'
      BY DEF OnlyWhatWasSaid
    <3>0. ~mixed
      BY <2>3
    <3>1. Below(grantsFile', everSaid') /\ (grantsTemp' # NoTemp => Below(grantsTemp', everSaid'))
      BY <2>3, <2>4, <3>0 DEF OnlyWhatWasSaid, Below
    <3>2. ASSUME NEW d \in Clerks, clerk'[d] # Off PROVE Below(clerk'[d].copy, everSaid')
      <4>1. CASE d = c
        BY <4>1, <2>2, <2>3, <2>6, <1>t, <3>0
      <4>2. CASE d # c
        <5>1. clerk'[d] = clerk[d]
          BY <4>2, <2>3, <1>t
        <5>. QED BY <5>1, <3>2, <2>4, <3>0 DEF OnlyWhatWasSaid, Below
      <4>. QED BY <4>1, <4>2
    <3>. QED BY <3>1, <3>2 DEF OnlyWhatWasSaid
  <2>10. OneAtATime'
    <3>. SUFFICES ASSUME ~crossed' PROVE OneAtATime'
      BY DEF OneAtATime
    <3>1. ~crossed /\ \A d \in Clerks \ {c} : clerk[d] = Off
      BY <1>1 DEF Command
    <3>2. \A d \in Clerks : clerk'[d] = IF d = c THEN new ELSE Off
      BY <3>1, <2>3, <1>t
    <3>3. new.copy = Changed(said', new.of, new.scope, new.adds) /\ grantsFile' = said'
      BY <2>2, <2>3, <3>1 DEF OneAtATime, copy
    <3>. QED BY <2>2, <3>2, <3>3 DEF OneAtATime
  <2>. QED BY <1>s, <2>4, <2>5, <2>8, <2>9, <2>10
<1>2. ASSUME NEW c \in Clerks, OpenTemp(c) PROVE AccessInv'
  <2>1. /\ clerk[c] \in Commanding /\ clerk' = [clerk EXCEPT ![c].step = "flush"]
        /\ clerk[c].step = "open" /\ grantsTemp' = NoGrants
        /\ UNCHANGED <<grantsFile, said, everSaid, crossed, mixed>>
    BY <1>2, <1>t DEF OpenTemp, Proceeds, Off
  <2>2. UNCHANGED server /\ Below(everSaid, everSaid')
    BY <1>2 DEF OpenTemp, Below
  <2>. DEFINE new == [clerk[c] EXCEPT !.step = "flush"]
  <2>3. /\ new \in Commanding /\ new.copy = clerk[c].copy /\ new.into = clerk[c].into
        /\ new.step = "flush" /\ new.of = clerk[c].of /\ new.scope = clerk[c].scope
        /\ new.adds = clerk[c].adds
    BY <2>1 DEF Commanding
  <2>4. clerk' = [clerk EXCEPT ![c] = new]
    BY <2>1
  <2>. HIDE DEF new
  <2>5. clerk' \in [Clerks -> {Off} \cup Commanding] /\ \A d \in Clerks : clerk'[d] = IF d = c THEN new ELSE clerk[d]
    BY <1>t, <2>3, <2>4
  <2>6. AccessTypeOK'
    BY <1>2, <2>1, <2>2, <2>5 DEF OpenTemp, AccessTypeOK, server, Commanding
  <2>7. OnlyWhatWasSaid'
    <3>. SUFFICES ASSUME ~mixed PROVE OnlyWhatWasSaid'
      BY <2>1 DEF OnlyWhatWasSaid
    <3>1. Below(NoGrants, everSaid)
      BY DEF Below, NoGrants
    <3>2. ASSUME NEW d \in Clerks, clerk'[d] # Off PROVE Below(clerk'[d].copy, everSaid)
      BY <2>1, <2>3, <2>5, <3>2 DEF OnlyWhatWasSaid
    <3>. QED BY <2>1, <3>1, <3>2 DEF OnlyWhatWasSaid
  <2>8. OneAtATime'
    <3>. SUFFICES ASSUME ~crossed' PROVE OneAtATime'
      BY DEF OneAtATime
    <3>1. \A d \in Clerks : clerk'[d] # Off => d = c
      BY <2>1, <2>5 DEF OneAtATime
    <3>. QED BY <2>1, <2>3, <2>5, <3>1 DEF OneAtATime
  <2>. QED BY <1>s, <2>2, <2>6, <2>7, <2>8
<1>3. ASSUME NEW c \in Clerks, FlushTemp(c) PROVE AccessInv'
  <2>1. /\ clerk[c] \in Commanding /\ clerk' = [clerk EXCEPT ![c].step = "replace"]
        /\ clerk[c].step = "flush" /\ UNCHANGED <<said, everSaid, crossed>>
    BY <1>3, <1>t DEF FlushTemp, Proceeds, Off
  <2>2. UNCHANGED server /\ Below(everSaid, everSaid')
    BY <1>3 DEF FlushTemp, Below
  <2>. DEFINE new == [clerk[c] EXCEPT !.step = "replace"]
  <2>3. /\ new \in Commanding /\ new.copy = clerk[c].copy /\ new.into = clerk[c].into
        /\ new.step = "replace" /\ new.of = clerk[c].of /\ new.scope = clerk[c].scope
        /\ new.adds = clerk[c].adds
    BY <2>1 DEF Commanding
  <2>4. clerk' = [clerk EXCEPT ![c] = new]
    BY <2>1
  <2>. HIDE DEF new
  <2>5. clerk' \in [Clerks -> {Off} \cup Commanding] /\ \A d \in Clerks : clerk'[d] = IF d = c THEN new ELSE clerk[d]
    BY <1>t, <2>3, <2>4
  <2>6. PICK text \in Grants :
          /\ mixed' \in BOOLEAN /\ (mixed => mixed') /\ (mixed' \/ text = clerk[c].copy)
          /\ clerk[c].into = "temp" /\ grantsTemp = NoGrants => text = clerk[c].copy
          /\ grantsTemp' = IF clerk[c].into = "temp" THEN text ELSE grantsTemp
          /\ grantsFile' = IF clerk[c].into = "yml" THEN text ELSE grantsFile
    <3>. DEFINE into == clerk[c].into
                over == CASE into = "temp" -> grantsTemp [] into = "yml" -> grantsFile
                          [] OTHER -> NoGrants
                texts == IF over = NoGrants THEN {clerk[c].copy} ELSE Mixtures(clerk[c].copy, over)
    <3>1. /\ mixed' = (mixed \/ over # NoGrants)
          /\ \E text \in texts :
               /\ grantsTemp' = IF into = "temp" THEN text ELSE grantsTemp
               /\ grantsFile' = IF into = "yml" THEN text ELSE grantsFile
      BY <1>3 DEF FlushTemp
    <3>2. texts \subseteq Grants
      BY <2>1 DEF Mixtures, Commanding
    <3>3. over = NoGrants => texts = {clerk[c].copy}
      OBVIOUS
    <3>4. into = "temp" => over = grantsTemp
      OBVIOUS
    <3>5. mixed \in BOOLEAN
      BY DEF AccessTypeOK
    <3>. HIDE DEF over, texts
    <3>. QED BY <3>1, <3>2, <3>3, <3>4, <3>5
  <2>8. AccessTypeOK'
    <3>1. grantsFile' \in Grants /\ (grantsTemp' = NoTemp \/ grantsTemp' \in Grants)
      BY <2>6 DEF AccessTypeOK
    <3>. QED BY <1>3, <2>1, <2>2, <2>5, <2>6, <3>1 DEF FlushTemp, AccessTypeOK, server, Commanding
  <2>9. OnlyWhatWasSaid'
    <3>. SUFFICES ASSUME ~mixed' PROVE OnlyWhatWasSaid'
      BY DEF OnlyWhatWasSaid
    <3>0. ~mixed /\ text = clerk[c].copy /\ Below(text, everSaid)
      BY <2>1, <2>6 DEF OnlyWhatWasSaid
    <3>1. Below(grantsFile', everSaid) /\ (grantsTemp' # NoTemp => Below(grantsTemp', everSaid))
      BY <2>6, <3>0 DEF OnlyWhatWasSaid
    <3>2. ASSUME NEW d \in Clerks, clerk'[d] # Off PROVE Below(clerk'[d].copy, everSaid)
      BY <2>1, <2>3, <2>5, <3>0, <3>2 DEF OnlyWhatWasSaid
    <3>. QED BY <2>1, <3>1, <3>2 DEF OnlyWhatWasSaid
  <2>10. OneAtATime'
    <3>. SUFFICES ASSUME ~crossed' PROVE OneAtATime'
      BY DEF OneAtATime
    <3>1. \A d \in Clerks : clerk'[d] # Off => d = c
      BY <2>1, <2>5 DEF OneAtATime
    <3>2. clerk[c].into = "temp" /\ grantsTemp = NoGrants /\ grantsFile = said
          /\ clerk[c].copy = Changed(said, clerk[c].of, clerk[c].scope, clerk[c].adds)
      BY <2>1 DEF OneAtATime
    <3>3. grantsTemp' = clerk[c].copy /\ grantsFile' = grantsFile
      BY <3>2, <2>6
    <3>. QED BY <2>1, <2>3, <2>5, <3>1, <3>2, <3>3 DEF OneAtATime
  <2>. QED BY <1>s, <2>2, <2>8, <2>9, <2>10
<1>4. ASSUME NEW c \in Clerks, ReplaceFile(c) PROVE AccessInv'
  <2>1. clerk[c] \in Commanding /\ clerk[c].step = "replace" /\ UNCHANGED <<everSaid, crossed, mixed>>
        /\ said' = Changed(said, clerk[c].of, clerk[c].scope, clerk[c].adds)
    BY <1>4, <1>t DEF ReplaceFile, Off
  <2>2. UNCHANGED server /\ Below(everSaid, everSaid')
    BY <1>4 DEF ReplaceFile, Below
  <2>3. said' \in Grants
    BY <2>1, ChangeFacts DEF AccessTypeOK, Commanding
  <2>4. \A d \in Clerks :
          clerk'[d] = IF d = c THEN Off
                      ELSE IF clerk[d].step = "flush" THEN [clerk[d] EXCEPT !.into = Renamed(@)]
                      ELSE clerk[d]
    BY <1>4 DEF ReplaceFile
  <2>5. ASSUME NEW d \in Clerks
        PROVE  clerk'[d] = Off \/ (clerk'[d] \in Commanding /\ clerk[d] # Off /\ clerk'[d].copy = clerk[d].copy)
    <3>1. CASE d = c \/ clerk[d].step # "flush"
      BY <3>1, <2>4, <1>t
    <3>2. CASE d # c /\ clerk[d].step = "flush"
      <4>1. clerk[d] \in Commanding
        BY <3>2, <1>t DEF Off
      <4>2. clerk'[d] = [clerk[d] EXCEPT !.into = Renamed(clerk[d].into)]
        BY <3>2, <4>1, <2>4
      <4>3. Renamed(clerk[d].into) \in {"temp", "yml", "gone"}
        BY <4>1 DEF Renamed, Commanding
      <4>. QED BY <4>1, <4>2, <4>3 DEF Commanding
    <3>. QED BY <3>1, <3>2
  <2>6. clerk' \in [Clerks -> {Off} \cup Commanding]
    <3>1. clerk' = [d \in Clerks |-> clerk'[d]]
      BY <1>4 DEF ReplaceFile
    <3>. QED BY <3>1, <2>5
  <2>7. \/ UNCHANGED files
        \/ grantsTemp # NoTemp /\ grantsFile' = grantsTemp /\ grantsTemp' = NoTemp
    BY <1>4 DEF ReplaceFile
  <2>8. AccessTypeOK'
    <3>1. grantsFile' \in Grants /\ (grantsTemp' = NoTemp \/ grantsTemp' \in Grants)
      BY <2>7 DEF AccessTypeOK, files
    <3>. QED BY <1>4, <2>1, <2>2, <2>3, <2>6, <3>1 DEF ReplaceFile, AccessTypeOK, server, Commanding
  <2>9. OnlyWhatWasSaid'
    <3>. SUFFICES ASSUME ~mixed PROVE OnlyWhatWasSaid'
      BY <2>1 DEF OnlyWhatWasSaid
    <3>1. Below(grantsFile', everSaid) /\ (grantsTemp' # NoTemp => Below(grantsTemp', everSaid))
      BY <2>7 DEF OnlyWhatWasSaid, files
    <3>2. ASSUME NEW d \in Clerks, clerk'[d] # Off PROVE Below(clerk'[d].copy, everSaid)
      BY <2>5, <3>2 DEF OnlyWhatWasSaid
    <3>. QED BY <2>1, <3>1, <3>2 DEF OnlyWhatWasSaid
  <2>10. OneAtATime'
    <3>. SUFFICES ASSUME ~crossed' PROVE OneAtATime'
      BY DEF OneAtATime
    <3>1. \A d \in Clerks : clerk'[d] = Off
      <4>1. ASSUME NEW d \in Clerks, d # c PROVE clerk[d] = Off
        BY <2>1, <4>1 DEF OneAtATime
      <4>2. ASSUME NEW d \in Clerks, d # c PROVE clerk'[d] = Off
        BY <4>1, <4>2, <2>5
      <4>3. clerk'[c] = Off
        BY <1>4 DEF ReplaceFile
      <4>. QED BY <4>2, <4>3
    <3>2. grantsFile' = said'
      <4>1. grantsTemp = clerk[c].copy /\ grantsTemp = said'
        BY <2>1 DEF OneAtATime
      <4>2. grantsTemp # NoTemp
        BY <4>1, <2>3
      <4>. QED BY <4>1, <4>2, <1>4 DEF ReplaceFile
    <3>. QED BY <3>1, <3>2 DEF OneAtATime
  <2>. QED BY <1>s, <2>2, <2>8, <2>9, <2>10
<1>5. ASSUME NEW c \in Clerks, ClerkDies(c) PROVE AccessInv'
  <2>1. \A d \in Clerks : clerk'[d] = IF d = c THEN Off ELSE clerk[d]
    BY <1>5, <1>t DEF ClerkDies
  <2>2. clerk' \in [Clerks -> {Off} \cup Commanding]
    BY <1>5, <1>t DEF ClerkDies
  <2>3. UNCHANGED <<grantsFile, grantsTemp, said, everSaid, crossed, mixed, commands>> /\ UNCHANGED server
    BY <1>5 DEF ClerkDies, files
  <2>4. Below(everSaid, everSaid')
    BY <2>3 DEF Below
  <2>5. AccessTypeOK'
    BY <2>2, <2>3 DEF AccessTypeOK, server, Commanding
  <2>6. OnlyWhatWasSaid'
    BY <2>1, <2>3 DEF OnlyWhatWasSaid
  <2>7. OneAtATime'
    BY <2>1, <2>3 DEF OneAtATime
  <2>. QED BY <1>s, <2>3, <2>4, <2>5, <2>6, <2>7
<1>6. CASE Launch
  <2>1. scopeGrants' \in Grants /\ \A i \in Identities : scopeGrants'[i] \subseteq StaticGrants[i] \cup grantsFile[i]
    BY <1>6, MergeFacts DEF Launch, AccessTypeOK
  <2>2. UNCHANGED <<grantsFile, grantsTemp, clerk, commands, said, everSaid, crossed, mixed>> /\ lastCall' = {}
        /\ basis' = [said |-> said, crossed |-> crossed, mixed |-> mixed] /\ launches' = launches + 1 /\ launches < MaxLaunches
    BY <1>6 DEF Launch, files
  <2>3. AccessTypeOK'
    BY <2>1, <2>2 DEF AccessTypeOK
  <2>4. OnlyWhatWasSaid' /\ ServerWasTold'
    <3>1. OnlyWhatWasSaid'
      BY <2>2 DEF OnlyWhatWasSaid
    <3>2. ServerWasTold'
      BY <2>1, <2>2 DEF OnlyWhatWasSaid, ServerWasTold, Below
    <3>. QED BY <3>1, <3>2
  <2>5. OneAtATime'
    BY <2>2 DEF OneAtATime
  <2>6. MergedAtLaunch'
    BY <1>6, <2>2 DEF Launch, MergedAtLaunch, OneAtATime
  <2>7. CallsAreGranted'
    BY <2>2 DEF CallsAreGranted
  <2>. QED BY <2>3, <2>4, <2>5, <2>6, <2>7
<1>7. ASSUME NEW g \in Guests, NEW need \in Ranks, CallTool(g, need) PROVE AccessInv'
  <2>1. UNCHANGED <<grantsFile, grantsTemp, clerk, commands, said, everSaid, crossed, mixed, scopeGrants,
                    basis, launches>>
        /\ lastCall' = {<<g, need>>} /\ launches > 0 /\ Suffices(Granted(scopeGrants, g), need)
    BY <1>7 DEF CallTool, files
  <2>2. AccessTypeOK'
    BY <2>1 DEF AccessTypeOK
  <2>3. OnlyWhatWasSaid' /\ ServerWasTold' /\ OneAtATime' /\ MergedAtLaunch'
    BY <2>1 DEF OnlyWhatWasSaid, ServerWasTold, OneAtATime, MergedAtLaunch
  <2>4. CallsAreGranted'
    BY <2>1 DEF CallsAreGranted
  <2>. QED BY <2>2, <2>3, <2>4
<1>8. CASE UNCHANGED accessVars
  BY <1>8 DEF accessVars, files, server, AccessTypeOK, OnlyWhatWasSaid, ServerWasTold, OneAtATime,
              MergedAtLaunch, CallsAreGranted
<1>. QED BY <1>1, <1>2, <1>3, <1>4, <1>5, <1>6, <1>7, <1>8 DEF AccessNext

-------------------------------------------------------------------------------
\* Grants that lie within others suffice for no more than those do.
LEMMA MoreSuffices ==
  ASSUME NEW low, NEW high, NEW need, low \subseteq high, Suffices(low, need)
  PROVE  Suffices(high, need)
BY DEF Suffices

LEMMA AccessKept == AccessInv => AccessKeeps
<1>. SUFFICES ASSUME AccessInv PROVE AccessKeeps
  OBVIOUS
<1>. USE DEF AccessInv
<1>1. NothingInvented
  <2>1. mixed \/ \A i \in Identities : grantsFile[i] \subseteq everSaid[i]
    BY DEF OnlyWhatWasSaid, Below
  <2>2. ASSUME ~basis.mixed, NEW c \in lastCall, c[2] # 0
        PROVE  \E i \in {c[1], Anyone} : Suffices(StaticGrants[i] \cup everSaid[i], c[2])
    <3>1. c[1] \in Identities /\ Anyone \in Identities /\ c[2] \in Nat
      BY AccessAssumption DEF AccessTypeOK, Identities
    <3>2. Suffices(Granted(scopeGrants, c[1]), c[2])
      BY DEF CallsAreGranted
    <3>3. ~Suffices({0}, c[2])
      BY <2>2, <3>1 DEF Suffices
    <3>4. PICK i \in {c[1], Anyone} : Suffices(scopeGrants[i], c[2])
      BY <3>2, <3>3 DEF Granted
    <3>5. scopeGrants[i] \subseteq StaticGrants[i] \cup everSaid[i]
      BY <2>2, <3>1, <3>4 DEF ServerWasTold
    <3>. QED BY <3>4, <3>5, MoreSuffices
  <2>. QED BY <2>1, <2>2 DEF NothingInvented
<1>2. RevokedIsRevoked
  <2>. SUFFICES ASSUME ~basis.crossed, NEW c \in lastCall
       PROVE  Suffices(Granted([i \in Identities |-> IF basis.said[i] # {} THEN basis.said[i]
                                                     ELSE StaticGrants[i]], c[1]), c[2])
    BY DEF RevokedIsRevoked
  <2>1. scopeGrants = [i \in Identities |-> IF basis.said[i] # {} THEN basis.said[i] ELSE StaticGrants[i]]
    BY DEF CallsAreGranted, MergedAtLaunch, Merged
  <2>. QED BY <2>1 DEF CallsAreGranted
<1>. QED BY <1>1, <1>2 DEF AccessKeeps

\* Whatever clerks load, change, write or die in the middle of together, the file and the
\* server name nobody for what nobody granted, until two of them have written into one
\* file; and a revoke that nobody crossed counts from the next start of the server on
\* (access/grants.py, config.py, server.py); AccessKeeps.
THEOREM GrantsAreGiven == AccessSpec => [](AccessTypeOK /\ AccessKeeps)
<1>1. AccessSpec => []AccessInv
  BY AccessStart, AccessStep, PTL DEF AccessSpec
<1>2. AccessInv => AccessTypeOK /\ AccessKeeps
  BY AccessKept DEF AccessInv
<1>. QED BY <1>1, <1>2, PTL

-------------------------------------------------------------------------------
(* The token buckets: as long as no two threads write a bucket at once,    *)
(* what it holds, what it let pass and what it is owed back never exceed   *)
(* what it was given; for any threads, peers, capacities and rate.         *)

Asking  == [step : {"find", "make", "fetch", "refill", "store", "stamp", "check", "take", "spend",
                    "refund", "give"},
            of : Buckets, rail : {Rail} \X Callers, peer : PeersAsked \cup {Nobody}, read : Int,
            now : 0..LastSecond]
Threads == {AtEase} \cup Asking

Amid(r, steps) == r # AtEase /\ r.step \in steps
Writes(r)    == Amid(r, {"store", "stamp", "spend", "give"})
\* Between the check and the subtraction; and holding a token of a rail's bucket it has not used.
Takes(r, b)  == Amid(r, {"take", "spend"}) /\ r.of = b
Owes(r, b)   == IF r # AtEase /\ ~IsRail(r.of) THEN r.rail = b
                ELSE Amid(r, {"refund", "give"}) /\ r.of = b
Stamps(r, b) == Amid(r, {"stamp"}) /\ r.of = b

Taking == [b \in Buckets |-> Cardinality({t \in Callers : Takes(call[t], b)})]
Owing  == [b \in Buckets |-> Cardinality({t \in Callers : Owes(call[t], b)})]
UsedUp == [b \in Buckets |-> tokens[b] + passed[b] + Owing[b]]

\* A thread gives back to a rail's bucket.
InTurn == \A t \in Callers : Amid(call[t], {"refund", "give"}) => IsRail(call[t].of)
OneWriter == \A t, u \in Callers :
               Writes(call[t]) /\ Writes(call[u]) /\ call[t].of = call[u].of => t = u
ReadsLast == \A t \in Callers :
               Amid(call[t], {"store", "spend", "give"}) => call[t].read = tokens[call[t].of]
Timely ==
  /\ \A b \in Buckets : refilled[b] <= second
  /\ \A t \in Callers : Amid(call[t], {"store", "stamp"}) =>
       refilled[call[t].of] <= call[t].now /\ call[t].now <= second
\* The tokens are stored before the time is stamped.
WithinBudget == \A b \in Buckets :
  /\ \A t \in Callers : Stamps(call[t], b) => UsedUp[b] <= Holds(b) + call[t].now * Rate
  /\ (\A t \in Callers : ~Stamps(call[t], b)) => UsedUp[b] <= Holds(b) + refilled[b] * Rate
Floor == \A b \in Buckets : tokens[b] - Taking[b] >= 1 - Cardinality(Callers)

Unraced == OneWriter /\ ReadsLast /\ Timely /\ WithinBudget /\ Floor
RateInv == RateLimitTypeOK /\ InTurn /\ (~raced => Unraced)

-------------------------------------------------------------------------------
\* How the size of a set of callers changes.
LEMMA Counting ==
  ASSUME NEW S \in SUBSET Callers, NEW t \in Callers
  PROVE  /\ IsFiniteSet(S) /\ Cardinality(S) \in Nat /\ Cardinality(S) <= Cardinality(Callers)
         /\ t \in S => Cardinality(S \ {t}) = Cardinality(S) - 1
         /\ t \notin S => /\ Cardinality(S \cup {t}) = Cardinality(S) + 1
                          /\ Cardinality(S) <= Cardinality(Callers) - 1
<1>1. IsFiniteSet(S) /\ Cardinality(S) \in Nat /\ Cardinality(S) <= Cardinality(Callers)
  BY FS_Subset, FS_CardinalityType, RateLimitAssumption
<1>2. t \in S => Cardinality(S \ {t}) = Cardinality(S) - 1
  BY <1>1, FS_RemoveElement
<1>3. ASSUME t \notin S
      PROVE  Cardinality(S \cup {t}) = Cardinality(S) + 1 /\ Cardinality(S) <= Cardinality(Callers) - 1
  <2>1. Cardinality(S \cup {t}) = Cardinality(S) + 1
    BY <1>1, <1>3, FS_AddElement
  <2>2. Cardinality(S \cup {t}) <= Cardinality(Callers)
    BY FS_Subset, RateLimitAssumption
  <2>3. Cardinality(Callers) \in Nat
    BY FS_CardinalityType, RateLimitAssumption
  <2>. QED BY <1>1, <2>1, <2>2, <2>3
<1>. QED BY <1>1, <1>2, <1>3

\* The counts when one thread moves.
LEMMA Moving ==
  ASSUME RateLimitTypeOK, NEW t \in Callers, NEW new \in Threads, call' = [call EXCEPT ![t] = new]
  PROVE  /\ call' \in [Callers -> Threads] /\ call'[t] = new
         /\ \A u \in Callers \ {t} : call'[u] = call[u]
         /\ Owing \in [Buckets -> Nat] /\ Owing' \in [Buckets -> Nat]
         /\ Taking \in [Buckets -> Nat] /\ Taking' \in [Buckets -> Nat]
         /\ \A b \in Buckets : Owing'[b] =
              Owing[b] + (IF Owes(new, b) THEN 1 ELSE 0) - (IF Owes(call[t], b) THEN 1 ELSE 0)
         /\ \A b \in Buckets : Taking'[b] =
              Taking[b] + (IF Takes(new, b) THEN 1 ELSE 0) - (IF Takes(call[t], b) THEN 1 ELSE 0)
         /\ \A b \in Buckets : ~Takes(new, b) => Taking'[b] <= Cardinality(Callers) - 1
<1>1. /\ call' \in [Callers -> Threads] /\ call'[t] = new
      /\ \A u \in Callers \ {t} : call'[u] = call[u]
  BY DEF RateLimitTypeOK, Threads, Asking
<1>. HIDE DEF Threads
<1>2. ASSUME NEW S, NEW T, S \subseteq Callers, T \subseteq Callers, S \ {t} = T \ {t}
      PROVE  /\ Cardinality(S) \in Nat /\ Cardinality(T) \in Nat
             /\ Cardinality(T) = Cardinality(S) + (IF t \in T THEN 1 ELSE 0) - (IF t \in S THEN 1 ELSE 0)
             /\ t \notin T => Cardinality(T) <= Cardinality(Callers) - 1
  <2>1. CASE t \in S /\ t \notin T
    <3>1. T = S \ {t} /\ S \in SUBSET Callers /\ T \in SUBSET Callers
      BY <1>2, <2>1
    <3>2. Cardinality(S) \in Nat /\ Cardinality(T) = Cardinality(S) - 1
      BY <2>1, <3>1, Counting
    <3>3. Cardinality(T) \in Nat /\ Cardinality(T) <= Cardinality(Callers) - 1
      BY <2>1, <3>1, Counting
    <3>. QED BY <2>1, <3>2, <3>3
  <2>2. CASE t \notin S /\ t \in T
    <3>1. T = S \cup {t} /\ S \in SUBSET Callers /\ T \in SUBSET Callers
      BY <1>2, <2>2
    <3>2. Cardinality(S) \in Nat /\ Cardinality(T) = Cardinality(S) + 1
      BY <2>2, <3>1, Counting
    <3>. QED BY <2>2, <3>2
  <2>3. CASE t \in S <=> t \in T
    <3>1. T = S
      BY <1>2, <2>3
    <3>2. Cardinality(S) \in Nat /\ (t \notin S => Cardinality(S) <= Cardinality(Callers) - 1)
      BY <1>2, Counting
    <3>. QED BY <2>3, <3>1, <3>2
  <2>. QED BY <2>1, <2>2, <2>3
<1>3. ASSUME NEW b \in Buckets
      PROVE  /\ Owing[b] \in Nat /\ Owing'[b] \in Nat
             /\ Owing'[b] = Owing[b] + (IF Owes(new, b) THEN 1 ELSE 0) - (IF Owes(call[t], b) THEN 1 ELSE 0)
  <2>. DEFINE S == {u \in Callers : Owes(call[u], b)}
              T == {u \in Callers : Owes(call'[u], b)}
  <2>1. S \subseteq Callers /\ T \subseteq Callers /\ S \ {t} = T \ {t}
    BY <1>1
  <2>2. (t \in S <=> Owes(call[t], b)) /\ (t \in T <=> Owes(new, b))
    BY <1>1
  <2>3. Owing[b] = Cardinality(S)
    BY DEF Owing
  <2>4. Owing'[b] = Cardinality(T)
    BY DEF Owing, Owes, Amid, IsRail
  <2>. HIDE DEF S, T
  <2>. QED BY <2>1, <2>2, <2>3, <2>4, <1>2
<1>4. ASSUME NEW b \in Buckets
      PROVE  /\ Taking[b] \in Nat /\ Taking'[b] \in Nat
             /\ Taking'[b] = Taking[b] + (IF Takes(new, b) THEN 1 ELSE 0) - (IF Takes(call[t], b) THEN 1 ELSE 0)
             /\ ~Takes(new, b) => Taking'[b] <= Cardinality(Callers) - 1
  <2>. DEFINE S == {u \in Callers : Takes(call[u], b)}
              T == {u \in Callers : Takes(call'[u], b)}
  <2>1. S \subseteq Callers /\ T \subseteq Callers /\ S \ {t} = T \ {t}
    BY <1>1
  <2>2. (t \in S <=> Takes(call[t], b)) /\ (t \in T <=> Takes(new, b))
    BY <1>1
  <2>3. Taking[b] = Cardinality(S)
    BY DEF Taking
  <2>4. Taking'[b] = Cardinality(T)
    BY DEF Taking, Takes, Amid
  <2>. HIDE DEF S, T
  <2>. QED BY <2>1, <2>2, <2>3, <2>4, <1>2
<1>5. /\ Taking \in [Buckets -> Nat] /\ Taking' \in [Buckets -> Nat]
      /\ Owing \in [Buckets -> Nat] /\ Owing' \in [Buckets -> Nat]
  <2>1. Taking = [b \in Buckets |-> Taking[b]] /\ Owing = [b \in Buckets |-> Owing[b]]
    BY DEF Taking, Owing
  <2>2. Taking' = [b \in Buckets |-> Taking'[b]]
    BY DEF Taking, Takes, Amid
  <2>3. Owing' = [b \in Buckets |-> Owing'[b]]
    BY DEF Owing, Owes, Amid, IsRail
  <2>. QED BY <1>3, <1>4, <2>1, <2>2, <2>3
<1>. QED BY <1>1, <1>3, <1>4, <1>5

\* Refilling: the time between counts at the rate, and more time is never fewer tokens.
LEMMA RateFacts ==
  ASSUME NEW m \in Nat, NEW n \in Nat, m <= n
  PROVE  /\ m * Rate \in Nat /\ n * Rate \in Nat /\ (n - m) * Rate \in Nat
         /\ (n - m) * Rate = n * Rate - m * Rate /\ m * Rate <= n * Rate
<1>. Rate \in Nat
  BY RateLimitAssumption
<1>1. n - m \in Nat
  OBVIOUS
<1>2. m * Rate \in Nat /\ n * Rate \in Nat
  OBVIOUS
<1>3. (n - m) * Rate \in Nat
  BY <1>1
<1>4. (n - m) * Rate = n * Rate - m * Rate
  OBVIOUS
<1>. QED BY <1>2, <1>3, <1>4

\* What a thread's step has to keep to, bucket by bucket, when nobody else is writing.
LEMMA Stepping ==
  ASSUME RateLimitTypeOK, Unraced, NEW t \in Callers, NEW new \in Threads,
         call' = [call EXCEPT ![t] = new], second' = second,
         Writes(new) => /\ new.of = call[t].of
                        /\ Writes(call[t]) \/ \A u \in Callers \ {t} :
                                                ~(Writes(call[u]) /\ call[u].of = new.of),
         \A b \in Buckets : tokens'[b] # tokens[b] \/ refilled'[b] # refilled[b] =>
                              Writes(call[t]) /\ b = call[t].of,
         Amid(new, {"store", "spend", "give"}) => new.read = tokens'[new.of],
         Amid(new, {"store", "stamp"}) => refilled'[new.of] <= new.now /\ new.now <= second,
         \A b \in Buckets : refilled'[b] <= second,
         \A b \in Buckets :
           IF Stamps(new, b) THEN UsedUp'[b] <= Holds(b) + new.now * Rate
           ELSE IF Stamps(call[t], b) THEN UsedUp'[b] <= Holds(b) + refilled'[b] * Rate
           ELSE UsedUp'[b] <= UsedUp[b] /\ refilled'[b] = refilled[b],
         \A b \in Buckets : UsedUp'[b] \in Int /\ UsedUp[b] \in Int,
         \A b \in Buckets : tokens'[b] - Taking'[b] >= 1 - Cardinality(Callers)
  PROVE  Unraced'
<1>1. call'[t] = new /\ \A u \in Callers \ {t} : call'[u] = call[u]
  BY Moving
<1>2. OneWriter'
  <2>1. ASSUME NEW u \in Callers \ {t}, Writes(call[u]), Writes(new), call[u].of = new.of PROVE FALSE
    BY <2>1 DEF Unraced, OneWriter
  <2>2. ASSUME NEW u \in Callers, NEW v \in Callers, Writes(call'[u]), Writes(call'[v]),
               call'[u].of = call'[v].of
        PROVE  u = v
    <3>1. CASE u # t /\ v # t
      BY <1>1, <2>2, <3>1 DEF Unraced, OneWriter
    <3>2. CASE u = t /\ v # t
      BY <1>1, <2>1, <2>2, <3>2
    <3>3. CASE u # t /\ v = t
      BY <1>1, <2>1, <2>2, <3>3
    <3>. QED BY <3>1, <3>2, <3>3
  <2>. QED BY <2>2 DEF OneWriter, Writes, Amid
<1>3. ASSUME NEW u \in Callers \ {t}, Writes(call[u])
      PROVE  tokens'[call[u].of] = tokens[call[u].of] /\ refilled'[call[u].of] = refilled[call[u].of]
  <2>1. call[u].of \in Buckets
    BY <1>3 DEF RateLimitTypeOK, Writes, Amid
  <2>2. ~(Writes(call[t]) /\ call[u].of = call[t].of)
    BY <1>3 DEF Unraced, OneWriter
  <2>. QED BY <2>1, <2>2
<1>4. ReadsLast'
  <2>1. ASSUME NEW u \in Callers, Amid(call'[u], {"store", "spend", "give"})
        PROVE  call'[u].read = tokens'[call'[u].of]
    <3>1. CASE u = t
      BY <1>1, <2>1, <3>1
    <3>2. CASE u # t
      <4>1. Writes(call[u]) /\ call'[u] = call[u]
        BY <1>1, <2>1, <3>2 DEF Writes, Amid
      <4>. QED BY <1>3, <2>1, <3>2, <4>1 DEF Unraced, ReadsLast
    <3>. QED BY <3>1, <3>2
  <2>. QED BY <2>1 DEF ReadsLast, Amid
<1>5. Timely'
  <2>1. ASSUME NEW u \in Callers, Amid(call'[u], {"store", "stamp"})
        PROVE  refilled'[call'[u].of] <= call'[u].now /\ call'[u].now <= second'
    <3>1. CASE u = t
      BY <1>1, <2>1, <3>1
    <3>2. CASE u # t
      <4>1. Writes(call[u]) /\ call'[u] = call[u]
        BY <1>1, <2>1, <3>2 DEF Writes, Amid
      <4>. QED BY <1>3, <2>1, <3>2, <4>1 DEF Unraced, Timely
    <3>. QED BY <3>1, <3>2
  <2>. QED BY <2>1 DEF Timely, Amid
<1>6. WithinBudget'
  <2>1. ASSUME NEW b \in Buckets
        PROVE  /\ \A u \in Callers : Stamps(call'[u], b) => UsedUp'[b] <= Holds(b) + call'[u].now * Rate
               /\ (\A u \in Callers : ~Stamps(call'[u], b)) => UsedUp'[b] <= Holds(b) + refilled'[b] * Rate
    <3>1. \A u \in Callers \ {t} : Stamps(call[u], b) => ~Stamps(call[t], b) /\ ~Stamps(new, b)
      BY <1>1, <1>2 DEF Stamps, Unraced, OneWriter, Writes, Amid
    <3>2. CASE Stamps(new, b)
      BY <1>1, <3>1, <3>2
    <3>3. CASE ~Stamps(new, b) /\ Stamps(call[t], b)
      BY <1>1, <3>1, <3>3
    <3>4. CASE ~Stamps(new, b) /\ ~Stamps(call[t], b)
      <4>1. UsedUp'[b] <= UsedUp[b] /\ refilled'[b] = refilled[b] /\ UsedUp'[b] \in Int /\ UsedUp[b] \in Int
        BY <3>4
      <4>2. Holds(b) \in Int /\ refilled[b] * Rate \in Int
        BY RateLimitAssumption DEF Holds, RateLimitTypeOK
      <4>3. \A u \in Callers : Stamps(call'[u], b) => Stamps(call[u], b) /\ call'[u] = call[u]
        BY <1>1, <3>4
      <4>4. \A u \in Callers : Stamps(call[u], b) => call[u].now * Rate \in Int
        BY RateLimitAssumption DEF RateLimitTypeOK, Stamps, Amid
      <4>5. (\A u \in Callers : ~Stamps(call'[u], b)) => \A u \in Callers : ~Stamps(call[u], b)
        BY <1>1, <3>4
      <4>6. ASSUME NEW u \in Callers, Stamps(call'[u], b) PROVE UsedUp'[b] <= Holds(b) + call'[u].now * Rate
        <5>1. UsedUp[b] <= Holds(b) + call[u].now * Rate /\ call'[u] = call[u]
          BY <4>3, <4>6 DEF Unraced, WithinBudget
        <5>. QED BY <5>1, <4>1, <4>2, <4>3, <4>4, <4>6
      <4>7. ASSUME \A u \in Callers : ~Stamps(call'[u], b) PROVE UsedUp'[b] <= Holds(b) + refilled'[b] * Rate
        <5>1. UsedUp[b] <= Holds(b) + refilled[b] * Rate
          BY <4>5, <4>7 DEF Unraced, WithinBudget
        <5>. QED BY <5>1, <4>1, <4>2
      <4>. QED BY <4>6, <4>7
    <3>. QED BY <3>2, <3>3, <3>4
  <2>. QED BY <2>1 DEF WithinBudget, Stamps, Amid, Holds, IsRail
<1>7. Floor'
  BY DEF Floor
<1>. QED BY <1>2, <1>4, <1>5, <1>6, <1>7 DEF Unraced

LEMMA RateStart == RateLimitInit => RateInv
<1>. SUFFICES ASSUME RateLimitInit PROVE RateInv
  OBVIOUS
<1>1. RateLimitTypeOK
  <2>1. tokens \in [Buckets -> Int] /\ passed \in [Buckets -> Nat]
    BY RateLimitAssumption DEF RateLimitInit, Holds
  <2>m. makers \in [BucketNames -> {{}}] /\ doubled = {}
    BY DEF RateLimitInit
  <2>2. refilled \in [Buckets -> 0..LastSecond] /\ second \in 0..LastSecond /\ asks \in 0..MaxAsks
    BY RateLimitAssumption DEF RateLimitInit
  <2>3. call \in [Callers -> {AtEase}] /\ raced \in BOOLEAN
    BY DEF RateLimitInit
  <2>. QED BY <2>1, <2>m, <2>2, <2>3 DEF RateLimitTypeOK
<1>2. \A t \in Callers : call[t] = AtEase
  BY DEF RateLimitInit
<1>3. InTurn
  BY <1>2 DEF InTurn, Amid
<1>4. \A b \in Buckets : Owing[b] = 0 /\ Taking[b] = 0
  <2>1. \A b \in Buckets : /\ {t \in Callers : Owes(call[t], b)} = {}
                           /\ {t \in Callers : Takes(call[t], b)} = {}
    BY <1>2 DEF Owes, Takes, Amid
  <2>. QED BY <2>1, FS_EmptySet DEF Owing, Taking
<1>5. OneWriter /\ ReadsLast
  BY <1>2 DEF OneWriter, ReadsLast, Writes, Amid
<1>6. Timely
  BY <1>2 DEF RateLimitInit, Timely, Amid
<1>7. WithinBudget
  <2>1. ASSUME NEW b \in Buckets PROVE UsedUp[b] <= Holds(b) + refilled[b] * Rate
    <3>1. tokens[b] = Holds(b) /\ passed[b] = 0 /\ refilled[b] = 0 /\ Holds(b) \in Nat
      BY RateLimitAssumption DEF RateLimitInit, Holds
    <3>2. UsedUp[b] = Holds(b)
      BY <1>4, <3>1 DEF UsedUp
    <3>3. refilled[b] * Rate = 0
      BY <3>1, RateLimitAssumption
    <3>. QED BY <3>1, <3>2, <3>3
  <2>. QED BY <1>2, <2>1 DEF WithinBudget, Stamps, Amid
<1>8. Floor
  <2>1. Cardinality(Callers) \in Nat /\ Cardinality(Callers) # 0
    BY FS_CardinalityType, FS_EmptySet, RateLimitAssumption
  <2>. QED BY <1>4, <2>1, RateLimitAssumption DEF Floor, RateLimitInit, Holds
<1>. QED BY <1>1, <1>3, <1>5, <1>6, <1>7, <1>8 DEF RateInv, Unraced

-------------------------------------------------------------------------------
LEMMA RateStep == RateInv /\ [RateLimitNext]_rateLimitVars => RateInv'
<1>. SUFFICES ASSUME RateInv, [RateLimitNext]_rateLimitVars PROVE RateInv'
  OBVIOUS
<1>. USE DEF RateInv
<1>t. /\ call \in [Callers -> Threads] /\ tokens \in [Buckets -> Int]
      /\ refilled \in [Buckets -> 0..LastSecond] /\ passed \in [Buckets -> Nat]
      /\ second \in 0..LastSecond /\ asks \in 0..MaxAsks /\ raced \in BOOLEAN
      /\ makers \in [BucketNames -> {{}} \cup {{u} : u \in Callers}] /\ doubled \subseteq BucketNames
      /\ \A b \in Buckets : Holds(b) \in Nat
      /\ Rate \in Nat /\ LastSecond \in Nat /\ MaxAsks \in Nat
  BY RateLimitAssumption DEF RateLimitTypeOK, Threads, Asking, Holds
<1>n. \A t \in Callers : /\ <<Rail, t>> \in Buckets /\ IsRail(<<Rail, t>>)
                         /\ \A p \in PeersAsked : <<p, t>> \in Buckets /\ ~IsRail(<<p, t>>)
  BY RateLimitAssumption DEF Rail, BucketNames, Buckets, IsRail
<1>v. \A b \in {Rail} \X Callers : b \in Buckets /\ IsRail(b)
  BY DEF Buckets, BucketNames, IsRail
<1>u. ASSUME ~raced
      PROVE  Unraced /\ \A b \in Buckets : tokens[b] - Taking[b] >= 1 - Cardinality(Callers)
  BY <1>u DEF Unraced, Floor
<1>s. \A b \in Buckets :
        /\ UsedUp[b] = tokens[b] + passed[b] + Owing[b]
        /\ UsedUp'[b] = tokens'[b] + passed'[b] + Owing'[b]
  BY DEF UsedUp
<1>c. Cardinality(Callers) \in Nat
  BY FS_CardinalityType, RateLimitAssumption
\* The bookkeeping of a step that leaves the tokens and the clocks alone.
<1>q. ASSUME NEW t \in Callers, NEW new \in Threads, call' = [call EXCEPT ![t] = new],
             UNCHANGED <<second, tokens, refilled, passed>>, ~raced,
             Writes(new) => /\ new.of = call[t].of
                            /\ Writes(call[t]) \/ \A u \in Callers \ {t} :
                                                    ~(Writes(call[u]) /\ call[u].of = new.of),
             Amid(new, {"store", "spend", "give"}) => new.read = tokens[new.of],
             Amid(new, {"store", "stamp"}) => new.now = second,
             \A b \in Buckets : ~Stamps(new, b) /\ ~Stamps(call[t], b),
             \A b \in Buckets : Owes(new, b) => Owes(call[t], b),
             \A b \in Buckets : Takes(new, b) => Takes(call[t], b) \/ tokens[b] >= 1
      PROVE  Unraced'
  <2>1. Unraced /\ \A b \in Buckets : refilled[b] <= second
    BY <1>u, <1>q DEF Unraced, Timely
  <2>2. Amid(new, {"store", "stamp"}) => new.of \in Buckets
    BY <1>q DEF Threads, Asking, Amid
  <2>m. /\ Owing \in [Buckets -> Nat] /\ Owing' \in [Buckets -> Nat]
        /\ Taking \in [Buckets -> Nat] /\ Taking' \in [Buckets -> Nat]
        /\ \A c \in Buckets : Owing'[c] =
             Owing[c] + (IF Owes(new, c) THEN 1 ELSE 0) - (IF Owes(call[t], c) THEN 1 ELSE 0)
        /\ \A b \in Buckets : Taking'[b] =
             Taking[b] + (IF Takes(new, b) THEN 1 ELSE 0) - (IF Takes(call[t], b) THEN 1 ELSE 0)
        /\ \A b \in Buckets : ~Takes(new, b) => Taking'[b] <= Cardinality(Callers) - 1
    BY <1>q, Moving
  <2>3. /\ Owing \in [Buckets -> Nat] /\ Owing' \in [Buckets -> Nat]
        /\ \A b \in Buckets : Owing'[b] <= Owing[b]
        /\ Taking \in [Buckets -> Nat] /\ Taking' \in [Buckets -> Nat]
    BY <1>q, <2>m
  <2>4. \A b \in Buckets : UsedUp'[b] <= UsedUp[b] /\ UsedUp[b] \in Int /\ UsedUp'[b] \in Int
    BY <1>t, <1>s, <1>q, <2>3
  <2>5. ASSUME NEW b \in Buckets PROVE tokens'[b] - Taking'[b] >= 1 - Cardinality(Callers)
    <3>1. tokens[b] - Taking[b] >= 1 - Cardinality(Callers)
      BY <1>u, <1>q
    <3>2. CASE Takes(new, b) /\ ~Takes(call[t], b)
      <4>1. tokens[b] >= 1
        BY <1>q, <3>2
      <4>2. Taking'[b] <= Cardinality(Callers)
        BY Counting, <1>q DEF Taking
      <4>. QED BY <4>1, <4>2, <1>q, <1>t, <1>c, <2>3
    <3>3. CASE ~(Takes(new, b) /\ ~Takes(call[t], b))
      <4>1. Taking'[b] <= Taking[b]
        BY <3>3, <2>m
      <4>. QED BY <3>1, <4>1, <1>q, <1>t, <1>c, <2>3
    <3>. QED BY <3>2, <3>3
  <2>6. Amid(new, {"store", "stamp"}) => refilled'[new.of] <= new.now /\ new.now <= second
    BY <1>q, <2>1, <2>2, <1>t
  <2>. QED BY <1>q, <2>1, <2>4, <2>5, <2>6, Stepping
\* A step that reads a bucket's tokens is counted as a race when another writes them.
<1>r. ASSUME NEW t \in Callers, NEW step \in {"store", "spend", "give"}, ReadTokens(t, step),
             call[t] \in Asking,
             UNCHANGED <<second, asks, makers, tokens, refilled, passed, doubled>>,
             step = "store" => call[t].step = "refill",
             step = "spend" => call[t].step = "take",
             step = "give" => call[t].step = "refund"
      PROVE  RateInv'
  <2>. DEFINE new == [call[t] EXCEPT !.step = step, !.read = tokens[call[t].of], !.now = second]
  <2>1. /\ new \in Asking /\ new.step = step /\ new.of = call[t].of /\ new.rail = call[t].rail
        /\ new.read = tokens[new.of] /\ new.now = second /\ new.of \in Buckets
    BY <1>r, <1>t DEF Asking
  <2>2. call' = [call EXCEPT ![t] = new]
    BY <1>r DEF ReadTokens
  <2>3. raced' \in BOOLEAN /\ (~raced' => ~raced /\ \A u \in Callers \ {t} :
          ~(Writes(call[u]) /\ call[u].of = call[t].of))
    BY <1>r, <1>t DEF ReadTokens, Within, Writes, Amid
  <2>. HIDE DEF new
  <2>4. new \in Threads /\ AtEase \notin Asking
    BY <2>1 DEF Threads, AtEase, Asking
  <2>5. call' \in [Callers -> Threads] /\ call'[t] = new /\ \A u \in Callers \ {t} : call'[u] = call[u]
    BY <2>2, <2>4, Moving
  <2>6. RateLimitTypeOK'
    BY <1>r, <1>t, <2>3, <2>5 DEF RateLimitTypeOK, Threads, Asking
  <2>7. InTurn'
    BY <1>r, <2>1, <2>4, <2>5 DEF InTurn, Amid
  <2>8. \A b \in Buckets : Owes(new, b) <=> Owes(call[t], b)
    BY <1>r, <2>1, <2>4 DEF Owes, Amid
  <2>9. \A b \in Buckets : ~Stamps(new, b) /\ ~Stamps(call[t], b) /\ (Takes(new, b) => Takes(call[t], b))
    BY <1>r, <2>1, <2>4 DEF Stamps, Takes, Amid
  <2>. QED BY <1>q, <1>r, <2>1, <2>2, <2>3, <2>4, <2>6, <2>7, <2>8, <2>9
<1>1. CASE Second
  <2>1. UNCHANGED <<asks, makers, tokens, refilled, call, passed, raced, doubled>> /\ second' = second + 1 /\ second < LastSecond
    BY <1>1 DEF Second, bucketVars
  <2>2. RateLimitTypeOK'
    BY <1>t, <2>1 DEF RateLimitTypeOK
  <2>3. InTurn' /\ OneWriter' = OneWriter /\ ReadsLast' = ReadsLast /\ Taking' = Taking /\ UsedUp' = UsedUp
        /\ (Floor' <=> Floor)
    BY <2>1 DEF InTurn, OneWriter, ReadsLast, Taking, UsedUp, Owing, Floor, Writes, Amid, Owes, Takes, IsRail
  <2>4. WithinBudget' <=> WithinBudget
    BY <2>1, <2>3 DEF WithinBudget, Stamps, Amid, Holds, IsRail
  <2>5. Timely => Timely'
    <3>1. \A u \in Callers : Amid(call[u], {"store", "stamp"}) => call[u].now \in Int
      BY <1>t DEF Threads, Asking, Amid
    <3>. QED BY <1>t, <2>1, <3>1 DEF Timely, Amid
  <2>. QED BY <2>1, <2>2, <2>3, <2>4, <2>5 DEF Unraced
\* The bookkeeping of a thread that looks for a bucket.
<1>f. ASSUME NEW t \in Callers, NEW new \in Asking, call' = [call EXCEPT ![t] = new],
             UNCHANGED <<second, bucketVars>>, asks' \in 0..MaxAsks,
             makers' \in [BucketNames -> {{}} \cup {{u} : u \in Callers}], doubled' \subseteq BucketNames,
             new.step \in {"find", "make", "fetch", "refill"},
             call[t] = AtEase \/ call[t].step \in {"find", "make", "fetch"},
             \A b \in Buckets : Owes(new, b) => Owes(call[t], b)
      PROVE  RateInv'
  <2>1. new \in Threads
    BY <1>f DEF Threads
  <2>2. call' \in [Callers -> Threads] /\ call'[t] = new /\ \A u \in Callers \ {t} : call'[u] = call[u]
    BY <1>f, <2>1, Moving
  <2>3. RateLimitTypeOK'
    BY <1>f, <1>t, <2>2 DEF RateLimitTypeOK, Threads, Asking, bucketVars
  <2>4. InTurn'
    BY <1>f, <2>2 DEF InTurn, Amid
  <2>5. ~Writes(new) /\ ~Amid(new, {"store", "spend", "give"}) /\ ~Amid(new, {"store", "stamp"})
        /\ \A b \in Buckets : ~Stamps(new, b) /\ ~Stamps(call[t], b) /\ ~Takes(new, b)
    BY <1>f DEF Writes, Stamps, Takes, Amid
  <2>6. UNCHANGED <<second, tokens, refilled, passed, raced>>
    BY <1>f DEF bucketVars
  <2>. QED BY <1>q, <1>f, <2>1, <2>3, <2>4, <2>5, <2>6
<1>2. ASSUME NEW t \in Callers, AskRail(t) PROVE RateInv'
  <2>1. PICK p \in PeersAsked \cup {Nobody} :
          call' = [call EXCEPT ![t] = Looking(<<Rail, t>>, <<Rail, t>>, p)]
    BY <1>2 DEF AskRail
  <2>. DEFINE new == Looking(<<Rail, t>>, <<Rail, t>>, p)
  <2>2. /\ call[t] = AtEase /\ asks' \in 0..MaxAsks
        /\ UNCHANGED <<second, makers, bucketVars, doubled>>
    BY <1>2, <1>t DEF AskRail
  <2>3. new \in Asking /\ new.step = "find" /\ new.of = <<Rail, t>>
    BY <1>t, <1>n DEF Asking, Looking
  <2>4. \A b \in Buckets : ~Owes(new, b)
    BY <1>n, <2>3 DEF Owes, Amid
  <2>5. call' = [call EXCEPT ![t] = new]
    BY <2>1
  <2>. HIDE DEF new
  <2>6. /\ UNCHANGED <<second, bucketVars>> /\ doubled' \subseteq BucketNames
        /\ makers' \in [BucketNames -> {{}} \cup {{u} : u \in Callers}]
    BY <1>t, <2>2
  <2>. QED BY <1>f, <2>2, <2>3, <2>4, <2>5, <2>6
<1>12. ASSUME NEW t \in Callers, FindBucket(t) \/ MakeBucket(t) \/ FetchBucket(t) PROVE RateInv'
  <2>1. call[t] \in Asking /\ call[t] # AtEase /\ call[t].step \in {"find", "make", "fetch"}
        /\ call[t].of \in Buckets /\ call[t].of[1] \in BucketNames
    BY <1>12, <1>t DEF FindBucket, MakeBucket, FetchBucket, Is, Within, Threads, Asking, Buckets
  <2>2. /\ UNCHANGED <<second, bucketVars, asks>>
        /\ makers' \in [BucketNames -> {{}} \cup {{u} : u \in Callers}] /\ doubled' \subseteq BucketNames
    <3>1. CASE FindBucket(t)
      BY <1>t, <2>1, <3>1 DEF FindBucket
    <3>2. CASE MakeBucket(t)
      BY <1>t, <2>1, <3>2 DEF MakeBucket
    <3>3. CASE FetchBucket(t)
      BY <1>t, <3>3 DEF FetchBucket
    <3>. QED BY <1>12, <3>1, <3>2, <3>3
  <2>3. PICK new \in Asking :
          /\ call' = [call EXCEPT ![t] = new] /\ new.step \in {"make", "fetch", "refill"}
          /\ new.of[1] = call[t].of[1] /\ new.rail = call[t].rail
    <3>1. CASE FindBucket(t) \/ MakeBucket(t)
      <4>1. PICK step \in {"make", "fetch"} : call' = [call EXCEPT ![t].step = step]
        BY <3>1 DEF FindBucket, MakeBucket, To
      <4>. DEFINE new == [call[t] EXCEPT !.step = step]
      <4>2. new \in Asking /\ new.step = step /\ new.of = call[t].of /\ new.rail = call[t].rail
        BY <2>1 DEF Asking
      <4>3. call' = [call EXCEPT ![t] = new]
        BY <4>1
      <4>. QED BY <4>2, <4>3
    <3>2. CASE FetchBucket(t)
      <4>1. PICK u \in makers[call[t].of[1]] :
              call' = [call EXCEPT ![t].step = "refill", ![t].of = <<call[t].of[1], u>>]
        BY <3>2 DEF FetchBucket
      <4>a. u \in Callers
        BY <1>t, <2>1, <4>1
      <4>b. <<call[t].of[1], u>> \in Buckets
        BY <2>1, <4>a DEF Buckets
      <4>2. PICK b \in Buckets : b = <<call[t].of[1], u>>
        BY <4>b
      <4>c. call' = [call EXCEPT ![t].step = "refill", ![t].of = b]
        BY <4>1, <4>2
      <4>. DEFINE new == [call[t] EXCEPT !.step = "refill", !.of = b]
      <4>3. new \in Asking /\ new.step = "refill" /\ new.of = b /\ new.rail = call[t].rail
        BY <2>1 DEF Asking
      <4>4. call' = [call EXCEPT ![t] = new]
        BY <4>c
      <4>5. b[1] = call[t].of[1]
        BY <4>2
      <4>. QED BY <4>3, <4>4, <4>5
    <3>. QED BY <1>12, <3>1, <3>2
  <2>4. \A b \in Buckets : Owes(new, b) => Owes(call[t], b)
    BY <2>1, <2>3 DEF Owes, Amid, IsRail
  <2>. QED BY <1>f, <1>t, <2>1, <2>2, <2>3, <2>4
<1>3. ASSUME NEW t \in Callers, Refill(t) PROVE RateInv'
  BY <1>3, <1>r, <1>t DEF Refill, Is, Within, Threads
<1>4. ASSUME NEW t \in Callers, StoreTokens(t) PROVE RateInv'
  <2>. DEFINE b == call[t].of
              new == [call[t] EXCEPT !.step = "stamp"]
              more == (call[t].now - refilled[b]) * Rate
              n == call[t].read + more
  <2>1. /\ call[t] \in Asking /\ call[t].step = "store" /\ call' = [call EXCEPT ![t] = new]
        /\ tokens' = [tokens EXCEPT ![b] = Capped(b, n)]
        /\ UNCHANGED <<second, asks, makers, refilled, passed, raced, doubled>>
    BY <1>4, <1>t DEF StoreTokens, WriteTokens, To, Is, Within, Threads
  <2>2. /\ new \in Asking /\ new.step = "stamp" /\ new.of = b /\ new.rail = call[t].rail
        /\ new.now = call[t].now /\ b \in Buckets /\ call[t].now \in 0..LastSecond
        /\ call[t].read \in Int /\ AtEase \notin Asking /\ new \in Threads
    BY <2>1 DEF Asking, AtEase, Threads
  <2>. HIDE DEF new
  <2>3. call' \in [Callers -> Threads] /\ call'[t] = new /\ \A u \in Callers \ {t} : call'[u] = call[u]
    BY <2>1, <2>2, Moving
  <2>4. more \in Int /\ n \in Int
    BY <1>t, <2>2
  <2>. HIDE DEF more
  <2>5. Capped(b, n) \in Int /\ Capped(b, n) <= n /\ Capped(b, n) <= Holds(b)
        /\ (Capped(b, n) = n \/ Capped(b, n) = Holds(b))
    BY <1>t, <2>2, <2>4 DEF Capped
  <2>6. RateLimitTypeOK'
    BY <1>t, <2>1, <2>3, <2>5 DEF RateLimitTypeOK, Threads, Asking
  <2>7. InTurn'
    BY <2>1, <2>2, <2>3 DEF InTurn, Amid
  <2>8. ASSUME ~raced PROVE Unraced'
    <3>1. Unraced /\ \A c \in Buckets : refilled[c] <= second
      BY <1>u, <2>8 DEF Unraced, Timely
    <3>2. Writes(call[t]) /\ call[t].read = tokens[b] /\ refilled[b] <= call[t].now /\ call[t].now <= second
      BY <2>1, <2>2, <3>1 DEF Writes, Amid, Unraced, ReadsLast, Timely
    <3>3. ~Amid(new, {"store", "spend", "give"}) /\ (\A c \in Buckets : Owes(new, c) <=> Owes(call[t], c))
          /\ \A c \in Buckets : /\ Stamps(new, c) <=> c = b
                                /\ ~Stamps(call[t], c) /\ ~Takes(new, c) /\ ~Takes(call[t], c)
      BY <2>1, <2>2 DEF Amid, Owes, Stamps, Takes
    <3>m. /\ Owing \in [Buckets -> Nat] /\ Owing' \in [Buckets -> Nat]
          /\ Taking \in [Buckets -> Nat] /\ Taking' \in [Buckets -> Nat]
          /\ \A c \in Buckets : Owing'[c] =
               Owing[c] + (IF Owes(new, c) THEN 1 ELSE 0) - (IF Owes(call[t], c) THEN 1 ELSE 0)
          /\ \A c \in Buckets : Taking'[c] =
               Taking[c] + (IF Takes(new, c) THEN 1 ELSE 0) - (IF Takes(call[t], c) THEN 1 ELSE 0)
          /\ \A c \in Buckets : ~Takes(new, c) => Taking'[c] <= Cardinality(Callers) - 1
      BY <2>1, <2>2, Moving
    <3>4. /\ Owing \in [Buckets -> Nat] /\ \A c \in Buckets : Owing'[c] = Owing[c]
          /\ Taking \in [Buckets -> Nat] /\ Taking' \in [Buckets -> Nat]
          /\ \A c \in Buckets : Taking'[c] = Taking[c] /\ Taking'[c] <= Cardinality(Callers) - 1
      BY <3>3, <3>m
    <3>5. \A u \in Callers : ~Stamps(call[u], b)
      BY <2>1, <3>1, <3>2 DEF Unraced, OneWriter, Writes, Stamps, Amid
    <3>6. UsedUp[b] <= Holds(b) + refilled[b] * Rate
      BY <2>2, <3>1, <3>5 DEF Unraced, WithinBudget
    <3>7. more = call[t].now * Rate - refilled[b] * Rate /\ more \in Nat
          /\ call[t].now * Rate \in Nat /\ refilled[b] * Rate \in Nat
      BY <1>t, <2>2, <3>2, RateFacts DEF more
    <3>8. UsedUp'[b] <= Holds(b) + new.now * Rate /\ UsedUp'[b] \in Int /\ UsedUp[b] \in Int
      <4>1. tokens'[b] <= tokens[b] + more /\ tokens'[b] \in Int /\ tokens[b] \in Int
        BY <1>t, <2>1, <2>2, <2>5, <3>2
      <4>2. UsedUp'[b] <= UsedUp[b] + more /\ UsedUp'[b] \in Int /\ UsedUp[b] \in Int
        <5>1. /\ UsedUp[b] = tokens[b] + passed[b] + Owing[b]
              /\ UsedUp'[b] = tokens'[b] + passed[b] + Owing[b]
          BY <1>s, <2>1, <2>2, <3>4
        <5>2. passed[b] \in Nat /\ Owing[b] \in Nat
          BY <1>t, <2>2, <3>4
        <5>. QED BY <3>7, <4>1, <5>1, <5>2
      <4>. QED BY <1>t, <2>2, <3>6, <3>7, <4>2
    <3>9. \A c \in Buckets \ {b} : tokens'[c] = tokens[c] /\ UsedUp'[c] = UsedUp[c] /\ UsedUp[c] \in Int
      <4>1. ASSUME NEW c \in Buckets \ {b}
            PROVE  tokens'[c] = tokens[c] /\ UsedUp'[c] = UsedUp[c] /\ UsedUp[c] \in Int
        <5>1. tokens[c] \in Int /\ passed[c] \in Nat /\ Owing[c] \in Nat
          BY <1>t, <3>4
        <5>2. tokens'[c] = tokens[c] /\ passed'[c] = passed[c] /\ Owing'[c] = Owing[c]
          BY <1>t, <2>1, <3>4
        <5>. QED BY <1>s, <5>1, <5>2
      <4>. QED BY <4>1
    <3>10. \A c \in Buckets : tokens'[c] - Taking'[c] >= 1 - Cardinality(Callers)
      <4>1. tokens[b] - Taking[b] >= 1 - Cardinality(Callers)
        BY <1>u, <2>2, <2>8
      <4>2. tokens'[b] >= tokens[b] \/ tokens'[b] = Holds(b)
        BY <1>t, <2>1, <2>2, <2>5, <3>2, <3>7
      <4>3. Taking'[b] = Taking[b] /\ Taking[b] \in Nat /\ Taking[b] <= Cardinality(Callers) - 1
            /\ tokens'[b] \in Int /\ tokens[b] \in Int /\ Holds(b) \in Nat
        BY <1>t, <2>1, <2>2, <2>5, <3>4
      <4>4. tokens'[b] - Taking'[b] >= 1 - Cardinality(Callers)
        BY <1>c, <4>1, <4>2, <4>3
      <4>5. \A c \in Buckets \ {b} : tokens'[c] - Taking'[c] >= 1 - Cardinality(Callers)
        BY <1>u, <2>8, <3>4, <3>9
      <4>. QED BY <4>4, <4>5
    <3>. QED
      <4>1. \A c \in Buckets : UsedUp'[c] \in Int /\ UsedUp[c] \in Int
        BY <3>8, <3>9
      <4>2. \A c \in Buckets :
              IF Stamps(new, c) THEN UsedUp'[c] <= Holds(c) + new.now * Rate
              ELSE IF Stamps(call[t], c) THEN UsedUp'[c] <= Holds(c) + refilled'[c] * Rate
              ELSE UsedUp'[c] <= UsedUp[c] /\ refilled'[c] = refilled[c]
        BY <2>1, <3>3, <3>8, <3>9
      <4>3. \A c \in Buckets : tokens'[c] # tokens[c] \/ refilled'[c] # refilled[c] =>
                                 Writes(call[t]) /\ c = call[t].of
        BY <2>1, <3>2, <3>9
      <4>. QED BY <2>1, <2>2, <3>1, <3>2, <3>3, <3>10, <4>1, <4>2, <4>3, Stepping
  <2>. QED BY <2>1, <2>6, <2>7, <2>8
<1>5. ASSUME NEW t \in Callers, Stamp(t) PROVE RateInv'
  <2>. DEFINE b == call[t].of
              new == [call[t] EXCEPT !.step = "check", !.read = 0, !.now = 0]
  <2>1. /\ call[t] \in Asking /\ call[t].step = "stamp" /\ call' = [call EXCEPT ![t] = new]
        /\ refilled' = [refilled EXCEPT ![b] = call[t].now]
        /\ UNCHANGED <<second, asks, makers, tokens, passed, raced, doubled>>
    BY <1>5, <1>t DEF Stamp, Is, Within, Threads
  <2>2. /\ new \in Asking /\ new.step = "check" /\ new.of = b /\ new.rail = call[t].rail
        /\ b \in Buckets /\ call[t].now \in 0..LastSecond /\ AtEase \notin Asking /\ new \in Threads
    <3>. DEFINE n1 == [call[t] EXCEPT !.step = "check"]
                n2 == [n1 EXCEPT !.read = 0]
    <3>0. 0 \in 0..LastSecond /\ 0 \in Int
      BY <1>t
    <3>1. n1 \in Asking /\ n1.step = "check" /\ n1.of = b /\ n1.rail = call[t].rail
      BY <2>1 DEF Asking
    <3>2. new = [n2 EXCEPT !.now = 0]
      OBVIOUS
    <3>. HIDE DEF n1, new
    <3>3. n2 \in Asking /\ n2.step = "check" /\ n2.of = b /\ n2.rail = call[t].rail
      BY <3>0, <3>1 DEF Asking
    <3>. HIDE DEF n2
    <3>4. new \in Asking /\ new.step = "check" /\ new.of = b /\ new.rail = call[t].rail
      BY <3>0, <3>2, <3>3 DEF Asking
    <3>. QED BY <2>1, <3>4 DEF Asking, AtEase, Threads
  <2>. HIDE DEF new
  <2>3. call' \in [Callers -> Threads] /\ call'[t] = new /\ \A u \in Callers \ {t} : call'[u] = call[u]
    BY <2>1, <2>2, Moving
  <2>4. refilled' \in [Buckets -> 0..LastSecond] /\ refilled'[b] = call[t].now
        /\ \A c \in Buckets \ {b} : refilled'[c] = refilled[c]
    BY <1>t, <2>1, <2>2
  <2>5. RateLimitTypeOK'
    BY <1>t, <2>1, <2>3, <2>4 DEF RateLimitTypeOK, Threads, Asking
  <2>6. InTurn'
    BY <2>1, <2>2, <2>3 DEF InTurn, Amid
  <2>7. ASSUME ~raced PROVE Unraced'
    <3>1. Unraced /\ \A c \in Buckets : refilled[c] <= second
      BY <1>u, <2>7 DEF Unraced, Timely
    <3>2. Writes(call[t]) /\ call[t].now <= second
      BY <2>1, <2>2, <3>1 DEF Writes, Amid, Unraced, Timely
    <3>3. ~Writes(new) /\ ~Amid(new, {"store", "spend", "give"}) /\ ~Amid(new, {"store", "stamp"})
          /\ (\A c \in Buckets : Owes(new, c) <=> Owes(call[t], c))
          /\ \A c \in Buckets : /\ Stamps(call[t], c) <=> c = b
                                /\ ~Stamps(new, c) /\ ~Takes(new, c) /\ ~Takes(call[t], c)
      BY <2>1, <2>2 DEF Writes, Amid, Owes, Stamps, Takes
    <3>m. /\ Owing \in [Buckets -> Nat] /\ Owing' \in [Buckets -> Nat]
          /\ Taking \in [Buckets -> Nat] /\ Taking' \in [Buckets -> Nat]
          /\ \A c \in Buckets : Owing'[c] =
               Owing[c] + (IF Owes(new, c) THEN 1 ELSE 0) - (IF Owes(call[t], c) THEN 1 ELSE 0)
          /\ \A c \in Buckets : Taking'[c] =
               Taking[c] + (IF Takes(new, c) THEN 1 ELSE 0) - (IF Takes(call[t], c) THEN 1 ELSE 0)
          /\ \A c \in Buckets : ~Takes(new, c) => Taking'[c] <= Cardinality(Callers) - 1
      BY <2>1, <2>2, Moving
    <3>4. /\ Owing \in [Buckets -> Nat] /\ \A c \in Buckets : Owing'[c] = Owing[c]
          /\ Taking \in [Buckets -> Nat] /\ Taking' \in [Buckets -> Nat]
          /\ \A c \in Buckets : Taking'[c] = Taking[c]
      BY <3>3, <3>m
    <3>5. \A c \in Buckets : UsedUp'[c] = UsedUp[c] /\ UsedUp[c] \in Int /\ tokens'[c] = tokens[c]
      <4>1. ASSUME NEW c \in Buckets
            PROVE  UsedUp'[c] = UsedUp[c] /\ UsedUp[c] \in Int /\ tokens'[c] = tokens[c]
        <5>1. tokens[c] \in Int /\ passed[c] \in Nat /\ Owing[c] \in Nat
          BY <1>t, <3>4
        <5>2. tokens'[c] = tokens[c] /\ passed'[c] = passed[c] /\ Owing'[c] = Owing[c]
          BY <2>1, <3>4
        <5>. QED BY <1>s, <5>1, <5>2
      <4>. QED BY <4>1
    <3>6. UsedUp[b] <= Holds(b) + call[t].now * Rate
      BY <2>2, <3>1, <3>3 DEF Unraced, WithinBudget
    <3>7. \A c \in Buckets :
            IF Stamps(new, c) THEN UsedUp'[c] <= Holds(c) + new.now * Rate
            ELSE IF Stamps(call[t], c) THEN UsedUp'[c] <= Holds(c) + refilled'[c] * Rate
            ELSE UsedUp'[c] <= UsedUp[c] /\ refilled'[c] = refilled[c]
      BY <2>4, <3>3, <3>5, <3>6
    <3>8. \A c \in Buckets : tokens'[c] - Taking'[c] >= 1 - Cardinality(Callers)
      BY <1>u, <2>7, <3>4, <3>5
    <3>9. \A c \in Buckets : refilled'[c] <= second
      BY <2>4, <3>1, <3>2
    <3>. QED BY <2>1, <2>2, <2>4, <3>1, <3>2, <3>3, <3>5, <3>7, <3>8, <3>9, Stepping
  <2>. QED BY <2>1, <2>5, <2>6, <2>7
<1>6. ASSUME NEW t \in Callers, Check(t) PROVE RateInv'
  <2>1. call[t] \in Asking /\ call[t].step = "check" /\ AtEase \notin Asking /\ call[t].of \in Buckets
        /\ UNCHANGED <<second, asks, makers, tokens, refilled, passed, raced, doubled>>
        /\ call[t].rail \in {Rail} \X Callers
    BY <1>6, <1>t DEF Check, Is, Within, Threads, Asking, AtEase, bucketVars
  <2>2. PICK new \in Threads :
          /\ call' = [call EXCEPT ![t] = new]
          /\ \/ /\ new \in Asking /\ new.step = "take" /\ new.of = call[t].of /\ new.rail = call[t].rail
                /\ tokens[call[t].of] >= 1
             \/ new = AtEase /\ IsRail(call[t].of)
             \/ /\ new \in Asking /\ new.step = "refund" /\ new.of = call[t].rail
                /\ ~IsRail(call[t].of)
    <3>1. CASE tokens[call[t].of] >= 1
      <4>. DEFINE new == [call[t] EXCEPT !.step = "take"]
      <4>1. new \in Asking /\ new.step = "take" /\ new.of = call[t].of /\ new.rail = call[t].rail
        BY <2>1 DEF Asking
      <4>2. call' = [call EXCEPT ![t] = new]
        BY <1>6, <3>1 DEF Check, To
      <4>. QED BY <3>1, <4>1, <4>2 DEF Threads
    <3>2. CASE ~(tokens[call[t].of] >= 1) /\ IsRail(call[t].of)
      BY <1>6, <3>2 DEF Check, Refused, Returns, Threads
    <3>3. CASE ~(tokens[call[t].of] >= 1) /\ ~IsRail(call[t].of)
      <4>. DEFINE new == [call[t] EXCEPT !.step = "refund", !.of = call[t].rail]
      <4>1. new \in Asking /\ new.step = "refund" /\ new.of = call[t].rail
        BY <2>1, <1>v DEF Asking
      <4>2. call' = [call EXCEPT ![t] = new]
        BY <1>6, <3>3 DEF Check, Refused
      <4>. QED BY <3>3, <4>1, <4>2 DEF Threads
    <3>. QED BY <3>1, <3>2, <3>3
  <2>3. call' \in [Callers -> Threads] /\ call'[t] = new /\ \A u \in Callers \ {t} : call'[u] = call[u]
    BY <2>2, Moving
  <2>4. RateLimitTypeOK'
    BY <1>t, <2>1, <2>3 DEF RateLimitTypeOK, Threads, Asking
  <2>5. InTurn'
    BY <1>v, <2>1, <2>2, <2>3 DEF InTurn, Amid
  <2>6. ~Writes(new) /\ ~Amid(new, {"store", "spend", "give"}) /\ ~Amid(new, {"store", "stamp"})
        /\ \A b \in Buckets : /\ ~Stamps(new, b) /\ ~Stamps(call[t], b)
                              /\ Owes(new, b) => Owes(call[t], b)
                              /\ Takes(new, b) => tokens[b] >= 1
    BY <1>v, <2>1, <2>2 DEF Writes, Amid, Owes, Stamps, Takes
  <2>. QED BY <1>q, <2>1, <2>2, <2>4, <2>5, <2>6
<1>7. ASSUME NEW t \in Callers, ReadAgain(t) PROVE RateInv'
  BY <1>7, <1>r, <1>t DEF ReadAgain, Is, Within, Threads
<1>8. ASSUME NEW t \in Callers, Spend(t) PROVE RateInv'
  <2>. DEFINE b == call[t].of
              p == call[t].peer
              a == call[t].rail
  <2>1. /\ call[t] \in Asking /\ call[t].step = "spend"
        /\ tokens' = [tokens EXCEPT ![b] = call[t].read - 1]
        /\ UNCHANGED <<second, asks, makers, refilled, raced, doubled>>
    BY <1>8, <1>t DEF Spend, WriteTokens, Is, Within, Threads
  <2>2. b \in Buckets /\ p \in PeersAsked \cup {Nobody} /\ call[t].read \in Int /\ AtEase \notin Asking
        /\ a \in Buckets /\ IsRail(a) /\ call[t] # AtEase
    BY <1>v, <2>1 DEF Asking, AtEase
  <2>3. PICK new \in Threads :
          /\ call' = [call EXCEPT ![t] = new] /\ (new = AtEase \/ (new \in Asking /\ new.step = "find"))
          /\ \/ /\ IsRail(b) /\ new \in Asking /\ ~IsRail(new.of) /\ new.rail = b
                /\ passed' = passed
             \/ /\ IsRail(b) /\ new = AtEase
                /\ passed' = [c \in Buckets |-> passed[c] + (IF c = b THEN 1 ELSE 0)]
             \/ /\ ~IsRail(b) /\ new = AtEase
                /\ passed' = [c \in Buckets |-> passed[c] + IF c \in {a, b} THEN 1 ELSE 0]
    <3>1. CASE IsRail(b) /\ p # Nobody
      <4>. DEFINE new == Looking(<<p, t>>, b, p)
      <4>1. b \in {Rail} \X Callers /\ p \in PeersAsked
        BY <2>2, <3>1 DEF IsRail, Buckets
      <4>0. PICK peer \in PeersAsked : peer = p
        BY <4>1
      <4>a. <<peer, t>> \in Buckets /\ ~IsRail(<<peer, t>>)
        BY <1>n
      <4>e. 0 \in 0..LastSecond
        BY <1>t
      <4>b. PICK of \in Buckets : of = <<p, t>> /\ ~IsRail(of)
        BY <4>0, <4>a
      <4>c. new = Looking(of, b, peer)
        BY <4>0, <4>b
      <4>d. Looking(of, b, peer) \in Asking
        BY <4>1, <4>e DEF Asking, Looking
      <4>2. new \in Asking /\ new.step = "find" /\ new.of = <<p, t>> /\ new.rail = b /\ ~IsRail(new.of)
        BY <4>b, <4>c, <4>d DEF Looking
      <4>3. call' = [call EXCEPT ![t] = new] /\ passed' = passed
        BY <1>8, <3>1 DEF Spend
      <4>. QED BY <3>1, <4>2, <4>3 DEF Threads
    <3>2. CASE ~(IsRail(b) /\ p # Nobody)
      <4>1. call' = [call EXCEPT ![t] = AtEase]
            /\ passed' = [c \in Buckets |-> passed[c] +
                            IF c = b \/ (~IsRail(b) /\ c = a) THEN 1 ELSE 0]
        BY <1>8, <3>2 DEF Spend, Returns
      <4>2. CASE IsRail(b)
        BY <3>2, <4>1, <4>2 DEF Threads
      <4>3. CASE ~IsRail(b)
        BY <2>2, <4>1, <4>3 DEF Threads
      <4>. QED BY <4>2, <4>3
    <3>. QED BY <3>1, <3>2
  <2>4. call' \in [Callers -> Threads] /\ call'[t] = new /\ \A u \in Callers \ {t} : call'[u] = call[u]
    BY <2>3, Moving
  <2>5. passed' \in [Buckets -> Nat] /\ tokens' \in [Buckets -> Int]
    BY <1>t, <2>1, <2>2, <2>3
  <2>6. RateLimitTypeOK'
    BY <1>t, <2>1, <2>4, <2>5 DEF RateLimitTypeOK, Threads, Asking
  <2>7. InTurn'
    BY <2>3, <2>4 DEF InTurn, Amid
  <2>8. ASSUME ~raced PROVE Unraced'
    <3>1. Unraced /\ \A c \in Buckets : refilled[c] <= second
      BY <1>u, <2>8 DEF Unraced, Timely
    <3>2. Writes(call[t]) /\ call[t].read = tokens[b]
      BY <2>1, <2>2, <3>1 DEF Writes, Amid, Unraced, ReadsLast
    <3>3. ~Writes(new) /\ ~Amid(new, {"store", "spend", "give"}) /\ ~Amid(new, {"store", "stamp"})
          /\ \A c \in Buckets : /\ ~Stamps(call[t], c) /\ ~Stamps(new, c)
                                /\ ~Takes(new, c) /\ (Takes(call[t], c) <=> c = b)
      BY <2>1, <2>2, <2>3 DEF Writes, Amid, Stamps, Takes
    <3>4. \A c \in Buckets :
            /\ Owes(call[t], c) <=> ~IsRail(b) /\ c = a
            /\ Owes(new, c) <=> new # AtEase /\ c = b
      BY <2>1, <2>2, <2>3 DEF Owes, Amid
    <3>m. /\ Owing \in [Buckets -> Nat] /\ Owing' \in [Buckets -> Nat]
          /\ Taking \in [Buckets -> Nat] /\ Taking' \in [Buckets -> Nat]
          /\ \A c \in Buckets : Owing'[c] =
               Owing[c] + (IF Owes(new, c) THEN 1 ELSE 0) - (IF Owes(call[t], c) THEN 1 ELSE 0)
          /\ \A c \in Buckets : Taking'[c] =
               Taking[c] + (IF Takes(new, c) THEN 1 ELSE 0) - (IF Takes(call[t], c) THEN 1 ELSE 0)
          /\ \A c \in Buckets : ~Takes(new, c) => Taking'[c] <= Cardinality(Callers) - 1
      BY <2>3, Moving
    <3>5. /\ Owing \in [Buckets -> Nat] /\ Owing' \in [Buckets -> Nat]
          /\ Taking \in [Buckets -> Nat] /\ Taking' \in [Buckets -> Nat]
          /\ \A c \in Buckets : Owing'[c] = Owing[c] + (IF new # AtEase /\ c = b THEN 1 ELSE 0)
                                               - (IF ~IsRail(b) /\ c = a THEN 1 ELSE 0)
          /\ \A c \in Buckets : Taking'[c] = Taking[c] - (IF c = b THEN 1 ELSE 0)
      BY <3>3, <3>4, <3>m
    <3>6. /\ tokens[b] \in Int /\ tokens'[b] = tokens[b] - 1
          /\ \A c \in Buckets \ {b} : tokens'[c] = tokens[c] /\ tokens[c] \in Int
      BY <1>t, <2>1, <2>2, <3>2
    <3>7. \A c \in Buckets : UsedUp'[c] = UsedUp[c] /\ UsedUp[c] \in Int
      <4>. SUFFICES ASSUME NEW c \in Buckets PROVE UsedUp'[c] = UsedUp[c] /\ UsedUp[c] \in Int
        OBVIOUS
      <4>0. /\ tokens[c] \in Int /\ passed[c] \in Nat /\ Owing[c] \in Nat
            /\ UsedUp[c] = tokens[c] + passed[c] + Owing[c]
            /\ UsedUp'[c] = tokens'[c] + passed'[c] + Owing'[c]
            /\ tokens'[c] = tokens[c] - (IF c = b THEN 1 ELSE 0)
            /\ Owing'[c] = Owing[c] + (IF new # AtEase /\ c = b THEN 1 ELSE 0)
                                   - (IF ~IsRail(b) /\ c = a THEN 1 ELSE 0)
        BY <1>s, <1>t, <3>5, <3>6
      <4>1. CASE IsRail(b) /\ new # AtEase /\ passed' = passed
        BY <4>0, <4>1
      <4>2. CASE /\ IsRail(b) /\ new = AtEase
                 /\ passed' = [d \in Buckets |-> passed[d] + IF d = b THEN 1 ELSE 0]
        <5>1. passed'[c] = passed[c] + IF c = b THEN 1 ELSE 0
          BY <4>2
        <5>. QED BY <4>0, <4>2, <5>1
      <4>3. CASE /\ ~IsRail(b) /\ new = AtEase
                 /\ passed' = [d \in Buckets |-> passed[d] + IF d \in {a, b} THEN 1 ELSE 0]
        <5>1. passed'[c] = passed[c] + IF c \in {a, b} THEN 1 ELSE 0
          BY <4>3
        <5>2. a # b
          BY <2>2, <4>3
        <5>. QED BY <4>0, <4>3, <5>1, <5>2
      <4>. QED BY <2>2, <2>3, <4>1, <4>2, <4>3 DEF AtEase, Asking
    <3>8. \A c \in Buckets : tokens'[c] - Taking'[c] >= 1 - Cardinality(Callers)
      BY <1>c, <1>u, <2>2, <2>8, <3>5, <3>6
    <3>9. \A c \in Buckets :
            IF Stamps(new, c) THEN UsedUp'[c] <= Holds(c) + new.now * Rate
            ELSE IF Stamps(call[t], c) THEN UsedUp'[c] <= Holds(c) + refilled'[c] * Rate
            ELSE UsedUp'[c] <= UsedUp[c] /\ refilled'[c] = refilled[c]
      BY <2>1, <3>3, <3>7
    <3>10. \A c \in Buckets : tokens'[c] # tokens[c] \/ refilled'[c] # refilled[c] =>
                                Writes(call[t]) /\ c = call[t].of
      BY <2>1, <3>2, <3>6
    <3>. QED BY <2>1, <2>3, <3>1, <3>3, <3>7, <3>8, <3>9, <3>10, Stepping
  <2>. QED BY <2>1, <2>6, <2>7, <2>8
<1>9. ASSUME NEW t \in Callers, ReadForRefund(t) PROVE RateInv'
  BY <1>9, <1>r, <1>t DEF ReadForRefund, Is, Within, Threads
<1>10. ASSUME NEW t \in Callers, Give(t) PROVE RateInv'
  <2>. DEFINE b == call[t].of
  <2>1. /\ call[t] \in Asking /\ call[t].step = "give" /\ call' = [call EXCEPT ![t] = AtEase]
        /\ tokens' = [tokens EXCEPT ![b] = call[t].read + 1]
        /\ UNCHANGED <<second, asks, makers, refilled, passed, raced, doubled>>
    BY <1>10, <1>t DEF Give, WriteTokens, Returns, Is, Within, Threads
  <2>2. b \in Buckets /\ IsRail(b) /\ call[t].read \in Int /\ AtEase \notin Asking /\ call[t] # AtEase
    BY <2>1 DEF Asking, AtEase, InTurn, Amid
  <2>3. AtEase \in Threads
    BY DEF Threads
  <2>4. call' \in [Callers -> Threads] /\ call'[t] = AtEase /\ \A u \in Callers \ {t} : call'[u] = call[u]
    BY <2>1, <2>3, Moving
  <2>5. RateLimitTypeOK'
    BY <1>t, <1>n, <2>1, <2>2, <2>4 DEF RateLimitTypeOK, Threads, Asking
  <2>6. InTurn'
    BY <2>4 DEF InTurn, Amid, AtEase
  <2>7. ASSUME ~raced PROVE Unraced'
    <3>1. Unraced /\ \A c \in Buckets : refilled[c] <= second
      BY <1>u, <2>7 DEF Unraced, Timely
    <3>2. Writes(call[t]) /\ call[t].read = tokens[b]
      BY <2>1, <2>2, <3>1 DEF Writes, Amid, Unraced, ReadsLast
    <3>3. ~Writes(AtEase) /\ ~Amid(AtEase, {"store", "spend", "give"}) /\ ~Amid(AtEase, {"store", "stamp"})
          /\ \A c \in Buckets : /\ Owes(call[t], c) <=> c = b
                                /\ ~Owes(AtEase, c)
                                /\ ~Stamps(call[t], c) /\ ~Stamps(AtEase, c)
                                /\ ~Takes(AtEase, c) /\ ~Takes(call[t], c)
      BY <2>1, <2>2 DEF Writes, Amid, Stamps, Takes, Owes
    <3>m. /\ Owing \in [Buckets -> Nat] /\ Owing' \in [Buckets -> Nat]
          /\ Taking \in [Buckets -> Nat] /\ Taking' \in [Buckets -> Nat]
          /\ \A c \in Buckets : Owing'[c] =
               Owing[c] + (IF Owes(AtEase, c) THEN 1 ELSE 0) - (IF Owes(call[t], c) THEN 1 ELSE 0)
          /\ \A c \in Buckets : Taking'[c] =
               Taking[c] + (IF Takes(AtEase, c) THEN 1 ELSE 0) - (IF Takes(call[t], c) THEN 1 ELSE 0)
          /\ \A c \in Buckets : ~Takes(AtEase, c) => Taking'[c] <= Cardinality(Callers) - 1
      BY <2>1, <2>3, Moving
    <3>4. /\ Owing \in [Buckets -> Nat] /\ Owing' \in [Buckets -> Nat]
          /\ Taking \in [Buckets -> Nat] /\ Taking' \in [Buckets -> Nat]
          /\ \A c \in Buckets : Owing'[c] = Owing[c] - (IF c = b THEN 1 ELSE 0)
          /\ \A c \in Buckets : Taking'[c] = Taking[c]
      BY <3>3, <3>m
    <3>5. /\ tokens[b] \in Int /\ tokens'[b] = tokens[b] + 1
          /\ \A c \in Buckets \ {b} : tokens'[c] = tokens[c] /\ tokens[c] \in Int
      BY <1>t, <1>n, <2>1, <2>2, <3>2
    <3>6. \A c \in Buckets : UsedUp'[c] = UsedUp[c] /\ UsedUp[c] \in Int
      <4>1. ASSUME NEW c \in Buckets PROVE UsedUp'[c] = UsedUp[c] /\ UsedUp[c] \in Int
        <5>1. /\ tokens[c] \in Int /\ passed[c] \in Nat /\ Owing[c] \in Nat /\ passed'[c] = passed[c]
              /\ UsedUp[c] = tokens[c] + passed[c] + Owing[c]
              /\ UsedUp'[c] = tokens'[c] + passed'[c] + Owing'[c]
              /\ tokens'[c] = tokens[c] + (IF c = b THEN 1 ELSE 0)
              /\ Owing'[c] = Owing[c] - (IF c = b THEN 1 ELSE 0)
          <6>1. tokens[c] \in Int /\ passed[c] \in Nat /\ Owing[c] \in Nat
            BY <1>t, <3>4
          <6>2. tokens'[c] = tokens[c] + (IF c = b THEN 1 ELSE 0)
            BY <3>5, <6>1
          <6>3. passed'[c] = passed[c] /\ Owing'[c] = Owing[c] - (IF c = b THEN 1 ELSE 0)
            BY <2>1, <3>4
          <6>. QED BY <1>s, <6>1, <6>2, <6>3
        <5>. QED BY <5>1
      <4>. QED BY <4>1
    <3>7. \A c \in Buckets : tokens'[c] - Taking'[c] >= 1 - Cardinality(Callers)
      BY <1>c, <1>u, <2>2, <2>7, <3>4, <3>5
    <3>8. \A c \in Buckets :
            IF Stamps(AtEase, c) THEN UsedUp'[c] <= Holds(c) + AtEase.now * Rate
            ELSE IF Stamps(call[t], c) THEN UsedUp'[c] <= Holds(c) + refilled'[c] * Rate
            ELSE UsedUp'[c] <= UsedUp[c] /\ refilled'[c] = refilled[c]
      BY <2>1, <3>3, <3>6
    <3>9. \A c \in Buckets : tokens'[c] # tokens[c] \/ refilled'[c] # refilled[c] =>
                               Writes(call[t]) /\ c = call[t].of
      BY <2>1, <3>2, <3>5
    <3>. QED BY <2>1, <2>3, <3>1, <3>3, <3>6, <3>7, <3>8, <3>9, Stepping
  <2>. QED BY <2>1, <2>5, <2>6, <2>7
<1>11. CASE UNCHANGED rateLimitVars
  <2>1. /\ RateLimitTypeOK' <=> RateLimitTypeOK
        /\ InTurn' <=> InTurn
        /\ raced' = raced
    BY <1>11 DEF rateLimitVars, bucketVars, RateLimitTypeOK, InTurn, Amid
  <2>2. /\ Taking' = Taking /\ UsedUp' = UsedUp
        /\ OneWriter' <=> OneWriter
        /\ ReadsLast' <=> ReadsLast
        /\ Timely' <=> Timely
    BY <1>11 DEF rateLimitVars, bucketVars, OneWriter, ReadsLast, Timely, Taking, UsedUp, Owing, Writes,
       Amid, Owes, Takes, IsRail
  <2>3. /\ WithinBudget' <=> WithinBudget
        /\ Floor' <=> Floor
    BY <1>11, <2>2 DEF rateLimitVars, bucketVars, WithinBudget, Stamps, Amid, Holds, IsRail, Floor
  <2>. QED BY <2>1, <2>2, <2>3 DEF Unraced
<1>. QED BY <1>1, <1>2, <1>12, <1>3, <1>4, <1>5, <1>6, <1>7, <1>8, <1>9, <1>10, <1>11 DEF RateLimitNext

-------------------------------------------------------------------------------
LEMMA RateKept == RateInv => BucketIsCapped
<1>. SUFFICES ASSUME RateInv, ~raced, NEW b \in Buckets PROVE passed[b] <= Quota(b)
  BY DEF BucketIsCapped
<1>. USE DEF RateInv
<1>1. /\ Holds(b) \in Nat /\ tokens[b] \in Int /\ passed[b] \in Nat /\ second \in Nat /\ Rate \in Nat
      /\ second * Rate \in Nat /\ Cardinality(Callers) \in Nat
  BY FS_CardinalityType, RateLimitAssumption DEF RateLimitTypeOK, Holds
<1>2. /\ Owing[b] \in Nat /\ Taking[b] \in Nat
  <2>1. PICK t \in Callers : TRUE
    BY RateLimitAssumption
  <2>2. {u \in Callers : Owes(call[u], b)} \in SUBSET Callers /\ {u \in Callers : Takes(call[u], b)} \in SUBSET Callers
    OBVIOUS
  <2>. QED BY <2>1, <2>2, Counting DEF Taking, Owing
<1>3. UsedUp[b] <= Holds(b) + second * Rate
  <2>1. CASE \A t \in Callers : ~Stamps(call[t], b)
    <3>1. UsedUp[b] <= Holds(b) + refilled[b] * Rate
      BY <2>1 DEF Unraced, WithinBudget
    <3>2. refilled[b] \in Nat /\ refilled[b] <= second
      BY RateLimitAssumption DEF RateLimitTypeOK, Unraced, Timely
    <3>3. refilled[b] * Rate <= second * Rate /\ refilled[b] * Rate \in Nat
      BY <1>1, <3>2, RateFacts
    <3>4. UsedUp[b] \in Int
      BY <1>1, <1>2 DEF UsedUp
    <3>. QED BY <1>1, <3>1, <3>3, <3>4
  <2>2. ASSUME NEW t \in Callers, Stamps(call[t], b) PROVE UsedUp[b] <= Holds(b) + second * Rate
    <3>1. UsedUp[b] <= Holds(b) + call[t].now * Rate
      BY <2>2 DEF Unraced, WithinBudget
    <3>2. call[t].now \in Nat /\ call[t].now <= second
      BY <2>2, RateLimitAssumption DEF RateLimitTypeOK, Unraced, Timely, Stamps, Amid
    <3>3. call[t].now * Rate <= second * Rate /\ call[t].now * Rate \in Nat
      BY <1>1, <3>2, RateFacts
    <3>4. UsedUp[b] \in Int
      BY <1>1, <1>2 DEF UsedUp
    <3>. QED BY <1>1, <3>1, <3>3, <3>4
  <2>. QED BY <2>1, <2>2
<1>4. tokens[b] - Taking[b] >= 1 - Cardinality(Callers)
  BY DEF Unraced, Floor
<1>5. tokens[b] + passed[b] <= Holds(b) + second * Rate
  BY <1>1, <1>2, <1>3 DEF UsedUp
<1>. QED BY <1>1, <1>2, <1>4, <1>5 DEF Quota

-------------------------------------------------------------------------------
\* The table of the buckets: what is in use was found there, and unless two threads were
\* making it at once it is there still.
Found(b) == makers[b[1]] # {} /\ (b[1] \notin doubled => makers[b[1]] = {b[2]})
Makes(r, n) == Amid(r, {"make"}) /\ r.of[1] = n
TableFits(t) ==
  LET r == call[t] IN
    /\ Amid(r, {"find", "make"}) => r.of[2] = t
    /\ Amid(r, {"fetch"}) => makers[r.of[1]] # {}
    /\ r # AtEase /\ r.step \notin {"find", "make", "fetch"} => Found(r.of)
    /\ r # AtEase /\ ~IsRail(r.of) => Found(r.rail)
OnlyMaker(t) == \A n \in BucketNames \ doubled :
  Makes(call[t], n) => makers[n] = {} /\ \A u \in Callers : Makes(call[u], n) => u = t
TableInv == /\ \A b \in Buckets : passed[b] > 0 => Found(b)
            /\ \A t \in Callers : TableFits(t) /\ OnlyMaker(t)

LEMMA TableStart == RateLimitInit => TableInv
<1>1. ASSUME RateLimitInit, NEW b \in Buckets PROVE ~(passed[b] > 0)
  BY <1>1 DEF RateLimitInit
<1>2. ASSUME RateLimitInit, NEW t \in Callers PROVE TableFits(t) /\ OnlyMaker(t)
  BY <1>2 DEF RateLimitInit, TableFits, OnlyMaker, Makes, Amid
<1>. QED BY <1>1, <1>2 DEF TableInv

LEMMA TableStep == RateInv /\ TableInv /\ [RateLimitNext]_rateLimitVars => TableInv'
<1>. SUFFICES ASSUME RateInv, TableInv, [RateLimitNext]_rateLimitVars PROVE TableInv'
  OBVIOUS
<1>t. /\ call \in [Callers -> Threads] /\ passed \in [Buckets -> Nat]
      /\ makers \in [BucketNames -> {{}} \cup {{t} : t \in Callers}]
  BY DEF RateInv, RateLimitTypeOK, Threads, Asking
<1>v. \A b \in {Rail} \X Callers : b \in Buckets /\ IsRail(b)
  BY DEF Buckets, BucketNames, IsRail
\* A thread whose place in the table does not change.
<1>q. ASSUME NEW t \in Callers, NEW new \in Threads, call' = [call EXCEPT ![t] = new],
             UNCHANGED <<makers, doubled>>,
             \A b \in Buckets : passed'[b] > 0 => passed[b] > 0 \/ Found(b),
             TableFits(t)', \A n \in BucketNames : ~Makes(new, n)
      PROVE  TableInv'
  <2>1. call'[t] = new /\ \A u \in Callers \ {t} : call'[u] = call[u]
    BY <1>t, <1>q
  <2>2. \A b \in Buckets : (passed[b] > 0 => Found(b)) /\ (Found(b) => Found(b)')
    BY <1>q DEF TableInv, Found
  <2>3. ASSUME NEW u \in Callers PROVE TableFits(u)'
    <3>1. CASE u = t
      BY <1>q, <3>1
    <3>2. CASE u # t
      BY <1>q, <2>1, <3>2 DEF TableInv, TableFits, Found, Amid, IsRail
    <3>. QED BY <3>1, <3>2
  <2>4. ASSUME NEW u \in Callers PROVE OnlyMaker(u)'
    BY <1>q, <2>1 DEF TableInv, OnlyMaker, Makes, Amid
  <2>. QED BY <1>q, <2>2, <2>3, <2>4 DEF TableInv
<1>1. CASE Second \/ UNCHANGED rateLimitVars
  <2>1. UNCHANGED <<call, makers, passed, doubled>>
    BY <1>1 DEF Second, rateLimitVars, bucketVars
  <2>. QED BY <2>1 DEF TableInv, TableFits, OnlyMaker, Found, Makes, Amid, IsRail
<1>2. ASSUME NEW t \in Callers, AskRail(t) PROVE TableInv'
  <2>1. PICK p \in PeersAsked \cup {Nobody} :
          call' = [call EXCEPT ![t] = Looking(<<Rail, t>>, <<Rail, t>>, p)]
    BY <1>2 DEF AskRail
  <2>. DEFINE new == Looking(<<Rail, t>>, <<Rail, t>>, p)
  <2>2. UNCHANGED <<makers, passed, doubled>>
    BY <1>2 DEF AskRail, bucketVars
  <2>3. new \in Threads /\ new.step = "find" /\ new.of = <<Rail, t>>
    BY <1>v, RateLimitAssumption DEF Threads, Asking, Looking
  <2>4. call' = [call EXCEPT ![t] = new]
    BY <2>1
  <2>. HIDE DEF new
  <2>5. call'[t] = new /\ new.of[2] = t /\ IsRail(new.of)
    BY <1>t, <2>3, <2>4 DEF IsRail
  <2>6. TableFits(t)'
    BY <2>3, <2>5 DEF TableFits, Amid, IsRail
  <2>7. \A n \in BucketNames : ~Makes(new, n)
    BY <2>3 DEF Makes, Amid
  <2>. QED BY <1>q, <2>2, <2>3, <2>4, <2>6, <2>7
<1>3. ASSUME NEW t \in Callers, FindBucket(t) PROVE TableInv'
  <2>. DEFINE n == call[t].of[1]
  <2>1. /\ call[t] \in Asking /\ call[t].step = "find" /\ n \in BucketNames
        /\ UNCHANGED <<makers, passed>>
    BY <1>3, <1>t DEF FindBucket, Is, Within, Threads, Asking, Buckets, bucketVars
  <2>2. CASE makers[n] # {}
    <3>. DEFINE new == [call[t] EXCEPT !.step = "fetch"]
    <3>1. new \in Asking /\ new.step = "fetch" /\ new.of = call[t].of /\ new.rail = call[t].rail
      BY <2>1 DEF Asking
    <3>2. call' = [call EXCEPT ![t] = new] /\ UNCHANGED doubled
      BY <1>3, <2>2 DEF FindBucket, NoBucket, To
    <3>. HIDE DEF new
    <3>3. call'[t] = new /\ new \in Threads
      BY <1>t, <3>1, <3>2 DEF Threads
    <3>4. TableFits(t) /\ call[t] # AtEase
      BY <2>1 DEF TableInv, Asking, AtEase
    <3>5. TableFits(t)'
      BY <2>1, <2>2, <3>1, <3>2, <3>3, <3>4 DEF TableFits, Found, Amid, IsRail
    <3>. QED BY <1>q, <2>1, <3>1, <3>2, <3>3, <3>5 DEF Makes, Amid
  <2>3. CASE makers[n] = {}
    <3>. DEFINE new == [call[t] EXCEPT !.step = "make"]
    <3>1. new \in Asking /\ new.step = "make" /\ new.of = call[t].of /\ new.rail = call[t].rail
      BY <2>1 DEF Asking
    <3>2. /\ call' = [call EXCEPT ![t] = new] /\ doubled \subseteq doubled'
          /\ (\E u \in Callers \ {t} : Makes(call[u], n)) => n \in doubled'
      BY <1>3, <2>3 DEF FindBucket, NoBucket, To, Makes, Amid, Is, Within
    <3>. HIDE DEF new
    <3>3. call'[t] = new /\ new \in Threads /\ \A u \in Callers \ {t} : call'[u] = call[u]
      BY <1>t, <3>1, <3>2 DEF Threads
    <3>4. TableFits(t) /\ call[t] # AtEase /\ new # AtEase
      BY <2>1, <3>1 DEF TableInv, Asking, AtEase
    <3>5. \A b \in Buckets \cup ({Rail} \X Callers) : Found(b) => Found(b)'
      BY <2>1, <3>2 DEF Found
    <3>6. TableFits(t)'
      BY <2>1, <3>1, <3>2, <3>3, <3>4 DEF TableFits, Found, Amid, IsRail
    <3>7. ASSUME NEW u \in Callers \ {t} PROVE TableFits(u)'
      BY <2>1, <3>2, <3>3 DEF TableInv, TableFits, Found, Amid, IsRail
    <3>8. ASSUME NEW u \in Callers, NEW m \in BucketNames \ doubled', Makes(call'[u], m)
          PROVE  makers'[m] = {} /\ \A v \in Callers : Makes(call'[v], m) => v = u
      <4>1. CASE m = n
        <5>1. ASSUME NEW v \in Callers, Makes(call'[v], m) PROVE v = t
          BY <3>2, <3>3, <4>1, <5>1
        <5>. QED BY <2>1, <2>3, <3>8, <4>1, <5>1
      <4>2. CASE m # n
        <5>1. \A v \in Callers : Makes(call'[v], m) => v # t /\ Makes(call[v], m)
          BY <3>1, <3>3, <4>2 DEF Makes
        <5>. QED BY <2>1, <3>2, <3>8, <5>1 DEF TableInv, OnlyMaker
      <4>. QED BY <4>1, <4>2
    <3>9. \A u \in Callers : OnlyMaker(u)'
      BY <3>8 DEF OnlyMaker, Makes, Amid
    <3>. QED BY <2>1, <3>5, <3>6, <3>7, <3>9 DEF TableInv
  <2>. QED BY <2>2, <2>3
<1>4. ASSUME NEW t \in Callers, MakeBucket(t) PROVE TableInv'
  <2>. DEFINE n == call[t].of[1]
              new == [call[t] EXCEPT !.step = "fetch"]
  <2>1. /\ call[t] \in Asking /\ call[t].step = "make" /\ n \in BucketNames
        /\ call' = [call EXCEPT ![t] = new] /\ makers' = [makers EXCEPT ![n] = {t}]
        /\ UNCHANGED <<passed, doubled>>
    BY <1>4, <1>t DEF MakeBucket, To, Is, Within, Threads, Asking, Buckets, bucketVars
  <2>2. new \in Asking /\ new.step = "fetch" /\ new.of = call[t].of /\ new.rail = call[t].rail
    BY <2>1 DEF Asking
  <2>. HIDE DEF new
  <2>3. call'[t] = new /\ new # AtEase /\ \A u \in Callers \ {t} : call'[u] = call[u]
    BY <1>t, <2>1, <2>2 DEF Asking, AtEase
  <2>4. makers'[n] = {t} /\ \A m \in BucketNames \ {n} : makers'[m] = makers[m]
    BY <1>t, <2>1
  <2>5. Makes(call[t], n) /\ TableFits(t) /\ OnlyMaker(t) /\ call[t] # AtEase
    BY <2>1 DEF Makes, Amid, TableInv, Asking, AtEase
  <2>6. n \notin doubled => makers[n] = {} /\ \A u \in Callers : Makes(call[u], n) => u = t
    BY <2>1, <2>5 DEF OnlyMaker
  <2>7. ASSUME NEW b, b[1] \in BucketNames, Found(b) PROVE Found(b)'
    <3>1. CASE b[1] = n
      BY <2>1, <2>4, <2>6, <2>7, <3>1 DEF Found
    <3>2. CASE b[1] # n
      BY <2>1, <2>4, <2>7, <3>2 DEF Found
    <3>. QED BY <3>1, <3>2
  <2>8. \A b \in Buckets : passed'[b] > 0 => Found(b)'
    BY <2>1, <2>7 DEF TableInv, Buckets
  <2>9. ASSUME NEW u \in Callers PROVE TableFits(u)'
    <3>1. CASE u = t
      <4>1. PICK a \in {Rail} \X Callers : a = call[t].rail
        BY <2>1 DEF Asking
      <4>2. a[1] \in BucketNames
        BY DEF BucketNames
      <4>3. ~IsRail(call[t].of) => Found(a)'
        BY <2>5, <2>7, <4>1, <4>2 DEF TableFits
      <4>4. makers'[new.of[1]] # {}
        BY <2>2, <2>4
      <4>. QED BY <2>2, <2>3, <3>1, <4>1, <4>3, <4>4 DEF TableFits, Amid, IsRail, Found
    <3>2. CASE u # t
      <4>0. PICK q \in Threads : q = call[u]
        BY <1>t
      <4>1. call'[u] = q /\ call[u] = q /\ TableFits(u)
        BY <2>3, <3>2, <4>0 DEF TableInv
      <4>2. q # AtEase => q.of[1] \in BucketNames /\ q.rail[1] \in BucketNames
        BY DEF Threads, Asking, Buckets, BucketNames
      <4>3. q # AtEase => (Found(q.of) => Found(q.of)') /\ (Found(q.rail) => Found(q.rail)')
                          /\ (makers[q.of[1]] # {} => makers'[q.of[1]] # {})
        <5>1. PICK b, c : b = q.of /\ c = q.rail
          OBVIOUS
        <5>2. q # AtEase => (Found(b) => Found(b)') /\ (Found(c) => Found(c)')
                            /\ (makers[b[1]] # {} => makers'[b[1]] # {})
          BY <2>4, <2>7, <4>2, <5>1
        <5>. QED BY <5>1, <5>2 DEF Found
      <4>. QED BY <4>1, <4>3 DEF TableFits, Amid, IsRail, Found
    <3>. QED BY <3>1, <3>2
  <2>10. ASSUME NEW u \in Callers, NEW m \in BucketNames \ doubled, Makes(call'[u], m)
         PROVE  makers'[m] = {} /\ \A v \in Callers : Makes(call'[v], m) => v = u
    <3>1. \A v \in Callers : Makes(call'[v], m) => v # t /\ Makes(call[v], m)
      BY <2>2, <2>3 DEF Makes, Amid
    <3>2. m # n
      BY <2>6, <2>10, <3>1
    <3>. QED BY <2>4, <2>10, <3>1, <3>2 DEF TableInv, OnlyMaker
  <2>11. \A u \in Callers : OnlyMaker(u)'
    BY <2>1, <2>10 DEF OnlyMaker, Makes, Amid
  <2>. QED BY <2>8, <2>9, <2>11 DEF TableInv
<1>5. ASSUME NEW t \in Callers, FetchBucket(t) PROVE TableInv'
  <2>. DEFINE n == call[t].of[1]
  <2>1. /\ call[t] \in Asking /\ call[t].step = "fetch" /\ n \in BucketNames
        /\ UNCHANGED <<makers, passed, doubled>>
    BY <1>5, <1>t DEF FetchBucket, Is, Within, Threads, Asking, Buckets, bucketVars
  <2>2. PICK u \in makers[n] : call' = [call EXCEPT ![t].step = "refill", ![t].of = <<n, u>>]
    BY <1>5 DEF FetchBucket
  <2>3. u \in Callers /\ makers[n] = {u}
    BY <1>t, <2>1, <2>2
  <2>4. <<n, u>> \in Buckets
    BY <2>1, <2>3 DEF Buckets
  <2>5. PICK b \in Buckets : b = <<n, u>>
    BY <2>4
  <2>. DEFINE new == [call[t] EXCEPT !.step = "refill", !.of = b]
  <2>6. new \in Asking /\ new.step = "refill" /\ new.of = b /\ new.rail = call[t].rail
    BY <2>1 DEF Asking
  <2>7. call' = [call EXCEPT ![t].step = "refill", ![t].of = b]
    BY <2>2, <2>5
  <2>8. call' = [call EXCEPT ![t] = new]
    BY <2>7
  <2>. HIDE DEF new
  <2>9. call'[t] = new /\ new \in Threads /\ new # AtEase
    BY <1>t, <2>6, <2>8 DEF Threads, Asking, AtEase
  <2>10. Found(b) /\ b[1] = call[t].of[1]
    BY <2>3, <2>5 DEF Found
  <2>11. TableFits(t) /\ call[t] # AtEase
    BY <2>1 DEF TableInv, Asking, AtEase
  <2>12. TableFits(t)'
    BY <2>1, <2>6, <2>9, <2>10, <2>11 DEF TableFits, Found, Amid, IsRail
  <2>. QED BY <1>q, <2>1, <2>6, <2>8, <2>9, <2>12 DEF Makes, Amid
\* Past the table, a thread keeps its bucket, or goes on with another that was found.
<1>6. ASSUME NEW t \in Callers, call[t] \in Asking, call[t].step \notin {"find", "make", "fetch"},
             NEW new \in Threads, call' = [call EXCEPT ![t] = new],
             UNCHANGED <<makers, doubled>>,
             \/ new = AtEase
             \/ /\ new \in Asking /\ new.step \notin {"make", "fetch"}
                /\ new.step = "find" => new.of[2] = t /\ new.rail = call[t].of
                /\ new.step # "find" => \/ new.of = call[t].of /\ new.rail = call[t].rail
                                        \/ ~IsRail(call[t].of) /\ new.of = call[t].rail,
             \A b \in Buckets : passed'[b] > 0 =>
               \/ passed[b] > 0 \/ b = call[t].of \/ (~IsRail(call[t].of) /\ b = call[t].rail)
      PROVE  TableInv'
  <2>1. call'[t] = new /\ TableFits(t) /\ call[t] # AtEase
    BY <1>t, <1>6 DEF TableInv, Asking, AtEase
  <2>2. Found(call[t].of) /\ (~IsRail(call[t].of) => Found(call[t].rail))
    BY <1>6, <2>1 DEF TableFits
  <2>3. new \in Asking /\ new.step # "find" /\ new.of = call[t].rail => IsRail(new.of)
    BY <1>6, <1>v DEF Asking
  <2>4. TableFits(t)'
    BY <1>6, <2>1, <2>2, <2>3 DEF TableFits, Found, Amid, IsRail, AtEase
  <2>5. \A n \in BucketNames : ~Makes(new, n)
    BY <1>6 DEF Makes, Amid
  <2>. QED BY <1>q, <1>6, <2>2, <2>4, <2>5
<1>7. ASSUME NEW t \in Callers,
             Refill(t) \/ StoreTokens(t) \/ Stamp(t) \/ ReadAgain(t) \/ ReadForRefund(t) \/ Give(t)
      PROVE  TableInv'
  <2>1. /\ call[t] \in Asking /\ call[t].step \notin {"find", "make", "fetch"}
        /\ UNCHANGED <<makers, passed, doubled>>
    BY <1>7, <1>t DEF Refill, StoreTokens, Stamp, ReadAgain, ReadForRefund, Give, Is, Within, Threads
  <2>2. PICK new \in Threads :
          /\ call' = [call EXCEPT ![t] = new]
          /\ \/ new = AtEase
             \/ /\ new \in Asking /\ new.step \notin {"find", "make", "fetch"}
                /\ new.of = call[t].of /\ new.rail = call[t].rail
    <3>1. CASE Refill(t) \/ ReadAgain(t) \/ ReadForRefund(t)
      <4>1. PICK step \in {"store", "spend", "give"} : ReadTokens(t, step)
        BY <3>1 DEF Refill, ReadAgain, ReadForRefund
      <4>2. tokens[call[t].of] \in Int /\ second \in 0..LastSecond
        BY <2>1 DEF Asking, RateInv, RateLimitTypeOK
      <4>. DEFINE new == [call[t] EXCEPT !.step = step, !.read = tokens[call[t].of], !.now = second]
      <4>3. new \in Asking /\ new.step = step /\ new.of = call[t].of /\ new.rail = call[t].rail
        BY <2>1, <4>2 DEF Asking
      <4>4. call' = [call EXCEPT ![t] = new]
        BY <4>1 DEF ReadTokens
      <4>. QED BY <4>3, <4>4 DEF Threads
    <3>2. CASE StoreTokens(t)
      <4>. DEFINE new == [call[t] EXCEPT !.step = "stamp"]
      <4>1. new \in Asking /\ new.step = "stamp" /\ new.of = call[t].of /\ new.rail = call[t].rail
        BY <2>1 DEF Asking
      <4>2. call' = [call EXCEPT ![t] = new]
        BY <3>2 DEF StoreTokens, To
      <4>. QED BY <4>1, <4>2 DEF Threads
    <3>3. CASE Stamp(t)
      <4>. DEFINE n1 == [call[t] EXCEPT !.step = "check"]
                  n2 == [n1 EXCEPT !.read = 0]
                  new == [call[t] EXCEPT !.step = "check", !.read = 0, !.now = 0]
      <4>0. 0 \in 0..LastSecond /\ 0 \in Int
        BY RateLimitAssumption
      <4>1. n1 \in Asking /\ n1.step = "check" /\ n1.of = call[t].of /\ n1.rail = call[t].rail
        BY <2>1 DEF Asking
      <4>2. new = [n2 EXCEPT !.now = 0] /\ call' = [call EXCEPT ![t] = new]
        BY <3>3 DEF Stamp
      <4>. HIDE DEF n1, new
      <4>3. n2 \in Asking /\ n2.step = "check" /\ n2.of = call[t].of /\ n2.rail = call[t].rail
        BY <4>0, <4>1 DEF Asking
      <4>. HIDE DEF n2
      <4>4. new \in Asking /\ new.step = "check" /\ new.of = call[t].of /\ new.rail = call[t].rail
        BY <4>0, <4>2, <4>3 DEF Asking
      <4>. QED BY <4>2, <4>4 DEF Threads
    <3>4. CASE Give(t)
      BY <3>4 DEF Give, Returns, Threads
    <3>. QED BY <1>7, <3>1, <3>2, <3>3, <3>4
  <2>. QED BY <1>6, <2>1, <2>2
<1>8. ASSUME NEW t \in Callers, Check(t) PROVE TableInv'
  <2>1. /\ call[t] \in Asking /\ call[t].step = "check" /\ UNCHANGED <<makers, passed, doubled>>
        /\ call[t].rail \in Buckets
    BY <1>8, <1>t, <1>v DEF Check, Is, Within, Threads, bucketVars, Asking
  <2>2. PICK new \in Threads :
          /\ call' = [call EXCEPT ![t] = new]
          /\ \/ new = AtEase
             \/ /\ new \in Asking /\ new.step \notin {"find", "make", "fetch"}
                /\ \/ new.of = call[t].of /\ new.rail = call[t].rail
                   \/ ~IsRail(call[t].of) /\ new.of = call[t].rail
    <3>1. CASE tokens[call[t].of] >= 1
      <4>. DEFINE new == [call[t] EXCEPT !.step = "take"]
      <4>1. new \in Asking /\ new.step = "take" /\ new.of = call[t].of /\ new.rail = call[t].rail
        BY <2>1 DEF Asking
      <4>2. call' = [call EXCEPT ![t] = new]
        BY <1>8, <3>1 DEF Check, To
      <4>. QED BY <4>1, <4>2 DEF Threads
    <3>2. CASE ~(tokens[call[t].of] >= 1) /\ IsRail(call[t].of)
      BY <1>8, <3>2 DEF Check, Refused, Returns, Threads
    <3>3. CASE ~(tokens[call[t].of] >= 1) /\ ~IsRail(call[t].of)
      <4>. DEFINE new == [call[t] EXCEPT !.step = "refund", !.of = call[t].rail]
      <4>1. new \in Asking /\ new.step = "refund" /\ new.of = call[t].rail
        BY <2>1 DEF Asking
      <4>2. call' = [call EXCEPT ![t] = new]
        BY <1>8, <3>3 DEF Check, Refused
      <4>. QED BY <3>3, <4>1, <4>2 DEF Threads
    <3>. QED BY <3>1, <3>2, <3>3
  <2>. QED BY <1>6, <2>1, <2>2
<1>9. ASSUME NEW t \in Callers, Spend(t) PROVE TableInv'
  <2>. DEFINE b == call[t].of
              p == call[t].peer
              a == call[t].rail
  <2>1. /\ call[t] \in Asking /\ call[t].step = "spend" /\ UNCHANGED <<makers, doubled>>
        /\ b \in Buckets /\ p \in PeersAsked \cup {Nobody}
    BY <1>9, <1>t DEF Spend, Is, Within, Threads, Asking
  <2>2. CASE IsRail(b) /\ p # Nobody
    <3>0. PICK peer \in PeersAsked : peer = p
      BY <2>1, <2>2
    <3>1. PICK of \in Buckets : of = <<p, t>>
      BY <3>0 DEF Buckets, BucketNames
    <3>2. b \in {Rail} \X Callers /\ 0 \in 0..LastSecond
      BY <2>1, <2>2, RateLimitAssumption DEF IsRail, Buckets
    <3>. DEFINE new == Looking(of, b, peer)
    <3>3. new \in Asking /\ new.step = "find" /\ new.of = of /\ new.rail = b
      BY <3>2 DEF Asking, Looking
    <3>4. call' = [call EXCEPT ![t] = new] /\ passed' = passed
      BY <1>9, <2>2, <3>0, <3>1 DEF Spend
    <3>. HIDE DEF new
    <3>5. new \in Threads /\ new.of[2] = t
      BY <3>1, <3>3 DEF Threads
    <3>. QED BY <1>6, <2>1, <3>3, <3>4, <3>5
  <2>3. CASE ~(IsRail(b) /\ p # Nobody)
    <3>1. /\ call' = [call EXCEPT ![t] = AtEase]
          /\ passed' = [c \in Buckets |-> passed[c] +
                          IF c = b \/ (~IsRail(b) /\ c = a) THEN 1 ELSE 0]
      BY <1>9, <2>3 DEF Spend, Returns
    <3>2. ASSUME NEW c \in Buckets, passed'[c] > 0
          PROVE  passed[c] > 0 \/ c = b \/ (~IsRail(b) /\ c = a)
      <4>1. ~(c = b \/ (~IsRail(b) /\ c = a)) => passed'[c] = passed[c] + 0
        BY <3>1
      <4>2. passed[c] \in Nat
        BY <1>t
      <4>. QED BY <3>2, <4>1, <4>2
    <3>3. AtEase \in Threads
      BY DEF Threads
    <3>. QED BY <1>6, <2>1, <3>1, <3>2, <3>3
  <2>. QED BY <2>2, <2>3
<1>. QED BY <1>1, <1>2, <1>3, <1>4, <1>5, <1>7, <1>8, <1>9 DEF RateLimitNext

\* RateLimiter.allow: but for two threads at one bucket at the same time, a rail or a peer has
\* the one bucket that was made when it was first asked, and that lets pass no more than it
\* held, was refilled with, and one for each other thread, whatever was refunded;
\* RateLimitKeeps.
THEOREM PassesItsQuota == RateLimitSpec => [](RateLimitTypeOK /\ RateLimitKeeps)
<1>1. RateLimitSpec => [](RateInv /\ TableInv)
  BY RateStart, RateStep, TableStart, TableStep, PTL DEF RateLimitSpec
<1>2. RateInv /\ TableInv => RateLimitTypeOK /\ RateLimitKeeps
  BY RateKept DEF RateInv, TableInv, RateLimitKeeps, OneBucket, Found
<1>. QED BY <1>1, <1>2, PTL

-------------------------------------------------------------------------------
(* The channel adapters: a process hands no message on twice and skips     *)
(* none below its watermark that it had no excuse for; for any surfaces,   *)
(* pages, posts and restarts.                                              *)

\* What a process has read it has read once, and its marks lie within what was posted.
ReadsOnce(s) ==
  /\ seenUpTo[s] <= posted[s] /\ forgotten[s] <= posted[s]
  /\ IsInjective(batch[s]) /\ ToSet(batch[s]) \cap handed[s] = {}
  /\ \A m \in ToSet(batch[s]) \cup handed[s] : m <= seenUpTo[s]
\* Neither what is below the watermark of a running task, nor what the platform forgot, is lost.
SkipsNone(s) == ~excused[s] =>
  /\ inbound[s] = "runs" => \A m \in 1..seenUpTo[s] : m \in everHanded[s] \cup ToSet(batch[s])
  /\ s \notin Sessions => \A m \in 1..forgotten[s] : m \in everHanded[s]
Rested(s) ==
  /\ inbound[s] # "runs" => batch[s] = <<>>
  /\ registry = "starting" /\ inbound[s] = "none" => seenUpTo[s] = 0
  /\ registry = "stopped" => inbound[s] = "none"

AdaptersInv == AdaptersTypeOK /\ \A s \in Surfaces : ReadsOnce(s) /\ SkipsNone(s) /\ Rested(s)

-------------------------------------------------------------------------------
LEMMA BatchFacts ==
  /\ <<>> \in Seq(Posts) /\ ToSet(<<>>) = {} /\ IsInjective(<<>>)
  /\ \A b \in Seq(Posts) :
       /\ \A m : m \in ToSet(b) <=> \E i \in 1..Len(b) : b[i] = m
       /\ ToSet(b) \subseteq Posts
       /\ IsInjective(b) <=> \A i, j \in 1..Len(b) : b[i] = b[j] => i = j
<1>1. <<>> \in Seq(Posts) /\ Len(<<>>) = 0
  BY EmptySeq
<1>2. ASSUME NEW b \in Seq(Posts)
      PROVE  /\ \A m : m \in ToSet(b) <=> \E i \in 1..Len(b) : b[i] = m
             /\ ToSet(b) \subseteq Posts
             /\ IsInjective(b) <=> \A i, j \in 1..Len(b) : b[i] = b[j] => i = j
  <2>1. DOMAIN b = 1..Len(b) /\ \A i \in 1..Len(b) : b[i] \in Posts
    BY ElementOfSeq, LenProperties
  <2>. QED BY <2>1 DEF ToSet, IsInjective
<1>3. ToSet(<<>>) = {} /\ IsInjective(<<>>)
  <2>1. 1..Len(<<>>) = {}
    BY <1>1
  <2>2. \A m : m \notin ToSet(<<>>)
    BY <1>1, <1>2, <2>1
  <2>3. IsInjective(<<>>)
    BY <1>1, <1>2, <2>1
  <2>. QED BY <2>2, <2>3
<1>. QED BY <1>1, <1>2, <1>3

\* Taking the first message off a batch.
LEMMA HandingOn ==
  ASSUME NEW b \in Seq(Posts), b # <<>>
  PROVE  /\ Head(b) \in Posts /\ Tail(b) \in Seq(Posts) /\ Head(b) \in ToSet(b)
         /\ ToSet(b) = ToSet(Tail(b)) \cup {Head(b)}
         /\ IsInjective(b) => IsInjective(Tail(b)) /\ Head(b) \notin ToSet(Tail(b))
<1>1. /\ Head(b) \in Posts /\ Tail(b) \in Seq(Posts) /\ Len(Tail(b)) = Len(b) - 1 /\ Len(b) \in Nat
      /\ Len(b) >= 1 /\ Head(b) = b[1] /\ \A i \in 1..Len(Tail(b)) : Tail(b)[i] = b[i + 1]
  BY HeadTailProperties, EmptySeq, LenProperties
<1>2. ASSUME NEW m PROVE m \in ToSet(b) <=> m \in ToSet(Tail(b)) \cup {Head(b)}
  <2>1. ASSUME m \in ToSet(b) PROVE m \in ToSet(Tail(b)) \cup {Head(b)}
    <3>1. PICK i \in 1..Len(b) : b[i] = m
      BY <2>1, BatchFacts
    <3>2. CASE i = 1
      BY <1>1, <3>1, <3>2
    <3>3. CASE i # 1
      <4>1. i - 1 \in 1..Len(Tail(b)) /\ Tail(b)[i - 1] = b[i - 1 + 1] /\ i - 1 + 1 = i
        BY <1>1, <3>1, <3>3
      <4>2. \E k \in 1..Len(Tail(b)) : Tail(b)[k] = m
        BY <3>1, <4>1
      <4>3. m \in ToSet(Tail(b))
        BY <1>1, <4>2, BatchFacts
      <4>. QED BY <4>3
    <3>. QED BY <3>2, <3>3
  <2>2. ASSUME m \in ToSet(Tail(b)) PROVE m \in ToSet(b)
    <3>1. PICK i \in 1..Len(Tail(b)) : Tail(b)[i] = m
      BY <1>1, <2>2, BatchFacts
    <3>2. i \in Nat /\ i + 1 \in 1..Len(b)
      BY <1>1, <3>1
    <3>3. b[i + 1] = m
      BY <1>1, <3>1
    <3>. QED BY <3>2, <3>3, BatchFacts
  <2>3. Head(b) \in ToSet(b)
    BY <1>1, BatchFacts
  <2>. QED BY <2>1, <2>2, <2>3
<1>3. ASSUME IsInjective(b) PROVE IsInjective(Tail(b)) /\ Head(b) \notin ToSet(Tail(b))
  <2>1. \A i, j \in 1..Len(b) : b[i] = b[j] => i = j
    BY <1>3, BatchFacts
  <2>2. ASSUME NEW i \in 1..Len(Tail(b)), NEW j \in 1..Len(Tail(b)), Tail(b)[i] = Tail(b)[j] PROVE i = j
    BY <1>1, <2>1, <2>2
  <2>3. ASSUME NEW i \in 1..Len(Tail(b)), Tail(b)[i] = Head(b) PROVE FALSE
    BY <1>1, <2>1, <2>3
  <2>. DEFINE t == Tail(b)
              h == Head(b)
  <2>4. t \in Seq(Posts) /\ (\A i, j \in 1..Len(t) : t[i] = t[j] => i = j)
        /\ \A i \in 1..Len(t) : t[i] # h
    BY <1>1, <2>2, <2>3
  <2>. HIDE DEF t, h
  <2>5. IsInjective(t) /\ h \notin ToSet(t)
    BY <2>4, BatchFacts
  <2>. QED BY <2>5 DEF t, h
<1>4. Head(b) \in ToSet(b)
  BY <1>2
<1>. QED BY <1>1, <1>2, <1>3, <1>4

\* What a page of the history holds: the newest messages above the watermark.
LEMMA PageFacts ==
  ASSUME AdaptersTypeOK, NEW s \in Surfaces, seenUpTo[s] <= posted[s], Unread(s) > 0,
         NEW n \in 0..Len(Newest(s))
  PROVE  LET read == SubSeq(Newest(s), 1, n) IN
           /\ read \in Seq(Posts) /\ IsInjective(read)
           /\ \A m \in ToSet(read) : seenUpTo[s] < m /\ m <= posted[s]
           /\ Watermark(s, read) = IF n = 0 THEN seenUpTo[s] ELSE posted[s]
           /\ n >= Unread(s) => \A m \in (seenUpTo[s] + 1)..posted[s] : m \in ToSet(read)
           /\ \A top \in Tops(s, read) :
                Watermark(s, top) \in {seenUpTo[s], posted[s]} /\ (n # 0 => Watermark(s, top) = posted[s])
<1>. DEFINE size == IF Unread(s) < Page THEN Unread(s) ELSE Page
            read == SubSeq(Newest(s), 1, n)
<1>1. /\ posted[s] \in Nat /\ seenUpTo[s] \in Nat /\ posted[s] <= LastPost /\ LastPost \in Nat
      /\ size \in Nat /\ size <= Unread(s) /\ Unread(s) = posted[s] - seenUpTo[s] /\ Unread(s) \in Nat
  BY AdaptersAssumption DEF AdaptersTypeOK, Unread
<1>2. Newest(s) = [i \in 1..size |-> posted[s] - i + 1]
  BY DEF Newest
<1>. HIDE DEF size
<1>3. \A i \in 1..size : posted[s] - i + 1 \in Posts /\ seenUpTo[s] < posted[s] - i + 1
  BY <1>1 DEF Posts
<1>4. Newest(s) \in Seq(Posts) /\ Len(Newest(s)) = size
  BY <1>1, <1>2, <1>3
<1>5. /\ read \in Seq(Posts) /\ Len(read) = n /\ n \in Nat /\ n <= size
      /\ \A i \in 1..n : read[i] = posted[s] - i + 1
  <2>1. n \in Nat /\ n <= size /\ \A i \in 1..n : Newest(s)[i] \in Posts
    BY <1>1, <1>2, <1>3, <1>4
  <2>2. /\ read \in Seq(Posts) /\ Len(read) = (IF 1 <= n THEN n - 1 + 1 ELSE 0)
        /\ \A i \in 1..(n - 1 + 1) : read[i] = Newest(s)[1 + i - 1]
    BY <2>1, SubSeqProperties
  <2>3. n - 1 + 1 = n /\ \A i \in 1..n : 1 + i - 1 = i
    BY <2>1
  <2>4. Len(read) = n /\ \A i \in 1..n : read[i] = Newest(s)[i]
    BY <2>1, <2>2, <2>3
  <2>. HIDE DEF read
  <2>5. ASSUME NEW i \in 1..n PROVE read[i] = posted[s] - i + 1
    <3>1. i \in 1..size /\ read[i] = Newest(s)[i]
      BY <1>1, <1>4, <2>1, <2>4
    <3>. QED BY <1>2, <3>1
  <2>. QED BY <2>1, <2>2, <2>4, <2>5
<1>. HIDE DEF read
<1>6. IsInjective(read)
  <2>1. ASSUME NEW i \in 1..n, NEW j \in 1..n, read[i] = read[j] PROVE i = j
    <3>1. posted[s] - i + 1 = posted[s] - j + 1
      BY <1>5, <2>1
    <3>2. i \in Int /\ j \in Int /\ posted[s] \in Int
      BY <1>1, <1>5
    <3>. QED BY <3>1, <3>2
  <2>. QED BY <1>5, <2>1, BatchFacts
<1>7. \A m \in ToSet(read) : seenUpTo[s] < m /\ m <= posted[s]
  <2>1. ASSUME NEW m \in ToSet(read) PROVE seenUpTo[s] < m /\ m <= posted[s]
    <3>1. PICK i \in 1..n : read[i] = m
      BY <1>5, BatchFacts
    <3>2. m = posted[s] - i + 1 /\ i \in 1..size
      BY <1>1, <1>5, <3>1
    <3>. QED BY <1>1, <1>3, <3>2
  <2>. QED BY <2>1
<1>8. Watermark(s, read) = IF n = 0 THEN seenUpTo[s] ELSE posted[s]
  <2>1. CASE n = 0
    BY <1>5, <2>1, EmptySeq DEF Watermark
  <2>2. CASE n # 0
    <3>1. read # <<>> /\ Head(read) = read[1] /\ read[1] = posted[s]
      BY <1>1, <1>5, <2>2, EmptySeq, HeadTailProperties
    <3>. QED BY <2>2, <3>1 DEF Watermark
  <2>. QED BY <2>1, <2>2
<1>9. ASSUME n >= Unread(s), NEW m \in (seenUpTo[s] + 1)..posted[s] PROVE m \in ToSet(read)
  <2>. DEFINE i == posted[s] - m + 1
  <2>1. /\ m \in Nat /\ n \in Nat /\ posted[s] \in Nat /\ seenUpTo[s] \in Nat
        /\ seenUpTo[s] + 1 <= m /\ m <= posted[s] /\ n >= posted[s] - seenUpTo[s]
    BY <1>1, <1>5, <1>9
  <2>2. i \in 1..n
    BY <2>1
  <2>3. posted[s] - i + 1 = m
    BY <2>1
  <2>. HIDE DEF i
  <2>4. read[i] = m
    BY <1>5, <2>2, <2>3
  <2>. QED BY <1>5, <2>2, <2>4, BatchFacts
<1>10. ASSUME NEW top \in Tops(s, read)
       PROVE  Watermark(s, top) \in {seenUpTo[s], posted[s]} /\ (n # 0 => Watermark(s, top) = posted[s])
  <2>1. CASE top = read
    BY <1>8, <2>1
  <2>2. CASE top = Newest(s) /\ Len(read) < Len(Newest(s))
    <3>1. n < size /\ size \in Nat /\ n \in Nat
      BY <1>1, <1>4, <1>5, <2>2
    <3>2. 1 \in 1..size
      BY <3>1
    <3>5. Newest(s)[1] = posted[s]
      BY <1>1, <1>2, <3>2
    <3>3. Newest(s)[1] = posted[s] /\ Newest(s) # <<>>
      BY <1>4, <3>1, <3>5, EmptySeq
    <3>4. Head(Newest(s)) = posted[s]
      BY <1>4, <3>3, HeadTailProperties
    <3>. QED BY <2>2, <3>3, <3>4 DEF Watermark
  <2>. QED BY <2>1, <2>2 DEF Tops
<1>. QED BY <1>5, <1>6, <1>7, <1>8, <1>9, <1>10 DEF read

\* A surface that a step leaves alone.
LEMMA Elsewhere ==
  ASSUME NEW s \in Surfaces, ReadsOnce(s), SkipsNone(s), Rested(s),
         posted'[s] = posted[s], forgotten'[s] = forgotten[s], seenUpTo'[s] = seenUpTo[s],
         batch'[s] = batch[s], inbound'[s] = inbound[s], everHanded'[s] = everHanded[s],
         handed'[s] = handed[s], excused'[s] = excused[s],
         registry' = "starting" => registry = "starting",
         registry' = "stopped" => inbound'[s] = "none"
  PROVE  (ReadsOnce(s) /\ SkipsNone(s) /\ Rested(s))'
BY DEF ReadsOnce, SkipsNone, Rested

LEMMA AdaptersStart == AdaptersInit => AdaptersInv
<1>. SUFFICES ASSUME AdaptersInit PROVE AdaptersInv
  OBVIOUS
<1>1. AdaptersTypeOK
  <2>1. \A mark \in {posted, forgotten, seenUpTo} : mark \in [Surfaces -> 0..LastPost]
    BY AdaptersAssumption DEF AdaptersInit
  <2>2. batch \in [Surfaces -> Seq(Posts)]
    BY BatchFacts DEF AdaptersInit
  <2>3. starts \in 1..MaxStarts
    BY AdaptersAssumption DEF AdaptersInit
  <2>. QED BY <2>1, <2>2, <2>3 DEF AdaptersInit, AdaptersTypeOK
<1>2. ASSUME NEW s \in Surfaces PROVE ReadsOnce(s) /\ SkipsNone(s) /\ Rested(s)
  BY BatchFacts DEF AdaptersInit, ReadsOnce, SkipsNone, Rested
<1>. QED BY <1>1, <1>2 DEF AdaptersInv

-------------------------------------------------------------------------------
LEMMA AdaptersStep == AdaptersInv /\ [AdaptersNext]_adaptersVars => AdaptersInv'
<1>. SUFFICES ASSUME AdaptersInv, [AdaptersNext]_adaptersVars PROVE AdaptersInv'
  OBVIOUS
<1>t. /\ posted \in [Surfaces -> 0..LastPost] /\ forgotten \in [Surfaces -> 0..LastPost]
      /\ seenUpTo \in [Surfaces -> 0..LastPost] /\ LastPost \in Nat
  BY AdaptersAssumption DEF AdaptersTypeOK, AdaptersInv
<1>b. batch \in [Surfaces -> Seq(Posts)]
  BY DEF AdaptersTypeOK, AdaptersInv
<1>i. /\ inbound \in [Surfaces -> {"none", "runs", "ended"}] /\ excused \in [Surfaces -> BOOLEAN]
      /\ everHanded \in [Surfaces -> SUBSET Posts] /\ handed \in [Surfaces -> SUBSET Posts]
      /\ starts \in 1..MaxStarts /\ MaxStarts \in Nat
      /\ registry \in {"starting", "abandoned", "up", "stopping", "broken", "stopped"}
  BY AdaptersAssumption DEF AdaptersTypeOK, AdaptersInv
<1>o. \A s \in Surfaces : ReadsOnce(s) /\ SkipsNone(s) /\ Rested(s)
  BY DEF AdaptersInv
<1>a. AdaptersTypeOK
  BY DEF AdaptersInv
<1>. USE <1>o, <1>a
<1>1. CASE NewProcess
  <2>1. AdaptersTypeOK'
    <3>1. \A mark \in {posted', forgotten', seenUpTo'} : mark \in [Surfaces -> 0..LastPost]
      BY <1>1, <1>t, <1>i DEF NewProcess
    <3>2. batch' \in [Surfaces -> Seq(Posts)] /\ starts' \in 1..MaxStarts
      BY <1>1, <1>t, <1>i, <1>b, BatchFacts DEF NewProcess
    <3>. QED BY <1>1, <1>t, <1>i, <3>1, <3>2 DEF NewProcess, AdaptersTypeOK
  <2>2. ASSUME NEW s \in Surfaces PROVE (ReadsOnce(s) /\ SkipsNone(s) /\ Rested(s))'
    <3>1. /\ posted'[s] = posted[s] /\ forgotten'[s] = forgotten[s] /\ seenUpTo'[s] = 0 /\ batch'[s] = <<>>
          /\ inbound'[s] = "none" /\ registry' = "starting" /\ handed'[s] = {}
          /\ everHanded'[s] = everHanded[s] /\ excused'[s] = excused[s] /\ posted[s] \in Nat
      BY <1>1, <1>t, <1>i DEF NewProcess
    <3>. QED BY <3>1, BatchFacts DEF ReadsOnce, SkipsNone, Rested
  <2>. QED BY <2>1, <2>2 DEF AdaptersInv
<1>2. ASSUME NEW s \in Surfaces, Arrive(s) PROVE AdaptersInv'
  <2>1. /\ posted' \in [Surfaces -> 0..LastPost] /\ posted'[s] = posted[s] + 1
        /\ \A r \in Surfaces \ {s} : posted'[r] = posted[r]
    BY <1>2, <1>t, <1>i DEF Arrive
  <2>2. UNCHANGED <<forgotten, seenUpTo, batch, inbound, registry, starts, everHanded, handed, excused>>
    BY <1>2 DEF Arrive
  <2>3. AdaptersTypeOK'
    BY <1>t, <1>i, <2>1, <2>2 DEF AdaptersTypeOK
  <2>4. ASSUME NEW r \in Surfaces PROVE (ReadsOnce(r) /\ SkipsNone(r) /\ Rested(r))'
    <3>1. posted'[r] >= posted[r] /\ posted'[r] \in Nat /\ posted[r] \in Nat /\ seenUpTo[r] \in Nat
          /\ forgotten[r] \in Nat
      BY <1>t, <1>i, <2>1
    <3>. QED BY <2>2, <3>1 DEF ReadsOnce, SkipsNone, Rested
  <2>. QED BY <2>3, <2>4 DEF AdaptersInv
<1>3. ASSUME NEW s \in Surfaces, Connect(s) PROVE AdaptersInv'
  <2>1. /\ UNCHANGED <<posted, forgotten, seenUpTo, batch, starts, everHanded, handed, excused>>
        /\ registry = "starting" /\ inbound[s] = "none" /\ registry' \in {"starting", "up", "abandoned"}
        /\ inbound' \in [Surfaces -> {"none", "runs", "ended"}] /\ inbound'[s] \in {"none", "runs"}
        /\ \A r \in Surfaces \ {s} : inbound'[r] = inbound[r]
    BY <1>3, <1>t, <1>i DEF Connect
  <2>2. AdaptersTypeOK'
    BY <1>t, <1>i, <2>1 DEF AdaptersTypeOK
  <2>3. ASSUME NEW r \in Surfaces PROVE (ReadsOnce(r) /\ SkipsNone(r) /\ Rested(r))'
    <3>1. CASE r # s
      BY <2>1, <3>1, Elsewhere
    <3>2. CASE r = s
      <4>1. seenUpTo[s] = 0 /\ batch[s] = <<>>
        BY <2>1 DEF Rested
      <4>. QED BY <2>1, <3>2, <4>1 DEF ReadsOnce, SkipsNone, Rested
    <3>. QED BY <3>1, <3>2
  <2>. QED BY <2>2, <2>3 DEF AdaptersInv
<1>4. ASSUME NEW s \in Surfaces, CancelTask(s) PROVE AdaptersInv'
  <2>1. /\ UNCHANGED <<posted, forgotten, seenUpTo, starts, everHanded, handed, excused>>
        /\ registry' \in {"broken", "stopped", "stopping"} /\ registry \in {"up", "stopping"}
        /\ \/ registry' = "broken" /\ UNCHANGED <<inbound, batch>>
           \/ /\ inbound' = [inbound EXCEPT ![s] = "none"] /\ batch' = [batch EXCEPT ![s] = <<>>]
              /\ registry' = "stopped" => \A r \in Surfaces \ {s} : inbound[r] = "none"
    BY <1>4 DEF CancelTask
  <2>2. /\ inbound' \in [Surfaces -> {"none", "runs", "ended"}] /\ batch' \in [Surfaces -> Seq(Posts)]
        /\ \A r \in Surfaces \ {s} : inbound'[r] = inbound[r] /\ batch'[r] = batch[r]
        /\ (UNCHANGED <<inbound, batch>> \/ (inbound'[s] = "none" /\ batch'[s] = <<>>))
    <3>1. CASE UNCHANGED <<inbound, batch>>
      BY <1>i, <1>b, <3>1
    <3>2. CASE inbound' = [inbound EXCEPT ![s] = "none"] /\ batch' = [batch EXCEPT ![s] = <<>>]
      <4>1. inbound' \in [Surfaces -> {"none", "runs", "ended"}] /\ inbound'[s] = "none"
            /\ \A r \in Surfaces \ {s} : inbound'[r] = inbound[r]
        BY <1>i, <3>2
      <4>2. batch' \in [Surfaces -> Seq(Posts)] /\ batch'[s] = <<>>
            /\ \A r \in Surfaces \ {s} : batch'[r] = batch[r]
        BY <1>b, <3>2, BatchFacts
      <4>. QED BY <4>1, <4>2
    <3>. QED BY <2>1, <3>1, <3>2
  <2>3. AdaptersTypeOK'
    BY <1>t, <1>i, <2>1, <2>2 DEF AdaptersTypeOK
  <2>4. ASSUME NEW r \in Surfaces PROVE (ReadsOnce(r) /\ SkipsNone(r) /\ Rested(r))'
    <3>1. CASE r # s \/ UNCHANGED <<inbound, batch>>
      <4>1. registry' = "stopped" => inbound'[r] = "none"
        <5>1. CASE UNCHANGED <<inbound, batch>> /\ registry' = "broken"
          BY <5>1
        <5>2. CASE /\ inbound' = [inbound EXCEPT ![s] = "none"]
                   /\ registry' = "stopped" => \A q \in Surfaces \ {s} : inbound[q] = "none"
          BY <1>t, <1>i, <5>2
        <5>. QED BY <2>1, <5>1, <5>2
      <4>. QED BY <2>1, <2>2, <3>1, <4>1, Elsewhere
    <3>2. CASE r = s /\ inbound'[s] = "none" /\ batch'[s] = <<>>
      BY <2>1, <3>2, BatchFacts DEF ReadsOnce, SkipsNone, Rested
    <3>. QED BY <2>2, <3>1, <3>2
  <2>. QED BY <2>3, <2>4 DEF AdaptersInv
<1>5. ASSUME NEW s \in Surfaces, PollHistory(s) PROVE AdaptersInv'
  <2>1. PICK n \in 0..Len(Newest(s)) :
          LET read == SubSeq(Newest(s), 1, n) IN
            /\ batch' = [batch EXCEPT ![s] = read]
            /\ \E top \in Tops(s, read) : seenUpTo' = [seenUpTo EXCEPT ![s] = Watermark(s, top)]
            /\ excused' = [excused EXCEPT ![s] = @ \/ n < Unread(s)]
    BY <1>5 DEF PollHistory
  <2>. DEFINE read == SubSeq(Newest(s), 1, n)
  <2>2. /\ UNCHANGED <<posted, forgotten, inbound, registry, starts, everHanded, handed>>
        /\ s \in Sessions /\ inbound[s] = "runs" /\ batch[s] = <<>> /\ Unread(s) > 0
    BY <1>5 DEF PollHistory, Polls
  <2>3. /\ read \in Seq(Posts) /\ IsInjective(read)
        /\ \A m \in ToSet(read) : seenUpTo[s] < m /\ m <= posted[s]
        /\ n >= Unread(s) => \A m \in (seenUpTo[s] + 1)..posted[s] : m \in ToSet(read)
        /\ \A top \in Tops(s, read) :
             Watermark(s, top) \in {seenUpTo[s], posted[s]} /\ (n # 0 => Watermark(s, top) = posted[s])
        /\ seenUpTo[s] <= posted[s]
    BY <2>2, PageFacts DEF ReadsOnce
  <2>w. PICK w \in {seenUpTo[s], posted[s]} : (n # 0 => w = posted[s]) /\ seenUpTo' = [seenUpTo EXCEPT ![s] = w]
    BY <2>1, <2>3
  <2>4. /\ batch' = [batch EXCEPT ![s] = read] /\ seenUpTo' = [seenUpTo EXCEPT ![s] = w]
        /\ excused' = [excused EXCEPT ![s] = @ \/ n < Unread(s)]
    BY <2>1, <2>w
  <2>5. n \in Nat /\ Unread(s) \in Nat /\ (n = 0 => ToSet(read) = {})
    <3>1. n \in Nat /\ Unread(s) \in Nat
      BY <1>t, <1>i, <2>3 DEF Unread
    <3>2. ASSUME n = 0 PROVE ToSet(read) = {}
      <4>1. read = <<>>
        BY <3>2, SubSeqEmpty
      <4>. QED BY <4>1, BatchFacts
    <3>. QED BY <3>1, <3>2
  <2>. HIDE DEF read
  <2>6. /\ batch' \in [Surfaces -> Seq(Posts)] /\ seenUpTo' \in [Surfaces -> 0..LastPost]
        /\ excused' \in [Surfaces -> BOOLEAN] /\ batch'[s] = read /\ seenUpTo'[s] = w
        /\ (~excused'[s] => ~excused[s] /\ n >= Unread(s))
        /\ \A r \in Surfaces \ {s} : batch'[r] = batch[r] /\ seenUpTo'[r] = seenUpTo[r] /\ excused'[r] = excused[r]
    <3>1. batch' \in [Surfaces -> Seq(Posts)] /\ batch'[s] = read
          /\ \A r \in Surfaces \ {s} : batch'[r] = batch[r]
      BY <1>b, <2>3, <2>4
    <3>2. w \in 0..LastPost
      BY <1>t, <2>w
    <3>3. seenUpTo' \in [Surfaces -> 0..LastPost] /\ seenUpTo'[s] = w
          /\ \A r \in Surfaces \ {s} : seenUpTo'[r] = seenUpTo[r]
      BY <1>t, <2>4, <3>2
    <3>4. /\ excused' \in [Surfaces -> BOOLEAN] /\ (~excused'[s] => ~excused[s] /\ ~(n < Unread(s)))
          /\ \A r \in Surfaces \ {s} : excused'[r] = excused[r]
      BY <1>i, <2>4
    <3>. QED BY <2>5, <3>1, <3>3, <3>4
  <2>7. AdaptersTypeOK'
    BY <1>t, <1>i, <2>2, <2>6 DEF AdaptersTypeOK
  <2>8. ReadsOnce(s)'
    <3>1. seenUpTo'[s] <= posted'[s] /\ forgotten'[s] <= posted'[s]
      BY <1>t, <1>i, <2>2, <2>3, <2>6, <2>w DEF ReadsOnce
    <3>2. \A m \in handed[s] : m \in Nat /\ m <= seenUpTo[s]
      BY <1>t, <1>i DEF ReadsOnce, Posts
    <3>3. \A m \in ToSet(read) : m \notin handed[s] /\ m <= seenUpTo'[s]
      <4>1. ASSUME NEW m \in ToSet(read) PROVE m \notin handed[s] /\ m <= seenUpTo'[s]
        <5>1. n # 0 /\ seenUpTo'[s] = posted[s] /\ seenUpTo[s] < m /\ m <= posted[s] /\ seenUpTo[s] \in Nat
          BY <1>t, <1>i, <2>3, <2>5, <2>6, <2>w
        <5>. QED BY <3>2, <5>1
      <4>. QED BY <4>1
    <3>4. \A m \in handed[s] : m <= seenUpTo'[s]
      BY <1>t, <1>i, <2>3, <2>6, <2>w, <3>2
    <3>. QED BY <2>2, <2>3, <2>6, <3>1, <3>3, <3>4 DEF ReadsOnce
  <2>9. SkipsNone(s)'
    <3>1. ASSUME ~excused'[s], NEW m \in 1..seenUpTo'[s] PROVE m \in everHanded[s] \cup ToSet(read)
      <4>1. \A k \in 1..seenUpTo[s] : k \in everHanded[s] \cup ToSet(batch[s])
        BY <2>2, <2>6, <3>1 DEF SkipsNone
      <4>2. ToSet(batch[s]) = {}
        BY <2>2, BatchFacts
      <4>3. m \in 1..seenUpTo[s] \/ m \in (seenUpTo[s] + 1)..posted[s]
        BY <1>t, <1>i, <2>3, <2>6, <2>w, <3>1
      <4>. QED BY <2>3, <2>6, <3>1, <4>1, <4>2, <4>3
    <3>. QED BY <2>2, <2>6, <3>1 DEF SkipsNone
  <2>10. Rested(s)'
    BY <2>2 DEF Rested
  <2>11. ASSUME NEW r \in Surfaces \ {s} PROVE (ReadsOnce(r) /\ SkipsNone(r) /\ Rested(r))'
    <3>1. registry' = "stopped" => inbound'[r] = "none"
      BY <2>2 DEF Rested
    <3>. QED BY <2>2, <2>6, <3>1, Elsewhere
  <2>. QED BY <2>7, <2>8, <2>9, <2>10, <2>11 DEF AdaptersInv
<1>6. ASSUME NEW s \in Surfaces, PollUpdates(s) PROVE AdaptersInv'
  <2>. DEFINE first == IF seenUpTo[s] = 0 THEN forgotten[s] ELSE seenUpTo[s]
              read  == [i \in 1..(posted[s] - first) |-> first + i]
  <2>1. /\ batch' = [batch EXCEPT ![s] = read] /\ forgotten' = [forgotten EXCEPT ![s] = first]
        /\ seenUpTo' = [seenUpTo EXCEPT ![s] = posted[s]]
    BY <1>6 DEF PollUpdates
  <2>2. /\ UNCHANGED <<posted, inbound, registry, starts, everHanded, handed, excused>>
        /\ s \notin Sessions /\ inbound[s] = "runs" /\ batch[s] = <<>>
    BY <1>6 DEF PollUpdates, Polls
  <2>3. first \in Nat /\ posted[s] \in Nat /\ first <= posted[s] /\ posted[s] <= LastPost
        /\ seenUpTo[s] <= first /\ seenUpTo[s] \in Nat /\ seenUpTo[s] <= posted[s]
        /\ first \in {seenUpTo[s], forgotten[s]} /\ (first # seenUpTo[s] => first = forgotten[s])
    BY <1>t, <1>i DEF ReadsOnce
  <2>. HIDE DEF first
  <2>4. read \in Seq(Posts) /\ Len(read) = posted[s] - first /\ \A i \in 1..Len(read) : read[i] = first + i
    <3>1. \A i \in 1..(posted[s] - first) : first + i \in Posts
      BY <1>t, <1>i, <2>3 DEF Posts
    <3>2. posted[s] - first \in Nat
      BY <2>3
    <3>. QED BY <3>1, <3>2
  <2>. HIDE DEF read
  <2>5. \A m : m \in ToSet(read) <=> m \in (first + 1)..posted[s]
    <3>1. ASSUME NEW m \in ToSet(read) PROVE m \in (first + 1)..posted[s]
      <4>1. PICK i \in 1..Len(read) : read[i] = m
        BY <2>4, BatchFacts
      <4>. QED BY <2>3, <2>4, <4>1
    <3>2. ASSUME NEW m \in (first + 1)..posted[s] PROVE m \in ToSet(read)
      <4>1. m - first \in 1..Len(read) /\ read[m - first] = m
        BY <2>3, <2>4
      <4>. QED BY <2>4, <4>1, BatchFacts
    <3>. QED BY <3>1, <3>2
  <2>6. IsInjective(read)
    <3>1. ASSUME NEW i \in 1..Len(read), NEW j \in 1..Len(read), read[i] = read[j] PROVE i = j
      BY <2>3, <2>4, <3>1
    <3>. QED BY <2>4, <3>1, BatchFacts
  <2>7. /\ batch' \in [Surfaces -> Seq(Posts)] /\ seenUpTo' \in [Surfaces -> 0..LastPost]
        /\ forgotten' \in [Surfaces -> 0..LastPost]
        /\ batch'[s] = read /\ seenUpTo'[s] = posted[s] /\ forgotten'[s] = first
        /\ \A r \in Surfaces \ {s} :
             batch'[r] = batch[r] /\ seenUpTo'[r] = seenUpTo[r] /\ forgotten'[r] = forgotten[r]
    BY <1>t, <1>i, <1>b, <2>1, <2>3, <2>4
  <2>8. AdaptersTypeOK'
    BY <1>t, <1>i, <2>2, <2>7 DEF AdaptersTypeOK
  <2>9. ReadsOnce(s)'
    <3>1. \A m \in handed[s] : m \in Nat /\ m <= seenUpTo[s]
      BY <1>t, <1>i DEF ReadsOnce, Posts
    <3>2. \A m \in ToSet(read) : m \notin handed[s] /\ m <= posted[s]
      BY <2>3, <2>5, <3>1
    <3>3. \A m \in handed[s] : m <= posted[s]
      BY <2>3, <3>1
    <3>. QED BY <2>2, <2>3, <2>6, <2>7, <3>2, <3>3 DEF ReadsOnce
  <2>10. SkipsNone(s)'
    <3>1. ASSUME ~excused[s], NEW m \in 1..first PROVE m \in everHanded[s]
      <4>1. ToSet(batch[s]) = {}
        BY <2>2, BatchFacts
      <4>2. CASE first = seenUpTo[s]
        BY <2>2, <3>1, <4>1, <4>2 DEF SkipsNone
      <4>3. CASE first = forgotten[s]
        BY <2>2, <3>1, <4>3 DEF SkipsNone
      <4>. QED BY <2>3, <4>2, <4>3
    <3>2. \A m \in 1..posted[s] : m \in 1..first \/ m \in ToSet(read)
      BY <2>3, <2>5
    <3>. QED BY <2>2, <2>7, <3>1, <3>2 DEF SkipsNone
  <2>11. Rested(s)'
    BY <2>2 DEF Rested
  <2>12. ASSUME NEW r \in Surfaces \ {s} PROVE (ReadsOnce(r) /\ SkipsNone(r) /\ Rested(r))'
    <3>1. registry' = "stopped" => inbound'[r] = "none"
      BY <2>2 DEF Rested
    <3>. QED BY <2>2, <2>7, <3>1, Elsewhere
  <2>. QED BY <2>8, <2>9, <2>10, <2>11, <2>12 DEF AdaptersInv
<1>7. ASSUME NEW s \in Surfaces, HandOn(s) PROVE AdaptersInv'
  <2>1. /\ batch' = [batch EXCEPT ![s] = Tail(@)] /\ handed' = [handed EXCEPT ![s] = @ \cup {Head(batch[s])}]
        /\ inbound[s] = "runs" /\ batch[s] # <<>>
        /\ \/ everHanded' = [everHanded EXCEPT ![s] = @ \cup {Head(batch[s])}] /\ UNCHANGED excused
           \/ excused' = [excused EXCEPT ![s] = TRUE] /\ UNCHANGED everHanded
        /\ UNCHANGED <<posted, forgotten, seenUpTo, inbound, registry, starts>>
    BY <1>7 DEF HandOn
  <2>. DEFINE first == Head(batch[s])
              rest  == Tail(batch[s])
  <2>2. /\ first \in Posts /\ rest \in Seq(Posts) /\ first \in ToSet(batch[s])
        /\ ToSet(batch[s]) = ToSet(rest) \cup {first} /\ IsInjective(rest) /\ first \notin ToSet(rest)
    BY <1>t, <1>i, <1>b, <2>1, HandingOn DEF ReadsOnce
  <2>3. /\ batch' = [batch EXCEPT ![s] = rest] /\ handed' = [handed EXCEPT ![s] = @ \cup {first}]
        /\ \/ everHanded' = [everHanded EXCEPT ![s] = @ \cup {first}] /\ UNCHANGED excused
           \/ excused' = [excused EXCEPT ![s] = TRUE] /\ UNCHANGED everHanded
    BY <2>1
  <2>. HIDE DEF first, rest
  <2>4. /\ batch' \in [Surfaces -> Seq(Posts)] /\ handed' \in [Surfaces -> SUBSET Posts]
        /\ batch'[s] = rest /\ handed'[s] = handed[s] \cup {first}
        /\ \A r \in Surfaces \ {s} : batch'[r] = batch[r] /\ handed'[r] = handed[r]
    BY <1>t, <1>i, <1>b, <2>2, <2>3
  <2>5. /\ everHanded' \in [Surfaces -> SUBSET Posts] /\ excused' \in [Surfaces -> BOOLEAN]
        /\ everHanded[s] \subseteq everHanded'[s]
        /\ (~excused'[s] => ~excused[s] /\ first \in everHanded'[s])
        /\ \A r \in Surfaces \ {s} : everHanded'[r] = everHanded[r] /\ excused'[r] = excused[r]
    <3>1. CASE everHanded' = [everHanded EXCEPT ![s] = @ \cup {first}] /\ UNCHANGED excused
      BY <1>t, <1>i, <2>2, <3>1
    <3>2. CASE excused' = [excused EXCEPT ![s] = TRUE] /\ UNCHANGED everHanded
      BY <1>t, <1>i, <3>2
    <3>. QED BY <2>3, <3>1, <3>2
  <2>6. AdaptersTypeOK'
    BY <1>t, <1>i, <2>1, <2>4, <2>5 DEF AdaptersTypeOK
  <2>7. ReadsOnce(s)'
    <3>1. ToSet(rest) \cap (handed[s] \cup {first}) = {}
      BY <2>2 DEF ReadsOnce
    <3>2. \A m \in ToSet(rest) \cup (handed[s] \cup {first}) : m <= seenUpTo[s]
      BY <2>2 DEF ReadsOnce
    <3>. QED BY <2>1, <2>2, <2>4, <3>1, <3>2 DEF ReadsOnce
  <2>8. SkipsNone(s)'
    <3>1. ASSUME ~excused'[s], NEW m \in 1..seenUpTo[s] PROVE m \in everHanded'[s] \cup ToSet(rest)
      BY <2>1, <2>2, <2>5, <3>1 DEF SkipsNone
    <3>2. ASSUME ~excused'[s], s \notin Sessions, NEW m \in 1..forgotten[s] PROVE m \in everHanded'[s]
      BY <2>5, <3>2 DEF SkipsNone
    <3>. QED BY <2>1, <2>4, <3>1, <3>2 DEF SkipsNone
  <2>9. Rested(s)'
    BY <2>1 DEF Rested
  <2>10. ASSUME NEW r \in Surfaces \ {s} PROVE (ReadsOnce(r) /\ SkipsNone(r) /\ Rested(r))'
    <3>1. registry' = "stopped" => inbound'[r] = "none"
      BY <2>1 DEF Rested
    <3>. QED BY <2>1, <2>4, <2>5, <3>1, Elsewhere
  <2>. QED BY <2>6, <2>7, <2>8, <2>9, <2>10 DEF AdaptersInv
<1>8. ASSUME NEW s \in Surfaces, Unnormalised(s) PROVE AdaptersInv'
  <2>1. /\ inbound' = [inbound EXCEPT ![s] = "ended"] /\ batch' = [batch EXCEPT ![s] = <<>>]
        /\ excused' = [excused EXCEPT ![s] = TRUE] /\ inbound[s] = "runs"
        /\ UNCHANGED <<posted, forgotten, seenUpTo, registry, starts, everHanded, handed>>
    BY <1>8 DEF Unnormalised
  <2>2. /\ inbound' \in [Surfaces -> {"none", "runs", "ended"}] /\ batch' \in [Surfaces -> Seq(Posts)]
        /\ excused' \in [Surfaces -> BOOLEAN] /\ inbound'[s] = "ended" /\ batch'[s] = <<>> /\ excused'[s]
        /\ \A r \in Surfaces \ {s} :
             inbound'[r] = inbound[r] /\ batch'[r] = batch[r] /\ excused'[r] = excused[r]
    BY <1>t, <1>i, <1>b, <2>1, BatchFacts
  <2>3. AdaptersTypeOK'
    BY <1>t, <1>i, <2>1, <2>2 DEF AdaptersTypeOK
  <2>4. registry # "stopped"
    BY <2>1 DEF Rested
  <2>5. (ReadsOnce(s) /\ SkipsNone(s) /\ Rested(s))'
    BY <2>1, <2>2, <2>4, BatchFacts DEF ReadsOnce, SkipsNone, Rested
  <2>6. ASSUME NEW r \in Surfaces \ {s} PROVE (ReadsOnce(r) /\ SkipsNone(r) /\ Rested(r))'
    BY <2>1, <2>2, <2>4, Elsewhere
  <2>. QED BY <2>3, <2>5, <2>6 DEF AdaptersInv
<1>9. CASE UNCHANGED adaptersVars
  <2>1. AdaptersTypeOK'
    BY <1>9 DEF adaptersVars, AdaptersTypeOK
  <2>2. ASSUME NEW s \in Surfaces PROVE (ReadsOnce(s) /\ SkipsNone(s) /\ Rested(s))'
    BY <1>9, Elsewhere DEF adaptersVars, Rested
  <2>. QED BY <2>1, <2>2 DEF AdaptersInv
<1>. QED BY <1>1, <1>2, <1>3, <1>4, <1>5, <1>6, <1>7, <1>8, <1>9 DEF AdaptersNext

-------------------------------------------------------------------------------
\* "Only new messages are surfaced on each cycle": a process hands none on twice, and none below
\* its watermark is skipped without an excuse, whichever process handed it on (adapters/
\* telegram.py, registry.py); AdaptersKeep.
THEOREM OnlyNewOnes == AdaptersSpec => [](AdaptersTypeOK /\ AdaptersKeep)
<1>1. AdaptersSpec => []AdaptersInv
  BY AdaptersStart, AdaptersStep, PTL DEF AdaptersSpec
<1>2. AdaptersInv => AdaptersTypeOK /\ AdaptersKeep
  BY DEF AdaptersInv, AdaptersKeep, ReadsOnce, SkipsNone, Rested
<1>. QED BY <1>1, <1>2, PTL

-------------------------------------------------------------------------------
(* The federation gate, for every set of messages, handlers and decisions, *)
(* every clock offset, and windows within the TTL.                         *)

USE DEF Workers, sender, workers, bounds, past, vars, Never

-------------------------------------------------------------------------------
(* Every variable keeps its shape.                                         *)

LEMMA RequestFacts ==
  /\ \A r \in Requests : r[1] \in Msgs
  /\ \A m \in Msgs, n \in 0..MaxAttempts : <<m, n>> \in Requests
  /\ \A r \in Msgs \X {0} : r \in Requests
BY BoundAssumption DEF Requests

\* An answer only settles the attempt its client waits for.
LEMMA AnswerFacts ==
  ASSUME TypeOK, NEW w \in Workers, NEW ok \in BOOLEAN, Answer(w, ok)
  PROVE  /\ phase' = [phase EXCEPT ![w] = "idle"]
         /\ phase' \in [Workers -> {"idle", "check", "nonce", "deliver"}]
         /\ sent' \in [Msgs -> {"new", "due", "waiting", "failed", "relayed", "confirmed", "dead"}]
         /\ \A m \in Msgs : sent'[m] = "new" => sent[m] = "new"
<1>1. job[w][1] \in Msgs
  BY RequestFacts DEF TypeOK
<1> QED BY <1>1 DEF Answer, TypeOK

\* A message that is due has attempts left: with this, TypeOK is inductive.
AttemptsLeft == \A m \in Msgs : /\ sent[m] = "new" => attempt[m] = 0
                                /\ sent[m] = "due" => attempt[m] < MaxAttempts
TypeInv == TypeOK /\ AttemptsLeft

LEMMA TypeInit == Init => TypeInv
<1> SUFFICES ASSUME Init PROVE TypeInv
  OBVIOUS
<1>1. job \in [Workers -> Requests]
  BY RequestFacts DEF Init
<1>2. clock \in 0..MaxTime /\ attempt \in [Msgs -> 0..MaxAttempts] /\ created \in [Msgs -> Int]
  BY BoundAssumption DEF Init
<1>3. /\ checked \in [Workers -> 0..MaxTime] /\ nonce \in [Msgs -> Int]
      /\ timeouts \in 0..MaxTimeouts /\ faults \in 0..MaxFaults /\ crashes \in 0..MaxCrashes
      /\ handled \in [Msgs -> 0..2]
  BY BoundAssumption DEF Init
<1>4. AttemptsLeft
  BY DEF Init, AttemptsLeft
<1> QED BY <1>1, <1>2, <1>3, <1>4 DEF Init, TypeOK, TypeInv

LEMMA TypeStep == TypeInv /\ [Next]_vars => TypeInv'
<1> SUFFICES ASSUME TypeOK, AttemptsLeft, [Next]_vars PROVE TypeOK' /\ AttemptsLeft'
  BY DEF TypeInv
<1>1. ASSUME NEW m \in Msgs, SenderStep(m) PROVE TypeOK' /\ AttemptsLeft'
  <2>1. CASE Send(m)
    <3>1. created' \in [Msgs -> Int]
      <4>1. clock \in Int /\ Offset[m] \in Int
        BY MsgsAssumption DEF TypeOK
      <4>2. clock + Offset[m] \in Int
        BY <4>1
      <4> QED BY <2>1, <4>2 DEF Send, TypeOK
    <3>2. AttemptsLeft'
      BY <2>1, BoundAssumption DEF Send, TypeOK, AttemptsLeft
    <3> QED BY <2>1, <3>1, <3>2 DEF Send, TypeOK
  <2>2. CASE Post(m)
    <3>1. attempt[m] + 1 \in 0..MaxAttempts
      BY <2>2, BoundAssumption DEF Post, TypeOK, AttemptsLeft
    <3>2. attempt' \in [Msgs -> 0..MaxAttempts] /\ posts' \subseteq Requests
      BY <2>2, <3>1, RequestFacts DEF Post, TypeOK
    <3>3. sent' \in [Msgs -> {"new", "due", "waiting", "failed", "relayed", "confirmed", "dead"}]
      BY <2>2 DEF Post, TypeOK
    <3>4. AttemptsLeft'
      BY <2>2 DEF Post, TypeOK, AttemptsLeft
    <3> QED BY <2>2, <3>2, <3>3, <3>4 DEF Post, TypeOK
  <2>3. CASE Timeout(m)
    <3>1. timeouts' \in 0..MaxTimeouts
      BY <2>3, BoundAssumption DEF Timeout, TypeOK
    <3>2. posts' \subseteq Requests
      BY <2>3 DEF Timeout, TypeOK
    <3>3. AttemptsLeft'
      BY <2>3 DEF Timeout, TypeOK, AttemptsLeft
    <3> QED BY <2>3, <3>1, <3>2, <3>3 DEF Timeout, TypeOK
  <2>4. CASE Publish(m)
    <3>1. Current(m) \in Requests
      BY RequestFacts DEF Current, TypeOK
    <3> QED BY <2>4, <3>1 DEF Publish, TypeOK, AttemptsLeft
  <2>5. CASE Requeue(m)
    BY <2>5 DEF Requeue, TypeOK, AttemptsLeft
  <2> QED BY <1>1, <2>1, <2>2, <2>3, <2>4, <2>5 DEF SenderStep
<1>2. ASSUME NEW h \in Handlers, Take(h) PROVE TypeOK' /\ AttemptsLeft'
  BY <1>2 DEF Take, TypeOK, AttemptsLeft
<1>3. ASSUME NEW w \in Workers, WorkerStep(w) PROVE TypeOK' /\ AttemptsLeft'
  <2>1. job[w][1] \in Msgs
    BY RequestFacts DEF TypeOK
  <2>2. ASSUME NEW ok \in BOOLEAN, Answer(w, ok), UNCHANGED attempt
        PROVE  /\ phase' \in [Workers -> {"idle", "check", "nonce", "deliver"}]
               /\ sent' \in [Msgs -> {"new", "due", "waiting", "failed", "relayed", "confirmed", "dead"}]
               /\ AttemptsLeft'
    BY <2>1, <2>2 DEF Answer, TypeOK, AttemptsLeft
  <2>3. Evicted \in [Msgs -> Int]
    BY DEF Evicted, TypeOK
  <2>4. CASE Refuse(w)
    <3>1. faults' \in 0..MaxFaults
      BY <2>4, BoundAssumption DEF Refuse, TypeOK
    <3> QED BY <2>2, <2>4, <3>1 DEF Refuse, TypeOK
  <2>5. CASE PassCheck(w)
    BY <2>5 DEF PassCheck, TypeOK, AttemptsLeft
  <2>6. CASE Accept(w)
    <3>1. clock \in Int
      BY DEF TypeOK
    <3>2. nonce' \in [Msgs -> Int]
      BY <2>1, <2>3, <2>6, <3>1 DEF Accept
    <3> QED BY <2>6, <3>2 DEF Accept, TypeOK, AttemptsLeft
  <2>7. CASE Replay(w)
    BY <2>1, <2>2, <2>3, <2>7 DEF Replay, TypeOK
  <2>8. CASE DeliverFails(w)
    <3>1. faults' \in 0..MaxFaults
      BY <2>8, BoundAssumption DEF DeliverFails, TypeOK
    <3> QED BY <2>2, <2>8, <3>1 DEF DeliverFails, TypeOK
  <2>9. ASSUME NEW d \in Decisions, Deliver(w, d) PROVE TypeOK' /\ AttemptsLeft'
    <3>1. handled' \in [Msgs -> 0..2]
      BY <2>1, <2>9 DEF Deliver, TypeOK
    <3> QED BY <2>2, <2>9, <3>1 DEF Deliver, TypeOK
  <2> QED BY <1>3, <2>4, <2>5, <2>6, <2>7, <2>8, <2>9 DEF WorkerStep
<1>4. CASE Pull
  BY <1>4 DEF Pull, TypeOK, AttemptsLeft
<1>5. CASE Crash
  <2>1. crashes' \in 0..MaxCrashes
    BY <1>5, BoundAssumption DEF Crash, TypeOK
  <2>2. phase' \in [Workers -> {"idle", "check", "nonce", "deliver"}]
    BY <1>5 DEF Crash
  <2> QED BY <1>5, <2>1, <2>2 DEF Crash, TypeOK, AttemptsLeft
<1>6. CASE Restart
  BY <1>6 DEF Restart, TypeOK, AttemptsLeft
<1>7. CASE Tick
  BY <1>7, BoundAssumption DEF Tick, TypeOK, AttemptsLeft
<1>8. CASE UNCHANGED vars
  BY <1>8 DEF TypeOK, AttemptsLeft
<1> QED BY <1>1, <1>2, <1>3, <1>4, <1>5, <1>6, <1>7, <1>8 DEF Next

(* The gate is well typed in every reachable state: among others no        *)
(* message is ever posted more often than its retry budget allows.         *)
THEOREM TypeCorrect == Spec => []TypeOK
<1>1. Spec => []TypeInv
  BY TypeInit, TypeStep, PTL DEF Spec
<1>2. TypeInv => TypeOK
  BY DEF TypeInv
<1> QED BY <1>1, <1>2, PTL

-------------------------------------------------------------------------------
(* At most one write per message.  An accepted nonce is remembered for TTL,*)
(* and after that the message is stale for every worker: created <= seen + *)
(* MaxSkew, so clock > seen + TTL >= created + MaxAge + MaxDelay.          *)

Handling(m) == \E w \in Workers : phase[w] # "idle" /\ job[w][1] = m

\* Nobody has a message that its sender has not signed yet.
NewIsNowhere == \A m \in Msgs : sent[m] = "new" =>
  /\ handled[m] = 0 /\ ~Handling(m)
  /\ \A r \in posts \cup relay : r[1] # m

\* A worker before the nonce check: how old its freshness check may be.
FreshWhenChecked == \A w \in Workers : phase[w] = "nonce" =>
  /\ checked[w] <= clock /\ clock <= checked[w] + MaxDelay
  /\ checked[w] - created[job[w][1]] <= MaxAge
  /\ created[job[w][1]] - checked[w] <= MaxSkew

\* No worker can accept the message any more.
Closed(m) == \/ nonce[m] # Never /\ created[m] <= nonce[m] + MaxSkew
             \/ clock > created[m] + MaxAge + MaxDelay
HandledIsClosed == \A m \in Msgs : Handled(m) \/ Delivering(m) => Closed(m)

\* One worker delivers a message, and only if none did.
DeliversAlone == \A w \in Workers : phase[w] = "deliver" =>
  /\ ~Handled(job[w][1])
  /\ \A v \in Workers : phase[v] = "deliver" /\ job[v][1] = job[w][1] => v = w

OnceInv == /\ NewIsNowhere /\ FreshWhenChecked /\ HandledIsClosed
           /\ DeliversAlone /\ AtMostOnce

LEMMA NumberFacts == TypeOK =>
  /\ clock \in Int /\ \A w \in Workers : checked[w] \in Int /\ job[w][1] \in Msgs
  /\ \A m \in Msgs : created[m] \in Int /\ nonce[m] \in Int
BY RequestFacts DEF TypeOK

\* Time and the eviction of nonces leave a closed message closed.
LEMMA StaysClosed ==
  ASSUME TypeOK, TypeOK', NEW m \in Msgs, Closed(m), created'[m] = created[m],
         \/ nonce'[m] = nonce[m] /\ clock' >= clock
         \/ nonce'[m] = Evicted[m] /\ clock' = clock
  PROVE  Closed(m)'
<1> DEFINE k == nonce[m] c == created[m]
<1>1. clock \in Int /\ clock' \in Int /\ k \in Int /\ c \in Int
  BY DEF TypeOK
<1>2. CASE nonce'[m] = nonce[m] /\ clock' >= clock
  BY <1>1, <1>2, TimeAssumption DEF Closed
<1>3. CASE nonce'[m] = Evicted[m] /\ clock' = clock
  <2>1. Evicted[m] = IF k < clock - TTL THEN -1 ELSE k
    BY DEF Evicted
  <2> HIDE DEF k, c
  <2>2. (k # -1 /\ c <= k + MaxSkew) \/ clock > c + MaxAge + MaxDelay
    BY DEF Closed, k, c
  <2>3. CASE k < clock - TTL
    <3>1. clock > c + MaxAge + MaxDelay
      BY <1>1, <2>2, <2>3, TimeAssumption, NonceAssumption
    <3> QED BY <1>3, <3>1 DEF Closed, c
  <2>4. CASE ~(k < clock - TTL)
    BY <1>3, <2>1, <2>2, <2>4 DEF Closed, k, c
  <2> QED BY <2>3, <2>4
<1> QED BY <1>2, <1>3

\* A worker that may accept a message is the first to have it.
LEMMA AcceptedIsOpen ==
  ASSUME TypeOK, FreshWhenChecked, NEW w \in Workers, phase[w] = "nonce", ~Seen(job[w][1])
  PROVE  ~Closed(job[w][1])
<1> DEFINE k == nonce[job[w][1]] c == created[job[w][1]] t == checked[w]
<1>1. clock \in Int /\ k \in Int /\ c \in Int /\ t \in Int
  BY NumberFacts
<1>2. clock <= t + MaxDelay /\ t - c <= MaxAge
  BY DEF FreshWhenChecked
<1>3. k = -1 \/ k < clock - TTL
  BY NumberFacts DEF Seen, Evicted
<1>4. Closed(job[w][1]) <=> (k # -1 /\ c <= k + MaxSkew) \/ clock > c + MaxAge + MaxDelay
  BY DEF Closed
<1> HIDE DEF k, c, t
<1> QED BY <1>1, <1>2, <1>3, <1>4, TimeAssumption, NonceAssumption

LEMMA OnceInit == Init => OnceInv
<1> SUFFICES ASSUME Init PROVE OnceInv
  OBVIOUS
<1>1. NewIsNowhere /\ FreshWhenChecked /\ DeliversAlone
  BY DEF Init, NewIsNowhere, Handling, FreshWhenChecked, DeliversAlone
<1>2. HandledIsClosed
  BY DEF Init, HandledIsClosed, Handled, Delivering
<1>3. ASSUME NEW m \in Msgs PROVE handled[m] = 0
  BY DEF Init
<1>4. AtMostOnce
  <2> SUFFICES ASSUME NEW m \in Msgs PROVE handled[m] <= 1
    BY DEF AtMostOnce
  <2> QED BY <1>3
<1> QED BY <1>1, <1>2, <1>4 DEF OnceInv

\* A step that moves only the sender, the network or the worker's other
\* variables keeps what the gate relies on.
LEMMA OnceFrame ==
  ASSUME TypeOK, TypeOK', OnceInv, UNCHANGED <<clock, nonce, handled>>,
         \A m \in Msgs : sent[m] # "new" => sent'[m] # "new" /\ created'[m] = created[m],
         \A w \in Workers : phase'[w] \in {"nonce", "deliver"} =>
            phase'[w] = phase[w] /\ job'[w] = job[w] /\ checked'[w] = checked[w]
  PROVE  FreshWhenChecked' /\ HandledIsClosed' /\ DeliversAlone' /\ AtMostOnce'
<1>1. ASSUME NEW w \in Workers, phase[w] # "idle"
      PROVE  job[w][1] \in Msgs /\ sent[job[w][1]] # "new" /\ created'[job[w][1]] = created[job[w][1]]
  BY <1>1, NumberFacts DEF OnceInv, NewIsNowhere, Handling
<1>2. FreshWhenChecked'
  BY <1>1 DEF OnceInv, FreshWhenChecked
<1>3. HandledIsClosed'
  <2> SUFFICES ASSUME NEW m \in Msgs, Handled(m)' \/ Delivering(m)' PROVE Closed(m)'
    BY DEF HandledIsClosed
  <2>1. Handled(m) \/ Delivering(m)
    BY DEF Handled, Delivering
  <2>2. created'[m] = created[m]
    <3>1. CASE Handled(m)
      BY <3>1 DEF OnceInv, NewIsNowhere, Handled
    <3>2. CASE Delivering(m)
      BY <3>2, <1>1 DEF Delivering
    <3> QED BY <2>1, <3>1, <3>2
  <2> QED BY <2>1, <2>2 DEF OnceInv, HandledIsClosed, Closed
<1>4. DeliversAlone'
  BY DEF OnceInv, DeliversAlone, Handled
<1>5. AtMostOnce'
  BY DEF OnceInv, AtMostOnce
<1> QED BY <1>2, <1>3, <1>4, <1>5

LEMMA OnceSender ==
  ASSUME TypeOK, TypeOK', OnceInv, NEW m \in Msgs, SenderStep(m)
  PROVE  OnceInv'
<1>1. \A k \in Msgs : sent[k] # "new" => sent'[k] # "new" /\ created'[k] = created[k]
  <2>1. CASE Send(m)
    BY <2>1 DEF Send, TypeOK
  <2>2. CASE Post(m)
    BY <2>2 DEF Post, TypeOK
  <2>3. CASE Timeout(m)
    BY <2>3 DEF Timeout, TypeOK
  <2>4. CASE Publish(m)
    BY <2>4 DEF Publish, TypeOK
  <2>5. CASE Requeue(m)
    BY <2>5 DEF Requeue, TypeOK
  <2> QED BY <2>1, <2>2, <2>3, <2>4, <2>5 DEF SenderStep
<1>2. UNCHANGED <<clock, nonce, handled, phase, job, checked>>
  BY DEF SenderStep, Send, Post, Timeout, Publish, Requeue
<1>3. FreshWhenChecked' /\ HandledIsClosed' /\ DeliversAlone' /\ AtMostOnce'
  <2>1. \A w \in Workers : phase'[w] \in {"nonce", "deliver"} =>
           phase'[w] = phase[w] /\ job'[w] = job[w] /\ checked'[w] = checked[w]
    BY <1>2
  <2> QED BY <1>1, <1>2, <2>1, OnceFrame
<1>4. \A r \in posts' \cup relay' : r \in posts \cup relay \/ (r[1] = m /\ sent'[m] # "new")
  <2>1. CASE Send(m) \/ Timeout(m) \/ Requeue(m)
    BY <2>1 DEF Send, Timeout, Requeue
  <2>2. CASE Post(m)
    BY <2>2 DEF Post, TypeOK
  <2>3. CASE Publish(m)
    BY <2>3 DEF Publish, Current, TypeOK
  <2> QED BY <2>1, <2>2, <2>3 DEF SenderStep
<1>5. NewIsNowhere'
  <2> SUFFICES ASSUME NEW k \in Msgs, sent'[k] = "new"
               PROVE  /\ handled'[k] = 0 /\ ~Handling(k)'
                      /\ \A r \in posts' \cup relay' : r[1] # k
    BY DEF NewIsNowhere
  <2>1. sent[k] = "new"
    BY <1>1
  <2>2. handled'[k] = 0 /\ ~Handling(k)'
    BY <1>2, <2>1 DEF OnceInv, NewIsNowhere, Handling
  <2>3. \A r \in posts' \cup relay' : r[1] # k
    BY <1>4, <2>1 DEF OnceInv, NewIsNowhere
  <2> QED BY <2>2, <2>3
<1> QED BY <1>3, <1>5 DEF OnceInv

LEMMA OnceWorker ==
  ASSUME TypeOK, TypeOK', OnceInv, NEW w \in Workers, WorkerStep(w)
  PROVE  OnceInv'
<1> DEFINE m == job[w][1]
<1>1. m \in Msgs /\ clock \in Int
  BY NumberFacts
<1>2. /\ \A k \in Msgs : sent'[k] = "new" => sent[k] = "new"
      /\ phase[w] # "idle" /\ \A v \in Workers : v # w => phase'[v] = phase[v]
      /\ UNCHANGED <<clock, job, created, posts, relay>>
  <2>1. CASE Refuse(w)
    BY <2>1, AnswerFacts DEF Refuse, TypeOK
  <2>2. CASE PassCheck(w)
    BY <2>2 DEF PassCheck, TypeOK
  <2>3. CASE Accept(w)
    BY <2>3 DEF Accept, TypeOK
  <2>4. CASE Replay(w)
    BY <2>4, AnswerFacts DEF Replay, TypeOK
  <2>5. CASE DeliverFails(w)
    BY <2>5, AnswerFacts DEF DeliverFails, TypeOK
  <2>6. ASSUME NEW d \in Decisions, Deliver(w, d)
        PROVE  /\ \A k \in Msgs : sent'[k] = "new" => sent[k] = "new"
               /\ phase[w] # "idle" /\ \A v \in Workers : v # w => phase'[v] = phase[v]
               /\ UNCHANGED <<clock, job, created, posts, relay>>
    BY <2>6, AnswerFacts DEF Deliver, TypeOK
  <2> QED BY <2>1, <2>2, <2>3, <2>4, <2>5, <2>6 DEF WorkerStep
<1>3. sent[m] # "new"
  BY <1>1, <1>2 DEF OnceInv, NewIsNowhere, Handling
<1>4. \A k \in Msgs : sent[k] # "new" => sent'[k] # "new" /\ created'[k] = created[k]
  BY <1>2
<1>5. NewIsNowhere' \/ \E k \in Msgs : sent'[k] = "new" /\ handled'[k] # 0
  <2>1. ASSUME NEW k \in Msgs, sent'[k] = "new" PROVE ~Handling(k)' /\ \A r \in posts' \cup relay' : r[1] # k
    <3>1. sent[k] = "new" /\ k # m
      BY <1>2, <1>3, <2>1
    <3> QED BY <1>2, <3>1 DEF OnceInv, NewIsNowhere, Handling
  <2> QED BY <2>1 DEF NewIsNowhere
<1>6. CASE Refuse(w) \/ Replay(w) \/ DeliverFails(w)
  <2>1. phase' = [phase EXCEPT ![w] = "idle"] /\ UNCHANGED <<handled, checked>>
    BY <1>6 DEF Refuse, Replay, DeliverFails, Answer
  <2>2. nonce' = nonce \/ nonce' = Evicted
    BY <1>6 DEF Refuse, Replay, DeliverFails
  <2>3. NewIsNowhere'
    BY <1>2, <1>5, <2>1 DEF OnceInv, NewIsNowhere
  <2>4. FreshWhenChecked' /\ DeliversAlone' /\ AtMostOnce'
    BY <1>2, <2>1 DEF OnceInv, FreshWhenChecked, DeliversAlone, AtMostOnce, Handled, TypeOK
  <2>5. HandledIsClosed'
    <3> SUFFICES ASSUME NEW k \in Msgs, Handled(k)' \/ Delivering(k)' PROVE Closed(k)'
      BY DEF HandledIsClosed
    <3>1. Closed(k)
      BY <1>2, <2>1 DEF OnceInv, HandledIsClosed, Handled, Delivering, TypeOK
    <3> QED BY <1>1, <1>2, <2>2, <3>1, StaysClosed
  <2> QED BY <2>3, <2>4, <2>5 DEF OnceInv
<1>7. CASE PassCheck(w)
  <2>1. /\ phase' = [phase EXCEPT ![w] = "nonce"] /\ checked' = [checked EXCEPT ![w] = clock]
        /\ UNCHANGED <<handled, nonce>> /\ Fresh(m)
    BY <1>7 DEF PassCheck, m
  <2>2. NewIsNowhere'
    BY <1>2, <1>5, <2>1 DEF OnceInv, NewIsNowhere
  <2>3. FreshWhenChecked'
    <3> SUFFICES ASSUME NEW v \in Workers, phase'[v] = "nonce"
                 PROVE  /\ checked'[v] <= clock' /\ clock' <= checked'[v] + MaxDelay
                        /\ checked'[v] - created'[job'[v][1]] <= MaxAge
                        /\ created'[job'[v][1]] - checked'[v] <= MaxSkew
      BY DEF FreshWhenChecked
    <3>1. CASE v = w
      <4>1. checked'[v] = clock /\ job'[v][1] = m
        BY <1>2, <2>1, <3>1 DEF TypeOK, m
      <4> QED BY <1>1, <1>2, <2>1, <4>1, TimeAssumption DEF Fresh
    <3>2. CASE v # w
      BY <1>2, <2>1, <3>2 DEF OnceInv, FreshWhenChecked, TypeOK
    <3> QED BY <3>1, <3>2
  <2>4. HandledIsClosed' /\ DeliversAlone' /\ AtMostOnce'
    BY <1>2, <2>1 DEF OnceInv, HandledIsClosed, Handled, Delivering, Closed, DeliversAlone, AtMostOnce, TypeOK
  <2> QED BY <2>2, <2>3, <2>4 DEF OnceInv
<1>8. CASE Accept(w)
  <2>1. /\ phase[w] = "nonce" /\ phase' = [phase EXCEPT ![w] = "deliver"]
        /\ nonce' = [Evicted EXCEPT ![m] = clock] /\ UNCHANGED <<handled, checked>>
    BY <1>8 DEF Accept, m
  <2>2. ~Handled(m) /\ ~Delivering(m)
    BY <1>1, <1>8, AcceptedIsOpen DEF Accept, OnceInv, HandledIsClosed, m
  <2>3. NewIsNowhere'
    BY <1>2, <1>5, <2>1 DEF OnceInv, NewIsNowhere
  <2>4. FreshWhenChecked' /\ AtMostOnce'
    BY <1>2, <2>1 DEF OnceInv, FreshWhenChecked, AtMostOnce, TypeOK
  <2>5. DeliversAlone'
    BY <1>2, <2>1, <2>2 DEF OnceInv, DeliversAlone, Handled, Delivering, TypeOK, m
  <2>6. HandledIsClosed'
    <3> SUFFICES ASSUME NEW k \in Msgs, Handled(k)' \/ Delivering(k)' PROVE Closed(k)'
      BY DEF HandledIsClosed
    <3>1. CASE k = m
      <4>1. nonce'[m] = clock /\ clock # Never
        BY <1>1, <2>1 DEF Evicted, TypeOK
      <4>2. created[m] <= clock + MaxSkew
        <5> DEFINE c == created[m] t == checked[w]
        <5>1. c - t <= MaxSkew /\ t <= clock
          BY <2>1 DEF OnceInv, FreshWhenChecked, m
        <5>2. c \in Int /\ t \in Int
          BY <1>1, NumberFacts
        <5> HIDE DEF c, t
        <5>3. c <= clock + MaxSkew
          BY <1>1, <5>1, <5>2, TimeAssumption
        <5> QED BY <5>3 DEF c
      <4> QED BY <1>2, <3>1, <4>1, <4>2 DEF Closed
    <3>2. CASE k # m
      <4>1. Closed(k)
        BY <1>2, <2>1, <3>2 DEF OnceInv, HandledIsClosed, Handled, Delivering, TypeOK, m
      <4>2. nonce'[k] = Evicted[k]
        BY <2>1, <3>2 DEF Evicted
      <4> QED BY <1>2, <4>1, <4>2, StaysClosed
    <3> QED BY <3>1, <3>2
  <2> QED BY <2>3, <2>4, <2>5, <2>6 DEF OnceInv
<1>9. ASSUME NEW d \in Decisions, Deliver(w, d) PROVE OnceInv'
  <2>1. /\ phase[w] = "deliver" /\ phase' = [phase EXCEPT ![w] = "idle"]
        /\ handled' = [handled EXCEPT ![m] = IF d # "defer" /\ @ < 2 THEN @ + 1 ELSE @]
        /\ UNCHANGED <<nonce, checked>>
    BY <1>9 DEF Deliver, Answer, m
  <2>2. /\ handled[m] = 0
        /\ \A v \in Workers : v # w /\ phase[v] = "deliver" => job[v][1] # m
    <3>1. ~Handled(m) /\ \A v \in Workers : v # w /\ phase[v] = "deliver" => job[v][1] # m
      BY <2>1 DEF OnceInv, DeliversAlone, m
    <3>2. handled[m] \in 0..2
      BY <1>1 DEF TypeOK
    <3> QED BY <3>1, <3>2 DEF Handled
  <2>3. \A k \in Msgs : k # m => handled'[k] = handled[k]
    BY <2>1 DEF TypeOK
  <2>4. handled'[m] = (IF d # "defer" THEN 1 ELSE 0)
    BY <1>1, <2>1, <2>2 DEF TypeOK
  <2>5. NewIsNowhere'
    <3>1. \A k \in Msgs : sent'[k] = "new" => handled'[k] = 0
      BY <1>2, <1>3, <2>3 DEF OnceInv, NewIsNowhere
    <3> QED BY <1>5, <3>1
  <2>6. FreshWhenChecked'
    BY <1>2, <2>1 DEF OnceInv, FreshWhenChecked, TypeOK
  <2>7. DeliversAlone'
    BY <1>2, <2>1, <2>2, <2>3, NumberFacts DEF OnceInv, DeliversAlone, Handled, TypeOK
  <2>8. AtMostOnce'
    <3> SUFFICES ASSUME NEW k \in Msgs PROVE handled'[k] <= 1
      BY DEF AtMostOnce
    <3> QED BY <2>3, <2>4 DEF OnceInv, AtMostOnce
  <2>9. HandledIsClosed'
    <3> SUFFICES ASSUME NEW k \in Msgs, Handled(k)' \/ Delivering(k)' PROVE Closed(k)'
      BY DEF HandledIsClosed
    <3>1. Handled(k) \/ Delivering(k)
      <4>1. CASE k = m
        BY <2>1, <4>1 DEF Delivering, m
      <4>2. CASE k # m
        BY <1>2, <2>1, <2>3, <4>2 DEF Handled, Delivering, TypeOK
      <4> QED BY <4>1, <4>2
    <3> QED BY <1>2, <2>1, <3>1 DEF OnceInv, HandledIsClosed, Closed
  <2> QED BY <2>5, <2>6, <2>7, <2>8, <2>9 DEF OnceInv
<1> QED BY <1>6, <1>7, <1>8, <1>9 DEF WorkerStep

LEMMA OnceStep == TypeOK /\ TypeOK' /\ OnceInv /\ [Next]_vars => OnceInv'
<1> SUFFICES ASSUME TypeOK, TypeOK', OnceInv, [Next]_vars PROVE OnceInv'
  OBVIOUS
<1>1. ASSUME NEW m \in Msgs, SenderStep(m) PROVE OnceInv'
  BY <1>1, OnceSender
<1>2. ASSUME NEW w \in Workers, WorkerStep(w) PROVE OnceInv'
  BY <1>2, OnceWorker
<1>3. ASSUME NEW w \in Workers, NEW r \in posts \cup relay,
             phase' = [phase EXCEPT ![w] = "check"], job' = [job EXCEPT ![w] = r],
             posts' \subseteq posts, phase[w] = "idle",
             UNCHANGED <<clock, sender, relay, checked, nonce, past>>
      PROVE  OnceInv'
  <2>1. r[1] \in Msgs /\ sent[r[1]] # "new"
    BY RequestFacts DEF OnceInv, NewIsNowhere, TypeOK
  <2>2. \A v \in Workers : phase'[v] \in {"nonce", "deliver"} =>
           phase'[v] = phase[v] /\ job'[v] = job[v] /\ checked'[v] = checked[v]
    BY <1>3 DEF TypeOK
  <2>3. FreshWhenChecked' /\ HandledIsClosed' /\ DeliversAlone' /\ AtMostOnce'
    BY <1>3, <2>2, OnceFrame
  <2>4. NewIsNowhere'
    <3> SUFFICES ASSUME NEW k \in Msgs, sent'[k] = "new"
                 PROVE  /\ handled'[k] = 0 /\ ~Handling(k)'
                        /\ \A q \in posts' \cup relay' : q[1] # k
      BY DEF NewIsNowhere
    <3>1. k # r[1] /\ handled[k] = 0 /\ ~Handling(k) /\ \A q \in posts \cup relay : q[1] # k
      BY <1>3, <2>1 DEF OnceInv, NewIsNowhere
    <3>2. ~Handling(k)'
      BY <1>3, <3>1 DEF Handling, TypeOK
    <3> QED BY <1>3, <3>1, <3>2
  <2> QED BY <2>3, <2>4 DEF OnceInv
<1>4. ASSUME NEW h \in Handlers, Take(h) PROVE OnceInv'
  <2> PICK r \in posts : posts' = posts \ {r} /\ job' = [job EXCEPT ![h] = r]
    BY <1>4 DEF Take
  <2> QED BY <1>3, <1>4 DEF Take
<1>5. CASE Pull
  <2> PICK r \in relay \ pulled : job' = [job EXCEPT ![Puller] = r]
    BY <1>5 DEF Pull
  <2> QED BY <1>3, <1>5 DEF Pull
<1>6. CASE Crash \/ Restart \/ UNCHANGED vars
  <2>1. /\ UNCHANGED <<clock, nonce, handled, sent, created, relay, job, checked>>
        /\ posts' \subseteq posts
        /\ \A v \in Workers : phase'[v] # "idle" => phase'[v] = phase[v]
    BY <1>6 DEF Crash, Restart, TypeOK
  <2>2. \A m \in Msgs : sent[m] # "new" => sent'[m] # "new" /\ created'[m] = created[m]
    BY <2>1
  <2>3. \A v \in Workers : phase'[v] \in {"nonce", "deliver"} =>
           phase'[v] = phase[v] /\ job'[v] = job[v] /\ checked'[v] = checked[v]
    BY <2>1
  <2>4. FreshWhenChecked' /\ HandledIsClosed' /\ DeliversAlone' /\ AtMostOnce'
    BY <2>1, <2>2, <2>3, OnceFrame
  <2>5. NewIsNowhere'
    BY <2>1 DEF OnceInv, NewIsNowhere, Handling
  <2> QED BY <2>4, <2>5 DEF OnceInv
<1>7. CASE Tick
  <2>1. /\ clock' = clock + 1 /\ UNCHANGED <<sender, posts, relay, workers, nonce, past>>
        /\ \A w \in Workers : phase[w] = "nonce" => clock - checked[w] < MaxDelay
    BY <1>7 DEF Tick
  <2>2. NewIsNowhere' /\ DeliversAlone' /\ AtMostOnce'
    BY <2>1 DEF OnceInv, NewIsNowhere, Handling, DeliversAlone, Handled, AtMostOnce
  <2>3. FreshWhenChecked'
    <3> SUFFICES ASSUME NEW w \in Workers, phase[w] = "nonce"
                 PROVE  /\ checked[w] <= clock + 1 /\ clock + 1 <= checked[w] + MaxDelay
                        /\ checked[w] - created[job[w][1]] <= MaxAge
                        /\ created[job[w][1]] - checked[w] <= MaxSkew
      BY <2>1 DEF FreshWhenChecked
    <3>1. clock \in Int /\ checked[w] \in Int
      BY NumberFacts
    <3>2. checked[w] <= clock /\ clock - checked[w] < MaxDelay
      BY <2>1 DEF OnceInv, FreshWhenChecked
    <3>3. checked[w] <= clock + 1 /\ clock + 1 <= checked[w] + MaxDelay
      BY <3>1, <3>2, TimeAssumption
    <3> QED BY <3>3 DEF OnceInv, FreshWhenChecked
  <2>4. HandledIsClosed'
    <3> SUFFICES ASSUME NEW m \in Msgs, Handled(m)' \/ Delivering(m)' PROVE Closed(m)'
      BY DEF HandledIsClosed
    <3>1. Closed(m)
      BY <2>1 DEF OnceInv, HandledIsClosed, Handled, Delivering
    <3>2. clock' >= clock
      BY <2>1, NumberFacts
    <3> QED BY <2>1, <3>1, <3>2, StaysClosed
  <2> QED BY <2>2, <2>3, <2>4 DEF OnceInv
<1> QED BY <1>1, <1>2, <1>4, <1>5, <1>6, <1>7 DEF Next

(* AtMostOnce: whatever the sender, the relay and the clocks do, a message *)
(* reaches the inbox or the request queue at most once, because a nonce is *)
(* remembered for as long as any worker may still find its message fresh.  *)
THEOREM NeverTwice == Spec => []AtMostOnce
<1>1. Spec => [](TypeInv /\ OnceInv)
  <2>1. Init => TypeInv /\ OnceInv
    BY TypeInit, OnceInit
  <2>2. (TypeInv /\ OnceInv) /\ [Next]_vars => (TypeInv /\ OnceInv)'
    BY TypeStep, OnceStep DEF TypeInv
  <2> QED BY <2>1, <2>2, PTL DEF Spec
<1>2. OnceInv => AtMostOnce
  BY DEF OnceInv
<1> QED BY <1>1, <1>2, PTL

-------------------------------------------------------------------------------
(* What the sender may forget, and what is rejected as a replay, has been  *)
(* handled, or is being handled.  A gate that defers a message answers     *)
(* "ok" without having handled it, so both need one that never does.       *)

\* While nothing failed, the nonce of a message stands for the message.
NonceIsKept == faults = 0 /\ crashes = 0 =>
  \A m \in Msgs : nonce[m] # Never \/ m \in replayed => Handled(m) \/ Delivering(m)

HeldInv == ConfirmedIsHeld /\ NonceIsKept

\* A step that confirms nothing, takes no nonce and ends no delivery.
LEMMA HeldFrame ==
  ASSUME HeldInv, handled' = handled, replayed' = replayed, faults' = faults, crashes' = crashes,
         \A m \in Msgs : /\ sent'[m] = "confirmed" => sent[m] = "confirmed"
                         /\ nonce'[m] \in {nonce[m], Never}
                         /\ Delivering(m) => Delivering(m)'
  PROVE  HeldInv'
<1>1. ConfirmedIsHeld'
  BY DEF HeldInv, ConfirmedIsHeld, Handled, Delivering
<1>2. NonceIsKept'
  BY DEF HeldInv, NonceIsKept, Handled, Delivering
<1>. QED BY <1>1, <1>2 DEF HeldInv

LEMMA HeldWorker ==
  ASSUME "defer" \notin Decisions, TypeOK, HeldInv, NEW w \in Workers, WorkerStep(w)
  PROVE  HeldInv'
<1>. DEFINE m == job[w][1]
<1>1. m \in Msgs /\ Evicted \in [Msgs -> Int] /\ \A k \in Msgs : Evicted[k] \in {nonce[k], Never}
  BY RequestFacts DEF TypeOK, Evicted
<1>2. ASSUME phase[w] # "idle", \E step \in STRING : phase' = [phase EXCEPT ![w] = step], UNCHANGED job
      PROVE  /\ phase[w] # "deliver" => \A k \in Msgs : Delivering(k) => Delivering(k)'
             /\ \A k \in Msgs : k # m /\ Delivering(k) => Delivering(k)'
  <2>1. \A v \in Workers : v # w => phase'[v] = phase[v] /\ job'[v] = job[v]
    BY <1>2 DEF TypeOK
  <2>. QED BY <2>1 DEF Delivering
<1>4. CASE Refuse(w)
  <2>1. faults' = faults \/ ~(faults' = 0)
    BY <1>4 DEF Refuse, TypeOK
  <2>2. ConfirmedIsHeld'
    BY <1>1, <1>4 DEF Refuse, Answer, HeldInv, ConfirmedIsHeld, Handled, TypeOK
  <2>3. \A k \in Msgs : Delivering(k) => Delivering(k)'
    BY <1>2, <1>4 DEF Refuse, Answer, Delivering
  <2>4. NonceIsKept'
    BY <1>4, <2>1, <2>3 DEF Refuse, HeldInv, NonceIsKept, Handled
  <2>. QED BY <2>2, <2>4 DEF HeldInv
<1>5. CASE PassCheck(w)
  <2>1. \A k \in Msgs : Delivering(k) => Delivering(k)'
    BY <1>2, <1>5 DEF PassCheck, Delivering
  <2>. QED BY <1>5, <2>1, HeldFrame DEF PassCheck
<1>6. CASE Accept(w)
  <2>1. phase' = [phase EXCEPT ![w] = "deliver"] /\ UNCHANGED job /\ phase[w] = "nonce"
    BY <1>6 DEF Accept
  <2>2. /\ Delivering(m)'
        /\ \A k \in Msgs : Delivering(k) => Delivering(k)'
    <3>1. Delivering(m)'
      BY <2>1 DEF Delivering, TypeOK
    <3>. QED BY <1>2, <2>1, <3>1 DEF Delivering
  <2>3. \A k \in Msgs : k # m => nonce'[k] \in {nonce[k], Never}
    BY <1>1, <1>6 DEF Accept
  <2>4. ConfirmedIsHeld'
    BY <1>6 DEF Accept, HeldInv, ConfirmedIsHeld, Handled
  <2>5. NonceIsKept'
    BY <1>6, <2>2, <2>3 DEF Accept, HeldInv, NonceIsKept, Handled
  <2>. QED BY <2>4, <2>5 DEF HeldInv
<1>7. CASE Replay(w)
  <2>1. \A k \in Msgs : Delivering(k) => Delivering(k)'
    BY <1>2, <1>7 DEF Replay, Answer, Delivering
  <2>2. nonce[m] # Never /\ nonce' = Evicted /\ replayed' = replayed \cup {m}
    BY <1>1, <1>7 DEF Replay, Seen
  <2>3. ConfirmedIsHeld'
    BY <1>1, <1>7 DEF Replay, Answer, HeldInv, ConfirmedIsHeld, Handled, TypeOK
  <2>4. NonceIsKept'
    BY <1>1, <1>7, <2>1, <2>2 DEF Replay, HeldInv, NonceIsKept, Handled
  <2>. QED BY <2>3, <2>4 DEF HeldInv
<1>8. CASE DeliverFails(w)
  <2>1. ~(faults' = 0)
    BY <1>8 DEF DeliverFails, TypeOK
  <2>2. ConfirmedIsHeld'
    BY <1>1, <1>8 DEF DeliverFails, Answer, HeldInv, ConfirmedIsHeld, Handled, TypeOK
  <2>. QED BY <2>1, <2>2 DEF HeldInv, NonceIsKept
<1>9. ASSUME NEW d \in Decisions, Deliver(w, d) PROVE HeldInv'
  <2>1. /\ handled' = [handled EXCEPT ![m] = IF @ < 2 THEN @ + 1 ELSE @]
        /\ UNCHANGED <<nonce, replayed, faults, crashes>>
    BY <1>9 DEF Deliver
  <2>2. handled \in [Msgs -> 0..2]
    BY DEF TypeOK
  <2>3. handled'[m] > 0 /\ \A k \in Msgs : handled[k] > 0 => handled'[k] > 0
    BY <1>1, <2>1, <2>2
  <2>4. \A k \in Msgs \ {m} : Delivering(k) => Delivering(k)'
    BY <1>2, <1>9 DEF Deliver, Answer, Delivering
  <2>5. \A k \in Msgs : sent'[k] = "confirmed" => sent[k] = "confirmed" \/ k = m
    BY <1>1, <1>9 DEF Deliver, Answer, TypeOK
  <2>6. ConfirmedIsHeld'
    BY <2>3, <2>5 DEF HeldInv, ConfirmedIsHeld, Handled
  <2>7. NonceIsKept'
    BY <2>1, <2>3, <2>4 DEF HeldInv, NonceIsKept, Handled
  <2>. QED BY <2>6, <2>7 DEF HeldInv
<1>. QED BY <1>4, <1>5, <1>6, <1>7, <1>8, <1>9 DEF WorkerStep

LEMMA HeldStep ==
  ASSUME "defer" \notin Decisions PROVE TypeInv /\ HeldInv /\ [Next]_vars => HeldInv'
<1>. SUFFICES ASSUME TypeOK, HeldInv, [Next]_vars PROVE HeldInv'
  BY DEF TypeInv
<1>1. ASSUME NEW m \in Msgs, SenderStep(m) PROVE HeldInv'
  <2>1. UNCHANGED <<handled, replayed, nonce, faults, crashes, phase, job>>
    BY <1>1 DEF SenderStep, Send, Post, Timeout, Publish, Requeue
  <2>2. \A k \in Msgs : sent'[k] = "confirmed" => sent[k] = "confirmed"
    BY <1>1 DEF SenderStep, Send, Post, Timeout, Publish, Requeue, TypeOK
  <2>. QED BY <2>1, <2>2, HeldFrame DEF Delivering
<1>2. ASSUME NEW w \in Workers, phase[w] = "idle", phase' = [phase EXCEPT ![w] = "check"],
             NEW r, job' = [job EXCEPT ![w] = r],
             UNCHANGED <<handled, replayed, nonce, faults, crashes, sent>>
      PROVE  HeldInv'
  <2>1. \A m \in Msgs : Delivering(m) => Delivering(m)'
    <3>. SUFFICES ASSUME NEW m \in Msgs, NEW v \in Workers, phase[v] = "deliver", job[v][1] = m
                 PROVE  phase'[v] = "deliver" /\ job'[v][1] = m
      BY DEF Delivering
    <3>. QED BY <1>2 DEF TypeOK
  <2>. QED BY <1>2, <2>1, HeldFrame
<1>3. ASSUME NEW h \in Handlers, Take(h) PROVE HeldInv'
  BY <1>2, <1>3 DEF Take
<1>4. CASE Pull
  BY <1>2, <1>4 DEF Pull
<1>5. CASE Crash
  <2>1. ~(crashes' = 0)
    BY <1>5 DEF Crash, TypeOK
  <2>. QED BY <1>5, <2>1 DEF Crash, HeldInv, ConfirmedIsHeld, NonceIsKept, Handled
<1>6. CASE Restart \/ Tick \/ UNCHANGED vars
  <2>1. UNCHANGED <<handled, replayed, nonce, faults, crashes, sent, phase, job>>
    BY <1>6 DEF Restart, Tick
  <2>. QED BY <2>1, HeldFrame DEF Delivering
<1>. QED BY <1>1, <1>3, <1>4, <1>5, <1>6, HeldWorker DEF Next

LEMMA HeldHolds == ASSUME "defer" \notin Decisions PROVE Spec => [](TypeInv /\ HeldInv)
<1>1. Init => HeldInv
  BY DEF Init, HeldInv, ConfirmedIsHeld, NonceIsKept
<1>2. TypeInv /\ HeldInv /\ [Next]_vars => (TypeInv /\ HeldInv)'
  BY TypeStep, HeldStep
<1>. QED BY <1>1, <1>2, TypeInit, PTL DEF Spec

(* ConfirmedIsHeld: a sender forgets a message only once the recipient has *)
(* it or chose not to, whatever times out, crashes or comes twice.         *)
THEOREM ForgottenIsHeld == ASSUME "defer" \notin Decisions PROVE Spec => []ConfirmedIsHeld
<1>1. HeldInv => ConfirmedIsHeld
  BY DEF HeldInv
<1>. QED BY <1>1, HeldHolds, PTL

(* ReplayedWasHandled: while no write fails and no worker crashes, what is *)
(* rejected as a replay was handled, or is being handled by the worker     *)
(* that took its nonce.                                                    *)
THEOREM ReplayIsACopy == ASSUME "defer" \notin Decisions PROVE Spec => []ReplayedWasHandled
<1>1. TypeInv /\ HeldInv => ReplayedWasHandled
  BY DEF TypeInv, HeldInv, NonceIsKept, ReplayedWasHandled, TypeOK
<1>. QED BY <1>1, HeldHolds, PTL
===============================================================================
