------------------------------- MODULE FileRail -------------------------------
(***************************************************************************)
(* The file rail (skcomms/transports/file.py FileTransport; syncthing.py   *)
(* does the same in one directory per peer) and the deduplication of       *)
(* Router.receive_all behind it.  Sending threads open a temporary file,   *)
(* write an envelope to it, rename it to its name and trim the directory   *)
(* to its depth cap; receiving processes list the directory, read each     *)
(* file, move it to the archive, and hand the batch on.  Nothing is        *)
(* locked: each file operation is one step, and two envelopes of one name  *)
(* share the temporary file.  The outbox of the sender and the inbox of    *)
(* the receiver are one shared directory, in which other programs put      *)
(* files too.                                                              *)
(*                                                                         *)
(* The definitions no action uses are plausible faults of the definition   *)
(* after them: with them a property of some run fails.                     *)
(***************************************************************************)
EXTENDS Naturals, SequencesExt

CONSTANTS Msgs,
          Kind,        \* "legacy": MessageEnvelope, "signed": SignedEnvelope,
                       \* "array": valid JSON that is not an object, which
                       \* only another program puts in the directory
          Pollers,     \* processes that call receive_all
          Seconds,     \* the clock as file names see it runs to this second
          Depth,       \* max_outbox_depth
          SeenMax,     \* SEEN_IDS_MAX
          MaxResends, MaxCrashes, MaxArchiveErrors

NoMsg == "nothing"
Blank == "blank"        \* a file that is open and empty
Torn  == "torn"         \* a short envelope over the tail of a longer one
Payloads == Msgs \cup {Blank, Torn}

ASSUME FileRailAssumption ==
  /\ IsFiniteSet(Msgs) /\ Msgs \cap {NoMsg, Blank, Torn} = {} /\ Kind \in [Msgs -> {"legacy", "signed", "array"}]
  /\ Seconds \in Nat /\ Depth \in Nat \ {0} /\ SeenMax \in Nat
  /\ MaxResends \in Nat /\ MaxCrashes \in Nat /\ MaxArchiveErrors \in Nat

\* _extract_id: only a legacy envelope has an "envelope_id" of its own at the
\* top level; anything else is named after the second it is written in.
NameOf(m, t)  == IF Kind[m] = "signed" THEN <<"unknown", t>> ELSE <<"id", m>>
NoName == <<"none", 0>>
Names == {<<"id", m>> : m \in Msgs} \cup {<<"unknown", t>> : t \in 0..Seconds}

\* What other programs put in the directory.
Arrays  == {m \in Msgs : Kind[m] = "array"}
Foreign == {<<"id", m>> : m \in Arrays}

\* The temporary file an envelope of this name is written to.
TmpName(n) == n

VARIABLES
  clock,
  tmp,         \* temporary file -> what is in it
  file,        \* envelope file -> what is in it
  newer,       \* the envelope files written after each one
  step, name, victims,  \* senders (one per message): next step, file, what to evict
  fd,          \* where the file is by now that the sender has open: "tmp",
               \* "file" (another one renamed it) or "gone"
  phase, todo, reading, batch, \* pollers: next step, files listed, the file
                               \* being read, messages read
  seen,        \* pollers: _seen_ids, oldest first
  forgot,      \* pollers: the messages whose id left _seen_ids (history)
  got,         \* how often each process handed a message on, up to 2
  archive,     \* messages in the archive directory
  dropped,     \* messages evicted or pruned from the shared directory
  resends, crashes, archiveErrors

senders == <<step, name, victims>>
pollers == <<phase, todo, reading, batch, seen, forgot, got>>
vars == <<clock, tmp, file, newer, senders, fd, pollers, archive, dropped, resends, crashes, archiveErrors>>

Init ==
  /\ clock = 0
  /\ tmp = [n \in Names |-> NoMsg] /\ file = [n \in Names |-> NoMsg] /\ newer = [n \in Names |-> {}]
  /\ step = [m \in Msgs |-> "new"] /\ name = [m \in Msgs |-> NoName]
  /\ victims = [m \in Msgs |-> {}] /\ fd = [m \in Msgs |-> "gone"]
  /\ phase = [p \in Pollers |-> "idle"] /\ todo = [p \in Pollers |-> {}]
  /\ reading = [p \in Pollers |-> NoName]
  /\ batch = [p \in Pollers |-> <<>>] /\ seen = [p \in Pollers |-> <<>>]
  /\ forgot = [p \in Pollers |-> {}] /\ got = [p \in Pollers |-> [m \in Msgs |-> 0]]
  /\ archive = {} /\ dropped = {} /\ resends = 0 /\ crashes = 0 /\ archiveErrors = 0

Files == {n \in Names : file[n] # NoMsg}
Without(names) == [n \in Names |-> IF n \in names THEN {} ELSE newer[n] \ names]

\* A file of this name appears, or replaces the one there was.
Put(n, payload) ==
  /\ file' = [file EXCEPT ![n] = payload]
  /\ newer' = [k \in Names |-> IF k \in Files \ {n} THEN newer[k] \cup {n} ELSE {}]

\* Whoever has one of these files open writes to nowhere.
Orphan(names) == fd' = [m \in Msgs |-> IF name[m] \in names /\ fd[m] = "file" THEN "gone" ELSE fd[m]]

-------------------------------------------------------------------------------
(* FileTransport.send.                                                     *)

\* _extract_id raises for an array, before anything is written.
Refuse(m) ==
  /\ step[m] = "new" /\ m \in Arrays
  /\ step' = [step EXCEPT ![m] = "failed"]
  /\ UNCHANGED <<clock, tmp, file, newer, name, victims, fd, pollers, archive, dropped, resends, crashes, archiveErrors>>

\* write_bytes opens the file, which empties it whoever wrote to it, ...
OpenTmp(m) ==
  /\ step[m] = "new" /\ m \notin Arrays
  /\ name' = [name EXCEPT ![m] = NameOf(m, clock)]
  /\ tmp' = [tmp EXCEPT ![TmpName(NameOf(m, clock))] = Blank]
  /\ fd' = [fd EXCEPT ![m] = "tmp"]
  /\ step' = [step EXCEPT ![m] = "write"]
  /\ UNCHANGED <<clock, file, newer, victims, pollers, archive, dropped, resends, crashes, archiveErrors>>

\* ... and writes at its beginning, wherever another sender has moved it.
Over(payload, m) == IF payload \in {Blank, m} THEN {m} ELSE {m, Torn}

WriteTmp(m) ==
  /\ step[m] = "write"
  /\ LET t == TmpName(name[m]) IN
     \/ fd[m] = "tmp" /\ (\E c \in Over(tmp[t], m) : tmp' = [tmp EXCEPT ![t] = c]) /\ UNCHANGED file
     \/ fd[m] = "file" /\ (\E c \in Over(file[name[m]], m) : file' = [file EXCEPT ![name[m]] = c]) /\ UNCHANGED tmp
     \/ fd[m] = "gone" /\ UNCHANGED <<tmp, file>>
  /\ fd' = [fd EXCEPT ![m] = "gone"]
  /\ step' = [step EXCEPT ![m] = "rename"]
  /\ UNCHANGED <<clock, newer, name, victims, pollers, archive, dropped, resends, crashes, archiveErrors>>

\* The rename fails if another sender has renamed the same temporary file.
Rename(m) ==
  /\ step[m] = "rename"
  /\ LET t == TmpName(name[m]) IN
     IF tmp[t] = NoMsg
     THEN step' = [step EXCEPT ![m] = "failed"] /\ UNCHANGED <<tmp, file, newer, fd>>
     ELSE /\ Put(name[m], tmp[t])
          /\ tmp' = [tmp EXCEPT ![t] = NoMsg]
          /\ fd' = [k \in Msgs |-> IF name[k] = name[m] /\ fd[k] = "tmp" THEN "file"
                                  ELSE IF name[k] = name[m] THEN "gone" ELSE fd[k]]
          /\ step' = [step EXCEPT ![m] = "trim"]
  /\ name' = [name EXCEPT ![m] = NoName]
  /\ UNCHANGED <<clock, victims, pollers, archive, dropped, resends, crashes, archiveErrors>>

\* _trim_dir_to_depth: list, sort by age, unlink the excess.
LaxExcess == {n \in Files : Cardinality(newer[n]) > Depth}
Excess    == {n \in Files : Cardinality(newer[n]) >= Depth}

ListExcess(m) ==
  /\ step[m] = "trim"
  /\ victims' = [victims EXCEPT ![m] = Excess]
  /\ step' = [step EXCEPT ![m] = "evict"]
  /\ UNCHANGED <<clock, tmp, file, newer, name, fd, pollers, archive, dropped, resends, crashes, archiveErrors>>

Unlink(names) ==
  /\ file' = [n \in Names |-> IF n \in names THEN NoMsg ELSE file[n]]
  /\ newer' = Without(names) /\ Orphan(names)
  /\ dropped' = dropped \cup {m \in Msgs : \E n \in names : file[n] = m}

Evict(m) ==
  /\ step[m] = "evict"
  /\ Unlink(victims[m])
  /\ victims' = [victims EXCEPT ![m] = {}]
  /\ step' = [step EXCEPT ![m] = "sent"]
  /\ UNCHANGED <<clock, tmp, name, pollers, archive, resends, crashes, archiveErrors>>

\* A retry, or the same message over another rail.
Resend(m) ==
  /\ step[m] \in {"sent", "failed"} /\ resends < MaxResends
  /\ resends' = resends + 1
  /\ step' = [step EXCEPT ![m] = "new"]
  /\ UNCHANGED <<clock, tmp, file, newer, name, victims, fd, pollers, archive, dropped, crashes, archiveErrors>>

\* Another program puts an array in the directory, once.
PutForeign(m) ==
  /\ m \in Arrays /\ m \notin archive \cup dropped /\ file[<<"id", m>>] = NoMsg
  /\ Put(<<"id", m>>, m)
  /\ UNCHANGED <<clock, tmp, senders, fd, pollers, archive, dropped, resends, crashes, archiveErrors>>

\* prune_outbox, prune_inbox: the oldest files, by age only.
Prune ==
  /\ \E n \in Files : newer[n] = Files \ {n} /\ Unlink({n})
  /\ UNCHANGED <<clock, tmp, senders, pollers, archive, resends, crashes, archiveErrors>>

NextSecond ==
  /\ clock < Seconds
  /\ clock' = clock + 1
  /\ UNCHANGED <<tmp, file, newer, senders, fd, pollers, archive, dropped, resends, crashes, archiveErrors>>

-------------------------------------------------------------------------------
(* FileTransport.receive, then the loop of Router.receive_all.             *)

\* The ids a process no longer remembers.
Forget(p, rest) ==
  /\ seen' = [seen EXCEPT ![p] = rest]
  /\ forgot' = [forgot EXCEPT ![p] = @ \cup (ToSet(seen[p]) \ ToSet(rest))]

\* _prune_seen_ids: the ids older than _seen_ttl, the first of them however
\* many that is by now, and those beyond SEEN_IDS_MAX.  Then the glob.
List(p) ==
  /\ phase[p] = "idle"
  /\ todo' = [todo EXCEPT ![p] = Files]
  /\ \E k \in 0..Len(seen[p]) :
       /\ Len(seen[p]) - k <= SeenMax
       /\ Forget(p, SubSeq(seen[p], k + 1, Len(seen[p])))
  /\ phase' = [phase EXCEPT ![p] = "read"]
  /\ UNCHANGED <<clock, tmp, file, newer, senders, fd, reading, batch, got, archive, dropped,
                 resends, crashes, archiveErrors>>

\* In the order of the names, which says nothing about ids: in any order.
Read(p) ==
  /\ phase[p] = "read" /\ reading[p] = NoName
  /\ \E n \in todo[p] :
       /\ todo' = [todo EXCEPT ![p] = @ \ {n}]
       /\ IF file[n] = NoMsg        \* gone: skipped with a warning
          THEN UNCHANGED <<batch, reading>>
          ELSE /\ batch' = [batch EXCEPT ![p] = Append(@, file[n])]
               /\ reading' = [reading EXCEPT ![p] = n]
  /\ UNCHANGED <<clock, tmp, file, newer, senders, fd, phase, seen, forgot, got, archive, dropped,
                 resends, crashes, archiveErrors>>

\* Moves whatever has the name by now; a file that is gone, or an I/O error,
\* leaves the message in the batch.
Archive(p) ==
  /\ reading[p] # NoName
  /\ LET n == reading[p] IN
     \/ /\ archive' = archive \cup ({file[n]} \cap Msgs)
        /\ file' = [file EXCEPT ![n] = NoMsg] /\ newer' = Without({n}) /\ Orphan({n})
        /\ UNCHANGED archiveErrors
     \/ /\ archiveErrors < MaxArchiveErrors /\ archiveErrors' = archiveErrors + 1
        /\ UNCHANGED <<archive, file, newer, fd>>
  /\ reading' = [reading EXCEPT ![p] = NoName]
  /\ UNCHANGED <<clock, tmp, senders, phase, todo, batch, seen, forgot, got, dropped, resends, crashes>>

AllRead(p) == phase[p] = "read" /\ reading[p] = NoName /\ todo[p] = {}

More(n) == IF n < 2 THEN n + 1 ELSE 2

\* _extract_envelope_id: the top-level "envelope_id", which only legacy
\* envelopes have; JSON that is not an object makes it raise.
HasId(m) == m \in Msgs /\ Kind[m] = "legacy"
Duplicate(p, m) == HasId(m) /\ m \in ToSet(seen[p])
Count(p, m) == IF m \in Msgs THEN [got EXCEPT ![p][m] = More(@)] ELSE got

HandOnAgain(p) ==
  /\ AllRead(p) /\ batch[p] # <<>>
  /\ batch' = [batch EXCEPT ![p] = Tail(@)]
  /\ got' = Count(p, Head(batch[p]))
  /\ UNCHANGED <<clock, tmp, file, newer, senders, fd, phase, todo, reading, seen, forgot, archive, dropped, resends, crashes, archiveErrors>>
Forgets(p) ==
  /\ AllRead(p) /\ batch[p] # <<>>
  /\ batch' = [batch EXCEPT ![p] = Tail(@)]
  /\ LET m == Head(batch[p]) IN
     /\ seen' = IF HasId(m) THEN [seen EXCEPT ![p] = Append(@, m)] ELSE seen
     /\ got' = IF HasId(m) THEN got ELSE Count(p, m)
  /\ UNCHANGED <<clock, tmp, file, newer, senders, fd, phase, todo, reading, forgot, archive, dropped, resends, crashes, archiveErrors>>
HandOn(p) ==
  /\ AllRead(p) /\ batch[p] # <<>>
  /\ LET m == Head(batch[p]) IN
     /\ batch' = [batch EXCEPT ![p] = IF m \in Arrays THEN <<>> ELSE Tail(@)]
     /\ seen' = IF HasId(m) /\ ~Duplicate(p, m) THEN [seen EXCEPT ![p] = Append(@, m)] ELSE seen
     /\ got' = IF m \in Arrays \/ Duplicate(p, m) THEN got ELSE Count(p, m)
  /\ UNCHANGED <<clock, tmp, file, newer, senders, fd, phase, todo, reading, forgot, archive, dropped, resends, crashes, archiveErrors>>

EndPoll(p) ==
  /\ AllRead(p) /\ batch[p] = <<>>
  /\ phase' = [phase EXCEPT ![p] = "idle"]
  /\ UNCHANGED <<clock, tmp, file, newer, senders, fd, todo, reading, batch, seen, forgot, got, archive, dropped, resends, crashes, archiveErrors>>

\* The process restarts: its batch and its memory are gone.
Crash(p) ==
  /\ crashes < MaxCrashes
  /\ crashes' = crashes + 1
  /\ phase' = [phase EXCEPT ![p] = "idle"] /\ todo' = [todo EXCEPT ![p] = {}]
  /\ reading' = [reading EXCEPT ![p] = NoName]
  /\ batch' = [batch EXCEPT ![p] = <<>>] /\ Forget(p, <<>>)
  /\ UNCHANGED <<clock, tmp, file, newer, senders, fd, got, archive, dropped, resends, archiveErrors>>

-------------------------------------------------------------------------------
SendStep(m) == Refuse(m) \/ OpenTmp(m) \/ WriteTmp(m) \/ Rename(m) \/ ListExcess(m) \/ Evict(m)
Poll(p) == List(p) \/ Read(p) \/ Archive(p) \/ HandOn(p) \/ EndPoll(p)

Next == \/ \E m \in Msgs : SendStep(m) \/ Resend(m) \/ PutForeign(m)
        \/ \E p \in Pollers : Poll(p) \/ Crash(p)
        \/ Prune \/ NextSecond

Spec == Init /\ [][Next]_vars

(* A send runs to its end and the daemon keeps polling.                    *)
FairSpec == Spec /\ \A m \in Msgs : WF_vars(SendStep(m))
                 /\ \A p \in Pollers : WF_vars(Poll(p))

-------------------------------------------------------------------------------
(* Every variable keeps its shape.                                         *)
TypeOK ==
  /\ clock \in 0..Seconds
  /\ tmp \in [Names -> Payloads \cup {NoMsg}] /\ file \in [Names -> Payloads \cup {NoMsg}]
  /\ newer \in [Names -> SUBSET Names]
  /\ step \in [Msgs -> {"new", "write", "rename", "trim", "evict", "sent", "failed"}]
  /\ name \in [Msgs -> Names \cup {NoName}] /\ victims \in [Msgs -> SUBSET Names]
  /\ fd \in [Msgs -> {"tmp", "file", "gone"}]
  /\ phase \in [Pollers -> {"idle", "read"}]
  /\ todo \in [Pollers -> SUBSET Names] /\ reading \in [Pollers -> Names \cup {NoName}]
  /\ batch \in [Pollers -> Seq(Payloads)] /\ seen \in [Pollers -> Seq(Msgs)]
  /\ forgot \in [Pollers -> SUBSET Msgs] /\ got \in [Pollers -> [Msgs -> 0..2]]
  /\ archive \subseteq Msgs /\ dropped \subseteq Msgs
  /\ resends \in 0..MaxResends /\ crashes \in 0..MaxCrashes
  /\ archiveErrors \in 0..MaxArchiveErrors

OnDisk(m) == m \in archive \cup dropped \/ \E n \in Names : file[n] = m
HandedOn(m) == \E p \in Pollers : got[p][m] > 0 \/ m \in ToSet(batch[p])

(* send, "One file per envelope", receive, receive_all: a message that was *)
(* reported queued is in the shared directory or the archive until it is   *)
(* evicted or pruned; and without a crash none is archived that is not     *)
(* handed on.                                                              *)
Accounted ==
  /\ \A m \in Msgs : step[m] = "sent" => OnDisk(m)
  /\ crashes = 0 => \A m \in archive : HandedOn(m) \/ m \in Arrays

(* receive_all, "deduplicated by envelope_id": a message with such an id   *)
(* that arrives again is handed on once, unless its id has left the memory *)
(* of the process: after seven days, beyond SEEN_IDS_MAX, or at a restart. *)
HandedOnOnce == \A p \in Pollers, m \in Msgs :
  HasId(m) /\ m \notin forgot[p] => got[p][m] <= 1

(* _trim_dir_to_depth: when no send is under way the directory holds no    *)
(* more of the rail's files than its depth cap.                            *)
CapHolds == (\A m \in Msgs : step[m] \in {"new", "sent", "failed"})
            => Cardinality(Files \ Foreign) <= Depth

(* The rail: a message that was reported queued is handed on unless it is  *)
(* evicted or pruned, or a restart forgot a batch.                         *)
QueuedArrives == \A m \in Msgs :
  step[m] = "sent" ~> m \in dropped \/ HandedOn(m) \/ crashes > 0
===============================================================================
