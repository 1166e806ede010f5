------------------------------- MODULE Heartbeat -------------------------------
(***************************************************************************)
(* The heartbeat file of a node (skcomms/heartbeat.py HeartbeatPublisher)  *)
(* and what another node makes of it (NodeHeartbeatMonitor).  The loop of  *)
(* the publisher writes the file every Interval; API requests and commands *)
(* write the same file, through one temporary file, at any time.           *)
(*                                                                         *)
(* A heartbeat is the time it was made at.  A file that is being written   *)
(* follows its renaming: who opened the temporary file before it became    *)
(* the heartbeat file writes into the latter.  The first version of the    *)
(* file (HeartbeatMonitor.emit) is written in the same way.                *)
(***************************************************************************)
EXTENDS Integers

CONSTANTS Callers,          \* requests and commands that publish beside the loop
          Interval,         \* publish_interval_seconds
          Ttl,              \* ttl_seconds
          PublishTime,      \* bound on the time one publish takes
          SyncDelay,        \* bound on the time Syncthing takes
          LastBeat,         \* bound on the time
          MaxOrders         \* bound on the calls of start and stop

ASSUME HeartbeatAssumption ==
  /\ {Interval, Ttl, PublishTime, SyncDelay, MaxOrders} \subseteq Nat /\ LastBeat \in Nat \ {0}
  /\ "loop" \notin Callers
  /\ Ttl >= Interval + 2 * PublishTime + SyncDelay

NoBeat   == -1
HalfBeat == 0
Loop     == "loop"
BeatWriters == Callers \cup {Loop}

VARIABLES
  now,
  tmp, target,      \* the two files
  file,             \* the file each writer has open
  stamp,            \* the heartbeat each writer made
  thread,           \* the loop: "none", "publishing" or "waiting"
  stopEvent,
  view, changed,    \* the other node's copy, and the time since when it is out of date
  since,            \* the time the loop began to publish or to wait
  orders,
  wanted,           \* history: start was called last, not stop
  begun,            \* history: the time of the last start
  ignored,          \* history: a start found the thread of a stopped loop still alive
  overlapped        \* history: two writers had the temporary file open at once

fileVars      == <<tmp, target, file, stamp, overlapped>>
loopVars      == <<thread, stopEvent, since, orders, wanted, begun, ignored>>
heartbeatVars == <<now, fileVars, loopVars, view, changed>>

HeartbeatInit ==
  /\ now = 1 /\ tmp = NoBeat /\ target = NoBeat /\ view = NoBeat /\ changed = 1
  /\ file = [w \in BeatWriters |-> "none"] /\ stamp = [w \in BeatWriters |-> 1]
  /\ thread = "none" /\ stopEvent = FALSE /\ since = 1 /\ orders = 0
  /\ wanted = FALSE /\ begun = 1 /\ ignored = FALSE /\ overlapped = FALSE

-------------------------------------------------------------------------------
(* publish.                                                                *)

MayPublish(w) == file[w] = "none" /\ (w = Loop => thread = "publishing")

\* The other node's copy is out of date since then.
Stale == IF view = target THEN now ELSE changed

\* A writer that writes the heartbeat file itself.
InPlace(w) ==
  /\ MayPublish(w)
  /\ file' = [file EXCEPT ![w] = "target"] /\ stamp' = [stamp EXCEPT ![w] = now]
  /\ target' = HalfBeat /\ changed' = Stale
  /\ UNCHANGED <<now, tmp, overlapped, loopVars, view>>

\* The resources are collected, the heartbeat is made, write_text opens the file.
Open(w) ==
  /\ MayPublish(w)
  /\ file' = [file EXCEPT ![w] = "tmp"] /\ stamp' = [stamp EXCEPT ![w] = now] /\ tmp' = HalfBeat
  /\ overlapped' = (overlapped \/ \E v \in BeatWriters : file[v] # "none")
  /\ UNCHANGED <<now, target, loopVars, view, changed>>

\* What another has written into the same file may be longer.
WrittenOver(old, new) == IF old = HalfBeat THEN {new} ELSE {HalfBeat, new}

WriteBeat(w) ==
  /\ \/ file[w] = "tmp" /\ tmp' \in WrittenOver(tmp, stamp[w]) /\ UNCHANGED <<target, changed>>
     \/ /\ file[w] = "target" /\ target' \in WrittenOver(target, stamp[w]) /\ changed' = Stale
        /\ UNCHANGED tmp
     \/ file[w] = "gone" /\ UNCHANGED <<tmp, target, changed>>
  /\ file' = [file EXCEPT ![w] = "written"] /\ stamp' = [stamp EXCEPT ![w] = 1]
  /\ UNCHANGED <<now, overlapped, loopVars, view>>

\* Where an open file is after the renaming.
Moved(f) == CASE f = "tmp" -> "target" [] f = "target" -> "gone" [] OTHER -> f

Ended(w) == /\ thread' = IF w = Loop THEN "waiting" ELSE thread
            /\ since' = IF w = Loop THEN now ELSE since
            /\ UNCHANGED <<stopEvent, orders, wanted, begun, ignored>>

Rename(w) ==
  /\ file[w] = "written" /\ Ended(w)
  /\ IF tmp = NoBeat THEN UNCHANGED <<tmp, target, changed>>      \* it raises
     ELSE target' = tmp /\ tmp' = NoBeat /\ changed' = Stale
  /\ file' = [v \in BeatWriters |-> IF v = w THEN "none"
                                ELSE IF tmp = NoBeat THEN file[v] ELSE Moved(file[v])]
  /\ UNCHANGED <<now, stamp, overlapped, view>>

\* A command is interrupted: it may leave the temporary file half written.
CallerDies(w) ==
  /\ w \in Callers /\ file[w] # "none" /\ file' = [file EXCEPT ![w] = "none"]
  /\ UNCHANGED <<now, tmp, target, stamp, overlapped, loopVars, view, changed>>

-------------------------------------------------------------------------------
(* start, stop and the loop.                                               *)

Order == orders < MaxOrders /\ orders' = orders + 1

Start ==
  /\ Order /\ wanted' = TRUE /\ begun' = now
  /\ IF thread # "none"
     THEN /\ ignored' = (ignored \/ stopEvent) /\ UNCHANGED <<thread, stopEvent, since>>
     ELSE thread' = "publishing" /\ stopEvent' = FALSE /\ since' = now /\ UNCHANGED ignored
  /\ UNCHANGED <<now, fileVars, view, changed>>

\* It joins for five seconds: the thread may be alive when it returns.
Stop ==
  /\ Order /\ wanted /\ wanted' = FALSE /\ stopEvent' = TRUE /\ ignored' = FALSE
  /\ UNCHANGED <<now, fileVars, thread, since, begun, view, changed>>

LoopEnds ==
  /\ thread # "none" /\ file[Loop] = "none" /\ stopEvent /\ thread' = "none"
  /\ UNCHANGED <<now, fileVars, stopEvent, since, orders, wanted, begun, ignored, view, changed>>

Due == thread = "waiting" /\ now - since >= Interval
LoopPublishes ==
  /\ Due /\ ~stopEvent /\ thread' = "publishing" /\ since' = now
  /\ UNCHANGED <<now, fileVars, stopEvent, orders, wanted, begun, ignored, view, changed>>

-------------------------------------------------------------------------------
(* Syncthing, the clock, and the monitor.                                  *)

CopyBeat ==
  /\ view # target /\ view' = target
  /\ UNCHANGED <<now, fileVars, loopVars, changed>>

\* Nobody takes longer than his bound.
InTime == /\ ~Due
          /\ thread = "publishing" => now - since < PublishTime
          /\ view # target => now - changed < SyncDelay
Tick ==
  /\ now < LastBeat /\ InTime /\ now' = now + 1
  /\ UNCHANGED <<fileVars, loopVars, view, changed>>

\* is_expired and discover_nodes; a file that cannot be read is skipped.
IsExpired(stampSeen) == now - stampSeen > Ttl
Discovered == view \notin {NoBeat, HalfBeat} /\ ~IsExpired(view)

HeartbeatNext ==
  \/ \E w \in BeatWriters : Open(w) \/ WriteBeat(w) \/ Rename(w) \/ CallerDies(w)
  \/ Start \/ Stop \/ LoopEnds \/ LoopPublishes \/ CopyBeat \/ Tick

HeartbeatSpec == HeartbeatInit /\ [][HeartbeatNext]_heartbeatVars

-------------------------------------------------------------------------------
(* Every variable keeps its shape.                                         *)
HeartbeatTypeOK ==
  /\ now \in 1..LastBeat /\ {tmp, target, view} \subseteq NoBeat..LastBeat
  /\ file \in [BeatWriters -> {"none", "tmp", "target", "gone", "written"}]
  /\ stamp \in [BeatWriters -> 1..LastBeat] /\ thread \in {"none", "publishing", "waiting"}
  /\ {since, changed, begun} \subseteq 1..LastBeat /\ orders \in 0..MaxOrders
  /\ {stopEvent, wanted, ignored, overlapped} \subseteq BOOLEAN

\* "An atomic rename ensures readers never see a partial file": while publishers
\* do not overlap.
NeverPartial == ~overlapped => target # HalfBeat /\ view # HalfBeat

\* A node whose loop runs is discovered as soon as its first heartbeat had the time
\* to be written and copied, and at all times after that.
RunningIsSeen ==
  ~overlapped /\ orders = 1 /\ now - begun > PublishTime + SyncDelay => Discovered

\* After start the loop runs, unless the thread of a stopped loop was still alive.
StartedRuns == wanted /\ ~ignored => thread # "none" /\ ~stopEvent

(* heartbeat.py: what a running node publishes is whole and never too old. *)
HeartbeatKeeps == NeverPartial /\ RunningIsSeen /\ StartedRuns
===============================================================================
