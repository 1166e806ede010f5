------------------------------- MODULE Migration -------------------------------
(***************************************************************************)
(* What an upgrade finds (skcomms/outbox_migrate.py, paths.py              *)
(* adopt_legacy_tree): letters of earlier versions lie in the node-wide    *)
(* outbox, in the JSONL retry file, or in pending/ in an old format.       *)
(* Every Runner is a process of the upgraded version: its start adopts and *)
(* drains, its retry worker sweeps, and an operator may run migrate_outbox *)
(* in it.  Path.write_text truncates before it writes: a file between the  *)
(* two, or for ever after a crash between the two, is "torn", and so is    *)
(* one that two of them wrote at a time, if their bytes do not parse.      *)
(*                                                                         *)
(* The definitions no action uses are plausible faults of the one after.   *)
(***************************************************************************)
EXTENDS Naturals, FiniteSets

CONSTANTS Letters, Runners,
          Upgrades,         \* what the upgrade may find: origins of the letters
          RunnerCrashes     \* bound on the crashes of a behaviour

\* An undrainable line is one that names no envelope; a bare file is an
\* envelope that no OutboxEntry wraps, under a name of its own.
Origins == {"line", "undrainable", "bare", "shared", "legacy", "deadEnd", "corrupt"}
Formats == {"legacy", "deadEnd", "corrupt", "signed"}

ASSUME MigrationAssumption ==
  /\ Upgrades \subseteq [Letters -> Origins] /\ RunnerCrashes \in Nat
  /\ IsFiniteSet(Letters) /\ IsFiniteSet(Runners)

VARIABLES
  origin,      \* where each letter was found
  lines,       \* letters in the JSONL file
  shared,      \* letters in the node-wide outbox
  bare,        \* letters in a bare file
  pendingFile,       \* the outbox entry of each letter: a format, "none" or "torn"
  archived,    \* its copy in archive/: "none", "whole" or "empty"
  task,        \* what each runner does next
  halts,       \* crashes so far
  gone,        \* history: letters delivered
  overlap,     \* history: migrate_outbox ran while another runner did something
  overlaid     \* history: letters whose entry two runners wrote at a time

disk          == <<lines, shared, bare, pendingFile, archived>>
migrationVars == <<origin, disk, task, halts, gone, overlap, overlaid>>

Unoccupied  == [step |-> "free"]
Loops == {"adopt", "drain", "migrate", "sweep"}
Chores == {Unoccupied} \cup [step : {"next"}, loop : Loops, todo : SUBSET Letters]
                \cup [step : {"send", "write", "flush", "copy", "unlink"}, loop : Loops,
                      todo : SUBSET Letters, letter : Letters, held : Formats]

Whole(l) == pendingFile[l] \in Formats

MigrationInit ==
  /\ origin \in Upgrades
  /\ lines = {l \in Letters : origin[l] \in {"line", "undrainable"}}
  /\ shared = {l \in Letters : origin[l] = "shared"}
  /\ bare = {l \in Letters : origin[l] = "bare"}
  /\ pendingFile = [l \in Letters |-> IF origin[l] \in Formats THEN origin[l] ELSE "none"]
  /\ archived = [l \in Letters |-> "none"]
  /\ task = [r \in Runners |-> Unoccupied] /\ halts = 0
  /\ gone = {} /\ overlap = FALSE /\ overlaid = {}

Migrates(r) == task[r] # Unoccupied /\ task[r].loop = "migrate"
Set(r, t)   == /\ task' = [task EXCEPT ![r] = t]
               /\ overlap' = (overlap \/ \E q \in Runners :
                     Migrates(q)' /\ \E p \in Runners \ {q} : task'[p] # Unoccupied)
Starts(r, loop, T) == Set(r, [step |-> "next", loop |-> loop, todo |-> T])
Loop(r, loop)      == task[r].step = "next" /\ task[r].loop = loop
Skip(r, l)         == Set(r, [task[r] EXCEPT !.todo = @ \ {l}])
Take(r, s, l, f)   == Set(r, [step |-> s, loop |-> task[r].loop, todo |-> task[r].todo \ {l},
                              letter |-> l, held |-> f])
Put(l, e)          == pendingFile' = [pendingFile EXCEPT ![l] = e]

-------------------------------------------------------------------------------
(* The start: adopt_legacy_tree, then migrate_retry_queue_jsonl.           *)

StartUp(r) ==
  /\ task[r] = Unoccupied /\ Starts(r, "adopt", shared)
  /\ UNCHANGED <<origin, disk, halts, gone, overlaid>>

\* An atomic rename, unless the name is taken or another runner was faster.
AdoptFile(r, l) ==
  /\ Loop(r, "adopt") /\ l \in task[r].todo
  /\ Skip(r, l)
  /\ IF l \in shared /\ pendingFile[l] = "none"
     THEN shared' = shared \ {l} /\ Put(l, "legacy")
     ELSE UNCHANGED <<shared, pendingFile>>
  /\ UNCHANGED <<origin, lines, bare, archived, halts, gone, overlaid>>

ReadLines(r) ==
  /\ Loop(r, "adopt") /\ task[r].todo = {} /\ Starts(r, "drain", lines)
  /\ UNCHANGED <<origin, disk, halts, gone, overlaid>>

Drainable(l) == origin[l] # "undrainable"

DrainLine(r, l) ==
  /\ Loop(r, "drain") /\ l \in task[r].todo /\ Drainable(l)
  /\ Take(r, "write", l, "legacy")
  /\ UNCHANGED <<origin, disk, halts, gone, overlaid>>

\* OutboxFullError: the drain ends, and the file stays.
RefuseLine(r, l) ==
  /\ Loop(r, "drain") /\ l \in task[r].todo /\ Drainable(l)
  /\ Set(r, Unoccupied)
  /\ UNCHANGED <<origin, disk, halts, gone, overlaid>>

NoneLeft(r)  == {l \in task[r].todo : Drainable(l)} = {}
\* any_undrained: a line that was skipped keeps the file.
AllDrained(r) == task[r].todo = {}

EndDrain(r) ==
  /\ Loop(r, "drain") /\ NoneLeft(r) /\ Set(r, Unoccupied)
  /\ lines' = IF AllDrained(r) THEN {} ELSE lines
  /\ UNCHANGED <<origin, shared, bare, pendingFile, archived, halts, gone, overlaid>>

-------------------------------------------------------------------------------
(* A sweep of the retry worker, as far as it touches an entry.             *)

SweepEntry(r, l) ==
  /\ task[r] = Unoccupied /\ Whole(l) /\ pendingFile[l] # "corrupt"
  /\ Set(r, [step |-> "send", loop |-> "sweep", todo |-> {}, letter |-> l, held |-> pendingFile[l]])
  /\ UNCHANGED <<origin, disk, halts, gone, overlaid>>

SweepDelivered(r) ==
  /\ task[r].step = "send" /\ Set(r, [task[r] EXCEPT !.step = "unlink"])
  /\ gone' = gone \cup {task[r].letter}
  /\ UNCHANGED <<origin, disk, halts, overlaid>>

SweepFailed(r) ==
  /\ task[r].step = "send" /\ Set(r, [task[r] EXCEPT !.step = "write"])
  /\ UNCHANGED <<origin, disk, halts, gone, overlaid>>

-------------------------------------------------------------------------------
(* migrate_outbox.                                                         *)

MigrateOutbox(r) ==
  /\ task[r] = Unoccupied
  /\ Starts(r, "migrate", {l \in Letters : l \in bare \/ pendingFile[l] # "none"})
  /\ UNCHANGED <<origin, disk, halts, gone, overlaid>>

\* A signed entry is skipped, a legacy one converted; what cannot be read or
\* has no destination is archived, and so is a file caught between its
\* truncation and its write.
Classify(r, l) ==
  /\ Loop(r, "migrate") /\ l \in task[r].todo
  /\ CASE pendingFile[l] \in {"signed", "none"} /\ l \notin bare -> Skip(r, l)
       [] pendingFile[l] = "legacy" \/ l \in bare -> Take(r, "write", l, "signed")
       [] OTHER -> Take(r, "copy", l, "corrupt")
  /\ bare' = bare \ {l}         \* the bare file is unlinked, then its entry written
  /\ UNCHANGED <<origin, lines, shared, pendingFile, archived, halts, gone, overlaid>>

UnlinkFirst(l) == "empty"
\* The copy is read from the source again, and is empty if the source is gone.
Copied(l)      == IF Whole(l) THEN "whole" ELSE "empty"

ArchiveCopy(r) ==
  /\ task[r].step = "copy"
  /\ Set(r, [task[r] EXCEPT !.step = "unlink"])
  /\ archived' = [archived EXCEPT ![task[r].letter] = Copied(task[r].letter)]
  /\ UNCHANGED <<origin, lines, shared, bare, pendingFile, halts, gone, overlaid>>

EndMigrate(r) ==
  /\ Loop(r, "migrate") /\ task[r].todo = {} /\ Set(r, Unoccupied)
  /\ UNCHANGED <<origin, disk, halts, gone, overlaid>>

-------------------------------------------------------------------------------
(* Writing and unlinking an entry, one file operation at a time.           *)

Resume(r) == IF task[r].loop = "sweep" THEN Set(r, Unoccupied)
             ELSE Starts(r, task[r].loop, task[r].todo)

TruncateEntry(r) ==
  /\ task[r].step = "write"
  /\ Put(task[r].letter, "torn") /\ Set(r, [task[r] EXCEPT !.step = "flush"])
  /\ LET others == {q \in Runners \ {r} : task[q].step = "flush" /\ task[q].letter = task[r].letter} IN
       overlaid' = IF others = {} THEN overlaid ELSE overlaid \cup {task[r].letter}
  /\ UNCHANGED <<origin, lines, shared, bare, archived, halts, gone>>

\* What is flushed to a file that was unlinked meanwhile is lost with it, and
\* what is flushed to a file that another runner writes to may mix with that.
FlushEntry(r) ==
  /\ task[r].step = "flush"
  /\ LET l == task[r].letter IN
       \E e \in IF pendingFile[l] = "none" THEN {"none"}
                ELSE IF l \in overlaid THEN {task[r].held, "torn", pendingFile[l]}
                ELSE {task[r].held} : Put(l, e)
  /\ Resume(r)
  /\ UNCHANGED <<origin, lines, shared, bare, archived, halts, gone, overlaid>>

UnlinkEntry(r) ==
  /\ task[r].step = "unlink"
  /\ Put(task[r].letter, "none") /\ Resume(r)
  /\ UNCHANGED <<origin, lines, shared, bare, archived, halts, gone, overlaid>>

Halt(r) ==
  /\ task[r] # Unoccupied /\ halts < RunnerCrashes
  /\ halts' = halts + 1 /\ Set(r, Unoccupied)
  /\ UNCHANGED <<origin, disk, gone, overlaid>>

MigrationNext == \E r \in Runners :
  \/ StartUp(r) \/ ReadLines(r) \/ EndDrain(r) \/ SweepDelivered(r) \/ SweepFailed(r)
  \/ MigrateOutbox(r) \/ ArchiveCopy(r) \/ EndMigrate(r)
  \/ TruncateEntry(r) \/ FlushEntry(r) \/ UnlinkEntry(r) \/ Halt(r)
  \/ \E l \in Letters : \/ AdoptFile(r, l) \/ DrainLine(r, l) \/ RefuseLine(r, l)
                        \/ SweepEntry(r, l) \/ Classify(r, l)

MigrationSpec == MigrationInit /\ [][MigrationNext]_migrationVars

-------------------------------------------------------------------------------
(* Every variable keeps its shape.                                         *)
MigrationTypeOK ==
  /\ origin \in Upgrades
  /\ lines \subseteq Letters /\ shared \subseteq Letters /\ bare \subseteq Letters
  /\ pendingFile \in [Letters -> Formats \cup {"none", "torn"}]
  /\ archived \in [Letters -> {"none", "whole", "empty"}]
  /\ task \in [Runners -> Chores] /\ halts \in 0..RunnerCrashes
  /\ gone \subseteq Letters /\ overlap \in BOOLEAN /\ overlaid \subseteq Letters

Held(l) == \E r \in Runners :
  task[r].step \in {"write", "flush"} /\ task[r].letter = l

Missing(l) == /\ l \notin gone \cup lines \cup shared \cup bare
              /\ ~Whole(l) /\ archived[l] # "whole" /\ ~Held(l)

(* outbox_migrate.py, "so no entry is lost" and "preserved verbatim under  *)
(* archive": whatever the upgrade found is still in some file, delivered   *)
(* or in the hands of a live process; a crash costs the letter that it     *)
(* caught between two file operations.  Nothing is promised once           *)
(* migrate_outbox ran while another process wrote to the outbox, nor of a  *)
(* letter whose entry two processes wrote at a time.                       *)
MigrationKeeps == overlap \/ Cardinality({l \in Letters \ overlaid : Missing(l)}) <= halts
===============================================================================
