--------------------------------- MODULE Backup ---------------------------------
(***************************************************************************)
(* Identity and trust-state backup and restore (skcomms/trustbackup.py,    *)
(* its CLI verbs, and the gate the daemon passes at its start).  A backup  *)
(* reads one file after the other beside a running node and then replaces  *)
(* the archive; a restore compares and replaces one file after the other,  *)
(* in the order of the archive.  Either may be killed, a wiped machine has *)
(* only the archive left, and capauth may make a new identity meanwhile.   *)
(*                                                                         *)
(* A file holds a number, or Nothing when it is not there: for a key the   *)
(* identity it belongs to.  The definitions no action uses are plausible   *)
(* faults of the one after them.                                           *)
(***************************************************************************)
EXTENDS Naturals

CONSTANTS Waiting,       \* entries of the outbox
          Gated,         \* SKCOMMS_REQUIRE_IDENTITY
          MaxIdentities, MaxPinned, MaxWipes, MaxRestores   \* bounds

ASSUME BackupAssumption ==
  /\ Gated \in BOOLEAN
  /\ Waiting \cap {"operatorKey", "agentKey", "agentPub", "homeKey", "pins"} = {}
  /\ MaxIdentities \in Nat /\ MaxPinned \in Nat /\ MaxWipes \in Nat /\ MaxRestores \in Nat

Nothing == 0

\* Private keys lie in three layouts; the agent's comes with a public key.
PrivateKeys == {"operatorKey", "agentKey", "homeKey"}
BackupSet   == {"operatorKey", "agentKey", "agentPub", "pins"} \cup Waiting
TrustFiles  == BackupSet \cup {"homeKey"}
NoFiles     == [f \in TrustFiles |-> Nothing]
NoTask      == [step |-> "idle"]

VARIABLES
  onDisk,    \* the files
  archive,   \* the payloads of the archive; Nothing for a file it lacks
  trustJob,  \* the backup or restore that is running
  daemon,    \* the identity the running daemon signs with
  keysMade,      \* history: identities made so far
  wiped, restores, sentOn,    \* history: wipes, restores begun, sends of an entry
  atBackup,  \* history: identities made when the archive was, its node's own, and torn
  torn       \* history: a restore died, met another writer, or had a torn archive

machine    == <<onDisk, daemon>>
tally      == <<keysMade, wiped, restores, sentOn>>
backupVars == <<machine, archive, trustJob, tally, atBackup, torn>>

BackupInit ==
  /\ onDisk = NoFiles /\ archive = NoFiles /\ trustJob = NoTask /\ daemon = Nothing
  /\ keysMade = 0 /\ wiped = 0 /\ restores = 0 /\ sentOn = [e \in Waiting |-> 0]
  /\ atBackup = [made |-> 0, signer |-> Nothing, torn |-> FALSE] /\ torn = FALSE

InPlace(files) == {f \in BackupSet : files[f] # Nothing}

\* The order of the set, and of the names in the archive; the outbox comes last.
Place(f) == CASE f = "operatorKey" -> 1 [] f = "agentKey" -> 2 [] f = "agentPub" -> 3
              [] f = "pins" -> 4 [] OTHER -> 5
First(todo) == {f \in todo : \A g \in todo : Place(f) <= Place(g)}

\* private_key_paths: the first layout that holds a key signs.
Signer(files) ==
  CASE files["agentKey"] # Nothing -> files["agentKey"]
    [] files["homeKey"] # Nothing  -> files["homeKey"]
    [] OTHER                       -> files["operatorKey"]
\* identity_check looks only at the private keys of the backup set.
KeyPresent(files) == \E f \in PrivateKeys \cap BackupSet : files[f] # Nothing

Restoring == trustJob.step \in {"restore", "put"}
\* Somebody else writes a file: a restore under way meets it.
Met == /\ trustJob' = IF Restoring THEN [trustJob EXCEPT !.met = TRUE] ELSE trustJob
       /\ torn' = (torn \/ Restoring)

-------------------------------------------------------------------------------
(* The node the backup is about.                                           *)

\* capauth makes a key where there is none; a restore under way may meet it.
MakeIdentity(f) ==
  /\ onDisk[f] = Nothing /\ keysMade < MaxIdentities /\ keysMade' = keysMade + 1
  /\ onDisk' = IF f = "agentKey" THEN [onDisk EXCEPT ![f] = keysMade', !["agentPub"] = keysMade']
                                 ELSE [onDisk EXCEPT ![f] = keysMade']
  /\ Met
  /\ UNCHANGED <<archive, daemon, wiped, restores, sentOn, atBackup>>

PinPeer ==
  /\ daemon # Nothing /\ onDisk["pins"] < MaxPinned
  /\ onDisk' = [onDisk EXCEPT !["pins"] = @ + 1]
  /\ Met
  /\ UNCHANGED <<archive, daemon, tally, atBackup>>

KeepEntry(e) ==
  /\ daemon # Nothing /\ onDisk[e] = Nothing /\ sentOn[e] = 0
  /\ onDisk' = [onDisk EXCEPT ![e] = 1]
  /\ Met
  /\ UNCHANGED <<archive, daemon, tally, atBackup>>

SendEntry(e) ==
  /\ daemon # Nothing /\ onDisk[e] # Nothing
  /\ onDisk' = [onDisk EXCEPT ![e] = Nothing] /\ sentOn' = [sentOn EXCEPT ![e] = @ + 1]
  /\ Met
  /\ UNCHANGED <<archive, daemon, keysMade, wiped, restores, atBackup>>

\* enforce_identity_gate: without the gate a node without a key starts, and cannot sign.
StartDaemon ==
  /\ Gated => KeyPresent(onDisk)
  /\ daemon' = Signer(onDisk)
  /\ UNCHANGED <<onDisk, archive, trustJob, tally, atBackup, torn>>

WipeMachine ==
  /\ wiped < MaxWipes /\ wiped' = wiped + 1
  /\ onDisk' = NoFiles /\ daemon' = Nothing /\ trustJob' = NoTask /\ torn' = FALSE
  /\ UNCHANGED <<archive, keysMade, restores, sentOn, atBackup>>

-------------------------------------------------------------------------------
(* create_backup: list, read each file, replace the archive.               *)

StartBackup(allowPartial) ==
  /\ trustJob = NoTask /\ InPlace(onDisk) # {} /\ (KeyPresent(onDisk) \/ allowPartial)
  /\ trustJob' = [step |-> "read", todo |-> InPlace(onDisk), read |-> NoFiles, from |-> keysMade]
  /\ UNCHANGED <<machine, archive, tally, atBackup, torn>>

\* A file that left since it was listed raises: no archive, and the old one stays.
ReadPayload ==
  /\ trustJob.step = "read"
  /\ \E f \in First(trustJob.todo) :
       trustJob' = IF onDisk[f] = Nothing THEN NoTask
                   ELSE [trustJob EXCEPT !.todo = @ \ {f}, !.read[f] = onDisk[f]]
  /\ UNCHANGED <<machine, archive, tally, atBackup, torn>>

ReplaceArchive ==
  /\ trustJob.step = "read" /\ trustJob.todo = {}
  /\ archive' = trustJob.read /\ trustJob' = NoTask
  /\ atBackup' = [made |-> trustJob.from, signer |-> Signer(onDisk), torn |-> torn]
  /\ UNCHANGED <<machine, tally, torn>>

-------------------------------------------------------------------------------
(* restore_backup: the whole archive is read and verified first.           *)

StartRestore(force) ==
  /\ trustJob = NoTask /\ InPlace(archive) # {} /\ restores < MaxRestores
  /\ restores' = restores + 1
  /\ trustJob' = [step |-> "restore", todo |-> InPlace(archive), staged |-> archive,
                  file |-> "none", before |-> onDisk, force |-> force, conflicts |-> {},
                  met |-> FALSE]
  /\ torn' = (torn \/ atBackup.torn)
  /\ UNCHANGED <<machine, archive, keysMade, wiped, sentOn, atBackup>>

Differs(f)   == onDisk[f] # Nothing /\ onDisk[f] # trustJob.staged[f]
Tramples(f)  == FALSE
Conflicts(f) == Differs(f) /\ ~trustJob.force

ComparePayload ==
  /\ trustJob.step = "restore"
  /\ \E f \in First(trustJob.todo) :
       LET rest == [trustJob EXCEPT !.todo = @ \ {f}] IN
       trustJob' = IF onDisk[f] = trustJob.staged[f] THEN rest
                   ELSE IF Conflicts(f) THEN [rest EXCEPT !.conflicts = @ \cup {f}]
                   ELSE [trustJob EXCEPT !.step = "put", !.file = f]
  /\ UNCHANGED <<machine, archive, tally, atBackup, torn>>

PutPayload ==
  /\ trustJob.step = "put"
  /\ onDisk' = [onDisk EXCEPT ![trustJob.file] = trustJob.staged[trustJob.file]]
  /\ trustJob' = [trustJob EXCEPT !.step = "restore", !.todo = @ \ {trustJob.file}]
  /\ UNCHANGED <<daemon, archive, tally, atBackup, torn>>

ReportRestore ==
  /\ trustJob.step = "restore" /\ trustJob.todo = {} /\ trustJob' = NoTask
  /\ UNCHANGED <<machine, archive, tally, atBackup, torn>>

\* A backup that dies leaves a temporary file; a restore what it has replaced so far.
JobDies ==
  /\ trustJob # NoTask /\ trustJob' = NoTask
  /\ torn' = (torn \/ Restoring)
  /\ UNCHANGED <<machine, archive, tally, atBackup>>

BackupNext ==
  \/ \E f \in PrivateKeys : MakeIdentity(f)
  \/ \E e \in Waiting : KeepEntry(e) \/ SendEntry(e)
  \/ \E b \in BOOLEAN : StartBackup(b) \/ StartRestore(b)
  \/ PinPeer \/ StartDaemon \/ WipeMachine \/ ReadPayload \/ ReplaceArchive
  \/ ComparePayload \/ PutPayload \/ ReportRestore \/ JobDies

BackupSpec == BackupInit /\ [][BackupNext]_backupVars

-------------------------------------------------------------------------------
Holds(f)  == CASE f = "pins" -> 0..MaxPinned [] f \in Waiting -> {0, 1} [] OTHER -> 0..MaxIdentities
FileMaps  == {files \in [TrustFiles -> Nat] : \A f \in TrustFiles : files[f] \in Holds(f)}
Reads     == [step : {"read"}, todo : SUBSET BackupSet, read : FileMaps, from : 0..MaxIdentities]
Restores  == [step : {"restore", "put"}, todo : SUBSET BackupSet, staged : FileMaps,
              file : BackupSet \cup {"none"}, before : FileMaps, force : BOOLEAN,
              conflicts : SUBSET BackupSet, met : BOOLEAN]

(* Every variable keeps its shape.                                         *)
BackupTypeOK ==
  /\ onDisk \in FileMaps /\ archive \in FileMaps
  /\ trustJob \in {NoTask} \cup Reads \cup Restores
  /\ daemon \in 0..MaxIdentities /\ keysMade \in 0..MaxIdentities
  /\ wiped \in 0..MaxWipes /\ restores \in 0..MaxRestores
  /\ sentOn \in [Waiting -> 0..(MaxRestores + 1)]
  /\ atBackup \in [made : 0..MaxIdentities, signer : 0..MaxIdentities, torn : BOOLEAN]
  /\ torn \in BOOLEAN

\* A restore that is about to report.
Restored == trustJob.step = "restore" /\ trustJob.todo = {}
\* The archive holds the key its node signed with, none of which the set leaves out,
\* and no identity was made while it was taken or since.
Recoverable ==
  Signer(archive) = atBackup.signer /\ atBackup.made = keysMade /\ onDisk["homeKey"] = Nothing

(* "A restore never silently clobbers a live identity": where nobody else  *)
(* writes meanwhile, a restore without --force leaves every file that was  *)
(* there as it was; it reports ok only if every file is as the archive has *)
(* it, and a conflict only for one that still differs.                     *)
RestoreIsTrue == Restored /\ ~trustJob.met =>
  LET Kept(f) == trustJob.before[f] \in {Nothing, onDisk[f]}
      Back(f) == trustJob.staged[f] \in {Nothing, onDisk[f]} IN
  /\ ~trustJob.force => \A f \in TrustFiles : Kept(f)
  /\ trustJob.conflicts = {} <=> \A f \in BackupSet : Back(f)

(* SOP.md 11, restored and never regenerated: after a restore that reports *)
(* ok the node signs as the one did whose backup it was, however often a   *)
(* restore was killed before; and its two halves of a key belong together, *)
(* unless a restore was torn since they were made.                         *)
SameIdentity ==
  /\ Restored /\ trustJob.conflicts = {} /\ Recoverable => Signer(onDisk) = atBackup.signer
  /\ onDisk["agentKey"] # onDisk["agentPub"] => torn \/ Restoring

(* A restored entry of the outbox goes out again, once per restore.        *)
SentPerRestore == \A e \in Waiting : sentOn[e] <= 1 + restores

BackupKeeps == RestoreIsTrue /\ SameIdentity /\ SentPerRestore
===============================================================================
