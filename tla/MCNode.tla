-------------------------------- MODULE MCNode --------------------------------
(* The parts of a node that share no state with one another, in one        *)
(* instance for TLC: "part" chooses which of them a behaviour is about,    *)
(* and the others rest in one of their initial states.                     *)
EXTENDS Consent, GroupConsent, MessageQueue, Migration, Signaling, WebRtc, Transfer, Trust,
        Backup, TLC

CONSTANTS A, L1, L2, C1, C2, C3, F, G, U1, U2, V1, V2

VARIABLE part

KnockFrom == [k \in Knocks |-> A]
FpOfConn  == (C1 :> F) @@ (C2 :> F) @@ (C3 :> G)
Found     == {(L1 :> pair[1]) @@ (L2 :> pair[2]) :
               pair \in {<<"line", "undrainable">>, <<"line", "corrupt">>,
                             <<"bare", "deadEnd">>, <<"shared", "corrupt">>, <<"legacy", "bare">>}}
\* The actors of every part are U1 and U2, the knocks and the keys V1 and V2.
Symmetry  == Permutations({U1, U2}) \cup Permutations({V1, V2})

NodeInit ==
  /\ part \in {"consent", "group", "queue", "migration", "signaling", "webrtc", "transfer", "trust",
              "backup"}
  /\ ConsentInit /\ GroupInit /\ QueueInit /\ MigrationInit /\ SignalingInit /\ WebRtcInit
  /\ TransferInit /\ TrustInit /\ BackupInit
  /\ part # "group" => joinMode = "open"
  /\ part # "queue" => stored = {} /\ home = [d \in Drainers |-> CHOOSE a \in Agents : TRUE]
  /\ part # "migration" => origin = CHOOSE u \in Upgrades : TRUE
  /\ part # "transfer" => source = CHOOSE bytes \in Data : TRUE

Resting(name, state) == IF part = name THEN TRUE ELSE UNCHANGED state

NodeNext ==
  /\ \/ part = "consent" /\ ConsentNext
     \/ part = "group" /\ GroupNext
     \/ part = "queue" /\ QueueNext
     \/ part = "migration" /\ ~overlap /\ MigrationNext   \* beyond it nothing is promised
     \/ part = "signaling" /\ SignalingNext
     \/ /\ part = "webrtc" /\ WebRtcNext
        /\ stops' = 0 \/ \E s \in Callers : \A c \in Callers \ {s} : call'[c] = Free   \* a stop meets one call
     \/ part = "transfer" /\ TransferNext
     \/ part = "trust" /\ ~contended /\ TrustNext          \* nor here
     \/ part = "backup" /\ BackupNext
  /\ UNCHANGED part
  /\ Resting("consent", consentVars) /\ Resting("group", groupVars)
  /\ Resting("queue", queueVars) /\ Resting("migration", migrationVars)
  /\ Resting("signaling", signalingVars) /\ Resting("webrtc", webrtcVars)
  /\ Resting("transfer", transferVars) /\ Resting("trust", trustVars)
  /\ Resting("backup", backupVars)

NodeSpec == NodeInit /\ [][NodeNext]_<<part, consentVars, groupVars, queueVars, migrationVars,
                                      signalingVars, webrtcVars, transferVars, trustVars,
                                      backupVars>>

(* What is left of an earlier version, or of a process that died, is taken *)
(* up without loss: the letters of a shared queue (QueueKeeps) and the     *)
(* outbox of an older release (MigrationKeeps).                            *)
LegacyKeeps == QueueKeeps /\ MigrationKeeps

(* A node knows its peers and itself by the same keys as before: through   *)
(* pins and re-pins (TrustKeeps), through backup and restore (BackupKeeps). *)
KeysKeep == TrustKeeps /\ BackupKeeps
===============================================================================
