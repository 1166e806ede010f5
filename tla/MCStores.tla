-------------------------------- MODULE MCStores --------------------------------
(* The outbox, the folders that Syncthing shares (their provisioning, the  *)
(* rail through them, the mailboxes in them), the heartbeat file and the   *)
(* radio rails, none of which shares state with another, in one instance   *)
(* for TLC: "part" chooses which of them a behaviour is about, and the     *)
(* others rest in one of their initial states.                             *)
EXTENDS MCOutbox, Syncthing, Mailbox, Radio, Heartbeat, TLC

CONSTANTS Desk, Laptop, N1, N2, N3, N4, U1, U2

VARIABLE part

\* N4 lies behind N3, to which N1 has a short way and a long one.
Wires   == {{N1, N2}, {N1, N3}, {N2, N3}, {N3, N4}}
Hearing == {l \in MeshNodes \X MeshNodes : {l[1], l[2]} \in Wires}

\* The retry workers and the provisioning runs.
StoresSymmetry == Permutations({U1, U2})

StoresInit ==
  /\ part \in {"outbox", "provision", "syncrail", "mailbox", "mesh", "lora", "heartbeat",
             "conversations"}
  /\ Init
  /\ part # "outbox" => cur = [p \in Procs |-> 1]
  /\ ProvisionInit
  /\ part # "provision" => listed = {}
  /\ SyncRailInit
  /\ part # "syncrail" => author = [i \in PostIds |-> Laptop]
  \* Two envelopes of two machines differ in nothing but their machines.
  /\ author \in {[i \in PostIds |-> Laptop], [i \in PostIds |-> IF i = 1 THEN Desk ELSE Laptop]}
  /\ MailboxInit
  /\ part # "mailbox" => /\ identities = {} /\ outboxed = [l \in Missives |-> NoFile]
                         /\ missive = CHOOSE f \in [Missives -> OldMissives] : TRUE
  /\ ConversationsInit
  /\ form[TurnCount] = "text"   \* of the messages of a conversation one is a text
  /\ part # "conversations" => /\ form = [t \in Turns |-> "text"] /\ request = "detail"
                               /\ lies = [t \in Turns |-> {}]
  /\ MeshInit /\ LoraInit /\ HeartbeatInit

AtRest(name, state) == IF part = name THEN TRUE ELSE UNCHANGED state

storesVars == <<part, vars, provisionVars, syncVars, mailboxVars, meshVars, loraVars,
                heartbeatVars, conversationsVars>>

StoresNext ==
  /\ \/ part = "outbox" /\ Next
     \/ part = "provision" /\ ProvisionNext
     \/ /\ part = "syncrail" /\ SyncRailNext
        /\ mishaps' = 0 \/ author[1] = Laptop   \* a poll dies where one machine wrote both
     \/ part = "mailbox" /\ MailboxNext
     \/ part = "mesh" /\ MeshNext
     \/ part = "lora" /\ LoraNext
     \/ part = "heartbeat" /\ HeartbeatNext
     \/ part = "conversations" /\ ConversationsNext
     \/ part # "outbox" /\ UNCHANGED storesVars   \* at their bounds they stop
  /\ UNCHANGED part
  /\ AtRest("outbox", vars) /\ AtRest("provision", provisionVars)
  /\ AtRest("syncrail", syncVars) /\ AtRest("mailbox", mailboxVars)
  /\ AtRest("mesh", meshVars) /\ AtRest("lora", loraVars)
  /\ AtRest("heartbeat", heartbeatVars)
  /\ AtRest("conversations", conversationsVars)

StoresSpec == StoresInit /\ [][StoresNext]_storesVars

(* Syncthing: the daemon shares the folders the peers' records call for    *)
(* (see ProvisionKeeps), what is written into a shared folder is not lost  *)
(* on the way (see SyncKeeps), what lies in one can be opened by nobody but    *)
(* whom it is for (see MailboxKeeps), and the API lists all of it, though  *)
(* it moves about meanwhile (see ConversationsKeep).                       *)
SyncthingKeeps == ProvisionKeeps /\ SyncKeeps /\ MailboxKeeps /\ ConversationsKeep

(* What a node sends out at intervals or over the air: its heartbeat file  *)
(* is whole and recent while it runs (see HeartbeatKeeps), and the mesh    *)
(* and the LoRa rail do what they promise (see RadioKeeps).                *)
BeaconsKeep == RadioKeeps /\ HeartbeatKeeps
===============================================================================
