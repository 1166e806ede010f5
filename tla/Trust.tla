--------------------------------- MODULE Trust ---------------------------------
(***************************************************************************)
(* The trust stores of a node: the fingerprint pins (skcomms/tofu.py), the *)
(* peers an operator added (peers.py, pairing.py) and the peers discovery  *)
(* found (discovery.py PeerStore, nostr_discovery.py record_to_peer).      *)
(* Clients are processes: each makes a first or a further contact, adds or *)
(* removes a peer, or re-pins a rotated key.  A JSON store is loaded,      *)
(* changed, written to the one temporary name it has and renamed, without  *)
(* a lock; one that two clients wrote together may be cut short, Garbled,  *)
(* and is read as empty.                                                   *)
(*                                                                         *)
(* A key stands for its fingerprint and its armor.  A discovered peer's    *)
(* file is named after the agent part of its handle; no two handles here   *)
(* share one.  The definitions no action uses are plausible faults of the  *)
(* one after them.                                                         *)
(***************************************************************************)
EXTENDS Naturals, FiniteSets

CONSTANTS Handles, Keys, Clients,
          NoKey, Garbled,
          NoPrint   \* an armor that no fingerprint is derived from: any, where PGPy is missing

Stores == {"pins", "peers"}
\* "armor": the pin caches the key itself.
Entry  == [key : Keys, armor : BOOLEAN]
Copies == [Handles -> Entry \cup {NoKey}]

ASSUME TrustAssumption ==
  /\ IsFiniteSet(Keys) /\ NoKey \notin Keys \cup Entry /\ Garbled \notin Copies
  /\ NoPrint \notin Keys \cup {NoKey}

VARIABLES
  store, temp,  \* known_fingerprints.json and peers.json, and their .json.tmp
  directory,    \* the key in each discovered peer's file
  client,       \* what each client does next
  repinned,     \* history: the keys each handle was re-pinned to
  trusted,      \* history: the keys pinned at a first contact, or answered "trusted"
  contended     \* history: two clients were changing the pins at the same time

trustFiles == <<store, temp, directory>>
trustVars  == <<trustFiles, client, repinned, trusted, contended>>

Goals == {"add", "grant", "record", "repin", "remove"}
Done  == [step |-> "done"]
Clientele == {Done}
  \cup [step : {"verify", "pin", "trust", "load", "merge", "upsert"}, goal : Goals,
        of : Handles, key : Keys]
  \cup [step : {"merge", "upsert"}, goal : Goals, of : Handles, key : {NoPrint}]
  \cup [step : {"write", "replace"}, goal : Goals, of : Handles, key : Keys,
        file : Stores, copy : Copies]

TrustInit ==
  /\ store = [f \in Stores |-> [h \in Handles |-> NoKey]] /\ temp = [f \in Stores |-> NoKey]
  /\ directory = [h \in Handles |-> NoKey] /\ client = [c \in Clients |-> Done]
  /\ repinned = [h \in Handles |-> {}] /\ trusted = [h \in Handles |-> {}]
  /\ contended = FALSE

Loaded(f)   == IF store[f] = Garbled THEN [h \in Handles |-> NoKey] ELSE store[f]
Writing(t, f) == t.step \in {"write", "replace"} /\ t.file = f
\* It has read the pins and is going to write them.
Pinning(t)  == t.step = "pin" \/ Writing(t, "pins")
Becomes(c, t) ==
  /\ client' = [client EXCEPT ![c] = t]
  /\ contended' = (contended \/ \E a, b \in Clients :
                     a # b /\ Pinning(client'[a]) /\ Pinning(client'[b]))
To(c, s)          == Becomes(c, [client[c] EXCEPT !.step = s])
Changes(c, g, h, k, f, copy) ==
  Becomes(c, [step |-> "write", goal |-> g, of |-> h, key |-> k, file |-> f, copy |-> copy])

-------------------------------------------------------------------------------
(* verify_fingerprint, for add_peer, verify_grant and record_to_peer.      *)

Contact(c, g, h, k) ==
  /\ client[c] = Done /\ g \in {"add", "grant", "record"}
  /\ Becomes(c, [step |-> "verify", goal |-> g, of |-> h, key |-> k])
  /\ UNCHANGED <<trustFiles, repinned, trusted>>

\* record_to_peer verifies nothing then, and the armor is stored all the same.
RecordUnverified(c, h) ==
  /\ client[c] = Done
  /\ Becomes(c, [step |-> "merge", goal |-> "record", of |-> h, key |-> NoPrint])
  /\ UNCHANGED <<trustFiles, repinned, trusted>>

NotConflicting(e, k) == e # NoKey
\* TRUST_MATCH; any other pinned key is a CONFLICT.
Matching(e, k)       == e # NoKey /\ e.key = k

VerifyFingerprint(c) ==
  /\ client[c].step = "verify"
  /\ LET stored == Loaded("pins")[client[c].of] IN
       CASE stored = NoKey                  -> To(c, "pin")
         [] Matching(stored, client[c].key) -> To(c, "trust")
         [] OTHER                           -> Becomes(c, Done)
  /\ UNCHANGED <<trustFiles, repinned, trusted>>

\* record_fingerprint loads the store once more.
RecordFingerprint(c) ==
  LET t == client[c] IN
  /\ t.step = "pin"
  /\ Changes(c, t.goal, t.of, t.key, "pins",
             [Loaded("pins") EXCEPT ![t.of] = [key |-> t.key, armor |-> TRUE]])
  /\ UNCHANGED <<trustFiles, repinned, trusted>>

\* TRUST_NEW or TRUST_MATCH; what the caller does then.
Trusted(c) ==
  /\ client[c].step = "trust"
  /\ trusted' = [trusted EXCEPT ![client[c].of] = @ \cup {client[c].key}]
  /\ CASE client[c].goal = "add"    -> To(c, "load")
       [] client[c].goal = "record" -> To(c, "merge")
       [] OTHER                     -> Becomes(c, Done)
  /\ UNCHANGED <<trustFiles, repinned>>

\* repin_fingerprint; without --pubkey-file the armor is dropped.
Repin(c, h, k, withArmor) ==
  /\ client[c] = Done
  /\ Changes(c, "repin", h, k, "pins",
             [Loaded("pins") EXCEPT ![h] = [key |-> k, armor |-> withArmor]])
  /\ repinned' = [repinned EXCEPT ![h] = @ \cup {k}]
  /\ UNCHANGED <<trustFiles, trusted>>

-------------------------------------------------------------------------------
(* The end of add_peer, and remove_peer.                                   *)

AddPeer(c) ==
  LET t == client[c] IN
  /\ t.step = "load"
  /\ Changes(c, t.goal, t.of, t.key, "peers",
             [Loaded("peers") EXCEPT ![t.of] = [key |-> t.key, armor |-> FALSE]])
  /\ UNCHANGED <<trustFiles, repinned, trusted>>

RemovePeer(c, h) ==
  /\ client[c] = Done /\ Loaded("peers")[h] # NoKey
  /\ Changes(c, "remove", h, Loaded("peers")[h].key, "peers",
             [Loaded("peers") EXCEPT ![h] = NoKey])
  /\ UNCHANGED <<trustFiles, repinned, trusted>>

-------------------------------------------------------------------------------
(* _save_store and _save_peers.                                            *)

WriteTemp(c) ==
  /\ client[c].step = "write"
  /\ temp' = [temp EXCEPT ![client[c].file] = client[c].copy]
  /\ To(c, "replace")
  /\ UNCHANGED <<store, directory, repinned, trusted>>

\* The temporary file may be the other client's, or be cut short by it, or be
\* gone already.
Replace(c) ==
  LET t == client[c]
      f == t.file IN
  /\ t.step = "replace"
  /\ IF temp[f] = NoKey
     THEN Becomes(c, Done) /\ UNCHANGED <<store, temp, trusted>>
     ELSE /\ \/ store' = [store EXCEPT ![f] = temp[f]]
             \/ /\ \E d \in Clients \ {c} : client[d].step = "write" /\ client[d].file = f
                /\ store' = [store EXCEPT ![f] = Garbled]
          /\ temp' = [temp EXCEPT ![f] = NoKey]
          /\ IF f = "pins" /\ t.goal # "repin"
             THEN /\ trusted' = [trusted EXCEPT ![t.of] = @ \cup {t.key}]
                  /\ Becomes(c, [step |-> "trust", goal |-> t.goal, of |-> t.of, key |-> t.key])
             ELSE Becomes(c, Done) /\ UNCHANGED trusted
  /\ UNCHANGED <<directory, repinned>>

-------------------------------------------------------------------------------
(* PeerStore.add: the record is merged into the file of its agent name.    *)

NewestWins(old, k) == k
\* "self.pubkey or other.pubkey": the first key stays.
Merged(old, k)     == IF old = NoKey THEN k ELSE old

\* A file that another client is writing may be read as absent.
Upserts(d, h) == client[d].step = "upsert" /\ client[d].of = h
FoundPeer(c, h) ==
  {directory[h]} \cup IF \E d \in Clients \ {c} : Upserts(d, h) THEN {NoKey} ELSE {}

MergePeer(c) ==
  /\ client[c].step = "merge"
  /\ \E old \in FoundPeer(c, client[c].of) :
       Becomes(c, [client[c] EXCEPT !.step = "upsert", !.key = Merged(old, @)])
  /\ UNCHANGED <<trustFiles, repinned, trusted>>

UpsertPeer(c) ==
  /\ client[c].step = "upsert"
  /\ directory' = [directory EXCEPT ![client[c].of] = client[c].key]
  /\ Becomes(c, Done)
  /\ UNCHANGED <<store, temp, repinned, trusted>>

RemoveDiscovered(h) ==
  /\ directory[h] # NoKey /\ directory' = [directory EXCEPT ![h] = NoKey]
  /\ UNCHANGED <<store, temp, client, repinned, trusted, contended>>

\* Whoever writes next overwrites the temporary file it leaves; the file of a
\* discovered peer is written in place.
ClientDies(c) ==
  /\ client[c] # Done /\ Becomes(c, Done)
  /\ temp' = [f \in Stores |->
       IF \E d \in Clients \ {c} : client[d].step = "replace" /\ client[d].file = f
       THEN temp[f] ELSE NoKey]
  /\ \/ UNCHANGED directory
     \/ \E h \in Handles : Upserts(c, h) /\ directory' = [directory EXCEPT ![h] = NoKey]
  /\ UNCHANGED <<store, repinned, trusted>>

TrustNext ==
  \/ \E c \in Clients :
       \/ VerifyFingerprint(c) \/ RecordFingerprint(c) \/ Trusted(c) \/ AddPeer(c) \/ WriteTemp(c)
       \/ Replace(c) \/ MergePeer(c) \/ UpsertPeer(c) \/ ClientDies(c)
       \/ \E h \in Handles : \/ RemovePeer(c, h) \/ RecordUnverified(c, h)
                             \/ \E k \in Keys : \/ \E g \in Goals : Contact(c, g, h, k)
                                                \/ \E b \in BOOLEAN : Repin(c, h, k, b)
  \/ \E h \in Handles : RemoveDiscovered(h)

TrustSpec == TrustInit /\ [][TrustNext]_trustVars

-------------------------------------------------------------------------------
(* Every variable keeps its shape.                                         *)
TrustTypeOK ==
  /\ store \in [Stores -> Copies \cup {Garbled}] /\ temp \in [Stores -> Copies \cup {NoKey}]
  /\ directory \in [Handles -> Keys \cup {NoKey, NoPrint}] /\ client \in [Clients -> Clientele]
  /\ repinned \in [Handles -> SUBSET Keys] /\ trusted \in [Handles -> SUBSET Keys]
  /\ contended \in BOOLEAN
\* The keys that verify the envelopes of h (api.py _build_inbox_verifier).
VerifierKey(h) ==
  IF Loaded("pins")[h] # NoKey /\ Loaded("pins")[h].armor THEN Loaded("pins")[h].key
                                                          ELSE directory[h]

\* "No silent overwrite": apart from re-pins a handle never has two trusted
\* keys, and no trusted handle is forgotten.
OneKey == \A h \in Handles :
  /\ Cardinality(trusted[h] \ repinned[h]) <= 1
  /\ trusted[h] # {} => Loaded("pins")[h] # NoKey

\* The key that the operator's peers name for h.
PeerKey(h) == IF Loaded("peers")[h] = NoKey THEN NoKey ELSE Loaded("peers")[h].key

\* A key an operator's peers name, or an inbox verifies by, was trusted or re-pinned for
\* that handle first; but for an armor nobody derived a fingerprint from.
KeysComeFromPins == \A h \in Handles :
  LET sure == trusted[h] \cup repinned[h] \cup {NoKey} IN
    VerifierKey(h) \in sure \cup {NoPrint} /\ PeerKey(h) \in sure

KeysAgree == \A h \in Handles : repinned[h] = {} =>
  \A a, b \in {VerifierKey(h), PeerKey(h)} \ {NoKey, NoPrint} : a = b

(* tofu.py, "the ONLY sanctioned way to replace a stored fingerprint": as  *)
(* long as no two clients change the pins at the same time, contacts,      *)
(* peers and the inbox agree about the key of a handle that was never      *)
(* re-pinned; with re-pins each of them has a key that was trusted or      *)
(* re-pinned, and they may differ: a re-pin without the armor leaves the   *)
(* inbox the discovered key, against "a stale pubkey for a rotated key is  *)
(* worse than none" (tofu.py).                                             *)
TrustKeeps == ~contended => OneKey /\ KeysComeFromPins /\ KeysAgree
===============================================================================
