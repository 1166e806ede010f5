-------------------------------- MODULE Sealing --------------------------------
(***************************************************************************)
(* What the engine makes of a payload (core.py send and receive, crypto.py *)
(* EnvelopeCrypto and KeyStore, compression.py, pqdm.py): compressed,      *)
(* signed, sealed to the peer, carried, opened, expanded, handed on and    *)
(* acknowledged.  One node sends letters to one peer, with encryption and  *)
(* the verification of ACKs switched on.  The crypto engine of this node   *)
(* may be without PGPy, or missing: it is made once per process, and is    *)
(* none when no private key was found or it could not be read.  The        *)
(* engine of the peer is whole.                                            *)
(*                                                                         *)
(* The key of the peer is a file that its YAML record names, and is read   *)
(* once per process, by the first thread that asks for a key.  Whoever     *)
(* adds the peer again (PeerStore.add) rewrites the record without that    *)
(* name, which only an operator's hand puts there.  A key is its           *)
(* generation; 0 is none, and the key file that is missing, empty or not   *)
(* readable.  The peer's own keys change: its PGP key when it restarts     *)
(* with another one, its prekey when it publishes a new one.               *)
(* Each letter is one call of send.  The definitions no action uses are    *)
(* plausible faults of the one after them.                                 *)
(*                                                                         *)
(* At the end of the module: the forms a signed envelope takes on a wire   *)
(* that may garble it, and what its receiver makes of it (signing.py,      *)
(* pqsig.py, pqroute.py, pqroute_transport.py, anon_queue.py,              *)
(* anon_transport.py, pqdm.py seal_multi, padding.py).                     *)
(***************************************************************************)
EXTENDS Integers

CONSTANTS Letters,
          MaxRotations,     \* bound on the new keys of each kind
          MaxEdits,         \* bound on the changes of the record
          MaxProcesses,     \* bound on the processes that send, one after the other
          Speakers,         \* fqids of one name, at different operators
          Receivers,        \* devices, relays and queues
          Ladder,           \* PAD_LADDER, in units of the length prefix
          LongestBody,
          MaxGarbles        \* bound on what the wire does to one frame

ASSUME WireAssumption ==
  /\ Ladder # {} /\ Ladder \subseteq Nat \ {0} /\ {LongestBody, MaxGarbles} \subseteq Nat
ASSUME SealingAssumption == {MaxRotations, MaxEdits, MaxProcesses} \subseteq Nat

Generations == 0..(MaxRotations + 1)
Engines     == {"whole", "pgpless", "none"}
Plain == [sealed |-> "no", gen |-> 0, zipped |-> FALSE, encrypted |-> FALSE, compressed |-> FALSE]

VARIABLES
  record,       \* the peer's YAML: "bare", "linked" to the key file, or "torn"
  keyFile,      \* the key in the file that it names
  edits,
  processes, engine,
  loaded,       \* "no", "loading" (the flag is up, the keys are not there) or "yes"
  known,        \* the peer's key in the key store
  peerKey, prekey,
  bundle,       \* the peer's prekey as this node has it; half written it is none
  stage, payload, byName,
  reply,        \* the peer's ACK of a letter, and the key that signed it
  signer,
  linked,       \* history: the record named a key when the keys were loaded
  inClear,      \* history: why a letter went out in the clear
  keysHeld          \* history: the peer's keys when a letter was handed on

recordVars  == <<record, keyFile, edits>>
processVars == <<processes, engine>>
storeVars   == <<loaded, known, linked>>
peerVars    == <<peerKey, prekey, bundle>>
letterVars  == <<stage, payload, byName, inClear>>
replyVars   == <<reply, signer, keysHeld>>
sealingVars == <<recordVars, processVars, storeVars, peerVars, letterVars, replyVars>>

SealingInit ==
  /\ record \in {"bare", "linked"} /\ edits = 0
  /\ keyFile \in IF record = "linked" THEN {0, 1} ELSE {0}
  /\ processes = 1 /\ engine \in Engines
  /\ loaded = "no" /\ known = 0 /\ linked = FALSE
  /\ peerKey = 1 /\ prekey \in {0, 1} /\ bundle = prekey
  /\ stage = [m \in Letters |-> "unsent"] /\ payload = [m \in Letters |-> Plain]
  /\ byName = [m \in Letters |-> TRUE] /\ inClear = [m \in Letters |-> "no"]
  /\ reply = [m \in Letters |-> "none"] /\ signer = [m \in Letters |-> 0]
  /\ keysHeld = [m \in Letters |-> <<0, 0>>]

-------------------------------------------------------------------------------
(* The record of the peer, and the keys of the peer.                       *)

\* By hand: the record names a file with the key that the peer has then, or one
\* that is not there.
LinkKey ==
  /\ record # "torn" /\ edits < MaxEdits /\ edits' = edits + 1
  /\ record' = "linked" /\ keyFile' \in {0, peerKey}
  /\ UNCHANGED <<processVars, storeVars, peerVars, letterVars, replyVars>>

\* add: what PeerInfo has no field for is not written again.
AddOpen ==
  /\ record # "torn" /\ edits < MaxEdits /\ edits' = edits + 1
  /\ record' = "torn" /\ keyFile' = 0
  /\ UNCHANGED <<processVars, storeVars, peerVars, letterVars, replyVars>>

AddFlush ==
  /\ record = "torn" /\ record' = "bare"
  /\ UNCHANGED <<keyFile, edits, processVars, storeVars, peerVars, letterVars, replyVars>>

RotateKey ==
  /\ peerKey <= MaxRotations /\ peerKey' = peerKey + 1
  /\ UNCHANGED <<recordVars, processVars, storeVars, prekey, bundle, letterVars, replyVars>>

RotatePrekey ==
  /\ prekey \in 1..MaxRotations /\ prekey' = prekey + 1
  /\ UNCHANGED <<recordVars, processVars, storeVars, peerKey, bundle, letterVars, replyVars>>

\* The peer's bundle is fetched anew, into a file that may be read half written.
FetchBundle ==
  /\ bundle # prekey /\ bundle' = IF bundle = 0 THEN prekey ELSE 0
  /\ UNCHANGED <<recordVars, processVars, storeVars, peerKey, prekey, letterVars, replyVars>>

\* What was not sent by then is lost with the process.
RestartEngine ==
  /\ processes < MaxProcesses /\ processes' = processes + 1 /\ engine' \in Engines
  /\ loaded' = "no" /\ known' = 0 /\ linked' = FALSE
  /\ stage' = [m \in Letters |->
                 IF stage[m] \in {"composed", "loading"} THEN "lost" ELSE stage[m]]
  /\ reply' = [m \in Letters |-> IF reply[m] = "loading" THEN "out" ELSE reply[m]]
  /\ UNCHANGED <<recordVars, peerVars, payload, byName, inClear, signer, keysHeld>>

-------------------------------------------------------------------------------
(* KeyStore._ensure_loaded: the flag goes up before the files are read.    *)

StartLoading == loaded = "no" /\ loaded' = "loading" /\ UNCHANGED <<known, linked>>
LoadKeys     ==
  /\ loaded = "loading" /\ loaded' = "yes"
  /\ known' = IF record = "linked" THEN keyFile ELSE 0
  /\ linked' = (record = "linked" /\ keyFile # 0)
  /\ stage' = [m \in Letters |-> IF stage[m] = "loading" THEN "composed" ELSE stage[m]]
  /\ reply' = [m \in Letters |-> IF reply[m] = "loading" THEN "out" ELSE reply[m]]
  /\ UNCHANGED <<recordVars, processVars, peerVars, payload, byName, inClear, signer, keysHeld>>

-------------------------------------------------------------------------------
(* send: compress_payload, sign_payload, and the sealing.                  *)

Compose(m) ==
  /\ stage[m] = "unsent"
  /\ \E long, name \in BOOLEAN :
       /\ payload' = [payload EXCEPT ![m].zipped = long, ![m].compressed = long]
       /\ byName' = [byName EXCEPT ![m] = name]
  /\ stage' = [stage EXCEPT ![m] = "composed"]
  /\ UNCHANGED <<recordVars, processVars, storeVars, peerVars, inClear, replyVars>>

\* sign_payload and encrypt_payload fail closed: nothing is sent or queued.
Refuse(m) ==
  /\ stage[m] = "composed" /\ engine # "none" /\ stage' = [stage EXCEPT ![m] = "refused"]
  /\ UNCHANGED <<recordVars, processVars, storeVars, peerVars, payload, byName, inClear, replyVars>>

AskFirst(m) ==
  /\ stage[m] = "composed" /\ engine # "none" /\ StartLoading
  /\ stage' = [stage EXCEPT ![m] = "loading"]
  /\ UNCHANGED <<recordVars, processVars, peerVars, payload, byName, inClear, replyVars>>

\* The hybrid suite if a whole bundle is there, else the PGP key, for which
\* PGPy is needed.
SealedHybrid(p) == [p EXCEPT !.sealed = "hybrid", !.gen = bundle, !.encrypted = TRUE]
SealedPgp(p)    == [p EXCEPT !.sealed = "pgp", !.gen = known, !.encrypted = TRUE]
Sealed(p)       == IF bundle # 0 THEN SealedHybrid(p)
                   ELSE IF engine = "pgpless" THEN p ELSE SealedPgp(p)

FoundKey(m) == engine # "none" /\ byName[m] /\ known # 0
WhyClear(m) == IF engine = "none" THEN "cryptoless"
               ELSE IF ~byName[m] THEN "unnamed"
               ELSE IF loaded = "loading" THEN "raced"
               ELSE IF ~linked THEN "keyless"
               ELSE IF engine = "pgpless" /\ bundle = 0 THEN "pgpless" ELSE "no"

\* An engine that sends what it could not seal.
SealedOrNot(p) == {p, Sealed(p)}
WhatGoesOut(p) == {Sealed(p)}

\* The letter is routed or queued, signed or (if that fails) not: the headers of
\* the signed form carry the flags that the plain form has itself.
Send(m) ==
  /\ stage[m] = "composed" /\ (engine = "none" \/ loaded # "no")
  /\ \E p \in IF FoundKey(m) THEN WhatGoesOut(payload[m]) ELSE {payload[m]} :
       payload' = [payload EXCEPT ![m] = p]
  /\ inClear' = [inClear EXCEPT ![m] = WhyClear(m)]
  /\ stage' = [stage EXCEPT ![m] = "sent"]
  /\ UNCHANGED <<recordVars, processVars, storeVars, peerVars, byName, replyVars>>

-------------------------------------------------------------------------------
(* receive: _apply_inbound_crypto, _apply_decompression, _send_auto_ack.   *)

OpensHybrid(p) == p.sealed = "hybrid" /\ p.gen = prekey
OpensPgp(p)    == p.sealed = "pgp" /\ p.gen = peerKey

\* What cannot be opened is handed on as it came, and acknowledged.
Opened(p) ==
  IF p.encrypted /\ (OpensHybrid(p) \/ OpensPgp(p))
  THEN [p EXCEPT !.sealed = "no", !.encrypted = FALSE]
  ELSE p

\* A sealed content has no header of a compression: it is returned as it is.
Expanded(p) ==
  IF p.compressed /\ p.sealed = "no" THEN [p EXCEPT !.zipped = FALSE, !.compressed = FALSE]
  ELSE p

ExpandedFirst(p) == Opened(Expanded(p))
Inbound(p)       == Expanded(Opened(p))

Receive(m) ==
  /\ stage[m] = "sent" /\ stage' = [stage EXCEPT ![m] = "handed"]
  /\ payload' = [payload EXCEPT ![m] = Inbound(@)]
  /\ keysHeld' = [keysHeld EXCEPT ![m] = <<IF payload[m].sealed = "hybrid" THEN prekey ELSE peerKey,
                                  payload[m].gen>>]
  /\ reply' = [reply EXCEPT ![m] = "out"] /\ signer' = [signer EXCEPT ![m] = peerKey]
  /\ UNCHANGED <<recordVars, processVars, storeVars, peerVars, byName, inClear>>

\* The ACK: another's in the peer's name, or one whose content does not open.
Forge(m) ==
  /\ stage[m] = "sent" /\ reply[m] = "none"
  /\ reply' = [reply EXCEPT ![m] = "out"]
  /\ UNCHANGED <<recordVars, processVars, storeVars, peerVars, letterVars, signer, keysHeld>>

AskForAck(m) ==
  /\ reply[m] = "out" /\ engine # "none" /\ StartLoading
  /\ reply' = [reply EXCEPT ![m] = "loading"]
  /\ UNCHANGED <<recordVars, processVars, peerVars, letterVars, signer, keysHeld>>

\* _verify: no engine, no key, no signature, a signature of another key, or no PGPy
\* to check it with: rejected.
Verifies(m) == engine = "whole" /\ known # 0 /\ signer[m] = known

CheckAck(m) ==
  /\ reply[m] = "out" /\ (engine = "none" \/ loaded # "no")
  /\ reply' = [reply EXCEPT ![m] = IF Verifies(m) THEN "confirmed"
                                   ELSE IF stage[m] = "sent" THEN "none" ELSE "rejected"]
  /\ UNCHANGED <<recordVars, processVars, storeVars, peerVars, letterVars, signer, keysHeld>>

SealingNext ==
  \/ LinkKey \/ AddOpen \/ AddFlush \/ RotateKey \/ RotatePrekey \/ FetchBundle \/ RestartEngine
  \/ LoadKeys
  \/ \E m \in Letters : \/ Compose(m) \/ Refuse(m) \/ AskFirst(m) \/ Send(m) \/ Receive(m)
                        \/ Forge(m) \/ AskForAck(m) \/ CheckAck(m)

SealingSpec == SealingInit /\ [][SealingNext]_sealingVars

-------------------------------------------------------------------------------
(* Every variable keeps its shape.                                         *)
SealingTypeOK ==
  /\ record \in {"bare", "linked", "torn"} /\ keyFile \in Generations
  /\ edits \in 0..MaxEdits /\ processes \in 1..MaxProcesses /\ engine \in Engines
  /\ loaded \in {"no", "loading", "yes"} /\ known \in Generations /\ linked \in BOOLEAN
  /\ peerKey \in Generations /\ prekey \in Generations /\ bundle \in Generations
  /\ stage \in [Letters -> {"unsent", "composed", "loading", "sent", "handed", "refused", "lost"}]
  /\ byName \in [Letters -> BOOLEAN] /\ signer \in [Letters -> Generations]
  /\ reply \in [Letters -> {"none", "out", "loading", "confirmed", "rejected"}]

\* A letter goes out in the clear only if this process has no crypto engine, if the
\* recipient was not named as in the key store, if another thread was loading the
\* keys at that moment, if no key could be read when this process loaded them, or if
\* PGPy is missing and the recipient has no whole hybrid bundle.
ClearForAReason == \A m \in Letters :
  stage[m] = "sent" /\ payload[m].sealed = "no" => inClear[m] # "no"

\* What is not marked as encrypted is the text that was sent.
MarkedOrWhole == \A m \in Letters : stage[m] = "handed" =>
  IF payload[m].encrypted THEN payload[m].sealed # "no"
  ELSE payload[m].sealed = "no" /\ ~payload[m].zipped

\* A letter sealed to a key that its recipient has when it comes is read.
CurrentKeyOpens == \A m \in Letters :
  stage[m] = "handed" /\ keysHeld[m][1] = keysHeld[m][2] => ~payload[m].encrypted

\* Only the peer's own ACK confirms, and only a letter the peer has got.
ConfirmedByThePeer == \A m \in Letters : reply[m] = "confirmed" => stage[m] = "handed"

(* core.py, crypto.py: a letter that can be sealed is, one that can be     *)
(* opened is read, and nothing sealed is taken for a text.                 *)
SealingKeeps == ClearForAReason /\ MarkedOrWhole /\ CurrentKeyOpens /\ ConfirmedByThePeer

-------------------------------------------------------------------------------
(* Padding: a body and its prefix fill up to a bucket, beyond the largest  *)
(* of them to a multiple of it.                                            *)

Prefix         == 1
TopBucket      == CHOOSE b \in Ladder : \A c \in Ladder : c <= b
Fitting(total) == {b \in Ladder : total <= b}
BucketFor(total) ==
  IF Fitting(total) # {} THEN CHOOSE b \in Fitting(total) : \A c \in Fitting(total) : b <= c
  ELSE ((total + TopBucket - 1) \div TopBucket) * TopBucket
PadToBucket(length) == [prefix |-> length, size |-> BucketFor(Prefix + length)]
\* What is cut short is refused: -1.
Unpad(blob) == IF blob.size < Prefix \/ Prefix + blob.prefix > blob.size THEN -1 ELSE blob.prefix

-------------------------------------------------------------------------------
(* One envelope at a time, from its signing to what two receivers make of  *)
(* the frame.  A signature is who made it, with the Ed25519 and the ML-DSA *)
(* leg of the hybrid suite, and over what; a seal or a tag is what it      *)
(* binds.  Neither can be made without the key, but whole ones can be put  *)
(* to other things.  Nothing here detects a repetition.                    *)

Envelopes == [from : Speakers, text : {"this", "that"}]
Suites    == {"pgp", "hybrid"}
Forms     == {"plain", "routed", "anon", "multi"}

VARIABLES
  ring,       \* the speakers whose PGP key is registered under their fqid
  named,      \* the one whose key is registered under the name they share
  hybridRing, \* those whose ML-DSA key is pinned
  written,    \* history: the frame as it was sent
  frame,
  garbles,
  opened      \* by each receiver: the envelope and its own view of the frame

wireVars == <<ring, named, hybridRing, written, frame, garbles, opened>>

Signature(q, e, suite) ==
  [env |-> e, hash |-> e, suite |-> suite, ed |-> q, pq |-> q, over |-> e,
   edKey |-> IF suite = "hybrid" THEN {q} ELSE {}, pqKey |-> IF suite = "hybrid" THEN {q} ELSE {}]

\* The outer address, the slots with the key, and what seal or tag binds the parcel to.
FrameOf(form, to, slots, parcel) ==
  [form |-> form, to |-> to, slots |-> slots, parcel |-> parcel, bound |-> <<to, parcel>>]

\* route_signed: sealed to the destination and addressed to the next hop, if that is
\* switched on and a prekey is known, else as it is.
SealRouted(hop, r, parcel) == FrameOf("routed", {hop}, {r}, parcel)
RouteSigned(parcel) ==
  {FrameOf("plain", {r}, Receivers, parcel) : r \in Receivers}
    \cup {SealRouted(hop, r, parcel) : hop \in Receivers, r \in Receivers}
\* route_anon: a tag by the secret of the queue it is addressed to.
RouteAnon(parcel) == {FrameOf("anon", {queue}, {queue}, parcel) : queue \in Receivers}
\* seal_multi: a slot for each device, whose ids the body is bound to.
SealMulti(parcel) == {FrameOf("multi", kids, kids, parcel) : kids \in (SUBSET Receivers) \ {{}}}

FirstFrames == UNION {
  LET parcel == Signature(q, [from |-> q, text |-> "this"], suite) IN
    RouteSigned(parcel) \cup RouteAnon(parcel) \cup SealMulti(parcel) : q \in Speakers, suite \in Suites}

WireInit ==
  /\ ring \in SUBSET Speakers /\ named \in {{}} \cup {{q} : q \in ring}
  /\ hybridRing \in SUBSET Speakers
  /\ written \in FirstFrames /\ frame = written /\ garbles = 0 /\ opened = [r \in Receivers |-> {}]

\* Another envelope with or without its hash, other keys, another signer of one leg or
\* of both, another suite.
Reworded(s) == UNION {{[s EXCEPT !.env = e], [s EXCEPT !.env = e, !.hash = e]} : e \in Envelopes}
Rekeyed(s)  == UNION {{[s EXCEPT !.pqKey = {q}], [s EXCEPT !.edKey = {q}, !.ed = q]} : q \in Speakers}
Resigned(s) == {Signature(q, s.env, suite) : q \in Speakers, suite \in Suites}
Resuited(s) == {[s EXCEPT !.suite = suite] : suite \in Suites}
Garbled(s)  == Reworded(s) \cup Rekeyed(s) \cup Resigned(s) \cup Resuited(s)

\* Everybody may put a signed envelope on the wire, or into a seal to a public key;
\* nobody else has the secret of a queue.
Garble ==
  /\ garbles < MaxGarbles /\ garbles' = garbles + 1 /\ opened' = [r \in Receivers |-> {}]
  /\ \/ \E to \in (SUBSET Receivers) \ {{}} : frame' = [frame EXCEPT !.to = to]
     \/ \E s \in Garbled(frame.parcel) : frame' = [frame EXCEPT !.parcel = s]
     \/ \E s \in Garbled(frame.parcel) :
          frame.form \in {"plain", "routed"} /\ frame' = FrameOf(frame.form, frame.to, frame.slots, s)
     \/ \E r \in frame.slots : frame' = [frame EXCEPT !.slots = @ \ {r}]
  /\ UNCHANGED <<ring, named, hybridRing, written>>

-------------------------------------------------------------------------------
(* What the receivers do with it.                                          *)

\* _find_key: under the fqid that is claimed, else under its name.
FindKey(claimed) == IF claimed \in ring THEN {claimed} ELSE named

\* Any registered key, whoever is claimed.
VerifyAnyKey(s) == s.hash = s.env /\ s.over = s.env /\ s.ed \in ring
VerifyPgp(s)    == s.hash = s.env /\ s.over = s.env /\ s.ed \in FindKey(s.env.from)

\* hybrid_verify: both legs, by the keys that came with it; the ML-DSA one is the pinned.
BothLegs(s)     == s.over = s.env /\ s.ed \in s.edKey /\ s.pq \in s.pqKey
VerifyHybrid(s) == s.hash = s.env /\ s.env.from \in hybridRing /\ s.pqKey = {s.env.from} /\ BothLegs(s)

\* A signature of the other suite is of no form that this one could check.
Verify(s) == CASE s.suite = "pgp"    -> s.pqKey = {} /\ VerifyPgp(s)
               [] s.suite = "hybrid" -> s.pqKey # {} /\ VerifyHybrid(s)

\* open_routed, parse_anon, open_multi: the seal or the tag fits what the frame says.
VerifyTag(f)     == f.bound = <<f.to, f.parcel>>
OpenRouted(r, f) == f.slots = {r} /\ VerifyTag(f)
ParseAnon(r, f)  == f.to = {r} /\ r \in f.slots /\ VerifyTag(f)
OpenMulti(r, f)  == r \in f.slots /\ VerifyTag(f)
MayOpen(r, f) ==
  \/ f.form = "plain"
  \/ f.form = "routed" /\ OpenRouted(r, f)
  \/ f.form = "anon" /\ ParseAnon(r, f)
  \/ f.form = "multi" /\ OpenMulti(r, f)

\* The contents of an anonymous or a multi-device frame is the caller's own affair.
OpenFrame(r) ==
  /\ opened[r] = {} /\ MayOpen(r, frame)
  /\ frame.form \in {"plain", "routed"} => Verify(frame.parcel)
  /\ opened' = [opened EXCEPT ![r] = {frame}]
  /\ UNCHANGED <<ring, named, hybridRing, written, frame, garbles>>

WireNext == Garble \/ \E r \in Receivers : OpenFrame(r)

WireSpec == WireInit /\ [][WireNext]_wireVars

(* The variables of the wire keep their shape.                             *)
WireTypeOK ==
  /\ ring \subseteq Speakers /\ named \subseteq ring /\ hybridRing \subseteq Speakers
  /\ frame.form \in Forms /\ frame.slots \subseteq Receivers /\ garbles \in 0..MaxGarbles
  /\ opened \in [Receivers -> {{}, {frame}}]

\* A signed envelope that is accepted was signed, as it is, by whom it claims to be
\* from, or by the one whose key goes by their name where no other is registered.
AcceptedIsSigned == \A r \in Receivers : \A f \in opened[r] :
  f.form \in {"plain", "routed"} =>
    /\ f.parcel.over = f.parcel.env
    /\ \/ f.parcel.suite = "pgp" /\ f.parcel.ed = f.parcel.env.from
       \/ f.parcel.suite = "hybrid" /\ f.parcel.pq = f.parcel.env.from
       \/ f.parcel.suite = "pgp" /\ f.parcel.env.from \notin ring /\ {f.parcel.ed} = named

\* What a queue or a device opens was sent to it as it is, and so were the names of all
\* the devices, though not their slots.
OpenedIsWhole == \A r \in Receivers : \A f \in opened[r] :
  f.form \in {"anon", "multi"} =>
    f.parcel = written.parcel /\ f.to = written.to /\ r \in written.slots

\* A body comes out as it went in, and its size tells only its bucket.
PaddingFits == \A n \in 0..LongestBody :
  /\ Unpad(PadToBucket(n)) = n
  /\ \A m \in 0..n : \/ PadToBucket(m).size = PadToBucket(n).size
                     \/ \E b \in {PadToBucket(m).size} : m + Prefix <= b /\ b < n + Prefix

(* signing.py, pqroute.py, anon_transport.py, pqdm.py, padding.py: what is *)
(* accepted is what was signed or sealed, whatever the wire made of it.    *)
WireKeeps == AcceptedIsSigned /\ OpenedIsWhole /\ PaddingFits
===============================================================================
