-------------------------------- MODULE Mailbox --------------------------------
(***************************************************************************)
(* What an agent's letters lie in, and who reads them.                     *)
(*                                                                         *)
(* Mailboxes (skcomms/mailbox.py).  send_message seals a letter to the key *)
(* of its recipient and a record of it to the sender's own, before it      *)
(* writes either into the tree that Syncthing shows to every peer;         *)
(* housekeeping seals or removes the readable records of earlier times.    *)
(* Writing a file takes two steps, the process may die between any two,    *)
(* and the operator moves keys about meanwhile.  The definitions no action *)
(* uses are plausible faults of the one after them.                        *)
(*                                                                         *)
(* Conversations (api.py), at the end of the module: the lists that the    *)
(* API makes of the outbox, the shared folders and the chat history while  *)
(* other processes move the messages about in them.                        *)
(***************************************************************************)
EXTENDS Naturals, Sequences, FiniteSetsExt

CONSTANTS Names,          \* names of agents
          Owners,         \* the components of an fqid that name an operator
          HomeOperator,   \* get_operator() on this machine
          Missives,
          MaxUpsets,      \* bound on edits of keys, deaths and failures to seal
          TurnCount,      \* messages of a conversation, numbered by created_at
          PageLimit,      \* messages of a page
          MaxMoves        \* bound on what other processes do to their files

ASSUME MailboxAssumption == HomeOperator \in Owners /\ MaxUpsets \in Nat
ASSUME ConversationsAssumption == TurnCount \in Nat /\ PageLimit \in Nat \ {0} /\ MaxMoves \in Nat

Fqids == [name : Names, operator : Owners]
AgentKey(f)  == <<"agent", f>>
OperatorKey  == <<"operator">>
MailKeys     == {OperatorKey} \cup {AgentKey(f) : f \in Fqids}
NoMailKey    == <<"no key">>
\* Of our operator's agents some share the operator's keypair.
HeldBy(f) == {AgentKey(f)} \cup (IF f.operator = HomeOperator THEN {OperatorKey} ELSE {})
OwnAgent(n) == [name |-> n, operator |-> HomeOperator]

VARIABLES
  identities,   \* the names whose identity directory here has a public key
  pinned,       \* the fqids with a key in peers/
  missive,      \* from, to, and what the two files will hold
  post,         \* what the send of each letter does next
  outboxed, inboxed,
  sweeper,      \* the record the sweep is about to replace, and by what
  upsets,
  swept         \* history: the records a sweep sealed, removed or found sealed

keyFiles    == <<identities, pinned>>
mailboxVars == <<keyFiles, missive, post, outboxed, inboxed, sweeper, upsets, swept>>

NoFile      == <<"no file">>
HalfWritten == <<"torn">>        \* opened, not yet written
Plain       == <<"plain">>       \* a SignedEnvelope with a readable body
Opaque      == <<"opaque">>      \* its body was ciphertext already
MailFiles   == {NoFile, HalfWritten, Plain, Opaque} \cup MailKeys
SweepIdle   == [at |-> "no letter", by |-> NoMailKey]

-------------------------------------------------------------------------------
(* _load_recipient_key: the first of the places where a key is.            *)

AnyBox(f)  == TRUE
SameBox(f) == f.operator = HomeOperator
RecipientKey(f) ==
  IF SameBox(f) /\ f.name \in identities THEN AgentKey(OwnAgent(f.name))
  ELSE IF f \in pinned THEN AgentKey(f)
  ELSE IF SameBox(f) THEN OperatorKey ELSE NoMailKey

-------------------------------------------------------------------------------
(* send_message.                                                           *)

\* A letter of earlier times may have left a readable record.
OldMissives == LET ours == {OwnAgent(n) : n \in Names} IN
  [from : ours, to : ours, record : {NoFile}, drop : {NoFile}]

MailboxInit ==
  /\ identities \in SUBSET Names /\ pinned = {}
  /\ outboxed \in [Missives -> {NoFile, Plain}]
  /\ missive \in [Missives -> OldMissives]
  /\ post = [l \in Missives |-> IF outboxed[l] = Plain THEN "sent" ELSE "new"]
  /\ inboxed = [l \in Missives |-> NoFile]
  /\ sweeper = SweepIdle /\ upsets = 0 /\ swept = {}

\* The agent's key when it has one, else the operator's.
SignerKey(f) == IF f.name \in identities THEN AgentKey(f) ELSE OperatorKey

\* Both are sealed before either is written; "readable" is the debug hatch.
Sealed(from, to, body) ==
  CASE body = "opaque"   -> [from |-> from, to |-> to, record |-> Opaque, drop |-> Opaque]
    [] body = "readable" -> [from |-> from, to |-> to, record |-> Plain, drop |-> RecipientKey(to)]
    [] body = "plain"    -> [from |-> from, to |-> to, record |-> SignerKey(from),
                             drop |-> RecipientKey(to)]

SendMessage(l, from, to, body) ==
  /\ post[l] = "new"
  /\ missive' = [missive EXCEPT ![l] = Sealed(from, to, body)]
  /\ post' = [post EXCEPT ![l] = IF Sealed(from, to, body).drop = NoMailKey THEN "refused" ELSE "record"]
  /\ UNCHANGED <<keyFiles, outboxed, inboxed, sweeper, upsets, swept>>

WriteRecord(l) ==
  /\ post[l] = "record"
  /\ outboxed' = [outboxed EXCEPT ![l] = IF @ = NoFile THEN HalfWritten ELSE missive[l].record]
  /\ post' = IF outboxed[l] = NoFile THEN post ELSE [post EXCEPT ![l] = "drop"]
  /\ UNCHANGED <<keyFiles, missive, inboxed, sweeper, upsets, swept>>

WriteDrop(l) ==
  /\ post[l] = "drop"
  /\ inboxed' = [inboxed EXCEPT ![l] = IF @ = NoFile THEN HalfWritten ELSE missive[l].drop]
  /\ post' = IF inboxed[l] = NoFile THEN post ELSE [post EXCEPT ![l] = "sent"]
  /\ UNCHANGED <<keyFiles, missive, outboxed, sweeper, upsets, swept>>

SendDies(l) ==
  /\ post[l] \in {"record", "drop"} /\ post' = [post EXCEPT ![l] = "died"]
  /\ upsets < MaxUpsets /\ upsets' = upsets + 1
  /\ UNCHANGED <<keyFiles, missive, outboxed, inboxed, sweeper, swept>>

-------------------------------------------------------------------------------
(* reseal_outbox_plaintext, one record after the other, in any order.      *)

\* What does not parse as a readable record is passed over.
SweepRead(l) ==
  /\ sweeper = SweepIdle /\ outboxed[l] \notin {NoFile, HalfWritten}
  /\ IF outboxed[l] = Plain
     THEN sweeper' = [at |-> l, by |-> RecipientKey(missive[l].from)] /\ UNCHANGED swept
     ELSE UNCHANGED sweeper /\ swept' = swept \cup {l}
  /\ UNCHANGED <<keyFiles, missive, post, outboxed, inboxed, upsets>>

Swept(key) == IF key = NoMailKey THEN NoFile ELSE key

SweepReplace ==
  /\ sweeper # SweepIdle /\ sweeper' = SweepIdle
  /\ outboxed' = [outboxed EXCEPT ![sweeper.at] = Swept(sweeper.by)]
  /\ swept' = swept \cup {sweeper.at}
  /\ UNCHANGED <<keyFiles, missive, post, inboxed, upsets>>

\* It raised, or the process died: the record stays for the next sweep.
SweepFails ==
  /\ sweeper # SweepIdle /\ sweeper' = SweepIdle
  /\ upsets < MaxUpsets /\ upsets' = upsets + 1
  /\ UNCHANGED <<keyFiles, missive, post, outboxed, inboxed, swept>>

-------------------------------------------------------------------------------
(* The operator's keys, and the age that removes a record.                 *)

EditKeys ==
  /\ upsets < MaxUpsets /\ upsets' = upsets + 1
  /\ \/ \E n \in Names : identities' = SymDiff(identities, {n}) /\ UNCHANGED pinned
     \/ \E f \in Fqids : pinned' = SymDiff(pinned, {f}) /\ UNCHANGED identities
  /\ UNCHANGED <<missive, post, outboxed, inboxed, sweeper, swept>>

PruneRecord(l) ==
  /\ post[l] \in {"sent", "died"} /\ outboxed[l] # NoFile
  /\ outboxed' = [outboxed EXCEPT ![l] = NoFile]
  /\ UNCHANGED <<keyFiles, missive, post, inboxed, sweeper, upsets, swept>>

MailboxNext ==
  \/ \E l \in Missives :
       \/ \E n \in Names, to \in Fqids, body \in {"plain", "readable", "opaque"} :
            SendMessage(l, OwnAgent(n), to, body)
       \/ WriteRecord(l) \/ WriteDrop(l) \/ SendDies(l) \/ SweepRead(l) \/ PruneRecord(l)
  \/ SweepReplace \/ SweepFails \/ EditKeys

MailboxSpec == MailboxInit /\ [][MailboxNext]_mailboxVars

-------------------------------------------------------------------------------
(* The type invariant.                                                     *)
MailboxTypeOK ==
  /\ identities \subseteq Names /\ pinned \subseteq Fqids /\ upsets \in 0..MaxUpsets
  /\ missive \in [Missives -> [from : Fqids, to : Fqids, record : MailFiles, drop : MailFiles \cup {NoMailKey}]]
  /\ post \in [Missives -> {"new", "refused", "record", "drop", "sent", "died"}]
  /\ outboxed \in [Missives -> MailFiles] /\ inboxed \in [Missives -> MailFiles]
  /\ sweeper = SweepIdle \/ sweeper \in [at : Missives, by : MailKeys \cup {NoMailKey}]
  /\ swept \subseteq Missives

(* Whatever keys come and go, a letter in an inbox can be opened by its    *)
(* addressee and the record of it by its sender, and by nobody else, for a *)
(* peer of another operator may bear the name of an agent of this machine; *)
(* no drop is readable, and no record is once a sweep has dealt with it.   *)
MailboxKeeps ==
  \A l \in Missives :
    /\ inboxed[l] \in {NoFile, HalfWritten, Opaque} \cup HeldBy(missive[l].to)
    /\ outboxed[l] \in {NoFile, HalfWritten, Opaque, Plain} \cup HeldBy(missive[l].from)
    /\ l \in swept => outboxed[l] # Plain

-------------------------------------------------------------------------------
(* Conversations.  A message may have a file in each of four places, and   *)
(* skchat may have filed it.  Three requests list a conversation; the two  *)
(* that list its messages take a page of them.  What is read is read in    *)
(* one step per place.                                                     *)

Turns     == 1..TurnCount
Queues    == {"pending", "dead"}
Folders   == {"outbox", "inbox"}
Sources   == Queues \cup Folders \cup {"history"}
Requests  == {"threads", "detail", "messages"}

VARIABLES
  form,     \* of each message: a MessageEnvelope of a text or of an ACK, or signed
  lies,     \* the places where it has a file
  halfFile, \* a retry is writing its pending file anew
  filed,    \* what skchat filed, under the id of the envelope
  request,  \* what is asked
  toRead,   \* the places still to be read for it
  found,    \* message and place, of the lines of the answer
  pages,    \* the pages got so far, the second from where the first ended
  moves,
  moved     \* history: what the first request may have missed since it began

filesVars         == <<form, lies, halfFile, filed>>
answerVars        == <<request, toRead, found, pages>>
conversationsVars == <<filesVars, answerVars, moves, moved>>

\* A message that is on its way goes from left to right.
Way == <<"pending", "dead", "outbox", "inbox">>
Precedes(p, q) == \E i, j \in DOMAIN Way : i < j /\ Way[i] = p /\ Way[j] = q

\* A request that reads the folders first.
FoldersFirst(asked) == <<"history", "outbox", "inbox", "pending", "dead">>
ReadingOrder(asked) == CASE asked = "threads"  -> Way \o <<"history">>
                         [] asked = "detail"   -> Way
                         [] asked = "messages" -> <<"history">> \o Way

ConversationsInit ==
  /\ form \in [Turns -> {"text", "ack", "signed"}]
  /\ lies \in [Turns -> {{}, {"pending"}, {"dead"}, {"pending", "outbox"}, {"inbox"}}]
  /\ halfFile = {} /\ filed = {}
  /\ request \in Requests /\ toRead = ReadingOrder(request) /\ found = {} /\ pages = <<>>
  /\ moves = 0 /\ moved = {}

Move == moves < MaxMoves /\ moves' = moves + 1 /\ UNCHANGED answerVars

\* A message that appears before a place it lies in, or lay nowhere yet, may be missed;
\* an ACK counts in some places and not in others.
Appear(t, p) ==
  /\ Move /\ p \notin lies[t] /\ lies' = [lies EXCEPT ![t] = @ \cup {p}]
  /\ moved' = IF lies[t] = {} \/ form[t] = "ack" \/ \E q \in lies[t] : Precedes(p, q)
              THEN moved \cup {t} ELSE moved
  /\ UNCHANGED <<form, halfFile, filed>>

Enqueued(t)    == lies[t] = {} /\ Appear(t, "pending")
Arrives(t)     == lies[t] = {} /\ Appear(t, "inbox")
HeldForAck(t)  == "outbox" \in lies[t] /\ Appear(t, "pending")
RailQueues(t)  == (lies[t] = {} \/ ("pending" \in lies[t] /\ t \notin halfFile)) /\ Appear(t, "outbox")
DeadLetters(t) == "pending" \in lies[t] /\ t \notin halfFile /\ Appear(t, "dead")
Requeued(t)    == "dead" \in lies[t] /\ Appear(t, "pending")

\* Acknowledged, moved on, purged, archived or grown old.
Disappears(t, p) ==
  /\ Move /\ p \in lies[t] /\ (p = "pending" => t \notin halfFile)
  /\ lies' = [lies EXCEPT ![t] = @ \ {p}]
  /\ moved' = IF lies[t] = {p} \/ form[t] = "ack" THEN moved \cup {t} ELSE moved
  /\ UNCHANGED <<form, halfFile, filed>>

Rewritten(t) ==
  /\ Move /\ "pending" \in lies[t] /\ halfFile' = SymDiff(halfFile, {t}) /\ moved' = moved \cup {t}
  /\ UNCHANGED <<form, lies, filed>>

Filed(t) ==
  /\ Move /\ lies[t] # {} /\ t \notin filed /\ filed' = filed \cup {t}
  /\ moved' = IF form[t] = "text" THEN moved ELSE moved \cup {t}
  /\ UNCHANGED <<form, lies, halfFile>>

\* Only a MessageEnvelope has its id, sender and thread where they are looked for.
Parses(t, p) == p \in lies[t] /\ form[t] # "signed" /\ ~(p = "pending" /\ t \in halfFile)

\* seen_ids, which each request fills and looks up in its own way.
KnownFrom(t, places) == \E p \in places : <<t, p>> \in found
OnThreads(t, p)  == p \in Folders => form[t] # "ack" /\ ~KnownFrom(t, Folders)
OnDetail(t, p)   == p \in Folders => ~KnownFrom(t, Sources)
OnMessages(t, p) == ~KnownFrom(t, Sources) /\ (p \in Folders => form[t] # "ack")

Lists(t, p) == CASE p = "history"                         -> t \in filed
                 [] p # "history" /\ request = "threads"  -> Parses(t, p) /\ OnThreads(t, p)
                 [] p # "history" /\ request = "detail"   -> Parses(t, p) /\ OnDetail(t, p)
                 [] p # "history" /\ request = "messages" -> Parses(t, p) /\ OnMessages(t, p)

ReadPlace ==
  /\ toRead # <<>> /\ toRead' = Tail(toRead)
  /\ LET p == Head(toRead) IN found' = found \cup ({t \in Turns : Lists(t, p)} \X {p})
  /\ UNCHANGED <<filesVars, request, pages, moves, moved>>

\* The items are sorted, the oldest first.
Listed     == {line[1] : line \in found}
Rank(t)    == Cardinality({u \in Listed : u <= t})
Page(skip) == {t \in Listed : Rank(t) \in (skip + 1)..(skip + PageLimit)}

Answer ==
  /\ request = "messages" /\ toRead = <<>> /\ Len(pages) < 2
  /\ pages' = Append(pages, Page(PageLimit * Len(pages)))
  /\ IF pages = <<>> THEN toRead' = ReadingOrder(request) /\ found' = {} ELSE UNCHANGED <<toRead, found>>
  /\ UNCHANGED <<filesVars, request, moves, moved>>

ConversationsNext ==
  \/ ReadPlace \/ Answer
  \/ \E t \in Turns :
       \/ Enqueued(t) \/ Arrives(t) \/ HeldForAck(t) \/ RailQueues(t) \/ DeadLetters(t)
       \/ Requeued(t) \/ Rewritten(t) \/ Filed(t)
       \/ \E p \in Queues \cup Folders : Disappears(t, p)

ConversationsSpec == ConversationsInit /\ [][ConversationsNext]_conversationsVars

(* The variables of the conversations keep their shape.                    *)
ConversationsTypeOK ==
  /\ form \in [Turns -> {"text", "ack", "signed"}] /\ lies \in [Turns -> SUBSET (Queues \cup Folders)]
  /\ halfFile \subseteq Turns /\ filed \subseteq Turns /\ request \in Requests
  /\ toRead \in Seq(Sources) /\ found \subseteq Turns \X Sources
  /\ moves \in 0..MaxMoves /\ moved \subseteq Turns

\* A message that kept lying somewhere and did not step back is listed, however it
\* moved on meanwhile.
NothingSlipsThrough == \A t \in Turns :
  toRead = <<>> /\ form[t] = "text" /\ lies[t] # {} /\ t \notin moved => t \in Listed

\* A list of messages has none twice, nor a list of conversations from the folders.
ListedOnce == \A t \in Turns :
  Cardinality({p \in Sources : <<t, p>> \in found /\ (request = "messages" \/ p \in Folders)}) <= 1

\* A message before which nothing stepped back, came or went is on one of two pages,
\* and not on both.
PagesFit == Len(pages) = 2 => \A t \in Turns :
  /\ form[t] = "text" /\ lies[t] # {} /\ moved \cap 1..t = {}
  /\ t <= 2 * PageLimit
  => (t \in pages[1]) # (t \in pages[2])

(* api.py, on "list of active conversations" and "paginated message        *)
(* history": the lists are whole and have nothing twice.                   *)
ConversationsKeep == NothingSlipsThrough /\ ListedOnce /\ PagesFit
===============================================================================
