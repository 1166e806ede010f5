-------------------------------- MODULE Adapters --------------------------------
(***************************************************************************)
(* Channel adapters (skcomms/adapters/registry.py; telegram.py): the       *)
(* registry connects each adapter and gives it an inbound task, which      *)
(* polls its platform and hands the messages on one at a time, awaiting    *)
(* the handler.  A Telegram user session reads the newest messages of a    *)
(* chat above its watermark, at most a page of them; a bot asks for the    *)
(* updates after its offset, and the platform forgets those before it.     *)
(* Watermark and offset are in memory.                                     *)
(*                                                                         *)
(* The definitions no action uses are plausible faults of the one after.   *)
(***************************************************************************)
EXTENDS Naturals, SequencesExt

CONSTANTS Surfaces,    \* adapters: each is one chat of one account
          Sessions,    \* those that are a user session; the others are bots
          Page,        \* limit of iter_messages
          LastPost,    \* messages 1..LastPost are posted on each
          MaxStarts    \* processes that start the registry, one after the other

ASSUME AdaptersAssumption ==
  /\ Sessions \subseteq Surfaces /\ Page \in Nat \ {0}
  /\ LastPost \in Nat /\ MaxStarts \in Nat \ {0}

Posts == 1..LastPost

VARIABLES
  posted,      \* the last message on each platform
  forgotten,   \* the platform no longer has the updates up to this one
  seenUpTo,    \* _last_seen_id, _last_update_id
  batch,       \* polled, not handed on yet
  inbound,     \* the inbound task of each adapter
  registry,    \* what start and stop are at
  starts,
  everHanded,  \* what the handler was given, by any process
  handed,      \* by this one
  excused      \* history: a page was too small for the chat, or an exception hit it

adaptersVars == <<posted, forgotten, seenUpTo, batch, inbound, registry, starts,
                  everHanded, handed, excused>>

AdaptersInit ==
  /\ posted = [s \in Surfaces |-> 0] /\ forgotten = [s \in Surfaces |-> 0]
  /\ seenUpTo = [s \in Surfaces |-> 0] /\ batch = [s \in Surfaces |-> <<>>]
  /\ inbound = [s \in Surfaces |-> "none"] /\ registry = "starting" /\ starts = 1
  /\ everHanded = [s \in Surfaces |-> {}] /\ handed = [s \in Surfaces |-> {}]
  /\ excused = [s \in Surfaces |-> FALSE]

Arrive(s) ==
  /\ posted[s] < LastPost /\ posted' = [posted EXCEPT ![s] = @ + 1]
  /\ UNCHANGED <<forgotten, seenUpTo, batch, inbound, registry, starts, everHanded, handed, excused>>

-------------------------------------------------------------------------------
(* start and stop; the lifespan of the API calls each once.                *)

\* connect, create_task; the tasks made so far run while the next one connects.
\* One that cannot connect ends start, and nobody stops those already running.
Connect(s) ==
  /\ registry = "starting" /\ inbound[s] = "none"
  /\ \/ /\ inbound' = [inbound EXCEPT ![s] = "runs"]
        /\ registry' = IF \A r \in Surfaces \ {s} : inbound[r] # "none" THEN "up" ELSE registry
     \/ registry' = "abandoned" /\ UNCHANGED inbound
  /\ UNCHANGED <<posted, forgotten, seenUpTo, batch, starts, everHanded, handed, excused>>

\* One task after the other is cancelled; one that ended with an exception raises it
\* here, and the others run on.
CancelTask(s) ==
  /\ registry \in {"up", "stopping"} /\ inbound[s] # "none"
  /\ IF inbound[s] = "ended"
     THEN registry' = "broken" /\ UNCHANGED <<inbound, batch>>
     ELSE /\ inbound' = [inbound EXCEPT ![s] = "none"] /\ batch' = [batch EXCEPT ![s] = <<>>]
          /\ registry' = IF \A r \in Surfaces \ {s} : inbound[r] = "none"
                         THEN "stopped" ELSE "stopping"
  /\ UNCHANGED <<posted, forgotten, seenUpTo, starts, everHanded, handed, excused>>

\* The process ends, whatever it was at, and another one starts.
NewProcess ==
  /\ starts < MaxStarts /\ starts' = starts + 1 /\ registry' = "starting"
  /\ inbound' = [s \in Surfaces |-> "none"] /\ batch' = [s \in Surfaces |-> <<>>]
  /\ seenUpTo' = [s \in Surfaces |-> 0] /\ handed' = [s \in Surfaces |-> {}]
  /\ UNCHANGED <<posted, forgotten, everHanded, excused>>

-------------------------------------------------------------------------------
(* inbound: a poll, and the messages it brought.                           *)

Polls(s) == inbound[s] = "runs" /\ batch[s] = <<>>

\* iter_messages: the newest first, up to an error of the network or of a message;
\* the watermark is the newest that was read.
Unread(s)  == posted[s] - seenUpTo[s]
Newest(s)  == [i \in 1..(IF Unread(s) < Page THEN Unread(s) ELSE Page) |-> posted[s] - i + 1]
Remembers(s, read) == seenUpTo[s]
Watermark(s, read) == IF read = <<>> THEN seenUpTo[s] ELSE Head(read)
\* The id is noted before the message is normalised: one that cannot be raises
\* the watermark, one that cannot be fetched does not.
Tops(s, read) == {read} \cup {page \in {Newest(s)} : Len(read) < Len(page)}
PollHistory(s) ==
  /\ s \in Sessions /\ Polls(s) /\ Unread(s) > 0
  /\ \E n \in 0..Len(Newest(s)) :
       LET read == SubSeq(Newest(s), 1, n) IN
         /\ batch' = [batch EXCEPT ![s] = read]
         /\ \E top \in Tops(s, read) : seenUpTo' = [seenUpTo EXCEPT ![s] = Watermark(s, top)]
         /\ excused' = [excused EXCEPT ![s] = @ \/ n < Unread(s)]
  /\ UNCHANGED <<posted, forgotten, inbound, registry, starts, everHanded, handed>>

\* getUpdates: the oldest first.  The offset it sends confirms the updates before it.
PollUpdates(s) ==
  /\ s \notin Sessions /\ Polls(s)
  /\ LET first == IF seenUpTo[s] = 0 THEN forgotten[s] ELSE seenUpTo[s] IN
       /\ batch' = [batch EXCEPT ![s] = [i \in 1..(posted[s] - first) |-> first + i]]
       /\ forgotten' = [forgotten EXCEPT ![s] = first]
  /\ seenUpTo' = [seenUpTo EXCEPT ![s] = posted[s]]
  /\ UNCHANGED <<posted, inbound, registry, starts, everHanded, handed, excused>>

\* _dispatch: the handler got it, or raised, which is logged.
HandOn(s) ==
  /\ inbound[s] = "runs" /\ batch[s] # <<>>
  /\ batch' = [batch EXCEPT ![s] = Tail(@)]
  /\ handed' = [handed EXCEPT ![s] = @ \cup {Head(batch[s])}]
  /\ \/ /\ everHanded' = [everHanded EXCEPT ![s] = @ \cup {Head(batch[s])}]
        /\ UNCHANGED excused
     \/ excused' = [excused EXCEPT ![s] = TRUE] /\ UNCHANGED everHanded
  /\ UNCHANGED <<posted, forgotten, seenUpTo, inbound, registry, starts>>

\* An update that cannot be normalised ends the generator, and the task with it.
Unnormalised(s) ==
  /\ s \notin Sessions /\ inbound[s] = "runs" /\ batch[s] # <<>>
  /\ inbound' = [inbound EXCEPT ![s] = "ended"] /\ batch' = [batch EXCEPT ![s] = <<>>]
  /\ excused' = [excused EXCEPT ![s] = TRUE]
  /\ UNCHANGED <<posted, forgotten, seenUpTo, registry, starts, everHanded, handed>>

AdaptersNext ==
  \/ NewProcess
  \/ \E s \in Surfaces : \/ Arrive(s) \/ Connect(s) \/ CancelTask(s) \/ PollHistory(s)
                         \/ PollUpdates(s) \/ HandOn(s) \/ Unnormalised(s)

AdaptersSpec == AdaptersInit /\ [][AdaptersNext]_adaptersVars

-------------------------------------------------------------------------------
(* Every variable keeps its shape.                                         *)
AdaptersTypeOK ==
  /\ \A mark \in {posted, forgotten, seenUpTo} : mark \in [Surfaces -> 0..LastPost]
  /\ batch \in [Surfaces -> Seq(Posts)] /\ inbound \in [Surfaces -> {"none", "runs", "ended"}]
  /\ registry \in {"starting", "abandoned", "up", "stopping", "broken", "stopped"}
  /\ starts \in 1..MaxStarts /\ excused \in [Surfaces -> BOOLEAN]
  /\ everHanded \in [Surfaces -> SUBSET Posts] /\ handed \in [Surfaces -> SUBSET Posts]

(* "Only new messages are surfaced on each cycle" (telegram.py): a process *)
(* hands no message on twice; and one below the watermark was handed on or *)
(* is about to be, unless the chat had more new messages than a page holds *)
(* or an exception came between; whichever process handed it on.           *)
AdaptersKeep == \A s \in Surfaces :
  /\ IsInjective(batch[s]) /\ ToSet(batch[s]) \cap handed[s] = {}
  /\ inbound[s] = "runs" /\ ~excused[s] =>
       \A m \in 1..seenUpTo[s] : m \in everHanded[s] \cup ToSet(batch[s])
  /\ registry = "stopped" => inbound[s] = "none"
===============================================================================
