--------------------------------- MODULE Nostr ---------------------------------
(***************************************************************************)
(* The Nostr rail (skcomms/transports/nostr.py) between one sender and one *)
(* recipient.  A letter is wrapped anew at every attempt, in a gift with a *)
(* date of up to two days back, and offered to the relays in their order   *)
(* until one says it took it.  The recipient asks every relay for the      *)
(* gifts dated since its window began, and opens those it has not seen.    *)
(*                                                                         *)
(* A relay may fail at any moment: a gift may be relayed though the sender  *)
(* hears nothing, and a query may return part of what there is.  Time is   *)
(* counted in units of which both sides see the same.  The definitions no  *)
(* action uses are plausible faults of the one after them.                 *)
(***************************************************************************)
EXTENDS Integers, FiniteSets

CONSTANTS RelayCount,     \* the relays, asked in order: 1..RelayCount
          GiftCount,      \* bound on the gifts wrapped
          SinceWindow,         \* since_window
          Backdate,       \* how far back a gift may be dated
          LastTick,       \* bound on the clock
          Restarts        \* bound on the restarts of the recipient

ASSUME NostrAssumption ==
  /\ RelayCount \in Nat \ {0} /\ GiftCount \in Nat /\ SinceWindow \in Nat
  /\ Backdate \in Nat /\ LastTick \in Nat /\ Restarts \in Nat

Relays == 1..RelayCount
Gifts  == 1..GiftCount

VARIABLES
  tick,
  wrapped,     \* how many gifts there are
  dated,       \* created_at of each
  relayed,      \* the gifts at each relay
  offering,    \* send: the relay to offer the last gift to, 0 when it has returned
  taken,       \* history: when send said that each gift was published
  asking,      \* receive: the relay to ask next
  since,       \* of the poll that is going on
  seenIds,     \* _seen_ids
  returned,    \* history: how often each gift was opened in this life
  whole,       \* history: no relay failed the poll that is going on
  fetched,     \* history: when the last whole poll began
  reborn

relayVars  == <<dated, relayed, taken, wrapped, offering>>
pollVars   == <<asking, since, seenIds, returned, whole, fetched>>
nostrVars  == <<relayVars, pollVars, tick, reborn>>

Never == -1

NostrInit ==
  /\ tick = 0 /\ wrapped = 0 /\ dated = [g \in Gifts |-> 0]
  /\ relayed = [r \in Relays |-> {}] /\ offering = 0 /\ taken = [g \in Gifts |-> Never]
  /\ asking = 0 /\ since = 0 /\ seenIds = {} /\ returned = [g \in Gifts |-> 0]
  /\ whole = TRUE /\ fetched = Never /\ reborn = 0

-------------------------------------------------------------------------------
(* send.                                                                   *)

WrapDm(back) ==
  /\ offering = 0 /\ wrapped < GiftCount /\ back \in 0..Backdate
  /\ wrapped' = wrapped + 1 /\ offering' = 1
  /\ dated' = [dated EXCEPT ![wrapped + 1] = tick - back]
  /\ UNCHANGED <<relayed, taken, pollVars, tick, reborn>>

\* _publish_to_relay: the relay has it or not, and says so or not.
PublishToRelay(kept, acked) ==
  /\ offering # 0 /\ (acked => kept)
  /\ relayed' = IF kept THEN [relayed EXCEPT ![offering] = @ \cup {wrapped}] ELSE relayed
  /\ taken' = IF acked THEN [taken EXCEPT ![wrapped] = tick] ELSE taken
  /\ offering' = IF acked \/ offering = RelayCount THEN 0 ELSE offering + 1
  /\ UNCHANGED <<dated, wrapped, pollVars, tick, reborn>>

-------------------------------------------------------------------------------
(* receive.                                                                *)

Poll ==
  /\ asking = 0 /\ asking' = 1 /\ since' = tick - SinceWindow /\ whole' = TRUE
  /\ UNCHANGED <<relayVars, seenIds, returned, fetched, tick, reborn>>

Within(r)  == {g \in relayed[r] : dated[g] >= since}
NothingSeen(events) == seenIds
SeenToo(events)     == seenIds \cup events
\* The relay after this one; the poll is over after the last.
FirstOnly(r)  == 0
NextRelay(r)  == IF r = RelayCount THEN 0 ELSE r + 1

\* _query_relay: what came before it ended, or before the relay failed.
QueryRelay(events) ==
  /\ asking # 0 /\ events \subseteq Within(asking)
  /\ seenIds' = SeenToo(events)
  /\ returned' = [g \in Gifts |-> returned[g] + IF g \in events \ seenIds THEN 1 ELSE 0]
  /\ whole' = (whole /\ events = Within(asking))
  /\ asking' = NextRelay(asking)
  /\ fetched' = IF whole' /\ asking' = 0 THEN since + SinceWindow ELSE fetched
  /\ UNCHANGED <<relayVars, since, tick, reborn>>

Restart ==
  /\ reborn < Restarts /\ reborn' = reborn + 1
  /\ asking' = 0 /\ seenIds' = {} /\ returned' = [g \in Gifts |-> 0] /\ fetched' = Never
  /\ UNCHANGED <<relayVars, since, whole, tick>>

RelayTick == tick < LastTick /\ tick' = tick + 1 /\ UNCHANGED <<relayVars, pollVars, reborn>>

NostrNext ==
  \/ \E back \in 0..Backdate : WrapDm(back)
  \/ \E kept, acked \in BOOLEAN : PublishToRelay(kept, acked)
  \/ Poll \/ \E events \in SUBSET Gifts : QueryRelay(events)
  \/ Restart \/ RelayTick

NostrSpec == NostrInit /\ [][NostrNext]_nostrVars

-------------------------------------------------------------------------------
(* Every variable keeps its shape.                                         *)
NostrTypeOK ==
  /\ tick \in 0..LastTick /\ wrapped \in 0..GiftCount /\ dated \in [Gifts -> Int]
  /\ relayed \in [Relays -> SUBSET Gifts] /\ offering \in {0} \cup Relays
  /\ taken \in [Gifts -> 0..LastTick \cup {Never}]
  /\ asking \in {0} \cup Relays /\ since \in Int /\ seenIds \subseteq Gifts
  /\ returned \in [Gifts -> Nat] /\ whole \in BOOLEAN /\ fetched \in 0..LastTick \cup {Never}
  /\ reborn \in 0..Restarts

\* A gift that several relays hold, and that several polls find, is opened once
\* until the recipient restarts.
OpenedOnce == \A g \in Gifts : returned[g] <= 1

\* A poll no relay failed has every gift that was published before it began and
\* is dated within its window.
PollIsWhole == \A g \in Gifts :
  taken[g] # Never /\ taken[g] < fetched /\ dated[g] >= fetched - SinceWindow => returned[g] > 0

(* nostr.py receive, "Poll configured relays for incoming gift-wrapped     *)
(* DMs": whichever relay took a gift, and whichever failed before.         *)
NostrKeeps == OpenedOnce /\ PollIsWhole
===============================================================================
