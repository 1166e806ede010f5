--------------------------------- MODULE Socket ---------------------------------
(***************************************************************************)
(* The WebSocket rail (skcomms/transports/websocket.py).  connect starts a *)
(* receiver thread, which opens a connection, receives on it and opens     *)
(* another one when it breaks, for as long as _running says so; disconnect *)
(* clears _running and waits at most five seconds for the thread, which    *)
(* may be longer in opening a connection.  Router threads send on the      *)
(* connection that _ws named when they looked.  _ws is set under a lock,   *)
(* _connected (mostly) not.                                                *)
(*                                                                         *)
(* The definitions no action uses are plausible faults of the one after.   *)
(***************************************************************************)
EXTENDS Naturals

CONSTANTS Receivers,   \* receiver threads that connect can start
          Senders,     \* router threads
          MaxOpened,   \* connections that can be opened, 1..MaxOpened
          InboxCap     \* maxsize of _inbox

ASSUME SocketAssumption == MaxOpened \in Nat /\ InboxCap \in Nat

Sockets == 0..MaxOpened       \* 0 is none

VARIABLES
  running, ws, connected,
  receiving,   \* what each receiver thread is at, and the connection it has open
  alive,       \* connections that are not broken or closed
  opened,
  inbox,       \* messages buffered
  stopping,    \* what disconnect is at
  latest,      \* _recv_thread, as a set of at most one
  sending,     \* the connection each sender has looked up
  overlapped,  \* history: connect started a receiver while another one was alive
  failedSend   \* history: a send failed since the connection was made that _ws names

socketVars == <<running, ws, connected, receiving, alive, opened, inbox, stopping, latest, sending,
                overlapped, failedSend>>

At(step, c) == [step |-> step, on |-> c]
Receiving == [step : {"none", "loop", "opening", "opened", "open", "closing", "backoff"},
              on : Sockets]

SocketInit ==
  /\ running = FALSE /\ ws = 0 /\ connected = FALSE
  /\ receiving = [r \in Receivers |-> At("none", 0)]
  /\ alive = {} /\ opened = 0 /\ inbox = 0 /\ stopping = "no"
  /\ sending = [s \in Senders |-> 0] /\ latest = {} /\ overlapped = FALSE /\ failedSend = FALSE

Live == {r \in Receivers : receiving[r].step # "none"}
Go(r, step, c) == receiving' = [receiving EXCEPT ![r] = At(step, c)]

-------------------------------------------------------------------------------
(* connect and disconnect, called by one thread (configure calls both).    *)

Connect_ ==
  /\ stopping = "no" /\ ~running /\ running' = TRUE
  /\ \E r \in Receivers \ Live : Go(r, "loop", 0) /\ latest' = {r}
  /\ overlapped' = (overlapped \/ Live # {})
  /\ UNCHANGED <<ws, connected, alive, opened, inbox, stopping, sending, failedSend>>

DisconnectBegins ==
  /\ stopping = "no" /\ running' = FALSE /\ stopping' = "joining"
  /\ UNCHANGED <<ws, connected, receiving, alive, opened, inbox, latest, sending, overlapped, failedSend>>

\* join returns when the thread has ended, or when it has not after five seconds.
\* Only a thread that is opening a connection can be that long; it may have
\* opened it by the time the lock is taken.
Joined == \A r \in latest : receiving[r].step \in {"none", "opening"}
JoinReturns ==
  /\ stopping = "joining" /\ Joined /\ stopping' = "joined"
  /\ UNCHANGED <<running, ws, connected, receiving, alive, opened, inbox, latest, sending, overlapped, failedSend>>

DisconnectCloses ==
  /\ stopping = "joined"
  /\ ws' = 0 /\ alive' = alive \ {ws} /\ stopping' = "closed"
  /\ UNCHANGED <<running, connected, receiving, opened, inbox, latest, sending, overlapped, failedSend>>

DisconnectEnds ==
  /\ stopping = "closed" /\ connected' = FALSE /\ stopping' = "no"
  /\ UNCHANGED <<running, ws, receiving, alive, opened, inbox, latest, sending, overlapped, failedSend>>

-------------------------------------------------------------------------------
(* The receiver thread.                                                    *)

Loop(r) ==
  /\ receiving[r].step = "loop" /\ Go(r, IF running THEN "opening" ELSE "none", 0)
  /\ UNCHANGED <<running, ws, connected, alive, opened, inbox, stopping, latest, sending, overlapped, failedSend>>

OpenSocket(r) ==
  /\ receiving[r].step = "opening" /\ opened < MaxOpened
  /\ LET c == opened + 1 IN
       opened' = c /\ alive' = alive \cup {c} /\ ws' = c /\ Go(r, "opened", c)
  /\ failedSend' = FALSE
  /\ UNCHANGED <<running, connected, inbox, stopping, latest, sending, overlapped>>

SayConnected(r) ==
  /\ receiving[r].step = "opened" /\ connected' = TRUE /\ Go(r, "open", receiving[r].on)
  /\ UNCHANGED <<running, ws, alive, opened, inbox, stopping, latest, sending, overlapped, failedSend>>

\* It could not be opened: the handler clears both under the lock.
OpenFails(r) ==
  /\ receiving[r].step = "opening" /\ ws' = 0 /\ connected' = FALSE /\ Go(r, "backoff", 0)
  /\ UNCHANGED <<running, alive, opened, inbox, stopping, latest, sending, overlapped, failedSend>>

\* put_nowait; a full inbox drops the message.
Arrives(r) ==
  /\ receiving[r].step = "open" /\ receiving[r].on \in alive /\ running
  /\ inbox < InboxCap /\ inbox' = inbox + 1
  /\ UNCHANGED <<running, ws, connected, receiving, alive, opened, stopping, latest, sending, overlapped, failedSend>>

Receive ==
  /\ inbox > 0 /\ inbox' = 0
  /\ UNCHANGED <<running, ws, connected, receiving, alive, opened, stopping, latest, sending, overlapped, failedSend>>

\* The relay or the network ends a connection.
Breaks(c) ==
  /\ c \in alive /\ alive' = alive \ {c}
  /\ UNCHANGED <<running, ws, connected, receiving, opened, inbox, stopping, latest, sending, overlapped, failedSend>>

\* recv or a ping raised, or _running is clear: finally ...
KeepsWs == ws
LeavesWs == 0
Leave(r) ==
  /\ receiving[r].step = "open" /\ (receiving[r].on \notin alive \/ ~running)
  /\ ws' = LeavesWs /\ Go(r, "closing", receiving[r].on)
  /\ UNCHANGED <<running, connected, alive, opened, inbox, stopping, latest, sending, overlapped, failedSend>>

\* ... and again the handler, if it was an exception.
CloseSocket(r) ==
  /\ receiving[r].step = "closing"
  /\ connected' = FALSE /\ alive' = alive \ {receiving[r].on}
  /\ IF receiving[r].on \in alive THEN Go(r, "loop", 0) /\ UNCHANGED ws
                                  ELSE Go(r, "backoff", 0) /\ ws' = 0
  /\ UNCHANGED <<running, opened, inbox, stopping, latest, sending, overlapped, failedSend>>

Backoff(r) ==
  /\ receiving[r].step = "backoff" /\ Go(r, "loop", 0)
  /\ UNCHANGED <<running, ws, connected, alive, opened, inbox, stopping, latest, sending, overlapped, failedSend>>

-------------------------------------------------------------------------------
(* send.                                                                   *)

LooksUp(s) ==
  /\ sending[s] = 0 /\ ws # 0 /\ connected /\ sending' = [sending EXCEPT ![s] = ws]
  /\ UNCHANGED <<running, ws, connected, receiving, alive, opened, inbox, stopping, latest, overlapped, failedSend>>

\* A failure says that nothing is connected, whichever connection failed.
SendEnds(s) ==
  /\ sending[s] # 0 /\ sending' = [sending EXCEPT ![s] = 0]
  /\ IF sending[s] \in alive THEN UNCHANGED <<connected, failedSend>>
                             ELSE connected' = FALSE /\ failedSend' = TRUE
  /\ UNCHANGED <<running, ws, receiving, alive, opened, inbox, stopping, latest, overlapped>>

SocketNext ==
  \/ Connect_ \/ DisconnectBegins \/ JoinReturns \/ DisconnectCloses \/ DisconnectEnds \/ Receive
  \/ \E r \in Receivers : \/ Loop(r) \/ OpenSocket(r) \/ SayConnected(r) \/ OpenFails(r)
                          \/ Arrives(r) \/ Leave(r) \/ CloseSocket(r) \/ Backoff(r)
  \/ \E c \in Sockets : Breaks(c)
  \/ \E s \in Senders : LooksUp(s) \/ SendEnds(s)

SocketSpec == SocketInit /\ [][SocketNext]_socketVars

-------------------------------------------------------------------------------
(* Every variable keeps its shape.                                         *)
SocketTypeOK ==
  /\ {running, connected, overlapped, failedSend} \subseteq BOOLEAN
  /\ ws \in Sockets /\ opened \in Sockets /\ alive \subseteq Sockets \ {0}
  /\ receiving \in [Receivers -> Receiving] /\ inbox \in 0..InboxCap
  /\ stopping \in {"no", "joining", "joined", "closed"} /\ latest \subseteq Receivers
  /\ sending \in [Senders -> Sockets]

(* is_available, disconnect: as long as no receiver was started beside     *)
(* another one, a single thread receives; while it does, _ws names its     *)
(* connection, and the rail is available unless a send failed on it or on  *)
(* one before it; and when none holds a connection, the rail names none    *)
(* and none is left open.                                                  *)
SocketKeeps == ~overlapped =>
  /\ \A q, r \in Live : q = r
  /\ \A r \in Live : receiving[r].step = "open" /\ running =>
       ws = receiving[r].on /\ (connected \/ failedSend)
  /\ (\A r \in Receivers : receiving[r].step \notin {"opened", "open", "closing"}) =>
       ws = 0 /\ alive = {} /\ (stopping = "no" => ~connected)
===============================================================================
