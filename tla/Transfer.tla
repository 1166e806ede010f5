-------------------------------- MODULE Transfer --------------------------------
(***************************************************************************)
(* One chunked file transfer (skcomms/transports/file.py send_file,        *)
(* resume_file, _dispatch_chunks, _TransferState).  The sums of the chunks *)
(* are taken once and kept in the state file; whoever resumes compares the *)
(* source with them, sends what is not marked, and saves the state after   *)
(* every chunk.  Meanwhile the source may be rewritten or removed and the  *)
(* process may die.  One process at a time works on a transfer: two would  *)
(* share the temporary name of the state file.                             *)
(*                                                                         *)
(* The state file and the chunk envelopes are renamed into place, so each  *)
(* write of one is a step.  The definitions no action uses are plausible   *)
(* faults of the one after them.                                           *)
(***************************************************************************)
EXTENDS Naturals, FiniteSets

CONSTANTS ChunkCount,       \* total_chunks
          Contents,         \* what the bytes of a chunk may be
          NoState,
          TransferCrashes,  \* bound on the crashes of a behaviour
          Rewrites          \* bound on the changes of the source

ASSUME TransferAssumption ==
  ChunkCount \in Nat \ {0} /\ TransferCrashes \in Nat /\ Rewrites \in Nat

ChunkIds == 1..ChunkCount
Data     == [ChunkIds -> Contents]
States   == [sums : Data, verified : SUBSET ChunkIds, completed : BOOLEAN]
ASSUME NoStateAssumption == NoState \notin States

VARIABLES
  source, present,   \* the file: its bytes, whether it is there
  saved,             \* {id}.json
  sender,            \* what send_file or resume_file does next
  rewritten, crashed,
  puts,              \* history: envelopes written, per chunk and content
  lapsed             \* history: how often a resume took back the mark of a chunk

file         == <<source, present, rewritten>>
transferVars == <<file, saved, sender, crashed, puts, lapsed>>

AtRest  == [step |-> "rest"]
Runs     == {AtRest} \cup [step : {"recheck", "open"}, state : States]
                     \cup [step : {"chunk", "mark"}, state : States, data : Data]

TransferInit ==
  /\ source \in Data /\ present = TRUE /\ rewritten = 0
  /\ saved = NoState /\ sender = AtRest /\ crashed = 0
  /\ puts = [c \in ChunkIds |-> [v \in Contents |-> 0]]
  /\ lapsed = [c \in ChunkIds |-> 0]

-------------------------------------------------------------------------------
(* send_file and resume_file up to the dispatch.                           *)

\* The sums of a new transfer, saved; what happens between the reading and the
\* saving is as if it happened after both.
SendFile ==
  /\ sender = AtRest /\ present /\ saved = NoState
  /\ LET state == [sums |-> source, verified |-> {}, completed |-> FALSE] IN
       saved' = state /\ sender' = [step |-> "open", state |-> state]
  /\ UNCHANGED <<file, crashed, puts, lapsed>>

\* send_file with the id of a transfer that has a state file.
SendAgain ==
  /\ sender = AtRest /\ present /\ saved # NoState
  /\ sender' = [step |-> "open", state |-> saved]
  /\ UNCHANGED <<file, saved, crashed, puts, lapsed>>

ResumeFile ==
  /\ sender = AtRest /\ saved # NoState
  /\ sender' = [step |-> IF present THEN "recheck" ELSE "open", state |-> saved]
  /\ UNCHANGED <<file, saved, crashed, puts, lapsed>>

\* Marked chunks whose bytes are not what they were lose their mark, and the
\* state is saved; a file that vanished meanwhile raises.
Unmarked(state) == {c \in state.verified : source[c] # state.sums[c]}

Recheck ==
  /\ sender.step = "recheck"
  /\ IF present
     THEN /\ saved' = [sender.state EXCEPT !.verified = @ \ Unmarked(sender.state)]
          /\ sender' = [step |-> "open", state |-> saved']
          /\ lapsed' = [c \in ChunkIds |->
                          lapsed[c] + IF c \in Unmarked(sender.state) THEN 1 ELSE 0]
     ELSE sender' = AtRest /\ UNCHANGED <<saved, lapsed>>
  /\ UNCHANGED <<file, crashed, puts>>

-------------------------------------------------------------------------------
(* _dispatch_chunks: the file is read once, then the chunks in order.      *)

OpenSource ==
  /\ sender.step = "open"
  /\ sender' = IF present THEN [step |-> "chunk", state |-> sender.state, data |-> source]
                          ELSE AtRest
  /\ UNCHANGED <<file, saved, crashed, puts, lapsed>>

Unsent      == ChunkIds \ sender.state.verified
IsNext(c)   == c \in Unsent /\ \A d \in Unsent : c <= d
AnyBytes(c) == TRUE
\* "Verify integrity before sending"
BytesMatch(c) == sender.data[c] = sender.state.sums[c]

PutChunk(c) ==
  /\ sender.step = "chunk" /\ IsNext(c) /\ BytesMatch(c)
  /\ puts' = [puts EXCEPT ![c][sender.data[c]] = @ + 1]
  /\ sender' = [sender EXCEPT !.step = "mark"]
  /\ UNCHANGED <<file, saved, crashed, lapsed>>

IntegrityError(c) ==
  /\ sender.step = "chunk" /\ IsNext(c) /\ ~BytesMatch(c)
  /\ sender' = AtRest
  /\ UNCHANGED <<file, saved, crashed, puts, lapsed>>

NotMarked(state, c) == state
MarkedSent(state, c) == [state EXCEPT !.verified = @ \cup {c}]

MarkChunk(c) ==
  /\ sender.step = "mark" /\ IsNext(c)
  /\ saved' = MarkedSent(sender.state, c)
  /\ sender' = [sender EXCEPT !.step = "chunk", !.state = MarkedSent(@, c)]
  /\ UNCHANGED <<file, crashed, puts, lapsed>>

Complete ==
  /\ sender.step = "chunk" /\ Unsent = {}
  /\ saved' = [sender.state EXCEPT !.completed = TRUE]
  /\ sender' = AtRest
  /\ UNCHANGED <<file, crashed, puts, lapsed>>

-------------------------------------------------------------------------------
RewriteSource(bytes, there) ==
  /\ rewritten < Rewrites /\ rewritten' = rewritten + 1
  /\ source' = bytes /\ present' = there
  /\ UNCHANGED <<saved, sender, crashed, puts, lapsed>>

TransferCrash ==
  /\ sender # AtRest /\ crashed < TransferCrashes
  /\ crashed' = crashed + 1 /\ sender' = AtRest
  /\ UNCHANGED <<file, saved, puts, lapsed>>

TransferNext ==
  \/ SendFile \/ SendAgain \/ ResumeFile \/ Recheck
  \/ OpenSource \/ Complete
  \/ \E c \in ChunkIds : PutChunk(c) \/ IntegrityError(c) \/ MarkChunk(c)
  \/ \E bytes \in Data, there \in BOOLEAN : RewriteSource(bytes, there)
  \/ TransferCrash

TransferSpec == TransferInit /\ [][TransferNext]_transferVars

-------------------------------------------------------------------------------
(* Every variable keeps its shape.                                         *)
TransferTypeOK ==
  /\ source \in Data /\ present \in BOOLEAN /\ rewritten \in 0..Rewrites
  /\ saved \in States \cup {NoState} /\ sender \in Runs /\ crashed \in 0..TransferCrashes
  /\ puts \in [ChunkIds -> [Contents -> Nat]] /\ lapsed \in [ChunkIds -> Nat]

\* "the chunk envelope was successfully written": what the state file marks, and
\* every chunk of a completed transfer, was put with the bytes of its sum.
MarksAreTrue == saved # NoState =>
  \A c \in saved.verified \cup (IF saved.completed THEN ChunkIds ELSE {}) :
    puts[c][saved.sums[c]] > 0

\* "preventing silently corrupt partial transfers": nothing else is ever put,
\* so the chunks put by several runs belong to one file.
OneFile == \A c \in ChunkIds, v \in Contents :
  puts[c][v] > 0 => saved # NoState /\ saved.sums[c] = v

\* "already-verified chunks are skipped": a chunk goes out once, and again only
\* after a crash before its mark or a resume that took the mark back.
SentOnce == \A c \in ChunkIds, v \in Contents : puts[c][v] <= 1 + crashed + lapsed[c]

(* file.py, "so interrupted transfers can be resumed": whatever happens to *)
(* the source and to the process, the state file tells the truth about     *)
(* what was sent.                                                          *)
TransferKeeps == MarksAreTrue /\ OneFile /\ SentOnce
===============================================================================
