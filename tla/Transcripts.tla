------------------------------ MODULE Transcripts ------------------------------
(***************************************************************************)
(* The transcript of a conversation: one NDJSON file that its turns append *)
(* to, and the server-sent stream that replays and tails it for a client.  *)
(*                                                                         *)
(*   - a turn's driver keeps a counter of its own and appends line by      *)
(*     line; the run process and the API (for a pod's batches) append      *)
(*     single events with the next seq they find in the file;              *)
(*   - the stream sends the lines in order, typed and with their seq as    *)
(*     id, and ends when it is at the end of the file and its run (or      *)
(*     ticket) is found over; a client that loses the connection asks      *)
(*     again from the last id it got.                                      *)
(*                                                                         *)
(* A line is its seq and its turn.  A long line becomes visible in parts:  *)
(* a reader at the end of the file may get a fragment of it.               *)
(***************************************************************************)
EXTENDS Integers, Sequences, FiniteSets

CONSTANTS
  Backend,    \* a sequence: "claude", "opencode" or "pod" for each turn
  MaxLines,   \* bound: lines of the file
  MaxDrops    \* bound: connections lost, and turns that overlap the one before

Turns == 1..Len(Backend)

TranscriptsAssumption ==
  /\ Backend \in Seq({"claude", "opencode", "pod"})
  /\ MaxLines \in Nat /\ MaxDrops \in Nat

VARIABLES
  file,      \* the lines: [seq, turn]
  torn,      \* the turn whose line, the last of the file, is visible in part, or 0
  turn,      \* the turns: [pc, next (the driver's seq counter)]
  running,   \* the ticket is running
  conn,      \* the connection: state, endpoint, position in the file, floor
  client,    \* the browser: last id received, lines received, fragments, repeats
  drops,
  crowded    \* history: a turn began while the one before was still writing

vars == <<file, torn, turn, running, conn, client, drops, crowded>>

-----------------------------------------------------------------------------
Lines == [seq : Nat, turn : Turns]

\* of: the turn of the run endpoint, 0 for the ticket endpoint; typed: the file
\* was found canonical; live: the run was unfinished; half: the first part of
\* the next line is read.
Conns == [state : {"off", "replay", "tail", "eof", "lost", "ended"}, of : Turns \cup {0},
          typed : BOOLEAN, live : BOOLEAN, pos : 0..MaxLines, half : BOOLEAN, floor : Int]
Clients == [last : Int, got : SUBSET (1..MaxLines), fragments : SUBSET (1..MaxLines),
            again : SUBSET (1..MaxLines), plain : BOOLEAN]

TypeOK ==
  /\ file \in Seq(Lines) /\ Len(file) <= MaxLines
  /\ torn \in Turns \cup {0} /\ (torn # 0 => file # <<>>)
  /\ turn \in [Turns -> [pc : {"new", "open", "writing", "left", "closed", "over"}, next : Nat]]
  /\ running \in BOOLEAN /\ crowded \in BOOLEAN
  /\ conn \in Conns /\ conn.pos <= Len(file) /\ (conn.half => conn.pos < Len(file))
  /\ client \in Clients /\ client.again \subseteq client.got
  /\ drops \in 0..MaxDrops

Off == [state |-> "off", of |-> 0, typed |-> FALSE, live |-> TRUE, pos |-> 0,
        half |-> FALSE, floor |-> -1]

Init ==
  /\ file = <<>> /\ torn = 0
  /\ turn = [t \in Turns |-> [pc |-> "new", next |-> 0]]
  /\ running = FALSE
  /\ conn = Off
  /\ client = [last |-> -1, got |-> {}, fragments |-> {}, again |-> {}, plain |-> FALSE]
  /\ drops = 0
  /\ crowded = FALSE

Loses == drops < MaxDrops /\ drops' = drops + 1

-----------------------------------------------------------------------------
(* The writers.                                                            *)

\* next_transcript_seq: above every seq of the file.
HighestSeq == IF file = <<>> THEN -1
              ELSE CHOOSE s \in {file[i].seq : i \in DOMAIN file} :
                     \A i \in DOMAIN file : file[i].seq <= s
LastSeqAgain == IF file = <<>> THEN 0 ELSE HighestSeq   \* wrong: off by one
NextSeq == HighestSeq + 1

AppendLine(t, s) ==
  /\ Len(file) < MaxLines
  /\ torn = 0
  /\ file' = Append(file, [seq |-> s, turn |-> t])

\* start_run: the turn has a row, on the conversation's transcript.  The turn
\* before is over, or cancelled and slow to stop.
StartTurn(t) ==
  /\ turn[t].pc = "new"
  /\ \A u \in 1..(t - 1) : turn[u].pc # "new"
  /\ IF \A u \in 1..(t - 1) : turn[u].pc = "over"
       THEN UNCHANGED <<drops, crowded>>
       ELSE Loses /\ crowded' = TRUE
  /\ turn' = [turn EXCEPT ![t].pc = "open"]
  /\ running' = TRUE
  /\ UNCHANGED <<file, torn, conn, client>>

\* append_event, append_events and append_worker_error: read the next seq, write
\* one event.  The run process does it in its setup, after the driver returned
\* (a failure, a lost session) and after finish_run (commit_on_finish, a late
\* setup error); the API does it for the batches of a pod.
AppendEvent(t) ==
  /\ \/ turn[t].pc \in {"open", "left", "closed"}
     \/ turn[t].pc = "writing" /\ Backend[t] = "pod"
  /\ AppendLine(t, NextSeq)
  /\ UNCHANGED <<torn, turn, running, conn, client, drops, crowded>>

\* The driver takes its counter: LocalExecutor.execute hands the next seq of the
\* file to ClaudeExecutor; drive_opencode starts at 0.
Seed(t) == IF Backend[t] = "opencode" THEN 0 ELSE NextSeq

StartDriver(t) ==
  /\ turn[t].pc = "open"
  /\ turn' = [turn EXCEPT ![t] = [pc |-> "writing", next |-> Seed(t)]]
  /\ UNCHANGED <<file, torn, running, conn, client, drops, crowded>>

\* write_event with the driver's counter; a long line is first visible in part.
DriverWrites(t) ==
  /\ turn[t].pc = "writing" /\ Backend[t] # "pod"
  /\ AppendLine(t, turn[t].next)
  /\ turn' = [turn EXCEPT ![t].next = @ + 1]
  /\ torn' \in {0, t}
  /\ UNCHANGED <<running, conn, client, drops, crowded>>

FinishLine ==
  /\ torn # 0
  /\ torn' = 0
  /\ UNCHANGED <<file, turn, running, conn, client, drops, crowded>>

Proceed(t, from, to) ==
  /\ turn[t].pc = from
  /\ torn # t
  /\ turn' = [turn EXCEPT ![t].pc = to]
  /\ UNCHANGED <<file, torn, conn, client, drops, crowded>>

\* The driver returns; finish_run; the landing in review and the end of run_one.
DriverReturns(t) == Proceed(t, "writing", "left") /\ UNCHANGED running
FinishRun(t) == Proceed(t, "left", "closed") /\ UNCHANGED running
Leave(t) == Proceed(t, "closed", "over") /\ running' = (running /\ \E u \in Turns : u > t /\ turn[u].pc # "new")

-----------------------------------------------------------------------------
(* The stream.                                                             *)

Unfinished(t) == turn[t].pc \in {"open", "writing", "left"}

\* transcript_sse (of = 0) and run_transcript_sse: the page opens the stream, or
\* the browser reconnects by itself and sends the last id.  A file that is empty
\* is not canonical.
Floor(last) == last

Connect(t) ==
  /\ conn.state = "off" \/ (conn.state = "lost" /\ conn.of = t)
  /\ IF t = 0 THEN \E u \in Turns : turn[u].pc # "new"
              ELSE turn[t].pc # "new" /\ file # <<>>
  /\ conn' = [state |-> "replay", of |-> t, typed |-> file # <<>>,
              live |-> (t = 0 \/ Unfinished(t)), pos |-> 0, half |-> FALSE,
              floor |-> Floor(client.last)]
  /\ client' = [client EXCEPT !.plain = @ \/ file = <<>>]
  /\ UNCHANGED <<file, torn, turn, running, drops, crowded>>

\* _format_sse: a typed line at or below the floor is left out.
SuppressedBelow(seq) == conn.typed /\ seq < conn.floor   \* wrong: the last one again
Suppressed(seq) == conn.typed /\ seq <= conn.floor

Receive(i) ==
  client' = [client EXCEPT !.got = @ \cup {i},
                           !.again = IF i \in client.got THEN @ \cup {i} ELSE @,
                           !.last = IF conn.typed THEN file[i].seq ELSE @]

\* The last line may still be incomplete: what there is of it is sent as it is,
\* and the rest of it later.
Whole(i) == i < Len(file) \/ torn = 0

ReadLine ==
  LET i == conn.pos + 1 IN
  /\ conn.state \in {"replay", "tail"}
  /\ i <= Len(file)
  /\ IF Whole(i) THEN conn' = [conn EXCEPT !.pos = i, !.half = FALSE]
                 ELSE ~conn.half /\ conn' = [conn EXCEPT !.half = TRUE]
  /\ IF Whole(i) /\ ~conn.half
       THEN IF Suppressed(file[i].seq) THEN UNCHANGED client ELSE Receive(i)
       ELSE client' = [client EXCEPT !.fragments = @ \cup {i}]
  /\ UNCHANGED <<file, torn, turn, running, drops, crowded>>

AtEnd == conn.pos = Len(file) \/ (conn.half /\ torn # 0)

\* readline returns nothing; then the row is read, or the stream was a replay.
ReadEof ==
  /\ conn.state \in {"replay", "tail"}
  /\ AtEnd
  /\ conn' = [conn EXCEPT !.state = IF conn.live THEN "eof" ELSE "ended"]
  /\ UNCHANGED <<file, torn, turn, running, client, drops, crowded>>

Over == IF conn.of = 0 THEN ~running ELSE ~Unfinished(conn.of)

CheckRow ==
  /\ conn.state = "eof"
  /\ conn' = [conn EXCEPT !.state = IF Over THEN "ended" ELSE "tail"]
  /\ UNCHANGED <<file, torn, turn, running, client, drops, crowded>>

\* The network drops the connection: EventSource connects again to the same URL.
Drop ==
  /\ conn.state \in {"replay", "tail", "eof"}
  /\ Loses
  /\ conn' = [conn EXCEPT !.state = "lost", !.pos = 0, !.half = FALSE]
  /\ UNCHANGED <<file, torn, turn, running, client, crowded>>

Next ==
  \/ \E t \in Turns :
       \/ StartTurn(t) \/ AppendEvent(t) \/ StartDriver(t) \/ DriverWrites(t)
       \/ DriverReturns(t) \/ FinishRun(t) \/ Leave(t)
  \/ FinishLine
  \/ \E t \in Turns \cup {0} : Connect(t)
  \/ ReadLine \/ ReadEof \/ CheckRow \/ Drop

Spec == Init /\ [][Next]_vars

-----------------------------------------------------------------------------
(* What must hold.                                                         *)

\* The file has one seq space: each line is above all lines before it, over
\* the turns of the conversation (transcript.py, next_transcript_seq), as long
\* as they do not overlap.  The ids of the stream rest on it.
SeqsIncrease ==
  ~crowded => \A i, j \in DOMAIN file : i < j => file[i].seq < file[j].seq

\* A client gets the lines once: whatever the stream has passed reached it,
\* on this connection or on one before, except the lines it read in fragments;
\* and no line comes twice, except to a client whose first connection found
\* the file empty and so got no ids.
StreamIsExact ==
  ~crowded =>
    /\ 1..conn.pos \subseteq client.got \cup client.fragments
    /\ client.again # {} => client.plain
=============================================================================
