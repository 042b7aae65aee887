---------------------------- MODULE SessionImport ----------------------------
(***************************************************************************)
(* The file in which Claude keeps the conversation of a resident agent and *)
(* what the agent's transcript tells of it (domain/session_import.py).     *)
(* While a host is up, its inner writes lines to the file and streams them *)
(* to the host, which writes them to the transcript.  While none is, a     *)
(* human may go on in a terminal; the next host, or a request, imports     *)
(* what lies past a watermark.  One session, from its first turn on; what  *)
(* else a host does is the subject of ResidentAgents and ResidentTurns.    *)
(***************************************************************************)
EXTENDS Integers, Sequences, SequencesExt

CONSTANTS MaxLines, MaxHosts, MaxSyncs

SessionImportAssumption == {MaxLines, MaxHosts, MaxSyncs} \subseteq Nat

VARIABLES
  file,       \* the lines of Claude's file
  half,       \* its last line is still being written
  lag,        \* lines the inner has not yet written to it
  pipe,       \* lines the inner has streamed and the host has not read
  told,       \* the lines of the transcript
  watermark,  \* imported_lines of resume_handle
  known,      \* if resume_handle tells the session
  host,       \* [pc, total]: where the host is, the length of the file it imported
  call,       \* the same of the request, and the watermark it has read
  lines, hosts, syncs,
  ghost       \* lines [mixed, torn, cut, again], see below, and if a host started
              \* during a request

vars == <<file, half, lag, pipe, told, watermark, known, host, call, lines, hosts, syncs, ghost>>

Past(n) == SubSeq(file, n + 1, Len(file))

TypeOK ==
  /\ Len(file) + Len(lag) <= lines /\ lines <= MaxLines
  /\ ToSet(pipe) \cup ToSet(told) \subseteq 1..lines
  /\ half => file # << >>
  /\ host.pc \in {"none", "booting", "imported", "up", "sliced", "closing", "closed", "dead"}
  /\ call.pc \in {"idle", "checked", "imported"}
  /\ host.pc \in {"none", "dead", "booting"} => pipe = << >> /\ lag = << >>

Init ==
  /\ file = << >> /\ lag = << >> /\ pipe = << >> /\ told = << >>
  /\ half = FALSE /\ watermark = 0 /\ known = FALSE
  /\ host = [pc |-> "none", total |-> 0]
  /\ call = [pc |-> "idle", total |-> 0, mark |-> 0]
  /\ lines = 0 /\ hosts = 0 /\ syncs = 0
  /\ ghost = [mixed |-> {}, torn |-> {}, cut |-> {}, again |-> {}, raced |-> FALSE]

NoHost == host.pc \in {"none", "dead"}

-----------------------------------------------------------------------------
(* External: the terminal and the inner.                                   *)

\* A line of the terminal is there in part first.  The code leaves alone what a
\* terminal writes beside a host ("mixed").
TypeLine ==
  /\ known /\ ~half /\ lines < MaxLines
  /\ lines' = lines + 1 /\ file' = Append(file, lines') /\ half' = TRUE
  /\ ghost' = IF NoHost THEN ghost ELSE [ghost EXCEPT !.mixed = @ \cup {lines'}]
  /\ UNCHANGED <<lag, pipe, told, watermark, known, host, call, hosts, syncs>>

FinishLine ==
  /\ half /\ half' = FALSE
  /\ UNCHANGED <<file, lag, pipe, told, watermark, known, host, call, lines, hosts, syncs, ghost>>

\* The inner streams a line, and writes it to the file by and by.
StreamLine ==
  /\ host.pc = "up" /\ lines < MaxLines
  /\ lines' = lines + 1 /\ pipe' = Append(pipe, lines') /\ lag' = Append(lag, lines')
  /\ UNCHANGED <<file, half, told, watermark, known, host, call, hosts, syncs, ghost>>

WriteLine ==
  /\ lag # << >> /\ ~half
  /\ lag' = Tail(lag) /\ file' = Append(file, Head(lag))
  /\ UNCHANGED <<half, pipe, told, watermark, known, host, call, lines, hosts, syncs, ghost>>

-----------------------------------------------------------------------------
(* import_delta: the lines past the watermark, but for one that does not   *)
(* parse; the watermark passes that one too.                               *)

Parsed(n) == IF half THEN Front(Past(n)) ELSE Past(n)
Grown(n) == Len(file) > n
Torn == IF half THEN [ghost EXCEPT !.torn = @ \cup {Last(file)}] ELSE ghost

\* The host claims the agent, imports, and commits the watermark.
Boot ==
  /\ host.pc = "none" /\ hosts < MaxHosts /\ (known \/ lines = 0)
  /\ host' = [host EXCEPT !.pc = "booting"] /\ hosts' = hosts + 1
  /\ ghost' = IF call.pc = "idle" THEN ghost ELSE [ghost EXCEPT !.raced = TRUE]
  /\ UNCHANGED <<file, half, lag, pipe, told, watermark, known, call, lines, syncs>>

DeltaImport ==
  /\ host.pc = "booting"
  /\ IF known /\ Grown(watermark)
     THEN /\ told' = told \o Parsed(watermark) /\ ghost' = Torn
          /\ host' = [pc |-> "imported", total |-> Len(file)]
     ELSE host' = [host EXCEPT !.pc = "up"] /\ UNCHANGED <<told, ghost>>
  /\ UNCHANGED <<file, half, lag, pipe, watermark, known, call, lines, hosts, syncs>>

Resume ==
  /\ host.pc = "imported"
  /\ watermark' = host.total /\ host' = [host EXCEPT !.pc = "up"]
  /\ UNCHANGED <<file, half, lag, pipe, told, known, call, lines, hosts, syncs, ghost>>

\* _read_events.
ReadPipe ==
  /\ host.pc \in {"up", "closing"} /\ pipe # << >>
  /\ pipe' = Tail(pipe) /\ told' = Append(told, Head(pipe))
  /\ UNCHANGED <<file, half, lag, watermark, known, host, call, lines, hosts, syncs, ghost>>

\* advance_import_watermark.
AdvancedByTurn == IF host.pc = "sliced" THEN Len(file) ELSE watermark   \* wrong: not at teardown
Advanced == IF known THEN Len(file) ELSE watermark

\* _slice_usage, once the turn has completed: the session, then the watermark.
Slice ==
  /\ host.pc = "up" /\ pipe = << >> /\ lines > 0
  /\ known' = TRUE /\ host' = [host EXCEPT !.pc = "sliced"]
  /\ UNCHANGED <<file, half, lag, pipe, told, watermark, call, lines, hosts, syncs, ghost>>

Advance ==
  /\ host.pc = "sliced"
  /\ watermark' = Advanced /\ host' = [host EXCEPT !.pc = "up"]
  /\ UNCHANGED <<file, half, lag, pipe, told, known, call, lines, hosts, syncs, ghost>>

\* _teardown: the inner closed, the reader cancelled, the watermark, the release.
\* An inner that has to be killed leaves lines unwritten.
TearDown ==
  /\ host.pc = "up" /\ host' = [host EXCEPT !.pc = "closing"]
  /\ UNCHANGED <<file, half, lag, pipe, told, watermark, known, call, lines, hosts, syncs, ghost>>

InnerEnds(pc) ==
  /\ ~half \/ lag = << >>
  /\ \E n \in 0..Len(lag) : file' = file \o SubSeq(lag, 1, n)
  /\ lag' = << >> /\ pipe' = << >> /\ host' = [host EXCEPT !.pc = pc]
  /\ UNCHANGED <<half, told, watermark, known, call, lines, hosts, syncs>>

CloseInner ==
  /\ host.pc = "closing" /\ InnerEnds("closed")
  /\ ghost' = [ghost EXCEPT !.cut = @ \cup ToSet(pipe)]

Release ==
  /\ host.pc = "closed"
  /\ watermark' = Advanced /\ host' = [host EXCEPT !.pc = "none"]
  /\ UNCHANGED <<file, half, lag, pipe, told, known, call, lines, hosts, syncs, ghost>>

\* The host dies; the lines it had told and the watermark has not passed are told
\* again.
Kill ==
  /\ host.pc \notin {"none", "dead"} /\ InnerEnds("dead")
  /\ ghost' = [ghost EXCEPT !.again = @ \cup (ToSet(told) \ ToSet(SubSeq(file, 1, watermark)))]

Sweep ==
  /\ host.pc = "dead" /\ host' = [host EXCEPT !.pc = "none"]
  /\ UNCHANGED <<file, half, lag, pipe, told, watermark, known, call, lines, hosts, syncs, ghost>>

-----------------------------------------------------------------------------
(* The request sync-terminal.                                              *)

SyncAnytime == TRUE   \* wrong: beside a host
SyncAllowed == NoHost

SyncCheck ==
  /\ call.pc = "idle" /\ syncs < MaxSyncs /\ known /\ SyncAllowed
  /\ call' = [call EXCEPT !.pc = "checked", !.mark = watermark] /\ syncs' = syncs + 1
  /\ UNCHANGED <<file, half, lag, pipe, told, watermark, known, host, lines, hosts, ghost>>

SyncImport ==
  /\ call.pc = "checked"
  /\ IF Grown(call.mark)
     THEN /\ told' = told \o Parsed(call.mark) /\ ghost' = Torn
          /\ call' = [call EXCEPT !.pc = "imported", !.total = Len(file)]
     ELSE call' = [call EXCEPT !.pc = "idle"] /\ UNCHANGED <<told, ghost>>
  /\ UNCHANGED <<file, half, lag, pipe, watermark, known, host, lines, hosts, syncs>>

SyncCommit ==
  /\ call.pc = "imported"
  /\ watermark' = call.total /\ call' = [call EXCEPT !.pc = "idle"]
  /\ UNCHANGED <<file, half, lag, pipe, told, known, host, lines, hosts, syncs, ghost>>

Next ==
  \/ TypeLine \/ FinishLine \/ StreamLine \/ WriteLine
  \/ Boot \/ DeltaImport \/ Resume \/ ReadPipe \/ Slice \/ Advance
  \/ TearDown \/ CloseInner \/ Release \/ Kill \/ Sweep
  \/ SyncCheck \/ SyncImport \/ SyncCommit

-----------------------------------------------------------------------------
(* What it promises.                                                       *)

\* The transcript tells a line once, unless its host died before the watermark
\* passed it ("again"), or a host started while a request imported.
ToldOnce ==
  ~ghost.raced =>
    \A i, j \in DOMAIN told : told[i] = told[j] => i = j \/ told[i] \in ghost.again

\* The watermark passes no line that was not told, but for those a terminal wrote
\* beside a host, a line read while it was written ("torn"), and what the host had
\* not read of a turn it tore down ("cut").
NothingPassed ==
  \A n \in 1..watermark :
    n <= Len(file) => file[n] \in ToSet(told) \cup ghost.mixed \cup ghost.torn \cup ghost.cut

\* The transcript tells the lines in their order.
ToldInOrder ==
  ~ghost.raced =>
    \A i, j \in DOMAIN told :
      i < j /\ {told[i], told[j]} \cap (ghost.again \cup ghost.mixed) = {} => told[i] < told[j]
=============================================================================
