----------------------------- MODULE ClaudeTurns -----------------------------
(***************************************************************************)
(* One turn of an agent under the Claude Agent SDK.  The runner asks the   *)
(* SDK inside the sandbox and writes one line per event to a pipe it       *)
(* shares with its own stderr (worker/_sdk_runner.py).  The executor       *)
(* drains the pipe into the transcript, waits for the process or for a     *)
(* cancellation, whichever comes first, and reports the outcome            *)
(* (worker/claude_executor.py).                                            *)
(***************************************************************************)
EXTENDS Integers, Sequences, SequencesExt

CONSTANTS None,
          Sessions,              \* session ids the SDK may hand out
          MaxBufferRecoveries,   \* _MAX_BUFFER_RECOVERIES
          MaxSaid,               \* bound: events of the SDK
          PipeRoom               \* lines the runner may be ahead of the drain

ClaudeTurnsAssumption == {MaxBufferRecoveries, MaxSaid, PipeRoom} \subseteq Nat

VARIABLES
  runner,         \* "starting", "asking", "leaving", "gone"
  rc,             \* its exit status, -1 while it has none
  attempt,        \* resumptions after an oversized tool result
  sid,            \* the session the runner knows
  said,           \* lines that reached the pipe
  pipe,           \* those the executor has not read yet
  cancel,         \* the cancel event is set
  drain,          \* "reading", "ended", "broken", "cancelled"
  heard,          \* what _handle_line noted: outcome and session
  conversation,   \* the session the conversation would resume
  file,           \* the kinds of the events in the transcript
  turn            \* "waiting", "stopping", then the reported outcome

vars == <<runner, rc, attempt, sid, said, pipe, cancel, drain, heard, conversation, file, turn>>

-----------------------------------------------------------------------------
(* Lines.                                                                  *)

\* "init" and "success" carry the session, "breadcrumb" is a system event,
\* "noise" is a line that is no JSON object: stderr, or the torn last line of a
\* process that was killed.
Line(kind, s) == [kind |-> kind, sid |-> s]
Kinds == {"init", "message", "success", "failure", "breadcrumb", "noise"}

\* What the translation leaves of a line: system events are not written.
Translate(l) == IF l.kind \in {"init", "breadcrumb"} THEN <<>> ELSE <<l.kind>>
Translated(lines) == FlattenSeq([i \in 1..Len(lines) |-> Translate(lines[i])])

Outcomes == {"success", "failed", "cancelled"}

TypeOK ==
  /\ runner \in {"starting", "asking", "leaving", "gone"}
  /\ rc \in {-1, 0, 1, 137}
  /\ attempt \in 0..MaxBufferRecoveries + 1
  /\ {sid, conversation, heard.session} \subseteq Sessions \cup {None}
  /\ \A i \in 1..Len(said) : said[i].kind \in Kinds
  /\ IsSuffix(pipe, said) /\ Len(pipe) <= PipeRoom + 1
  /\ cancel \in BOOLEAN
  /\ drain \in {"reading", "ended", "broken", "cancelled"}
  /\ heard.exit \in {"success", "failed"}
  /\ turn \in {"waiting", "stopping"} \cup Outcomes

Init ==
  /\ runner = "starting" /\ rc = -1 /\ attempt = 0 /\ sid = None
  /\ said = <<>> /\ pipe = <<>> /\ file = <<>>
  /\ cancel = FALSE /\ drain = "reading" /\ turn = "waiting"
  /\ heard = [exit |-> "success", session |-> None]
  /\ conversation \in Sessions \cup {None}

-----------------------------------------------------------------------------
(* The runner.                                                             *)

\* Its emitter suspends it while the pipe is full.
Emit(l) ==
  /\ Len(pipe) < PipeRoom
  /\ said' = Append(said, l)
  /\ pipe' = Append(pipe, l)

RunnerOnly == UNCHANGED <<cancel, drain, heard, conversation, file, turn>>

\* The SDK cannot be imported, or refuses the options; or the query starts.
Starts ==
  /\ runner = "starting"
  /\ \/ runner' = "asking" /\ UNCHANGED <<rc, said, pipe>>
     \/ Emit(Line("failure", None)) /\ runner' = "leaving" /\ rc' = 1
  /\ UNCHANGED <<attempt, sid>>
  /\ RunnerOnly

Last0 == IF said = <<>> THEN "nothing" ELSE said[Len(said)].kind
Opening == Last0 \in {"nothing", "breadcrumb"}
Answered == Last0 \in {"success", "failure"}

\* External: what the SDK yields next.  The first event of a query names its
\* session, which a resumed query may keep or replace; the last is the result.
Yields ==
  IF Opening THEN {Line("init", s) : s \in Sessions}
  ELSE IF Answered THEN {}
  ELSE {Line("message", None), Line("noise", None), Line("success", sid), Line("failure", None)}

RunnerEmits ==
  /\ runner = "asking" /\ Len(said) < MaxSaid
  /\ \E l \in Yields :
       /\ Emit(l)
       /\ sid' = IF l.sid # None THEN l.sid ELSE sid
       /\ rc' = IF l.kind = "failure" THEN 1 ELSE rc
  /\ UNCHANGED <<runner, attempt>>
  /\ RunnerOnly

\* wrong: starts over when no session is known
ResumableAnyway(n) == n <= MaxBufferRecoveries

\* The SDK cannot decode a message: the session is resumed with a nudge, unless
\* there is none or it was resumed often enough.
Resumable(n) == sid # None /\ n <= MaxBufferRecoveries

Overflows ==
  /\ runner = "asking" /\ ~Answered
  /\ attempt' = attempt + 1
  /\ IF Resumable(attempt + 1)
     THEN Emit(Line("breadcrumb", None)) /\ UNCHANGED <<runner, rc>>
     ELSE Emit(Line("failure", None)) /\ runner' = "leaving" /\ rc' = 1
  /\ UNCHANGED sid
  /\ RunnerOnly

QueryCrashes ==
  /\ runner = "asking"
  /\ Emit(Line("failure", None))
  /\ runner' = "leaving" /\ rc' = 1
  /\ UNCHANGED <<attempt, sid>>
  /\ RunnerOnly

QueryEnds ==
  /\ runner = "asking" /\ (Answered \/ Len(said) = MaxSaid)
  /\ runner' = "leaving"
  /\ rc' = IF rc = 1 THEN 1 ELSE 0
  /\ UNCHANGED <<attempt, sid, said, pipe>>
  /\ RunnerOnly

RunnerExits ==
  /\ runner = "leaving"
  /\ runner' = "gone"
  /\ UNCHANGED <<rc, attempt, sid, said, pipe>>
  /\ RunnerOnly

\* The process is killed, by the kernel or because the turn is being stopped:
\* lines still in its own buffer are lost, the last one may be torn.
RunnerKilled ==
  /\ runner # "gone"
  /\ runner' = "gone" /\ rc' = 137
  /\ \E n \in 0..Len(pipe), torn \in BOOLEAN :
       LET kept == Len(said) - Len(pipe) + n
           tail == IF torn /\ n < Len(pipe) THEN <<Line("noise", None)>> ELSE <<>>
       IN  /\ said' = SubSeq(said, 1, kept) \o tail
           /\ pipe' = SubSeq(pipe, 1, n) \o tail
  /\ UNCHANGED <<attempt, sid>>
  /\ RunnerOnly

-----------------------------------------------------------------------------
(* The executor.                                                           *)

\* The first session id is persisted as soon as it is read.
Noted(l) ==
  [exit |-> IF l.kind = "failure" THEN "failed" ELSE heard.exit,
   session |-> IF l.sid # None THEN l.sid ELSE heard.session]

Persisted(l) == IF l.sid # None /\ heard.session = None THEN l.sid ELSE conversation

DrainReads ==
  /\ drain = "reading" /\ pipe # <<>>
  /\ heard' = Noted(Head(pipe))
  /\ conversation' = Persisted(Head(pipe))
  /\ file' = file \o Translate(Head(pipe))
  /\ pipe' = Tail(pipe)
  /\ UNCHANGED <<runner, rc, attempt, sid, said, cancel, drain, turn>>

DrainEnds ==
  /\ drain = "reading" /\ pipe = <<>> /\ runner = "gone"
  /\ drain' = "ended"
  /\ UNCHANGED <<runner, rc, attempt, sid, said, pipe, cancel, heard, conversation, file, turn>>

\* The transcript cannot be written: nobody reads the pipe any more.
DrainBreaks ==
  /\ drain = "reading" /\ turn \in {"waiting", "stopping"}
  /\ drain' = "broken"
  /\ UNCHANGED <<runner, rc, attempt, sid, said, pipe, cancel, heard, conversation, file, turn>>

Cancel ==
  /\ turn = "waiting" /\ ~cancel
  /\ cancel' = TRUE
  /\ UNCHANGED <<runner, rc, attempt, sid, said, pipe, drain, heard, conversation, file, turn>>

\* The wait ends with the cancellation alone: terminate, then kill.
SeeCancel ==
  /\ turn = "waiting" /\ cancel /\ runner # "gone"
  /\ turn' = "stopping"
  /\ UNCHANGED <<runner, rc, attempt, sid, said, pipe, cancel, drain, heard, conversation, file>>

\* finish_run lifts the reported session onto the conversation.
Reported == IF heard.session # None THEN heard.session ELSE conversation

Stopped(d) == IF d = "reading" THEN "cancelled" ELSE d

Stops ==
  /\ turn = "stopping" /\ runner = "gone"
  /\ drain' = Stopped(drain)
  /\ file' = Append(file, "cancelled")
  /\ turn' = "cancelled"
  /\ conversation' = Reported
  /\ UNCHANGED <<runner, rc, attempt, sid, said, pipe, cancel, heard>>

\* wrong: a runner that was killed after its last line has succeeded
VerdictUnchecked == IF heard.exit = "failed" \/ drain = "broken" THEN "failed" ELSE "success"

Verdict ==
  IF heard.exit = "failed" \/ drain = "broken" \/ rc # 0 THEN "failed" ELSE "success"

\* A failure is told in the transcript by the local executor.
Finishes ==
  /\ turn = "waiting" /\ runner = "gone" /\ drain \in {"ended", "broken"}
  /\ turn' = Verdict
  /\ file' = IF Verdict = "failed" THEN Append(file, "worker_error") ELSE file
  /\ conversation' = Reported
  /\ UNCHANGED <<runner, rc, attempt, sid, said, pipe, cancel, drain, heard>>

-----------------------------------------------------------------------------
Next ==
  \/ Starts \/ RunnerEmits \/ Overflows \/ QueryCrashes \/ QueryEnds \/ RunnerExits \/ RunnerKilled
  \/ DrainReads \/ DrainEnds \/ DrainBreaks
  \/ Cancel \/ SeeCancel \/ Stops \/ Finishes

Spec == Init /\ [][Next]_vars

-----------------------------------------------------------------------------
(* What a turn must keep.                                                  *)

Over == turn \in Outcomes
Read == SubSeq(said, 1, Len(said) - Len(pipe))
Marker == CASE turn = "cancelled" -> <<"cancelled">>
            [] turn = "failed"    -> <<"worker_error">>
            [] OTHER              -> <<>>

\* The transcript of a turn that is over is what was read of the runner, then
\* one marker that says how it ended; a turn whose drain worked and that was
\* not cancelled has read all of it.
TurnIsTold ==
  Over => /\ file = Translated(Read) \o Marker
          /\ drain = "ended" => Read = said

\* A turn succeeds exactly when it was not cancelled, its transcript is
\* complete, and its runner exited by itself after no failure.
VerdictIsTrue ==
  Over => (turn = "success" <=>
             /\ turn # "cancelled" /\ drain = "ended" /\ rc = 0
             /\ \A i \in 1..Len(said) : said[i].kind # "failure")

\* After the turn the conversation resumes the last session that was read,
\* however the turn ended, or the one it had.
SessionIsKept ==
  LET named == SelectSeq(Read, LAMBDA l : l.sid # None)
  IN  Over /\ named # <<>> => conversation = named[Len(named)].sid

\* No query is resumed before the agent has named its session, and every failure
\* the runner reports is also its exit status.
ResumesAreSound ==
  /\ \A i \in 1..Len(said) : said[i].kind = "breadcrumb" => \E j \in 1..i : said[j].kind = "init"
  /\ runner \in {"leaving", "gone"} /\ rc = 0 =>
       \A i \in 1..Len(said) : said[i].kind # "failure"
=============================================================================
