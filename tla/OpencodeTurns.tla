---------------------------- MODULE OpencodeTurns ----------------------------
(***************************************************************************)
(* One turn of an agent under opencode: the driver starts the server in    *)
(* the sandbox, waits until it answers, creates a session, subscribes to   *)
(* the events, posts the prompt, and translates what it reads until its    *)
(* session is idle (backends/opencode_driver.py, opencode_translate.py).   *)
(* opencode repeats a part with all of its text each time it grows, its    *)
(* tools as a status and the tokens of a message as a running total.       *)
(* Follow-ups are the subject of Steering.                                 *)
(***************************************************************************)
EXTENDS Integers, Sequences, FiniteSets, SequencesExt

CONSTANTS None,
          Replies,      \* the messages of the assistant
          MaxTold       \* bound: events of the session

OpencodeTurnsAssumption == MaxTold \in Nat /\ "prompt" \notin Replies

VARIABLES
  server,    \* "booting", "up", "gone"
  phase,     \* where drive_opencode is
  session,   \* what it has done: "created", "subscribed", "posted"
  agent,     \* external: what the agent has done so far
  sent,      \* events the session has sent
  stream,    \* those the driver has not read yet
  state,     \* the state of the translation
  cancel,    \* the cancel event is set
  file,      \* events written to the transcript
  outcome    \* None, or what the driver returned

vars == <<server, phase, session, agent, sent, stream, state, cancel, file, outcome>>

-----------------------------------------------------------------------------
Messages == {"prompt"} \cup Replies
Event(type, id, n) == [type |-> type, id |-> id, n |-> n]
Phases == {"waiting", "creating", "subscribing", "posting", "consuming", "stopping", "over"}
Outcomes == {"success", "failed", "cancelled", "crashed"}

\* text_len, message_role of the user's messages, tools_started, tools_done,
\* usage_by_message, usage, error.
NewState == [text |-> [m \in Messages |-> 0], users |-> {}, started |-> FALSE, done |-> FALSE,
             tokens |-> [m \in Replies |-> 0], usage |-> 0, error |-> FALSE]

TypeOK ==
  /\ server \in {"booting", "up", "gone"}
  /\ phase \in Phases
  /\ session \subseteq {"created", "subscribed", "posted"} /\ cancel \in BOOLEAN
  /\ sent \in 0..MaxTold + 1 /\ Len(stream) <= sent
  /\ state.text \in [Messages -> Nat] /\ state.tokens \in [Replies -> Nat]
  /\ state.users \subseteq {"prompt"}
  /\ outcome \in Outcomes \cup {None}

Init ==
  /\ server = "booting" /\ phase = "waiting" /\ session = {}
  /\ agent = [text |-> [m \in Messages |-> 0], tokens |-> [m \in Replies |-> 0], known |-> {},
              tool |-> "pending", erred |-> FALSE, idle |-> FALSE]
  /\ sent = 0 /\ stream = <<>> /\ state = NewState
  /\ cancel = FALSE /\ file = <<>> /\ outcome = None

-----------------------------------------------------------------------------
(* External: the server and the agent.                                     *)

DriverKeeps == UNCHANGED <<phase, session, state, cancel, file, outcome>>

ServerBoots ==
  /\ server = "booting" /\ server' = "up"
  /\ UNCHANGED <<agent, sent, stream>> /\ DriverKeeps

ServerDies ==
  /\ server # "gone" /\ phase # "over" /\ server' = "gone"
  /\ UNCHANGED <<agent, sent, stream>> /\ DriverKeeps

\* Once the prompt is posted, events go to who has subscribed.
Working == server = "up" /\ "posted" \in session /\ phase # "over" /\ ~agent.idle
Sends(e) ==
  /\ Working
  /\ sent < MaxTold /\ sent' = sent + 1
  /\ stream' = IF "subscribed" \in session THEN Append(stream, e) ELSE stream
  /\ UNCHANGED server /\ DriverKeeps

\* A message is announced with its role, then a part of it grows or is repeated.
Announces(m) ==
  /\ m \notin agent.known
  /\ agent' = [agent EXCEPT !.known = @ \cup {m}]
  /\ Sends(Event("role", m, 0))

Speaks(m, more) ==
  /\ m \in agent.known /\ agent.text[m] + more \in 1..2
  /\ agent' = [agent EXCEPT !.text[m] = @ + more]
  /\ Sends(Event("text", m, agent.text[m] + more))

\* The status of its one tool call; "running" may never be seen.
UsesTool(status) ==
  /\ status \in (CASE agent.tool = "pending" -> {"running", "completed"}
                   [] OTHER                  -> {agent.tool, "completed"})
  /\ agent' = [agent EXCEPT !.tool = status]
  /\ Sends(Event("tool", status, 0))

Spends(m) ==
  /\ m \in agent.known /\ agent.tokens[m] < 2
  /\ agent' = [agent EXCEPT !.tokens[m] = @ + 1]
  /\ Sends(Event("usage", m, agent.tokens[m] + 1))

Errs ==
  /\ ~agent.erred
  /\ agent' = [agent EXCEPT !.erred = TRUE]
  /\ Sends(Event("error", None, 0))

\* Another session of the server, that of a sub-agent, goes idle.
ChildIdles == UNCHANGED agent /\ Sends(Event("idle", "child", 0))

\* The prompt is completed.
Idles ==
  /\ Working
  /\ agent' = [agent EXCEPT !.idle = TRUE]
  /\ sent' = sent + 1
  /\ stream' = IF "subscribed" \in session THEN Append(stream, Event("idle", "own", 0)) ELSE stream
  /\ UNCHANGED server /\ DriverKeeps

Agent ==
  \/ \E m \in Messages, more \in {0, 1} : Announces(m) \/ Speaks(m, more)
  \/ \E status \in {"running", "completed"} : UsesTool(status)
  \/ \E m \in Replies : Spends(m)
  \/ Errs \/ ChildIdles \/ Idles

-----------------------------------------------------------------------------
(* The translation of one event: what is written, and the state it leaves. *)

\* opencode repeats a part: only what is new of it is written.
Grown(e) == e.type = "text" /\ e.n > state.text[e.id]
\* The prompt itself comes as a part of the user's message.
Typed(e) == e.type = "text" /\ e.id \in state.users
Calls(e) == e.type = "tool" /\ e.id = "running" /\ ~state.started
Finishes(e) == e.type = "tool" /\ e.id = "completed" /\ ~state.done

\* wrong: all of a part is written whenever it grows
Whole(e) == e.n
Delta(e) == e.n - state.text[e.id]

Translated(e) ==
  CASE Typed(e)         -> <<>>
    [] Grown(e)         -> <<Event("assistant_text", e.id, Delta(e))>>
    [] Calls(e)         -> <<Event("tool_use", None, 0)>>
    [] Finishes(e)      -> <<Event("tool_result", None, 0)>>
    [] e.type = "error" -> <<Event("worker_error", None, 0)>>
    [] OTHER            -> <<>>

Updated(e) ==
  CASE e.type = "role" /\ e.id = "prompt" -> [state EXCEPT !.users = @ \cup {e.id}]
    [] e.type = "usage" -> [state EXCEPT !.tokens[e.id] = e.n, !.usage = e.n]
    [] e.type = "error" -> [state EXCEPT !.error = TRUE]
    [] Grown(e) /\ ~Typed(e) -> [state EXCEPT !.text[e.id] = e.n]
    [] Calls(e)         -> [state EXCEPT !.started = TRUE]
    [] Finishes(e)      -> [state EXCEPT !.done = TRUE]
    [] OTHER            -> state

-----------------------------------------------------------------------------
(* The driver.                                                             *)

ServerKeeps == UNCHANGED <<server, agent, sent>>

Cancel ==
  /\ phase # "over" /\ ~cancel /\ cancel' = TRUE
  /\ ServerKeeps /\ UNCHANGED <<phase, session, stream, state, file, outcome>>

Ready ==
  /\ phase = "waiting" /\ server = "up" /\ phase' = "creating"
  /\ ServerKeeps /\ UNCHANGED <<session, stream, state, cancel, file, outcome>>

\* The server exited, or did not answer in time.
NotReady ==
  /\ phase = "waiting"
  /\ phase' = "over" /\ server' = "gone" /\ outcome' = "failed"
  /\ file' = Append(file, Event("worker_error", None, 0))
  /\ UNCHANGED <<session, agent, sent, stream, state, cancel>>

\* wrong: the prompt is posted before the driver has subscribed
PostFirst == <<"creating", "posting", "subscribing", "consuming">>
Order == <<"creating", "subscribing", "posting", "consuming">>

Proceeds ==
  /\ server = "up"
  /\ \E i \in 1..3 : phase = Order[i] /\ phase' = Order[i + 1]
  /\ session' = session \cup {CASE phase = "creating"    -> "created"
                               [] phase = "subscribing" -> "subscribed"
                               [] phase = "posting"     -> "posted"}
  /\ ServerKeeps /\ UNCHANGED <<stream, state, cancel, file, outcome>>

\* An HTTP error in any of these steps, or while the events are read.
HttpFails ==
  /\ phase \in {"creating", "subscribing", "posting", "consuming"}
  /\ phase' = "stopping" /\ outcome' = "failed" /\ session' = {}
  /\ file' = Append(file, Event("worker_error", None, 0))
  /\ ServerKeeps /\ UNCHANGED <<stream, state, cancel>>

\* The answer to the creation has no id: the exception leaves drive_opencode
\* at once, the server is not terminated.
Crashes ==
  /\ phase = "creating" /\ server = "up"
  /\ phase' = "over" /\ outcome' = "crashed"
  /\ ServerKeeps /\ UNCHANGED <<session, stream, state, cancel, file>>

Ends(o) == phase' = "stopping" /\ outcome' = o /\ UNCHANGED <<session, cancel>>

Verdict(clean) == IF clean /\ ~state.error THEN "success" ELSE "failed"

ReadsEvent ==
  /\ phase = "consuming" /\ stream # <<>> /\ ~cancel
  /\ LET e == Head(stream)
     IN  /\ stream' = Tail(stream)
         /\ IF e.type = "idle" /\ e.id = "own"
            THEN Ends(Verdict(TRUE)) /\ UNCHANGED <<state, file>>
            ELSE /\ state' = Updated(e) /\ file' = file \o Translated(e)
                 /\ UNCHANGED <<phase, session, cancel, outcome>>
  /\ ServerKeeps

\* Seen while it waits for a line, and before a line is looked at.
SeesCancel ==
  /\ phase = "consuming" /\ cancel
  /\ Ends("cancelled")
  /\ ServerKeeps /\ UNCHANGED <<stream, state, file>>

StreamEnds ==
  /\ phase = "consuming" /\ server = "gone" /\ stream = <<>>
  /\ Ends(Verdict(FALSE))
  /\ ServerKeeps /\ UNCHANGED <<stream, state, file>>

\* Terminate, after 5 s kill; then the marker of a cancellation.
Stops ==
  /\ phase = "stopping"
  /\ phase' = "over" /\ server' = "gone"
  /\ file' = IF outcome = "cancelled" THEN Append(file, Event("cancelled", None, 0)) ELSE file
  /\ UNCHANGED <<session, agent, sent, stream, state, cancel, outcome>>

Next ==
  \/ ServerBoots \/ ServerDies \/ Agent
  \/ Cancel \/ Ready \/ NotReady \/ Proceeds \/ HttpFails \/ Crashes
  \/ ReadsEvent \/ SeesCancel \/ StreamEnds \/ Stops

Spec == Init /\ [][Next]_vars

-----------------------------------------------------------------------------
(* What a turn must keep.                                                  *)

TokensOf(tokens) == FoldFunction(+, 0, tokens)
WrittenOf(m) ==
  FoldSeq(LAMBDA e, n : IF e.type = "assistant_text" /\ e.id = m THEN n + e.n ELSE n, 0, file)
Count(type) == Cardinality({i \in DOMAIN file : file[i].type = type})

\* A turn that ended with an idle session has told each reply once and in full,
\* and the sum over its messages is what the agent has spent; in any case
\* nothing is told twice and nothing of the prompt is told as a reply.
IdleTurnIsTold ==
  /\ phase = "over" /\ outcome = "success" =>
       /\ \A m \in Replies : WrittenOf(m) = agent.text[m]
       /\ TokensOf(state.tokens) = TokensOf(agent.tokens)
       /\ (Count("tool_result") = 1) = (agent.tool = "completed")
  /\ \A m \in Replies : WrittenOf(m) <= agent.text[m]
  /\ Count("tool_use") <= 1 /\ Count("tool_result") <= 1
  /\ \A i \in DOMAIN file : file[i].type = "assistant_text" => file[i].id \in Replies

\* Success is an idle session without an error; whatever else ends a turn is told
\* in the transcript or by a stream that broke off; a cancelled one says so last.
IdleVerdictIsTrue ==
  phase = "over" =>
    /\ outcome = "success" => agent.idle /\ ~agent.erred /\ session # {}
    /\ outcome = "cancelled" <=> file # <<>> /\ Last(file).type = "cancelled"
    /\ outcome = "cancelled" => cancel

\* No turn that was answered leaves its server behind.  (An exception does.)
ServerIsStopped == phase = "over" /\ outcome # "crashed" => server = "gone"
=============================================================================
