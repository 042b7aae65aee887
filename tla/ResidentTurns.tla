---------------------------- MODULE ResidentTurns ----------------------------
(***************************************************************************)
(* The turns of one resident agent between its host and its inner: the     *)
(* Claude runner behind a pipe (worker/_session_runner.py) or an opencode  *)
(* server behind HTTP and its stream of events (worker/                    *)
(* resident_backends.py).  The host waits for a turn to complete, slices   *)
(* what it used from what the inner has used since it started, and keeps   *)
(* the conversation through restarts and sleeps (worker/session_host.py).  *)
(* The inbox, claims, questions and crashes of hosts are the subject of    *)
(* ResidentAgents.                                                         *)
(***************************************************************************)
EXTENDS Integers, Sequences, FiniteSets, FiniteSetsExt, Functions

CONSTANTS None,
          Backends,       \* subset of {"claude", "opencode"}
          MaxTurns,
          MaxTokens,      \* bound: of a turn
          MaxStarts,      \* bound: inners
          MaxFaults       \* bound: posts that fail, turns that crash, idles of sub-agents

ResidentTurnsAssumption ==
  /\ Backends \subseteq {"claude", "opencode"}
  /\ {MaxTurns, MaxTokens, MaxStarts, MaxFaults} \subseteq Nat

VARIABLES
  backend,
  turns,      \* the user turns: [status, tokens]
  host,       \* [pc, turn, done, prev, clear]: where it is, the turn that streams, the
              \* completions, the baseline, and if the restart clears the context
  inner,      \* the handle: [gen, session, active, error, seen]
  server,     \* external: the prompts the agent works on
  stream,     \* the lines of opencode's events the handle has not read
  queue,      \* the completions the host has not read
  saved,      \* the session of resume_handle
  total,      \* the tokens of the session row
  truth,      \* ghost: of the turns [spent, ended, erred, sliced, refused], and the
              \* conversation they are in [talk]
  marks,      \* ghost: "lost", "overtaken", "unreported", "uprooted": see below
  faults

vars == <<backend, turns, host, inner, server, stream, queue, saved, total, truth, marks, faults>>

Turns == 1..MaxTurns
Claude == backend = "claude"
Opencode == backend = "opencode"

TypeOK ==
  /\ backend \in Backends
  /\ \A t \in Turns : turns[t].status \in {"queued", "streaming", "done", "failed", "interrupted"}
  /\ host.pc \in {"loop", "posting", "waits", "closing", "down"}
  /\ (host.turn # None) <=> (\E t \in Turns : turns[t].status = "streaming" /\ t = host.turn)
  /\ \A c, d \in host.done : c.turn = d.turn => c = d
  /\ \A i \in DOMAIN queue : queue[i].gen <= inner.gen
  /\ Claude => stream = << >>
  /\ marks \subseteq {"lost", "overtaken", "unreported", "uprooted"}

\* A handle, fresh from start.
Started(gen, session) ==
  [gen |-> gen, session |-> session, active |-> None, error |-> FALSE, seen |-> [t \in Turns |-> 0]]

Init ==
  /\ backend \in Backends
  /\ turns = [t \in Turns |-> [status |-> "queued", tokens |-> 0]]
  /\ host = [pc |-> "loop", turn |-> None, done |-> {}, prev |-> 0, clear |-> FALSE]
  /\ inner = Started(1, None)
  /\ server = << >> /\ stream = << >> /\ queue = << >>
  /\ saved = None /\ total = 0 /\ marks = {} /\ faults = 0
  /\ truth = [spent |-> [t \in Turns |-> 0], ended |-> {}, erred |-> {}, sliced |-> {},
              refused |-> {}, talk |-> None]

-----------------------------------------------------------------------------
(* The inner.                                                              *)

Fault == faults < MaxFaults /\ faults' = faults + 1

\* The session the agent speaks in, made by its first prompt.
Session == IF inner.session = None THEN inner.gen ELSE inner.session

\* _cumulative_tokens: the latest total of every message, one for each turn.  (The
\* Claude SDK tells the sum itself.)
Completion(t, session) ==
  [turn |-> t, gen |-> inner.gen, used |-> SumFunction(inner.seen), session |-> session,
   error |-> inner.error]

\* _start_turn posts the prompt, in a new session if there is none.  A post whose
\* answer is lost was accepted all the same; the turn is finished either way.
Post ==
  /\ host.pc = "posting" /\ host' = [host EXCEPT !.pc = "waits"]
  /\ \E how \in {"ok", "refused", "lost"}, session \in {Session, inner.session} :
       LET t == host.turn
           fails == how # "ok"
       IN  /\ how = "refused" \/ session # None
           /\ IF fails THEN Fault ELSE UNCHANGED faults
           /\ inner' = [inner EXCEPT !.session = session,
                                     !.active = IF fails /\ @ = t THEN None ELSE @]
           /\ queue' = IF fails /\ inner.active = t THEN Append(queue, Completion(t, session)) ELSE queue
           /\ server' = IF how = "refused" THEN server ELSE Append(server, t)
           /\ truth' = [truth EXCEPT !.talk = session, !.refused = IF fails THEN @ \cup {t} ELSE @]
           /\ marks' = IF how = "lost" THEN marks \cup {"lost"} ELSE marks
  /\ UNCHANGED <<backend, turns, stream, saved, total>>

\* External: the agent works on one prompt after the other.  An interrupt, or the
\* abort it is for opencode, is one more reason for a turn to end.
Line(type, t, n) == [type |-> type, turn |-> t, n |-> n]

Works ==
  /\ server # << >>
  /\ LET t == Head(server)
         n == truth.spent[t] + 1
     IN /\ n <= MaxTokens
        /\ truth' = [truth EXCEPT !.spent[t] = n, !.talk = IF Claude THEN Session ELSE @]
        /\ IF Claude THEN inner' = [inner EXCEPT !.session = Session, !.seen[t] = n] /\ UNCHANGED stream
                     ELSE stream' = Append(stream, Line("usage", t, n)) /\ UNCHANGED inner
  /\ UNCHANGED <<backend, turns, host, server, queue, saved, total, marks, faults>>

ProviderErrs ==
  /\ Opencode /\ server # << >> /\ Head(server) \notin truth.erred /\ Fault
  /\ stream' = Append(stream, Line("error", Head(server), 0))
  /\ truth' = [truth EXCEPT !.erred = @ \cup {Head(server)}]
  /\ UNCHANGED <<backend, turns, host, inner, server, queue, saved, total, marks>>

\* A sub-agent's session goes idle.
ChildIdles ==
  /\ Opencode /\ server # << >> /\ Fault
  /\ stream' = Append(stream, Line("child idle", Head(server), 0))
  /\ UNCHANGED <<backend, turns, host, inner, server, queue, saved, total, truth, marks>>

\* opencode says its session is idle; the Claude runner completes the turn, without
\* usage if it crashed.
Ends ==
  /\ server # << >> /\ server' = Tail(server)
  /\ LET t == Head(server)
     IN /\ truth' = [truth EXCEPT !.ended = @ \cup {t}]
        /\ \/ /\ Opencode /\ stream' = Append(stream, Line("idle", t, 0))
              /\ UNCHANGED <<queue, marks, faults>>
           \/ /\ Claude /\ queue' = Append(queue, Completion(t, inner.session))
              /\ UNCHANGED <<stream, marks, faults>>
           \/ /\ Claude /\ Fault /\ marks' = marks \cup {"unreported"}
              /\ queue' = Append(queue, [Completion(t, inner.session) EXCEPT !.used = 0])
              /\ UNCHANGED stream
  /\ UNCHANGED <<backend, turns, host, inner, saved, total>>

\* _handle_sse_event.
EndsTurnAnyIdle(l) == l.type \in {"idle", "child idle"}   \* wrong: whichever session
EndsTurn(l) == l.type = "idle"

ReadLine ==
  /\ stream # << >> /\ stream' = Tail(stream) /\ host.pc # "closing"
  /\ LET l == Head(stream)
         finishes == EndsTurn(l) /\ inner.active # None
     IN /\ inner' = [inner EXCEPT
             !.seen[l.turn] = IF l.type = "usage" THEN l.n ELSE @,
             !.error = @ \/ (l.type = "error" /\ inner.active # None),
             !.active = IF finishes THEN None ELSE @]
        /\ queue' = IF finishes THEN Append(queue, Completion(inner.active, inner.session)) ELSE queue
  /\ UNCHANGED <<backend, turns, host, server, saved, total, truth, marks, faults>>

-----------------------------------------------------------------------------
(* The host.                                                               *)

\* _deliver_user_turn, of the first turn in the inbox.
Deliver ==
  /\ host.pc = "loop"
  /\ \E t \in Turns :
       /\ turns[t].status = "queued" /\ \A u \in 1..t - 1 : turns[u].status # "queued"
       /\ turns' = [turns EXCEPT ![t].status = "streaming"]
       /\ host' = [host EXCEPT !.pc = IF Claude THEN "waits" ELSE "posting", !.turn = t,
                               !.done = {c \in @ : c.turn # t}]
       /\ inner' = [inner EXCEPT !.active = t, !.error = FALSE]
       /\ server' = IF Claude THEN Append(server, t) ELSE server
  /\ UNCHANGED <<backend, stream, queue, saved, total, truth, marks, faults>>

\* _read_events; after a restart also those the previous inner had sent.
ReadQueue ==
  /\ queue # << >> /\ queue' = Tail(queue)
  /\ host' = [host EXCEPT !.done = {c \in @ : c.turn # Head(queue).turn} \cup {Head(queue)}]
  /\ UNCHANGED <<backend, turns, inner, server, stream, saved, total, truth, marks, faults>>

Completed == \E c \in host.done : c.turn = host.turn

\* _slice_usage.
BaselineKept(c) == host.prev   \* wrong: each turn counts all before it
Baseline(c) == c.used
Slice ==
  /\ host.pc = "waits"
  /\ \E c \in host.done :
       LET delta == Max({0, c.used - host.prev})
       IN  /\ c.turn = host.turn
           /\ turns' = [turns EXCEPT ![c.turn] = [status |-> IF c.error THEN "failed" ELSE "done",
                                                  tokens |-> delta]]
           /\ total' = total + delta
           /\ saved' = IF c.session = None THEN saved ELSE c.session
           /\ host' = [host EXCEPT !.pc = "loop", !.turn = None, !.prev = Baseline(c), !.done = @ \ {c}]
           /\ truth' = [truth EXCEPT !.sliced = @ \cup {c.turn}]
           /\ marks' = IF c.gen = inner.gen THEN marks ELSE marks \cup {"overtaken"}
  /\ UNCHANGED <<backend, inner, server, stream, queue, faults>>

\* _restart_inner: the resume handle is read, or dropped, then the inner closed.  A
\* conversation no turn has told the session of is lost.
Uproots(clear) == ~clear /\ saved = None /\ truth.talk # None

Restart(clear) ==
  /\ host.pc \in {"loop", "waits"} /\ ~Completed /\ inner.gen < MaxStarts
  /\ host' = [host EXCEPT !.pc = "closing", !.clear = clear]
  /\ saved' = IF clear THEN None ELSE saved
  /\ UNCHANGED <<backend, turns, inner, server, stream, queue, total, truth, marks, faults>>

\* What the Claude runner wrote before is still read; what the reader of opencode's
\* events had not put into the queue is not.
Respawn ==
  /\ host.pc = "closing"
  /\ inner' = Started(inner.gen + 1, saved) /\ server' = << >> /\ stream' = << >>
  /\ host' = [host EXCEPT !.pc = IF host.turn = None THEN "loop" ELSE "waits",
                          !.prev = 0, !.clear = FALSE]
  /\ truth' = [truth EXCEPT !.talk = IF host.clear THEN None ELSE @]
  /\ marks' = IF Uproots(host.clear) THEN marks \cup {"uprooted"} ELSE marks
  /\ UNCHANGED <<backend, turns, queue, saved, total, faults>>

\* Reap, eviction, or the watchdog, with what it makes of the turn; then _teardown,
\* which asks opencode's handle for its session.
PublishedNot(session) == saved   \* wrong: only completions publish it
Published(session) == IF Opencode /\ session # None THEN session ELSE saved
Stop(status) ==
  /\ host.pc \in {"loop", "waits"} /\ ~Completed
  /\ turns' = IF host.turn = None THEN turns ELSE [turns EXCEPT ![host.turn].status = status]
  /\ host' = [host EXCEPT !.pc = "down", !.turn = None, !.done = {}]
  /\ saved' = Published(inner.session)
  /\ server' = << >> /\ stream' = << >> /\ queue' = << >>
  /\ marks' = IF Claude /\ Uproots(FALSE) THEN marks \cup {"uprooted"} ELSE marks
  /\ UNCHANGED <<backend, inner, total, truth, faults>>

Wake ==
  /\ host.pc = "down" /\ inner.gen < MaxStarts
  /\ inner' = Started(inner.gen + 1, saved)
  /\ host' = [host EXCEPT !.pc = "loop", !.prev = 0]
  /\ UNCHANGED <<backend, turns, server, stream, queue, saved, total, truth, marks, faults>>

Next ==
  \/ Post \/ Works \/ ProviderErrs \/ ChildIdles \/ Ends \/ ReadLine
  \/ Deliver \/ ReadQueue \/ Slice \/ Respawn \/ Wake
  \/ \E clear \in BOOLEAN : Restart(clear)
  \/ \E status \in {"interrupted", "failed"} : Stop(status)

-----------------------------------------------------------------------------
(* What it promises.                                                       *)

\* A turn is charged with what it used, once, and the session with what its turns
\* used, unless a completion is sliced after a restart ("overtaken"), or a Claude
\* turn crashes, which resets the baseline ("unreported").
UsageIsSliced ==
  marks \cap {"overtaken", "unreported"} = {} =>
    /\ total <= SumFunction(truth.spent)
    /\ total = SumFunction([t \in Turns |-> turns[t].tokens])
    /\ "lost" \notin marks => \A t \in truth.sliced : turns[t].tokens = truth.spent[t]

\* A turn that reads done was answered, and reads failed if the provider failed;
\* except one whose post failed, which reads done, and, once such a post was
\* accepted nevertheless ("lost"), those after it.
VerdictIsTold ==
  "lost" \notin marks =>
    \A t \in truth.sliced \ truth.refused :
      t \in truth.ended /\ turns[t].status = IF t \in truth.erred THEN "failed" ELSE "done"

\* An inner goes on with the conversation unless the context was cleared, or nothing
\* had told its session yet ("uprooted"), or it told the old one after ("overtaken").
ConversationIsKept ==
  host.pc \notin {"closing", "down"} /\ marks \cap {"uprooted", "overtaken"} = {} =>
    inner.session = truth.talk
=============================================================================
