---------------------------- MODULE ResidentAgents ----------------------------
(***************************************************************************)
(* Resident agents: a chat with an agent that stays alive between          *)
(* messages.                                                               *)
(*                                                                         *)
(*   - the API process appends turns (messages and controls) to the inbox  *)
(*     of an agent, one request at a time;                                 *)
(*   - a host process owns an agent while it is alive: it claims turns in  *)
(*     order, hands them to an inner process, and gives the agent up when  *)
(*     it is idle, ended, evicted or stuck;                                *)
(*   - the inner process runs one turn at a time and may park it on a      *)
(*     question to the human; its events reach the host through a pipe;    *)
(*   - the worker daemon sweeps the agents of dead hosts, spawns hosts for *)
(*     agents with queued turns and evicts hosts over the cap.             *)
(*                                                                         *)
(* The database is all they share.  A host commits in many transactions    *)
(* and the API in up to three per request; with Serializable = TRUE nobody *)
(* else moves during a request or a sweep.                                 *)
(*                                                                         *)
(* A turn's position in the inbox is its index in turns[a].  What a        *)
(* conversation contains is abstracted to whether the agent's context was  *)
(* cleared since ("old"), or not ("new"); "none" is no conversation yet.   *)
(***************************************************************************)
EXTENDS Integers, FiniteSets, Sequences

CONSTANTS Agents, Hosts, None,
          Cap,            \* max_live_sessions
          MaxTurns,       \* bound: turns in an inbox
          MaxAsks,        \* bound: questions an agent asks
          MaxEvents,      \* bound: requests, kills and failures in a behaviour
          Serializable    \* requests and sweeps as one transaction?

ASSUME ResidentAgentsAssumption ==
  /\ None \notin Hosts \cup Agents
  /\ Cap \in Nat
  /\ MaxTurns \in Nat
  /\ MaxAsks \in Nat
  /\ MaxEvents \in Nat
  /\ Serializable \in BOOLEAN

VARIABLES
  \* sessions, session_turns and pending_inputs
  status,     \* status[a]
  hostPid,    \* host_pid[a]: a host process or None
  resume,     \* resume_handle[a]: the conversation the next inner resumes
  turns,      \* turns[a]: the inbox, every turn ever enqueued
  open,       \* open[a]: the pending input with status "pending", or 0
  older,      \* by last_activity_at: <<a, b>> when b was active after a
  \* the host processes, their inner processes and the pipes between them
  host,       \* host[h]: a record, see HostRecords
  pipe,       \* pipe[h]: events of the inner the host has not read
  \* the worker daemon
  sweep,      \* the sweep under way: the pairs of an agent read as active and
              \* the host_pid it was read with
  toSpawn,    \* agents whose spawn task has not run yet
  toEvict,    \* hosts to be sent SIGTERM
  tracked,    \* _session_procs: agents with a spawned process
  \* the API process
  req,        \* the request between two commits, or None
  \* bounds and history
  asks,       \* asks[a]: questions asked so far
  events,     \* requests, kills and failures so far
  uprooted,   \* agents that lost an inner before its question was resolved
  botched,    \* agents with a restart turn settled without a clean restart
  robbed,     \* agents whose row a sweep wrote after another host had claimed it
  shaky       \* agents ended while a host was on its way or a sweep under way

rows    == <<status, hostPid, resume, turns, open>>
daemon  == <<sweep, toSpawn, toEvict, tracked>>
history == <<uprooted, botched, robbed, shaky>>
vars == <<rows, host, pipe, daemon, req, older, asks, events, history>>

-----------------------------------------------------------------------------
Conversations == {"none", "old", "new"}

Kinds == {"user", "wake", "answer", "interrupt", "restart", "reap"}

Settled == {"done", "failed", "interrupted", "cancelled"}

\* behind: a user turn was still undelivered when this one was enqueued;
\* since: enqueued after the context was last cleared; meddled: somebody
\* asked to cancel it.
TurnRecords ==
  [kind : Kinds, st : {"queued", "delivering", "streaming"} \cup Settled,
   ref : 0..(MaxTurns + MaxAsks), force : BOOLEAN, clear : BOOLEAN,
   behind : BOOLEAN, since : BOOLEAN, meddled : BOOLEAN]

\* Serving a host holds the agent's row; its inner process is up in Running.
Running == {"loop", "user", "control", "restart", "wait", "teardown"}
Serving == Running \cup {"claimed"}

\* turn: the user turn being delivered; ctl: the control turn; run: the turn
\* the inner executes; ask: the question it is parked on (0 for none); conv:
\* its conversation; gen: how often it was restarted; tc: the conversation
\* reported with the turn_complete of turn, "no" before that; shut: _shutdown;
\* barked: the watchdog has interrupted turn.
HostRecords ==
  [pc : Serving \cup {"free", "boot", "exiting", "dead"}, agent : Agents \cup {None},
   turn : 0..MaxTurns, ctl : 0..MaxTurns, run : 0..MaxTurns, ask : 0..MaxAsks,
   conv : Conversations, gen : Nat, tc : Conversations \cup {"no"},
   shut : BOOLEAN, barked : BOOLEAN]

NoHost == [pc |-> "free", agent |-> None, turn |-> 0, ctl |-> 0, run |-> 0, ask |-> 0,
           conv |-> "none", gen |-> 0, tc |-> "no", shut |-> FALSE, barked |-> FALSE]

Events ==
  [gen : Nat, type : {"pending_input", "pending_resolved"}, id : 1..MaxAsks,
   conv : Conversations]
  \cup [gen : Nat, type : {"turn_complete"}, id : 0..MaxTurns, conv : Conversations]

Requests ==
  [op : {"answer"}, agent : Agents, id : 1..MaxAsks]
  \cup [op : {"cancel", "end turns", "end asks", "end row"}, agent : Agents, id : 0..MaxTurns]

ASSUME NoneIsNoRequest == None \notin Requests

TypeOK ==
  /\ status \in [Agents -> {"idle", "active", "ended"}]
  /\ hostPid \in [Agents -> Hosts \cup {None}]
  /\ resume \in [Agents -> Conversations]
  /\ turns \in [Agents -> Seq(TurnRecords)]
  /\ \A a \in Agents : Len(turns[a]) <= MaxTurns
  /\ open \in [Agents -> 0..MaxAsks]
  /\ older \subseteq Agents \X Agents
  /\ host \in [Hosts -> HostRecords]
  /\ \A h \in Hosts :
       /\ host[h].pc \in {"user", "wait"} => host[h].turn # 0
       /\ host[h].pc \in {"control", "restart"} => host[h].ctl # 0
       /\ host[h].pc \in {"loop", "teardown"} => host[h].turn = 0 /\ host[h].ctl = 0
       /\ host[h].pc \notin Running => host[h].run = 0 /\ host[h].ask = 0
       /\ host[h].pc \notin {"free", "dead"} => host[h].agent \in Agents
  /\ pipe \in [Hosts -> Seq(Events)]
  /\ sweep \subseteq Agents \X (Hosts \cup {None})
  /\ toSpawn \subseteq Agents
  /\ toEvict \subseteq Hosts
  /\ tracked \subseteq Agents
  /\ req \in Requests \cup {None}
  /\ asks \in [Agents -> 0..MaxAsks]
  /\ events \in 0..MaxEvents
  /\ uprooted \subseteq Agents
  /\ botched \subseteq Agents
  /\ robbed \subseteq Agents
  /\ shaky \subseteq Agents

Init ==
  /\ status = [a \in Agents |-> "idle"]
  /\ hostPid = [a \in Agents |-> None]
  /\ resume = [a \in Agents |-> "none"]
  /\ turns = [a \in Agents |-> <<>>]
  /\ open = [a \in Agents |-> 0]
  /\ older = {}
  /\ host = [h \in Hosts |-> NoHost]
  /\ pipe = [h \in Hosts |-> <<>>]
  /\ sweep = {} /\ toSpawn = {} /\ toEvict = {} /\ tracked = {}
  /\ req = None
  /\ asks = [a \in Agents |-> 0]
  /\ events = 0
  /\ uprooted = {} /\ botched = {} /\ robbed = {} /\ shaky = {}

-----------------------------------------------------------------------------
(* What the handlers read.                                                 *)

\* _pid_alive(row.host_pid).
PidAlive(a) == hostPid[a] # None /\ host[hostPid[a]].pc \notin {"free", "dead"}

TurnsIn(a, states) == {i \in DOMAIN turns[a] : turns[a][i].st \in states}
UserTurnsIn(a, states) == {i \in TurnsIn(a, states) : turns[a][i].kind = "user"}

\* _has_streaming_turn and _queued_count.
Streaming(a) == TurnsIn(a, {"streaming"})
Queued(a) == TurnsIn(a, {"queued"})

\* live_sessions.
LiveSessions == {a \in Agents : status[a] = "active" /\ PidAlive(a)}

\* sessions_needing_host.
NeedingHost == {a \in Agents : status[a] # "ended" /\ ~PidAlive(a) /\ Queued(a) # {}}

\* Nobody else moves while a serialized request is between its commits or the
\* daemon in the middle of a sweep; such a sweep that finds nobody is skipped.
ApiIdle == Serializable => req = None
Free == Serializable => req = None /\ sweep = {}

Happens == events < MaxEvents /\ events' = events + 1

\* last_activity_at = now.
Touch(a) ==
  older' = {ab \in older : a \notin {ab[1], ab[2]}} \cup {<<b, a>> : b \in Agents \ {a}}

SetTurns(a, S, state) ==
  [turns EXCEPT ![a] = [i \in DOMAIN @ |-> IF i \in S THEN [@[i] EXCEPT !.st = state] ELSE @[i]]]

RestartsAmong(a, S) == \E i \in S : turns[a][i].kind = "restart"
Botches(a, cond) == botched' = IF cond THEN botched \cup {a} ELSE botched

-----------------------------------------------------------------------------
(* Requests.  enqueue_turn appends to the inbox unless the agent has ended. *)

NewTurn(a, kind) ==
  [kind |-> kind, st |-> "queued", ref |-> 0, force |-> FALSE, clear |-> FALSE,
   behind |-> UserTurnsIn(a, {"queued", "delivering"}) # {},
   since |-> TRUE, meddled |-> FALSE]

EnqueueTurn(a, turn) ==
  /\ status[a] # "ended"
  /\ Len(turns[a]) < MaxTurns
  /\ turns' = [turns EXCEPT ![a] = Append(@, turn)]
  /\ Touch(a)

IdleApi == Free /\ req = None /\ Happens

\* post_message.
PostMessage(a) ==
  /\ IdleApi
  /\ EnqueueTurn(a, NewTurn(a, "user"))
  /\ UNCHANGED <<status, hostPid, resume, open, host, pipe, daemon, req, asks, history>>

\* wake_session: without a host and with an empty inbox, a no-op turn that
\* makes the supervisor spawn one.
WakeSession(a) ==
  /\ IdleApi
  /\ IF ~PidAlive(a) /\ Queued(a) = {}
       THEN EnqueueTurn(a, NewTurn(a, "wake"))
       ELSE status[a] # "ended" /\ Touch(a) /\ turns' = turns
  /\ UNCHANGED <<status, hostPid, resume, open, host, pipe, daemon, req, asks, history>>

RequestInterrupt(a) ==
  /\ IdleApi
  /\ Streaming(a) # {} \/ open[a] # 0
  /\ \E i \in Streaming(a) \cup IF Streaming(a) = {} THEN {0} ELSE {} :
        EnqueueTurn(a, [NewTurn(a, "interrupt") EXCEPT !.ref = i])
  /\ UNCHANGED <<status, hostPid, resume, open, host, pipe, daemon, req, asks, history>>

RequestRestart(a, force) ==
  /\ IdleApi
  /\ Streaming(a) # {} => force
  /\ EnqueueTurn(a, [NewTurn(a, "restart") EXCEPT !.force = force])
  /\ UNCHANGED <<status, hostPid, resume, open, host, pipe, daemon, req, asks, history>>

\* With clear_context the resume handle goes at once; what is said, resumed or
\* reported of the conversations so far is "old" from here on.
Outdated(conv) == IF conv = "new" THEN "old" ELSE conv

RequestClear(a, force) ==
  /\ IdleApi
  /\ Streaming(a) # {} => force
  /\ status[a] # "ended"
  /\ Len(turns[a]) < MaxTurns
  /\ Touch(a)
  /\ resume' = [resume EXCEPT ![a] = "none"]
  /\ turns' = [turns EXCEPT ![a] =
                 Append([i \in DOMAIN @ |-> [@[i] EXCEPT !.since = FALSE]],
                        [NewTurn(a, "restart") EXCEPT !.force = force, !.clear = TRUE])]
  /\ host' = [h \in Hosts |->
                IF host[h].agent # a THEN host[h]
                ELSE [host[h] EXCEPT !.conv = Outdated(@), !.tc = Outdated(@)]]
  /\ pipe' = [h \in Hosts |->
                IF host[h].agent # a THEN pipe[h]
                ELSE [i \in DOMAIN pipe[h] |-> [pipe[h][i] EXCEPT !.conv = Outdated(@)]]]
  /\ botched' = botched \ {a}
  /\ UNCHANGED <<status, hostPid, open, daemon, req, asks, uprooted, robbed, shaky>>

RequestReap(a) ==
  /\ IdleApi
  /\ Streaming(a) = {} /\ open[a] = 0 /\ PidAlive(a)
  /\ EnqueueTurn(a, NewTurn(a, "reap"))
  /\ UNCHANGED <<status, hostPid, resume, open, host, pipe, daemon, req, asks, history>>

\* answer_pending stores the answer, commits, and enqueues the answer turn.
AnswerPending(a) ==
  /\ IdleApi
  /\ open[a] # 0
  /\ Len(turns[a]) < MaxTurns
  /\ req' = [op |-> "answer", agent |-> a, id |-> open[a]]
  /\ UNCHANGED <<rows, host, pipe, daemon, asks, older, history>>

EnqueueAnswer ==
  /\ req # None /\ req.op = "answer"
  /\ EnqueueTurn(req.agent, [NewTurn(req.agent, "answer") EXCEPT !.ref = req.id])
  /\ req' = None
  /\ UNCHANGED <<status, hostPid, resume, open, host, pipe, daemon, asks, events, history>>

\* cancel_turn looks at the turn, then writes; the host may claim it between.
CancelTurn(a, i) ==
  /\ IdleApi
  /\ i \in Queued(a)
  /\ req' = [op |-> "cancel", agent |-> a, id |-> i]
  /\ turns' = [turns EXCEPT ![a][i].meddled = TRUE]
  /\ UNCHANGED <<status, hostPid, resume, open, host, pipe, daemon, asks, older, history>>

WriteCancel ==
  /\ req # None /\ req.op = "cancel"
  /\ turns' = SetTurns(req.agent, {req.id}, "cancelled")
  /\ Botches(req.agent, RestartsAmong(req.agent, {req.id}))
  /\ req' = None
  /\ UNCHANGED <<status, hostPid, resume, open, host, pipe, daemon, asks, older, events, uprooted, robbed, shaky>>

CancellableUnfinished(a) ==   \* wrong: cancels under the host's hands
  TurnsIn(a, {"queued", "delivering", "streaming"})
Cancellable(a) == Queued(a)

\* end_session: of a live agent it cancels the inbox and the question first,
\* each in a transaction of its own.
EndSession(a) ==
  /\ IdleApi
  /\ status[a] # "ended"
  /\ req' = [op |-> IF PidAlive(a) THEN "end turns" ELSE "end row", agent |-> a, id |-> 0]
  /\ UNCHANGED <<rows, host, pipe, daemon, asks, older, history>>

EndTurns ==
  /\ req # None /\ req.op = "end turns"
  /\ turns' = SetTurns(req.agent, Cancellable(req.agent), "cancelled")
  /\ Botches(req.agent, RestartsAmong(req.agent, Cancellable(req.agent)))
  /\ req' = [req EXCEPT !.op = "end asks"]
  /\ UNCHANGED <<status, hostPid, resume, open, host, pipe, daemon, asks, older, events, uprooted, robbed, shaky>>

EndAsks ==
  /\ req # None /\ req.op = "end asks"
  /\ open' = [open EXCEPT ![req.agent] = 0]
  /\ req' = [req EXCEPT !.op = "end row"]
  /\ UNCHANGED <<status, hostPid, resume, turns, host, pipe, daemon, asks, older, events, history>>

OnTheWay(a) == a \in toSpawn \/ \E h \in Hosts : host[h].pc = "boot" /\ host[h].agent = a

EndRow ==
  /\ req # None /\ req.op = "end row"
  /\ status' = [status EXCEPT ![req.agent] = "ended"]
  /\ shaky' = IF OnTheWay(req.agent) \/ \E row \in sweep : row[1] = req.agent
                THEN shaky \cup {req.agent} ELSE shaky \ {req.agent}
  /\ req' = None
  /\ UNCHANGED <<hostPid, resume, turns, open, host, pipe, daemon, asks, older, events, uprooted, botched, robbed>>

\* The API process dies between two commits.
ApiCrash ==
  /\ req # None /\ Happens
  /\ req' = None
  /\ UNCHANGED <<rows, host, pipe, daemon, asks, older, history>>

Request(a) ==
  \/ PostMessage(a) \/ WakeSession(a) \/ RequestInterrupt(a) \/ RequestReap(a)
  \/ \E force \in BOOLEAN : RequestRestart(a, force) \/ RequestClear(a, force)
  \/ AnswerPending(a) \/ EndSession(a)
  \/ \E i \in DOMAIN turns[a] : CancelTurn(a, i)

Commit == EnqueueAnswer \/ WriteCancel \/ EndTurns \/ EndAsks \/ EndRow

-----------------------------------------------------------------------------
(* The inner process (_session_runner).                                    *)

Emit(h, type, id) ==
  pipe' = [pipe EXCEPT ![h] =
             Append(@, [gen |-> host[h].gen, type |-> type, id |-> id, conv |-> host[h].conv])]

\* can_use_tool parks the turn on a question.
Ask(h) ==
  LET a == host[h].agent IN
  /\ Free
  /\ host[h].pc \in Running /\ host[h].run # 0 /\ host[h].ask = 0
  /\ asks[a] < MaxAsks
  /\ asks' = [asks EXCEPT ![a] = @ + 1]
  /\ host' = [host EXCEPT ![h].ask = asks[a] + 1]
  /\ Emit(h, "pending_input", asks[a] + 1)
  /\ UNCHANGED <<rows, daemon, req, older, events, history>>

\* _run_turn ends with a turn_complete, whatever happened in the turn.
EndTurn(h) ==
  /\ Free
  /\ host[h].pc \in Running /\ host[h].run # 0 /\ host[h].ask = 0
  /\ host' = [host EXCEPT ![h].run = 0]
  /\ Emit(h, "turn_complete", host[h].run)
  /\ UNCHANGED <<rows, daemon, req, asks, older, events, history>>

\* _answer and _interrupt: a parked question is resolved; without one an
\* answer is ignored and an interrupt only ends the turn sooner.
Unpark(h, H) ==
  IF host[h].ask # 0
    THEN /\ host' = [host EXCEPT ![h] = [H EXCEPT !.ask = 0]]
         /\ Emit(h, "pending_resolved", host[h].ask)
    ELSE /\ host' = [host EXCEPT ![h] = H]
         /\ pipe' = pipe

Uproots(h, cond) ==
  uprooted' = IF cond THEN uprooted \cup {host[h].agent} ELSE uprooted

\* close(): the turn is cancelled without a turn_complete.  The parked callback
\* may or may not get its pending_resolved out before the process is gone.
Close(h, H) ==
  /\ host' = [host EXCEPT ![h] = [H EXCEPT !.run = 0, !.ask = 0]]
  /\ \/ pipe' = pipe /\ Uproots(h, host[h].ask # 0)
     \/ host[h].ask # 0 /\ Emit(h, "pending_resolved", host[h].ask) /\ Uproots(h, FALSE)

-----------------------------------------------------------------------------
(* The host process (session_host).                                        *)

At(h, pcs) == Free /\ host[h].pc \in pcs

Agent(h) == host[h].agent

BackToLoop(h) == "loop"   \* wrong: forgets the user turn it interrupted
Back(h) == IF host[h].turn # 0 THEN "wait" ELSE "loop"

\* claim_host: UPDATE ... WHERE host_pid IS NULL, whatever the status.
ClaimableUnlessActive(a) == status[a] # "active"   \* wrong: goes by the status
Claimable(a) == hostPid[a] = None

ClaimHost(h) ==
  /\ At(h, {"boot"})
  /\ IF Claimable(Agent(h))
       THEN /\ hostPid' = [hostPid EXCEPT ![Agent(h)] = h]
            /\ status' = [status EXCEPT ![Agent(h)] = "active"]
            /\ host' = [host EXCEPT ![h].pc = "claimed"]
            /\ Touch(Agent(h))
       ELSE /\ host' = [host EXCEPT ![h].pc = "exiting"]
            /\ UNCHANGED <<hostPid, status, older>>
  /\ UNCHANGED <<resume, turns, open, pipe, daemon, req, asks, events, history>>

ReleasedToIdle(s) == "idle"   \* wrong: an ended agent too
Released(s) == IF s = "ended" THEN s ELSE "idle"

\* release_host; a teardown may publish the conversation of its inner.
ReleaseHost(h, conv) ==
  LET a == Agent(h) IN
  /\ hostPid' = [hostPid EXCEPT ![a] = None]
  /\ status' = [status EXCEPT ![a] = Released(@)]
  /\ resume' = [resume EXCEPT ![a] = conv]
  /\ host' = [host EXCEPT ![h].pc = "exiting"]

StartInner(h) ==
  /\ At(h, {"claimed"})
  /\ host' = [host EXCEPT ![h].pc = "loop", ![h].conv = resume[Agent(h)]]
  /\ UNCHANGED <<rows, pipe, daemon, req, asks, older, events, history>>

\* The environment's secrets cannot be decrypted: exit, the inbox stays.
StartUnreadable(h) ==
  /\ At(h, {"claimed"}) /\ Happens
  /\ ReleaseHost(h, resume[Agent(h)])
  /\ UNCHANGED <<turns, open, pipe, daemon, req, asks, older, history>>

\* What an event does to the open question: while one is open another is
\* refused by the unique index.
OpenForGood(o, e) ==   \* wrong: ignores pending_resolved
  IF e.type = "pending_input" /\ o = 0 THEN e.id ELSE o
OpenAfter(o, e) ==
  IF e.type = "pending_input" /\ o = 0 THEN e.id
  ELSE IF e.type = "pending_resolved" /\ o = e.id THEN 0
  ELSE o

\* One event of the pipe.  Each generation of the inner has a reader of its
\* own: only the order within a generation is kept.
ReadEvent(h, i) ==
  LET a == Agent(h)
      e == pipe[h][i]
      Rest == [j \in 1..(Len(pipe[h]) - 1) |-> pipe[h][IF j < i THEN j ELSE j + 1]]
  IN
  /\ At(h, Running)
  /\ \A j \in 1..(i - 1) : pipe[h][j].gen # e.gen
  /\ pipe' = [pipe EXCEPT ![h] = Rest]
  /\ open' = [open EXCEPT ![a] = OpenAfter(@, e)]
  /\ IF open'[a] = open[a] \/ open'[a] = 0 THEN older' = older ELSE Touch(a)
  /\ host' = IF e.type = "turn_complete" /\ e.id = host[h].turn
               THEN [host EXCEPT ![h].tc = e.conv] ELSE host
  /\ UNCHANGED <<status, hostPid, resume, turns, daemon, req, asks, events, history>>

\* The head of the main loop and of the loop that waits for turn_complete.
Looping(h) ==
  /\ At(h, {"loop", "wait"})
  /\ ~host[h].shut
  /\ host[h].pc = "wait" => host[h].tc = "no"

NoticeEnd(h) ==
  /\ Looping(h)
  /\ status[Agent(h)] = "ended"
  /\ host' = [host EXCEPT ![h].shut = TRUE]
  /\ UNCHANGED <<rows, pipe, daemon, req, asks, older, events, history>>

\* _claim_next_turn: while a user turn streams, controls only.
Deliverable(h) ==
  IF host[h].pc = "wait" THEN Queued(Agent(h)) \ UserTurnsIn(Agent(h), {"queued"})
                         ELSE Queued(Agent(h))

LatestFirst(i, S) == \A j \in S : i >= j   \* wrong: newest position first
OldestFirst(i, S) == \A j \in S : i <= j

ClaimTurn(h) ==
  /\ Looping(h)
  /\ status[Agent(h)] # "ended"
  /\ \E i \in Deliverable(h) :
     /\ OldestFirst(i, Deliverable(h))
     /\ turns' = SetTurns(Agent(h), {i}, "delivering")
     /\ host' = [host EXCEPT ![h] =
                   IF turns[Agent(h)][i].kind = "user"
                     THEN [@ EXCEPT !.pc = "user", !.turn = i]
                     ELSE [@ EXCEPT !.pc = "control", !.ctl = i]]
     /\ UNCHANGED <<status, hostPid, resume, open, pipe, daemon, req, asks, older, events, history>>

\* _deliver_user_turn up to the send: the row is set to streaming unseen.
SendUserTurn(h) ==
  /\ At(h, {"user"})
  /\ Touch(Agent(h))
  /\ turns' = SetTurns(Agent(h), {host[h].turn}, "streaming")
  /\ host' = [host EXCEPT ![h].pc = "wait", ![h].run = host[h].turn, ![h].tc = "no",
                          ![h].barked = FALSE,
                          ![h].conv = IF @ = "none" THEN "new" ELSE @]
  /\ UNCHANGED <<status, hostPid, resume, open, pipe, daemon, req, asks, events, history>>

FinishControl(h) == turns' = SetTurns(Agent(h), {host[h].ctl}, "done")

DeliverControl(h) ==
  LET H == [host[h] EXCEPT !.pc = Back(h), !.ctl = 0]
      turn == turns[Agent(h)][host[h].ctl]
  IN
  /\ At(h, {"control"})
  /\ FinishControl(h)
  /\ \/ /\ turn.kind = "answer"
        /\ IF host[h].ask = turn.ref THEN Unpark(h, H)
                                     ELSE host' = [host EXCEPT ![h] = H] /\ pipe' = pipe
     \/ /\ turn.kind = "interrupt"
        /\ Unpark(h, H)
     \/ /\ turn.kind = "wake"
        /\ host' = [host EXCEPT ![h] = H] /\ pipe' = pipe
     \/ /\ turn.kind = "reap"
        /\ host' = [host EXCEPT ![h] = [H EXCEPT !.shut = TRUE]] /\ pipe' = pipe
     \/ /\ turn.kind = "restart"
        /\ host' = [host EXCEPT ![h].pc = "restart"] /\ pipe' = pipe
  /\ UNCHANGED <<status, hostPid, resume, open, daemon, req, asks, older, events, history>>

\* _restart_inner, whether or not a turn is under way.
Reset(h) == turns[Agent(h)][host[h].ctl].clear

ResumedAnyway(h) == resume[Agent(h)]   \* wrong: trusts the wipe at the request
Resumed(h) == IF Reset(h) THEN "none" ELSE resume[Agent(h)]

RestartInner(h) ==
  LET a == Agent(h) IN
  /\ At(h, {"restart"})
  /\ resume' = [resume EXCEPT ![a] = Resumed(h)]
  /\ Close(h, [host[h] EXCEPT !.pc = Back(h), !.ctl = 0, !.gen = @ + 1, !.conv = Resumed(h)])
  /\ Botches(a, host[h].turn # 0)
  /\ UNCHANGED <<status, hostPid, turns, open, daemon, req, asks, older, events, robbed, shaky>>

RestartUnreadable(h) ==
  LET a == Agent(h) IN
  /\ At(h, {"restart"}) /\ Happens
  /\ resume' = [resume EXCEPT ![a] = Resumed(h)]
  /\ host' = [host EXCEPT ![h].pc = Back(h), ![h].ctl = 0]
  /\ Botches(a, TRUE)
  /\ UNCHANGED <<status, hostPid, turns, open, pipe, daemon, req, asks, older, uprooted, robbed, shaky>>

\* The end of _deliver_user_turn: with a turn_complete the slice is recorded
\* and the conversation published (done stands for done and failed alike).
FinishTurn(h) ==
  LET a == Agent(h) IN
  /\ At(h, {"wait"}) /\ host[h].tc # "no"
  /\ Touch(a)
  /\ turns' = SetTurns(a, {host[h].turn}, "done")
  /\ resume' = [resume EXCEPT ![a] = host[h].tc]
  /\ host' = [host EXCEPT ![h].pc = "loop", ![h].turn = 0]
  /\ UNCHANGED <<status, hostPid, open, pipe, daemon, req, asks, events, history>>

\* Without one: the host is shutting down.
AbandonTurn(h) ==
  LET a == Agent(h) IN
  /\ At(h, {"wait"}) /\ host[h].tc = "no" /\ host[h].shut
  /\ turns' = SetTurns(a, {host[h].turn} \cap Streaming(a), "interrupted")
  /\ host' = [host EXCEPT ![h].pc = "loop", ![h].turn = 0]
  /\ UNCHANGED <<status, hostPid, resume, open, pipe, daemon, req, asks, older, events, history>>

\* The max_turn_seconds watchdog (0, the default, disables both steps).
WatchdogInterrupt(h) ==
  /\ Looping(h) /\ host[h].pc = "wait" /\ ~host[h].barked
  /\ Unpark(h, [host[h] EXCEPT !.barked = TRUE])
  /\ UNCHANGED <<rows, daemon, req, asks, older, events, history>>

WatchdogFail(h) ==
  LET a == Agent(h) IN
  /\ Looping(h) /\ host[h].pc = "wait" /\ host[h].barked
  /\ turns' = SetTurns(a, {host[h].turn} \cap TurnsIn(a, {"streaming", "delivering"}), "failed")
  /\ host' = [host EXCEPT ![h].pc = "loop", ![h].turn = 0, ![h].shut = TRUE]
  /\ UNCHANGED <<status, hostPid, resume, open, pipe, daemon, req, asks, older, events, history>>

\* _should_reap, after a claim that found nothing.
IdleReap(h) ==
  /\ Looping(h) /\ host[h].pc = "loop"
  /\ Queued(Agent(h)) = {} /\ open[Agent(h)] = 0
  /\ host' = [host EXCEPT ![h].shut = TRUE]
  /\ UNCHANGED <<rows, pipe, daemon, req, asks, older, events, history>>

\* _teardown: close the inner while its readers go on, then give the row back.
Teardown(h) ==
  /\ At(h, {"loop"}) /\ host[h].shut
  /\ Close(h, [host[h] EXCEPT !.pc = "teardown"])
  /\ UNCHANGED <<rows, daemon, req, asks, older, events, botched, robbed, shaky>>

Release(h) ==
  /\ At(h, {"teardown"})
  /\ \E conv \in {resume[Agent(h)], host[h].conv} :
        /\ conv = "none" => resume[Agent(h)] = "none"
        /\ ReleaseHost(h, conv)
  /\ pipe' = [pipe EXCEPT ![h] = <<>>]
  /\ Uproots(h, open[Agent(h)] # 0)
  /\ UNCHANGED <<turns, open, daemon, req, asks, older, events, botched, robbed, shaky>>

\* The supervisor forgets the process of an agent when one of them exits.
Remembered(a) == tracked   \* wrong: it does not
Forgotten(a) == tracked \ {a}

Exit(h) ==
  /\ At(h, {"exiting"})
  /\ tracked' = Forgotten(Agent(h))
  /\ host' = [host EXCEPT ![h] = NoHost]
  /\ UNCHANGED <<rows, pipe, sweep, toSpawn, toEvict, req, asks, older, events, history>>

HostStep(h) ==
  \/ ClaimHost(h) \/ StartInner(h) \/ NoticeEnd(h) \/ ClaimTurn(h) \/ SendUserTurn(h)
  \/ DeliverControl(h) \/ RestartInner(h) \/ FinishTurn(h) \/ AbandonTurn(h)
  \/ Teardown(h) \/ Release(h) \/ Exit(h)

\* A host that dies takes its inner and what it had not read with it.
Die(h) ==
  /\ host' = [host EXCEPT ![h] = [NoHost EXCEPT !.pc = "dead"]]
  /\ pipe' = [pipe EXCEPT ![h] = <<>>]
  /\ tracked' = Forgotten(Agent(h))
  /\ Botches(Agent(h), host[h].pc = "restart")

Kill(h) ==
  /\ At(h, Serving \cup {"boot"}) /\ Happens
  /\ Die(h)
  /\ UNCHANGED <<rows, sweep, toSpawn, toEvict, req, asks, older, uprooted, robbed, shaky>>

-----------------------------------------------------------------------------
(* The supervisor pass of the worker daemon (session_reaper).              *)

Probe(pid) == pid # None /\ host[pid].pc \notin {"free", "dead"}

InFlightStreaming(a) == TurnsIn(a, {"streaming"})   \* wrong: skips delivering
InFlight(a) == TurnsIn(a, {"streaming", "delivering"})

OrphanSweep ==
  /\ ApiIdle
  /\ sweep = {} /\ toEvict = {}
  /\ sweep' = {<<a, hostPid[a]>> : a \in {b \in Agents : status[b] = "active"}}
  /\ sweep' # {}
  /\ Serializable => \E row \in sweep' : ~Probe(row[2])
  /\ UNCHANGED <<rows, host, pipe, toSpawn, toEvict, tracked, req, asks, older, events, history>>

\* One row: the pid it was read with is probed now; a dead one loses what was
\* in flight, and the row is written whatever became of it.
SweepRow(a, pid) ==
  /\ ApiIdle
  /\ <<a, pid>> \in sweep
  /\ sweep' = sweep \ {<<a, pid>>}
  /\ IF Probe(pid) THEN UNCHANGED <<rows, botched, robbed>>
     ELSE /\ turns' = SetTurns(a, InFlight(a), "failed")
          /\ Botches(a, RestartsAmong(a, InFlight(a)))
          /\ open' = [open EXCEPT ![a] = 0]
          /\ hostPid' = [hostPid EXCEPT ![a] = None]
          /\ status' = [status EXCEPT ![a] = "idle"]
          /\ robbed' = IF hostPid[a] # pid THEN robbed \cup {a} ELSE robbed
          /\ UNCHANGED resume
  /\ UNCHANGED <<host, pipe, toSpawn, toEvict, tracked, req, asks, older, events, uprooted, shaky>>

Least(m, n) == IF m < n THEN m ELSE n
Excess(n) == IF n > Cap THEN n - Cap ELSE 0

\* over_cap_evictions: least recently active first, an agent with an open
\* question or a streaming turn never.
Evictable == {a \in LiveSessions : open[a] = 0 /\ Streaming(a) = {}}

Evictions(n) ==
  {a \in Evictable : Cardinality({b \in Evictable : <<b, a>> \in older}) < n}

\* Which agents get a host (needing is in no particular order), and whose host
\* is evicted.

SupervisorPass ==
  LET live == Cardinality(LiveSessions)
      needing == NeedingHost \ tracked
      free == IF live < Cap THEN Cap - live ELSE 0
  IN
  \E S \in SUBSET needing :
     /\ ApiIdle
     /\ sweep = {} /\ toEvict = {}
     /\ Cardinality(S) = Least(free, Cardinality(needing))
     /\ toSpawn' = toSpawn \cup S
     /\ toEvict' = toEvict \cup {hostPid[a] : a \in Evictions(Excess(live))}
     /\ UNCHANGED <<rows, host, pipe, sweep, tracked, req, asks, older, events, history>>

\* A pid is not used again while anything refers to it.
Unreferenced(h) ==
  /\ \A a \in Agents : hostPid[a] # h /\ <<a, h>> \notin sweep
  /\ h \notin toEvict

SpawnSessionHost(a, h) ==
  /\ ApiIdle /\ sweep = {} /\ toEvict = {}
  /\ a \in toSpawn
  /\ host[h].pc \in {"free", "dead"} /\ Unreferenced(h)
  /\ toSpawn' = toSpawn \ {a}
  /\ tracked' = tracked \cup {a}
  /\ host' = [host EXCEPT ![h] = [NoHost EXCEPT !.pc = "boot", !.agent = a]]
  /\ UNCHANGED <<rows, pipe, sweep, toEvict, req, asks, older, events, history>>

\* SIGTERM: fatal until the host has installed its handler.
Evict(h) ==
  /\ ApiIdle /\ sweep = {}
  /\ h \in toEvict
  /\ toEvict' = toEvict \ {h}
  /\ \/ /\ host[h].pc = "claimed"
        /\ Die(h)
     \/ /\ host[h].pc \in Running
        /\ host' = [host EXCEPT ![h].shut = TRUE]
        /\ UNCHANGED <<pipe, tracked, botched>>
     \/ /\ host[h].pc \notin Serving
        /\ UNCHANGED <<host, pipe, tracked, botched>>
  /\ UNCHANGED <<rows, sweep, toSpawn, req, asks, older, events, uprooted, robbed, shaky>>

\* The daemon dies and is restarted; hosts run in sessions of their own.
DaemonCrash ==
  /\ ApiIdle /\ Happens
  /\ sweep' = {} /\ toSpawn' = {} /\ toEvict' = {} /\ tracked' = {}
  /\ UNCHANGED <<rows, host, pipe, req, asks, older, history>>

-----------------------------------------------------------------------------
Next ==
  \/ \E a \in Agents : Request(a)
  \/ Commit \/ ApiCrash
  \/ \E h \in Hosts :
       \/ Ask(h) \/ EndTurn(h)
       \/ HostStep(h) \/ IdleReap(h) \/ WatchdogInterrupt(h) \/ WatchdogFail(h)
       \/ StartUnreadable(h) \/ RestartUnreadable(h) \/ Kill(h)
       \/ \E i \in DOMAIN pipe[h] : ReadEvent(h, i)
       \/ Evict(h)
       \/ \E a \in Agents : SpawnSessionHost(a, h)
  \/ OrphanSweep \/ SupervisorPass \/ DaemonCrash
  \/ \E a \in Agents, pid \in Hosts \cup {None} : SweepRow(a, pid)

Spec == Init /\ [][Next]_vars

\* The daemon ticks, hosts poll and their readers run, a request that is being
\* served is completed, and the idle timeout and the watchdog (max_turn_seconds
\* > 0) expire in the end.  Nothing is assumed of users, of the inner process
\* or of failures.
Fairness ==
  /\ WF_vars(Commit)
  /\ WF_vars(OrphanSweep)
  /\ WF_vars(\E a \in Agents, pid \in Hosts \cup {None} : SweepRow(a, pid))
  /\ WF_vars(SupervisorPass)
  /\ WF_vars(\E a \in Agents, h \in Hosts : SpawnSessionHost(a, h))
  /\ \A h \in Hosts :
       /\ WF_vars(HostStep(h))
       /\ WF_vars(\E i \in DOMAIN pipe[h] : ReadEvent(h, i))
       /\ WF_vars(IdleReap(h))
       /\ WF_vars(WatchdogInterrupt(h) \/ WatchdogFail(h))
       /\ WF_vars(Evict(h))

FairSpec == Spec /\ Fairness

-----------------------------------------------------------------------------
(* Correctness.                                                            *)

\* The properties are about agents no claim of which was written over by a
\* sweep (robbed): such an agent has two hosts, and none of them holds.
Sound == Agents \ robbed
HostsOf(a, pcs) == {h \in Hosts : host[h].agent = a /\ host[h].pc \in pcs}

\* One process at a time serves an agent, and it is the one its row names
\* (claim_host, release_host and the sweep of dead hosts).
SoleHost ==
  \A a \in Sound : \A h \in HostsOf(a, Serving) : hostPid[a] = h

\* An agent nobody hosts has nothing in flight: every way a host can go, the
\* sweep included, settles the turn it was delivering.
NothingInFlightUnhosted ==
  \A a \in Sound : hostPid[a] = None => TurnsIn(a, {"streaming", "delivering"}) = {}

\* A turn that has been settled is not settled again, unless a request to
\* cancel it was under way while the host took it.
SettledOnce ==
  [][\A a \in Sound : \A i \in TurnsIn(a, Settled) :
        turns[a][i].meddled \/ turns'[a][i].st = turns[a][i].st]_vars

\* A question the human is asked is one the inner is parked on, or its answer
\* is on its way through the pipe; except that an inner closed before that
\* leaves its question open.
Resolving(h, r) ==
  \E i \in DOMAIN pipe[h] : pipe[h][i].type = "pending_resolved" /\ pipe[h][i].id = r

AsksAreParked ==
  \A a \in Sound \ uprooted : \A h \in HostsOf(a, Running) :
     open[a] # 0 => host[h].ask = open[a] \/ Resolving(h, open[a])

\* A reap, an interrupt or an unforced restart that was requested when nothing
\* was waiting to be delivered never hits a turn sent later, unless a request
\* to cancel that turn, under way while the host took it, hid it.
ControlsHitTheirTurn ==
  \A a \in Sound : \A h \in HostsOf(a, {"control"}) :
     LET turn == turns[a][host[h].ctl]
         hidden == host[h].turn # 0 /\ turns[a][host[h].turn].meddled
     IN
     ~turn.behind /\ ~hidden =>
        /\ turn.kind = "reap" \/ (turn.kind = "restart" /\ ~turn.force) => host[h].turn = 0
        /\ turn.kind = "interrupt" => host[h].turn \in {0, turn.ref}

\* What is said after clear_context is said in a conversation begun after it,
\* unless the restart was lost or replaced the inner in the middle of a turn.
ClearedMeansForgotten ==
  \A a \in Sound \ botched : \A h \in HostsOf(a, {"wait"}) :
     turns[a][host[h].turn].since => host[h].conv # "old"

\* An agent that was ended stays so, unless a host was on its way to it or a
\* sweep had read its row.
EndIsFinal ==
  [][\A a \in Sound \ shaky : status[a] = "ended" => status'[a] = "ended"]_vars

\* Every message is settled in the end, whatever the inner does, unless its
\* agent is ended: also one that waits until another agent gives up its slot,
\* or whose host is evicted or dies.
MessagesSettle ==
  \A a \in Agents : \A i \in 1..MaxTurns :
     i \in DOMAIN turns[a] ~> status[a] = "ended" \/ i \in TurnsIn(a, Settled)
=============================================================================
