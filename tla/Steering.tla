------------------------------- MODULE Steering -------------------------------
(***************************************************************************)
(* Mid-run steering: the follow-ups a user types while a run is live.      *)
(*                                                                         *)
(* A follow-up is a row of steer_messages.  It reaches the agent in one of *)
(* two ways:                                                               *)
(*   - live: the watcher of the run claims the row (pending -> delivering) *)
(*     and hands it to the backend's driver, which POSTs it into the       *)
(*     session and marks it delivered;                                     *)
(*   - at rest: the end of the run drains what is still pending or         *)
(*     delivering into the ticket's next_run_context, cancels the rows and *)
(*     continues the conversation; the next run loads that text into its   *)
(*     prompt and clears the column.                                       *)
(* The orphan sweep of the daemon returns a claim to pending when the      *)
(* ticket is no longer running.                                            *)
(*                                                                         *)
(* One ticket, one resumable conversation.  Follow-ups and runs are        *)
(* numbered in the order they are created.  As in TicketRuns, reading and  *)
(* committing are separate steps unless Serializable; the moves of the     *)
(* ticket, whose races TicketRuns is about, are single steps here.         *)
(***************************************************************************)
EXTENDS Integers, FiniteSets, SequencesExt

CONSTANTS NMsgs,         \* bound: follow-ups typed in a behaviour
          NRuns,         \* bound: run processes spawned in a behaviour
          None,
          MaxEvents,     \* bound: user requests, crashes and failed calls
          Serializable   \* reads and the commits decided on them in one step?

ASSUME SteeringAssumption ==
  /\ NMsgs \in Nat
  /\ NRuns \in Nat
  /\ None \notin Nat
  /\ MaxEvents \in Nat
  /\ Serializable \in BOOLEAN

VARIABLES
  inject,     \* does the backend of the conversation provide STEER_INJECT?
  ticket,     \* the ticket's status; "rest" is any but queued and running
  staged,     \* next_run_context: the texts it is made of
  msg,        \* msg[m]: the row of steer_messages
  run,        \* run[r]: a run process, its watcher and its driver
  dpc,        \* where the daemon is in its tick
  stuck,      \* pass 3: the claims to return to pending
  req,        \* the steering request between its read and its commit, or None
  events,     \* number of events so far
  heard,      \* history: the texts the agent was given, in order
  suspect,    \* history: follow-ups whose delivery nobody may vouch for
  withdrawn,  \* history: follow-ups the user cancelled
  replaced,   \* history: follow-ups whose staged text the user replaced
  moved,      \* history: were follow-ups ever reordered?
  crowded,    \* history: were two runs ever alive at the same time?
  overlooked  \* history: claims of ended runs that a tick picked a run beside

history == <<heard, suspect, withdrawn, replaced, moved, crowded, overlooked>>
vars == <<inject, ticket, staged, msg, run, dpc, stuck, req, events, history>>

-----------------------------------------------------------------------------
Msgs == 1..NMsgs
Runs == 1..NRuns

\* What the agent reads: a follow-up, and whether in its edited wording; or 0,
\* the message the user typed with a continue.
FollowUps == [m : Msgs, edited : BOOLEAN]
Typed     == [m |-> 0, edited |-> FALSE]
Text      == FollowUps \cup {Typed}

\* The row of m; marked stands for delivered_run_id being set.
States == {"none", "pending", "delivering", "delivered", "cancelled"}
Row    == [state : States, pos : 0..(NMsgs - 1), edited : BOOLEAN, marked : BOOLEAN]

\* A run process: pc; the exit status of its executor; the staged text it
\* loaded; its queue between watcher and driver, whose head is being POSTed in
\* pc "posting"; the row the watcher has selected; the cancel event; whether
\* a tick has passed since the cancellation it has not seen (see BeginTick);
\* delivered_since_idle; whether its event stream is used up (see Taken); the
\* follow-ups POSTed, the prompts its agent has not completed and the idle
\* events the driver has not read; the rows and the staged text the drain has
\* read.
Idle == [pc |-> "free", exit |-> "none", prompt |-> <<>>, queue |-> <<>>,
         cand |-> None, sig |-> FALSE, late |-> FALSE, injected |-> FALSE,
         deaf |-> FALSE, posts |-> 0,
         todo |-> 0, idles |-> 0, rows |-> <<>>, saw |-> <<>>]

Executing == {"starting", "exec", "posting"}
Flights   == {"loading", "setup", "ended", "draining", "dropping", "deciding",
              "landing"} \cup Executing
Live(r)   == run[r].pc \in Flights

Pcs   == Flights \cup {"free", "done", "killed"}
Exits == {"none", "success", "failed", "cancelled"}
RunRecords ==
  [pc : Pcs, exit : Exits, prompt : Seq(Text), queue : Seq(FollowUps), cand : Msgs \cup {None},
   sig : BOOLEAN, late : BOOLEAN, injected : BOOLEAN, deaf : BOOLEAN,
   posts : Nat, todo : Nat, idles : Nat, rows : Seq(FollowUps), saw : Seq(Text)]

\* The request the API has read the rows for.
Adds     == [op : {"add"}, m : Msgs, pos : 0..(NMsgs - 1)]
Edits    == [op : {"edit", "cancel"}, m : Msgs]
Reorders == [op : {"reorder"}, order : Seq(Msgs)]
Requests == Adds \cup Edits \cup Reorders

InState(S) == {m \in Msgs : msg[m].state \in S}
Pending    == InState({"pending"})
Queued     == InState({"pending", "delivering"})

TextOf(m) == [m |-> m, edited |-> msg[m].edited]

\* Delivery order: position, then created_at.
BeforeLatest(m, n) == m > n   \* wrong: the latest first
Before(m, n) ==
  \/ msg[m].pos < msg[n].pos
  \/ msg[m].pos = msg[n].pos /\ m < n

Set(S, state) == [m \in Msgs |-> IF m \in S THEN [msg[m] EXCEPT !.state = state]
                                 ELSE msg[m]]

MsgsOf(texts) == {texts[i].m : i \in DOMAIN texts} \ {0}

TypeOK ==
  /\ inject \in BOOLEAN
  /\ ticket \in {"queued", "running", "rest"}
  /\ staged \in Seq(Text)
  /\ msg \in [Msgs -> Row]
  /\ run \in [Runs -> RunRecords]
  /\ dpc \in {"idle", "sweep", "pick"}
  /\ stuck \subseteq Msgs
  /\ req \in Requests \cup {None}
  /\ events \in 0..MaxEvents
  /\ heard \in Seq(FollowUps)
  /\ suspect \subseteq Msgs /\ withdrawn \subseteq Msgs /\ replaced \subseteq Msgs
  /\ moved \in BOOLEAN /\ crowded \in BOOLEAN
  /\ overlooked \subseteq Msgs

\* The ticket is queued for a turn of its conversation.
Init ==
  /\ inject \in BOOLEAN
  /\ ticket = "queued"
  /\ staged = <<>>
  /\ msg = [m \in Msgs |-> [state |-> "none", pos |-> 0, edited |-> FALSE,
                            marked |-> FALSE]]
  /\ run = [r \in Runs |-> Idle]
  /\ dpc = "idle"
  /\ stuck = {}
  /\ req = None
  /\ events = 0
  /\ heard = <<>>
  /\ suspect = {} /\ withdrawn = {} /\ replaced = {}
  /\ moved = FALSE /\ crowded = FALSE
  /\ overlooked = {}

Event == events < MaxEvents /\ events' = events + 1

-----------------------------------------------------------------------------
(***************************************************************************)
(* The API process.  A request is guarded by the rows it read.             *)
(***************************************************************************)
Request(r) ==
  /\ req = None
  /\ Event
  /\ req' = r
  /\ UNCHANGED <<inject, ticket, staged, msg, run, dpc, stuck, history>>

\* wrong: an empty queue starts at 1
TailFromOne(pos) ==
  /\ \A m \in Queued : msg[m].pos < pos
  /\ pos = 1 \/ \E m \in Queued : pos = msg[m].pos + 1
\* One more than the position of any follow-up still queued.
TailPosition(pos) ==
  /\ \A m \in Queued : msg[m].pos < pos
  /\ pos = 0 \/ \E m \in Queued : pos = msg[m].pos + 1

\* Follow-ups are accepted only while the ticket is running.
RequestAdd ==
  /\ ticket = "running"
  /\ \E m \in InState({"none"}), pos \in 0..NMsgs :
       /\ \A n \in InState({"none"}) : m <= n
       /\ TailPosition(pos)
       /\ Request([op |-> "add", m |-> m, pos |-> pos])

\* Edit, cancel and reorder refuse anything that is no longer pending (bound: a
\* follow-up is edited once).
MutableQueued == Queued   \* wrong: a claimed follow-up too
Mutable == Pending

RequestEdit   == \E m \in Mutable : ~msg[m].edited /\ Request([op |-> "edit", m |-> m])
RequestCancel == \E m \in Mutable : Request([op |-> "cancel", m |-> m])
RequestReorder ==
  \E S \in SUBSET Mutable \ {{}} : \E order \in SetToSeqs(S) :
     Request([op |-> "reorder", order |-> order])

\* Only the columns the handler assigned are written, whatever the row has
\* become since it was read.
CommitRequest ==
  /\ req # None
  /\ req' = None
  /\ \/ /\ req.op = "add"
        /\ msg' = [msg EXCEPT ![req.m].state = "pending", ![req.m].pos = req.pos]
     \/ /\ req.op = "edit"
        /\ msg' = [msg EXCEPT ![req.m].edited = TRUE]
     \/ /\ req.op = "cancel"
        /\ msg' = Set({req.m}, "cancelled")
     \/ /\ req.op = "reorder"
        /\ msg' = [m \in Msgs |->
                     IF \E i \in DOMAIN req.order : req.order[i] = m
                     THEN [msg[m] EXCEPT !.pos =
                             (CHOOSE i \in DOMAIN req.order : req.order[i] = m) - 1]
                     ELSE msg[m]]
  /\ withdrawn' = IF req.op = "cancel" THEN withdrawn \cup {req.m} ELSE withdrawn
  /\ moved' = (moved \/ req.op = "reorder")
  /\ UNCHANGED <<inject, ticket, staged, run, dpc, stuck, events, heard, suspect, replaced, crowded,
                 overlooked>>

\* Cancel takes the ticket off the running column.
CancelRun ==
  /\ ticket = "running"
  /\ Event
  /\ ticket' = "rest"
  /\ UNCHANGED <<inject, staged, msg, run, dpc, stuck, req, history>>

\* Run-now or continue, without a message.
RunAgain ==
  /\ ticket = "rest"
  /\ Event
  /\ ticket' = "queued"
  /\ UNCHANGED <<inject, staged, msg, run, dpc, stuck, req, history>>

\* continue, resume or retry with a message: it replaces what was staged.
RunAgainWithMessage ==
  /\ ticket = "rest"
  /\ Event
  /\ ticket' = "queued"
  /\ staged' = <<Typed>>
  /\ replaced' = replaced \cup MsgsOf(staged)
  /\ UNCHANGED <<inject, msg, run, dpc, stuck, req, heard, suspect, withdrawn, moved, crowded,
                 overlooked>>

-----------------------------------------------------------------------------
(***************************************************************************)
(* A run process: run_one.                                                 *)
(***************************************************************************)
Step(r, from, to) ==
  /\ run[r].pc = from
  /\ run[r].cand = None
  /\ run' = [run EXCEPT ![r].pc = to]

Private == <<inject, ticket, staged, msg, dpc, stuck, req, events, history>>

\* wrong: the column is cleared as it is loaded, before the setup has succeeded
LoadAndClear(r) ==
  /\ run[r].pc = "loading"
  /\ run' = [run EXCEPT ![r].pc = "setup", ![r].prompt = staged]
  /\ staged' = <<>>
  /\ UNCHANGED <<inject, ticket, msg, dpc, stuck, req, events, history>>
\* run_one loads the ticket with its staged text ...
Load(r) ==
  /\ run[r].pc = "loading"
  /\ run' = [run EXCEPT ![r].pc = "setup", ![r].prompt = staged]
  /\ UNCHANGED Private

\* ... and clears the column once the workspace is ready, whatever it holds by
\* then; a column that was loaded empty does not change and is not written.
Consume(r) ==
  /\ Step(r, "setup", "starting")
  /\ staged' = IF run[r].prompt = <<>> THEN staged ELSE <<>>
  /\ UNCHANGED <<inject, ticket, msg, dpc, stuck, req, events, history>>

\* r keeps nothing of its execution but a prompt it consumed and never POSTed.
Reset(r, pc) ==
  [Idle EXCEPT !.pc = pc,
               !.prompt = IF run[r].pc \in {"loading", "setup"} THEN <<>> ELSE run[r].prompt]

\* What may come a second time when r ends here: what is being POSTed, and what
\* is staged and not yet dropped from the queue.
Unsettled(r) ==
  IF run[r].pc = "posting" THEN {Head(run[r].queue).m}
  ELSE IF run[r].pc = "dropping" THEN MsgsOf(run[r].rows) ELSE {}

\* An exception outside of the executor: what is left of the queue stays there.
RunFails(r) ==
  /\ \/ run[r].pc \in {"loading", "setup", "ended", "draining", "dropping"}
     \/ run[r].pc = "starting" /\ run[r].cand = None /\ run[r].queue = <<>> /\ ~run[r].sig
  /\ Event
  /\ run' = [run EXCEPT ![r] = Reset(r, "landing")]
  /\ suspect' = suspect \cup Unsettled(r)
  /\ UNCHANGED <<inject, ticket, staged, msg, dpc, stuck, req, heard, withdrawn, replaced, moved, crowded,
                 overlooked>>

\* The executor returns: both watchers and the queue are gone.
Return(r, exit) ==
  run' = [run EXCEPT ![r].pc = "ended", ![r].exit = exit, ![r].queue = <<>>,
                     ![r].sig = FALSE, ![r].late = FALSE]

-----------------------------------------------------------------------------
(***************************************************************************)
(* The watchers of r.  A poll of the steer watcher does not yield to the   *)
(* event loop: it selects, updates and refreshes the row, then queues it.  *)
(***************************************************************************)
Polls(r) == inject /\ run[r].pc \in Executing /\ ~run[r].sig

Select(r) ==
  /\ Polls(r)
  /\ run[r].cand = None
  /\ \E m \in Pending :
       /\ \A n \in Pending \ {m} : Before(m, n)
       /\ run' = [run EXCEPT ![r].cand = m]
  /\ UNCHANGED Private

Claimable(m) == msg[m].state = "pending"

Claim(r) ==
  LET m == run[r].cand IN
  /\ m # None
  /\ IF Claimable(m)
     THEN /\ msg' = Set({m}, "delivering")
          /\ run' = [run EXCEPT ![r].cand = None, ![r].queue = Append(@, TextOf(m))]
     ELSE /\ run' = [run EXCEPT ![r].cand = None]
          /\ UNCHANGED msg
  /\ UNCHANGED <<inject, ticket, staged, dpc, stuck, req, events, history>>

\* The cancel watcher polls the ticket's status.
SeeCancel(r) ==
  /\ run[r].pc \in Executing /\ run[r].cand = None /\ ~run[r].sig
  /\ ticket # "running"
  /\ run' = [run EXCEPT ![r].sig = TRUE]
  /\ UNCHANGED Private

-----------------------------------------------------------------------------
(***************************************************************************)
(* The driver of r and its agent.                                          *)
(***************************************************************************)

\* The prompt of the run, with the text it consumed, is POSTed.  What the user
\* typed with a continue stands first in it.
FollowUpsIn(prompt) ==
  IF prompt # <<>> /\ Head(prompt) = Typed THEN Tail(prompt) ELSE prompt

Prompt(r) ==
  /\ run[r].pc = "starting" /\ run[r].cand = None
  /\ run' = [run EXCEPT ![r].pc = "exec", ![r].prompt = <<>>, ![r].todo = 1]
  /\ heard' = heard \o FollowUpsIn(run[r].prompt)
  /\ UNCHANGED <<inject, ticket, staged, msg, dpc, stuck, req, events, suspect,
                 withdrawn, replaced, moved, crowded, overlooked>>

\* A queued follow-up is POSTed, unless the run is being cancelled.
Post(r) ==
  /\ run[r].pc = "exec" /\ run[r].cand = None /\ ~run[r].sig
  /\ run[r].queue # <<>>
  /\ run' = [run EXCEPT ![r].pc = "posting", ![r].posts = @ + 1, ![r].todo = @ + 1]
  /\ heard' = Append(heard, Head(run[r].queue))
  /\ UNCHANGED <<inject, ticket, staged, msg, dpc, stuck, req, events, suspect,
                 withdrawn, replaced, moved, crowded, overlooked>>

Posted(r) == run[r].pc = "posting" /\ run[r].cand = None
Item(r)   == Head(run[r].queue).m

\* wrong: the injection is not remembered until the next idle
TakenAndForgotten(r) ==
  run' = [run EXCEPT ![r].pc = "exec", ![r].queue = Tail(@)]
\* Unless a line of the stream arrived with the follow-up, the driver cancels
\* its pending read, which ends the generator of the lines for good.
Taken(r) ==
  \E cut \in BOOLEAN :
    run' = [run EXCEPT ![r].pc = "exec", ![r].queue = Tail(@), ![r].injected = TRUE,
                       ![r].deaf = @ \/ cut]

\* wrong: the row is left in delivering
LeaveDelivering(m) == UNCHANGED msg
\* mark_delivered, whatever the row has become.
MarkDelivered(m) ==
  msg' = [msg EXCEPT ![m].state = "delivered", ![m].marked = TRUE]

Confirm(r) ==
  /\ Posted(r)
  /\ Taken(r)
  /\ MarkDelivered(Item(r))
  /\ UNCHANGED <<inject, ticket, staged, dpc, stuck, req, events, history>>

\* The callback fails and is logged.
ConfirmFails(r) ==
  /\ Posted(r)
  /\ Event
  /\ Taken(r)
  /\ suspect' = suspect \cup {Item(r)}
  /\ UNCHANGED <<inject, ticket, staged, msg, dpc, stuck, req, heard, withdrawn, replaced, moved, crowded,
                 overlooked>>

\* The server accepted the POST but its answer is lost: the run fails.
PostTimesOut(r) ==
  /\ Posted(r)
  /\ Event
  /\ Return(r, "failed")
  /\ suspect' = suspect \cup {Item(r)}
  /\ UNCHANGED <<inject, ticket, staged, msg, dpc, stuck, req, heard, withdrawn, replaced, moved, crowded,
                 overlooked>>

\* The server does not start or refuses a POST, the stream breaks off, the agent
\* reports an error.
AgentFails(r) ==
  /\ run[r].pc \in {"starting", "exec"} /\ run[r].cand = None
  /\ Event
  /\ Return(r, "failed")
  /\ UNCHANGED <<inject, ticket, staged, msg, dpc, stuck, req, history>>

\* The agent completes a prompt and reports session.idle: one per prompt.
AgentTurn(r) ==
  /\ run[r].pc \in {"exec", "posting"} /\ run[r].todo > 0
  /\ run' = [run EXCEPT ![r].todo = @ - 1, ![r].idles = @ + 1]
  /\ UNCHANGED Private

\* The driver reads an idle event, with nothing left in its queue: the run is
\* over unless something was injected since the previous one.
ReadIdle(r) ==
  /\ run[r].pc = "exec" /\ run[r].cand = None /\ ~run[r].sig /\ ~run[r].deaf
  /\ run[r].idles > 0 /\ run[r].queue = <<>>
  /\ IF run[r].injected
     THEN run' = [run EXCEPT ![r].injected = FALSE, ![r].idles = @ - 1]
     ELSE Return(r, "success")
  /\ UNCHANGED Private

\* The driver sees the cancel event; what it was handed is left in delivering.
Stop(r) ==
  /\ run[r].pc = "exec" /\ run[r].cand = None /\ run[r].sig /\ ~run[r].deaf
  /\ Return(r, "cancelled")
  /\ UNCHANGED Private

\* The next read of a stream that is used up: it seems to have been closed by
\* the server, and the run has failed, whatever else was to be seen.
StreamEnds(r) ==
  /\ run[r].pc = "exec" /\ run[r].cand = None /\ run[r].deaf
  /\ Return(r, "failed")
  /\ UNCHANGED Private

-----------------------------------------------------------------------------
(***************************************************************************)
(* The end of run_one: _steer_drain_and_autocontinue, then the landing.    *)
(***************************************************************************)

\* What the drain takes: also what was claimed and never confirmed.
Drained == Queued

\* One read of the queue, in delivery order, and of the ticket's staged text.
ReadQueue(r) ==
  /\ run[r].pc = "ended"
  /\ \E order \in SetToSeqs(Drained) :
       /\ \A i, j \in DOMAIN order : i < j => Before(order[i], order[j])
       /\ run' = [run EXCEPT ![r] =
                    IF order = <<>> THEN Reset(r, "landing")
                    ELSE [Reset(r, "draining") EXCEPT
                            !.exit = run[r].exit, !.saw = staged,
                            !.rows = [i \in DOMAIN order |-> TextOf(order[i])]]]
  /\ UNCHANGED Private

\* append_next_run_context commits what was read plus the drained texts ...
AppendStaged(r) ==
  /\ Step(r, "draining", "dropping")
  /\ staged' = run[r].saw \o run[r].rows
  /\ UNCHANGED <<inject, ticket, msg, dpc, stuck, req, events, history>>

\* ... and a second commit cancels the rows.
DropRows(r) ==
  /\ run[r].pc = "dropping"
  /\ run' = [run EXCEPT ![r].pc = "deciding", ![r].rows = <<>>, ![r].saw = <<>>]
  /\ msg' = Set(MsgsOf(run[r].rows), "cancelled")
  /\ UNCHANGED <<inject, ticket, staged, dpc, stuck, req, events, history>>

\* A run that was not cancelled continues the conversation ...
AutoContinue(r) ==
  /\ run[r].pc = "deciding"
  /\ run[r].exit # "cancelled" /\ ticket = "running"
  /\ run' = [run EXCEPT ![r] = Reset(r, "done")]
  /\ ticket' = "queued"
  /\ UNCHANGED <<inject, staged, msg, dpc, stuck, req, events, history>>

\* ... unless it was, or the ticket has moved, or there is no session to resume.
LeaveStaged(r) ==
  /\ run[r].pc = "deciding"
  /\ run' = [run EXCEPT ![r] = Reset(r, "landing")]
  /\ UNCHANGED Private

Land(r) ==
  /\ Step(r, "landing", "done")
  /\ ticket' = IF ticket = "running" THEN "rest" ELSE ticket
  /\ UNCHANGED <<inject, staged, msg, dpc, stuck, req, events, history>>

\* SIGKILL or a reboot.
Kill(r) ==
  /\ Live(r)
  /\ Event
  /\ run' = [run EXCEPT ![r] = Reset(r, "killed")]
  /\ suspect' = suspect \cup Unsettled(r)
  /\ UNCHANGED <<inject, ticket, staged, msg, dpc, stuck, req, heard, withdrawn, replaced, moved, crowded,
                 overlooked>>

-----------------------------------------------------------------------------
(***************************************************************************)
(* The worker daemon: orphan pass 1, orphan pass 3, pick.                  *)
(***************************************************************************)

\* A running ticket whose only run was killed.
Orphaned ==
  /\ ticket = "running"
  /\ \E r \in Runs : run[r].pc = "killed"
  /\ \A r \in Runs : ~Live(r)

\* Pass 3 looks at claims that were never confirmed, once the ticket is off the
\* running column.
StuckPending == {m \in Pending : ~msg[m].marked}   \* wrong
Stuck == {m \in InState({"delivering"}) : ~msg[m].marked}

\* Bound: at most one tick between a cancellation and the poll (0.5 s) by which
\* the run sees it.
Unseen(r) == run[r].pc \in Executing /\ ~run[r].sig /\ ticket # "running"

BeginTick ==
  /\ dpc = "idle"
  /\ \A r \in Runs : Unseen(r) => ~run[r].late
  /\ run' = [r \in Runs |-> [run[r] EXCEPT !.late = Unseen(r)]]
  /\ ticket' = IF Orphaned THEN "rest" ELSE ticket
  /\ stuck' = IF ticket' = "running" THEN {} ELSE Stuck
  /\ dpc' = IF stuck' # {} THEN "sweep" ELSE IF ticket' = "queued" THEN "pick" ELSE "idle"
  /\ UNCHANGED <<inject, staged, msg, req, events, history>>

\* The claim is given up whatever has become of it; the run that holds it may
\* still be alive.
CommitSweep ==
  /\ dpc = "sweep"
  /\ dpc' = "pick"
  /\ msg' = Set(stuck, "pending")
  /\ suspect' = suspect \cup {m \in stuck : \/ msg[m].state # "delivering"
                                            \/ \E r \in Runs : Live(r)}
  /\ stuck' = {}
  /\ UNCHANGED <<inject, ticket, staged, run, req, events, heard, withdrawn, replaced, moved, crowded,
                 overlooked>>

\* The end of the tick: a queued ticket is moved to running and gets a process
\* (bound: as long as Runs has one).
Pick ==
  /\ dpc = "pick"
  /\ dpc' = "idle"
  /\ \/ /\ ticket = "queued"
        /\ ticket' = "running"
        /\ \E r \in Runs : /\ \A q \in Runs : run[q].pc = "free" <=> q >= r
                           /\ run' = [run EXCEPT ![r].pc = "loading"]
        /\ crowded' = (crowded \/ \E r \in Runs : Live(r))
        /\ overlooked' = overlooked \cup InState({"delivering"})
     \/ /\ ticket # "queued" \/ \A r \in Runs : run[r].pc # "free"
        /\ UNCHANGED <<inject, ticket, run, crowded, overlooked>>
  /\ UNCHANGED <<inject, staged, msg, stuck, req, events, heard, suspect, withdrawn, replaced, moved>>

-----------------------------------------------------------------------------
\* Somebody has read rows and not yet committed what it decided on them.
WindowOpen ==
  \/ req # None
  \/ dpc = "sweep"
  \/ \E r \in Runs : run[r].cand # None \/ run[r].pc \in {"draining", "dropping"}

Commits ==
  \/ CommitRequest
  \/ CommitSweep
  \/ \E r \in Runs : Claim(r) \/ AppendStaged(r) \/ DropRows(r)

Proceed(r) ==
  \/ Load(r) \/ Consume(r) \/ Prompt(r) \/ Post(r) \/ Confirm(r)
  \/ ReadIdle(r) \/ Stop(r) \/ StreamEnds(r)
  \/ ReadQueue(r) \/ AutoContinue(r) \/ LeaveStaged(r) \/ Land(r)

Others ==
  \/ RequestAdd \/ RequestEdit \/ RequestCancel \/ RequestReorder
  \/ CancelRun \/ RunAgain \/ RunAgainWithMessage
  \/ \E r \in Runs : \/ Proceed(r) \/ Select(r) \/ SeeCancel(r) \/ AgentTurn(r)
                     \/ RunFails(r) \/ ConfirmFails(r) \/ PostTimesOut(r) \/ AgentFails(r)
  \/ BeginTick \/ Pick

Next ==
  \/ Commits
  \/ \E r \in Runs : Kill(r)
  \/ (Serializable => ~WindowOpen) /\ Others

Spec == Init /\ [][Next]_vars

-----------------------------------------------------------------------------
(***************************************************************************)
(* Fairness: a live process, its watchers and its agent, the daemon's tick *)
(* and the commit of a request go on.  Users and failures are left free.   *)
(***************************************************************************)
Fairness ==
  /\ \A r \in Runs :
       /\ WF_vars(Proceed(r) \/ AppendStaged(r) \/ DropRows(r))
       /\ WF_vars(Select(r) \/ Claim(r))
       /\ WF_vars(SeeCancel(r))
       /\ WF_vars(AgentTurn(r))
  /\ WF_vars(BeginTick \/ CommitSweep \/ Pick)
  /\ WF_vars(CommitRequest)

FairSpec == Spec /\ Fairness

-----------------------------------------------------------------------------
(***************************************************************************)
(* Properties.                                                             *)
(***************************************************************************)

\* Where a follow-up that was accepted may be.
Kept(m) ==
  \/ m \in Queued
  \/ m \in MsgsOf(staged)
  \/ \E r \in Runs : m \in MsgsOf(run[r].prompt)
  \/ m \in MsgsOf(heard)
  \/ m \in withdrawn \cup replaced

\* As long as the runs of the ticket follow one another, an accepted follow-up
\* is queued, staged, in the prompt of a run (which may have failed before it
\* POSTed it) or heard, unless the user took it back: through claims, failed
\* deliveries, drains, crashes and orphan sweeps.
SoleRunsDropNothing == crowded \/ \A m \in Msgs : msg[m].state # "none" => Kept(m)

\* The agent hears a follow-up twice only when its delivery could not be
\* confirmed, a crash fell between the two commits of a drain, or the orphan
\* sweep gave up the claim of a live run; never because a claim, a confirmation
\* and a drain of one run crossed.
HeardOnce ==
  \A i, j \in DOMAIN heard :
    i < j /\ heard[i].m = heard[j].m
      => heard[i].m \in suspect \/ crowded

\* Follow-ups nobody reordered are first heard in the order they were typed,
\* whether they were injected or drained, unless the run that claimed the earlier
\* one ended between a tick's look at the claims and its pick.
FirstHeard(i) == \A j \in 1..(i - 1) : heard[j].m # heard[i].m
HeardInOrder ==
  \A i, j \in DOMAIN heard :
    i < j /\ FirstHeard(i) /\ FirstHeard(j) /\ heard[j].m < heard[i].m
      => moved \/ crowded \/ heard[j].m \in suspect \cup overlooked

\* opencode_driver.py: "keeps us from finishing on the idle that closes a turn
\* during which we injected a follow-up": a run that injected one follow-up does
\* not succeed before the agent has completed it.
LoneInjectionIsCompleted ==
  \A r \in Runs : run[r].exit = "success" /\ run[r].posts = 1 => run[r].todo = 0

\* opencode_driver.py: "otherwise the just-injected follow-up would be torn down
\* mid-work": a run does not fail after an injection the agent has not completed,
\* unless something else failed.
InjectionsAreNotTornDown ==
  [][\A r \in Runs :
       run[r].exit = "none" /\ run'[r].exit = "failed" /\ run[r].posts > 0 /\ run[r].todo > 0
         => events' # events]_vars

\* With requests as transactions, what the user was told holds: a follow-up whose
\* cancellation was accepted is not heard afterwards, and one whose edit was
\* accepted is heard as edited ("guarded mutations"), unless its delivery is
\* suspect.
MutationsHold ==
  [][/\ \A m \in withdrawn :
          m \in MsgsOf(heard') => m \in MsgsOf(heard) \/ m \in suspect \/ crowded
     /\ \A i \in DOMAIN heard' \ DOMAIN heard :
          ~heard'[i].edited /\ msg[heard'[i].m].edited
            => heard'[i].m \in suspect \/ crowded]_vars

\* A follow-up typed for a ticket that goes on is heard in the end; it waits only
\* for a ticket that stopped at rest, and then as pending or staged text: no
\* claim of a dead run keeps it in the short-lived state delivering.
FollowUpsSettle ==
  \A m \in Msgs :
    m \in Queued ~> \/ m \in MsgsOf(heard)
                    \/ m \in withdrawn
                    \/ ticket = "rest" /\ msg[m].state # "delivering"
=============================================================================
