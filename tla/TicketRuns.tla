------------------------------ MODULE TicketRuns ------------------------------
(***************************************************************************)
(* The work queue of nightdesk: how a ticket is picked, run, cancelled and *)
(* recovered.                                                              *)
(*                                                                         *)
(*   - the API process serves user requests on tickets, one at a time;     *)
(*   - the worker daemon ticks: it sweeps orphans (two passes), picks      *)
(*     queued tickets, moves them to running and spawns one                *)
(*     nightdesk-run-ticket process for each;                              *)
(*   - a run process forces its ticket to running, creates a Run row, sets *)
(*     the workspace up, executes the agent, closes the Run row and lands  *)
(*     the ticket in review, or continues it when follow-ups are queued.   *)
(*                                                                         *)
(* All of them share the database.  SQLite takes no lock for a read and    *)
(* sessions keep what they read (expire_on_commit=False), so a handler     *)
(* decides on the row it read and writes the columns it changed, whatever  *)
(* happened in between: reading and committing are separate steps here.    *)
(* With Serializable = TRUE nothing happens in between, as if each handler *)
(* held the write lock from its first read.                                *)
(*                                                                         *)
(* Procs are the run processes.  A process creates at most one Run row, so *)
(* p also names its Run.  One host; tickets without dependencies and       *)
(* without scheduled_after.                                                *)
(***************************************************************************)
EXTENDS Integers, FiniteSets

CONSTANTS Tickets, Procs, None,
          Complete,       \* tickets with the fields a run needs
          MaxParallel,    \* max_parallel of the matching schedule window
          MaxEvents,      \* bound: user requests and crashes in a behaviour
          Serializable    \* handlers read and commit as one transaction?

ASSUME TicketRunsAssumption ==
  /\ None \notin Procs
  /\ None \notin Tickets
  /\ Complete \subseteq Tickets
  /\ IsFiniteSet(Procs)
  /\ MaxParallel \in Nat
  /\ MaxEvents \in Nat
  /\ Serializable \in BOOLEAN

VARIABLES
  \* tickets table
  status,     \* status[t]
  runNow,     \* run_now[t]: queue bypass requested
  curRun,     \* current_run_id: a Run or None
  \* runs table and the run processes
  row,        \* row[p]: "none" before start_run, "open" until finished_at is
              \* set, then the recorded outcome
  pc,         \* where process p is in run-ticket / run_one
  ticketOf,   \* the ticket p was spawned for
  sawNow,     \* run_now as p loaded it, until it is consumed
  sig,        \* p's cancel_event, until the agent has returned
  \* the worker daemon
  dpc,        \* where the daemon is in its tick
  deadRows,   \* pass 1: open rows of running tickets whose pid is dead
  stuck,      \* pass 1: running tickets with such rows and no live run
  runless,    \* pass 2: overdue running tickets without an open row
  linked,     \* pass 2: those of runless that had a current_run_id
  picks,      \* picked tickets not yet moved to running
  launched,   \* tickets moved to running in this tick
  pending,    \* tickets whose spawn task has not run yet
  subprocs,   \* subprocs[t]: the Popen handle kept for t, or None
  waiters,    \* processes whose exit a daemon task awaits
  \* the API process
  req,        \* the request between its read and its commit, or None
  \* environment and history
  events,     \* number of requests and crashes so far
  crowded     \* processes that ever shared their ticket with a live one

boardVars  == <<status, runNow, curRun>>
procVars   == <<row, pc, ticketOf, sawNow, sig, crowded>>
tickVars   == <<dpc, deadRows, stuck, runless, linked, picks, launched>>
childVars  == <<pending, subprocs, waiters>>
vars == <<boardVars, procVars, tickVars, childVars, req, events>>

Board == INSTANCE TicketBoard

-----------------------------------------------------------------------------
Statuses == Board!Statuses

Flights  == {"boot", "forcing", "loading", "setup", "exec", "closed", "followups",
             "landing", "draining", "continuing"}

\* exit_status: what finish_run recorded after the agent returned (success,
\* failed or cancelled), after an exception, or what the orphan sweep wrote.
Verdicts == {"finished", "setup_error", "worker_crash"}

Live(p)     == pc[p] \in Flights
OpenRows    == {p \in Procs : row[p] = "open"}
RunsOf(t)   == {p \in Procs : ticketOf[p] = t /\ row[p] = "open"}

\* A request between its read and its commit: the status and run_now it is
\* going to write, None for a column it leaves alone.
Requests == [t : Tickets, to : Statuses \cup {None}, now : BOOLEAN \cup {None}]

TypeOK ==
  /\ status \in [Tickets -> Statuses]
  /\ runNow \in [Tickets -> BOOLEAN]
  /\ curRun \in [Tickets -> Procs \cup {None}]
  /\ row \in [Procs -> {"none", "open"} \cup Verdicts]
  /\ pc \in [Procs -> Flights \cup {"free", "gone", "killed"}]
  /\ ticketOf \in [Procs -> Tickets \cup {None}]
  /\ \A p \in Procs : pc[p] # "free" => ticketOf[p] \in Tickets
  /\ sawNow \in [Procs -> BOOLEAN]
  /\ sig \in [Procs -> BOOLEAN]
  /\ dpc \in {"down", "idle", "crashed", "sweep", "runless", "pick", "dispatch"}
  /\ deadRows \subseteq Procs
  /\ stuck \subseteq Tickets
  /\ runless \subseteq Tickets
  /\ linked \subseteq runless
  /\ picks \subseteq Tickets
  /\ launched \subseteq Tickets
  /\ pending \subseteq Tickets
  /\ subprocs \in [Tickets -> Procs \cup {None}]
  /\ waiters \subseteq Procs
  /\ req \in Requests \cup {None}
  /\ events \in 0..MaxEvents
  /\ crowded \subseteq Procs

\* Tickets start off the running column; nothing has run yet.
Init ==
  /\ status \in [Tickets -> {"inbox", "draft", "queued"}]
  /\ \A t \in Tickets : status[t] # "inbox" => t \in Complete
  /\ runNow = [t \in Tickets |-> FALSE]
  /\ curRun = [t \in Tickets |-> None]
  /\ row = [p \in Procs |-> "none"]
  /\ pc = [p \in Procs |-> "free"]
  /\ ticketOf = [p \in Procs |-> None]
  /\ sawNow = [p \in Procs |-> FALSE]
  /\ sig = [p \in Procs |-> FALSE]
  /\ dpc = "down"
  /\ deadRows = {} /\ stuck = {} /\ runless = {} /\ linked = {}
  /\ picks = {} /\ launched = {}
  /\ pending = {}
  /\ subprocs = [t \in Tickets |-> None]
  /\ waiters = {}
  /\ req = None
  /\ events = 0
  /\ crowded = {}

-----------------------------------------------------------------------------
(***************************************************************************)
(* The API process: a handler reads the ticket and commits later.          *)
(***************************************************************************)

\* request_run_now queues a ticket of one of these columns.
RunNowFromAnywhere == {"inbox", "draft", "review", "archived"}   \* wrong: inbox too
RunNowFrom == {"draft", "review", "archived"}

\* The requests that may be under way once the handler has read the ticket:
\* moves along the lifecycle table (an archived ticket returns to the inbox only
\* when it is incomplete), archive, run-now, and the two ways to change the
\* flag alone.  A value equal to the one read is not written.
Handlers(t, s, now) ==
     [t : {t}, now : {None},
      to : {to \in Statuses : /\ Board!MoveAllowed(t, s, to)
                              /\ s = "archived" /\ to = "inbox" => t \notin Complete}]
  \cup {r \in [t : {t}, to : {"archived"}, now : {IF now THEN FALSE ELSE None}] :
            s \notin {"running", "archived"}}
  \cup {r \in [t : {t}, to : {"queued"}, now : {IF now THEN None ELSE TRUE}] :
            s \in RunNowFrom}
  \cup [t : {t}, to : {None}, now : {~now}]

OpenRequest(t) ==
  /\ req = None
  /\ events < MaxEvents
  /\ req' \in Handlers(t, status[t], runNow[t])
  /\ events' = events + 1
  /\ UNCHANGED <<boardVars, procVars, tickVars, childVars>>

CommitRequest ==
  /\ req # None
  /\ status' = IF req.to = None THEN status ELSE [status EXCEPT ![req.t] = req.to]
  /\ runNow' = IF req.now = None THEN runNow ELSE [runNow EXCEPT ![req.t] = req.now]
  /\ req' = None
  /\ UNCHANGED <<curRun, procVars, tickVars, childVars, events>>

-----------------------------------------------------------------------------
(***************************************************************************)
(* A run process: the run-ticket command and run_one.                      *)
(***************************************************************************)
Step(p, from, to) ==
  /\ pc[p] = from
  /\ pc' = [pc EXCEPT ![p] = to]

\* p needs what it loaded and its cancel event no longer.
Return(p) ==
  /\ sawNow' = [sawNow EXCEPT ![p] = FALSE]
  /\ sig' = [sig EXCEPT ![p] = FALSE]

\* run-ticket reads the ticket and runs it, forces it to running, or gives up.
Boot(p) ==
  /\ LET s == status[ticketOf[p]] IN
       Step(p, "boot", IF s = "running" THEN "loading"
                       ELSE IF "running" \in Board!ValidTransitions(s) THEN "forcing"
                       ELSE "gone")
  /\ UNCHANGED <<boardVars, row, ticketOf, sawNow, sig, crowded,
                 tickVars, childVars, req, events>>

ForceRunning(p) ==
  /\ Step(p, "forcing", "loading")
  /\ status' = [status EXCEPT ![ticketOf[p]] = "running"]
  /\ UNCHANGED <<runNow, curRun, row, ticketOf, sawNow, sig, crowded,
                 tickVars, childVars, req, events>>

\* start_run: the Run row and the ticket's current_run_id.
NewRunAfterSetup(p) == UNCHANGED <<row, curRun>>   \* wrong: no row before workspace prep
NewRun(p) ==
  /\ row' = [row EXCEPT ![p] = "open"]
  /\ curRun' = [curRun EXCEPT ![ticketOf[p]] = p]

\* run_one loads the ticket and start_run commits; nobody looks at the status
\* again before the cancel watcher does.
StartRun(p) ==
  /\ Step(p, "loading", "setup")
  /\ NewRun(p)
  /\ sawNow' = [sawNow EXCEPT ![p] = runNow[ticketOf[p]]]
  /\ UNCHANGED <<status, runNow, ticketOf, sig, crowded,
                 tickVars, childVars, req, events>>

\* The except path of run_one: a Run that is not finished yet has failed.
LeaveRun(q) == row' = row   \* wrong: the exception is only logged
FailRun(q) ==
  row' = IF q # None /\ q \in OpenRows THEN [row EXCEPT ![q] = "setup_error"] ELSE row

\* Setup fails before the row exists: the except path closes whatever
\* unfinished run the ticket's current_run_id names.
BootFails(p) ==
  /\ Step(p, "loading", "closed")
  /\ FailRun(curRun[ticketOf[p]])
  /\ Return(p)
  /\ UNCHANGED <<boardVars, ticketOf, crowded, tickVars, childVars, req, events>>

\* The workspace is ready: run_now and the staged intent, conversation and
\* context are consumed, as loaded before start_run.
ConsumeStaging(p) ==
  /\ Step(p, "setup", "exec")
  /\ runNow' = IF sawNow[p] THEN [runNow EXCEPT ![ticketOf[p]] = FALSE]
               ELSE runNow
  /\ sawNow' = [sawNow EXCEPT ![p] = FALSE]
  /\ UNCHANGED <<status, curRun, row, ticketOf, sig, crowded,
                 tickVars, childVars, req, events>>

\* An exception during workspace preparation or before the agent's result.
SetupFails(p) ==
  /\ \E from \in {"setup", "exec"} : Step(p, from, "closed")
  /\ FailRun(p)
  /\ Return(p)
  /\ UNCHANGED <<boardVars, ticketOf, crowded, tickVars, childVars, req, events>>

\* The cancel watcher polls the status.
SeeCancel(p) ==
  /\ pc[p] = "exec" /\ ~sig[p]
  /\ status[ticketOf[p]] # "running"
  /\ sig' = [sig EXCEPT ![p] = TRUE]
  /\ UNCHANGED <<boardVars, row, pc, ticketOf, sawNow, crowded,
                 tickVars, childVars, req, events>>

\* The executor returns and finish_run records the outcome, without a look at
\* what the row already says: cancelled only after the cancel event, success or
\* failed at any time.  Follow-ups queued meanwhile wait for the end of run_one
\* unless the run was cancelled.
Finish(p) ==
  /\ \E to \in {"closed", "followups"} : Step(p, "exec", to)
  /\ row' = [row EXCEPT ![p] = "finished"]
  /\ Return(p)
  /\ UNCHANGED <<boardVars, ticketOf, crowded, tickVars, childVars, req, events>>

\* The end of run_one reads the ticket afresh: a ticket still running is
\* landed in review, to be continued at once when follow-ups were drained.
Conclude(p) ==
  /\ \/ Step(p, "closed",
             IF status[ticketOf[p]] = "running" THEN "landing" ELSE "gone")
     \/ Step(p, "followups",
             IF status[ticketOf[p]] = "running" THEN "draining" ELSE "gone")
  /\ UNCHANGED <<boardVars, row, ticketOf, sawNow, sig, crowded,
                 tickVars, childVars, req, events>>

Land(p) ==
  /\ \/ Step(p, "landing", "gone")
     \/ Step(p, "draining", "continuing")
  /\ status' = [status EXCEPT ![ticketOf[p]] = "review"]
  /\ UNCHANGED <<runNow, curRun, row, ticketOf, sawNow, sig, crowded,
                 tickVars, childVars, req, events>>

\* continue_ticket stages the next turn and requests run-now.  It re-reads the
\* ticket; a refusal falls through to the normal landing.
Continue(p) ==
  /\ LET t == ticketOf[p] IN
     \/ /\ Step(p, "continuing", "gone")
        /\ status[t] \in {"review", "archived"}
        /\ status' = [status EXCEPT ![t] = "queued"]
        /\ runNow' = [runNow EXCEPT ![t] = TRUE]
     \/ /\ Step(p, "continuing", IF status[t] = "running" THEN "landing" ELSE "gone")
        /\ status[t] \notin {"review", "archived"}
        /\ UNCHANGED <<status, runNow>>
  /\ UNCHANGED <<curRun, row, ticketOf, sawNow, sig, crowded,
                 tickVars, childVars, req, events>>

\* SIGKILL, the OOM killer, a reboot: the process stops where it is.  "killed"
\* are those that leave an open row behind.
Kill(p) ==
  /\ Live(p)
  /\ events < MaxEvents
  /\ events' = events + 1
  /\ pc' = [pc EXCEPT ![p] = IF row[p] = "open" THEN "killed" ELSE "gone"]
  /\ Return(p)
  /\ UNCHANGED <<boardVars, row, ticketOf, crowded, tickVars, childVars, req>>

-----------------------------------------------------------------------------
(***************************************************************************)
(* The worker daemon.  A tick does not yield to the event loop, so spawn   *)
(* tasks and exit callbacks run only between ticks, and every spawn task   *)
(* created by a tick runs before the next one.                             *)
(***************************************************************************)
DaemonStarts ==
  /\ dpc = "down"
  /\ dpc' = "idle"
  /\ UNCHANGED <<boardVars, procVars, deadRows, stuck, runless, linked, picks,
                 launched, childVars, req, events>>

\* An open row of a running ticket whose process is provably dead.
OrphanedUnprobed(p) == row[p] = "open" /\ status[ticketOf[p]] = "running"   \* wrong
OrphanedAnyRow(p) == row[p] # "none" /\ ~Live(p) /\ status[ticketOf[p]] = "running"   \* wrong
Orphaned(p) == row[p] = "open" /\ ~Live(p) /\ status[ticketOf[p]] = "running"

\* Pass 1 of recover_orphaned_runs reads the running tickets that have open
\* rows, and probes the pid of each row.
BeginTick ==
  /\ dpc = "idle"
  /\ pending = {}
  /\ deadRows' = {p \in Procs : Orphaned(p)}
  /\ stuck' = {t \in Tickets : /\ status[t] = "running"
                               /\ RunsOf(t) # {}
                               /\ RunsOf(t) \subseteq deadRows'}
  /\ dpc' = IF deadRows' = {} THEN "sweep" ELSE "crashed"
  /\ UNCHANGED <<boardVars, procVars, runless, linked, picks, launched,
                 childVars, req, events>>

CommitCrashed ==
  /\ dpc = "crashed"
  /\ row' = [p \in Procs |-> IF p \in deadRows THEN "worker_crash" ELSE row[p]]
  /\ status' = [t \in Tickets |-> IF t \in stuck THEN "review" ELSE status[t]]
  /\ deadRows' = {} /\ stuck' = {}
  /\ dpc' = "sweep"
  /\ UNCHANGED <<runNow, curRun, pc, ticketOf, sawNow, sig, crowded, runless,
                 linked, picks, launched, childVars, req, events>>

\* Tickets in running that no open row vouches for.
RunlessNew == {t \in Tickets : status[t] = "running" /\ curRun[t] = None}   \* wrong
Runless == {t \in Tickets : status[t] = "running" /\ RunsOf(t) = {}}

\* Those whose current_run_id the reset will clear.
LinkedAnywhere(R) == {t \in Tickets : curRun[t] # None}   \* wrong: not only those in R
Linked(R) == {t \in R : curRun[t] # None}

\* Pass 2 reads the running tickets without an open row whose updated_at is
\* older than the 30 s of grace.  Time is not modelled: any of them may be.
SweepRunless ==
  /\ dpc = "sweep"
  /\ runless' \in SUBSET Runless
  /\ linked' = Linked(runless')
  /\ dpc' = IF runless' = {} THEN "pick" ELSE "runless"
  /\ UNCHANGED <<boardVars, procVars, deadRows, stuck, picks, launched,
                 childVars, req, events>>

CommitRunless ==
  /\ dpc = "runless"
  /\ status' = [t \in Tickets |-> IF t \in runless THEN "queued" ELSE status[t]]
  /\ curRun' = [t \in Tickets |-> IF t \in linked THEN None ELSE curRun[t]]
  /\ runless' = {} /\ linked' = {}
  /\ dpc' = "pick"
  /\ UNCHANGED <<runNow, procVars, deadRows, stuck, picks, launched,
                 childVars, req, events>>

\* Queue bypass: picked whatever the window and the capacity.
ForcedInWindow(windowOpen) ==   \* wrong: only inside a schedule window
  {t \in Tickets : windowOpen /\ status[t] = "queued" /\ runNow[t]}
Forced(windowOpen) == {t \in Tickets : status[t] = "queued" /\ runNow[t]}

\* What pick_eligible may return: every queued run-now ticket, and normal ones
\* up to the free capacity, counted by the unfinished Run rows; none outside
\* the schedule window.  Which normal ones come first is left open here.
Eligible(P, windowOpen) ==
  LET forced   == Forced(windowOpen)
      normal   == {t \in Tickets : status[t] = "queued" /\ ~runNow[t]}
      total    == Cardinality(OpenRows)
      capacity == IF windowOpen /\ total < MaxParallel
                  THEN MaxParallel - total ELSE 0
  IN  /\ forced \subseteq P
      /\ P \subseteq forced \cup normal
      /\ LET n == Cardinality(P \ forced)
         IN  n = capacity \/ (n < capacity /\ normal \subseteq P)

Pick ==
  /\ dpc = "pick"
  /\ \E P \in SUBSET Tickets, windowOpen \in BOOLEAN :
       Eligible(P, windowOpen) /\ picks' = P
  /\ dpc' = "dispatch"
  /\ UNCHANGED <<boardVars, procVars, deadRows, stuck, runless, linked,
                 launched, childVars, req, events>>

\* The picked rows are still the ones pick_eligible read: the move to running
\* is decided on them, and written whatever became of the ticket.
Dispatch(t) ==
  /\ dpc = "dispatch"
  /\ t \in picks
  /\ status' = [status EXCEPT ![t] = "running"]
  /\ picks' = picks \ {t}
  /\ launched' = launched \cup {t}
  /\ UNCHANGED <<runNow, curRun, procVars, dpc, deadRows, stuck, runless,
                 linked, childVars, req, events>>

\* SIGTERM kills a process that has not installed its handler; afterwards the
\* handler sets the cancel event.
Terminate(S) ==
  /\ pc' = [p \in Procs |-> IF p \in S /\ pc[p] \in {"boot", "forcing"}
                            THEN "gone" ELSE pc[p]]
  /\ sig' = [p \in Procs |-> sig[p] \/ (p \in S /\ pc[p] \in {"loading", "setup", "exec"})]

\* The tick creates the spawn tasks, then terminates the children it has a
\* handle on whose ticket has left running.
EndTick ==
  /\ dpc = "dispatch"
  /\ picks = {}
  /\ pending' = launched
  /\ launched' = {}
  /\ Terminate({p \in Procs : \E t \in Tickets : subprocs[t] = p /\ status[t] # "running"})
  /\ dpc' = "idle"
  /\ UNCHANGED <<boardVars, row, ticketOf, sawNow, crowded, deadRows, stuck,
                 runless, linked, picks, subprocs, waiters, req, events>>

Spawn(p, t) ==
  /\ dpc = "idle"
  /\ t \in pending
  /\ pc[p] = "free"
  /\ pc' = [pc EXCEPT ![p] = "boot"]
  /\ ticketOf' = [ticketOf EXCEPT ![p] = t]
  /\ LET others == {q \in Procs : Live(q) /\ ticketOf[q] = t} IN
       crowded' = IF others = {} THEN crowded ELSE crowded \cup others \cup {p}
  /\ pending' = pending \ {t}
  /\ subprocs' = [subprocs EXCEPT ![t] = p]
  /\ waiters' = waiters \cup {p}
  /\ UNCHANGED <<boardVars, row, sawNow, sig, tickVars, req, events>>

\* The exception is logged and the ticket is left in running.
SpawnFails(t) ==
  /\ dpc = "idle"
  /\ t \in pending
  /\ pending' = pending \ {t}
  /\ UNCHANGED <<boardVars, procVars, tickVars, subprocs, waiters, req, events>>

\* A child's exit pops the handle kept for its ticket, whoever's it is.
Reap(p) ==
  /\ dpc = "idle"
  /\ p \in waiters
  /\ ~Live(p)
  /\ waiters' = waiters \ {p}
  /\ subprocs' = [subprocs EXCEPT ![ticketOf[p]] = None]
  /\ UNCHANGED <<boardVars, procVars, tickVars, pending, req, events>>

\* What a daemon loses with its memory.
Forget ==
  /\ dpc' = "down"
  /\ deadRows' = {} /\ stuck' = {} /\ runless' = {} /\ linked' = {}
  /\ picks' = {} /\ launched' = {} /\ pending' = {}
  /\ subprocs' = [t \in Tickets |-> None]
  /\ waiters' = {}

\* The daemon dies anywhere in its tick (an exception that escapes tick_once
\* does the same).  Children that got as far as prctl receive PDEATHSIG.
DaemonDies ==
  /\ dpc # "down"
  /\ events < MaxEvents
  /\ events' = events + 1
  /\ Forget
  /\ Terminate({p \in waiters : pc[p] \notin {"boot", "forcing"}})
  /\ UNCHANGED <<boardVars, row, ticketOf, sawNow, crowded, req>>

\* systemctl stop or restart: the shutdown handler also terminates the
\* children it has a handle on.
DaemonStops ==
  /\ dpc = "idle"
  /\ events < MaxEvents
  /\ events' = events + 1
  /\ Forget
  /\ Terminate({p \in waiters : \/ pc[p] \notin {"boot", "forcing"}
                                \/ subprocs[ticketOf[p]] = p})
  /\ UNCHANGED <<boardVars, row, ticketOf, sawNow, crowded, req>>

-----------------------------------------------------------------------------
\* Somebody has read a ticket and not yet committed what it decided on it.
WindowOpen ==
  \/ req # None
  \/ dpc \in {"crashed", "runless", "dispatch"}
  \/ \E p \in Procs : pc[p] \in {"forcing", "landing", "draining"}

\* The steps that end such a window.
Commits ==
  \/ CommitRequest
  \/ \E p \in Procs : ForceRunning(p) \/ Land(p)
  \/ CommitCrashed \/ CommitRunless \/ EndTick
  \/ \E t \in Tickets : Dispatch(t)

Crashes == DaemonDies \/ DaemonStops \/ \E p \in Procs : Kill(p)

Others ==
  \/ \E t \in Tickets : OpenRequest(t) \/ SpawnFails(t)
  \/ \E p \in Procs : \/ Boot(p) \/ StartRun(p) \/ BootFails(p)
                      \/ ConsumeStaging(p) \/ SetupFails(p) \/ SeeCancel(p) \/ Finish(p)
                      \/ Conclude(p) \/ Continue(p) \/ Reap(p)
  \/ \E p \in Procs, t \in Tickets : Spawn(p, t)
  \/ DaemonStarts \/ BeginTick \/ SweepRunless \/ Pick

Next == Commits \/ Crashes \/ ((Serializable => ~WindowOpen) /\ Others)

Spec == Init /\ [][Next]_vars

-----------------------------------------------------------------------------
(***************************************************************************)
(* Fairness: what the event loop, the kernel and the service manager make  *)
(* happen sooner or later.  Users, crashes and the agent's own end are     *)
(* left free; an agent that has been told to cancel does end.              *)
(***************************************************************************)
Advance(p) ==
  \/ Boot(p) \/ ForceRunning(p) \/ StartRun(p) \/ BootFails(p) \/ ConsumeStaging(p)
  \/ SeeCancel(p) \/ (sig[p] /\ Finish(p))
  \/ Conclude(p) \/ Land(p) \/ Continue(p)

Tick == \/ DaemonStarts \/ BeginTick \/ CommitCrashed \/ SweepRunless
        \/ CommitRunless \/ Pick \/ EndTick \/ \E t \in Tickets : Dispatch(t)

Fairness ==
  /\ \A p \in Procs : WF_vars(Advance(p))
  /\ \A t \in Tickets :
        /\ WF_vars(SpawnFails(t) \/ \E p \in Procs : Spawn(p, t))
        /\ SF_vars(SweepRunless /\ t \in runless')
  /\ WF_vars(Tick)
  /\ WF_vars(CommitRequest)

FairSpec == Spec /\ Fairness

-----------------------------------------------------------------------------
(***************************************************************************)
(* Properties.                                                             *)
(***************************************************************************)

\* The orphan sweep writes worker_crash only on the row of a process that is
\* dead: no run is declared crashed while its agent may still be working
\* (heartbeat.py, "only mark crashed when the pid is provably dead"), however
\* old the sweep's snapshot is when it commits.
CrashVerdictSound == \A p \in Procs : row[p] = "worker_crash" => ~Live(p)

\* An unfinished Run row, which takes a slot of the capacity, belongs to a
\* process between start_run and the end of its agent, or to one that was
\* killed there: every other way out of run_one closes its row.
OnlyKilledRunsLeak ==
  \A p \in Procs : row[p] = "open" => pc[p] \in {"setup", "exec", "killed"}

\* A process that never shared its ticket with another one is counted against
\* the capacity all the time it sets up and executes: neither sweep, nor a
\* failing successor, nor a user closes its row under it.
SoleRunIsCounted ==
  \A p \in Procs : p \notin crowded /\ pc[p] \in {"setup", "exec"} => row[p] = "open"

\* The outcome recorded for such a run is final.
VerdictFinal ==
  [][\A p \in Procs : p \notin crowded' /\ row[p] \in Verdicts
        => row'[p] = row[p]]_vars

\* The status column of the detailed model, with every handler reading and
\* committing in one transaction, moves as the board promises: along the
\* lifecycle table of domain/tickets.py and the two recovery moves of the
\* orphan sweep, and no incomplete inbox item is promoted.
BoardSpec == Board!Spec

\* A queued run-now ticket is picked up (the run-now request "marks a ticket for
\* immediate execution by the next scheduler tick"), whatever the capacity and
\* the schedule windows, and even if the daemon crashes in between.
RunNowServed ==
  \A t \in Tickets :
    status[t] = "queued" /\ runNow[t] ~> status[t] # "queued" \/ ~runNow[t]

\* A ticket in running that no process works on does not stay so: one of the
\* two sweeps takes it out, or a new process is spawned for it.
Attended(t) == \E p \in Procs : Live(p) /\ ticketOf[p] = t
UnattendedIsRecovered ==
  \A t \in Tickets :
    status[t] = "running" /\ ~Attended(t) ~> status[t] # "running" \/ Attended(t)

-----------------------------------------------------------------------------
(***************************************************************************)
(* What the documentation says and the code does not do.                   *)
(***************************************************************************)

\* heartbeat.py, recover_orphaned_runs: the tickets pass 2 resets to queued
\* "were transitioned to running but the worker never managed to create a Run
\* row".  A ticket whose run has finished and is about to be landed by the same
\* process should not be among them.
CompletedRunNotRequeued ==
  [][\A t \in Tickets, p \in Procs :
       dpc = "runless" /\ status[t] = "running" /\ status'[t] = "queued"
         => ~(ticketOf[p] = t /\ Live(p) /\ row[p] = "finished")]_vars
=============================================================================
