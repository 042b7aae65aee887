------------------------------- MODULE CronJobs -------------------------------
(***************************************************************************)
(* Cron jobs: a schedule that turns a template into queued tickets.        *)
(*                                                                         *)
(*   - the worker daemon materializes the due jobs at the start of a tick: *)
(*     it reads them all, and for each one claims the fire, creates the    *)
(*     ticket (create_ticket commits, and the claimed fire with it), and   *)
(*     links the ticket and advances the schedule in a second commit;      *)
(*   - the API process changes, enables, disables, deletes and fires jobs; *)
(*   - the board moves the tickets.                                        *)
(*                                                                         *)
(* Time is counted in minutes and a schedule is a period: it fires at its  *)
(* multiples (croniter and time zones are left out).  SQLite takes the     *)
(* write lock at the claim, so a claim and the commit that follows it are  *)
(* one step; the rows of the pass are what they were when it read them.    *)
(***************************************************************************)
EXTENDS Integers, FiniteSets, Sequences

CONSTANTS Jobs, None, Periods,
          SkipJobs,    \* those with overlap_policy skip_if_active, the others allow
          MaxTime,     \* bound: the clock
          MaxTickets,  \* bound: tickets created
          MaxEvents    \* bound: requests, crashes and failed transactions

ASSUME CronJobsAssumption ==
  /\ None \notin Jobs
  /\ SkipJobs \subseteq Jobs
  /\ Periods \subseteq Nat \ {0}
  /\ Periods # {}
  /\ MaxTime \in Nat /\ MaxTickets \in Nat /\ MaxEvents \in Nat

VARIABLES
  now,          \* the clock
  job,          \* cron_jobs: a record per job, see JobRecords
  fires,        \* cron_job_fires of scheduled fires: [job, at, ticket, skipped]
  tickets,      \* the tickets made from templates, in order of creation
  pass,         \* the materialization pass under way, or None
  manual,       \* the fire-now request between its two commits, or None
  events,       \* requests, crashes and failures so far
  changed,      \* jobs whose schedule was changed or enabled anew
  stale,        \* those of them a pass had read before
  unlinked      \* jobs whose last_ticket_id misses a ticket: its link was lost,
                \* or a manual fire replaced it

vars == <<now, job, fires, tickets, pass, manual, events, changed, stale, unlinked>>

-----------------------------------------------------------------------------
\* next: next_fire_at; last: last_ticket_id (0 for none).
JobRecords == [exists : BOOLEAN, enabled : BOOLEAN, period : Periods,
               next : Nat, last : 0..MaxTickets]

\* at: the fire it was made for, -1 for a manual one; made: when (created_at);
\* again: it was requeued.
TicketRecords == [job : Jobs, at : Int, made : Nat, state : {"queued", "running", "review"}, again : BOOLEAN]

Fires == [job : Jobs, at : Nat, ticket : 0..MaxTickets, skipped : BOOLEAN]

\* A ticket that is to be linked to its fire and job.
Links == [job : Jobs, at : Nat, ticket : 1..MaxTickets, next : Nat]

\* read: the rows as the pass read them; fresh: they were expired by a rollback
\* and are read again on use; link: the ticket to be linked, or None.
Passes == [at : Nat, todo : SUBSET Jobs, read : [Jobs -> JobRecords], fresh : BOOLEAN,
           link : {None} \cup Links]

ASSUME NoneIsNoPass == None \notin Links \cup Passes

TypeOK ==
  /\ now \in 0..MaxTime
  /\ job \in [Jobs -> JobRecords]
  /\ fires \subseteq Fires
  /\ tickets \in Seq(TicketRecords)
  /\ Len(tickets) <= MaxTickets
  /\ pass \in {None} \cup Passes
  /\ manual \in {None} \cup [job : Jobs, ticket : 1..MaxTickets]
  /\ events \in 0..MaxEvents
  /\ changed \subseteq Jobs /\ stale \subseteq changed /\ unlinked \subseteq Jobs
  /\ \A f \in fires : f.ticket <= Len(tickets) /\ (f.skipped => f.ticket = 0)
  /\ \A f, g \in fires : f.job = g.job /\ f.at = g.at => f = g
  /\ \A j \in Jobs : job[j].last <= Len(tickets)

\* compute_next_fire: the first fire strictly after t.
NextFire(period, t) == (t + period) - (t % period)

Init ==
  /\ now = 0
  /\ job \in [Jobs -> {[exists |-> TRUE, enabled |-> TRUE, period |-> p,
                        next |-> NextFire(p, 0), last |-> 0] : p \in Periods}]
  /\ fires = {} /\ tickets = <<>>
  /\ pass = None /\ manual = None
  /\ events = 0
  /\ changed = {} /\ stale = {} /\ unlinked = {}

Happens == events < MaxEvents /\ events' = events + 1

-----------------------------------------------------------------------------
(* The clock and the board.                                                *)

Minute ==
  /\ now < MaxTime
  /\ now' = now + 1
  /\ UNCHANGED <<job, fires, tickets, pass, manual, events, changed, stale, unlinked>>

MoveTicket(i) ==
  /\ \/ /\ tickets[i].state = "queued"
        /\ tickets' = [tickets EXCEPT ![i].state = "running"]
        /\ UNCHANGED events
     \/ /\ tickets[i].state = "running"
        /\ tickets' = [tickets EXCEPT ![i].state = "review"]
        /\ UNCHANGED events
     \/ /\ tickets[i].state = "review" /\ Happens
        /\ tickets' = [tickets EXCEPT ![i].state = "queued", ![i].again = TRUE]
  /\ UNCHANGED <<now, job, fires, pass, manual, changed, stale, unlinked>>

-----------------------------------------------------------------------------
(* materialize_due_cron_jobs.                                              *)

DueLater == {j \in Jobs : job[j].exists /\ job[j].enabled /\ job[j].next < now}   \* wrong: not on time
Due == {j \in Jobs : job[j].exists /\ job[j].enabled /\ job[j].next <= now}

ReadDue ==
  /\ pass = None
  /\ Due # {}
  /\ pass' = [at |-> now, todo |-> Due, read |-> job, fresh |-> FALSE, link |-> None]
  /\ UNCHANGED <<now, job, fires, tickets, manual, events, changed, stale, unlinked>>

\* The pass without j, over when nothing is left.
Without(p, j) ==
  IF p.todo = {j} THEN None ELSE [p EXCEPT !.todo = @ \ {j}, !.link = None]

Row(j) == IF pass.fresh THEN job[j] ELSE pass.read[j]

\* The unique constraint on (cron_job_id, fire_at).
ClaimedLinked(j, at) ==   \* wrong: overlooks a fire whose ticket was not linked
  \E f \in fires : f.job = j /\ f.at = at /\ (f.ticket # 0 \/ f.skipped)
Claimed(j, at) == \E f \in fires : f.job = j /\ f.at = at

\* _overlap_blocks.
BlockingQueued == {"queued"}   \* wrong: a running ticket does not block
Blocking == {"queued", "running"}
OverlapBlocks(j, row) == j \in SkipJobs /\ row.last # 0 /\ tickets[row.last].state \in Blocking

\* The fire the row waits for next.
Backfilled(row, at) == NextFire(row.period, row.next)   \* wrong: one missed fire after the other
Coalesced(row, at) == NextFire(row.period, at)

Advance(j, next) == job' = [job EXCEPT ![j].next = next]

Materialize(j) ==
  LET row == Row(j)
      next == Coalesced(row, pass.at)
  IN
  /\ pass # None /\ pass.link = None /\ j \in pass.todo
  /\ \/ \* deleted meanwhile: the commit fails and the pass with it
        /\ ~job[j].exists
        /\ pass' = None
        /\ UNCHANGED <<job, fires, tickets>>
     \/ \* materialized by an earlier pass: only advance; the rollback of the
        \* refused claim expires every row
        /\ job[j].exists /\ Claimed(j, row.next)
        /\ Advance(j, next)
        /\ pass' = Without([pass EXCEPT !.fresh = TRUE], j)
        /\ UNCHANGED <<fires, tickets>>
     \/ /\ job[j].exists /\ ~Claimed(j, row.next) /\ OverlapBlocks(j, row)
        /\ fires' = fires \cup {[job |-> j, at |-> row.next, ticket |-> 0, skipped |-> TRUE]}
        /\ Advance(j, next)
        /\ pass' = Without(pass, j)
        /\ UNCHANGED tickets
     \/ /\ job[j].exists /\ ~Claimed(j, row.next) /\ ~OverlapBlocks(j, row)
        /\ Len(tickets) < MaxTickets
        /\ tickets' = Append(tickets, [job |-> j, at |-> row.next, made |-> pass.at, state |-> "queued", again |-> FALSE])
        /\ fires' = fires \cup {[job |-> j, at |-> row.next, ticket |-> 0, skipped |-> FALSE]}
        /\ pass' = [pass EXCEPT !.link = [job |-> j, at |-> row.next,
                                          ticket |-> Len(tickets) + 1, next |-> next]]
        /\ UNCHANGED job
  /\ UNCHANGED <<now, manual, events, changed, stale, unlinked>>

LinkTicket ==
  /\ pass # None /\ pass.link # None
  /\ LET l == pass.link
         Fire(i) == [job |-> l.job, at |-> l.at, ticket |-> i, skipped |-> FALSE]
     IN IF job[l.job].exists
          THEN /\ fires' = (fires \ {Fire(0)}) \cup {Fire(l.ticket)}
               /\ job' = [job EXCEPT ![l.job].last = l.ticket, ![l.job].next = l.next]
               /\ pass' = Without(pass, l.job)
          ELSE pass' = None /\ UNCHANGED <<fires, job>>
  /\ UNCHANGED <<now, tickets, manual, events, changed, stale, unlinked>>

\* The daemon dies or a transaction fails (the database is locked): the tick
\* goes on without the rest of the pass.
AbortPass ==
  /\ pass # None /\ Happens
  /\ unlinked' = IF pass.link = None THEN unlinked ELSE unlinked \cup {pass.link.job}
  /\ pass' = None
  /\ UNCHANGED <<now, job, fires, tickets, manual, changed, stale>>

-----------------------------------------------------------------------------
(* Requests.                                                               *)

Changes(j) ==
  /\ changed' = changed \cup {j}
  /\ stale' = IF pass # None /\ j \in pass.todo THEN stale \cup {j} ELSE stale

\* The pending fire is recomputed while the job is enabled.
NextOnChange(j, period) == IF job[j].enabled THEN NextFire(period, now) ELSE job[j].next

\* update_cron_job with another schedule.
ChangeSchedule(j, period) ==
  /\ Happens
  /\ job[j].exists /\ period # job[j].period
  /\ job' = [job EXCEPT ![j].period = period,
                        ![j].next = NextOnChange(j, period)]
  /\ Changes(j)
  /\ UNCHANGED <<now, fires, tickets, pass, manual, unlinked>>

Enable(j) ==
  /\ Happens
  /\ job[j].exists
  /\ job' = [job EXCEPT ![j].enabled = TRUE, ![j].next = NextFire(job[j].period, now)]
  /\ Changes(j)
  /\ UNCHANGED <<now, fires, tickets, pass, manual, unlinked>>

Disable(j) ==
  /\ Happens
  /\ job[j].exists /\ job[j].enabled
  /\ job' = [job EXCEPT ![j].enabled = FALSE]
  /\ UNCHANGED <<now, fires, tickets, pass, manual, changed, stale, unlinked>>

\* delete_cron_job: the fires go with the job, the tickets stay.
Delete(j) ==
  /\ Happens
  /\ job[j].exists
  /\ job' = [job EXCEPT ![j].exists = FALSE]
  /\ fires' = {f \in fires : f.job # j}
  /\ UNCHANGED <<now, tickets, pass, manual, changed, stale, unlinked>>

\* fire_now: its own fire time never collides; overlap is not asked.
FireNow(j) ==
  /\ Happens
  /\ manual = None /\ job[j].exists
  /\ Len(tickets) < MaxTickets
  /\ tickets' = Append(tickets, [job |-> j, at |-> -1, made |-> now, state |-> "queued", again |-> FALSE])
  /\ manual' = [job |-> j, ticket |-> Len(tickets) + 1]
  /\ UNCHANGED <<now, job, fires, pass, changed, stale, unlinked>>

LinkManual ==
  /\ manual # None
  /\ job' = IF job[manual.job].exists THEN [job EXCEPT ![manual.job].last = manual.ticket] ELSE job
  /\ unlinked' = unlinked \cup {manual.job}
  /\ manual' = None
  /\ UNCHANGED <<now, fires, tickets, pass, events, changed, stale>>

-----------------------------------------------------------------------------
Next ==
  \/ Minute
  \/ \E i \in DOMAIN tickets : MoveTicket(i)
  \/ ReadDue \/ LinkTicket \/ AbortPass \/ LinkManual
  \/ \E j \in Jobs :
       \/ Materialize(j)
       \/ \E p \in Periods : ChangeSchedule(j, p)
       \/ Enable(j) \/ Disable(j) \/ Delete(j) \/ FireNow(j)

Spec == Init /\ [][Next]_vars

\* The daemon ticks.
FairSpec == Spec /\ WF_vars(ReadDue) /\ WF_vars(LinkTicket) /\ WF_vars(\E j \in Jobs : Materialize(j))

-----------------------------------------------------------------------------
(* Correctness.                                                            *)

Active(i) == tickets[i].state \in {"queued", "running"}
ScheduledFor(j) == {i \in DOMAIN tickets : tickets[i].job = j /\ tickets[i].at # -1}

\* A fire makes at most one ticket, whatever crashes between the commits.
OneTicketPerFire ==
  \A j \in Jobs : \A i, k \in ScheduledFor(j) :
     tickets[i].at = tickets[k].at => i = k

\* With skip_if_active a job has at most one ticket of its schedule on the way,
\* except when the link of one was lost or replaced, or a reviewed ticket was
\* put back in the queue.
NoOverlap ==
  \A j \in SkipJobs \ unlinked : job[j].exists =>
     \A i, k \in ScheduledFor(j) :
        Active(i) /\ Active(k) /\ ~tickets[i].again /\ ~tickets[k].again => i = k

\* An enabled job waits for a fire of its own schedule, and missed fires are
\* coalesced: a ticket is made for the oldest due one and the next one lies after
\* the pass that made it.  The exception is a schedule changed while a pass had
\* the row in hand: a row that expired there is read again and fires ahead of time.
FiresOnSchedule ==
  \A j \in Jobs \ stale :
    /\ job[j].enabled => job[j].next % job[j].period = 0
    /\ \A i, k \in ScheduledFor(j) :
         i < k => tickets[i].at < tickets[k].at /\ tickets[i].made < tickets[k].at

\* Every due fire is materialized or recorded as skipped in the end, whatever
\* the daemon lives through, unless the job is disabled, deleted or changed.
DueFiresHappen ==
  \A j \in Jobs : \A t \in 1..MaxTime :
     job[j].exists /\ job[j].enabled /\ job[j].next = t /\ t <= now
     ~> \/ \E f \in fires : f.job = j /\ f.at = t
        \/ ~job[j].exists \/ ~job[j].enabled \/ j \in changed
        \/ Len(tickets) = MaxTickets
=============================================================================
