---------------------------- MODULE CronJobsProofs ----------------------------
(***************************************************************************)
(* Proofs about CronJobs.                                                  *)
(***************************************************************************)
EXTENDS CronJobs, SequenceTheorems, TLAPS

-----------------------------------------------------------------------------
(* The inductive invariant.                                                *)

\* The fires of a job that still exists are there for all its tickets.
FiresAreKept ==
  \A j \in Jobs : job[j].exists =>
    \A i \in ScheduledFor(j) : Claimed(j, tickets[i].at)

Linking(j) == pass # None /\ pass.link # None /\ pass.link.job = j

\* The ticket the next fire of the job looks at: the one about to be linked, or
\* the one its row names.
Latest(j) == IF Linking(j) THEN pass.link.ticket ELSE job[j].last

\* What a job has on the way is the ticket its next fire looks at.
OnlyLatestActive ==
  \A j \in SkipJobs \ unlinked : job[j].exists =>
    \A i \in ScheduledFor(j) : Active(i) /\ ~tickets[i].again => i = Latest(j)

\* A pass works on rows that still name the ticket they named when it read them.
ReadIsCurrent ==
  pass # None => \A j \in pass.todo \ unlinked : pass.read[j].last = job[j].last

\* A ticket about to be linked is there, and its fire is not linked yet.
LinkIsReady ==
  pass # None /\ pass.link # None =>
    /\ pass.link.job \in pass.todo /\ pass.link.ticket <= Len(tickets)
    /\ \A f \in fires : f.job = pass.link.job /\ f.at = pass.link.at => f.ticket = 0 /\ ~f.skipped

ManualIsMade == manual # None => manual.ticket <= Len(tickets)

IInv ==
  /\ TypeOK /\ OneTicketPerFire /\ FiresAreKept /\ OnlyLatestActive
  /\ ReadIsCurrent /\ LinkIsReady /\ ManualIsMade

(* When things are made, of a job whose schedule was not changed under a pass. *)

\* Its tickets are made when their fires are due, each after the one before.
TicketsInOrder(j) ==
  \A i \in ScheduledFor(j) :
    /\ tickets[i].at <= tickets[i].made /\ tickets[i].made <= now
    /\ pass # None => tickets[i].made <= pass.at
    /\ \A k \in ScheduledFor(j) :
         i < k => tickets[i].at < tickets[k].at /\ tickets[i].made < tickets[k].at

\* The next fire lies after all of them, or its ticket was made and not linked.
NextIsOpen(j) ==
  job[j].exists =>
    \A i \in ScheduledFor(j) :
      \/ tickets[i].at < job[j].next /\ tickets[i].made < job[j].next
      \/ tickets[i].at = job[j].next /\ Claimed(j, job[j].next)

NextIsOfSchedule(j) == job[j].enabled => job[j].next % job[j].period = 0

\* A pass that has the job in hand knows its schedule, and its fire was due.
ReadStands(j) ==
  pass # None /\ j \in pass.todo =>
    /\ pass.read[j].next = job[j].next /\ pass.read[j].period = job[j].period
    /\ job[j].next <= pass.at

LinkStands(j) == Linking(j) => pass.link.next = NextFire(job[j].period, pass.at)

OnTime(j) ==
  TicketsInOrder(j) /\ NextIsOpen(j) /\ NextIsOfSchedule(j) /\ ReadStands(j) /\ LinkStands(j)

TInv == (pass # None => pass.at <= now) /\ \A j \in Jobs \ stale : OnTime(j)

-----------------------------------------------------------------------------
(***************************************************************************)
(* Tickets: they are appended and moved over the board, and stay what they *)
(* are.                                                                    *)
(***************************************************************************)

\* The next fire is a time.
LEMMA NextFireType ==
  ASSUME NEW p \in Nat \ {0}, NEW t \in Nat
  PROVE  NextFire(p, t) \in Nat
<1>1. t % p \in 0..p - 1  OBVIOUS
<1> QED  BY <1>1 DEF NextFire

\* A move over the board changes the state of one ticket, and one that comes back
\* from review is there again.
LEMMA MoveKeeps ==
  ASSUME tickets \in Seq(TicketRecords), NEW i \in DOMAIN tickets, MoveTicket(i)
  PROVE  /\ tickets' \in Seq(TicketRecords) /\ Len(tickets') = Len(tickets)
         /\ \A k \in DOMAIN tickets :
              /\ tickets'[k].job = tickets[k].job /\ tickets'[k].at = tickets[k].at
              /\ tickets'[k].made = tickets[k].made
              /\ Active(k)' /\ ~tickets'[k].again => Active(k) /\ ~tickets[k].again
<1>1. i \in 1..Len(tickets) /\ DOMAIN tickets = 1..Len(tickets)  OBVIOUS
<1>2. tickets[i] \in TicketRecords  BY <1>1, ElementOfSeq
<1>3. PICK s \in {"queued", "running", "review"}, g \in BOOLEAN :
        /\ tickets' = [tickets EXCEPT ![i] = [tickets[i] EXCEPT !.state = s, !.again = g]]
        /\ s # "review" /\ ~g => Active(i) /\ ~tickets[i].again
  <2>1. CASE tickets[i].state = "queued" /\ tickets' = [tickets EXCEPT ![i].state = "running"]
    <3>1. [tickets[i] EXCEPT !.state = "running"]
            = [tickets[i] EXCEPT !.state = "running", !.again = tickets[i].again]
      BY <1>2 DEF TicketRecords
    <3> QED  BY <1>2, <2>1, <3>1 DEF TicketRecords, Active
  <2>2. CASE tickets[i].state = "running" /\ tickets' = [tickets EXCEPT ![i].state = "review"]
    <3>1. [tickets[i] EXCEPT !.state = "review"]
            = [tickets[i] EXCEPT !.state = "review", !.again = tickets[i].again]
      BY <1>2 DEF TicketRecords
    <3> QED  BY <1>2, <2>2, <3>1 DEF TicketRecords
  <2>3. CASE tickets' = [tickets EXCEPT ![i].state = "queued", ![i].again = TRUE]
    BY <1>1, <1>2, <2>3 DEF TicketRecords
  <2> QED  BY <2>1, <2>2, <2>3 DEF MoveTicket
<1> DEFINE e == [tickets[i] EXCEPT !.state = s, !.again = g]
<1>4. e \in TicketRecords /\ e.job = tickets[i].job /\ e.at = tickets[i].at
      /\ e.made = tickets[i].made /\ e.state = s /\ e.again = g
  BY <1>2 DEF TicketRecords
<1>5. /\ tickets' \in Seq(TicketRecords) /\ Len(tickets') = Len(tickets)
      /\ \A k \in 1..Len(tickets) : tickets'[k] = IF k = i THEN e ELSE tickets[k]
  <2> HIDE DEF e
  <2> QED  BY <1>1, <1>3, <1>4, ExceptSeq DEF e
<1> HIDE DEF e
<1> QED  BY <1>1, <1>3, <1>4, <1>5 DEF Active

\* A new ticket leaves the others as they are.
LEMMA AppendKeeps ==
  ASSUME tickets \in Seq(TicketRecords), NEW e \in TicketRecords, tickets' = Append(tickets, e)
  PROVE  /\ tickets' \in Seq(TicketRecords)
         /\ DOMAIN tickets' = DOMAIN tickets \cup {Len(tickets) + 1}
         /\ Len(tickets') = Len(tickets) + 1 /\ Len(tickets) \in Nat
         /\ \A k \in DOMAIN tickets : tickets'[k] = tickets[k]
         /\ tickets'[Len(tickets) + 1] = e
BY AppendProperties, LenProperties

LEMMA TicketNumbers ==
  ASSUME TypeOK
  PROVE  (\A f \in fires : f.ticket \in Int) /\ \A k \in Jobs : job[k].last \in Int
<1>1. ASSUME NEW f \in fires PROVE f.ticket \in Int
  <2>1. f \in Fires  BY DEF TypeOK
  <2> QED  BY <2>1, CronJobsAssumption DEF Fires
<1>2. ASSUME NEW k \in Jobs PROVE job[k].last \in Int
  <2>1. job[k] \in JobRecords  BY DEF TypeOK
  <2> QED  BY <2>1, CronJobsAssumption DEF JobRecords
<1> QED  BY <1>1, <1>2

\* The initial states satisfy the invariant.
LEMMA InitIInv == Init => IInv
<1> SUFFICES ASSUME Init PROVE IInv  OBVIOUS
<1>1. \A j \in Jobs : job[j] \in JobRecords /\ job[j].last = 0
  <2> TAKE j \in Jobs
  <2>1. PICK p \in Periods : job[j] = [exists |-> TRUE, enabled |-> TRUE, period |-> p,
                                       next |-> NextFire(p, 0), last |-> 0]
    BY DEF Init
  <2>2. NextFire(p, 0) \in Nat  BY NextFireType, CronJobsAssumption
  <2> QED  BY <2>1, <2>2, CronJobsAssumption DEF JobRecords
<1>2. job \in [Jobs -> JobRecords]  BY <1>1 DEF Init
<1>3. tickets = << >> /\ tickets \in Seq(TicketRecords) /\ Len(tickets) = 0
  BY EmptySeq DEF Init
<1>4. TypeOK  BY <1>1, <1>2, <1>3, CronJobsAssumption DEF Init, TypeOK
<1>5. \A j \in Jobs : ScheduledFor(j) = {}  BY <1>3 DEF ScheduledFor
<1>6. OneTicketPerFire /\ FiresAreKept  BY <1>5 DEF OneTicketPerFire, FiresAreKept
<1>7. OnlyLatestActive  BY <1>5, CronJobsAssumption DEF OnlyLatestActive
<1>8. ReadIsCurrent /\ LinkIsReady /\ ManualIsMade
  BY DEF Init, ReadIsCurrent, LinkIsReady, ManualIsMade
<1> QED  BY <1>4, <1>6, <1>7, <1>8 DEF IInv

-----------------------------------------------------------------------------
(***************************************************************************)
(* Steps that make no ticket of a schedule.                                *)
(***************************************************************************)

\* The tickets of the schedules are the same, and none comes back to the queue
\* unless it was there before.
SameBoard ==
  \A j \in Jobs : /\ ScheduledFor(j)' = ScheduledFor(j)
                  /\ \A i \in ScheduledFor(j) :
                       /\ tickets'[i].at = tickets[i].at
                       /\ Active(i)' /\ ~tickets'[i].again => Active(i) /\ ~tickets[i].again

\* Such a step keeps what the tickets of a job have to do with its fires, when
\* the job's next fire looks at the same ticket and its fires are kept.
LEMMA SameBoardKeeps ==
  ASSUME OneTicketPerFire, FiresAreKept, OnlyLatestActive, SameBoard,
         unlinked \subseteq unlinked',
         \A j \in Jobs : job'[j].exists => job[j].exists /\ \A at : Claimed(j, at) => Claimed(j, at)',
         \A j \in Jobs \ unlinked' : job'[j].exists => Latest(j)' = Latest(j)
  PROVE  OneTicketPerFire' /\ FiresAreKept' /\ OnlyLatestActive'
<1>1. OneTicketPerFire'  BY DEF OneTicketPerFire, SameBoard
<1>2. FiresAreKept'
  <2> SUFFICES ASSUME NEW j \in Jobs, job'[j].exists, NEW i \in ScheduledFor(j)
               PROVE  Claimed(j, tickets[i].at)'
    BY DEF FiresAreKept, SameBoard
  <2>1. Claimed(j, tickets[i].at)  BY DEF FiresAreKept
  <2>2. tickets'[i].at = tickets[i].at  BY DEF SameBoard
  <2>3. \A at : Claimed(j, at) => Claimed(j, at)'  OBVIOUS
  <2> QED  BY <2>1, <2>2, <2>3 DEF Claimed
<1>3. OnlyLatestActive'
  <2> SUFFICES ASSUME NEW j \in SkipJobs \ unlinked', job'[j].exists, NEW i \in ScheduledFor(j),
                      Active(i)', ~tickets'[i].again
               PROVE  i = Latest(j)'
    BY CronJobsAssumption DEF OnlyLatestActive, SameBoard
  <2>1. j \in Jobs \ unlinked' /\ j \in SkipJobs \ unlinked /\ job[j].exists
    BY CronJobsAssumption
  <2>2. Active(i) /\ ~tickets[i].again  BY <2>1 DEF SameBoard
  <2>3. i = Latest(j)  BY <2>1, <2>2 DEF OnlyLatestActive
  <2> QED  BY <2>1, <2>3
<1> QED  BY <1>1, <1>2, <1>3

LEMMA SameTickets == UNCHANGED tickets => SameBoard
BY DEF SameBoard, ScheduledFor, Active

\* A step that leaves the tickets and the pass alone, makes no fire, and moves the
\* latest ticket of a job only when it is counted as unlinked.
LEMMA QuietStep ==
  ASSUME IInv, UNCHANGED <<tickets, pass>>, unlinked \subseteq unlinked', fires' \subseteq fires,
         \A j \in Jobs : job'[j].exists => job[j].exists /\ \A at : Claimed(j, at) => Claimed(j, at)',
         \A j \in Jobs \ unlinked' : job'[j].last = job[j].last,
         manual' \in {manual, None}
  PROVE  /\ OneTicketPerFire' /\ FiresAreKept' /\ OnlyLatestActive'
         /\ ReadIsCurrent' /\ LinkIsReady' /\ ManualIsMade'
<1>1. OneTicketPerFire' /\ FiresAreKept' /\ OnlyLatestActive'
  <2>1. \A j \in Jobs \ unlinked' : Latest(j)' = Latest(j)  BY DEF Latest, Linking
  <2> QED  BY <2>1, SameTickets, SameBoardKeeps DEF IInv
<1>2. ReadIsCurrent'
  <2>1. pass # None => pass.todo \subseteq Jobs  BY DEF IInv, TypeOK, Passes
  <2> QED  BY <2>1 DEF IInv, ReadIsCurrent
<1>3. LinkIsReady' /\ ManualIsMade'  BY DEF IInv, LinkIsReady, ManualIsMade
<1> QED  BY <1>1, <1>2, <1>3

-----------------------------------------------------------------------------
(***************************************************************************)
(* The clock and the requests.                                             *)
(***************************************************************************)

LEMMA MinuteStep ==
  ASSUME IInv, Minute \/ UNCHANGED vars
  PROVE  IInv'
<1>1. /\ UNCHANGED <<job, fires, tickets, pass, manual, events, changed, stale, unlinked>>
      /\ now' \in 0..MaxTime
  BY CronJobsAssumption DEF Minute, vars, IInv, TypeOK
<1>2. TypeOK'  BY <1>1 DEF IInv, TypeOK
<1>3. \A j \in Jobs : \A at : Claimed(j, at) => Claimed(j, at)'  BY <1>1 DEF Claimed
<1> QED  BY <1>1, <1>2, <1>3, QuietStep DEF IInv

\* A change e of the row of job j that keeps its latest ticket; a job whose fires
\* are deleted is deleted.
Edits(j, e) ==
  /\ e \in JobRecords /\ e.last = job[j].last /\ (e.exists => job[j].exists)
  /\ job' = [job EXCEPT ![j] = e]
  /\ \/ fires' = fires
     \/ fires' = {f \in fires : f.job # j} /\ ~e.exists

\* A change of schedule, and enabling, disabling and deleting a job.
LEMMA ChangeStep ==
  ASSUME IInv, NEW j \in Jobs,
         (\E p \in Periods : ChangeSchedule(j, p)) \/ Enable(j) \/ Disable(j) \/ Delete(j)
  PROVE  IInv'
<1> DEFINE r == job[j]
<1>1. r \in JobRecords /\ job \in [Jobs -> JobRecords] /\ now \in Nat
  BY CronJobsAssumption DEF IInv, TypeOK
<1>2. \E e : Edits(j, e)
  <2>1. ASSUME NEW p \in Periods, ChangeSchedule(j, p) PROVE \E e : Edits(j, e)
    <3>1. NextOnChange(j, p) \in Nat
      BY <1>1, NextFireType, CronJobsAssumption DEF NextOnChange, JobRecords
    <3>2. Edits(j, [r EXCEPT !.period = p, !.next = NextOnChange(j, p)])
      BY <1>1, <2>1, <3>1 DEF JobRecords, ChangeSchedule, Edits
    <3> QED  BY <3>2
  <2>2. CASE Enable(j)
    <3>1. NextFire(r.period, now) \in Nat
      BY <1>1, NextFireType, CronJobsAssumption DEF JobRecords
    <3>2. Edits(j, [r EXCEPT !.enabled = TRUE, !.next = NextFire(r.period, now)])
      BY <1>1, <2>2, <3>1 DEF JobRecords, Enable, Edits
    <3> QED  BY <3>2
  <2>3. CASE Disable(j)
    <3>1. Edits(j, [r EXCEPT !.enabled = FALSE])
      BY <1>1, <2>3 DEF JobRecords, Disable, Edits
    <3> QED  BY <3>1
  <2>4. CASE Delete(j)
    <3>1. Edits(j, [r EXCEPT !.exists = FALSE])
      BY <1>1, <2>4 DEF JobRecords, Delete, Edits
    <3> QED  BY <3>1
  <2> QED  BY <2>1, <2>2, <2>3, <2>4
<1>3. PICK e : Edits(j, e)  BY <1>2
<1>4. /\ UNCHANGED <<now, tickets, pass, manual, unlinked>> /\ events' \in 0..MaxEvents
      /\ changed' \subseteq Jobs /\ stale' \subseteq changed'
  <2>1. Happens /\ UNCHANGED <<now, tickets, pass, manual, unlinked>>
        /\ (Changes(j) \/ UNCHANGED <<changed, stale>>)
    BY DEF ChangeSchedule, Enable, Disable, Delete
  <2>2. events' \in 0..MaxEvents  BY <2>1, CronJobsAssumption DEF IInv, TypeOK, Happens
  <2>3. changed' \subseteq Jobs /\ stale' \subseteq changed'  BY <2>1 DEF IInv, TypeOK, Changes
  <2> QED  BY <2>1, <2>2, <2>3
<1>5. /\ job' \in [Jobs -> JobRecords] /\ fires' \subseteq fires
      /\ \A k \in Jobs : job'[k].last = job[k].last /\ (job'[k].exists => job[k].exists)
  BY <1>1, <1>3 DEF Edits
<1>6. \A k \in Jobs : job'[k].exists => \A at : Claimed(k, at) => Claimed(k, at)'
  BY <1>1, <1>3 DEF Edits, Claimed
<1>7. TypeOK'  BY <1>4, <1>5 DEF IInv, TypeOK
<1> QED  BY <1>4, <1>5, <1>6, <1>7, QuietStep DEF IInv

\* A manual fire makes a ticket that belongs to no fire of the schedule.
LEMMA FireNowStep ==
  ASSUME IInv, NEW j \in Jobs, FireNow(j)
  PROVE  IInv'
<1> DEFINE n == Len(tickets) + 1
           e == [job |-> j, at |-> -1, made |-> now, state |-> "queued", again |-> FALSE]
<1>1. /\ UNCHANGED <<now, job, fires, pass, changed, stale, unlinked>>
      /\ tickets' = Append(tickets, e) /\ manual' = [job |-> j, ticket |-> n]
      /\ Len(tickets) < MaxTickets /\ Happens
  BY DEF FireNow
<1>2. e \in TicketRecords  BY CronJobsAssumption DEF IInv, TypeOK, TicketRecords
<1>3. tickets \in Seq(TicketRecords) /\ Len(tickets) \in Nat  BY LenProperties DEF IInv, TypeOK
<1> HIDE DEF e
<1>4. /\ tickets' \in Seq(TicketRecords) /\ DOMAIN tickets' = DOMAIN tickets \cup {n}
      /\ Len(tickets') = n /\ \A k \in DOMAIN tickets : tickets'[k] = tickets[k]
      /\ tickets'[n] = e
  BY <1>1, <1>2, <1>3, AppendKeeps
<1>5. TypeOK'
  <2>1. manual' \in [job : Jobs, ticket : 1..MaxTickets]  BY <1>1, <1>3, CronJobsAssumption
  <2>2. events' \in 0..MaxEvents  BY <1>1, CronJobsAssumption DEF IInv, TypeOK, Happens
  <2>3. (\A f \in fires : f.ticket <= n) /\ \A k \in Jobs : job[k].last <= n
    <3>1. (\A f \in fires : f.ticket \in Int) /\ \A k \in Jobs : job[k].last \in Int
      BY TicketNumbers DEF IInv
    <3> QED  BY <1>3, <3>1 DEF IInv, TypeOK
  <2>4. n <= MaxTickets  BY <1>1, <1>3, CronJobsAssumption
  <2> QED  BY <1>1, <1>4, <2>1, <2>2, <2>3, <2>4 DEF IInv, TypeOK
<1>6. SameBoard
  <2>1. n \notin DOMAIN tickets /\ DOMAIN tickets = 1..Len(tickets)  BY <1>3
  <2>2. e.at = -1  BY DEF e
  <2>3. \A k \in Jobs : ScheduledFor(k)' = ScheduledFor(k)
    BY <1>4, <2>1, <2>2 DEF ScheduledFor
  <2> QED  BY <1>4, <2>3 DEF SameBoard, ScheduledFor, Active
<1>7. OneTicketPerFire' /\ FiresAreKept' /\ OnlyLatestActive'
  <2>1. \A k \in Jobs : Latest(k)' = Latest(k)  BY <1>1 DEF Latest, Linking
  <2>2. \A k \in Jobs : \A at : Claimed(k, at) => Claimed(k, at)'  BY <1>1 DEF Claimed
  <2> QED  BY <1>1, <1>6, <2>1, <2>2, SameBoardKeeps DEF IInv
<1>8. ReadIsCurrent'  BY <1>1 DEF IInv, ReadIsCurrent
<1>9. LinkIsReady' /\ ManualIsMade'
  <2>1. pass # None /\ pass.link # None => pass.link.ticket <= n
    BY <1>3, CronJobsAssumption DEF IInv, TypeOK, LinkIsReady, Passes, Links
  <2> QED  BY <1>1, <1>3, <1>4, <2>1 DEF IInv, LinkIsReady, ManualIsMade
<1> QED  BY <1>5, <1>7, <1>8, <1>9 DEF IInv

LEMMA LinkManualStep ==
  ASSUME IInv, LinkManual
  PROVE  IInv'
<1>1. /\ UNCHANGED <<now, fires, tickets, pass, events, changed, stale>>
      /\ manual' = None /\ unlinked' = unlinked \cup {manual.job}
      /\ manual \in [job : Jobs, ticket : 1..MaxTickets] /\ manual.ticket <= Len(tickets)
  BY DEF LinkManual, IInv, TypeOK, ManualIsMade
<1>2. /\ job' \in [Jobs -> JobRecords]
      /\ \A k \in Jobs : job'[k].last <= Len(tickets) /\ (job'[k].exists => job[k].exists)
      /\ \A k \in Jobs \ unlinked' : job'[k].last = job[k].last
  <2>1. CASE UNCHANGED job  BY <2>1 DEF IInv, TypeOK
  <2>2. CASE job' = [job EXCEPT ![manual.job].last = manual.ticket]
    <3> DEFINE e == [job[manual.job] EXCEPT !.last = manual.ticket]
    <3>1. job[manual.job] \in JobRecords /\ manual.job \in Jobs  BY <1>1 DEF IInv, TypeOK
    <3>2. e \in JobRecords /\ e.last = manual.ticket /\ e.exists = job[manual.job].exists
      BY <1>1, <3>1, CronJobsAssumption DEF JobRecords
    <3>3. job' = [job EXCEPT ![manual.job] = e]  BY <2>2
    <3> HIDE DEF e
    <3>4. \A k \in Jobs : job'[k] = IF k = manual.job THEN e ELSE job[k]
      BY <3>1, <3>3 DEF IInv, TypeOK
    <3>5. job' \in [Jobs -> JobRecords]  BY <3>1, <3>2, <3>3 DEF IInv, TypeOK
    <3> QED  BY <1>1, <3>2, <3>4, <3>5 DEF IInv, TypeOK
  <2> QED  BY <2>1, <2>2 DEF LinkManual
<1>3. TypeOK'  BY <1>1, <1>2 DEF IInv, TypeOK
<1>4. \A k \in Jobs : \A at : Claimed(k, at) => Claimed(k, at)'  BY <1>1 DEF Claimed
<1> QED  BY <1>1, <1>2, <1>3, <1>4, QuietStep DEF IInv

\* The board moves tickets and leaves everything else alone.
LEMMA MoveTicketStep ==
  ASSUME IInv, NEW i \in DOMAIN tickets, MoveTicket(i)
  PROVE  IInv'
<1>1. UNCHANGED <<now, job, fires, pass, manual, changed, stale, unlinked>>  BY DEF MoveTicket
<1>2. events' \in 0..MaxEvents  BY CronJobsAssumption DEF IInv, TypeOK, MoveTicket, Happens
<1>3. tickets \in Seq(TicketRecords)  BY DEF IInv, TypeOK
<1>4. /\ tickets' \in Seq(TicketRecords) /\ Len(tickets') = Len(tickets)
      /\ \A k \in DOMAIN tickets :
           /\ tickets'[k].job = tickets[k].job /\ tickets'[k].at = tickets[k].at
           /\ Active(k)' /\ ~tickets'[k].again => Active(k) /\ ~tickets[k].again
  BY <1>3, MoveKeeps
<1>5. DOMAIN tickets' = DOMAIN tickets  BY <1>3, <1>4
<1>6. SameBoard  BY <1>4, <1>5 DEF SameBoard, ScheduledFor
<1>7. TypeOK'  BY <1>1, <1>2, <1>4 DEF IInv, TypeOK
<1>8. OneTicketPerFire' /\ FiresAreKept' /\ OnlyLatestActive'
  <2>1. \A k \in Jobs : Latest(k)' = Latest(k)  BY <1>1 DEF Latest, Linking
  <2>2. \A k \in Jobs : \A at : Claimed(k, at) => Claimed(k, at)'  BY <1>1 DEF Claimed
  <2> QED  BY <1>1, <1>6, <2>1, <2>2, SameBoardKeeps DEF IInv
<1>9. ReadIsCurrent' /\ LinkIsReady' /\ ManualIsMade'
  BY <1>1, <1>4 DEF IInv, ReadIsCurrent, LinkIsReady, ManualIsMade
<1> QED  BY <1>7, <1>8, <1>9 DEF IInv

-----------------------------------------------------------------------------
(***************************************************************************)
(* The pass of the daemon.                                                 *)
(***************************************************************************)

LEMMA WithoutKeeps ==
  ASSUME NEW p \in Passes, NEW j \in Jobs
  PROVE  /\ Without(p, j) \in {None} \cup Passes
         /\ Without(p, j) # None => /\ Without(p, j).link = None
                                    /\ Without(p, j).read = p.read
                                    /\ Without(p, j).todo = p.todo \ {j}
                                    /\ Without(p, j).at = p.at
<1>1. [p EXCEPT !.todo = @ \ {j}, !.link = None] \in Passes  BY DEF Passes
<1> QED  BY <1>1 DEF Without, Passes

\* The pass and what it is about to link, as the type invariant has them.
LEMMA PassType ==
  ASSUME TypeOK, pass # None
  PROVE  /\ pass \in Passes /\ pass.todo \subseteq Jobs /\ pass.at \in Nat
         /\ pass.read \in [Jobs -> JobRecords] /\ pass.link \in {None} \cup Links
BY DEF TypeOK, Passes

LEMMA ReadDueStep ==
  ASSUME IInv, ReadDue
  PROVE  IInv'
<1>1. /\ UNCHANGED <<now, job, fires, tickets, manual, events, changed, stale, unlinked>>
      /\ pass = None
      /\ pass' = [at |-> now, todo |-> Due, read |-> job, fresh |-> FALSE, link |-> None]
  BY DEF ReadDue
<1>2. pass' \in Passes
  <2>1. now \in Nat /\ Due \subseteq Jobs /\ job \in [Jobs -> JobRecords]
    BY CronJobsAssumption DEF IInv, TypeOK, Due
  <2> QED  BY <1>1, <2>1 DEF Passes
<1>3. pass' # None /\ pass'.link = None /\ pass'.read = job  BY <1>1, <1>2, NoneIsNoPass
<1>4. TypeOK'  BY <1>1, <1>2 DEF IInv, TypeOK
<1>5. OneTicketPerFire' /\ FiresAreKept' /\ OnlyLatestActive'
  <2>1. \A k \in Jobs : Latest(k)' = Latest(k)  BY <1>1, <1>3 DEF Latest, Linking
  <2>2. \A k \in Jobs : \A at : Claimed(k, at) => Claimed(k, at)'  BY <1>1 DEF Claimed
  <2> QED  BY <1>1, <2>1, <2>2, SameTickets, SameBoardKeeps DEF IInv
<1>6. ReadIsCurrent' /\ LinkIsReady' /\ ManualIsMade'
  BY <1>1, <1>3 DEF IInv, ReadIsCurrent, LinkIsReady, ManualIsMade
<1> QED  BY <1>4, <1>5, <1>6 DEF IInv

LEMMA AbortPassStep ==
  ASSUME IInv, AbortPass
  PROVE  IInv'
<1>1. /\ UNCHANGED <<now, job, fires, tickets, manual, changed, stale>>
      /\ pass # None /\ pass' = None /\ Happens
      /\ unlinked' = IF pass.link = None THEN unlinked ELSE unlinked \cup {pass.link.job}
  BY DEF AbortPass
<1>2. events' \in 0..MaxEvents  BY <1>1, CronJobsAssumption DEF IInv, TypeOK, Happens
<1>3. pass.link # None => pass.link.job \in Jobs
  BY <1>1, PassType DEF IInv, Links
<1>4. unlinked \subseteq unlinked' /\ unlinked' \subseteq Jobs
  BY <1>1, <1>3 DEF IInv, TypeOK
<1>5. TypeOK'  BY <1>1, <1>2, <1>4 DEF IInv, TypeOK
<1>6. OneTicketPerFire' /\ FiresAreKept' /\ OnlyLatestActive'
  <2>1. \A k \in Jobs \ unlinked' : Latest(k)' = Latest(k)  BY <1>1 DEF Latest, Linking
  <2>2. \A k \in Jobs : \A at : Claimed(k, at) => Claimed(k, at)'  BY <1>1 DEF Claimed
  <2> QED  BY <1>1, <1>4, <2>1, <2>2, SameTickets, SameBoardKeeps DEF IInv
<1>7. ReadIsCurrent' /\ LinkIsReady' /\ ManualIsMade'
  BY <1>1 DEF IInv, ReadIsCurrent, LinkIsReady, ManualIsMade
<1> QED  BY <1>5, <1>6, <1>7 DEF IInv

\* The ticket that is linked becomes the last one of its job, and its fire stays.
LEMMA LinkTicketStep ==
  ASSUME IInv, LinkTicket
  PROVE  IInv'
<1> DEFINE l == pass.link
           f == [job |-> l.job, at |-> l.at, ticket |-> 0, skipped |-> FALSE]
           g == [job |-> l.job, at |-> l.at, ticket |-> l.ticket, skipped |-> FALSE]
           r == [job[l.job] EXCEPT !.last = l.ticket, !.next = l.next]
<1>1. /\ UNCHANGED <<now, tickets, manual, events, changed, stale, unlinked>>
      /\ pass # None /\ l # None
      /\ \/ /\ job[l.job].exists /\ fires' = (fires \ {f}) \cup {g}
            /\ job' = [job EXCEPT ![l.job] = r] /\ pass' = Without(pass, l.job)
         \/ ~job[l.job].exists /\ pass' = None /\ UNCHANGED <<fires, job>>
  BY DEF LinkTicket
<1>2. /\ l \in Links /\ l.job \in Jobs /\ l.at \in Nat /\ l.ticket \in 1..MaxTickets /\ l.next \in Nat
      /\ pass \in Passes /\ pass.read \in [Jobs -> JobRecords] /\ pass.todo \subseteq Jobs
  BY <1>1, PassType DEF IInv, Links
<1>3. /\ l.job \in pass.todo /\ l.ticket <= Len(tickets)
      /\ \A h \in fires : h.job = l.job /\ h.at = l.at => h.ticket = 0 /\ ~h.skipped
  BY <1>1 DEF IInv, LinkIsReady
<1>4. CASE ~job[l.job].exists /\ pass' = None /\ UNCHANGED <<fires, job>>
  <2>1. TypeOK'  BY <1>1, <1>4 DEF IInv, TypeOK
  <2>2. OneTicketPerFire' /\ FiresAreKept' /\ OnlyLatestActive'
    <3>1. \A k \in Jobs \ unlinked' : job'[k].exists => Latest(k)' = Latest(k)
      BY <1>4 DEF Latest, Linking
    <3>2. \A k \in Jobs : \A at : Claimed(k, at) => Claimed(k, at)'  BY <1>4 DEF Claimed
    <3> QED  BY <1>1, <1>4, <3>1, <3>2, SameTickets, SameBoardKeeps DEF IInv
  <2>3. ReadIsCurrent' /\ LinkIsReady' /\ ManualIsMade'
    BY <1>1, <1>4 DEF IInv, ReadIsCurrent, LinkIsReady, ManualIsMade
  <2> QED  BY <2>1, <2>2, <2>3 DEF IInv
<1>5. CASE /\ job[l.job].exists /\ fires' = (fires \ {f}) \cup {g}
           /\ job' = [job EXCEPT ![l.job] = r] /\ pass' = Without(pass, l.job)
  <2> HIDE DEF l
  <2>1. f.job = l.job /\ f.at = l.at  OBVIOUS
  <2>2. g \in Fires /\ g.job = l.job /\ g.at = l.at /\ g.ticket = l.ticket /\ ~g.skipped
    <3>1. l.ticket \in 0..MaxTickets  BY <1>2, CronJobsAssumption
    <3> QED  BY <1>2, <3>1 DEF Fires
  <2>3. \A h \in fires : h.job = l.job /\ h.at = l.at => h = f
    <3> SUFFICES ASSUME NEW h \in fires, h.job = l.job, h.at = l.at PROVE h = f  OBVIOUS
    <3>1. h \in Fires  BY DEF IInv, TypeOK
    <3> QED  BY <1>3, <3>1 DEF Fires
  <2>4. r \in JobRecords /\ r.last = l.ticket /\ r.exists = job[l.job].exists
    <3>1. job[l.job] \in JobRecords  BY <1>2 DEF IInv, TypeOK
    <3>2. l.ticket \in 0..MaxTickets  BY <1>2, CronJobsAssumption
    <3> QED  BY <1>2, <3>1, <3>2 DEF JobRecords
  <2> USE DEF l
  <2> HIDE DEF f, g, r
  <2>5. job' \in [Jobs -> JobRecords] /\ \A k \in Jobs : job'[k] = IF k = l.job THEN r ELSE job[k]
    BY <1>2, <1>5, <2>4 DEF IInv, TypeOK
  <2>6. /\ pass' \in {None} \cup Passes
        /\ pass' # None => pass'.link = None /\ pass'.read = pass.read /\ pass'.todo = pass.todo \ {l.job}
    BY <1>2, <1>5, WithoutKeeps
  <2>7. TypeOK'
    <3>1. fires' \subseteq Fires  BY <1>5, <2>2 DEF IInv, TypeOK
    <3>2. \A h \in fires' : h.ticket <= Len(tickets) /\ (h.skipped => h.ticket = 0)
      BY <1>3, <1>5, <2>2 DEF IInv, TypeOK
    <3>3. \A h, i \in fires' : h.job = i.job /\ h.at = i.at => h = i
      BY <1>5, <2>2, <2>3 DEF IInv, TypeOK
    <3>4. \A k \in Jobs : job'[k].last <= Len(tickets)  BY <1>3, <2>4, <2>5 DEF IInv, TypeOK
    <3> QED  BY <1>1, <2>5, <2>6, <3>1, <3>2, <3>3, <3>4 DEF IInv, TypeOK
  <2>8. OneTicketPerFire' /\ FiresAreKept' /\ OnlyLatestActive'
    <3>1. \A k \in Jobs : Latest(k)' = Latest(k)
      BY <1>1, <2>4, <2>5, <2>6 DEF Latest, Linking
    <3>2. \A k \in Jobs : \A at : Claimed(k, at) => Claimed(k, at)'
      <4> SUFFICES ASSUME NEW k \in Jobs, NEW at, NEW h \in fires, h.job = k, h.at = at
                   PROVE  \E i \in fires' : i.job = k /\ i.at = at
        BY DEF Claimed
      <4>1. CASE h = f  BY <1>5, <2>1, <2>2, <4>1
      <4>2. CASE h # f  BY <1>5, <4>2
      <4> QED  BY <4>1, <4>2
    <3>3. \A k \in Jobs : job'[k].exists => job[k].exists  BY <2>4, <2>5
    <3> QED  BY <1>1, <3>1, <3>2, <3>3, SameTickets, SameBoardKeeps DEF IInv
  <2>9. ReadIsCurrent'  BY <1>1, <1>2, <2>5, <2>6 DEF IInv, ReadIsCurrent
  <2>10. LinkIsReady' /\ ManualIsMade'  BY <1>1, <2>6 DEF IInv, LinkIsReady, ManualIsMade
  <2> QED  BY <2>7, <2>8, <2>9, <2>10 DEF IInv
<1> QED  BY <1>1, <1>4, <1>5

\* The row a fire is made from is a row of the table, and names the job's last
\* ticket as long as its links are counted on.
LEMMA RowType ==
  ASSUME IInv, pass # None, NEW j \in pass.todo
  PROVE  /\ Row(j) \in JobRecords /\ (j \notin unlinked => Row(j).last = job[j].last)
         /\ Row(j).next \in Nat /\ Coalesced(Row(j), pass.at) \in Nat
<1>1. pass.todo \subseteq Jobs /\ pass.read \in [Jobs -> JobRecords] /\ pass.at \in Nat
  BY PassType DEF IInv
<1>2. Row(j) \in JobRecords  BY <1>1 DEF IInv, TypeOK, Row
<1>3. j \notin unlinked => Row(j).last = job[j].last  BY DEF IInv, ReadIsCurrent, Row
<1>4. Row(j).next \in Nat /\ Row(j).period \in Nat \ {0}
  BY <1>2, CronJobsAssumption DEF JobRecords
<1>5. Coalesced(Row(j), pass.at) \in Nat  BY <1>1, <1>4, NextFireType DEF Coalesced
<1> QED  BY <1>2, <1>3, <1>4, <1>5

\* A job that is not created a ticket for: its schedule moves on, and what is
\* recorded is at most that its fire was skipped.
LEMMA AdvanceStep ==
  ASSUME IInv, NEW j \in Jobs, NEW next \in Nat, pass # None, pass.link = None, j \in pass.todo,
         Advance(j, next),
         UNCHANGED <<now, tickets, manual, events, changed, stale, unlinked>>,
         \/ UNCHANGED fires
         \/ \E h \in Fires : /\ fires' = fires \cup {h} /\ h.ticket = 0
                             /\ h.job = j /\ ~Claimed(j, h.at),
         \E p \in Passes : /\ pass' = Without(p, j) /\ p.todo = pass.todo /\ p.read = pass.read
  PROVE  IInv'
<1> DEFINE r == [job[j] EXCEPT !.next = next]
<1>1. r \in JobRecords /\ r.last = job[j].last /\ r.exists = job[j].exists
  <2>1. job[j] \in JobRecords  BY DEF IInv, TypeOK
  <2> QED  BY <2>1 DEF JobRecords
<1>2. job' = [job EXCEPT ![j] = r]  BY DEF Advance
<1> HIDE DEF r
<1>3. job' \in [Jobs -> JobRecords] /\ \A k \in Jobs : job'[k] = IF k = j THEN r ELSE job[k]
  BY <1>1, <1>2 DEF IInv, TypeOK
<1>4. /\ pass' \in {None} \cup Passes
      /\ pass' # None => pass'.link = None /\ pass'.read = pass.read /\ pass'.todo = pass.todo \ {j}
  BY WithoutKeeps
<1>5. TypeOK'
  <2>1. fires' \subseteq Fires  BY DEF IInv, TypeOK
  <2>2. Len(tickets) \in Nat  BY LenProperties DEF IInv, TypeOK
  <2>3. \A h \in fires' : h.ticket <= Len(tickets) /\ (h.skipped => h.ticket = 0)
    BY <2>2 DEF IInv, TypeOK
  <2>4. \A h, i \in fires' : h.job = i.job /\ h.at = i.at => h = i
    BY DEF IInv, TypeOK, Claimed
  <2>5. \A k \in Jobs : job'[k].last <= Len(tickets)  BY <1>1, <1>3 DEF IInv, TypeOK
  <2> QED  BY <1>3, <1>4, <2>1, <2>3, <2>4, <2>5 DEF IInv, TypeOK
<1>6. OneTicketPerFire' /\ FiresAreKept' /\ OnlyLatestActive'
  <2>1. \A k \in Jobs : Latest(k)' = Latest(k)  BY <1>1, <1>3, <1>4 DEF Latest, Linking
  <2>2. \A k \in Jobs : \A at : Claimed(k, at) => Claimed(k, at)'  BY DEF Claimed
  <2>3. \A k \in Jobs : job'[k].exists => job[k].exists  BY <1>1, <1>3
  <2> QED  BY <2>1, <2>2, <2>3, SameTickets, SameBoardKeeps DEF IInv
<1>7. ReadIsCurrent'
  <2>1. pass.todo \subseteq Jobs  BY PassType DEF IInv
  <2> QED  BY <1>1, <1>3, <1>4, <2>1 DEF IInv, ReadIsCurrent
<1>8. LinkIsReady' /\ ManualIsMade'  BY <1>4 DEF IInv, LinkIsReady, ManualIsMade
<1> QED  BY <1>5, <1>6, <1>7, <1>8 DEF IInv

\* A fire makes a ticket: no other ticket was made for it, and none of a job that
\* does not overlap is on the way.
LEMMA CreateStep ==
  ASSUME IInv, NEW j \in Jobs, pass # None, pass.link = None, j \in pass.todo,
         job[j].exists, ~Claimed(j, Row(j).next), ~OverlapBlocks(j, Row(j)),
         Len(tickets) < MaxTickets,
         tickets' = Append(tickets, [job |-> j, at |-> Row(j).next, made |-> pass.at,
                                     state |-> "queued", again |-> FALSE]),
         fires' = fires \cup {[job |-> j, at |-> Row(j).next, ticket |-> 0, skipped |-> FALSE]},
         pass' = [pass EXCEPT !.link = [job |-> j, at |-> Row(j).next, ticket |-> Len(tickets) + 1,
                                        next |-> Coalesced(Row(j), pass.at)]],
         UNCHANGED <<now, job, manual, events, changed, stale, unlinked>>
  PROVE  IInv'
<1> DEFINE at == Row(j).next
           n == Len(tickets) + 1
           e == [job |-> j, at |-> at, made |-> pass.at, state |-> "queued", again |-> FALSE]
           h == [job |-> j, at |-> at, ticket |-> 0, skipped |-> FALSE]
           l == [job |-> j, at |-> at, ticket |-> n, next |-> Coalesced(Row(j), pass.at)]
<1>1. /\ at \in Nat /\ Coalesced(Row(j), pass.at) \in Nat /\ pass.at \in Nat
      /\ (j \notin unlinked => Row(j).last = job[j].last)
      /\ pass \in Passes /\ pass.todo \subseteq Jobs
  BY RowType, PassType DEF IInv
<1>2. tickets \in Seq(TicketRecords) /\ Len(tickets) \in Nat /\ n \in 1..MaxTickets
  BY LenProperties, CronJobsAssumption DEF IInv, TypeOK
<1>3. e \in TicketRecords /\ e.job = j /\ e.at = at  BY <1>1 DEF TicketRecords
<1>4. h \in Fires /\ h.job = j /\ h.at = at /\ h.ticket = 0 /\ ~h.skipped
  BY <1>1, CronJobsAssumption DEF Fires
<1>5. l \in Links /\ l.job = j /\ l.at = at /\ l.ticket = n
  <2> HIDE DEF n, at
  <2> QED  BY <1>1, <1>2 DEF Links
<1> HIDE DEF e, h, l
<1>6. tickets' = Append(tickets, e) /\ fires' = fires \cup {h} /\ pass' = [pass EXCEPT !.link = l]
  BY DEF e, h, l
<1>7. /\ tickets' \in Seq(TicketRecords) /\ DOMAIN tickets' = DOMAIN tickets \cup {n}
      /\ Len(tickets') = n /\ \A k \in DOMAIN tickets : tickets'[k] = tickets[k]
      /\ tickets'[n] = e /\ n \notin DOMAIN tickets
  BY <1>2, <1>3, <1>6, AppendKeeps
<1>8. /\ pass' \in Passes /\ pass' # None /\ pass'.link = l /\ l # None
      /\ pass'.todo = pass.todo /\ pass'.read = pass.read
  <2>1. [pass EXCEPT !.link = l] \in Passes  BY <1>1, <1>5 DEF Passes
  <2>2. /\ [pass EXCEPT !.link = l].link = l
        /\ [pass EXCEPT !.link = l].todo = pass.todo /\ [pass EXCEPT !.link = l].read = pass.read
    BY <1>1 DEF Passes
  <2>3. l # None  BY <1>5, NoneIsNoPass
  <2> QED  BY <1>6, <2>1, <2>2, <2>3, NoneIsNoPass
<1>9. TypeOK'
  <2>1. (\A g \in fires' : g.ticket <= n /\ (g.skipped => g.ticket = 0))
    <3>1. \A g \in fires : g.ticket \in Int  BY TicketNumbers DEF IInv
    <3>2. \A g \in fires : g.ticket <= Len(tickets) /\ (g.skipped => g.ticket = 0)
      BY DEF IInv, TypeOK
    <3> QED  BY <1>2, <1>4, <1>6, <3>1, <3>2
  <2>2. \A k \in Jobs : job[k].last <= n
    <3>1. \A k \in Jobs : job[k].last \in Int  BY TicketNumbers DEF IInv
    <3> QED  BY <1>2, <3>1 DEF IInv, TypeOK
  <2>3. \A f, g \in fires' : f.job = g.job /\ f.at = g.at => f = g
    BY <1>4, <1>6 DEF IInv, TypeOK, Claimed
  <2>4. fires' \subseteq Fires  BY <1>4, <1>6 DEF IInv, TypeOK
  <2>5. n <= MaxTickets  BY <1>2
  <2> QED  BY <1>7, <1>8, <2>1, <2>2, <2>3, <2>4, <2>5 DEF IInv, TypeOK
<1>10. \A k \in Jobs : ScheduledFor(k)' = IF k = j THEN ScheduledFor(j) \cup {n} ELSE ScheduledFor(k)
  <2>1. e.at # -1  BY <1>1, <1>3
  <2> QED  BY <1>3, <1>7, <2>1 DEF ScheduledFor
<1>11. \A k \in Jobs : \A i \in ScheduledFor(k) : tickets'[i] = tickets[i] /\ i # n
  BY <1>7 DEF ScheduledFor
<1>12. \A i \in ScheduledFor(j) : tickets[i].at # at
  BY DEF IInv, FiresAreKept, Claimed
<1> HIDE DEF n, at
<1>13. OneTicketPerFire'
  <2> SUFFICES ASSUME NEW k \in Jobs, NEW i \in ScheduledFor(k)', NEW m \in ScheduledFor(k)',
                      tickets'[i].at = tickets'[m].at
               PROVE  i = m
    BY DEF OneTicketPerFire
  <2>1. \A a, b \in ScheduledFor(k) : tickets[a].at = tickets[b].at => a = b
    BY DEF IInv, OneTicketPerFire
  <2>2. \A a \in ScheduledFor(k) : tickets'[a].at = tickets[a].at  BY <1>11
  <2>3. CASE k # j  BY <1>10, <2>1, <2>2, <2>3
  <2>4. CASE k = j
    <3>1. \A a \in ScheduledFor(j) : tickets'[a].at # tickets'[n].at
      <4>1. tickets'[n].at = at  BY <1>3, <1>7
      <4> QED  BY <1>12, <2>2, <2>4, <4>1
    <3>2. i \in ScheduledFor(j) \cup {n} /\ m \in ScheduledFor(j) \cup {n}  BY <1>10, <2>4
    <3>3. CASE i = n /\ m = n  BY <3>3
    <3>4. CASE i = n /\ m # n  BY <3>1, <3>2, <3>4
    <3>5. CASE i # n /\ m = n  BY <3>1, <3>2, <3>5
    <3>6. CASE i # n /\ m # n
      <4>1. i \in ScheduledFor(j) /\ m \in ScheduledFor(j)  BY <3>2, <3>6
      <4>2. tickets[i].at = tickets[m].at  BY <2>2, <2>4, <4>1
      <4> QED  BY <2>1, <2>4, <4>1, <4>2
    <3> QED  BY <3>3, <3>4, <3>5, <3>6
  <2> QED  BY <2>3, <2>4
<1>14. FiresAreKept'
  <2> SUFFICES ASSUME NEW k \in Jobs, job[k].exists, NEW i \in ScheduledFor(k)'
               PROVE  \E f \in fires' : f.job = k /\ f.at = tickets'[i].at
    BY DEF FiresAreKept, Claimed
  <2>1. CASE i \in ScheduledFor(k)
    <3>1. \E f \in fires : f.job = k /\ f.at = tickets[i].at  BY <2>1 DEF IInv, FiresAreKept, Claimed
    <3>2. tickets'[i] = tickets[i]  BY <1>11, <2>1
    <3> QED  BY <1>6, <3>1, <3>2
  <2>2. CASE i \notin ScheduledFor(k)  BY <1>3, <1>4, <1>6, <1>7, <1>10, <2>2
  <2> QED  BY <2>1, <2>2
<1>15. OnlyLatestActive'
  <2> SUFFICES ASSUME NEW k \in SkipJobs \ unlinked, job[k].exists, NEW i \in ScheduledFor(k)',
                      Active(i)', ~tickets'[i].again
               PROVE  i = Latest(k)'
    BY DEF OnlyLatestActive
  <2>1. k \in Jobs  BY CronJobsAssumption
  <2>2. Latest(k)' = (IF k = j THEN n ELSE job[k].last) /\ Latest(k) = job[k].last
    BY <1>5, <1>8 DEF Latest, Linking
  <2>3. i \in ScheduledFor(k) => i = job[k].last /\ Active(i) /\ i \in 1..Len(tickets)
    BY <1>2, <1>11, <2>1, <2>2 DEF IInv, OnlyLatestActive, Active, ScheduledFor
  <2>4. CASE k # j  BY <1>10, <2>1, <2>2, <2>3, <2>4
  <2>5. CASE k = j
    <3>1. i \notin ScheduledFor(j)
      BY <1>1, <2>3, <2>5 DEF OverlapBlocks, Blocking, Active
    <3> QED  BY <1>10, <2>1, <2>2, <2>5, <3>1
  <2> QED  BY <2>4, <2>5
<1>16. ReadIsCurrent'  BY <1>8 DEF IInv, ReadIsCurrent
<1>17. LinkIsReady'  BY <1>2, <1>4, <1>5, <1>6, <1>7, <1>8 DEF LinkIsReady, Claimed
<1>18. ManualIsMade'
  <2>1. manual # None => manual.ticket \in 1..MaxTickets  BY DEF IInv, TypeOK
  <2> QED  BY <1>2, <1>7, <2>1, CronJobsAssumption DEF IInv, ManualIsMade
<1> QED  BY <1>9, <1>13, <1>14, <1>15, <1>16, <1>17, <1>18 DEF IInv

LEMMA MaterializeStep ==
  ASSUME IInv, NEW j \in Jobs, Materialize(j)
  PROVE  IInv'
<1> DEFINE next == Coalesced(Row(j), pass.at)
           h == [job |-> j, at |-> Row(j).next, ticket |-> 0, skipped |-> TRUE]
<1>1. /\ pass # None /\ pass.link = None /\ j \in pass.todo
      /\ UNCHANGED <<now, manual, events, changed, stale, unlinked>>
  BY DEF Materialize
<1>2. pass \in Passes /\ Row(j).next \in Nat /\ next \in Nat
  BY <1>1, RowType, PassType DEF IInv
<1>3. CASE pass' = None /\ UNCHANGED <<job, fires, tickets>>
  <2>1. TypeOK'  BY <1>1, <1>3 DEF IInv, TypeOK
  <2>2. OneTicketPerFire' /\ FiresAreKept' /\ OnlyLatestActive'
    <3>1. \A k \in Jobs : Latest(k)' = Latest(k)  BY <1>1, <1>3 DEF Latest, Linking
    <3>2. \A k \in Jobs : \A at : Claimed(k, at) => Claimed(k, at)'  BY <1>3 DEF Claimed
    <3> QED  BY <1>1, <1>3, <3>1, <3>2, SameTickets, SameBoardKeeps DEF IInv
  <2>3. ReadIsCurrent' /\ LinkIsReady' /\ ManualIsMade'
    BY <1>1, <1>3 DEF IInv, ReadIsCurrent, LinkIsReady, ManualIsMade
  <2> QED  BY <2>1, <2>2, <2>3 DEF IInv
<1>4. CASE Advance(j, next) /\ pass' = Without([pass EXCEPT !.fresh = TRUE], j)
           /\ UNCHANGED <<fires, tickets>>
  <2> DEFINE p == [pass EXCEPT !.fresh = TRUE]
  <2>1. p \in Passes /\ p.todo = pass.todo /\ p.read = pass.read  BY <1>2 DEF Passes
  <2> HIDE DEF p
  <2>2. pass' = Without(p, j)  BY <1>4 DEF p
  <2> QED  BY <1>1, <1>2, <1>4, <2>1, <2>2, AdvanceStep
<1>5. CASE /\ ~Claimed(j, Row(j).next) /\ fires' = fires \cup {h}
           /\ Advance(j, next) /\ pass' = Without(pass, j) /\ UNCHANGED tickets
  <2>1. h \in Fires /\ h.ticket = 0 /\ h.job = j /\ h.at = Row(j).next
    BY <1>2, CronJobsAssumption DEF Fires
  <2> HIDE DEF h
  <2> QED  BY <1>1, <1>2, <1>5, <2>1, AdvanceStep
<1>6. CASE /\ job[j].exists /\ ~Claimed(j, Row(j).next) /\ ~OverlapBlocks(j, Row(j))
           /\ Len(tickets) < MaxTickets
           /\ tickets' = Append(tickets, [job |-> j, at |-> Row(j).next, made |-> pass.at,
                                          state |-> "queued", again |-> FALSE])
           /\ fires' = fires \cup {[job |-> j, at |-> Row(j).next, ticket |-> 0, skipped |-> FALSE]}
           /\ pass' = [pass EXCEPT !.link = [job |-> j, at |-> Row(j).next, ticket |-> Len(tickets) + 1,
                                             next |-> next]]
           /\ UNCHANGED job
  BY <1>1, <1>6, CreateStep
<1> QED  BY <1>3, <1>4, <1>5, <1>6 DEF Materialize

-----------------------------------------------------------------------------
(***************************************************************************)
(* The times of a schedule.                                                *)
(***************************************************************************)

LEMMA Division ==
  ASSUME NEW p \in Nat \ {0}, NEW t \in Nat
  PROVE  /\ t = p * (t \div p) + (t % p) /\ t \div p \in Nat
         /\ t % p \in Nat /\ t % p < p
<1>1. t = p * (t \div p) + (t % p) /\ t \div p \in Nat  OBVIOUS
<1>2. t % p \in Nat /\ t % p < p  OBVIOUS
<1> QED  BY <1>1, <1>2

LEMMA MultipleHasNoRest ==
  ASSUME NEW p \in Nat \ {0}, NEW m \in Nat
  PROVE  (p * m) % p = 0
<1> DEFINE x == p * m
<1>1. x \in Nat  OBVIOUS
<1> HIDE DEF x
<1>2. x = p * (x \div p) + (x % p) /\ x \div p \in Nat /\ x % p \in Nat /\ x % p < p
  BY <1>1, Division
<1>3. PICK k \in Int : k = m - (x \div p)  BY <1>2
<1>4. p * k = x % p  BY <1>2, <1>3 DEF x
<1>5. k >= 1 => p * k >= p  OBVIOUS
<1>6. k <= -1 => p * k <= -p  OBVIOUS
<1>7. k = 0  BY <1>2, <1>4, <1>5, <1>6
<1> QED  BY <1>4, <1>7 DEF x

\* The next fire of a schedule is one of the schedule, and after the time given.
LEMMA NextFireIsNext ==
  ASSUME NEW p \in Nat \ {0}, NEW t \in Nat
  PROVE  /\ NextFire(p, t) % p = 0
         /\ NextFire(p, t) > t /\ NextFire(p, t) \in Nat
<1>1. PICK q \in Nat : t = p * q + (t % p)  BY Division
<1>2. t % p \in Nat /\ t % p < p  BY Division
<1>3. (t + p) - (t % p) = p * (q + 1)  BY <1>1, <1>2
<1>4. NextFire(p, t) % p = 0  BY <1>3, MultipleHasNoRest DEF NextFire
<1>5. NextFire(p, t) > t /\ NextFire(p, t) \in Nat  BY <1>2 DEF NextFire
<1> QED  BY <1>4, <1>5

\* The tickets of the schedule of j are the same.
SameSchedule(j) ==
  /\ ScheduledFor(j)' = ScheduledFor(j)
  /\ \A i \in ScheduledFor(j) : tickets'[i].at = tickets[i].at /\ tickets'[i].made = tickets[i].made

\* The times of j's tickets, row and pass are numbers.
LEMMA TimesType ==
  ASSUME TypeOK, NEW j \in Jobs
  PROVE  /\ now \in Nat /\ job[j].next \in Nat /\ job[j].period \in Nat \ {0}
         /\ \A i \in ScheduledFor(j) : i \in Nat /\ tickets[i].at \in Int /\ tickets[i].made \in Nat
         /\ pass # None => pass.at \in Nat
<1>1. now \in Nat /\ job[j] \in JobRecords  BY CronJobsAssumption DEF TypeOK
<1>2. ASSUME NEW i \in ScheduledFor(j)
      PROVE  i \in Nat /\ tickets[i].at \in Int /\ tickets[i].made \in Nat
  <2>1. tickets \in Seq(TicketRecords) /\ i \in DOMAIN tickets  BY DEF TypeOK, ScheduledFor
  <2>2. i \in 1..Len(tickets) /\ tickets[i] \in TicketRecords  BY <2>1, ElementOfSeq
  <2> QED  BY <2>1, <2>2, LenProperties DEF TicketRecords
<1> QED  BY <1>1, <1>2, PassType, CronJobsAssumption DEF JobRecords

\* A step that leaves the schedule of a job and its tickets alone; the pass may end,
\* or go on with fewer jobs.
LEMMA KeptOnTime ==
  ASSUME TypeOK, NEW j \in Jobs, OnTime(j), SameSchedule(j), now' \in Nat, now <= now',
         job'[j].next = job[j].next, job'[j].period = job[j].period,
         job'[j].enabled => job[j].enabled,
         job'[j].exists => job[j].exists /\ \A at : Claimed(j, at) => Claimed(j, at)',
         pass' # None => /\ pass # None /\ pass'.at = pass.at /\ pass'.read = pass.read
                         /\ pass'.todo \subseteq pass.todo,
         Linking(j)' => Linking(j) /\ pass'.link = pass.link
  PROVE  OnTime(j)'
<1>1. TicketsInOrder(j)'
  <2> SUFFICES ASSUME NEW i \in ScheduledFor(j)
               PROVE  /\ tickets'[i].at <= tickets'[i].made /\ tickets'[i].made <= now'
                      /\ pass' # None => tickets'[i].made <= pass'.at
                      /\ \A k \in ScheduledFor(j) :
                           i < k => tickets'[i].at < tickets'[k].at /\ tickets'[i].made < tickets'[k].at
    BY DEF TicketsInOrder, SameSchedule
  <2>1. now \in Nat /\ tickets[i].made \in Nat  BY TimesType
  <2>2. tickets[i].at <= tickets[i].made /\ tickets[i].made <= now
        /\ (pass # None => tickets[i].made <= pass.at)
        /\ \A k \in ScheduledFor(j) :
             i < k => tickets[i].at < tickets[k].at /\ tickets[i].made < tickets[k].at
    BY DEF OnTime, TicketsInOrder
  <2>3. tickets[i].made <= now'  BY <2>1, <2>2
  <2> QED  BY <2>2, <2>3 DEF SameSchedule
<1>2. NextIsOpen(j)'
  <2> SUFFICES ASSUME job'[j].exists, NEW i \in ScheduledFor(j)
               PROVE  \/ tickets'[i].at < job'[j].next /\ tickets'[i].made < job'[j].next
                      \/ tickets'[i].at = job'[j].next /\ Claimed(j, job[j].next)'
    BY DEF NextIsOpen, SameSchedule, Claimed
  <2>1. \/ tickets[i].at < job[j].next /\ tickets[i].made < job[j].next
        \/ tickets[i].at = job[j].next /\ Claimed(j, job[j].next)
    BY DEF OnTime, NextIsOpen
  <2>2. Claimed(j, job[j].next) => \E f \in fires' : f.job = j /\ f.at = job[j].next
    BY DEF Claimed
  <2> QED  BY <2>1, <2>2 DEF SameSchedule, Claimed
<1>3. NextIsOfSchedule(j)'  BY DEF OnTime, NextIsOfSchedule
<1>4. ReadStands(j)'  BY DEF OnTime, ReadStands
<1>5. LinkStands(j)'  BY DEF OnTime, LinkStands, Linking
<1> QED  BY <1>1, <1>2, <1>3, <1>4, <1>5 DEF OnTime

\* The schedule of j moves on to its first fire after t, which is not before any of
\* its tickets was made; no pass has j in hand afterwards.
LEMMA MovedOnTime ==
  ASSUME TypeOK, NEW j \in Jobs, TicketsInOrder(j), SameSchedule(j), now' = now, NEW t \in Nat,
         \A i \in ScheduledFor(j) : tickets[i].made <= t,
         job'[j].period \in Nat \ {0}, job'[j].next = NextFire(job'[j].period, t),
         pass' # None => /\ pass # None /\ pass'.at = pass.at
                         /\ j \notin pass'.todo /\ ~Linking(j)'
  PROVE  OnTime(j)'
<1>1. job'[j].next \in Nat /\ job'[j].next > t /\ job'[j].next % job'[j].period = 0
  BY NextFireIsNext
<1>2. TicketsInOrder(j)'  BY DEF TicketsInOrder, SameSchedule
<1>3. NextIsOpen(j)'
  <2>1. ASSUME NEW i \in ScheduledFor(j)
        PROVE  tickets'[i].at < job'[j].next /\ tickets'[i].made < job'[j].next
    <3>1. tickets[i].at \in Int /\ tickets[i].made \in Nat  BY TimesType
    <3>2. tickets[i].at <= tickets[i].made /\ tickets[i].made <= t  BY DEF TicketsInOrder
    <3> QED  BY <1>1, <3>1, <3>2 DEF SameSchedule
  <2> QED  BY <2>1 DEF NextIsOpen, SameSchedule
<1>4. NextIsOfSchedule(j)' /\ ReadStands(j)' /\ LinkStands(j)'
  BY <1>1 DEF NextIsOfSchedule, ReadStands, LinkStands, Linking
<1> QED  BY <1>2, <1>3, <1>4 DEF OnTime

LEMMA SameTicketsOnTime == UNCHANGED tickets => \A j \in Jobs : SameSchedule(j)
BY DEF SameSchedule, ScheduledFor

\* Of a job whose schedule was not changed under a pass before the step.
LEMMA WasOnTime ==
  ASSUME TInv, stale \subseteq stale', NEW j \in Jobs \ stale'
  PROVE  OnTime(j)
BY DEF TInv

\* The clock, the board, the end of a pass, manual fires, and jobs that are disabled
\* or deleted.
LEMMA QuietTimes ==
  ASSUME IInv, TInv,
         \/ Minute \/ UNCHANGED vars \/ AbortPass \/ LinkManual
         \/ \E i \in DOMAIN tickets : MoveTicket(i)
         \/ \E j \in Jobs : FireNow(j) \/ Disable(j) \/ Delete(j)
  PROVE  TInv'
<1>1. now \in Nat /\ TypeOK /\ tickets \in Seq(TicketRecords)
  BY CronJobsAssumption DEF IInv, TypeOK
<1>2. /\ now' \in Nat /\ now <= now' /\ stale' = stale
      /\ pass' # None => pass' = pass
  <2>1. now' \in {now, now + 1} /\ stale' = stale /\ (pass' # None => pass' = pass)
    BY DEF Minute, vars, AbortPass, LinkManual, MoveTicket, FireNow, Disable, Delete
  <2> QED  BY <1>1, <2>1
<1>3. \A j \in Jobs : SameSchedule(j)
  <2>1. CASE UNCHANGED tickets  BY <2>1, SameTicketsOnTime
  <2>2. ASSUME NEW i \in DOMAIN tickets, MoveTicket(i)  PROVE \A j \in Jobs : SameSchedule(j)
    <3>1. /\ tickets' \in Seq(TicketRecords) /\ Len(tickets') = Len(tickets)
          /\ \A k \in DOMAIN tickets :
               /\ tickets'[k].job = tickets[k].job /\ tickets'[k].at = tickets[k].at
               /\ tickets'[k].made = tickets[k].made
      BY <1>1, <2>2, MoveKeeps
    <3>2. DOMAIN tickets' = DOMAIN tickets  BY <1>1, <3>1
    <3> QED  BY <3>1, <3>2 DEF SameSchedule, ScheduledFor
  <2>3. ASSUME NEW j \in Jobs, FireNow(j)  PROVE \A k \in Jobs : SameSchedule(k)
    <3> DEFINE n == Len(tickets) + 1
               e == [job |-> j, at |-> -1, made |-> now, state |-> "queued", again |-> FALSE]
    <3>1. e \in TicketRecords /\ tickets' = Append(tickets, e)  BY <1>1, <2>3 DEF FireNow, TicketRecords
    <3>2. e.at = -1  OBVIOUS
    <3> HIDE DEF e
    <3>3. /\ DOMAIN tickets' = DOMAIN tickets \cup {n} /\ tickets'[n] = e
          /\ \A k \in DOMAIN tickets : tickets'[k] = tickets[k]
      BY <1>1, <3>1, AppendKeeps
    <3>4. n \notin DOMAIN tickets  BY <1>1, LenProperties
    <3> QED  BY <3>2, <3>3, <3>4 DEF SameSchedule, ScheduledFor
  <2> QED
    BY <2>1, <2>2, <2>3 DEF Minute, vars, AbortPass, LinkManual, Disable, Delete
<1>4. ASSUME NEW j \in Jobs
      PROVE  /\ job'[j].next = job[j].next /\ job'[j].period = job[j].period
             /\ job'[j].enabled => job[j].enabled
             /\ job'[j].exists => job[j].exists /\ \A at : Claimed(j, at) => Claimed(j, at)'
  <2>1. job \in [Jobs -> JobRecords] /\ job[j] \in JobRecords  BY <1>1 DEF TypeOK
  <2>2. CASE UNCHANGED <<job, fires>>  BY <2>2 DEF Claimed
  <2>3. CASE LinkManual
    <3>1. /\ fires' = fires
          /\ job' = job \/ \E t \in 1..MaxTickets : job' = [job EXCEPT ![manual.job].last = t]
      BY <2>3, <1>1 DEF LinkManual, TypeOK
    <3>2. CASE job' = job  BY <3>1, <3>2 DEF Claimed
    <3>3. ASSUME NEW t \in 1..MaxTickets, job' = [job EXCEPT ![manual.job].last = t]
          PROVE  /\ job'[j].next = job[j].next /\ job'[j].period = job[j].period
                 /\ job'[j].enabled = job[j].enabled /\ job'[j].exists = job[j].exists
      <4>1. CASE j = manual.job
        <5>1. job'[j] = [job[j] EXCEPT !.last = t]  BY <2>1, <3>3, <4>1
        <5> QED  BY <2>1, <5>1 DEF JobRecords
      <4>2. CASE j # manual.job  BY <2>1, <3>3, <4>2
      <4> QED  BY <4>1, <4>2
    <3> QED  BY <3>1, <3>2, <3>3 DEF Claimed
  <2>4. ASSUME NEW k \in Jobs, Disable(k)
        PROVE  /\ job'[j].next = job[j].next /\ job'[j].period = job[j].period
               /\ job'[j].enabled => job[j].enabled
               /\ job'[j].exists => job[j].exists /\ \A at : Claimed(j, at) => Claimed(j, at)'
    <3>1. fires' = fires /\ job' = [job EXCEPT ![k].enabled = FALSE]  BY <2>4 DEF Disable
    <3> QED  BY <2>1, <2>4, <3>1 DEF Claimed, JobRecords
  <2>5. ASSUME NEW k \in Jobs, Delete(k)
        PROVE  /\ job'[j].next = job[j].next /\ job'[j].period = job[j].period
               /\ job'[j].enabled => job[j].enabled
               /\ job'[j].exists => job[j].exists /\ \A at : Claimed(j, at) => Claimed(j, at)'
    <3>1. /\ fires' = {f \in fires : f.job # k} /\ job' = [job EXCEPT ![k].exists = FALSE]
      BY <2>5 DEF Delete
    <3>2. CASE j = k  BY <2>1, <3>1, <3>2 DEF JobRecords
    <3>3. CASE j # k  BY <2>1, <3>1, <3>3 DEF Claimed
    <3> QED  BY <3>2, <3>3
  <2> QED
    BY <2>2, <2>3, <2>4, <2>5 DEF Minute, vars, AbortPass, MoveTicket, FireNow
<1>5. ASSUME NEW j \in Jobs \ stale'  PROVE OnTime(j)'
  <2>1. OnTime(j)  BY <1>2, WasOnTime
  <2>2. Linking(j)' => Linking(j) /\ pass'.link = pass.link  BY <1>2 DEF Linking
  <2> QED  BY <1>1, <1>2, <1>3, <1>4, <2>1, <2>2, KeptOnTime
<1>6. pass' # None => pass'.at <= now'
  <2>1. pass # None => pass.at \in Nat /\ pass.at <= now  BY <1>1, PassType DEF TInv
  <2> QED  BY <1>1, <1>2, <2>1
<1> QED  BY <1>5, <1>6 DEF TInv

\* A job gets another schedule, or is enabled anew, while no pass has it in hand.
LEMMA ChangedTimes ==
  ASSUME IInv, TInv, NEW c \in Jobs, (\E p \in Periods : ChangeSchedule(c, p)) \/ Enable(c)
  PROVE  TInv'
<1>1. TypeOK /\ now \in Nat /\ job[c] \in JobRecords /\ job \in [Jobs -> JobRecords]
  BY CronJobsAssumption DEF IInv, TypeOK
<1>2. UNCHANGED <<now, fires, tickets, pass>> /\ Changes(c)  BY DEF ChangeSchedule, Enable
<1>3. stale \subseteq stale' /\ (c \notin stale' => ~(pass # None /\ c \in pass.todo))
  BY <1>2 DEF Changes
<1>4. \A j \in Jobs : SameSchedule(j)  BY <1>2, SameTicketsOnTime
<1>5. ASSUME NEW j \in Jobs \ stale', j # c  PROVE OnTime(j)'
  <2>1. OnTime(j)  BY <1>3, WasOnTime
  <2>2. job'[j] = job[j]  BY <1>1, <1>5 DEF ChangeSchedule, Enable
  <2>3. \A at : Claimed(j, at) => Claimed(j, at)'  BY <1>2 DEF Claimed
  <2>4. Linking(j)' => Linking(j) /\ pass'.link = pass.link  BY <1>2 DEF Linking
  <2> QED  BY <1>1, <1>2, <1>4, <2>1, <2>2, <2>3, <2>4, KeptOnTime
<1>6. ASSUME c \notin stale'  PROVE OnTime(c)'
  <2>1. OnTime(c) /\ TicketsInOrder(c) /\ NextIsOpen(c)
    <3>1. OnTime(c)  BY <1>3, <1>6, WasOnTime
    <3> QED  BY <3>1 DEF OnTime
  <2>2. ~Linking(c) /\ ~Linking(c)'
    <3>1. ~Linking(c)  BY <1>3, <1>6 DEF IInv, LinkIsReady, Linking
    <3> QED  BY <1>2, <3>1 DEF Linking
  <2>3. /\ job'[c].period \in Nat \ {0} /\ (job'[c].exists => job[c].exists)
        /\ \/ job'[c].next = NextFire(job'[c].period, now)
           \/ ~job'[c].enabled /\ (job'[c].next = job[c].next)
    <3>1. ASSUME NEW p \in Periods, ChangeSchedule(c, p)
          PROVE  /\ job'[c].period = p /\ job'[c].next = NextOnChange(c, p)
                 /\ job'[c].enabled = job[c].enabled /\ job'[c].exists = job[c].exists
      BY <1>1, <3>1 DEF ChangeSchedule, JobRecords
    <3>2. ASSUME Enable(c)
          PROVE  /\ job'[c].period = job[c].period /\ job'[c].next = NextFire(job[c].period, now)
                 /\ job'[c].exists = job[c].exists
      BY <1>1, <3>2 DEF Enable, JobRecords
    <3>3. job[c].period \in Nat \ {0} /\ Periods \subseteq Nat \ {0} /\ job[c].enabled \in BOOLEAN
      BY <1>1, CronJobsAssumption DEF JobRecords
    <3> QED  BY <3>1, <3>2, <3>3 DEF NextOnChange
  <2>4. CASE job'[c].next = NextFire(job'[c].period, now)
    <3>1. \A i \in ScheduledFor(c) : tickets[i].made <= now  BY <2>1 DEF TicketsInOrder
    <3> QED  BY <1>1, <1>2, <1>3, <1>4, <1>6, <2>1, <2>2, <2>3, <2>4, <3>1, MovedOnTime
  <2>5. CASE ~job'[c].enabled /\ job'[c].next = job[c].next
    <3>1. TicketsInOrder(c)'  BY <1>2, <2>1 DEF TicketsInOrder, ScheduledFor
    <3>2. NextIsOpen(c)'  BY <1>2, <2>1, <2>3, <2>5 DEF NextIsOpen, ScheduledFor, Claimed
    <3>3. NextIsOfSchedule(c)' /\ ReadStands(c)' /\ LinkStands(c)'
      BY <1>2, <1>3, <1>6, <2>2, <2>5 DEF NextIsOfSchedule, ReadStands, LinkStands, Linking
    <3> QED  BY <3>1, <3>2, <3>3 DEF OnTime
  <2> QED  BY <2>3, <2>4, <2>5
<1>7. pass' # None => pass'.at <= now'  BY <1>2 DEF TInv
<1> QED  BY <1>5, <1>6, <1>7 DEF TInv

LEMMA ReadDueTimes ==
  ASSUME IInv, TInv, ReadDue
  PROVE  TInv'
<1>1. /\ UNCHANGED <<now, job, fires, tickets, stale>>
      /\ pass' = [at |-> now, todo |-> Due, read |-> job, fresh |-> FALSE, link |-> None]
  BY DEF ReadDue
<1>2. pass'.at = now /\ pass'.read = job /\ pass'.todo = Due /\ pass'.link = None  BY <1>1
<1>3. now \in Nat  BY CronJobsAssumption DEF IInv, TypeOK
<1>4. ASSUME NEW j \in Jobs \ stale'  PROVE OnTime(j)'
  <2>1. TicketsInOrder(j) /\ NextIsOpen(j) /\ NextIsOfSchedule(j)  BY <1>1, <1>4 DEF TInv, OnTime
  <2>2. TicketsInOrder(j)'  BY <1>1, <1>2, <2>1 DEF TicketsInOrder, ScheduledFor
  <2>3. NextIsOpen(j)' /\ NextIsOfSchedule(j)'
    BY <1>1, <2>1 DEF NextIsOpen, ScheduledFor, Claimed, NextIsOfSchedule
  <2>4. ReadStands(j)' /\ LinkStands(j)'
    BY <1>1, <1>2 DEF ReadStands, Due, LinkStands, Linking
  <2> QED  BY <2>2, <2>3, <2>4 DEF OnTime
<1>5. pass'.at <= now'  BY <1>1, <1>2, <1>3
<1> QED  BY <1>4, <1>5 DEF TInv

\* The pass is through with job c, whose schedule has moved on.
LEMMA AdvancedTimes ==
  ASSUME IInv, TInv, NEW c \in Jobs, pass # None, c \in pass.todo,
         UNCHANGED <<now, tickets, stale>>,
         \A j \in Jobs \ {c} : job'[j] = job[j],
         c \notin stale => /\ job'[c].period = job[c].period
                           /\ job'[c].next = NextFire(job[c].period, pass.at),
         \A j \in Jobs : \A at : Claimed(j, at) => Claimed(j, at)',
         pass' # None => /\ pass'.at = pass.at /\ pass'.read = pass.read /\ pass'.link = None
                         /\ pass'.todo = pass.todo \ {c}
  PROVE  TInv'
<1>1. TypeOK /\ now \in Nat /\ pass.at \in Nat /\ pass.at <= now
  BY CronJobsAssumption, PassType DEF IInv, TypeOK, TInv
<1>2. \A j \in Jobs : SameSchedule(j)  BY SameTicketsOnTime
<1>3. \A j \in Jobs : ~Linking(j)'  BY DEF Linking
<1>4. ASSUME NEW j \in Jobs \ stale', j # c  PROVE OnTime(j)'
  <2>1. OnTime(j)  BY WasOnTime
  <2>2. job'[j] = job[j]  BY <1>4
  <2> QED  BY <1>1, <1>2, <1>3, <2>1, <2>2, KeptOnTime
<1>5. ASSUME c \notin stale'  PROVE OnTime(c)'
  <2>1. TicketsInOrder(c)  BY <1>5 DEF TInv, OnTime
  <2>2. \A i \in ScheduledFor(c) : tickets[i].made <= pass.at  BY <2>1 DEF TicketsInOrder
  <2>3. job'[c].period \in Nat \ {0} /\ job'[c].next = NextFire(job'[c].period, pass.at)
    BY <1>1, <1>5, TimesType
  <2> QED  BY <1>1, <1>2, <1>3, <2>1, <2>2, <2>3, MovedOnTime
<1>6. pass' # None => pass'.at <= now'  BY <1>1
<1> QED  BY <1>4, <1>5, <1>6 DEF TInv

LEMMA LinkTicketTimes ==
  ASSUME IInv, TInv, LinkTicket
  PROVE  TInv'
<1> DEFINE l == pass.link
           f == [job |-> l.job, at |-> l.at, ticket |-> 0, skipped |-> FALSE]
           g == [job |-> l.job, at |-> l.at, ticket |-> l.ticket, skipped |-> FALSE]
           r == [job[l.job] EXCEPT !.last = l.ticket, !.next = l.next]
<1>1. /\ UNCHANGED <<now, tickets, stale>> /\ pass # None /\ l # None
      /\ \/ /\ fires' = (fires \ {f}) \cup {g}
            /\ job' = [job EXCEPT ![l.job] = r] /\ pass' = Without(pass, l.job)
         \/ pass' = None /\ UNCHANGED <<fires, job>>
  BY DEF LinkTicket
<1>2. l \in Links /\ l.job \in Jobs /\ pass \in Passes  BY <1>1, PassType DEF IInv, Links
<1>3. TypeOK /\ now \in Nat /\ l.job \in pass.todo
  BY <1>1, CronJobsAssumption DEF IInv, TypeOK, LinkIsReady
<1>4. CASE pass' = None /\ UNCHANGED <<fires, job>>
  <2>1. ASSUME NEW j \in Jobs \ stale'  PROVE OnTime(j)'
    <3>1. OnTime(j)  BY <1>1, WasOnTime
    <3>2. SameSchedule(j)  BY <1>1, SameTicketsOnTime
    <3>3. ~Linking(j)' /\ \A at : Claimed(j, at) => Claimed(j, at)'  BY <1>4 DEF Linking, Claimed
    <3> QED  BY <1>1, <1>3, <1>4, <3>1, <3>2, <3>3, KeptOnTime
  <2> QED  BY <1>4, <2>1 DEF TInv
<1>5. CASE /\ fires' = (fires \ {f}) \cup {g}
           /\ job' = [job EXCEPT ![l.job] = r] /\ pass' = Without(pass, l.job)
  <2>1. \A j \in Jobs : \A at : Claimed(j, at) => Claimed(j, at)'
    <3> SUFFICES ASSUME NEW j \in Jobs, NEW at, NEW h \in fires, h.job = j, h.at = at
                 PROVE  \E i \in fires' : i.job = j /\ i.at = at
      BY DEF Claimed
    <3>1. f.job = l.job /\ f.at = l.at /\ g.job = l.job /\ g.at = l.at  OBVIOUS
    <3> HIDE DEF f, g, l
    <3>2. CASE h = f  BY <1>5, <3>1, <3>2
    <3>3. CASE h # f  BY <1>5, <3>3
    <3> QED  BY <3>2, <3>3
  <2>2. pass' # None => /\ pass'.at = pass.at /\ pass'.read = pass.read /\ pass'.link = None
                        /\ pass'.todo = pass.todo \ {l.job}
    BY <1>2, <1>5, WithoutKeeps
  <2>3. job[l.job] \in JobRecords /\ job \in [Jobs -> JobRecords]  BY <1>2, <1>3 DEF TypeOK
  <2>4. r.period = job[l.job].period /\ r.next = l.next  BY <2>3 DEF JobRecords
  <2>5. l.job \notin stale => l.next = NextFire(job[l.job].period, pass.at)
    BY <1>1, <1>2 DEF TInv, OnTime, LinkStands, Linking
  <2> HIDE DEF r
  <2>6. job'[l.job] = r /\ \A j \in Jobs \ {l.job} : job'[j] = job[j]  BY <1>2, <1>5, <2>3
  <2> HIDE DEF l
  <2> QED  BY <1>1, <1>2, <1>3, <2>1, <2>2, <2>4, <2>5, <2>6, AdvancedTimes
<1> QED  BY <1>1, <1>4, <1>5

\* The row a fire is made from has the schedule of the job, unless that was changed
\* under the pass.
LEMMA RowTimes ==
  ASSUME TInv, pass # None, NEW c \in Jobs \ stale, c \in pass.todo
  PROVE  Row(c).next = job[c].next /\ Row(c).period = job[c].period
BY DEF TInv, OnTime, ReadStands, Row

\* A fire makes a ticket: it is due, and all tickets of the job were made before it.
LEMMA CreateTimes ==
  ASSUME IInv, TInv, NEW c \in Jobs, pass # None, pass.link = None, c \in pass.todo,
         job[c].exists, ~Claimed(c, Row(c).next),
         tickets' = Append(tickets, [job |-> c, at |-> Row(c).next, made |-> pass.at,
                                     state |-> "queued", again |-> FALSE]),
         fires' = fires \cup {[job |-> c, at |-> Row(c).next, ticket |-> 0, skipped |-> FALSE]},
         pass' = [pass EXCEPT !.link = [job |-> c, at |-> Row(c).next, ticket |-> Len(tickets) + 1,
                                        next |-> Coalesced(Row(c), pass.at)]],
         UNCHANGED <<now, job, stale>>
  PROVE  TInv'
<1> DEFINE n == Len(tickets) + 1
           e == [job |-> c, at |-> Row(c).next, made |-> pass.at, state |-> "queued", again |-> FALSE]
           f == [job |-> c, at |-> Row(c).next, ticket |-> 0, skipped |-> FALSE]
           l == [job |-> c, at |-> Row(c).next, ticket |-> n, next |-> Coalesced(Row(c), pass.at)]
<1>1. TypeOK /\ now \in Nat /\ pass \in Passes /\ pass.at \in Nat /\ pass.at <= now
  BY CronJobsAssumption, PassType DEF IInv, TypeOK, TInv
<1>2. Row(c).next \in Nat /\ tickets \in Seq(TicketRecords)  BY <1>1, RowType DEF TypeOK
<1>3. /\ e \in TicketRecords /\ e.job = c /\ e.at = Row(c).next /\ e.made = pass.at
      /\ f.job = c /\ f.at = Row(c).next
      /\ l.job = c /\ l.next = Coalesced(Row(c), pass.at)
  BY <1>1, <1>2 DEF TicketRecords
<1>4. /\ pass'.at = pass.at /\ pass'.todo = pass.todo /\ pass'.read = pass.read /\ pass'.link = l
  BY <1>1 DEF Passes
<1>5. tickets' = Append(tickets, e) /\ fires' = fires \cup {f}  OBVIOUS
<1> HIDE DEF e, f, l
<1>6. /\ DOMAIN tickets' = DOMAIN tickets \cup {n} /\ tickets'[n] = e
      /\ \A k \in DOMAIN tickets : tickets'[k] = tickets[k]
  BY <1>2, <1>3, <1>5, AppendKeeps
<1>7. n \in Nat /\ \A i \in DOMAIN tickets : i \in Nat /\ i < n  BY <1>2, LenProperties
<1> HIDE DEF n
<1>8. \A j \in Jobs : \A at : Claimed(j, at) => Claimed(j, at)'  BY <1>5 DEF Claimed
<1>9. ASSUME NEW j \in Jobs \ stale', j # c  PROVE OnTime(j)'
  <2>1. OnTime(j)  BY WasOnTime
  <2>2. n \notin DOMAIN tickets  BY <1>7
  <2>3. SameSchedule(j)  BY <1>3, <1>6, <1>9, <2>2 DEF SameSchedule, ScheduledFor
  <2>4. ~Linking(j)'  BY <1>3, <1>4, <1>9 DEF Linking
  <2> QED  BY <1>1, <1>4, <1>8, <2>1, <2>3, <2>4, KeptOnTime
<1>10. ASSUME c \notin stale'  PROVE OnTime(c)'
  <2>1. /\ OnTime(c) /\ TicketsInOrder(c) /\ NextIsOpen(c) /\ NextIsOfSchedule(c) /\ ReadStands(c)
    BY <1>10 DEF TInv, OnTime
  <2>2. Row(c).next = job[c].next /\ Row(c).period = job[c].period /\ job[c].next <= pass.at
    BY <1>10, <2>1, RowTimes DEF ReadStands
  <2>3. \A i \in ScheduledFor(c) : tickets[i].at < job[c].next /\ tickets[i].made < job[c].next
    BY <2>1, <2>2 DEF NextIsOpen
  <2>4. ScheduledFor(c)' = ScheduledFor(c) \cup {n}
    BY <1>2, <1>3, <1>6 DEF ScheduledFor
  <2>5. /\ \A i \in ScheduledFor(c) : i < n /\ i \in Nat /\ tickets'[i] = tickets[i]
        /\ tickets'[n].at = job[c].next /\ tickets'[n].made = pass.at
    BY <1>3, <1>6, <1>7, <2>2 DEF ScheduledFor
  <2>6. job[c].next \in Nat  BY <1>2, <2>2
  <2>7. TicketsInOrder(c)'
    <3>1. ASSUME NEW i \in ScheduledFor(c)
          PROVE  /\ tickets'[i].at <= tickets'[i].made /\ tickets'[i].made <= now'
                 /\ tickets'[i].made <= pass'.at
                 /\ \A k \in ScheduledFor(c) :
                      i < k => tickets'[i].at < tickets'[k].at /\ tickets'[i].made < tickets'[k].at
                 /\ tickets'[i].at < tickets'[n].at /\ tickets'[i].made < tickets'[n].at
      <4>1. /\ tickets[i].at <= tickets[i].made /\ tickets[i].made <= now
            /\ tickets[i].made <= pass.at
            /\ \A k \in ScheduledFor(c) :
                 i < k => tickets[i].at < tickets[k].at /\ tickets[i].made < tickets[k].at
        BY <2>1 DEF TicketsInOrder
      <4> QED  BY <1>4, <2>3, <2>5, <4>1
    <3>2. tickets'[n].at <= tickets'[n].made /\ tickets'[n].made <= now' /\ tickets'[n].made <= pass'.at
      <4>1. now' = now /\ pass.at <= pass.at  BY <1>1
      <4> QED  BY <1>1, <1>4, <2>2, <2>5, <4>1
    <3>3. ~(n < n) /\ \A k \in ScheduledFor(c) : ~(n < k)  BY <1>7, <2>5
    <3> QED  BY <2>4, <3>1, <3>2, <3>3 DEF TicketsInOrder
  <2>8. NextIsOpen(c)'
    <3>1. Claimed(c, job[c].next)'  BY <1>3, <1>5, <2>2 DEF Claimed
    <3> QED  BY <2>3, <2>4, <2>5, <3>1 DEF NextIsOpen
  <2>9. NextIsOfSchedule(c)' /\ ReadStands(c)'
    BY <1>4, <2>1 DEF NextIsOfSchedule, ReadStands
  <2>10. LinkStands(c)'
    BY <1>3, <1>4, <2>2 DEF LinkStands, Linking, Coalesced
  <2> QED  BY <2>7, <2>8, <2>9, <2>10 DEF OnTime
<1>11. pass' # None => pass'.at <= now'  BY <1>1, <1>4
<1> QED  BY <1>9, <1>10, <1>11 DEF TInv

LEMMA MaterializeTimes ==
  ASSUME IInv, TInv, NEW c \in Jobs, Materialize(c)
  PROVE  TInv'
<1> DEFINE next == Coalesced(Row(c), pass.at)
           h == [job |-> c, at |-> Row(c).next, ticket |-> 0, skipped |-> TRUE]
<1>1. /\ pass # None /\ pass.link = None /\ c \in pass.todo /\ UNCHANGED <<now, stale>>
  BY DEF Materialize
<1>2. pass \in Passes /\ TypeOK /\ now \in Nat  BY <1>1, PassType, CronJobsAssumption DEF IInv, TypeOK
<1>3. CASE pass' = None /\ UNCHANGED <<job, fires, tickets>>
  <2>1. ASSUME NEW j \in Jobs \ stale'  PROVE OnTime(j)'
    <3>1. OnTime(j)  BY <1>1, WasOnTime
    <3>2. SameSchedule(j)  BY <1>3, SameTicketsOnTime
    <3>3. ~Linking(j)' /\ \A at : Claimed(j, at) => Claimed(j, at)'  BY <1>3 DEF Linking, Claimed
    <3> QED  BY <1>1, <1>2, <1>3, <3>1, <3>2, <3>3, KeptOnTime
  <2> QED  BY <1>3, <2>1 DEF TInv
<1>4. ASSUME Advance(c, next), UNCHANGED tickets, fires \subseteq fires',
             NEW p \in Passes, p.todo = pass.todo, p.read = pass.read, p.at = pass.at,
             pass' = Without(p, c)
      PROVE  TInv'
  <2>1. job[c] \in JobRecords /\ job \in [Jobs -> JobRecords]  BY <1>2 DEF TypeOK
  <2>2. /\ \A j \in Jobs \ {c} : job'[j] = job[j]
        /\ job'[c].period = job[c].period /\ job'[c].next = next
    BY <1>4, <2>1 DEF Advance, JobRecords
  <2>3. c \notin stale => next = NextFire(job[c].period, pass.at)  BY <1>1, RowTimes DEF Coalesced
  <2>4. pass' # None => /\ pass'.at = pass.at /\ pass'.read = pass.read /\ pass'.link = None
                        /\ pass'.todo = pass.todo \ {c}
    BY <1>4, WithoutKeeps
  <2>5. \A j \in Jobs : \A at : Claimed(j, at) => Claimed(j, at)'  BY <1>4 DEF Claimed
  <2> HIDE DEF next
  <2> QED  BY <1>1, <1>4, <2>2, <2>3, <2>4, <2>5, AdvancedTimes
<1>5. CASE Advance(c, next) /\ pass' = Without([pass EXCEPT !.fresh = TRUE], c)
           /\ UNCHANGED <<fires, tickets>>
  <2> DEFINE p == [pass EXCEPT !.fresh = TRUE]
  <2>1. p \in Passes /\ p.todo = pass.todo /\ p.read = pass.read /\ p.at = pass.at
    BY <1>2 DEF Passes
  <2> HIDE DEF p
  <2>2. pass' = Without(p, c)  BY <1>5 DEF p
  <2> QED  BY <1>4, <1>5, <2>1, <2>2
<1>6. CASE fires' = fires \cup {h} /\ Advance(c, next) /\ pass' = Without(pass, c) /\ UNCHANGED tickets
  BY <1>2, <1>4, <1>6
<1>7. CASE /\ job[c].exists /\ ~Claimed(c, Row(c).next)
           /\ tickets' = Append(tickets, [job |-> c, at |-> Row(c).next, made |-> pass.at,
                                          state |-> "queued", again |-> FALSE])
           /\ fires' = fires \cup {[job |-> c, at |-> Row(c).next, ticket |-> 0, skipped |-> FALSE]}
           /\ pass' = [pass EXCEPT !.link = [job |-> c, at |-> Row(c).next, ticket |-> Len(tickets) + 1,
                                             next |-> next]]
           /\ UNCHANGED job
  BY <1>1, <1>7, CreateTimes
<1> QED  BY <1>3, <1>5, <1>6, <1>7 DEF Materialize

LEMMA InitTimes == Init => TInv
<1> SUFFICES ASSUME Init, NEW j \in Jobs  PROVE OnTime(j)  BY DEF Init, TInv
<1>1. pass = None /\ ScheduledFor(j) = {}  BY DEF Init, ScheduledFor
<1>2. PICK p \in Periods : job[j] = [exists |-> TRUE, enabled |-> TRUE, period |-> p,
                                     next |-> NextFire(p, 0), last |-> 0]
  BY DEF Init
<1>3. NextIsOfSchedule(j)  BY <1>2, NextFireIsNext, CronJobsAssumption DEF NextIsOfSchedule
<1> QED
  BY <1>1, <1>3 DEF OnTime, TicketsInOrder, NextIsOpen, ReadStands, LinkStands, Linking

LEMMA TInvStep == IInv /\ TInv /\ [Next]_vars => TInv'
<1> SUFFICES ASSUME IInv, TInv, [Next]_vars  PROVE TInv'  OBVIOUS
<1>1. CASE \/ Minute \/ UNCHANGED vars \/ AbortPass \/ LinkManual
           \/ \E i \in DOMAIN tickets : MoveTicket(i)
           \/ \E j \in Jobs : FireNow(j) \/ Disable(j) \/ Delete(j)
  BY <1>1, QuietTimes
<1>2. CASE ReadDue  BY <1>2, ReadDueTimes
<1>3. CASE LinkTicket  BY <1>3, LinkTicketTimes
<1>4. ASSUME NEW j \in Jobs, Materialize(j)  PROVE TInv'  BY <1>4, MaterializeTimes
<1>5. ASSUME NEW j \in Jobs, (\E p \in Periods : ChangeSchedule(j, p)) \/ Enable(j)  PROVE TInv'
  BY <1>5, ChangedTimes
<1> QED  BY <1>1, <1>2, <1>3, <1>4, <1>5 DEF Next

-----------------------------------------------------------------------------
(***************************************************************************)
(* The theorems.                                                           *)
(***************************************************************************)

LEMMA IInvStep == IInv /\ [Next]_vars => IInv'
<1> SUFFICES ASSUME IInv, [Next]_vars PROVE IInv'  OBVIOUS
<1>1. CASE Minute \/ UNCHANGED vars  BY <1>1, MinuteStep
<1>2. ASSUME NEW i \in DOMAIN tickets, MoveTicket(i) PROVE IInv'  BY <1>2, MoveTicketStep
<1>3. CASE ReadDue  BY <1>3, ReadDueStep
<1>4. CASE LinkTicket  BY <1>4, LinkTicketStep
<1>5. CASE AbortPass  BY <1>5, AbortPassStep
<1>6. CASE LinkManual  BY <1>6, LinkManualStep
<1>7. ASSUME NEW j \in Jobs, Materialize(j) PROVE IInv'  BY <1>7, MaterializeStep
<1>8. ASSUME NEW j \in Jobs,
             (\E p \in Periods : ChangeSchedule(j, p)) \/ Enable(j) \/ Disable(j) \/ Delete(j)
      PROVE  IInv'
  BY <1>8, ChangeStep
<1>9. ASSUME NEW j \in Jobs, FireNow(j) PROVE IInv'  BY <1>9, FireNowStep
<1> QED  BY <1>1, <1>2, <1>3, <1>4, <1>5, <1>6, <1>7, <1>8, <1>9 DEF Next

\* Every reachable state satisfies the inductive invariant: the fires of a job know
\* its tickets, and of those only the latest can be on the way.
THEOREM Invariance == Spec => []IInv
BY InitIInv, IInvStep, PTL DEF Spec

\* Type correctness: no pass is left with a row of no job, a fire is recorded once,
\* and what a fire or a job names as its ticket exists.
THEOREM TypeCorrect == Spec => []TypeOK
<1>1. IInv => TypeOK  BY DEF IInv
<1> QED  BY <1>1, Invariance, PTL

\* A scheduled fire makes at most one ticket, for every number of jobs, periods,
\* tickets, crashes and requests between the two commits of the daemon
\* (materialize_due_cron_jobs, domain/cron_jobs.py).
THEOREM FiresOnce == Spec => []OneTicketPerFire
<1>1. IInv => OneTicketPerFire  BY DEF IInv
<1> QED  BY <1>1, Invariance, PTL

\* A job that skips while a ticket is active never has two of its schedule on the
\* way, as long as its links are made and nobody requeues a reviewed ticket
\* (_overlap_blocks, domain/cron_jobs.py).
THEOREM SkipsWhileActive == Spec => []NoOverlap
<1>1. IInv => NoOverlap  BY DEF IInv, OnlyLatestActive, NoOverlap
<1> QED  BY <1>1, Invariance, PTL

\* A job fires on its schedule, missed fires are made up by one ticket, and a ticket
\* comes after all before it, unless the schedule was changed under a pass
\* (materialize_due_cron_jobs, compute_next_fire, domain/cron_jobs.py).
THEOREM FiresInTime == Spec => []FiresOnSchedule
<1>1. Init => IInv /\ TInv  BY InitIInv, InitTimes
<1>2. IInv /\ TInv /\ [Next]_vars => IInv' /\ TInv'  BY IInvStep, TInvStep
<1>3. IInv /\ TInv => FiresOnSchedule
  BY DEF TInv, OnTime, NextIsOfSchedule, TicketsInOrder, FiresOnSchedule
<1> QED  BY <1>1, <1>2, <1>3, PTL DEF Spec
=============================================================================
