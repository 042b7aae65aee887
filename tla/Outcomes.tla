------------------------------- MODULE Outcomes -------------------------------
(***************************************************************************)
(* Who has seen what: the transition log of the tickets and their          *)
(* acknowledgement.                                                        *)
(*                                                                         *)
(*   - every change of a ticket's status appends an event that names its   *)
(*     actor, and drops or sets the acknowledgement (domain/events.py);    *)
(*   - a human reads the digest of archived tickets that nobody has        *)
(*     acknowledged, and acknowledges one ticket, those of the digest, or  *)
(*     all of a project that ended before the digest was made              *)
(*     (domain/ack.py);                                                    *)
(*   - the worker moves tickets on rows it read before, and stamps the     *)
(*     event before it commits it; agents move tickets through the API.    *)
(*                                                                         *)
(* API requests run one at a time.  All tickets are in one project.        *)
(***************************************************************************)
EXTENDS Naturals, Sequences, SequencesExt

CONSTANTS Tickets, None,
          MaxMoves     \* bound: transitions

OutcomesAssumption == None \notin Tickets /\ MaxMoves \in Nat

VARIABLES
  status,    \* status[t]
  acked,     \* the tickets with acknowledged_at
  log,       \* log[t]: ticket_events by created_at, as [at, to]
  work,      \* a transition of the worker: its row as read, its stamp; or None
  digest,    \* the digest the human is reading: [at, shown], or None
  moves,     \* transitions so far; the clock of the events
  outcome,   \* outcome[t]: how often t came out of running
  seen,      \* seen[t]: the outcome of t a human has dealt with
  slipped    \* tickets a human acknowledged unseen, see AckProject, or whose
             \* event or acknowledgement a race of the worker falsified

vars == <<status, acked, log, work, digest, moves, outcome, seen, slipped>>

-----------------------------------------------------------------------------
Statuses == {"draft", "queued", "running", "review", "archived"}
ValidTransitions(s) ==
  CASE s = "draft"    -> {"queued", "archived"}
    [] s = "queued"   -> {"draft", "archived"}
    [] s = "running"  -> {"review"}
    [] s = "review"   -> {"queued", "archived"}
    [] s = "archived" -> {"queued"}

ActiveStates == {"draft", "queued", "running"}
Acknowledgeable == {"review", "archived"}
DigestStatuses == {"archived"}

Events == [at : Nat, to : Statuses]
Works == [ticket : Tickets, from : Statuses, to : Statuses, acked : BOOLEAN,
          known : Nat, at : Nat]

TypeOK ==
  /\ status \in [Tickets -> Statuses]
  /\ acked \subseteq Tickets /\ slipped \subseteq Tickets
  /\ \A t \in Tickets : log[t] \in Seq(Events)
  /\ work \in Works \cup {None}
  /\ digest \in [at : Nat, shown : SUBSET Tickets] \cup {None}
  /\ moves \in 0..MaxMoves
  /\ outcome \in [Tickets -> Nat] /\ seen \in [Tickets -> Nat]

Init ==
  /\ status = [t \in Tickets |-> "queued"]
  /\ acked = {}
  /\ log = [t \in Tickets |-> <<>>]
  /\ work = None /\ digest = None
  /\ moves = 0
  /\ outcome = [t \in Tickets |-> 0] /\ seen = [t \in Tickets |-> 0]
  /\ slipped = {}

-----------------------------------------------------------------------------
(* Transitions.                                                            *)

\* record_transition_event: what becomes of the acknowledgement was, given the
\* status that is entered and the actor.
AckUnlessQueued(was, to, by) ==   \* wrong: going back to the queue keeps it
  IF to \in ActiveStates \ {"queued"} THEN FALSE ELSE was \/ by = "admin"
AckAfter(was, to, by) ==
  IF to \in ActiveStates THEN FALSE ELSE was \/ by = "admin"

WithAck(t, a) == IF a THEN acked \cup {t} ELSE acked \ {t}

\* Events are read by created_at.
Logged(t, e) ==
  LET earlier == SelectSeq(log[t], LAMBDA f : f.at < e.at)
      later == SelectSeq(log[t], LAMBDA f : f.at > e.at)
  IN [log EXCEPT ![t] = earlier \o <<e>> \o later]

Counted(t, from, to) ==
  outcome' = IF from = "running" /\ to = "review" THEN [outcome EXCEPT ![t] = @ + 1] ELSE outcome

\* A request to transition, archive, requeue, cancel, ...: by the human, or by
\* an agent with a token or run token whose scopes allow it.
Transition(t, to, by) ==
  /\ moves < MaxMoves /\ moves' = moves + 1
  /\ to \in ValidTransitions(status[t])
  /\ status' = [status EXCEPT ![t] = to]
  /\ log' = Logged(t, [at |-> moves', to |-> to])
  /\ acked' = WithAck(t, AckAfter(t \in acked, to, by))
  /\ Counted(t, status[t], to)
  /\ seen' = IF by = "admin" THEN [seen EXCEPT ![t] = outcome'[t]] ELSE seen
  /\ UNCHANGED <<work, digest, slipped>>

\* The worker's own: the dispatch, the landing, the two sweeps and the
\* auto-continue, each on the row it read.
WorkerReads(t) ==
  /\ work = None
  /\ \E m \in {<<"queued", "running">>, <<"running", "review">>, <<"running", "queued">>, <<"review", "queued">>} :
       /\ status[t] = m[1]
       /\ work' = [ticket |-> t, from |-> m[1], to |-> m[2], acked |-> t \in acked,
                     known |-> Len(log[t]), at |-> 0]
  /\ UNCHANGED <<status, acked, log, digest, moves, outcome, seen, slipped>>

WorkerStamps ==
  /\ work # None /\ work.at = 0
  /\ moves < MaxMoves /\ moves' = moves + 1
  /\ work' = [work EXCEPT !.at = moves']
  /\ UNCHANGED <<status, acked, log, digest, outcome, seen, slipped>>

\* Columns are written where they differ from what was read.
WorkerCommits ==
  /\ work # None /\ work.at # 0
  /\ LET t == work.ticket
         new == AckAfter(work.acked, work.to, "agent")
     IN /\ status' = [status EXCEPT ![t] = work.to]
        /\ log' = Logged(t, [at |-> work.at, to |-> work.to])
        /\ acked' = IF new = work.acked THEN acked ELSE WithAck(t, new)
        /\ Counted(t, work.from, work.to)
        /\ slipped' = IF Len(log[t]) # work.known \/ (t \in acked) # work.acked
                          \/ (digest # None /\ digest.at >= work.at)
                      THEN slipped \cup {t} ELSE slipped
  /\ work' = None
  /\ UNCHANGED <<digest, moves, seen>>

\* The worker dies, or its transaction fails.
WorkerFails ==
  /\ work # None /\ work' = None
  /\ UNCHANGED <<status, acked, log, digest, moves, outcome, seen, slipped>>

-----------------------------------------------------------------------------
(* Acknowledgement.                                                        *)

\* The latest event whose to_status is the ticket's current one.
Entering(t) == SelectLastInSeq(log[t], LAMBDA e : e.to = status[t])
EnteredAt(t) == IF Entering(t) = 0 THEN 0 ELSE log[t][Entering(t)].at

Unacknowledged(statuses) == {t \in Tickets : status[t] \in statuses /\ t \notin acked}

\* ack_digest; generated_at is taken when it is done.
ReadDigest ==
  /\ digest' = [at |-> moves, shown |-> Unacknowledged(DigestStatuses)]
  /\ UNCHANGED <<status, acked, log, work, moves, outcome, seen, slipped>>

Sees(S) == seen' = [t \in Tickets |-> IF t \in S THEN outcome[t] ELSE seen[t]]

\* acknowledge_ticket: the human has the ticket open.
Acknowledge(t) ==
  /\ status[t] \in Acknowledgeable
  /\ acked' = acked \cup {t}
  /\ Sees({t})
  /\ UNCHANGED <<status, log, work, digest, moves, outcome, slipped>>

\* bulk_acknowledge by ids: those the digest shows.  No watermark is sent with
\* them: what was queued and archived again meanwhile is acknowledged too.
AckSelected ==
  /\ digest # None
  /\ LET S == digest.shown \cap Unacknowledged(Acknowledgeable)
     IN /\ acked' = acked \cup S
        /\ slipped' = slipped \cup {t \in S : EnteredAt(t) > digest.at}
        /\ Sees({t \in S : EnteredAt(t) <= digest.at})
  /\ digest' = None
  /\ UNCHANGED <<status, log, work, moves, outcome>>

\* bulk_acknowledge by project, with the digest's watermark as before: tickets
\* in review, which no digest shows, are among them.
BeforeAny(t, before) == TRUE   \* wrong: what ended while the human was reading
Before(t, before) == EnteredAt(t) <= before
AckProject ==
  /\ digest # None
  /\ LET S == {t \in Unacknowledged(Acknowledgeable) : Before(t, digest.at)}
     IN /\ acked' = acked \cup S
        /\ slipped' = slipped \cup {t \in S : status[t] \notin DigestStatuses}
        /\ Sees(S \cap digest.shown)
  /\ digest' = None
  /\ UNCHANGED <<status, log, work, moves, outcome>>

-----------------------------------------------------------------------------
Next ==
  \/ \E t \in Tickets :
       \/ \E to \in Statuses, by \in {"admin", "agent"} : Transition(t, to, by)
       \/ WorkerReads(t) \/ Acknowledge(t)
  \/ WorkerStamps \/ WorkerCommits \/ WorkerFails
  \/ ReadDigest \/ AckSelected \/ AckProject

Spec == Init /\ [][Next]_vars

-----------------------------------------------------------------------------
(* Correctness.                                                            *)

\* What left the digest was seen: an acknowledged ticket at rest is one whose
\* last outcome a human acted on, opened, or had in the digest; agents never
\* mark their own work seen.  The exceptions are the tickets in review that
\* "ack all" takes along, selected ones that ended anew, and races of the
\* worker with the human.
AckedWasSeen ==
  \A t \in acked \ slipped : status[t] \in Acknowledgeable /\ seen[t] = outcome[t]

\* The log tells the status: no ticket is where its last event did not put it,
\* unless the worker wrote over a move it had not seen.
LogTellsStatus ==
  \A t \in Tickets \ slipped : log[t] # <<>> => log[t][Len(log[t])].to = status[t]
=============================================================================
