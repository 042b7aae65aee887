----------------------------- MODULE TicketQueue -----------------------------
(***************************************************************************)
(* The order of work: columns and positions on the board, dependencies     *)
(* between tickets, and what a tick of the scheduler takes off the queue.  *)
(*                                                                         *)
(* A request is one transaction: the routes do not await and a move writes *)
(* every row it renumbers in one commit.  A tick reads the queue once and  *)
(* then dispatches its picks one by one; the rows of its picks are not     *)
(* read again, so a position is only written where it differs from the one *)
(* that was read.                                                          *)
(*                                                                         *)
(* Left to TicketRuns: who else changes the status, and what happens to a  *)
(* running ticket.  The inbox stands with the drafts.                      *)
(***************************************************************************)
EXTENDS Integers, FiniteSets, Sequences, SequencesExt

CONSTANTS Tickets, None,
          Rank,      \* the tie-breaker (priority, then created_at), as a number
          Windows,   \* schedule windows by position: [days, start, end, cap]
          Times,     \* the local times at which the scheduler looks: [day, time]
          MaxRequests  \* bound: requests

TicketQueueAssumption ==
  /\ None \notin Tickets
  /\ Rank \in [Tickets -> Nat]
  /\ \A t, u \in Tickets : Rank[t] = Rank[u] => t = u
  /\ \A i \in DOMAIN Windows : Windows[i].cap \in Nat
  /\ MaxRequests \in Nat

VARIABLES
  col,      \* status
  pos,      \* position
  forced,   \* the tickets with run_now
  deps,     \* <<t, u>>: t waits for u
  ok,       \* tickets whose active conversation's latest turn succeeded
  tick,     \* the tick under way: [picks, read], or None
  requests, \* requests so far
  asked     \* what the last request was promised: [ticket, at, saved], else None

vars == <<col, pos, forced, deps, ok, tick, requests, asked>>

Columns == {"draft", "queued", "running", "review", "archived"}

\* _VALID_TRANSITIONS.
ValidTransitions == [c \in Columns |->
  CASE c = "draft"    -> {"queued", "running", "archived"}
    [] c = "queued"   -> {"draft", "running", "archived"}
    [] c = "running"  -> {"review"}
    [] c = "review"   -> {"queued", "archived"}
    [] c = "archived" -> {"queued", "draft"}]

Ahead(t, u) == pos[t] < pos[u] \/ (pos[t] = pos[u] /\ Rank[t] < Rank[u])
ColumnByRank(c) ==   \* wrong: the positions are not looked at
  SetToSortSeq({t \in Tickets : col[t] = c}, LAMBDA t, u : Rank[t] < Rank[u])
Column(c) == SetToSortSeq({t \in Tickets : col[t] = c}, Ahead)
IndexIn(s, t) == CHOOSE i \in DOMAIN s : s[i] = t

Init ==
  /\ col = [t \in Tickets |-> "draft"]
  /\ pos = [t \in Tickets |-> Cardinality({u \in Tickets : Rank[u] < Rank[t]})]
  /\ forced = {} /\ deps = {} /\ ok = {} /\ tick = None /\ asked = None /\ requests = 0

Asks == requests < MaxRequests /\ requests' = requests + 1

-----------------------------------------------------------------------------
(* Moves on the board.                                                     *)

\* Where the row of t goes when it is number i of its column: a row that was
\* loaded before keeps its position when it was i at the time.
Renumbered(s, read) ==
  [t \in Range(s) |-> LET i == IndexIn(s, t) - 1
                      IN IF t \in DOMAIN read /\ read[t] = i THEN pos[t] ELSE i]

Clipped(p, n) == IF p \in 0..n THEN p ELSE n

\* _reorder_inserting, out of column `from`.
Inserted(t, from, to, p, read) ==
  LET dest == SelectSeq(Column(to), LAMBDA u : u # t)
      at   == Clipped(p, Len(dest))
      new  == SubSeq(dest, 1, at) \o <<t>> \o SubSeq(dest, at + 1, Len(dest))
      left == SelectSeq(Column(from), LAMBDA u : u # t)
      ofNew == Renumbered(new, read)
      ofOld == Renumbered(left, read)
  IN [u \in Tickets |-> IF u \in Range(new) THEN ofNew[u]
                        ELSE IF u \in Range(left) THEN ofOld[u] ELSE pos[u]]

NothingRead == [t \in {} |-> 0]

\* transition_with_position, -1 for the bottom of the column.
Move(t, to, p) ==
  /\ Asks
  /\ to \in ValidTransitions[col[t]]
  /\ col' = [col EXCEPT ![t] = to]
  /\ pos' = Inserted(t, col[t], to, p, NothingRead)
  /\ asked' = [ticket |-> t, at |-> Clipped(p, Len(Column(to))), saved |-> TRUE]
  /\ UNCHANGED <<forced, deps, ok, tick>>

\* The same column: the rows are renumbered in the session and the response
\* says so, but nothing is committed.
MoveWithin(t, p) ==
  /\ Asks
  /\ asked' = [ticket |-> t, at |-> Clipped(p, Len(Column(col[t])) - 1), saved |-> FALSE]
  /\ UNCHANGED <<col, pos, forced, deps, ok, tick>>

\* reorder_in_column with one ticket listed: it goes first.
Reorder(t) ==
  /\ Asks
  /\ LET s == <<t>> \o SelectSeq(Column(col[t]), LAMBDA u : u # t)
     IN pos' = [u \in Tickets |-> IF col[u] = col[t] THEN IndexIn(s, u) - 1 ELSE pos[u]]
  /\ asked' = [ticket |-> t, at |-> 0, saved |-> TRUE]
  /\ UNCHANGED <<col, forced, deps, ok, tick>>

\* set_run_now on a queued ticket.
Force(t) ==
  /\ Asks
  /\ col[t] = "queued" /\ t \notin forced
  /\ forced' = forced \cup {t}
  /\ asked' = None
  /\ UNCHANGED <<col, pos, deps, ok, tick>>

Picked == IF tick = None THEN {} ELSE Range(tick.picks)

\* The run ends.
FinishRun(t, success) ==
  /\ col[t] = "running" /\ t \notin Picked
  /\ col' = [col EXCEPT ![t] = "review"]
  /\ pos' = Inserted(t, "running", "review", -1, NothingRead)
  /\ ok' = IF success THEN ok \cup {t} ELSE ok \ {t}
  /\ forced' = forced \ {t}
  /\ asked' = None
  /\ UNCHANGED <<deps, tick, requests>>

-----------------------------------------------------------------------------
(* Dependencies.                                                           *)

Upstream(S) == {u \in Tickets : \E t \in S : <<t, u>> \in deps}

\* What the walk of _would_cycle has visited after n rounds.
Visited(start) ==
  LET walk[n \in 0..Cardinality(Tickets)] ==
        IF n = 0 THEN {start} ELSE walk[n - 1] \cup Upstream(walk[n - 1])
  IN walk[Cardinality(Tickets)]

WouldCycleDirectly(start, target) == <<start, target>> \in deps   \* wrong: looks one edge far
WouldCycle(start, target) == target \in Visited(start)

AddDependency(t, u) ==
  /\ Asks
  /\ t # u /\ <<t, u>> \notin deps
  /\ ~WouldCycle(u, t)
  /\ deps' = deps \cup {<<t, u>>}
  /\ asked' = None
  /\ UNCHANGED <<col, pos, forced, ok, tick>>

RemoveDependency(t, u) ==
  /\ Asks
  /\ <<t, u>> \in deps
  /\ deps' = deps \ {<<t, u>>}
  /\ asked' = None
  /\ UNCHANGED <<col, pos, forced, ok, tick>>

\* check_dependencies_satisfied.
Satisfied(t) == \A u \in Upstream({t}) : col[u] \in {"review", "archived"} /\ u \in ok

-----------------------------------------------------------------------------
(* The tick: pick_eligible, and the move of its picks to running.          *)

InWindow(w, time) ==
  \/ w.start = w.end
  \/ w.start < w.end /\ w.start <= time /\ time <= w.end
  \/ w.start > w.end /\ (time >= w.start \/ time <= w.end)

\* Both the day and the time are local: behind midnight an overnight window
\* needs the bit of the new day.
Matching(now) == {i \in DOMAIN Windows : now.day \in Windows[i].days /\ InWindow(Windows[i], now.time)}

\* The first matching window decides, 0 when none matches.
CapacityFor(now) ==
  IF Matching(now) = {} THEN 0
  ELSE Windows[CHOOSE i \in Matching(now) : \A j \in Matching(now) : i <= j].cap

UpTo(n, s) == SubSeq(s, 1, IF n < Len(s) THEN n ELSE Len(s))

\* late: the tickets whose scheduled_after has not come.
Picks(now, late) ==
  LET eligible == SelectSeq(Column("queued"), LAMBDA t : t \notin late /\ Satisfied(t))
      running == Cardinality({t \in Tickets : col[t] = "running"})
      free == CapacityFor(now) - running
  IN SelectSeq(eligible, LAMBDA t : t \in forced)
     \o UpTo(IF free > 0 THEN free ELSE 0, SelectSeq(eligible, LAMBDA t : t \notin forced))

ReadQueue(now, late) ==
  /\ tick = None
  /\ Picks(now, late) # <<>>
  /\ LET picks == Picks(now, late)
     IN tick' = [picks |-> picks, read |-> [t \in Range(picks) |-> pos[t]]]
  /\ asked' = None
  /\ UNCHANGED <<col, pos, forced, deps, ok, requests>>

\* The status of a pick is the one that was read, whatever it is by now.
DispatchNext ==
  /\ tick # None
  /\ LET t == Head(tick.picks)
         rest == Tail(tick.picks)
         new == Inserted(t, "queued", "running", -1, tick.read)
         left == SelectSeq(Column("queued"), LAMBDA u : u # t)
     IN /\ col' = [col EXCEPT ![t] = "running"]
        /\ pos' = new
        /\ tick' = IF rest = <<>> THEN None
                   ELSE [picks |-> rest,
                         read |-> [u \in Range(rest) |->
                                     IF u \in Range(left) THEN IndexIn(left, u) - 1
                                     ELSE tick.read[u]]]
  /\ asked' = None
  /\ UNCHANGED <<forced, deps, ok, requests>>

-----------------------------------------------------------------------------
Next ==
  \/ \E t \in Tickets :
       \/ \E p \in -1..(Cardinality(Tickets) - 1) :
            \/ \E to \in Columns : Move(t, to, p)
            \/ p # -1 /\ MoveWithin(t, p)
       \/ Reorder(t) \/ Force(t)
       \/ \E success \in BOOLEAN : FinishRun(t, success)
       \/ \E u \in Tickets : AddDependency(t, u) \/ RemoveDependency(t, u)
  \/ \E now \in Times, late \in SUBSET Tickets : ReadQueue(now, late)
  \/ DispatchNext

Spec == Init /\ [][Next]_vars

-----------------------------------------------------------------------------
(* Correctness.                                                            *)

TypeOK ==
  /\ col \in [Tickets -> Columns]
  /\ pos \in [Tickets -> Nat]
  /\ forced \subseteq Tickets /\ ok \subseteq Tickets
  /\ deps \subseteq Tickets \X Tickets
  /\ asked \in [ticket : Tickets, at : Nat, saved : BOOLEAN] \cup {None}

\* No ticket waits for itself through any chain of dependencies: such tickets
\* would never run.
Acyclic ==
  \A S \in SUBSET Tickets : S # {} =>
     \E t \in S : \A u \in S : <<t, u>> \notin deps

\* Tickets a step does not move keep their order in the column, however the
\* others around them are inserted and removed.  (Picks of a tick may tie.)
Requested == IF asked' # None THEN {asked'.ticket} ELSE {}
KeepsOrder ==
  \A t, u \in Tickets \ (Picked \cup Requested) :
    col[t] = col[u] /\ col'[t] = col[t] /\ col'[u] = col[u] /\ Ahead(t, u) => Ahead(t, u)'
OrderKept == [][KeepsOrder]_vars

\* A move the server accepted is what everybody sees next.  (A move within the
\* column is not: see MoveWithin.)
MovesTakeEffect ==
  asked # None /\ asked.saved => IndexIn(Column(col[asked.ticket]), asked.ticket) = asked.at + 1
=============================================================================
