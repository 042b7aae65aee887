---------------------------- MODULE ActivityFeed ----------------------------
(***************************************************************************)
(* The history of a project (domain/activity.py): one reverse              *)
(* chronological stream merged from four tables, read page by page with a  *)
(* cursor, while runs finish, links are refreshed and rows arrive.         *)
(*                                                                         *)
(* A row's place is (ts, id), newest first; an id is a number here.  The   *)
(* text search is a predicate the four sources share and is left out: the  *)
(* rows are those it admits.  Rows are all in the rollup's window.         *)
(***************************************************************************)
EXTENDS Integers, Sequences, FiniteSets, FiniteSetsExt, SequencesExt

CONSTANTS Ids,        \* a finite set of numbers
          Limit,      \* rows per page
          None,
          MaxClock    \* bound: the rows' time stamps

ActivityFeedAssumption ==
  /\ Ids \subseteq Nat /\ IsFiniteSet(Ids) /\ None \notin Ids
  /\ Limit \in Nat \ {0} /\ MaxClock \in Nat

VARIABLES
  rows,    \* rows[i]: [src, state, ts], or None
  clock,
  filter,  \* the reader's chip
  cursor,  \* [ts, id] of the last row read, or None
  done,    \* the last page had no cursor
  shown,   \* the ids read, in order
  there    \* the rows the first page was cut from

vars == <<rows, clock, filter, cursor, done, shown, there>>

-----------------------------------------------------------------------------
Filters == {"all", "runs", "failures", "shipped", "repo", "lifecycle"}
Sources == {"run", "lifecycle", "merge_request", "issue", "cron"}

\* What a row may say when it arrives, and what it may come to say.
FirstStates(src) ==
  CASE src = "run"           -> {"running"}
    [] src = "lifecycle"     -> {"review", "archived"}
    [] src = "merge_request" -> {"opened", "merged"}
    [] src = "issue"         -> {"opened"}
    [] src = "cron"          -> {"fired"}
LaterStates(row) ==
  CASE row.src = "run" /\ row.state = "running" -> {"success", "error"}
    [] row.src = "merge_request" /\ row.state = "opened" -> {"opened", "merged"}
    [] row.src = "issue" /\ row.state = "opened" -> {"closed"}
    [] OTHER -> {}

States == {"running", "success", "error", "review", "archived", "opened", "merged", "closed", "fired"}
Rows == [src : Sources, state : States, ts : 0..MaxClock]
Places == [ts : 0..MaxClock, id : Ids]

TypeOK ==
  /\ rows \in [Ids -> Rows \cup {None}]
  /\ clock \in 0..MaxClock
  /\ filter \in Filters
  /\ cursor \in Places \cup {None} /\ done \in BOOLEAN
  /\ shown \in Seq(Ids)
  /\ there \in [Ids -> Rows \cup {None}]

Init ==
  /\ rows \in [Ids -> {[src |-> s, state |-> st, ts |-> 0] : s \in Sources, st \in States} \cup {None}]
  /\ \A i \in Ids : rows[i] # None => rows[i].state \in FirstStates(rows[i].src)
  /\ clock = 0
  /\ filter \in Filters
  /\ cursor = None /\ done = FALSE /\ shown = <<>>
  /\ there = [i \in Ids |-> None]

-----------------------------------------------------------------------------
(* What a filter admits of each source.                                    *)

RunListed(f, row) ==
  row.src = "run" /\ f \in {"all", "runs", "failures"} /\ (f = "failures" => row.state = "error")
LifecycleListed(f, row) ==
  row.src = "lifecycle" /\ f \in {"all", "lifecycle", "shipped"} /\ (f = "shipped" => row.state = "archived")
RepoListed(f, row) ==
  /\ row.src \in {"merge_request", "issue"} /\ f \in {"all", "repo", "shipped"}
  /\ f = "shipped" => row.src = "merge_request" /\ row.state = "merged"
CronListed(f, row) == row.src = "cron" /\ f \in {"all", "runs"}

Listed(f, row) ==
  row # None /\ (RunListed(f, row) \/ LifecycleListed(f, row) \/ RepoListed(f, row) \/ CronListed(f, row))

-----------------------------------------------------------------------------
(* A page.                                                                 *)

Place(i) == [ts |-> rows[i].ts, id |-> i]
OlderByTime(p, q) == p.ts < q.ts   \* wrong: drops the rest of an instant
Older(p, q) == p.ts < q.ts \/ (p.ts = q.ts /\ p.id < q.id)

NewestFirst(S) == SetToSortSeq(S, LAMBDA i, j : Older(Place(j), Place(i)))
Cut(seq, n) == SubSeq(seq, 1, IF Len(seq) < n THEN Len(seq) ELSE n)

FetchExactly(limit) == limit   \* wrong: a full page looks like the last
FetchLimit(limit) == limit + 1

\* _fetch_runs, _fetch_lifecycle, _fetch_repo (one query over both kinds of
\* link), _fetch_cron.
Fetch(kinds) ==
  LET rest == {i \in Ids : /\ Listed(filter, rows[i]) /\ rows[i].src \in kinds
                           /\ cursor # None => Older(Place(i), cursor)}
  IN ToSet(Cut(NewestFirst(rest), FetchLimit(Limit)))

Merged ==
  NewestFirst(UNION {Fetch(kinds) :
                       kinds \in {{"run"}, {"lifecycle"}, {"merge_request", "issue"}, {"cron"}}})

\* project_activity_feed.
ReadPage ==
  /\ ~done
  /\ LET page == Cut(Merged, Limit)
     IN /\ shown' = shown \o page
        /\ done' = (Len(Merged) <= Limit)
        /\ cursor' = IF done' THEN None ELSE Place(Last(page))
  /\ there' = IF cursor = None THEN rows ELSE there
  /\ UNCHANGED <<rows, clock, filter>>

-----------------------------------------------------------------------------
(* The tables.                                                             *)

\* A row is stamped with the time it is written; a cron fire with its place in
\* the schedule, and an event of the worker a while before its commit.
Arrive(i) ==
  /\ rows[i] = None /\ clock < MaxClock /\ clock' = clock + 1
  /\ \E src \in Sources : \E st \in FirstStates(src) :
       \E ts \in IF src \in {"cron", "lifecycle"} THEN 0..clock' ELSE {clock'} :
         rows' = [rows EXCEPT ![i] = [src |-> src, state |-> st, ts |-> ts]]
  /\ UNCHANGED <<filter, cursor, done, shown, there>>

\* A run ends (finished_at replaces started_at), a link is refreshed (updated_at).
Change(i) ==
  /\ rows[i] # None /\ clock < MaxClock /\ clock' = clock + 1
  /\ \E st \in LaterStates(rows[i]) :
       rows' = [rows EXCEPT ![i].state = st, ![i].ts = clock']
  /\ UNCHANGED <<filter, cursor, done, shown, there>>

Next == ReadPage \/ \E i \in Ids : Arrive(i) \/ Change(i)

Spec == Init /\ [][Next]_vars

-----------------------------------------------------------------------------
(* Correctness.                                                            *)

\* Whatever happens between the pages, no row is read twice, and a reader who
\* has followed the cursors to the end has read every row that was there when
\* the reading began and has not changed since.
PagesAreExact ==
  /\ IsInjective(shown)
  /\ done =>
       \A i \in Ids : Listed(filter, there[i]) /\ rows[i] = there[i] => Contains(shown, i)

\* _compute_rollups, which counts with queries of its own.
RollupRuns(f) ==
  IF f \in {"all", "runs", "failures"}
  THEN Cardinality({i \in Ids : rows[i] # None /\ RunListed(f, rows[i])}) ELSE 0
RollupFailures(f) ==
  IF f \in {"all", "runs", "failures"}
  THEN Cardinality({i \in Ids : /\ rows[i] # None /\ RunListed(f, rows[i])
                                /\ rows[i].state \notin {"running", "success"}}) ELSE 0
RollupShipped(f) ==
  IF f \in {"all", "shipped"}
  THEN Cardinality({i \in Ids : rows[i] # None /\ rows[i].src = "lifecycle" /\ rows[i].state = "archived"})
       + Cardinality({i \in Ids : rows[i] # None /\ rows[i].src = "merge_request" /\ rows[i].state = "merged"})
  ELSE 0

\* The numbers over a list are those of the list: under every chip that has
\* them, rollups count what the feed shows, and failures and shipped work are
\* what their own chips show.
RollupsMatchTheFeed ==
  \A f \in {"all", "runs", "failures", "shipped"} :
    LET Count(g, srcs) == Cardinality({i \in Ids : /\ Listed(f, rows[i]) /\ Listed(g, rows[i])
                                                   /\ rows[i].src \in srcs})
    IN /\ RollupRuns(f) = Count(f, {"run"})
       /\ RollupFailures(f) = Count("failures", Sources)
       /\ RollupShipped(f) = Count("shipped", Sources)
=============================================================================
