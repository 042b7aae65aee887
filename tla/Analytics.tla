------------------------------- MODULE Analytics -------------------------------
(***************************************************************************)
(* The dashboard of what runs used and cost: domain/analytics.py and       *)
(* api/routes/analytics.py.  The time of the question is taken, prices are *)
(* resolved, and then the figures are read by one statement each, while    *)
(* run processes start runs and write what they used when they end.        *)
(*                                                                         *)
(* Time counts hours.  The clocks of the zone change once; hours are local *)
(* with the offset that counts.                                            *)
(***************************************************************************)
EXTENDS Integers, Sequences, FiniteSets, FiniteSetsExt, TLC

CONSTANTS Tickets, None,
          Project,             \* of the tickets; may be None
          Price,               \* the resolved price of the models that have one
          Models,              \* those runs report
          Day,                 \* hours in a day
          Windows,             \* days of the ranges one may ask for
          Zones,               \* [at, before, after]: when the offset changes, and how
          Limit,               \* of usage_by_ticket
          MaxRuns, MaxTime,
          MaxMeddling          \* starts and ends of runs between the reads of an answer

\* The clocks change neither at midnight nor within the hours changed of it.
Offset(z, t) == IF t < z.at THEN z.before ELSE z.after
AnalyticsAssumption ==
  /\ DOMAIN Project = Tickets /\ DOMAIN Price \subseteq Models
  /\ None \notin Tickets \cup Models /\ Day \in Nat \ {0} /\ Windows \subseteq Nat \ {0}
  /\ \A z \in Zones : z.before # z.after =>
       \A o \in {z.before, z.after} : (z.at + o) % Day \notin {0}
  /\ {Limit, MaxRuns, MaxTime, MaxMeddling} \subseteq Nat

VARIABLES clock, zone,
          runs,      \* [ticket, start, model, snapshot, tokens]
          query,     \* [now, days, project], and the changes of runs between its reads
          shown      \* the figures read so far

vars == <<clock, zone, runs, query, shown>>

Steps == <<"by_model", "series", "totals", "by_ticket", "by_project">>

TypeOK ==
  /\ clock \in 0..MaxTime /\ zone \in Zones
  /\ \A i \in DOMAIN runs :
       /\ runs[i].ticket \in Tickets /\ runs[i].start \in 0..clock
       /\ runs[i].model = None => runs[i].tokens = 0
  /\ query = None => shown = << >>
  /\ query # None => query.now <= clock /\ DOMAIN shown \in {{Steps[j] : j \in 1..k} : k \in 0..Len(Steps)}

Init == clock = 0 /\ zone \in Zones /\ runs = << >> /\ query = None /\ shown = << >>

-----------------------------------------------------------------------------
(* The days of the zone.                                                   *)

LocalDate(t, offset) == (t + offset) \div Day

\* Local midnight of t's day, in UTC, with the offset of midnight.
StartOfDay(t) ==
  LET midnight == LocalDate(t, Offset(zone, t)) * Day
  IN  IF midnight - zone.before < zone.at \/ midnight - zone.after < zone.at
      THEN midnight - zone.before ELSE midnight - zone.after

ResolveRangeStart(now, days) == StartOfDay(now) - Day * (days - 1)

-----------------------------------------------------------------------------
(* The figures.                                                            *)

Start == ResolveRangeStart(query.now, query.days)
InScope(i) == query.project \in {None, Project[runs[i].ticket]}
Window == {i \in DOMAIN runs : runs[i].start >= Start /\ InScope(i)}

Total(f(_), is) == FoldSet(LAMBDA i, acc : acc + f(i), 0, is)
Tokens(is) == Total(LAMBDA i : runs[i].tokens, is)

\* _split_cost, of a group of runs of one model, with or without a snapshot.  The
\* stored cost of a run is taken to be its tokens.
SplitCostLive(model, snapshot, is) ==   \* wrong: a snapshot does not fix the price
  Tokens(is) * IF model \in DOMAIN Price THEN Price[model] ELSE 0
SplitCost(model, snapshot, is) ==
  IF snapshot THEN Tokens(is) ELSE Tokens(is) * IF model \in DOMAIN Price THEN Price[model] ELSE 0

\* Rows of a figure: runs are grouped, with their model and snapshot, and the
\* groups of a row are added up.
Key(i) == <<runs[i].model, runs[i].snapshot>>
Row(is) ==
  LET Group(k) == {i \in is : Key(i) = k}
  IN  [tokens |-> Tokens(is), runs |-> Cardinality(is),
       estimated |-> Cardinality({i \in is : ~runs[i].snapshot}),
       cost |-> FoldSet(LAMBDA k, acc : acc + SplitCost(k[1], k[2], Group(k)), 0, {Key(i) : i \in is})]
Rows(of, is) == [x \in {of[i] : i \in is} |-> Row({i \in is : of[i] = x})]

\* What is kept of a figure: what its rows add up to, and how many they are.
Figure(rows) ==
  [f \in {"tokens", "runs", "estimated", "cost"} |->
     FoldSet(LAMBDA x, acc : acc + rows[x][f], 0, DOMAIN rows)]
  @@ [rows |-> Cardinality(DOMAIN rows)]

ByModel == Rows([i \in Window |-> IF runs[i].model = None THEN "unknown" ELSE runs[i].model], Window)
ByProject == Rows([i \in Window |-> Project[runs[i].ticket]], Window)
Totals == Rows([i \in Window |-> "all"], Window)

\* The rows of the tickets that used most, in any order among equals.
ByTicket ==
  LET rows == Rows([i \in Window |-> runs[i].ticket], Window)
      n == Min({Limit, Cardinality(DOMAIN rows)})
  IN  {[t \in top |-> rows[t]] : top \in {s \in kSubset(n, DOMAIN rows) :
         \A t \in s, u \in DOMAIN rows \ s : rows[t].tokens >= rows[u].tokens}}

\* The days of the window, each with the runs that fall on it at the offset of the
\* time of the question; the route keeps the last ones.
Latest(days) == {d \in days : \A e \in days : e - d < query.days}
SeriesDays == LocalDate(Start, Offset(zone, Start))..LocalDate(query.now, Offset(zone, query.now))
SeriesUtc ==   \* wrong: the days of UTC
  [d \in Latest(SeriesDays) |-> Row({i \in Window : LocalDate(runs[i].start, 0) = d})]
Series ==
  [d \in Latest(SeriesDays) |->
     Row({i \in Window : LocalDate(runs[i].start, Offset(zone, query.now)) = d})]

-----------------------------------------------------------------------------
\* Between the reads; before them, nothing is counted.
Changes ==
  \/ shown = << >> /\ query' = query
  \/ /\ 0 < Cardinality(DOMAIN shown) /\ Cardinality(DOMAIN shown) < Len(Steps)
     /\ query.changes < MaxMeddling /\ query' = [query EXCEPT !.changes = @ + 1]

StartRun(t) ==
  /\ Len(runs) < MaxRuns
  /\ \E snapshot \in BOOLEAN :
       runs' = Append(runs, [ticket |-> t, start |-> clock, model |-> None,
                             snapshot |-> snapshot, tokens |-> 0])
  /\ Changes /\ UNCHANGED <<clock, zone, shown>>

\* The snapshot gets the model, if only now, or pricing failed.  (To the figures, a
\* run that ends without a report is one that never ends.)
EndRun(i) ==
  /\ runs[i].model = None
  /\ \E m \in Models, snapshot \in {TRUE, runs[i].snapshot} :
       runs' = [runs EXCEPT ![i] = [@ EXCEPT !.model = m, !.tokens = i, !.snapshot = snapshot]]
  /\ Changes /\ UNCHANGED <<clock, zone, shown>>

Ask(days, project) ==
  /\ query = None
  /\ query' = [now |-> clock, days |-> days, project |-> project, changes |-> 0]
  /\ UNCHANGED <<clock, zone, runs, shown>>

\* One figure after the other, of one dashboard: a later one starts afresh.
Read ==
  /\ query # None /\ UNCHANGED <<clock, zone, runs, query>>
  /\ LET step == Steps[Cardinality(DOMAIN shown) + 1]
         Reads(name, values) == step = name /\ \E v \in values : shown' = (name :> Figure(v)) @@ shown
     IN /\ Cardinality(DOMAIN shown) < Len(Steps)
        /\ \/ Reads("by_model", {ByModel}) \/ Reads("series", {Series}) \/ Reads("totals", {Totals})
           \/ Reads("by_ticket", ByTicket)
           \/ Reads("by_project", {ByProject})

\* Resolving the prices may take long, the reads do not.
Tick ==
  /\ clock < MaxTime /\ shown = << >>
  /\ clock' = clock + 1 /\ UNCHANGED <<zone, runs, query, shown>>

Next ==
  \/ Read \/ Tick
  \/ \E t \in Tickets : StartRun(t)
  \/ \E i \in DOMAIN runs : EndRun(i)
  \/ \E days \in Windows, project \in {None} \cup {Project[t] : t \in Tickets} : Ask(days, project)

-----------------------------------------------------------------------------
(* What it promises.                                                       *)

Sums == {"by_model", "totals", "by_project"}
Read2(a, b) == {a, b} \subseteq DOMAIN shown
Same(a, b) == \A f \in DOMAIN shown[a] \ {"rows"} : shown[a][f] = shown[b][f]
Undisturbed == query # None /\ query.changes = 0

\* Figures read of the same runs add up to the same, each run at its own price, and
\* so do the tickets listed when the list is long enough.
RollupsAgree ==
  Undisturbed =>
    /\ \A a, b \in Sums : Read2(a, b) => Same(a, b)
    /\ "totals" \in DOMAIN shown =>
         shown["totals"].cost =
           Total(LAMBDA i : runs[i].tokens * IF runs[i].snapshot THEN 1
                                             ELSE IF runs[i].model \in DOMAIN Price THEN Price[runs[i].model] ELSE 0,
                 Window)
    /\ Read2("by_ticket", "totals") /\ Cardinality({runs[i].ticket : i \in Window}) <= Limit
         => Same("by_ticket", "totals")

\* Whatever happens between the reads, a figure read later tells no less than one
\* read before: runs are only added, and get what they used once.
LaterReadsGrow ==
  \A a, b \in 1..Len(Steps) :
    a < b /\ Read2(Steps[a], Steps[b]) /\ {Steps[a], Steps[b]} \subseteq Sums =>
      /\ shown[Steps[a]].tokens <= shown[Steps[b]].tokens
      /\ shown[Steps[a]].runs <= shown[Steps[b]].runs
      /\ shown[Steps[a]].cost <= shown[Steps[b]].cost

\* The days shown hold every run of the window, though the clocks changed within
\* it, unless they were set back earlier on the day of the question, or a run
\* started on a later day than that while prices were resolved.
SeriesIsWhole ==
  Undisturbed /\ Read2("series", "totals") =>
    \/ Offset(zone, query.now) < Offset(zone, StartOfDay(query.now))
    \/ \E i \in Window : LocalDate(runs[i].start, Offset(zone, query.now))
                          > LocalDate(query.now, Offset(zone, query.now))
    \/ Same("series", "totals") /\ shown["series"].rows = query.days
=============================================================================
