------------------------------ MODULE TurnLatency ------------------------------
(***************************************************************************)
(* How long the model and the tools of a run took (domain/latency.py),     *)
(* read from the transcript the turns of a conversation share once the run *)
(* has ended, or later by scripts/backfill_run_latency.py.  A turn's part  *)
(* begins at its header and is found by the time of the header.            *)
(***************************************************************************)
EXTENDS Integers, Sequences, FiniteSets, SequencesExt, FiniteSetsExt

CONSTANTS None,
          Tools,      \* ids of tool calls
          Margin,     \* _WINDOW_MARGIN
          MaxRuns, MaxTime, MaxEvents

TurnLatencyAssumption ==
  /\ None \notin Tools /\ {Margin, MaxTime, MaxEvents} \subseteq Nat /\ MaxRuns \in Nat \ {0}

VARIABLES clock,
          file,      \* the events: [type, id, ts], and of which turn
          runs,      \* the turns: [started, finished, phase]
          latency    \* the rows of run_latency

vars == <<clock, file, runs, latency>>

Types == {"meta", "output", "tool_use", "tool_result"}

TypeOK ==
  /\ clock \in 0..MaxTime
  /\ \A i \in DOMAIN file : /\ file[i].type \in Types /\ file[i].turn \in DOMAIN runs
                            /\ i > 1 => file[i - 1].ts <= file[i].ts
  /\ \A n \in DOMAIN runs : /\ runs[n].phase \in {"setup", "works", "ended"} /\ (n < Len(runs) => runs[n].phase = "ended")
                            /\ runs[n].finished = None <=> runs[n].phase # "ended"
  /\ DOMAIN latency \subseteq {n \in DOMAIN runs : runs[n].phase = "ended"}

Init == clock = 0 /\ file = << >> /\ runs = << >> /\ latency = << >>

-----------------------------------------------------------------------------
(* latency_samples_from_events.                                            *)

InWindowUpTo(ts, lo, hi) == ts <= hi   \* wrong: no earlier turn is left out
InWindow(ts, lo, hi) == lo <= ts /\ ts <= hi

\* The state of the loop: whether the part is the run's, when it began, whether
\* the model has answered, the latest result it has not answered, the calls
\* that have no result; and the samples.
NoPart == [target |-> FALSE, first |-> None, answered |-> FALSE, pending |-> None, open |-> << >>]
Without(f, x) == [y \in DOMAIN f \ {x} |-> f[y]]

Event(acc, e, lo, hi) ==
  LET Sample(kind, from) == Append(acc.samples, [kind |-> kind, seconds |-> e.ts - from])
  IN  CASE e.type = "meta" -> [NoPart EXCEPT !.target = InWindow(e.ts, lo, hi), !.first = e.ts]
                                @@ [samples |-> acc.samples]
        [] e.type # "meta" /\ ~acc.target -> acc
        [] acc.target /\ e.type = "tool_use" -> [acc EXCEPT !.open = (e.id :> e.ts) @@ @]
        [] acc.target /\ e.type = "tool_result" ->
             [acc EXCEPT !.pending = e.ts, !.open = Without(@, e.id),
                         !.samples = IF e.id \in DOMAIN acc.open THEN Sample("tool", acc.open[e.id]) ELSE @]
        [] acc.target /\ e.type = "output" /\ ~acc.answered ->
             [acc EXCEPT !.answered = TRUE, !.samples = Sample("ttft", acc.first)]
        [] acc.target /\ e.type = "output" /\ acc.answered ->
             [acc EXCEPT !.pending = None, !.samples = IF acc.pending = None THEN @ ELSE Sample("turn", acc.pending)]

Samples(events, run) ==
  FoldLeft(LAMBDA acc, e : Event(acc, e, run.started - Margin, run.finished + Margin),
           NoPart @@ [samples |-> << >>], events).samples

\* summarize_samples.
Seconds(samples, kind) ==
  LET of == SelectSeq(samples, LAMBDA s : s.kind = kind) IN [i \in DOMAIN of |-> of[i].seconds]
Total(seconds) == FoldLeft(LAMBDA x, y : x + y, 0, seconds)
Summary(samples) ==
  [ttft |-> IF Seconds(samples, "ttft") = << >> THEN None ELSE Seconds(samples, "ttft")[1],
   turns |-> Seconds(samples, "turn"), model |-> Total(Seconds(samples, "turn")),
   tool |-> Total(Seconds(samples, "tool"))]

-----------------------------------------------------------------------------
(* The turns of a conversation, one after the other.                       *)

Turn == Len(runs)
Running(phase) == Turn > 0 /\ runs[Turn].phase = phase

StartRun ==
  /\ Turn < MaxRuns /\ (Turn > 0 => Running("ended"))
  /\ runs' = Append(runs, [started |-> clock, finished |-> None, phase |-> "setup"])
  /\ UNCHANGED <<clock, file, latency>>

Writes(type, id) == file' = Append(file, [type |-> type, id |-> id, ts |-> clock, turn |-> Turn])

WriteMeta ==
  /\ Running("setup") /\ Writes("meta", None)
  /\ runs' = [runs EXCEPT ![Turn].phase = "works"]
  /\ UNCHANGED <<clock, latency>>

Opened(id) ==
  \E i \in DOMAIN file : /\ file[i].turn = Turn /\ file[i].type = "tool_use" /\ file[i].id = id
                         /\ \A j \in DOMAIN file : j > i => file[j].type # "tool_result" \/ file[j].id # id

Works ==
  /\ Running("works") /\ Len(file) < MaxEvents
  /\ \/ Writes("output", None)
     \/ \E id \in Tools : IF Opened(id) THEN Writes("tool_result", id) ELSE Writes("tool_use", id)
  /\ UNCHANGED <<clock, runs, latency>>

Ended(n) == [runs EXCEPT ![n].phase = "ended", ![n].finished = clock]
SetupFails == Running("setup") /\ runs' = Ended(Turn) /\ UNCHANGED <<clock, file, latency>>

\* populate_run_latency, which may fail.
Finish ==
  /\ Running("works") /\ runs' = Ended(Turn)
  /\ latency' \in {latency, (Turn :> Summary(Samples(file, runs'[Turn]))) @@ latency}
  /\ UNCHANGED <<clock, file>>

Backfill(n) ==
  /\ runs[n].phase = "ended" /\ n \notin DOMAIN latency
  /\ latency' = (n :> Summary(Samples(file, runs[n]))) @@ latency
  /\ UNCHANGED <<clock, file, runs>>

Tick == clock < MaxTime /\ clock' = clock + 1 /\ UNCHANGED <<file, runs, latency>>

Next == StartRun \/ WriteMeta \/ Works \/ SetupFails \/ Finish \/ Tick \/ \E n \in DOMAIN runs : Backfill(n)

-----------------------------------------------------------------------------
(* What it promises.                                                       *)

Of(n, type) == {i \in DOMAIN file : file[i].turn = n /\ file[i].type = type}
Gap(i, j) == file[j].ts - file[i].ts
Before(i, is) == {j \in is : j < i}

\* The first output; the results answered by a later one; each call's result.
FirstOutput(n) == {i \in Of(n, "output") : Before(i, Of(n, "output")) = {}}
Answers(n) ==
  {x \in Of(n, "tool_result") \X (Of(n, "output") \ FirstOutput(n)) :
     x[1] < x[2] /\ \A k \in (x[1] + 1)..(x[2] - 1) : file[k].type = "tool_use"}
Calls(n) ==
  {x \in Of(n, "tool_use") \X Of(n, "tool_result") :
     /\ x[1] < x[2] /\ file[x[1]].id = file[x[2]].id
     /\ \A k \in Of(n, "tool_result") : k \in x[1]..(x[2] - 1) => file[k].id # file[x[1]].id}
Sum(pairs) == FoldSet(LAMBDA x, acc : acc + Gap(x[1], x[2]), 0, pairs)

\* No other turn began while the run was at work, or shortly before or after.
Alone(n) ==
  \A i \in DOMAIN file : file[i].type = "meta" /\ file[i].turn # n =>
    file[i].ts \notin (runs[n].started - Margin)..(runs[n].finished + Margin)

\* A row tells of the run's own turn, whenever it was made and whatever the other
\* turns left open: the time to the first output, the time of each call, and, if
\* the model spoke before its first call ended, the time from each result to the
\* answer.
LatencyIsOwn ==
  \A n \in DOMAIN latency :
    Alone(n) =>
      /\ latency[n].ttft = IF FirstOutput(n) = {} THEN None
                           ELSE Sum(Of(n, "meta") \X FirstOutput(n))
      /\ latency[n].tool = Sum(Calls(n))
      /\ (\A i \in FirstOutput(n) : Before(i, Of(n, "tool_result")) = {}) =>
           /\ latency[n].model = Sum(Answers(n)) /\ Len(latency[n].turns) = Cardinality(Answers(n))
=============================================================================
