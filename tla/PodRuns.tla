-------------------------------- MODULE PodRuns --------------------------------
(***************************************************************************)
(* Runs on the Kubernetes target: a run process on the host, the runner    *)
(* in its pod, the API the runner reports to, and the reconciler in the    *)
(* daemon's sweep.                                                          *)
(*                                                                         *)
(*   - the run process (executors/k8s/executor.py called by run_one) makes *)
(*     a Secret and a Pod, polls the pod, maps what it saw and what the    *)
(*     runner reported to an outcome, deletes both and closes the Run row; *)
(*   - the runner (runner/main.py) clones, runs the agent, reports and     *)
(*     exits; its token is revoked when the run process leaves;            *)
(*   - the daemon sweeps dead runs by pid, then reconciles the labelled    *)
(*     pods with the Run rows.                                             *)
(*                                                                         *)
(* The cluster is external: pods start, fail and vanish as the executor    *)
(* expects of them.  Calls to it fail with an exception.                   *)
(***************************************************************************)
EXTENDS Naturals, FiniteSets

CONSTANTS Runs, None,
          MaxEvents   \* bound: cancellations, crashes, failed calls and pods that die

PodRunsAssumption == MaxEvents \in Nat

VARIABLES
  run,       \* the run process: [pc, saw (a pod status), result (an outcome)]
  row,       \* runs: exit_status ("open" while finished_at is NULL) and failure_kind
  onBoard,   \* runs whose ticket is still running
  cancelled, \* runs whose cancel_event is set
  token,     \* run_tokens: "none", "live", "revoked"
  secret,    \* runs whose Secret exists
  pod,       \* the pod: its status, and whether its deletion was asked for
  agent,     \* the runner in the pod: [pc, verdict]
  sidecar,   \* the outcome the runner reported, or None
  sweep,      \* the reconciler: the pods it has listed and not handled, or None
  mishaps,
  spoiled    \* history: runs that something else than their agent decided

vars == <<run, row, onBoard, cancelled, token, secret, pod, agent, sidecar, sweep, mishaps, spoiled>>

-----------------------------------------------------------------------------
Outcomes == [exit : {"success", "failed", "cancelled", "worker_crash"},
             kind : {None, "run_failed", "timeout", "oom", "pod_lost", "provision_error", "workspace_error"}]
Outcome(e, k) == [exit |-> e, kind |-> k]

\* PodStatus, phase and reason in one: "evicted" is Failed without an exit code,
\* "absent" a pod that read_pod_status does not find.
Terminal == {"succeeded", "errored", "oom", "deadline", "evicted"}
PodStates == {"absent", "pending", "running"} \cup Terminal

\* What _watch returns beyond a status it read.
Seen == {None, "cancelled", "absent", "unready"} \cup Terminal

Hosts == {"idle", "token", "secret", "watch", "map", "deletePod", "deleteSecret",
          "finish", "tag", "leave", "done", "dead"}
Verdicts == {"success", "failed", "clone_failed", "crashed"}

RunRecords == [pc : Hosts, saw : Seen, result : Outcomes \cup {None}]
RowRecords == [exit : {None, "open", "success", "failed", "cancelled", "worker_crash"},
               kind : {o.kind : o \in Outcomes}]
PodRecords == [state : PodStates, leaving : BOOLEAN]
AgentRecords == [pc : {"none", "clone", "agent", "report", "exit", "gone"},
                 verdict : Verdicts \cup {None}]
PassRecords == [run : Runs, terminal : BOOLEAN, open : BOOLEAN, read : BOOLEAN]

RunShape == run \in [Runs -> RunRecords]
RowShape == row \in [Runs -> RowRecords]
PodShape == pod \in [Runs -> PodRecords]
AgentShape ==
  agent \in [Runs -> AgentRecords] /\ sidecar \in [Runs -> {None, "success", "failed"}]
PassShape == sweep # None => sweep \subseteq PassRecords
Shapes == RunShape /\ RowShape /\ PodShape /\ AgentShape /\ PassShape

\* The runner is at work exactly while its pod runs.
InPod ==
  \A r \in Runs :
    agent[r].pc \in {"clone", "agent", "report", "exit"} <=> pod[r].state = "running"

TypeOK ==
  /\ Shapes /\ InPod
  /\ onBoard \subseteq Runs /\ cancelled \subseteq Runs /\ spoiled \subseteq Runs
  /\ token \in [Runs -> {"none", "live", "revoked"}]
  /\ secret \subseteq Runs
  /\ mishaps \in 0..MaxEvents

Init ==
  /\ run = [r \in Runs |-> [pc |-> "idle", saw |-> None, result |-> None]]
  /\ row = [r \in Runs |-> [exit |-> None, kind |-> None]]
  /\ onBoard = {} /\ cancelled = {} /\ secret = {} /\ spoiled = {}
  /\ token = [r \in Runs |-> "none"]
  /\ pod = [r \in Runs |-> [state |-> "absent", leaving |-> FALSE]]
  /\ agent = [r \in Runs |-> [pc |-> "none", verdict |-> None]]
  /\ sidecar = [r \in Runs |-> None]
  /\ sweep = None
  /\ mishaps = 0

Happens == mishaps < MaxEvents /\ mishaps' = mishaps + 1
Spoils(r) == spoiled' = spoiled \cup {r}

Goto(r, from, to) == run[r].pc = from /\ run' = [run EXCEPT ![r].pc = to]

\* delete_pod: the pod is told to stop and goes some time later; 404 is fine.
Deleted(r) == [pod EXCEPT ![r].leaving = @ \/ pod[r].state # "absent"]

-----------------------------------------------------------------------------
(* The run process.                                                        *)

\* run_one up to the executor: the Run row, then the run token.
Begin(r) ==
  /\ Goto(r, "idle", "token")
  /\ row' = [row EXCEPT ![r].exit = "open"]
  /\ onBoard' = onBoard \cup {r}
  /\ token' = [token EXCEPT ![r] = "live"]
  /\ UNCHANGED <<cancelled, secret, pod, agent, sidecar, sweep, mishaps, spoiled>>

CreateSecret(r) ==
  /\ Goto(r, "token", "secret")
  /\ secret' = secret \cup {r}
  /\ UNCHANGED <<row, onBoard, cancelled, token, pod, agent, sidecar, sweep, mishaps, spoiled>>

CreatePod(r) ==
  /\ Goto(r, "secret", "watch")
  /\ pod' = [pod EXCEPT ![r] = [state |-> "pending", leaving |-> FALSE]]
  /\ UNCHANGED <<row, onBoard, cancelled, token, secret, agent, sidecar, sweep, mishaps, spoiled>>

\* The executor refuses to start (no cluster configured, no remote to clone):
\* the exception revokes the token and closes the row.
PreflightFails(r) ==
  /\ Goto(r, "token", "done")
  /\ Happens
  /\ row' = [row EXCEPT ![r].exit = "failed"]
  /\ onBoard' = onBoard \ {r}
  /\ token' = [token EXCEPT ![r] = "revoked"]
  /\ Spoils(r)
  /\ UNCHANGED <<cancelled, secret, pod, agent, sidecar, sweep>>

\* Any call of the executor to the cluster may raise: provision_error.
CallFails(r) ==
  /\ run[r].pc \in {"token", "secret", "watch"}
  /\ Happens
  /\ run' = [run EXCEPT ![r].pc = "deletePod", ![r].result = Outcome("failed", "provision_error")]
  /\ Spoils(r)
  /\ UNCHANGED <<row, onBoard, cancelled, token, secret, pod, agent, sidecar, sweep>>

Saw(r, s) == run' = [run EXCEPT ![r].pc = "map", ![r].saw = s]

\* _watch, the iteration that ends it.
Watch(r) ==
  /\ run[r].pc = "watch"
  /\ \/ /\ r \in cancelled
        /\ Saw(r, "cancelled") /\ pod' = Deleted(r) /\ Spoils(r)
     \/ /\ r \notin cancelled
        /\ pod[r].state \in Terminal \cup {"absent"}
        /\ Saw(r, pod[r].state)
        /\ UNCHANGED <<pod, spoiled>>
     \/ \* ready_timeout is over
        /\ r \notin cancelled
        /\ pod[r].state = "pending"
        /\ Saw(r, "unready") /\ pod' = Deleted(r) /\ Spoils(r)
  /\ UNCHANGED <<row, onBoard, cancelled, token, secret, agent, sidecar, sweep, mishaps>>

\* _map_result, with _result_from_sidecar.
ByPhase(saw) ==
  CASE saw = "errored" -> Outcome("failed", "workspace_error")
    [] saw = "evicted" -> Outcome("worker_crash", "pod_lost")
    [] OTHER -> Outcome("success", None)
MapByPhase(saw, reported) ==   \* wrong: what the runner reported is not read
  CASE saw = "cancelled" -> Outcome("cancelled", None)
    [] saw \in {"deadline", "oom", "absent", "unready"} -> Outcome("failed", "pod_lost")
    [] OTHER -> ByPhase(saw)
MapResult(saw, reported) ==
  CASE saw = "cancelled" -> Outcome("cancelled", None)
    [] saw = "deadline" -> Outcome("failed", "timeout")
    [] saw = "oom" -> Outcome("failed", "oom")
    [] saw = "absent" -> Outcome("failed", "pod_lost")
    [] saw = "unready" -> Outcome("failed", "provision_error")
    [] OTHER -> IF reported = None THEN ByPhase(saw)
                ELSE Outcome(reported, IF reported = "failed" THEN "run_failed" ELSE None)

Map(r) ==
  /\ run[r].pc = "map"
  /\ run' = [run EXCEPT ![r].pc = "deletePod", ![r].result = MapResult(run[r].saw, sidecar[r])]
  /\ UNCHANGED <<row, onBoard, cancelled, token, secret, pod, agent, sidecar, sweep, mishaps, spoiled>>

\* The finally of execute: a call that fails is logged.
DeletePod(r) ==
  /\ Goto(r, "deletePod", "deleteSecret")
  /\ \/ pod' = Deleted(r) /\ UNCHANGED mishaps
     \/ Happens /\ UNCHANGED pod
  /\ UNCHANGED <<row, onBoard, cancelled, token, secret, agent, sidecar, sweep, spoiled>>

DeleteSecret(r) ==
  /\ Goto(r, "deleteSecret", "finish")
  /\ \/ secret' = secret \ {r} /\ UNCHANGED mishaps
     \/ Happens /\ UNCHANGED secret
  /\ UNCHANGED <<row, onBoard, cancelled, token, pod, agent, sidecar, sweep, spoiled>>

\* finish_run closes the row whatever it holds; the failure kind follows in
\* a commit of its own, and only when there is one.
Finish(r) ==
  /\ Goto(r, "finish", "tag")
  /\ row' = [row EXCEPT ![r].exit = run[r].result.exit]
  /\ UNCHANGED <<onBoard, cancelled, token, secret, pod, agent, sidecar, sweep, mishaps, spoiled>>

Tag(r) ==
  /\ Goto(r, "tag", "leave")
  /\ row' = [row EXCEPT ![r].kind = IF run[r].result.kind = None THEN @ ELSE run[r].result.kind]
  /\ UNCHANGED <<onBoard, cancelled, token, secret, pod, agent, sidecar, sweep, mishaps, spoiled>>

\* The landing in review and the revocation of the token.
Leave(r) ==
  /\ Goto(r, "leave", "done")
  /\ onBoard' = onBoard \ {r}
  /\ token' = [token EXCEPT ![r] = "revoked"]
  /\ UNCHANGED <<row, cancelled, secret, pod, agent, sidecar, sweep, mishaps, spoiled>>

Kill(r) ==
  /\ run[r].pc \notin {"idle", "done", "dead"}
  /\ Happens
  /\ run' = [run EXCEPT ![r].pc = "dead"]
  /\ Spoils(r)
  /\ UNCHANGED <<row, onBoard, cancelled, token, secret, pod, agent, sidecar, sweep>>

-----------------------------------------------------------------------------
(* The pod and its runner.                                                 *)

Working(r) == pod[r].state = "running"

\* The pod starts when its Secret can be mounted.
PodStarts(r) ==
  /\ pod[r].state = "pending" /\ ~pod[r].leaving /\ r \in secret
  /\ pod' = [pod EXCEPT ![r].state = "running"]
  /\ agent' = [agent EXCEPT ![r].pc = "clone"]
  /\ UNCHANGED <<run, row, onBoard, cancelled, token, secret, sidecar, sweep, mishaps, spoiled>>

PodDies(r, how) ==
  /\ Working(r)
  /\ Happens
  /\ pod' = [pod EXCEPT ![r].state = how]
  /\ agent' = [agent EXCEPT ![r].pc = "gone"]
  /\ Spoils(r)
  /\ UNCHANGED <<run, row, onBoard, cancelled, token, secret, sidecar, sweep>>

\* A deleted pod goes; a pod goes with its node.
PodVanishes(r) ==
  /\ pod[r].state # "absent"
  /\ \/ pod[r].leaving /\ UNCHANGED mishaps
     \/ ~pod[r].leaving /\ Happens
  /\ pod' = [pod EXCEPT ![r] = [state |-> "absent", leaving |-> FALSE]]
  /\ agent' = [agent EXCEPT ![r].pc = IF @ = "none" THEN "none" ELSE "gone"]
  /\ spoiled' = spoiled \cup (IF pod[r].leaving THEN {} ELSE {r})
  /\ UNCHANGED <<run, row, onBoard, cancelled, token, secret, sidecar, sweep>>

Ends(r, from, to, v) ==
  /\ Working(r) /\ agent[r].pc = from
  /\ agent' = [agent EXCEPT ![r] = [pc |-> to, verdict |-> v]]
  /\ UNCHANGED <<run, row, onBoard, cancelled, token, secret, pod, sidecar, sweep, mishaps, spoiled>>

\* runner.main.run: clone, run the agent; an exception is reported as a failure.
Clone(r) == Ends(r, "clone", "agent", None) \/ Ends(r, "clone", "report", "clone_failed")
RunAgent(r) == \E v \in {"success", "failed", "crashed"} : Ends(r, "agent", "report", v)

\* ApiSink.post_result: stored when the token is live, dropped when the API is
\* not reached or refuses it; the runner goes on either way.
Accepted(r) == token[r] = "live"

Report(r) ==
  /\ Working(r) /\ agent[r].pc = "report"
  /\ agent' = [agent EXCEPT ![r].pc = "exit"]
  /\ \/ /\ Accepted(r)
        /\ sidecar' = [sidecar EXCEPT ![r] = IF agent[r].verdict = "success" THEN "success" ELSE "failed"]
        /\ UNCHANGED <<mishaps, spoiled>>
     \/ /\ ~Accepted(r)
        /\ UNCHANGED <<sidecar, mishaps, spoiled>>
     \/ Happens /\ Spoils(r) /\ UNCHANGED sidecar
  /\ UNCHANGED <<run, row, onBoard, cancelled, token, secret, pod, sweep>>

Exit(r) ==
  /\ Working(r) /\ agent[r].pc = "exit"
  /\ agent' = [agent EXCEPT ![r].pc = "gone"]
  /\ pod' = [pod EXCEPT ![r].state = IF agent[r].verdict = "success" THEN "succeeded" ELSE "errored"]
  /\ UNCHANGED <<run, row, onBoard, cancelled, token, secret, sidecar, sweep, mishaps, spoiled>>

-----------------------------------------------------------------------------
(* The user and the daemon.                                                *)

Cancel(r) ==
  /\ r \in onBoard
  /\ Happens
  /\ onBoard' = onBoard \ {r}
  /\ UNCHANGED <<run, row, cancelled, token, secret, pod, agent, sidecar, sweep, spoiled>>

\* _supervise_cancellations: SIGTERM, which sets the cancel event.
Supervise(r) ==
  /\ run[r].pc \notin {"idle", "done", "dead"}
  /\ r \notin onBoard \cup cancelled
  /\ cancelled' = cancelled \cup {r}
  /\ UNCHANGED <<run, row, onBoard, token, secret, pod, agent, sidecar, sweep, mishaps, spoiled>>

\* recover_orphaned_runs, pass 1: by the pid of the run process, for pods too.
OpenOnBoard(r) == row[r].exit = "open" /\ r \in onBoard   \* wrong: the pid is not probed
DeadOnBoard(r) == row[r].exit = "open" /\ r \in onBoard /\ run[r].pc = "dead"

SweepDead(r) ==
  /\ sweep = None
  /\ DeadOnBoard(r)
  /\ row' = [row EXCEPT ![r].exit = "worker_crash"]
  /\ onBoard' = onBoard \ {r}
  /\ UNCHANGED <<run, cancelled, token, secret, pod, agent, sidecar, sweep, mishaps, spoiled>>

\* reconcile_orphans: list the pods, then handle one after the other.
ListPods ==
  /\ sweep = None
  /\ sweep' = {[run |-> r, terminal |-> pod[r].state \in Terminal, open |-> FALSE, read |-> FALSE] :
              r \in {q \in Runs : pod[q].state # "absent"}}
  /\ sweep' # {}
  /\ UNCHANGED <<run, row, onBoard, cancelled, token, secret, pod, agent, sidecar, mishaps, spoiled>>

Rest(p) == IF sweep = {p} THEN None ELSE sweep \ {p}

ReadRun(p) ==
  /\ ~p.read
  /\ sweep' = (sweep \ {p}) \cup {[p EXCEPT !.read = TRUE, !.open = row[p.run].exit = "open"]}
  /\ UNCHANGED <<run, row, onBoard, cancelled, token, secret, pod, agent, sidecar, mishaps, spoiled>>

Collect(p) ==
  /\ p.read /\ ~p.open
  /\ pod' = Deleted(p.run)
  /\ secret' = secret \ {p.run}
  /\ sweep' = Rest(p)
  /\ UNCHANGED <<run, row, onBoard, cancelled, token, agent, sidecar, mishaps, spoiled>>

\* The reconciler does not ask whether a result was reported, nor whether the
\* run process is alive and about to read it.
DeclareLost(p) ==
  /\ p.read /\ p.open /\ p.terminal
  /\ row' = [row EXCEPT ![p.run] = [exit |-> "worker_crash", kind |-> "pod_lost"]]
  /\ pod' = Deleted(p.run)
  /\ secret' = secret \ {p.run}
  /\ sweep' = Rest(p)
  /\ Spoils(p.run)
  /\ UNCHANGED <<run, onBoard, cancelled, token, agent, sidecar, mishaps>>

Adopt(p) ==
  /\ p.read /\ p.open /\ ~p.terminal
  /\ sweep' = Rest(p)
  /\ UNCHANGED <<run, row, onBoard, cancelled, token, secret, pod, agent, sidecar, mishaps, spoiled>>

\* A call to the cluster raises: the rest of the pass is dropped.
ReconcileFails ==
  /\ sweep # None
  /\ Happens
  /\ sweep' = None
  /\ UNCHANGED <<run, row, onBoard, cancelled, token, secret, pod, agent, sidecar, spoiled>>

Reconcile == sweep # None /\ \E p \in sweep : ReadRun(p) \/ Collect(p) \/ DeclareLost(p) \/ Adopt(p)

Next ==
  \/ \E r \in Runs :
       \/ Begin(r) \/ PreflightFails(r) \/ CreateSecret(r) \/ CreatePod(r) \/ CallFails(r) \/ Watch(r) \/ Map(r)
       \/ DeletePod(r) \/ DeleteSecret(r) \/ Finish(r) \/ Tag(r) \/ Leave(r) \/ Kill(r)
       \/ PodStarts(r) \/ PodVanishes(r) \/ Clone(r) \/ RunAgent(r) \/ Report(r) \/ Exit(r)
       \/ \E how \in {"oom", "deadline", "evicted"} : PodDies(r, how)
       \/ Cancel(r) \/ Supervise(r) \/ SweepDead(r)
  \/ ListPods \/ Reconcile \/ ReconcileFails

Spec == Init /\ [][Next]_vars

-----------------------------------------------------------------------------
(* What must hold.                                                         *)

\* What run_one records is what the agent in the pod reported, and with the
\* failure kind that belongs to it, when nothing else decided the run: it was
\* not cancelled, no call, report or pod was lost, and the reconciler did not
\* come between the end of the pod and the poll that sees it.
ReportStands ==
  \A r \in Runs :
    run[r].pc = "done" /\ r \notin spoiled =>
      row[r] = IF agent[r].verdict = "success" THEN Outcome("success", None)
               ELSE Outcome("failed", "run_failed")

\* The daemon deletes a pod with its agent at work only when the run process
\* that would have read its result is dead or has given it up itself.
LeavesWorkAlone ==
  \A r \in Runs :
    sweep # None /\ sweep' # sweep /\ agent[r].pc \in {"clone", "agent", "report"}
    /\ ~pod[r].leaving /\ pod'[r].leaving
    => run[r].pc \in {"dead", "tag", "leave", "done"}
WorkIsNotCutOff == [][LeavesWorkAlone]_vars

-----------------------------------------------------------------------------
(* Why a pass leaves the work alone.                                       *)

\* Where the run process may still need its pod, before and after it makes it.
Before == {"idle", "token", "secret"}
After == {"watch", "map", "deletePod", "deleteSecret", "finish"}
IsOver(r) == pod[r].state \in Terminal \cup {"absent"}

HasResult ==
  \A r \in Runs :
    run[r].pc \in {"deletePod", "deleteSecret", "finish", "tag"} => run[r].result \in Outcomes

\* A run that has made no pod has none in the cluster and none in the pass, and
\* its row is open.
NotYet ==
  \A r \in Runs :
    /\ run[r].pc \in Before => pod[r].state = "absent"
    /\ run[r].pc \in Before /\ sweep # None => \A p \in sweep : p.run # r
    /\ run[r].pc \in {"token", "secret"} => row[r].exit = "open"

\* A row that is closed while the run process waits for the pod was closed by the
\* reconciler, which had seen the end of the pod.
ClosedIsOver ==
  \A r \in Runs : run[r].pc \in After /\ row[r].exit # "open" => IsOver(r)

\* What the pass read of a pod and of a row, an end in each case, is still so.
PassStands ==
  sweep # None => \A p \in sweep :
    /\ p.terminal => IsOver(p.run)
    /\ p.read /\ ~p.open => row[p.run].exit # "open"

Inv == Shapes /\ InPod /\ HasResult /\ NotYet /\ ClosedIsOver /\ PassStands
=============================================================================
