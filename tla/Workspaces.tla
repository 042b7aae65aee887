------------------------------ MODULE Workspaces ------------------------------
(***************************************************************************)
(* The git worktrees runs work in (worker/workspace.py, run_one.py).       *)
(*                                                                         *)
(* A ticket has one workspace per repository; a run prepares them in order *)
(* - a new worktree on a new branch, the recorded one again, or one at a   *)
(* fresh path -, undoes them all if one fails, records what it resolved,   *)
(* lets the agent work, and in the end may commit and remove them.  Names  *)
(* are given by the user or by a template of the project, so two tickets   *)
(* may ask for the same; a clone copies the recorded paths.                *)
(*                                                                         *)
(* One run per ticket at a time; runs of several tickets interleave        *)
(* between the workspaces.  Workspaces of kind directory are used in place *)
(* and have no state; the repositories of a ticket have different names.   *)
(***************************************************************************)
EXTENDS Naturals, Sequences, FiniteSets, FiniteSetsExt

CONSTANTS Tickets, None,
          Repos,       \* number of workspaces of a ticket
          Policies,    \* the policies to check
          MaxRuns,     \* bound: runs
          MaxFaults    \* bound: failures of git, killed processes

WorkspacesAssumption ==
  /\ None \notin Tickets
  /\ Policies \subseteq [cleanup : BOOLEAN, commit : BOOLEAN]
  /\ Repos \in Nat \ {0} /\ MaxRuns \in Nat /\ MaxFaults \in Nat

VARIABLES
  same,      \* all tickets have the same worktree_name
  policy,    \* [cleanup, commit]: cleanup_on_success, commit_on_finish
  rows,      \* rows[t]: the ticket's workspaces, or None before it is created
  ran,       \* tickets with current_run_id
  intent,    \* the staged intent: nightdesk_run_intent and workspace policy
  run,       \* the run of t, or None, see StartRun
  trees,     \* worktrees on disk
  branches,  \* [repo, name]
  runs, faults,
  clones,    \* tickets made by clone_ticket
  failed,    \* tickets with a run that did not get to prepare its workspaces
  lost       \* uncommitted work that was removed: [owner, by, why]

vars == <<same, policy, rows, ran, intent, run, trees, branches, runs, faults, clones, failed, lost>>

-----------------------------------------------------------------------------
Places == 1..Repos

\* A path or a branch: the name, and the numbers that were appended to it.
Path(name, tail) == [name |-> name, tail |-> tail]
WorktreeName(t) == IF same THEN None ELSE t

\* "retry" stands for resume, retry and continue.
Intents == {"first_run", "retry", "recreate_in_place", "fresh_path"}
Restarts == {"recreate_in_place", "fresh_path"}

TypeOK ==
  /\ same \in BOOLEAN /\ policy \in Policies
  /\ \A t \in Tickets : rows[t] = None \/ DOMAIN rows[t] = Places
  /\ ran \subseteq Tickets /\ clones \subseteq Tickets /\ failed \subseteq Tickets
  /\ intent \in [Tickets -> Intents]
  /\ \A t \in Tickets : run[t] = None \/ Len(run[t].bundle) \in 0..Repos
  /\ \A w \in trees : /\ w.repo \in Places /\ w.dirty \in BOOLEAN
                      /\ [repo |-> w.repo, name |-> w.branch] \in branches
  /\ \A v, w \in trees : v.repo = w.repo /\ (v.at = w.at \/ v.branch = w.branch) => v = w
  /\ runs \in 0..MaxRuns /\ faults \in 0..MaxFaults

Init ==
  /\ same \in BOOLEAN
  /\ policy \in Policies
  /\ rows = [t \in Tickets |-> None]
  /\ ran = {} /\ clones = {} /\ failed = {}
  /\ intent = [t \in Tickets |-> "first_run"]
  /\ run = [t \in Tickets |-> None]
  /\ trees = {} /\ branches = {} /\ lost = {}
  /\ runs = 0 /\ faults = 0

Fault == faults < MaxFaults /\ faults' = faults + 1

-----------------------------------------------------------------------------
(* Requests.                                                               *)

Create(t) ==
  /\ rows[t] = None
  /\ rows' = [rows EXCEPT ![t] = [i \in Places |->
                [name |-> WorktreeName(t), path |-> None, branch |-> None, known |-> FALSE]]]
  /\ UNCHANGED <<same, policy, ran, intent, run, trees, branches, runs, faults, clones, failed, lost>>

\* clone_ticket: path, branch and the staged intent are copied.
Clone(t, s) ==
  /\ rows[t] = None /\ rows[s] # None
  /\ rows' = [rows EXCEPT ![t] = [i \in Places |-> [rows[s][i] EXCEPT !.known = FALSE]]]
  /\ intent' = [intent EXCEPT ![t] = intent[s]]
  /\ clones' = clones \cup {t}
  /\ UNCHANGED <<same, policy, ran, run, trees, branches, runs, faults, failed, lost>>

\* resume, retry, continue, restart of a ticket in review or the archive.
Stage(t, what) ==
  /\ t \in ran /\ run[t] = None /\ intent[t] # what /\ what # "first_run"
  /\ intent' = [intent EXCEPT ![t] = what]
  /\ UNCHANGED <<same, policy, rows, ran, run, trees, branches, runs, faults, clones, failed, lost>>

-----------------------------------------------------------------------------
(* Worktrees.                                                              *)

At(i, place) == {w \in trees : w.repo = i /\ w.at = place}
Branch(i, name) == [repo |-> i, name |-> name]

On(places) == {w \in trees : [repo |-> w.repo, at |-> w.at] \in places}
\* cleanup_workspace: git worktree remove --force.
Remove(t, places, why) ==
  /\ trees' = trees \ On(places)
  /\ lost' = lost \cup {[owner |-> w.worker, by |-> t, why |-> why] : w \in {v \in On(places) : v.dirty}}

TargetByName(row) == Path(row.name, <<>>)   \* wrong: forgets the fresh path
Target(row) == IF row.path = None THEN Path(row.name, <<>>) ELSE row.path

\* _allocate_fresh_worktree_slot: the first attempt whose path and branch are free.
Attempt(path, k) == IF k = 1 THEN path ELSE [path EXCEPT !.tail = Append(@, k)]
Fresh(i, row, k) ==
  /\ At(i, Attempt(Target(row), k)) = {}
  /\ Branch(i, Attempt(Path(row.name, <<>>), k)) \notin branches
FirstFresh(i, row) == Min({k \in 1..(MaxRuns + 1) : Fresh(i, row, k)})

\* reuse_existing_worktrees, fresh_worktree_paths.
ReuseUnlessRestart(r) == r.intent \notin Restarts   \* wrong: the first run has no tree of its own
Reuse(r) == r.intent = "retry" \/ (r.intent = "first_run" /\ r.again)

-----------------------------------------------------------------------------
(* A run.                                                                  *)

\* run[t] is [intent, again, phase, bundle]: again if the ticket had run before,
\* phase "prepare" or "work", the bundle of what is prepared so far: [at, branch,
\* reused] each.

\* recreate_in_place removes the recorded worktrees and their branches.
RecordedPaths(t) == {[repo |-> i, at |-> rows[t][i].path] : i \in {j \in Places : rows[t][j].known}}
RecordedBranches(t) == {Branch(i, rows[t][i].branch) : i \in {j \in Places : rows[t][j].known}}

StartRun(t) ==
  /\ rows[t] # None /\ run[t] = None
  /\ runs < MaxRuns /\ runs' = runs + 1
  /\ run' = [run EXCEPT ![t] = [intent |-> intent[t], again |-> t \in ran,
                                phase |-> "prepare", bundle |-> <<>>]]
  /\ ran' = ran \cup {t}
  /\ IF intent[t] = "recreate_in_place"
     THEN /\ Remove(t, RecordedPaths(t), "restart")
          /\ branches' = {b \in branches : b \notin RecordedBranches(t) \/ \E w \in trees' : Branch(w.repo, w.branch) = b}
     ELSE UNCHANGED <<trees, lost, branches>>
  /\ UNCHANGED <<same, policy, rows, intent, faults, clones, failed>>

\* What _create_git_worktree makes of the next workspace of a run: the path and
\* branch, or None if it refuses.
Resolve(t) ==
  LET r == run[t]
      i == Len(r.bundle) + 1
      row == rows[t][i]
      branch == IF r.intent \in Restarts THEN None ELSE row.branch
      new(place, name) ==
        IF Branch(i, name) \in branches THEN None
        ELSE [at |-> place, branch |-> name, reused |-> FALSE]
      k == FirstFresh(i, row)
  IN IF At(i, Target(row)) = {}
     THEN new(Target(row), IF branch = None THEN Path(row.name, <<>>) ELSE branch)
     ELSE IF Reuse(r)
     THEN [at |-> Target(row), reused |-> TRUE,
           branch |-> IF branch = None THEN (CHOOSE w \in At(i, Target(row)) : TRUE).branch ELSE branch]
     ELSE IF r.intent = "fresh_path"
     THEN new(Attempt(Target(row), k), Attempt(Path(row.name, <<>>), k))
     ELSE None

Preparing(t) == run[t] # None /\ run[t].phase = "prepare"

Prepare(t) ==
  /\ Preparing(t) /\ Len(run[t].bundle) < Repos
  /\ Resolve(t) # None
  /\ LET i == Len(run[t].bundle) + 1
         b == Resolve(t)
     IN /\ run' = [run EXCEPT ![t].bundle = Append(@, b)]
        /\ IF b.reused THEN UNCHANGED <<trees, branches>>
           ELSE /\ trees' = trees \cup {[repo |-> i, at |-> b.at, branch |-> b.branch, dirty |-> FALSE, maker |-> t, worker |-> t]}
                /\ branches' = branches \cup {Branch(i, b.branch)}
  /\ UNCHANGED <<same, policy, rows, ran, intent, runs, faults, clones, failed, lost>>

\* Refused, or a git command or the source path fails: what was prepared is
\* removed, its branches stay, nothing is recorded, the intent stays staged.
Bundle(t) == {[repo |-> i, at |-> run[t].bundle[i].at] : i \in DOMAIN run[t].bundle}

PrepareFails(t) ==
  /\ Preparing(t) /\ Len(run[t].bundle) < Repos
  /\ IF Resolve(t) = None THEN UNCHANGED faults ELSE Fault
  /\ Remove(t, Bundle(t), IF \E i \in DOMAIN run[t].bundle : run[t].bundle[i].reused THEN "undo reused" ELSE "undo")
  /\ run' = [run EXCEPT ![t] = None]
  /\ failed' = failed \cup {t}
  /\ UNCHANGED <<same, policy, rows, ran, intent, branches, runs, clones>>

\* _record_workspace_resolution; the intent is consumed.
Record(t) ==
  /\ Preparing(t) /\ Len(run[t].bundle) = Repos
  /\ rows' = [rows EXCEPT ![t] = [i \in Places |->
                [@[i] EXCEPT !.path = run[t].bundle[i].at, !.branch = run[t].bundle[i].branch, !.known = TRUE]]]
  /\ intent' = [intent EXCEPT ![t] = "first_run"]
  /\ run' = [run EXCEPT ![t].phase = "work"]
  /\ UNCHANGED <<same, policy, ran, trees, branches, runs, faults, clones, failed, lost>>

Working(t) == run[t] # None /\ run[t].phase = "work"

\* The agent edits files.
Work(t) ==
  /\ Working(t)
  /\ \E w \in On(Bundle(t)) : ~w.dirty
  /\ trees' = (trees \ On(Bundle(t)))
               \cup {[w EXCEPT !.dirty = TRUE, !.worker = t] : w \in On(Bundle(t))}
  /\ UNCHANGED <<same, policy, rows, ran, intent, run, branches, runs, faults, clones, failed, lost>>

\* The run fails, is cancelled or is killed: the worktrees stay.
Stop(t) ==
  /\ run[t] # None
  /\ IF Working(t) THEN UNCHANGED <<faults, failed>> ELSE Fault /\ failed' = failed \cup {t}
  /\ run' = [run EXCEPT ![t] = None]
  /\ UNCHANGED <<same, policy, rows, ran, intent, trees, branches, runs, clones, lost>>

\* Success: commit_on_finish (which may fail), then cleanup_on_success.
CleanedFirst(t, committed) == On(Bundle(t))   \* wrong: removes before it commits
Committed(t, committed) ==
  IF policy.commit /\ committed THEN {[w EXCEPT !.dirty = FALSE] : w \in On(Bundle(t))} ELSE On(Bundle(t))

Succeed(t) ==
  /\ Working(t)
  /\ \E committed \in BOOLEAN :
       /\ IF committed THEN UNCHANGED faults ELSE policy.commit /\ Fault
       /\ LET mine == Committed(t, committed)
              work == {w \in mine : w.dirty}
          IN IF policy.cleanup
             THEN /\ trees' = trees \ On(Bundle(t))
                  /\ lost' = lost \cup {[owner |-> w.worker, by |-> t,
                                         why |-> IF committed THEN "success" ELSE "not committed"] : w \in work}
             ELSE /\ trees' = (trees \ On(Bundle(t))) \cup mine
                  /\ UNCHANGED lost
  /\ run' = [run EXCEPT ![t] = None]
  /\ UNCHANGED <<same, policy, rows, ran, intent, branches, runs, clones, failed>>

-----------------------------------------------------------------------------
Next ==
  \E t \in Tickets :
    \/ Create(t) \/ \E s \in Tickets : Clone(t, s)
    \/ \E what \in Intents : Stage(t, what)
    \/ StartRun(t) \/ Prepare(t) \/ PrepareFails(t) \/ Record(t)
    \/ Work(t) \/ Stop(t) \/ Succeed(t)

Spec == Init /\ [][Next]_vars

-----------------------------------------------------------------------------
(* Correctness.                                                            *)

\* A ticket works in a tree another one made only if it is a clone, or has
\* failed before: its first attempt never takes what is there, and a restart
\* never does.
TreesAreOwn ==
  \A t \in Tickets \ (clones \cup failed) : run[t] # None =>
    \A i \in DOMAIN run[t].bundle :
      \A w \in At(i, run[t].bundle[i].at) : w.maker = t

\* Uncommitted work goes away only when its own ticket asked for it - a restart
\* in place, or cleanup_on_success without commit_on_finish -, unless the
\* commit failed, a later preparation failed behind a tree that was used again,
\* or the ticket shares its trees.
WorkIsKept ==
  \A l \in lost :
    IF l.owner # l.by THEN {l.owner, l.by} \cap (clones \cup failed) # {}
    ELSE \/ l.why \in {"restart", "not committed", "undo reused"}
         \/ l.why = "success" /\ ~policy.commit

\* Resume, retry and continue reuse the worktree: they do not fail unless git
\* does.
RetryFindsItsTree ==
  \A t \in Tickets : Preparing(t) /\ run[t].intent = "retry" /\ Len(run[t].bundle) < Repos => Resolve(t) # None

\* That holds as long as no preparation has failed, no ticket is a clone, and
\* worktrees are kept: the run is in the trees its ticket recorded.
KeptTreesAreFound ==
  clones \cup failed = {} /\ ~policy.cleanup =>
    \A t \in Tickets :
      Preparing(t) /\ Reuse(run[t]) /\ Len(run[t].bundle) < Repos =>
        /\ Resolve(t) # None
        /\ rows[t][1].known => Resolve(t).at = rows[t][Len(run[t].bundle) + 1].path
=============================================================================
