----------------------------- MODULE TicketForms -----------------------------
(***************************************************************************)
(* What a ticket is made of, and the gate between the inbox and the board  *)
(* (domain/tickets.py, api/routes/tickets.py, api/routes/inbox.py): a      *)
(* ticket may be captured without a profile or a workspace and is          *)
(* completed before it can run; it is edited, cloned, archived and taken   *)
(* back, alone or in bulk, with its run-now flag and the staged keys of    *)
(* its next run in tow.                                                    *)
(*                                                                         *)
(* A request of the API runs alone, in one transaction; a bulk request     *)
(* commits ticket by ticket, and the worker may run tickets in between.    *)
(* Of a ticket's workspaces there are the primary and at most one linked   *)
(* git worktree, by their names.  Positions and dependencies are in        *)
(* TicketQueue, the text for the next run in StagedRuns, the course of a   *)
(* run in TicketRuns.                                                      *)
(***************************************************************************)
EXTENDS Naturals, FiniteSets

CONSTANTS Tickets, None,
          Names,      \* of worktrees
          MaxCalls    \* bound: requests

TicketFormsAssumption == None \notin Tickets \cup Names /\ MaxCalls \in Nat

VARIABLES
  rows,      \* the tickets, see Rows, or None
  bulk,      \* the bulk request under way: [op, todo, updated, skipped], or None
  ungated,   \* tickets that went from the archive to the queue
  renamed,   \* tickets whose primary was renamed alone
  copied,    \* tickets cloned with staged keys that are not theirs
  quiet,     \* tickets archived by archive() for which no run was asked since
  calls

vars == <<rows, bulk, ungated, renamed, copied, quiet, calls>>

-----------------------------------------------------------------------------
Statuses == {"inbox", "draft", "queued", "running", "review", "archived"}
Linked == [name : Names \cup {None}]
Workspaces == [name : Names \cup {None}, linked : Linked \cup {None}]

\* stage: the ticket whose conversation the next run is to continue, or None.
Rows == [status : Statuses, titled : BOOLEAN, profiled : BOOLEAN,
         workspaces : Workspaces \cup {None}, forced : BOOLEAN,
         stage : Tickets \cup {None}, ran : BOOLEAN]

Ops == {"archive", "unarchive", "queued"}

There == {t \in Tickets : rows[t] # None}

TypeOK ==
  /\ rows \in [Tickets -> Rows \cup {None}]
  /\ bulk # None => /\ bulk.op \in Ops
                    /\ bulk.todo \cup bulk.updated \cup bulk.skipped \subseteq Tickets
  /\ ungated \cup renamed \cup copied \cup quiet \subseteq There
  /\ calls \in 0..MaxCalls

Init ==
  /\ rows = [t \in Tickets |-> None]
  /\ bulk = None
  /\ ungated = {} /\ renamed = {} /\ copied = {} /\ quiet = {}
  /\ calls = 0

Asks == bulk = None /\ calls < MaxCalls /\ calls' = calls + 1
Put(t, row) == rows' = [rows EXCEPT ![t] = row]
Status(t) == rows[t].status

-----------------------------------------------------------------------------
(* Rules.                                                                  *)

\* ticket_completeness.
CompleteByTitle(r) == r.titled /\ r.profiled   \* wrong: the workspace is not asked for
Complete(r) == r.titled /\ r.profiled /\ r.workspaces # None

\* _validate_workspace_specs: the linked worktree is named after the primary.
Accepted(w) == w.linked # None => w.linked.name \in {None, w.name}
NormalizedNot(w) == w   \* wrong: the name is only checked
Normalized(w) == IF w.linked = None THEN w ELSE [w EXCEPT !.linked = [name |-> w.name]]

\* _VALID_TRANSITIONS.
Onward == [s \in Statuses |->
  CASE s = "inbox"    -> {"draft", "queued", "archived"}
    [] s = "draft"    -> {"queued", "running", "inbox", "archived"}
    [] s = "queued"   -> {"draft", "running", "archived"}
    [] s = "running"  -> {"review"}
    [] s = "review"   -> {"queued", "archived"}
    [] s = "archived" -> {"queued", "inbox"}]

\* transition_with_position: the gate is only for what leaves the inbox.
MayMove(r, s) ==
  /\ s \in Onward[r.status]
  /\ r.status = "inbox" /\ s \in {"draft", "queued"} => Complete(r)

\* Ticket t is moved to s, its flag set or cleared.
Moved(t, s, forced) ==
  /\ Put(t, [rows[t] EXCEPT !.status = s, !.forced = forced])
  /\ ungated' = IF Status(t) = "archived" /\ s = "queued" /\ ~Complete(rows[t])
                THEN ungated \cup {t} ELSE ungated
  /\ UNCHANGED <<renamed, copied>>

\* archive and unarchive, of a ticket they change.
MayArchive(t) == Status(t) \notin {"running", "archived"}
ArchivedWithFlag(t) ==   \* wrong: run_now survives
  /\ Moved(t, "archived", rows[t].forced)
  /\ quiet' = quiet \cup {t}
Archived(t) ==
  /\ Moved(t, "archived", FALSE)
  /\ quiet' = quiet \cup {t}
QueuedAlways(r) == "queued"   \* wrong: what is incomplete is queued as well
ComesBackTo(r) == IF Complete(r) THEN "queued" ELSE "inbox"
Unarchived(t) ==
  /\ Put(t, [rows[t] EXCEPT !.status = ComesBackTo(rows[t])])
  /\ UNCHANGED <<ungated, renamed, copied, quiet>>

-----------------------------------------------------------------------------
(* Requests about what a ticket is.                                        *)

\* create_ticket; a project's defaults stand for the workspaces of the request.
Create(t) ==
  /\ Asks
  /\ rows[t] = None
  /\ \E s \in Statuses, titled, profiled, forced \in BOOLEAN, w \in Workspaces \cup {None} :
       /\ s # "inbox" => profiled /\ w # None
       /\ w # None => Accepted(w)
       /\ Put(t, [status |-> s, titled |-> titled, profiled |-> profiled, forced |-> forced,
                  workspaces |-> IF w = None THEN None ELSE Normalized(w),
                  stage |-> None, ran |-> FALSE])
  /\ UNCHANGED <<bulk, ungated, renamed, copied, quiet>>

\* clone_ticket: everything but the conversations; refused like a new ticket.
Clone(t, u) ==
  /\ Asks
  /\ t \in There /\ rows[u] = None
  /\ LET r == rows[t] IN
       /\ r.profiled /\ r.workspaces # None /\ Accepted(r.workspaces)
       /\ Put(u, [r EXCEPT !.status = "draft", !.titled = TRUE, !.forced = FALSE, !.ran = FALSE,
                           !.workspaces = Normalized(r.workspaces)])
       /\ copied' = IF r.stage # None THEN copied \cup {u} ELSE copied
  /\ UNCHANGED <<bulk, ungated, renamed, quiet>>

\* update_ticket and the routes for one field.
Retitle(t) ==
  /\ Asks
  /\ Put(t, [rows[t] EXCEPT !.titled = ~@])
  /\ UNCHANGED <<bulk, ungated, renamed, copied, quiet>>

AssignProfile(t) ==
  /\ Asks
  /\ Put(t, [rows[t] EXCEPT !.profiled = TRUE])
  /\ UNCHANGED <<bulk, ungated, renamed, copied, quiet>>

SetRunNow(t) ==
  /\ Asks
  /\ \E forced \in BOOLEAN :
       /\ Put(t, [rows[t] EXCEPT !.forced = forced])
       /\ quiet' = IF forced THEN quiet \ {t} ELSE quiet
  /\ UNCHANGED <<bulk, ungated, renamed, copied>>

\* permission_overrides are replaced whole, the staged keys with them.
SetOverrides(t) ==
  /\ Asks
  /\ Put(t, [rows[t] EXCEPT !.stage = None])
  /\ copied' = copied \ {t}
  /\ UNCHANGED <<bulk, ungated, renamed, quiet>>

SetWorkspaces(t) ==
  /\ Asks
  /\ \E w \in Workspaces :
       /\ Accepted(w)
       /\ Put(t, [rows[t] EXCEPT !.workspaces = Normalized(w)])
  /\ renamed' = renamed \ {t}
  /\ UNCHANGED <<bulk, ungated, copied, quiet>>

\* The fields from before there were several workspaces: the primary is
\* changed in place, and nothing is validated; without one it is made.
PatchPrimary(t) ==
  /\ Asks
  /\ \E name \in Names \cup {None} :
       LET w == rows[t].workspaces IN
         IF w = None
         THEN /\ Put(t, [rows[t] EXCEPT !.workspaces = [name |-> name, linked |-> None]])
              /\ UNCHANGED renamed
         ELSE LET new == [w EXCEPT !.name = IF name = None THEN w.name ELSE name] IN
              /\ Put(t, [rows[t] EXCEPT !.workspaces = new])
              /\ renamed' = IF w.linked # None /\ new.name # w.name THEN renamed \cup {t} ELSE renamed
  /\ UNCHANGED <<bulk, ungated, copied, quiet>>

\* delete_ticket: the rows of its runs refer to the ticket, which is then kept.
Delete(t) ==
  /\ Asks
  /\ Status(t) # "running" /\ ~rows[t].ran
  /\ Put(t, None)
  /\ ungated' = ungated \ {t} /\ renamed' = renamed \ {t}
  /\ copied' = copied \ {t} /\ quiet' = quiet \ {t}
  /\ UNCHANGED bulk

-----------------------------------------------------------------------------
(* Requests about where it is.                                             *)

\* transition_with_position, promote_ticket, decline_ticket, requeue; the inbox
\* is no target of theirs.
Transition(t, s) ==
  /\ Asks
  /\ s # "inbox" /\ MayMove(rows[t], s)
  /\ Moved(t, s, rows[t].forced)
  /\ UNCHANGED <<bulk, quiet>>

SendToInbox(t) ==
  /\ Asks
  /\ Status(t) = "draft"
  /\ Moved(t, "inbox", rows[t].forced)
  /\ UNCHANGED <<bulk, quiet>>

Archive(t) ==
  /\ Asks
  /\ MayArchive(t) /\ Archived(t)
  /\ UNCHANGED bulk

Unarchive(t) ==
  /\ Asks
  /\ Status(t) = "archived" /\ Unarchived(t)
  /\ UNCHANGED bulk

\* request_run_now.
RunNow(t) ==
  /\ Asks
  /\ Status(t) \in {"draft", "queued", "review", "archived"}
  /\ Moved(t, "queued", TRUE)
  /\ quiet' = quiet \ {t}
  /\ UNCHANGED bulk

\* continue_ticket (own), or retry, resume and restart, which begin a new
\* conversation.
Again(t, own) ==
  /\ Asks
  /\ Status(t) \in {"review", "archived"} /\ (own => rows[t].ran)
  /\ Put(t, [rows[t] EXCEPT !.status = "queued", !.forced = TRUE, !.stage = IF own THEN t ELSE None])
  /\ ungated' = IF Status(t) = "archived" /\ ~Complete(rows[t]) THEN ungated \cup {t} ELSE ungated
  /\ copied' = copied \ {t} /\ quiet' = quiet \ {t}
  /\ UNCHANGED <<bulk, renamed>>

\* bulk_archive, bulk_unarchive, bulk_update_status: ticket by ticket.
AskBulk(op, ts) ==
  /\ Asks
  /\ bulk' = [op |-> op, todo |-> ts, updated |-> {}, skipped |-> {}]
  /\ UNCHANGED <<rows, ungated, renamed, copied, quiet>>

BulkMay(op, t) ==
  /\ t \in There
  /\ CASE op = "archive"   -> MayArchive(t)
       [] op = "unarchive" -> Status(t) = "archived"
       [] OTHER            -> MayMove(rows[t], op)

BulkChange(t) ==
  /\ bulk # None /\ t \in bulk.todo /\ BulkMay(bulk.op, t)
  /\ bulk' = [bulk EXCEPT !.todo = @ \ {t}, !.updated = @ \cup {t}]
  /\ CASE bulk.op = "archive"   -> Archived(t)
       [] bulk.op = "unarchive" -> Unarchived(t)
       [] OTHER                 -> Moved(t, bulk.op, rows[t].forced) /\ UNCHANGED quiet
  /\ UNCHANGED calls

\* What is where it is to go counts as updated.
AlreadyThere(op, t) == t \in There /\ op # "unarchive" /\ Status(t) = (IF op = "archive" THEN "archived" ELSE op)
BulkPass(t) ==
  /\ bulk # None /\ t \in bulk.todo /\ ~BulkMay(bulk.op, t)
  /\ bulk' = IF AlreadyThere(bulk.op, t)
             THEN [bulk EXCEPT !.todo = @ \ {t}, !.updated = @ \cup {t}]
             ELSE [bulk EXCEPT !.todo = @ \ {t}, !.skipped = @ \cup {t}]
  /\ UNCHANGED <<rows, ungated, renamed, copied, quiet, calls>>

AnswerBulk ==
  /\ bulk # None /\ bulk.todo = {}
  /\ bulk' = None
  /\ UNCHANGED <<rows, ungated, renamed, copied, quiet, calls>>

-----------------------------------------------------------------------------
(* The worker.                                                             *)

Dispatch(t) ==
  /\ t \in There /\ Status(t) = "queued"
  /\ Put(t, [rows[t] EXCEPT !.status = "running"])
  /\ UNCHANGED <<bulk, ungated, renamed, copied, quiet, calls>>

\* A run needs a profile, workspaces, and a staged conversation of its ticket;
\* it takes the flag and the staged keys with it.
Run(t) ==
  /\ t \in There /\ Status(t) = "running"
  /\ rows[t].profiled /\ rows[t].workspaces # None /\ rows[t].stage \in {None, t}
  /\ Put(t, [rows[t] EXCEPT !.status = "review", !.ran = TRUE, !.forced = FALSE, !.stage = None])
  /\ copied' = copied \ {t}
  /\ UNCHANGED <<bulk, ungated, renamed, quiet, calls>>

\* Or its setup fails, which leaves them.
SetupFails(t) ==
  /\ t \in There /\ Status(t) = "running"
  /\ Put(t, [rows[t] EXCEPT !.status = "review"])
  /\ UNCHANGED <<bulk, ungated, renamed, copied, quiet, calls>>

Edit(t) ==
  t \in There /\ (Retitle(t) \/ AssignProfile(t) \/ SetRunNow(t) \/ SetOverrides(t)
                    \/ SetWorkspaces(t) \/ PatchPrimary(t) \/ Delete(t))
MoveIt(t) ==
  t \in There /\ (SendToInbox(t) \/ Archive(t) \/ Unarchive(t) \/ RunNow(t)
                    \/ (\E s \in Statuses : Transition(t, s)) \/ (\E own \in BOOLEAN : Again(t, own)))

Next ==
  \/ \E t \in Tickets : Create(t) \/ Edit(t) \/ MoveIt(t) \/ Dispatch(t) \/ Run(t) \/ SetupFails(t)
                          \/ BulkChange(t) \/ BulkPass(t)
  \/ \E t, u \in Tickets : Clone(t, u)
  \/ \E op \in Ops, ts \in SUBSET Tickets \ {{}} : AskBulk(op, ts)
  \/ AnswerBulk

Spec == Init /\ [][Next]_vars

-----------------------------------------------------------------------------
\* What is on the board has what a run needs, a profile and workspaces, except
\* for a ticket that was archived incomplete and asked back without unarchive.
\* (Its title can be blank from the start, or become so.)
BoardIsRunnable ==
  \A t \in There \ ungated :
    Status(t) \in {"draft", "queued", "running", "review"} =>
      rows[t].profiled /\ rows[t].workspaces # None

\* A linked worktree has the name of the primary, through edits and clones,
\* except where the primary was renamed alone.
LinkedFollowPrimary ==
  \A t \in There \ renamed :
    rows[t].workspaces # None /\ rows[t].workspaces.linked # None =>
      rows[t].workspaces.linked.name = rows[t].workspaces.name

\* An archived ticket comes back without a run-now flag nobody set since.
ComesBackQuietly == \A t \in quiet : ~rows[t].forced

\* The next run of a ticket continues a conversation of that ticket, except for
\* clones of a ticket that had one staged, whose runs fail.
StagedIsOwn == \A t \in There \ copied : rows[t].stage \in {None, t}

\* What a bulk request is about to report as archived is archived.
BulkAnswerIsTrue ==
  bulk # None /\ bulk.op = "archive" => \A t \in bulk.updated : rows[t] # None /\ Status(t) = "archived"
=============================================================================
