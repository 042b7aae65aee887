------------------------------ MODULE StagedRuns ------------------------------
(***************************************************************************)
(* What the next run of a ticket will be told, and in which conversation.  *)
(*                                                                         *)
(* Two parts of the ticket row are a mailbox between requests and runs:    *)
(* next_run_context, the text the next agent is told, and the nightdesk_*  *)
(* keys of permission_overrides, the intent and the conversation of the    *)
(* next run.  A request to continue, retry, resume or restart writes them  *)
(* in three commits; guidance, review comments and the summaries of        *)
(* upstream tickets are added to the text; a run loads both when it starts *)
(* and clears what it loaded at the end of its setup.                      *)
(*                                                                         *)
(* The API process runs one request at a time (its routes are coroutines   *)
(* that do not await), but between two commits of a request, runs and      *)
(* hand-offs of other tickets go on.  A text is a value that is used once. *)
(* The ways to give up a ticket before it runs are one action (Unqueue).   *)
(***************************************************************************)
EXTENDS Integers, FiniteSets, Sequences

CONSTANTS Texts, None,
          MaxRuns,     \* bound: runs of the ticket
          MaxConvs,    \* bound: conversations of the ticket
          MaxEvents    \* bound: cancellations, failures and crashes

Intents == {"continue", "fresh"}   \* fresh: retry, resume, restart: a new conversation
Stagings == [intent : Intents, conv : 0..MaxConvs]
\* An upstream run's summary, and the text it read before.
Handoffs == [text : Texts, read : SUBSET Texts]

StagedRunsAssumption ==
  /\ None \notin Texts /\ None \notin Handoffs \cup Stagings
  /\ MaxRuns \in Nat \ {0} /\ MaxConvs \in Nat \ {0} /\ MaxEvents \in Nat

VARIABLES
  status,     \* the column of the ticket (queued, running; review also for archived)
  ctx,        \* next_run_context, as the set of texts it is made of
  prompt,     \* the texts merged into the prompt
  staged,     \* the nightdesk_* overrides: [intent, conv], or None
  current,    \* current_conversation_id, 0 for none
  convs,      \* conversations in order of creation: has it a session_id?
  runs,       \* the run processes in order of dispatch, see RunRecords
  req,        \* the request under way, or None
  handoff,    \* an upstream run about to append its summary, or None
  used,       \* the texts written or about to be
  told,       \* <<text, run>>: what agents were told as context
  wish,       \* what the last accepted request asked for, until a run clears it
  dropped,    \* texts that were replaced, or lost to a race or a failed run
  repeated,   \* texts two writers or two runs got hold of
  events

vars == <<status, ctx, prompt, staged, current, convs, runs, req, handoff, used, told,
          wish, dropped, repeated, events>>

-----------------------------------------------------------------------------
Wishes == [intent : Intents, conv : 0..MaxConvs, text : Texts \cup {None}]

\* setup: the row is loaded; ready: it is cleared, the agent not yet told.
RunRecords == [pc : {"spawned", "setup", "ready", "told", "over"}, ctx : SUBSET Texts,
               staged : Stagings \cup {None}, conv : 0..MaxConvs,
               wish : Wishes \cup {None}]

Requests == [step : {"stage", "queue"}, intent : Intents, conv : 0..MaxConvs,
             text : Texts \cup {None}]

\* The conversation a staging continues, if any, exists and can be resumed.
TypeOK ==
  /\ status \in {"queued", "running", "review"}
  /\ ctx \subseteq Texts /\ prompt \subseteq Texts
  /\ staged \in Stagings \cup {None}
  /\ convs \in Seq(BOOLEAN) /\ Len(convs) <= MaxConvs
  /\ current \in 0..Len(convs)
  /\ runs \in Seq(RunRecords) /\ Len(runs) <= MaxRuns
  /\ req \in Requests \cup {None}
  /\ handoff \in Handoffs \cup {None}
  /\ used \subseteq Texts /\ told \subseteq Texts \X (1..MaxRuns)
  /\ wish \in Wishes \cup {None}
  /\ dropped \subseteq Texts /\ repeated \subseteq Texts
  /\ events \in 0..MaxEvents
  /\ staged # None /\ staged.intent = "continue" => staged.conv \in DOMAIN convs /\ convs[staged.conv]

\* A run that is over, or not begun.
Blank(pc) == [pc |-> pc, ctx |-> {}, staged |-> None, conv |-> 0, wish |-> None]
Gone == Blank("over")

Init ==
  /\ status = "review"
  /\ ctx = {} /\ prompt = {} /\ staged = None
  /\ current = 1 /\ convs \in {<<TRUE>>, <<FALSE>>}   \* its first turn may have recorded none
  /\ runs = <<>> /\ req = None /\ handoff = None
  /\ used = {} /\ told = {} /\ wish = None /\ dropped = {} /\ repeated = {}
  /\ events = 0

Told == {p[1] : p \in told}
HeldBy(pc) == UNION {runs[r].ctx : r \in {q \in DOMAIN runs : runs[q].pc = pc}}
Unused == Texts \ used

Happens == events < MaxEvents /\ events' = events + 1

-----------------------------------------------------------------------------
(* Requests to run again: continue_ticket, new_conversation_ticket,        *)
(* resume_ticket, retry_ticket, restart_ticket.                            *)

ResumableAnyway(c) == TRUE   \* wrong: no check of the session_id
Resumable(c) == convs[c]

\* A message replaces what was staged, and is committed before the ticket's
\* status is looked at (new_conversation_ticket looks first).
SetFirst(text, looksFirst) ==
  IF text = None \/ (looksFirst /\ status # "review")
    THEN UNCHANGED <<ctx, used, dropped>>
    ELSE ctx' = {text} /\ used' = used \cup {text} /\ dropped' = dropped \cup ctx

AskToContinue(c, text) ==
  /\ req = None
  /\ SetFirst(text, FALSE)
  /\ req' = IF status = "review" /\ Resumable(c)
              THEN [step |-> "stage", intent |-> "continue", conv |-> c, text |-> text]
              ELSE None
  /\ UNCHANGED <<status, prompt, staged, current, convs, runs, handoff, told, wish, repeated, events>>

AskAfresh(text, looksFirst) ==
  /\ req = None
  /\ SetFirst(text, looksFirst)
  /\ req' = IF status = "review"
              THEN [step |-> "stage", intent |-> "fresh", conv |-> 0, text |-> text]
              ELSE None
  /\ UNCHANGED <<status, prompt, staged, current, convs, runs, handoff, told, wish, repeated, events>>

\* _stage_next_run and its commit; continuing makes the conversation current.
StageRun ==
  /\ req # None /\ req.step = "stage"
  /\ staged' = [intent |-> req.intent, conv |-> req.conv]
  /\ current' = IF req.intent = "continue" THEN req.conv ELSE current
  /\ wish' = [intent |-> req.intent, conv |-> req.conv, text |-> req.text]
  /\ req' = [req EXCEPT !.step = "queue"]
  /\ UNCHANGED <<status, ctx, prompt, convs, runs, handoff, used, told, dropped, repeated, events>>

\* request_run_now.
QueueRun ==
  /\ req # None /\ req.step = "queue"
  /\ status' = IF status = "review" THEN "queued" ELSE status
  /\ req' = None
  /\ UNCHANGED <<ctx, prompt, staged, current, convs, runs, handoff, used, told, wish, dropped,
                 repeated, events>>

-----------------------------------------------------------------------------
(* Other requests.                                                         *)

SetContext(text) ==
  /\ req = None
  /\ ctx' = IF text = None THEN {} ELSE {text}
  /\ dropped' = dropped \cup ctx
  /\ used' = used \cup ({text} \ {None})
  /\ UNCHANGED <<status, prompt, staged, current, convs, runs, req, handoff, told, wish,
                 repeated, events>>

\* append_next_run_context: review comments; within one request the row is
\* read and written before another process gets a word in.
AppendContext(text) ==
  /\ req = None
  /\ ctx' = ctx \cup {text}
  /\ used' = used \cup {text}
  /\ UNCHANGED <<status, prompt, staged, current, convs, runs, req, handoff, told, wish,
                 dropped, repeated, events>>

\* merge_next_run_context_into_prompt.  A run in its setup still tells it.
MergeContext ==
  /\ req = None /\ ctx # {}
  /\ prompt' = prompt \cup ctx
  /\ ctx' = {}
  /\ repeated' = repeated \cup (ctx \cap (HeldBy("setup") \cup HeldBy("ready")))
  /\ UNCHANGED <<status, staged, current, convs, runs, req, handoff, used, told, wish, dropped, events>>

\* A plain requeue or run-now.
Requeue ==
  /\ req = None /\ status = "review" /\ Happens
  /\ status' = "queued"
  /\ UNCHANGED <<ctx, prompt, staged, current, convs, runs, req, handoff, used, told, wish,
                 dropped, repeated>>

\* Taken out of the queue, or cancelled: a run under way goes on to its end.
Unqueue ==
  /\ req = None /\ status \in {"queued", "running"} /\ Happens
  /\ status' = "review"
  /\ UNCHANGED <<ctx, prompt, staged, current, convs, runs, req, handoff, used, told, wish,
                 dropped, repeated>>

-----------------------------------------------------------------------------
(* _handoff_to_dependents, in the run process of an upstream ticket.       *)

ReadHandoff(text) ==
  /\ handoff = None
  /\ handoff' = [text |-> text, read |-> ctx]
  /\ used' = used \cup {text}
  /\ UNCHANGED <<status, ctx, prompt, staged, current, convs, runs, req, told, wish,
                 dropped, repeated, events>>

\* The text read, and the summary behind it: whatever was written since is gone,
\* and whatever was taken away since is back.
WriteHandoff ==
  /\ handoff # None
  /\ ctx' = handoff.read \cup {handoff.text}
  /\ dropped' = dropped \cup (ctx \ handoff.read)
  /\ repeated' = repeated \cup (handoff.read \ ctx)
  /\ handoff' = None
  /\ UNCHANGED <<status, prompt, staged, current, convs, runs, req, used, told, wish, events>>

-----------------------------------------------------------------------------
(* run_one.                                                                *)

Dispatch ==
  /\ status = "queued" /\ Len(runs) < MaxRuns
  /\ status' = "running"
  /\ runs' = Append(runs, Blank("spawned"))
  /\ UNCHANGED <<ctx, prompt, staged, current, convs, req, handoff, used, told, wish, dropped,
                 repeated, events>>

\* The conversation of the run that loads the row now.
FreshConversation == Len(convs) + 1   \* wrong: the staged one is not looked at
NextConversation == IF staged # None /\ staged.conv # 0 THEN staged.conv ELSE Len(convs) + 1

\* The row is loaded and not read again before the agent has finished; the
\* staged conversation, or a new one, becomes the current one with start_run.
Load(r) ==
  /\ runs[r].pc = "spawned"
  /\ LET conv == NextConversation
     IN /\ conv <= MaxConvs
        /\ convs' = IF conv \in DOMAIN convs THEN convs ELSE Append(convs, FALSE)
        /\ current' = conv
        /\ runs' = [runs EXCEPT ![r] = [pc |-> "setup", ctx |-> ctx, staged |-> staged,
                                        conv |-> conv, wish |-> wish]]
  /\ repeated' = repeated \cup (ctx \cap (HeldBy("setup") \cup HeldBy("ready")))
  /\ UNCHANGED <<status, ctx, prompt, staged, req, handoff, used, told, wish, dropped, events>>

\* An attribute set to the value it was loaded with is not written.
LeftContextNever(r) == {}   \* wrong: clears a text it never saw
LeftContext(r) == IF runs[r].ctx # {} THEN {} ELSE ctx

LeftStaging(r) == IF runs[r].staged # None THEN None ELSE staged

\* The end of the setup, committed with the run's token.
Clear(r) ==
  /\ runs[r].pc = "setup"
  /\ ctx' = LeftContext(r)
  /\ staged' = LeftStaging(r)
  /\ wish' = IF runs[r].staged # None THEN None ELSE wish
  /\ dropped' = IF runs[r].ctx # {} THEN dropped \cup (ctx \ runs[r].ctx) ELSE dropped
  /\ runs' = [runs EXCEPT ![r].pc = "ready"]
  /\ UNCHANGED <<status, prompt, current, convs, req, handoff, used, told, repeated, events>>

\* The agent starts, and its session may be recorded.
Tell(r) ==
  /\ runs[r].pc = "ready"
  /\ told' = told \cup (runs[r].ctx \X {r})
  /\ \E s \in BOOLEAN : convs' = [convs EXCEPT ![runs[r].conv] = @ \/ s]
  /\ runs' = [runs EXCEPT ![r].pc = "told"]
  /\ UNCHANGED <<status, ctx, prompt, staged, current, req, handoff, used, wish, dropped,
                 repeated, events>>

Land(r) ==
  /\ runs' = [runs EXCEPT ![r] = Gone]
  /\ status' = IF status = "running" THEN "review" ELSE status

Finish(r) ==
  /\ runs[r].pc = "told"
  /\ Land(r)
  /\ UNCHANGED <<ctx, prompt, staged, current, convs, req, handoff, used, told, wish, dropped,
                 repeated, events>>

\* A step of the setup fails; after the clear, the loaded text goes with it.
SetupFails(r) ==
  /\ runs[r].pc \in {"spawned", "setup", "ready"} /\ Happens
  /\ Land(r)
  /\ dropped' = IF runs[r].pc = "ready" THEN dropped \cup runs[r].ctx ELSE dropped
  /\ UNCHANGED <<ctx, prompt, staged, current, convs, req, handoff, used, told, wish, repeated>>

\* The process is killed; the daemon's sweep puts a running ticket back.
Killed(r) ==
  /\ runs[r].pc \in {"spawned", "setup", "ready", "told"} /\ Happens
  /\ runs' = [runs EXCEPT ![r] = Gone]
  /\ status' \in IF status = "running" THEN {"queued", "running"} ELSE {status}
  /\ dropped' = IF runs[r].pc = "ready" THEN dropped \cup runs[r].ctx ELSE dropped
  /\ UNCHANGED <<ctx, prompt, staged, current, convs, req, handoff, used, told, wish, repeated>>

-----------------------------------------------------------------------------
Next ==
  \/ \E t \in Unused \cup {None} :
       \/ \E c \in DOMAIN convs : AskToContinue(c, t)
       \/ \E looksFirst \in BOOLEAN : AskAfresh(t, looksFirst)
       \/ SetContext(t)
  \/ \E t \in Unused : AppendContext(t) \/ ReadHandoff(t)
  \/ StageRun \/ QueueRun \/ MergeContext \/ Requeue \/ Unqueue \/ WriteHandoff \/ Dispatch
  \/ \E r \in DOMAIN runs :
       Load(r) \/ Clear(r) \/ Tell(r) \/ Finish(r) \/ SetupFails(r) \/ Killed(r)

Spec == Init /\ [][Next]_vars

-----------------------------------------------------------------------------
(* Correctness.                                                            *)

Fates(t) == Cardinality({r \in DOMAIN runs : <<t, r>> \in told})
            + Cardinality({r \in DOMAIN runs : runs[r].pc = "ready" /\ t \in runs[r].ctx})
            + (IF t \in ctx THEN 1 ELSE 0) + (IF t \in prompt THEN 1 ELSE 0)
Written == IF handoff = None THEN used ELSE used \ {handoff.text}

\* A text that was accepted waits, is told to one agent or is part of the
\* prompt, and is nowhere twice.  It gets lost only where a message or a
\* guidance replaced it, a run failed behind its clear, or it was added in the
\* middle of a setup or of a hand-off; it is repeated only where a hand-off
\* wrote back what was taken, or a second reader came between a run's load and
\* its clear.
OneFate ==
  \A t \in Written :
    /\ t \notin dropped => Fates(t) >= 1
    /\ t \notin repeated => Fates(t) <= 1

\* A run carries out what the last accepted request asked for: its intent, its
\* conversation, and its message unless that found another fate (a run that was
\* cancelled before its setup may take it away between two commits).
RunFollowsRequest ==
  \A r \in DOMAIN runs :
    LET w == runs[r].wish IN
    runs[r].pc = "setup" /\ w # None =>
      /\ runs[r].staged = [intent |-> w.intent, conv |-> w.conv]
      /\ w.conv # 0 => runs[r].conv = w.conv
      /\ w.text # None => w.text \in runs[r].ctx \cup prompt \cup dropped \cup repeated \cup Told \cup HeldBy("ready")
=============================================================================
