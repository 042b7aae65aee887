----------------------------- MODULE AccessTokens -----------------------------
(***************************************************************************)
(* Who may call the API: the tokens the admin mints for agents, and the    *)
(* token of each run (domain/api_tokens.py, domain/run_tokens.py,          *)
(* domain/scopes.py, api/auth.py).  A request passes one gate after        *)
(* another; each reads the token anew, and between them, and before the    *)
(* handler runs, tokens are revoked and deleted and runs end.  Cookies and *)
(* the root bearer pass every gate and are the admin's own actions here.   *)
(***************************************************************************)
EXTENDS Integers, Sequences

CONSTANTS None,
          Agents,        \* tokens for agents
          Runs, Ticket,  \* runs; the ticket of each
          Clients,       \* requests that are served at a time
          Wishes,        \* what the admin asks for: [bundle, scopes, profiles, days]
          Extras,        \* run_token_scopes of a profile; an import takes any
          Calls,         \* what is called: [gates, ticket, profile]: on which ticket
                         \* (routes of a run) and profile (new tickets), or None
          Resolution,    \* _LAST_USED_RESOLUTION_SECONDS
          RunLife,       \* max_run_duration_seconds + grace_seconds
          MaxTime, MaxCalls   \* bounds: the clock, requests

VARIABLES
  clock,
  api,       \* rows of api_tokens, or None
  run,       \* rows of run_tokens, or None
  call,      \* requests being served, or None
  granted,   \* history: what a token was minted or issued for
  seen,      \* history: when a token of an agent last passed for valid, or None
  done,      \* history: calls of tokens whose handler ran
  calls      \* requests so far

vars == <<clock, api, run, call, granted, seen, done, calls>>

-----------------------------------------------------------------------------
(* The vocabulary.                                                         *)

AllScopes ==
  {"tickets.read", "tickets.create", "tickets.update", "tickets.transition", "tickets.run",
   "tickets.archive", "tickets.delete", "runs.read", "comments.read", "comments.write",
   "projects.read", "projects.write", "labels.write", "profiles.read", "profiles.write",
   "providers.read", "providers.write", "config.read", "config.write", "cron.read", "cron.write",
   "agents.read", "agents.message", "agents.admin", "analytics.read", "integrations.read",
   "integrations.link", "integrations.write", "fs.read", "tokens.admin"}

HumanOnly ==
  {"profiles.write", "cron.write", "config.write", "providers.write", "agents.message",
   "agents.admin", "tickets.delete", "integrations.write", "tokens.admin"}

Observer ==
  {"tickets.read", "runs.read", "comments.read", "projects.read", "providers.read", "config.read",
   "cron.read", "agents.read", "analytics.read"}
PmAgent ==
  {"tickets.read", "tickets.create", "tickets.update", "tickets.transition", "tickets.archive",
   "runs.read", "comments.read", "comments.write", "projects.read", "labels.write", "analytics.read"}
Bundles ==
  [observer |-> Observer, reviewer |-> Observer \cup {"comments.write"},
   pm_agent |-> PmAgent, operator |-> PmAgent \cup {"tickets.run", "cron.read"}]

\* What every run gets, and what a profile may add.
SelfScopes ==
  {"ticket.read.self", "ticket.update.next_run_context", "run.append_transcript.self",
   "run.mark_done.self"}
Grantable == {"ticket.create", "integrations.read", "integrations.link.self"}

\* The names of run tokens in the vocabulary of the routes; a token has both.
Alias ==
  [s \in (SelfScopes \cup Grantable) \ {"integrations.read"} |->
     CASE s = "ticket.create" -> "tickets.create"
       [] s = "ticket.read.self" -> "tickets.read.self"
       [] s = "ticket.update.next_run_context" -> "tickets.update.next_run_context.self"
       [] s = "integrations.link.self" -> "integrations.link"
       [] OTHER -> "runs.write.self"]
Expanded(scopes) == scopes \cup {Alias[s] : s \in scopes \cap DOMAIN Alias}

Holders == Agents \cup Runs
Times == 0..MaxTime
ApiRows == [scopes : SUBSET AllScopes, profiles : {w.profiles : w \in Wishes},
            expires : Nat \cup {None}, revoked : Times \cup {None}, used : Times \cup {None}]
RunRows == [scopes : SUBSET (SelfScopes \cup Grantable), expires : Nat, revoked : Times \cup {None}]
Principals == [scopes : SUBSET (AllScopes \cup Expanded(SelfScopes \cup Grantable)),
               profiles : {w.profiles : w \in Wishes} \cup {{}},
               ticket : {Ticket[r] : r \in Runs} \cup {None}]
Requests == [by : Holders, what : Calls, gate : Nat, as : Principals \cup {None}, at : Times]
AgentGrants == [wish : Wishes, expires : Nat \cup {None}]
RunGrants == [wish : Extras, expires : Nat]

\* Every route has a gate; the one that makes tickets asks for tickets.create.
AccessTokensAssumption ==
  /\ None \notin Nat \cup Agents \cup Runs \cup DOMAIN Bundles /\ Agents \cap Runs = {}
  /\ None \notin ApiRows \cup RunRows \cup Principals \cup Requests \cup AgentGrants \cup RunGrants
  /\ \A w \in Wishes : /\ w.scopes = None => w.bundle \in DOMAIN Bundles \cup {None}
                       /\ w.days # None => w.days \in Nat \ {0}
  /\ \A k \in Calls : /\ k.gates \in Seq(STRING) \ {<< >>}
                      /\ k.profile # None => \E i \in DOMAIN k.gates : k.gates[i] = "tickets.create"
  /\ {Resolution, RunLife} \subseteq Nat \ {0}
  /\ {MaxTime, MaxCalls} \subseteq Nat

-----------------------------------------------------------------------------
TypeOK ==
  /\ clock \in Times /\ calls \in 0..MaxCalls
  /\ api \in [Agents -> ApiRows \cup {None}] /\ run \in [Runs -> RunRows \cup {None}]
  /\ granted = [h \in Holders |-> granted[h]] /\ seen \in [Agents -> Times \cup {None}]
  /\ \A t \in Agents : granted[t] \in AgentGrants \cup {None}
  /\ \A r \in Runs : granted[r] \in RunGrants \cup {None}
  /\ call \in [Clients -> Requests \cup {None}]
  /\ \A c \in Clients : call[c] # None =>
       /\ call[c].gate \in 0..Len(call[c].what.gates)
       /\ call[c].as = None <=> call[c].gate = 0
  /\ done \subseteq [by : Holders, what : Calls, at : Times]

Init ==
  /\ clock = 0 /\ calls = 0
  /\ api = [t \in Agents |-> None] /\ run = [r \in Runs |-> None]
  /\ call = [c \in Clients |-> None]
  /\ granted = [h \in Holders |-> None] /\ seen = [t \in Agents |-> None]
  /\ done = {}

-----------------------------------------------------------------------------
(* The admin and the runs.                                                 *)

\* The mint route: an explicit list wins over a bundle, which is copied.
Requested(w) == IF w.scopes # None THEN w.scopes ELSE IF w.bundle # None THEN Bundles[w.bundle] ELSE {}
Expiry(w) == IF w.days = None THEN None ELSE clock + w.days
Mintable(scopes) == scopes # {} /\ scopes \subseteq AllScopes /\ scopes \cap HumanOnly = {}

Mint(t, w) ==
  /\ granted[t] = None
  /\ Mintable(Requested(w))
  /\ api' = [api EXCEPT ![t] = [scopes |-> Requested(w), profiles |-> w.profiles,
                                expires |-> Expiry(w), revoked |-> None, used |-> None]]
  /\ granted' = [granted EXCEPT ![t] = [wish |-> w, expires |-> Expiry(w)]]
  /\ UNCHANGED <<clock, run, call, seen, done, calls>>

\* (A token that is revoked again keeps the first time.)
RevokeApiToken(t) ==
  /\ api[t] # None /\ api[t].revoked = None
  /\ api' = [api EXCEPT ![t].revoked = clock]
  /\ UNCHANGED <<clock, run, call, granted, seen, done, calls>>

DeleteApiToken(t) ==
  /\ api[t] # None
  /\ api' = [api EXCEPT ![t] = None]
  /\ UNCHANGED <<clock, run, call, granted, seen, done, calls>>

\* run_one: the token is there before the agent starts.
IssueRunToken(r, extra) ==
  /\ run[r] = None
  /\ run' = [run EXCEPT ![r] = [scopes |-> SelfScopes \cup (extra \cap Grantable),
                                expires |-> clock + RunLife, revoked |-> None]]
  /\ granted' = [granted EXCEPT ![r] = [wish |-> extra, expires |-> clock + RunLife]]
  /\ UNCHANGED <<clock, api, call, seen, done, calls>>

\* run_one, on every way out; not if its process is killed, or if this fails.
RevokeForRun(r) ==
  /\ run[r] # None /\ run[r].revoked = None
  /\ run' = [run EXCEPT ![r].revoked = clock]
  /\ UNCHANGED <<clock, api, call, granted, seen, done, calls>>

-----------------------------------------------------------------------------
(* Requests that carry a token.                                            *)

Send(c, h, what) ==
  /\ call[c] = None /\ calls < MaxCalls /\ granted[h] # None
  /\ call' = [call EXCEPT ![c] = [by |-> h, what |-> what, gate |-> 0, as |-> None, at |-> clock]]
  /\ calls' = calls + 1
  /\ UNCHANGED <<clock, api, run, granted, seen, done>>

Answer(c) == call' = [call EXCEPT ![c] = None]

\* resolve_token.  The time of the last use is written once per resolution.
Row(h) == IF h \in Agents THEN api[h] ELSE run[h]
Valid(row) == row # None /\ row.revoked = None /\ (row.expires # None => row.expires > clock)
Principal(h) ==
  IF h \in Agents THEN [scopes |-> api[h].scopes, profiles |-> api[h].profiles, ticket |-> None]
  ELSE [scopes |-> Expanded(run[h].scopes), profiles |-> {}, ticket |-> Ticket[h]]
LastUsed(used) == IF used # None /\ clock - used < Resolution THEN used ELSE clock
Touch(h) ==
  IF h \in Agents
  THEN /\ api' = [api EXCEPT ![h].used = LastUsed(@)]
       /\ seen' = [seen EXCEPT ![h] = clock]
  ELSE UNCHANGED <<api, seen>>

\* A dependency scoped(...): 401, 403, or on to the next.
Unauthorized(c) ==
  /\ call[c] # None /\ call[c].gate < Len(call[c].what.gates)
  /\ ~Valid(Row(call[c].by))
  /\ Answer(c)
  /\ UNCHANGED <<clock, api, run, granted, seen, done, calls>>

Gate(c) ==
  LET k == call[c] IN
    /\ k # None /\ k.gate < Len(k.what.gates)
    /\ Valid(Row(k.by))
    /\ Touch(k.by)
    /\ IF k.what.gates[k.gate + 1] \in Principal(k.by).scopes
       THEN call' = [call EXCEPT ![c] = [by |-> k.by, what |-> k.what, gate |-> k.gate + 1,
                                         as |-> Principal(k.by), at |-> clock]]
       ELSE Answer(c)
    /\ UNCHANGED <<clock, run, granted, done, calls>>

\* The handler: on a ticket of its own (enforce_self_ticket), on a profile the
\* token is limited to (enforce_profile_allowlist).
Allowed(as, what) ==
  /\ what.ticket # None => as.ticket = what.ticket
  /\ what.profile # None /\ as.profiles # {} => what.profile \in as.profiles

Handle(c) ==
  LET k == call[c] IN
    /\ k # None /\ k.gate = Len(k.what.gates)
    /\ done' = IF Allowed(k.as, k.what) THEN done \cup {[by |-> k.by, what |-> k.what, at |-> k.at]} ELSE done
    /\ Answer(c)
    /\ UNCHANGED <<clock, api, run, granted, seen, calls>>

\* A request fails, or is lost with the process.
Drop(c) ==
  /\ call[c] # None
  /\ Answer(c)
  /\ UNCHANGED <<clock, api, run, granted, seen, done, calls>>

Tick ==
  /\ clock < MaxTime
  /\ clock' = clock + 1
  /\ UNCHANGED <<api, run, call, granted, seen, done, calls>>

Next ==
  \/ \E t \in Agents : \/ \E w \in Wishes : Mint(t, w)
                       \/ RevokeApiToken(t) \/ DeleteApiToken(t)
  \/ \E r \in Runs : (\E extra \in Extras : IssueRunToken(r, extra)) \/ RevokeForRun(r)
  \/ \E c \in Clients : \/ \E h \in Holders, what \in Calls : Send(c, h, what)
                        \/ Unauthorized(c) \/ Gate(c) \/ Handle(c) \/ Drop(c)
  \/ Tick

Spec == Init /\ [][Next]_vars

-----------------------------------------------------------------------------
(* Properties.                                                             *)

\* What a handler did for a token was within what the token was given: by the
\* admin, who cannot give what is for humans only; by the run, for its own ticket
\* alone, and creating tickets only if its profile says so (scoped, issue_run_token).
CallsAreGranted ==
  \A e \in done :
    LET asked == {e.what.gates[i] : i \in DOMAIN e.what.gates}
        wish == granted[e.by].wish
    IN  /\ asked \cap HumanOnly = {}
        /\ e.by \in Agents =>
             /\ asked \subseteq IF wish.scopes # None THEN wish.scopes ELSE Bundles[wish.bundle]
             /\ e.what.profile # None /\ wish.profiles # {} => e.what.profile \in wish.profiles
             /\ e.what.ticket = None
        /\ e.by \in Runs =>
             /\ e.what.ticket \in {None, Ticket[e.by]}
             /\ e.what.profile # None => "ticket.create" \in wish

\* No token passes a gate after it was revoked, nor from its expiry on; a handler
\* that runs later passed its last gate before (Revocation is a row flag checked at
\* resolution).
RevocationStands ==
  \A e \in done \cup {call[c] : c \in {c \in Clients : call[c] # None /\ call[c].gate > 0}} :
    /\ Row(e.by) # None /\ Row(e.by).revoked # None => e.at <= Row(e.by).revoked
    /\ granted[e.by].expires # None => e.at < granted[e.by].expires

\* The list of tokens tells when each was last used, to within the resolution, and
\* does not tell of a use that was none (_touch_last_used).
UsesAreRecorded ==
  \A t \in Agents : api[t] # None =>
    LET used == api[t].used IN
      /\ used = None <=> seen[t] = None
      /\ used # None => used <= seen[t] /\ seen[t] < used + Resolution
=============================================================================
