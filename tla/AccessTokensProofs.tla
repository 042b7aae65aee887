-------------------------- MODULE AccessTokensProofs --------------------------
(***************************************************************************)
(* Proofs about AccessTokens, for constants that satisfy its assumption.   *)
(***************************************************************************)
EXTENDS AccessTokens, SequenceTheorems, TLAPS

-----------------------------------------------------------------------------
(* The inductive invariant.                                                *)

\* What a wish of the admin, and the scopes a run asks for, come to.
AgentGiven(w) == [scopes |-> Requested(w), profiles |-> w.profiles, ticket |-> None]
RunScopes(extra) == SelfScopes \cup (extra \cap Grantable)
RunGiven(r, extra) == [scopes |-> Expanded(RunScopes(extra)), profiles |-> {}, ticket |-> Ticket[r]]

\* What the token was given, whether or not its row is still there.
Given(h) == IF h \in Agents THEN AgentGiven(granted[h].wish) ELSE RunGiven(h, granted[h].wish)

\* Every row says what its token was given; the row of a run stays.
AgentRowsHold ==
  \A t \in Agents :
    /\ granted[t] # None => Mintable(Requested(granted[t].wish))
    /\ granted[t] = None => seen[t] = None
    /\ seen[t] # None => seen[t] <= clock
    /\ api[t] # None =>
         /\ granted[t] # None
         /\ api[t].scopes = Requested(granted[t].wish) /\ api[t].profiles = granted[t].wish.profiles
         /\ api[t].expires = granted[t].expires
RunRowsHold ==
  \A r \in Runs :
    /\ run[r] = None <=> granted[r] = None
    /\ run[r] # None =>
         /\ run[r].scopes = RunScopes(granted[r].wish)
         /\ run[r].expires = granted[r].expires

\* A time at which a token passed: not later than now, nor than its end.
InTime(h, at) ==
  /\ at <= clock
  /\ Row(h) # None /\ Row(h).revoked # None => at <= Row(h).revoked
  /\ granted[h].expires # None => at < granted[h].expires

\* A request passed its gates as the token it carries, and in time.
CallsHold ==
  \A c \in Clients, k \in Requests : call[c] = k =>
    /\ granted[k.by] # None
    /\ k.gate > 0 => k.as = Given(k.by) /\ InTime(k.by, k.at)
    /\ \A i \in 1..k.gate : k.what.gates[i] \in Given(k.by).scopes

DoneHold ==
  \A e \in done :
    /\ granted[e.by] # None /\ InTime(e.by, e.at)
    /\ \A i \in DOMAIN e.what.gates : e.what.gates[i] \in Given(e.by).scopes
    /\ Allowed(Given(e.by), e.what)

IInv ==
  /\ TypeOK /\ AgentRowsHold /\ RunRowsHold
  /\ CallsHold /\ DoneHold /\ UsesAreRecorded

-----------------------------------------------------------------------------
(***************************************************************************)
(* The vocabulary.                                                         *)
(***************************************************************************)

\* The scopes of a run in the vocabulary of the routes.
LEMMA Aliases ==
  /\ DOMAIN Alias = (SelfScopes \cup Grantable) \ {"integrations.read"}
  /\ \A s \in DOMAIN Alias :
       /\ Alias[s] \in {"tickets.create", "tickets.read.self", "runs.write.self",
                        "tickets.update.next_run_context.self", "integrations.link"}
       /\ Alias[s] = "tickets.create" => s = "ticket.create"
<1>1. DOMAIN Alias = (SelfScopes \cup Grantable) \ {"integrations.read"}  BY DEF Alias
<1>2. ASSUME NEW s \in DOMAIN Alias
      PROVE  Alias[s] = CASE s = "ticket.create" -> "tickets.create"
                          [] s = "ticket.read.self" -> "tickets.read.self"
                          [] s = "ticket.update.next_run_context" -> "tickets.update.next_run_context.self"
                          [] s = "integrations.link.self" -> "integrations.link"
                          [] OTHER -> "runs.write.self"
  BY <1>1, <1>2 DEF Alias
<1>3. ASSUME NEW s \in DOMAIN Alias
      PROVE  /\ Alias[s] \in {"tickets.create", "tickets.read.self", "runs.write.self",
                              "tickets.update.next_run_context.self", "integrations.link"}
             /\ Alias[s] = "tickets.create" => s = "ticket.create"
  <2>1. CASE s = "ticket.create"  BY <1>2, <2>1
  <2>2. CASE s = "ticket.read.self"  BY <1>2, <2>2
  <2>3. CASE s = "ticket.update.next_run_context"  BY <1>2, <2>3
  <2>4. CASE s = "integrations.link.self"  BY <1>2, <2>4
  <2>5. CASE s \notin {"ticket.create", "ticket.read.self", "ticket.update.next_run_context",
                       "integrations.link.self"}
    BY <1>2, <2>5
  <2> QED  BY <2>1, <2>2, <2>3, <2>4, <2>5
<1> QED  BY <1>1, <1>3

\* No run passes a gate that is for humans only, whatever its profile asks for; it
\* creates tickets only if its profile asked for that.
LEMMA RunScopesAreLimited ==
  ASSUME NEW extra
  PROVE  /\ RunScopes(extra) \in SUBSET (SelfScopes \cup Grantable)
         /\ Expanded(RunScopes(extra)) \subseteq Expanded(SelfScopes \cup Grantable)
         /\ Expanded(RunScopes(extra)) \cap HumanOnly = {}
         /\ "tickets.create" \in Expanded(RunScopes(extra)) => "ticket.create" \in extra
<1>1. RunScopes(extra) \subseteq SelfScopes \cup Grantable  BY DEF RunScopes
<1>2. Expanded(RunScopes(extra)) \subseteq Expanded(SelfScopes \cup Grantable)
  BY <1>1, Aliases DEF Expanded
<1>3. ASSUME NEW s \in Expanded(RunScopes(extra))  PROVE s \notin HumanOnly
  <2>1. CASE s \in RunScopes(extra)  BY <1>1, <2>1 DEF SelfScopes, Grantable, HumanOnly
  <2>2. CASE \E u \in RunScopes(extra) \cap DOMAIN Alias : s = Alias[u]
    BY <2>2, Aliases DEF HumanOnly
  <2> QED  BY <2>1, <2>2 DEF Expanded
<1>4. ASSUME "tickets.create" \in Expanded(RunScopes(extra))  PROVE "ticket.create" \in extra
  <2>1. "tickets.create" \notin RunScopes(extra)  BY <1>1 DEF SelfScopes, Grantable
  <2>2. "ticket.create" \in RunScopes(extra)  BY <1>4, <2>1, Aliases DEF Expanded
  <2> QED  BY <2>2 DEF RunScopes, SelfScopes
<1> QED  BY <1>1, <1>2, <1>3, <1>4

-----------------------------------------------------------------------------
(***************************************************************************)
(* Tokens and what they were given.                                        *)
(***************************************************************************)

\* A token that was minted or issued is not again, and keeps what it was given.
LEMMA GrantStays ==
  ASSUME TypeOK, RunRowsHold, [Next]_vars, NEW h \in Holders, granted[h] # None
  PROVE  granted'[h] = granted[h] /\ Given(h)' = Given(h)
<1>1. granted'[h] = granted[h]
  <2>1. CASE \E t \in Agents, w \in Wishes : Mint(t, w)  BY <2>1 DEF Mint, TypeOK
  <2>2. CASE \E r \in Runs, extra \in Extras : IssueRunToken(r, extra)
    BY <2>2 DEF IssueRunToken, RunRowsHold, TypeOK
  <2>3. CASE UNCHANGED granted  BY <2>3
  <2> QED
    BY <2>1, <2>2, <2>3
    DEF Next, vars, RevokeApiToken, DeleteApiToken, RevokeForRun, Send, Unauthorized, Gate, Handle,
        Drop, Tick
<1> QED  BY <1>1 DEF Given

\* What the gate reads of a row is what its token was given.
LEMMA PrincipalIsGiven ==
  ASSUME AgentRowsHold, RunRowsHold, NEW h \in Holders, Row(h) # None
  PROVE  granted[h] # None /\ Principal(h) = Given(h)
BY DEF AgentRowsHold, RunRowsHold, Holders, Row, Principal, Given, AgentGiven, RunGiven

\* A principal is one of the vocabulary.
LEMMA PrincipalType ==
  ASSUME TypeOK, NEW h \in Holders, Row(h) # None
  PROVE  Principal(h) \in Principals
<1>1. CASE h \in Agents
  <2>1. api[h] \in ApiRows  BY <1>1 DEF TypeOK, Row
  <2> QED  BY <1>1, <2>1 DEF Principal, Principals, ApiRows
<1>2. CASE h \in Runs \ Agents
  <2>1. run[h] \in RunRows  BY <1>2 DEF TypeOK, Row
  <2>2. Expanded(run[h].scopes) \subseteq Expanded(SelfScopes \cup Grantable)
    BY <2>1, Aliases DEF RunRows, Expanded
  <2> QED  BY <1>2, <2>2 DEF Principal, Principals
<1> QED  BY <1>1, <1>2 DEF Holders

\* What passed in time did so for good: a revocation comes later.
LEMMA InTimeStays ==
  ASSUME AccessTokensAssumption, TypeOK, AgentRowsHold, RunRowsHold, [Next]_vars,
         NEW h \in Holders, NEW at \in Times, granted[h] # None, InTime(h, at)
  PROVE  InTime(h, at)'
<1>1. granted'[h] = granted[h]  BY GrantStays
<1>2. at <= clock /\ at \in Nat /\ clock \in Nat  BY DEF InTime, TypeOK, Times
<1>3. clock' \in Nat /\ at <= clock'
  <2>1. clock' = clock \/ clock' = clock + 1
    BY DEF Next, vars, Mint, RevokeApiToken, DeleteApiToken, IssueRunToken, RevokeForRun, Send,
           Unauthorized, Gate, Handle, Drop, Tick
  <2> QED  BY <1>2, <2>1
<1>4. Row(h)' # None /\ Row(h)'.revoked # None => at <= Row(h)'.revoked
  <2>1. CASE \E t \in Agents, w \in Wishes : Mint(t, w)
    BY <2>1, <1>2 DEF Mint, TypeOK, Row, InTime
  <2>2. CASE \E t \in Agents : RevokeApiToken(t)
    BY <2>2, <1>2 DEF RevokeApiToken, TypeOK, Row, InTime
  <2>3. CASE \E t \in Agents : DeleteApiToken(t)
    BY <2>3, <1>2 DEF DeleteApiToken, TypeOK, Row, InTime
  <2>4. CASE \E r \in Runs, extra \in Extras : IssueRunToken(r, extra)
    BY <2>4, <1>2 DEF IssueRunToken, TypeOK, Row, InTime
  <2>5. CASE \E r \in Runs : RevokeForRun(r)
    BY <2>5, <1>2 DEF RevokeForRun, TypeOK, Row, InTime
  <2>6. CASE \E c \in Clients : Gate(c)
    <3>1. PICK c \in Clients : Gate(c)  BY <2>6
    <3>2. run' = run  BY <3>1 DEF Gate
    <3>3. call[c].by \in Holders /\ Row(call[c].by) # None /\ Touch(call[c].by)
      BY <3>1 DEF Gate, TypeOK, Requests, Valid
    <3>4. CASE api' = api  BY <1>2, <3>2, <3>4 DEF Row, InTime
    <3>5. CASE \E t \in Agents : api[t] # None /\ api' = [api EXCEPT ![t].used = LastUsed(@)]
      <4>1. PICK t \in Agents : api[t] # None /\ api' = [api EXCEPT ![t].used = LastUsed(@)]  BY <3>5
      <4>2. CASE h \in Agents
        <5>1. CASE h = t
          <6>1. api[t] \in ApiRows  BY <4>1 DEF TypeOK
          <6>2. api'[t] = [api[t] EXCEPT !.used = LastUsed(api[t].used)]  BY <4>1 DEF TypeOK
          <6>3. api'[t].revoked = api[t].revoked  BY <6>1, <6>2 DEF ApiRows
          <6> QED  BY <4>1, <4>2, <5>1, <6>3 DEF Row, InTime
        <5>2. CASE h # t
          <6>1. api'[h] = api[h]  BY <4>1, <4>2, <5>2 DEF TypeOK
          <6> QED  BY <4>2, <6>1 DEF Row, InTime
        <5> QED  BY <5>1, <5>2
      <4>3. CASE h \notin Agents  BY <3>2, <4>3 DEF Row, InTime
      <4> QED  BY <4>2, <4>3
    <3> QED  BY <3>3, <3>4, <3>5 DEF Touch, Row
  <2>7. CASE UNCHANGED <<api, run>>  BY <2>7 DEF Row, InTime
  <2> QED
    BY <2>1, <2>2, <2>3, <2>4, <2>5, <2>6, <2>7
    DEF Next, vars, Send, Unauthorized, Handle, Drop, Tick
<1> QED  BY <1>1, <1>3, <1>4 DEF InTime

-----------------------------------------------------------------------------
(***************************************************************************)
(* Types.                                                                  *)
(***************************************************************************)

LEMMA InitType == AccessTokensAssumption /\ Init => TypeOK
<1> SUFFICES ASSUME AccessTokensAssumption, Init  PROVE TypeOK  OBVIOUS
<1>1. clock \in Times /\ calls \in 0..MaxCalls  BY DEF Init, Times, AccessTokensAssumption
<1>2. /\ api \in [Agents -> ApiRows \cup {None}] /\ run \in [Runs -> RunRows \cup {None}]
      /\ granted = [h \in Holders |-> granted[h]] /\ seen \in [Agents -> Times \cup {None}]
      /\ \A t \in Agents : granted[t] \in AgentGrants \cup {None}
      /\ \A r \in Runs : granted[r] \in RunGrants \cup {None}
      /\ call \in [Clients -> Requests \cup {None}]
      /\ \A c \in Clients : call[c] = None
      /\ done = {}
  BY DEF Init, Holders
<1> QED  BY <1>1, <1>2 DEF TypeOK

\* The row of a token that passed a gate is as before, but for its last use.
LEMMA TouchType ==
  ASSUME AccessTokensAssumption, TypeOK, NEW h \in Holders, Row(h) # None, Touch(h)
  PROVE  /\ api' \in [Agents -> ApiRows \cup {None}] /\ seen' \in [Agents -> Times \cup {None}]
         /\ \A t \in Agents : /\ api'[t] = None <=> api[t] = None
                              /\ t # h => api'[t] = api[t] /\ seen'[t] = seen[t]
         /\ h \in Agents =>
              /\ seen'[h] = clock
              /\ api'[h] = [api[h] EXCEPT !.used = LastUsed(api[h].used)]
              /\ api'[h] \in ApiRows /\ api[h] \in ApiRows
<1>1. CASE h \in Agents
  <2>1. api[h] \in ApiRows /\ clock \in Times  BY <1>1 DEF Row, TypeOK
  <2>2. LastUsed(api[h].used) \in Times \cup {None}  BY <2>1 DEF LastUsed, ApiRows
  <2> DEFINE n == [api[h] EXCEPT !.used = LastUsed(api[h].used)]
  <2>3. n \in ApiRows  BY <2>1, <2>2 DEF ApiRows
  <2>4. api' = [api EXCEPT ![h] = n] /\ seen' = [seen EXCEPT ![h] = clock]
    BY <1>1 DEF Touch, TypeOK
  <2>5. n # None  BY <2>3 DEF AccessTokensAssumption
  <2> HIDE DEF n
  <2>6. /\ api' \in [Agents -> ApiRows \cup {None}] /\ api'[h] = n
        /\ \A t \in Agents \ {h} : api'[t] = api[t]
    BY <1>1, <2>3, <2>4 DEF TypeOK
  <2>7. /\ seen' \in [Agents -> Times \cup {None}] /\ seen'[h] = clock
        /\ \A t \in Agents \ {h} : seen'[t] = seen[t]
    BY <1>1, <2>1, <2>4 DEF TypeOK
  <2>8. api[h] # None  BY <1>1 DEF Row
  <2>9. n = [api[h] EXCEPT !.used = LastUsed(api[h].used)]  BY DEF n
  <2> QED  BY <1>1, <2>1, <2>3, <2>5, <2>6, <2>7, <2>8, <2>9
<1>2. CASE h \notin Agents  BY <1>2 DEF Touch, TypeOK
<1> QED  BY <1>1, <1>2

LEMMA StepType == AccessTokensAssumption /\ TypeOK /\ [Next]_vars => TypeOK'
<1> SUFFICES ASSUME AccessTokensAssumption, TypeOK, [Next]_vars  PROVE TypeOK'  OBVIOUS
<1>1. ASSUME NEW t \in Agents, NEW w \in Wishes, Mint(t, w)  PROVE TypeOK'
  <2>1. Expiry(w) \in Nat \cup {None}  BY DEF Expiry, AccessTokensAssumption, TypeOK, Times
  <2>2. [scopes |-> Requested(w), profiles |-> w.profiles, expires |-> Expiry(w),
         revoked |-> None, used |-> None] \in ApiRows
    BY <1>1, <2>1 DEF Mint, Mintable, ApiRows
  <2>3. [wish |-> w, expires |-> Expiry(w)] \in AgentGrants  BY <2>1 DEF AgentGrants
  <2>4. api' \in [Agents -> ApiRows \cup {None}]  BY <1>1, <2>2 DEF Mint, TypeOK
  <2>5. /\ granted' = [h \in Holders |-> granted'[h]]
        /\ \A a \in Agents : granted'[a] \in AgentGrants \cup {None}
        /\ \A r \in Runs : granted'[r] \in RunGrants \cup {None}
    <3>1. t \in Holders /\ t \notin Runs  BY DEF Holders, AccessTokensAssumption
    <3>2. granted' = [granted EXCEPT ![t] = [wish |-> w, expires |-> Expiry(w)]]  BY <1>1 DEF Mint
    <3> QED  BY <3>1, <3>2, <2>3 DEF TypeOK, Holders
  <2> QED  BY <1>1, <2>4, <2>5 DEF Mint, TypeOK
<1>2. ASSUME NEW t \in Agents, RevokeApiToken(t)  PROVE TypeOK'
  <2>1. api[t] \in ApiRows  BY <1>2 DEF RevokeApiToken, TypeOK
  <2>2. [api[t] EXCEPT !.revoked = clock] \in ApiRows  BY <2>1 DEF ApiRows, TypeOK
  <2>3. api' \in [Agents -> ApiRows \cup {None}]  BY <1>2, <2>2 DEF RevokeApiToken, TypeOK
  <2> QED  BY <1>2, <2>3 DEF RevokeApiToken, TypeOK
<1>3. ASSUME NEW t \in Agents, DeleteApiToken(t)  PROVE TypeOK'
  BY <1>3 DEF DeleteApiToken, TypeOK
<1>4. ASSUME NEW r \in Runs, NEW extra \in Extras, IssueRunToken(r, extra)  PROVE TypeOK'
  <2>1. clock + RunLife \in Nat  BY DEF AccessTokensAssumption, TypeOK, Times
  <2>2. [scopes |-> SelfScopes \cup (extra \cap Grantable), expires |-> clock + RunLife,
         revoked |-> None] \in RunRows
    BY <2>1 DEF RunRows
  <2>3. [wish |-> extra, expires |-> clock + RunLife] \in RunGrants  BY <2>1 DEF RunGrants
  <2>4. run' \in [Runs -> RunRows \cup {None}]  BY <1>4, <2>2 DEF IssueRunToken, TypeOK
  <2>5. /\ granted' = [h \in Holders |-> granted'[h]]
        /\ \A a \in Agents : granted'[a] \in AgentGrants \cup {None}
        /\ \A q \in Runs : granted'[q] \in RunGrants \cup {None}
    <3>1. r \in Holders /\ r \notin Agents  BY DEF Holders, AccessTokensAssumption
    <3>2. granted' = [granted EXCEPT ![r] = [wish |-> extra, expires |-> clock + RunLife]]
      BY <1>4 DEF IssueRunToken
    <3> QED  BY <3>1, <3>2, <2>3 DEF TypeOK, Holders
  <2> QED  BY <1>4, <2>4, <2>5 DEF IssueRunToken, TypeOK
<1>5. ASSUME NEW r \in Runs, RevokeForRun(r)  PROVE TypeOK'
  <2>1. run[r] \in RunRows  BY <1>5 DEF RevokeForRun, TypeOK
  <2>2. [run[r] EXCEPT !.revoked = clock] \in RunRows  BY <2>1 DEF RunRows, TypeOK
  <2>3. run' \in [Runs -> RunRows \cup {None}]  BY <1>5, <2>2 DEF RevokeForRun, TypeOK
  <2> QED  BY <1>5, <2>3 DEF RevokeForRun, TypeOK
<1>6. ASSUME NEW c \in Clients, NEW h \in Holders, NEW what \in Calls, Send(c, h, what)  PROVE TypeOK'
  <2> DEFINE k == [by |-> h, what |-> what, gate |-> 0, as |-> None, at |-> clock]
  <2>1. k \in Requests  BY DEF Requests, TypeOK
  <2>2. 0 \in 0..Len(what.gates)  BY DEF AccessTokensAssumption
  <2>3. call' = [call EXCEPT ![c] = k]  BY <1>6 DEF Send
  <2>4. call' \in [Clients -> Requests \cup {None}]  BY <2>1, <2>3 DEF TypeOK
  <2>5. ASSUME NEW d \in Clients, call'[d] # None
        PROVE  /\ call'[d].gate \in 0..Len(call'[d].what.gates)
               /\ call'[d].as = None <=> call'[d].gate = 0
    BY <2>2, <2>3, <2>5 DEF TypeOK
  <2>6. calls' \in 0..MaxCalls  BY <1>6 DEF Send, TypeOK, AccessTokensAssumption
  <2> QED  BY <1>6, <2>4, <2>5, <2>6 DEF Send, TypeOK
<1>7. ASSUME NEW c \in Clients, Answer(c)
      PROVE  /\ call' \in [Clients -> Requests \cup {None}]
             /\ \A d \in Clients : call'[d] # None =>
                  /\ call'[d].gate \in 0..Len(call'[d].what.gates)
                  /\ call'[d].as = None <=> call'[d].gate = 0
  BY <1>7 DEF Answer, TypeOK
<1>8. ASSUME NEW c \in Clients, Unauthorized(c) \/ Drop(c)  PROVE TypeOK'
  BY <1>7, <1>8 DEF Unauthorized, Drop, TypeOK
<1>9. ASSUME NEW c \in Clients, Gate(c)  PROVE TypeOK'
  <2> DEFINE k == call[c]
  <2>1. /\ k \in Requests /\ k # None /\ k.gate < Len(k.what.gates) /\ Row(k.by) # None /\ Touch(k.by)
        /\ UNCHANGED <<clock, run, granted, done, calls>>
    BY <1>9 DEF Gate, TypeOK, Valid
  <2>2. k.by \in Holders /\ k.what \in Calls  BY <2>1 DEF Requests
  <2>3. api' \in [Agents -> ApiRows \cup {None}] /\ seen' \in [Agents -> Times \cup {None}]
    BY <2>1, <2>2, TouchType
  <2>4. /\ call' \in [Clients -> Requests \cup {None}]
        /\ \A d \in Clients : call'[d] # None =>
             /\ call'[d].gate \in 0..Len(call'[d].what.gates)
             /\ call'[d].as = None <=> call'[d].gate = 0
    <3>1. CASE Answer(c)  BY <1>7, <3>1
    <3> DEFINE n == [by |-> k.by, what |-> k.what, gate |-> k.gate + 1, as |-> Principal(k.by), at |-> clock]
    <3>2. CASE call' = [call EXCEPT ![c] = n]
      <4>1. Principal(k.by) \in Principals /\ Principal(k.by) # None
        BY <2>1, <2>2, PrincipalType DEF AccessTokensAssumption
      <4>2. Len(k.what.gates) \in Nat  BY <2>2 DEF AccessTokensAssumption
      <4>3. k.gate \in Nat /\ k.gate + 1 \in 0..Len(k.what.gates)  BY <2>1, <4>2 DEF Requests
      <4>4. /\ n \in Requests /\ n.gate = k.gate + 1 /\ n.as = Principal(k.by) /\ n.what = k.what
        BY <2>2, <4>1, <4>3 DEF Requests, TypeOK
      <4>5. call' = [call EXCEPT ![c] = n]  BY <3>2
      <4> HIDE DEF k, n
      <4>6. call' \in [Clients -> Requests \cup {None}]  BY <4>4, <4>5 DEF TypeOK
      <4>7. ASSUME NEW d \in Clients, call'[d] # None
            PROVE  /\ call'[d].gate \in 0..Len(call'[d].what.gates)
                   /\ call'[d].as = None <=> call'[d].gate = 0
        <5>1. CASE d = c  BY <5>1, <4>1, <4>3, <4>4, <4>5 DEF TypeOK
        <5>2. CASE d # c  BY <4>7, <5>2, <4>5 DEF TypeOK
        <5> QED  BY <5>1, <5>2
      <4> QED  BY <4>6, <4>7
    <3> QED  BY <1>9, <3>1, <3>2 DEF Gate
  <2> QED  BY <2>1, <2>3, <2>4 DEF TypeOK
<1>10. ASSUME NEW c \in Clients, Handle(c)  PROVE TypeOK'
  <2>1. call[c] \in Requests  BY <1>10 DEF Handle, TypeOK
  <2>2. [by |-> call[c].by, what |-> call[c].what, at |-> call[c].at]
          \in [by : Holders, what : Calls, at : Times]
    BY <2>1 DEF Requests
  <2>3. done' \subseteq [by : Holders, what : Calls, at : Times]  BY <1>10, <2>2 DEF Handle, TypeOK
  <2> QED  BY <1>7, <1>10, <2>3 DEF Handle, TypeOK
<1>11. CASE Tick
  <2>1. clock' \in Times  BY <1>11 DEF Tick, TypeOK, Times, AccessTokensAssumption
  <2> QED  BY <1>11, <2>1 DEF Tick, TypeOK
<1>12. CASE UNCHANGED vars  BY <1>12 DEF vars, TypeOK
<1> QED  BY <1>1, <1>2, <1>3, <1>4, <1>5, <1>6, <1>8, <1>9, <1>10, <1>11, <1>12 DEF Next

-----------------------------------------------------------------------------
(***************************************************************************)
(* Rows, requests and what was done.                                       *)
(***************************************************************************)

LEMMA AgentRowsStep ==
  ASSUME AccessTokensAssumption, TypeOK, TypeOK', AgentRowsHold, UsesAreRecorded, [Next]_vars
  PROVE  AgentRowsHold' /\ UsesAreRecorded'
<1> USE DEF AgentRowsHold, UsesAreRecorded
<1>0. clock \in Nat /\ Resolution \in Nat \ {0}  BY DEF TypeOK, Times, AccessTokensAssumption
<1>1. ASSUME NEW t \in Agents, NEW w \in Wishes, Mint(t, w)
      PROVE  AgentRowsHold' /\ UsesAreRecorded'
  <2>1. api' = [api EXCEPT ![t] = [scopes |-> Requested(w), profiles |-> w.profiles,
                                   expires |-> Expiry(w), revoked |-> None, used |-> None]]
    BY <1>1 DEF Mint
  <2>2. granted' = [granted EXCEPT ![t] = [wish |-> w, expires |-> Expiry(w)]] /\ granted[t] = None
    BY <1>1 DEF Mint
  <2>3. /\ api'[t].scopes = Requested(w) /\ api'[t].profiles = w.profiles
        /\ api'[t].expires = Expiry(w) /\ api'[t].used = None
        /\ granted'[t].wish = w /\ granted'[t].expires = Expiry(w) /\ granted'[t] # None
    <3>1. t \in Holders  BY DEF Holders
    <3>2. [wish |-> w, expires |-> Expiry(w)] # None
      <4>1. Expiry(w) \in Nat \cup {None}  BY <1>0 DEF Expiry, AccessTokensAssumption
      <4> QED  BY <4>1 DEF AccessTokensAssumption, AgentGrants
    <3> QED  BY <2>1, <2>2, <3>1, <3>2 DEF TypeOK
  <2>4. \A a \in Agents \ {t} : api'[a] = api[a] /\ granted'[a] = granted[a]
    BY <2>1, <2>2 DEF TypeOK, Holders
  <2>5. clock' = clock /\ seen' = seen /\ seen[t] = None /\ Mintable(Requested(w))
    BY <1>1 DEF Mint
  <2> QED  BY <2>3, <2>4, <2>5
<1>2. ASSUME NEW t \in Agents, RevokeApiToken(t)  PROVE AgentRowsHold' /\ UsesAreRecorded'
  <2>1. api[t] # None /\ api[t] \in ApiRows  BY <1>2 DEF RevokeApiToken, TypeOK
  <2> DEFINE n == [api[t] EXCEPT !.revoked = clock]
  <2>2. /\ n.scopes = api[t].scopes /\ n.profiles = api[t].profiles
        /\ n.expires = api[t].expires /\ n.used = api[t].used
    BY <2>1 DEF ApiRows
  <2>3. api'[t] = n /\ \A a \in Agents \ {t} : api'[a] = api[a]
    BY <1>2 DEF RevokeApiToken, TypeOK
  <2> HIDE DEF n
  <2>4. UNCHANGED <<clock, granted, seen>>  BY <1>2 DEF RevokeApiToken
  <2> QED  BY <2>1, <2>2, <2>3, <2>4
<1>3. ASSUME NEW t \in Agents, DeleteApiToken(t)  PROVE AgentRowsHold' /\ UsesAreRecorded'
  BY <1>3 DEF DeleteApiToken, TypeOK
<1>4. ASSUME NEW r \in Runs, NEW extra \in Extras, IssueRunToken(r, extra)
      PROVE  AgentRowsHold' /\ UsesAreRecorded'
  <2>1. \A a \in Agents : granted'[a] = granted[a]
    BY <1>4 DEF IssueRunToken, TypeOK, Holders, AccessTokensAssumption
  <2> QED  BY <1>4, <2>1 DEF IssueRunToken
<1>5. ASSUME NEW c \in Clients, Gate(c)  PROVE AgentRowsHold' /\ UsesAreRecorded'
  <2> DEFINE h == call[c].by
  <2>1. /\ h \in Holders /\ Row(h) # None /\ Touch(h) /\ UNCHANGED <<clock, granted>>
    BY <1>5 DEF Gate, TypeOK, Requests, Valid
  <2>2. \A t \in Agents : /\ api'[t] = None <=> api[t] = None
                          /\ t # h => api'[t] = api[t] /\ seen'[t] = seen[t]
    BY <2>1, TouchType
  <2>3. h \in Agents => /\ seen'[h] = clock
                        /\ api'[h] = [api[h] EXCEPT !.used = LastUsed(api[h].used)]
                        /\ api'[h] \in ApiRows /\ api[h] \in ApiRows /\ api[h] # None
    BY <2>1, TouchType DEF Row
  <2> HIDE DEF h
  <2>4. CASE h \in Agents
    <3> DEFINE used == LastUsed(api[h].used)
    <3>1. /\ api'[h].scopes = api[h].scopes /\ api'[h].profiles = api[h].profiles
          /\ api'[h].expires = api[h].expires /\ api'[h].used = used
      BY <2>3, <2>4 DEF ApiRows
    <3>2. used # None /\ used <= clock /\ clock < used + Resolution
      <4>1. api[h].used \in Times \cup {None}  BY <2>3, <2>4 DEF ApiRows
      <4>2. None \notin Nat  BY DEF AccessTokensAssumption
      <4>3. api[h].used # None => api[h].used \in Nat /\ api[h].used <= clock
        <5>1. seen[h] \in Times \cup {None}  BY <2>4 DEF TypeOK
        <5>2. api[h].used # None => seen[h] # None /\ api[h].used <= seen[h] /\ seen[h] <= clock
          BY <2>3, <2>4
        <5> QED  BY <1>0, <4>1, <5>1, <5>2 DEF Times
      <4> QED  BY <1>0, <4>1, <4>2, <4>3 DEF LastUsed, Times
    <3>3. clock # None /\ clock <= clock  BY <1>0 DEF AccessTokensAssumption
    <3> HIDE DEF used
    <3> QED  BY <2>1, <2>2, <2>3, <2>4, <3>1, <3>2, <3>3
  <2>5. CASE h \notin Agents  BY <2>1, <2>2, <2>5
  <2> QED  BY <2>4, <2>5
<1>6. CASE Tick
  <2>1. clock' = clock + 1 /\ UNCHANGED <<api, granted, seen>>  BY <1>6 DEF Tick
  <2>2. ASSUME NEW t \in Agents, seen[t] # None  PROVE seen[t] <= clock'
    <3>1. seen[t] \in Nat  BY <2>2 DEF TypeOK, Times
    <3> QED  BY <1>0, <2>1, <2>2, <3>1
  <2> QED  BY <2>1, <2>2
<1>7. CASE UNCHANGED <<clock, api, granted, seen>>  BY <1>7
<1> QED
  BY <1>1, <1>2, <1>3, <1>4, <1>5, <1>6, <1>7
  DEF Next, vars, RevokeForRun, Send, Unauthorized, Handle, Drop

LEMMA RunRowsStep ==
  ASSUME AccessTokensAssumption, TypeOK, RunRowsHold, [Next]_vars
  PROVE  RunRowsHold'
<1> USE DEF RunRowsHold
<1>0. clock \in Nat  BY DEF TypeOK, Times
<1>1. ASSUME NEW t \in Agents, NEW w \in Wishes, Mint(t, w)  PROVE RunRowsHold'
  BY <1>1 DEF Mint, TypeOK, Holders, AccessTokensAssumption
<1>2. ASSUME NEW r \in Runs, NEW extra \in Extras, IssueRunToken(r, extra)  PROVE RunRowsHold'
  <2> DEFINE n == [scopes |-> RunScopes(extra), expires |-> clock + RunLife, revoked |-> None]
             g == [wish |-> extra, expires |-> clock + RunLife]
  <2>1. n # None /\ g # None
    <3>1. clock + RunLife \in Nat  BY <1>0 DEF AccessTokensAssumption
    <3>2. n \in RunRows /\ g \in RunGrants  BY <3>1, RunScopesAreLimited DEF RunRows, RunGrants
    <3> QED  BY <3>2 DEF AccessTokensAssumption
  <2>2. run' = [run EXCEPT ![r] = n] /\ granted' = [granted EXCEPT ![r] = g]
    BY <1>2 DEF IssueRunToken, RunScopes
  <2>3. n.scopes = RunScopes(g.wish) /\ n.expires = g.expires  OBVIOUS
  <2> HIDE DEF n, g
  <2>4. /\ run'[r] = n /\ granted'[r] = g
        /\ \A q \in Runs \ {r} : run'[q] = run[q] /\ granted'[q] = granted[q]
    BY <2>2 DEF TypeOK, Holders
  <2> QED  BY <2>1, <2>3, <2>4
<1>3. ASSUME NEW r \in Runs, RevokeForRun(r)  PROVE RunRowsHold'
  <2>1. run[r] # None /\ run[r] \in RunRows /\ clock # None
    BY <1>0, <1>3 DEF RevokeForRun, TypeOK, AccessTokensAssumption
  <2> DEFINE n == [run[r] EXCEPT !.revoked = clock]
  <2>2. n.scopes = run[r].scopes /\ n.expires = run[r].expires /\ n # None
    <3>1. n \in RunRows  BY <2>1 DEF RunRows, TypeOK
    <3> QED  BY <2>1, <3>1 DEF RunRows, AccessTokensAssumption
  <2>3. run'[r] = n /\ (\A q \in Runs \ {r} : run'[q] = run[q]) /\ granted' = granted
    BY <1>3 DEF RevokeForRun, TypeOK
  <2> HIDE DEF n
  <2> QED  BY <2>1, <2>2, <2>3
<1>4. CASE UNCHANGED <<run, granted>>  BY <1>4
<1> QED
  BY <1>1, <1>2, <1>3, <1>4
  DEF Next, vars, RevokeApiToken, DeleteApiToken, Send, Unauthorized, Gate, Handle, Drop, Tick

\* A request in progress or done before a step still holds after it.
LEMMA PassedStays ==
  ASSUME AccessTokensAssumption, TypeOK, AgentRowsHold, RunRowsHold, [Next]_vars,
         NEW h \in Holders, granted[h] # None
  PROVE  /\ granted'[h] # None /\ Given(h)' = Given(h)
         /\ \A at \in Times : InTime(h, at) => InTime(h, at)'
<1>1. granted'[h] # None /\ Given(h)' = Given(h)  BY GrantStays
<1>2. ASSUME NEW at \in Times, InTime(h, at)  PROVE InTime(h, at)'  BY <1>2, InTimeStays
<1> QED  BY <1>1, <1>2

LEMMA CallsStep ==
  ASSUME AccessTokensAssumption, TypeOK, AgentRowsHold, RunRowsHold, CallsHold, [Next]_vars
  PROVE  CallsHold'
<1> SUFFICES ASSUME NEW c \in Clients, NEW k \in Requests, call'[c] = k
             PROVE  /\ granted'[k.by] # None
                    /\ k.gate > 0 => k.as = Given(k.by)' /\ InTime(k.by, k.at)'
                    /\ \A i \in 1..k.gate : k.what.gates[i] \in Given(k.by)'.scopes
  BY DEF CallsHold
<1>0. k # None /\ k.by \in Holders /\ k.at \in Times /\ k.gate \in Nat
  BY DEF AccessTokensAssumption, Requests
<1>1. CASE call[c] = k
  <2>1. granted[k.by] # None  BY <1>1 DEF CallsHold
  <2>2. /\ granted'[k.by] # None /\ Given(k.by)' = Given(k.by)
        /\ InTime(k.by, k.at) => InTime(k.by, k.at)'
    BY <1>0, <2>1, PassedStays
  <2> QED  BY <1>1, <2>2 DEF CallsHold
<1>2. ASSUME call[c] # k, NEW h \in Holders, NEW what \in Calls, Send(c, h, what)
      PROVE  k.gate = 0 /\ granted'[k.by] # None
  <2>1. k = [by |-> h, what |-> what, gate |-> 0, as |-> None, at |-> clock]
    BY <1>2 DEF Send, TypeOK
  <2> QED  BY <1>2, <2>1 DEF Send
<1>3. CASE call[c] # k /\ Gate(c)
  <2>1. /\ call[c] # None /\ call[c] \in Requests /\ Valid(Row(call[c].by))
        /\ call[c].what.gates[call[c].gate + 1] \in Principal(call[c].by).scopes
        /\ k = [by |-> call[c].by, what |-> call[c].what, gate |-> call[c].gate + 1,
                as |-> Principal(call[c].by), at |-> clock]
    BY <1>0, <1>3 DEF Gate, Answer, TypeOK
  <2>2. PICK g \in Nat : g = call[c].gate  BY <2>1 DEF Requests
  <2>3. /\ k.gate = g + 1 /\ k.as = Principal(k.by) /\ k.at = clock /\ Valid(Row(k.by))
        /\ call[c].by = k.by /\ call[c].what = k.what
        /\ k.what.gates[g + 1] \in Principal(k.by).scopes
    BY <2>1, <2>2
  <2>4. /\ Row(k.by) # None /\ Row(k.by).revoked = None
        /\ Row(k.by).expires # None => Row(k.by).expires > clock
    BY <2>3 DEF Valid
  <2>5. granted[k.by] # None /\ Principal(k.by) = Given(k.by)
    BY <1>0, <2>4, PrincipalIsGiven
  <2>6. InTime(k.by, k.at)
    <3>1. Row(k.by).expires = granted[k.by].expires
      BY <1>0, <2>4 DEF Row, AgentRowsHold, RunRowsHold, Holders
    <3>2. granted[k.by].expires # None => granted[k.by].expires \in Nat
      <4>1. CASE k.by \in Agents  BY <4>1, <2>5 DEF TypeOK, AgentGrants
      <4>2. CASE k.by \in Runs  BY <4>2, <2>5 DEF TypeOK, RunGrants
      <4> QED  BY <4>1, <4>2, <1>0 DEF Holders
    <3>3. clock \in Nat  BY DEF TypeOK, Times
    <3> QED  BY <2>3, <2>4, <3>1, <3>2, <3>3 DEF InTime
  <2>7. granted'[k.by] # None /\ Given(k.by)' = Given(k.by) /\ InTime(k.by, k.at)'
    BY <1>0, <2>5, <2>6, PassedStays
  <2>8. \A i \in 1..k.gate : k.what.gates[i] \in Given(k.by).scopes
    <3>1. \A i \in 1..g : k.what.gates[i] \in Given(k.by).scopes
      BY <2>1, <2>2, <2>3 DEF CallsHold
    <3>2. 1..k.gate = (1..g) \cup {g + 1}  BY <2>3
    <3> QED  BY <2>3, <2>5, <3>1, <3>2
  <2> QED  BY <2>3, <2>5, <2>7, <2>8
<1>4. ASSUME NEW d \in Clients, Answer(d)  PROVE call[c] = k
  BY <1>0, <1>4 DEF Answer, TypeOK
<1>5. ASSUME NEW d \in Clients, NEW h \in Holders, NEW what \in Calls, Send(d, h, what), call[c] # k
      PROVE  d = c
  BY <1>5 DEF Send, TypeOK
<1>6. ASSUME NEW d \in Clients, Gate(d), call[c] # k  PROVE d = c
  BY <1>4, <1>6 DEF Gate, TypeOK
<1>7. CASE UNCHANGED call  BY <1>1, <1>7
<1>8. ASSUME k.gate = 0  PROVE 1..k.gate = {} /\ ~(k.gate > 0)  BY <1>8
<1> QED
  <2>1. CASE call[c] = k  BY <1>1, <2>1
  <2>2. CASE call[c] # k /\ \E h \in Holders, what \in Calls : Send(c, h, what)
    BY <1>2, <1>8, <2>2
  <2>3. CASE call[c] # k /\ Gate(c)  BY <1>3, <2>3
  <2> QED
    BY <2>1, <2>2, <2>3, <1>4, <1>5, <1>6, <1>7
    DEF Next, vars, Mint, RevokeApiToken, DeleteApiToken, IssueRunToken, RevokeForRun, Unauthorized,
        Handle, Drop, Tick

LEMMA DoneStep ==
  ASSUME AccessTokensAssumption, TypeOK, AgentRowsHold, RunRowsHold, CallsHold, DoneHold, [Next]_vars
  PROVE  DoneHold'
<1> SUFFICES ASSUME NEW e \in done'
             PROVE  /\ granted'[e.by] # None /\ InTime(e.by, e.at)'
                    /\ \A i \in DOMAIN e.what.gates : e.what.gates[i] \in Given(e.by)'.scopes
                    /\ Allowed(Given(e.by)', e.what)
  BY DEF DoneHold
<1>1. CASE e \in done
  <2>1. e.by \in Holders /\ e.at \in Times  BY <1>1 DEF TypeOK
  <2>2. granted[e.by] # None /\ InTime(e.by, e.at)  BY <1>1 DEF DoneHold
  <2>3. granted'[e.by] # None /\ Given(e.by)' = Given(e.by) /\ InTime(e.by, e.at)'
    BY <2>1, <2>2, PassedStays
  <2> QED  BY <1>1, <2>3 DEF DoneHold
<1>2. ASSUME NEW c \in Clients, Handle(c), e \notin done
      PROVE  /\ granted'[e.by] # None /\ InTime(e.by, e.at)'
             /\ \A i \in DOMAIN e.what.gates : e.what.gates[i] \in Given(e.by)'.scopes
             /\ Allowed(Given(e.by)', e.what)
  <2>1. /\ call[c] \in Requests /\ call[c].gate = Len(call[c].what.gates)
        /\ Allowed(call[c].as, call[c].what)
        /\ e = [by |-> call[c].by, what |-> call[c].what, at |-> call[c].at]
    BY <1>2 DEF Handle, TypeOK
  <2>2. PICK k \in Requests : k = call[c]  BY <2>1
  <2>3. /\ e.by = k.by /\ e.what = k.what /\ e.at = k.at /\ k.gate = Len(k.what.gates)
        /\ k.by \in Holders /\ k.at \in Times /\ k.what \in Calls /\ Allowed(k.as, k.what)
    BY <2>1, <2>2 DEF Requests
  <2>4. k.gate > 0 /\ DOMAIN k.what.gates = 1..k.gate
    <3>1. k.what.gates \in Seq(STRING) /\ k.what.gates # << >>
      BY <2>3 DEF AccessTokensAssumption
    <3>2. Len(k.what.gates) # 0 /\ Len(k.what.gates) \in Nat
      BY <3>1, EmptySeq, LenProperties
    <3> QED  BY <2>3, <3>1, <3>2, LenProperties
  <2>5. /\ granted[k.by] # None /\ k.as = Given(k.by) /\ InTime(k.by, k.at)
        /\ \A i \in DOMAIN k.what.gates : k.what.gates[i] \in Given(k.by).scopes
    BY <2>2, <2>4 DEF CallsHold
  <2>6. granted'[k.by] # None /\ Given(k.by)' = Given(k.by) /\ InTime(k.by, k.at)'
    BY <2>3, <2>5, PassedStays
  <2> QED  BY <2>3, <2>5, <2>6
<1> QED
  BY <1>1, <1>2
  DEF Next, vars, Mint, RevokeApiToken, DeleteApiToken, IssueRunToken, RevokeForRun, Send,
      Unauthorized, Gate, Handle, Drop, Tick

-----------------------------------------------------------------------------
(***************************************************************************)
(* The theorems.                                                           *)
(***************************************************************************)

\* The invariant is inductive: no step of the admin, of a run or of a request
\* breaks it.
THEOREM Inductive == AccessTokensAssumption => (Spec => []IInv)
<1> SUFFICES ASSUME AccessTokensAssumption  PROVE Spec => []IInv  OBVIOUS
<1>1. Init => IInv
  <2> SUFFICES ASSUME Init  PROVE IInv  OBVIOUS
  <2>1. TypeOK  BY InitType
  <2>2. /\ \A t \in Agents : api[t] = None /\ granted[t] = None /\ seen[t] = None
        /\ \A r \in Runs : run[r] = None /\ granted[r] = None
        /\ \A c \in Clients : call[c] = None
        /\ done = {}
    BY DEF Init, Holders
  <2>3. AgentRowsHold /\ UsesAreRecorded  BY <2>2 DEF AgentRowsHold, UsesAreRecorded
  <2>4. RunRowsHold /\ DoneHold  BY <2>2 DEF RunRowsHold, DoneHold
  <2>5. CallsHold  BY <2>2 DEF CallsHold, AccessTokensAssumption
  <2> QED  BY <2>1, <2>3, <2>4, <2>5 DEF IInv
<1>2. IInv /\ [Next]_vars => IInv'
  <2> SUFFICES ASSUME IInv, [Next]_vars  PROVE IInv'  OBVIOUS
  <2>1. TypeOK'  BY StepType DEF IInv
  <2>2. AgentRowsHold' /\ UsesAreRecorded'  BY <2>1, AgentRowsStep DEF IInv
  <2>3. RunRowsHold'  BY RunRowsStep DEF IInv
  <2>4. CallsHold' /\ DoneHold'  BY CallsStep, DoneStep DEF IInv
  <2> QED  BY <2>1, <2>2, <2>3, <2>4 DEF IInv
<1> QED  BY <1>1, <1>2, PTL DEF Spec

\* Rows, requests and histories have their types; every grant is of its kind.
THEOREM TypeCorrect == AccessTokensAssumption => (Spec => []TypeOK)
<1> SUFFICES ASSUME AccessTokensAssumption  PROVE Spec => []TypeOK  OBVIOUS
<1>1. IInv => TypeOK  BY DEF IInv
<1> QED  BY <1>1, Inductive, PTL

\* What a handler did for a token was within what the token was given, whatever
\* happened to its row between the gates and the handler.
THEOREM DoneIsGranted == AccessTokensAssumption => (Spec => []CallsAreGranted)
<1> SUFFICES ASSUME AccessTokensAssumption  PROVE Spec => []CallsAreGranted  OBVIOUS
<1>1. IInv => CallsAreGranted
  <2> SUFFICES ASSUME IInv, NEW e \in done
               PROVE  LET asked == {e.what.gates[i] : i \in DOMAIN e.what.gates}
                          wish == granted[e.by].wish
                      IN  /\ asked \cap HumanOnly = {}
                          /\ e.by \in Agents =>
                               /\ asked \subseteq IF wish.scopes # None THEN wish.scopes
                                                  ELSE Bundles[wish.bundle]
                               /\ e.what.profile # None /\ wish.profiles # {} =>
                                    e.what.profile \in wish.profiles
                               /\ e.what.ticket = None
                          /\ e.by \in Runs =>
                               /\ e.what.ticket \in {None, Ticket[e.by]}
                               /\ e.what.profile # None => "ticket.create" \in wish
    BY DEF CallsAreGranted
  <2> DEFINE asked == {e.what.gates[i] : i \in DOMAIN e.what.gates}
             wish == granted[e.by].wish
  <2>1. /\ granted[e.by] # None /\ Allowed(Given(e.by), e.what)
        /\ asked \subseteq Given(e.by).scopes
    BY DEF IInv, DoneHold
  <2>2. e.by \in Holders /\ e.what \in Calls  BY DEF IInv, TypeOK
  <2> HIDE DEF asked
  <2>3. CASE e.by \in Agents
    <3>1. e.by \notin Runs  BY <2>3 DEF AccessTokensAssumption
    <3>2. Given(e.by) = AgentGiven(wish)  BY <2>3 DEF Given
    <3>3. asked \subseteq Requested(wish) /\ Mintable(Requested(wish))
      BY <2>1, <2>3, <3>2 DEF IInv, AgentRowsHold, AgentGiven
    <3>4. asked \cap HumanOnly = {}  BY <3>3 DEF Mintable
    <3>5. Requested(wish) = IF wish.scopes # None THEN wish.scopes ELSE Bundles[wish.bundle]
      BY <3>3 DEF Requested, Mintable
    <3>6. /\ e.what.profile # None /\ wish.profiles # {} => e.what.profile \in wish.profiles
          /\ e.what.ticket = None
      BY <2>1, <3>2 DEF Allowed, AgentGiven
    <3> QED  BY <3>1, <3>3, <3>4, <3>5, <3>6 DEF asked
  <2>4. CASE e.by \in Runs \ Agents
    <3>1. Given(e.by) = RunGiven(e.by, wish)  BY <2>4 DEF Given
    <3>2. asked \subseteq Expanded(RunScopes(wish))  BY <2>1, <3>1 DEF RunGiven
    <3>3. asked \cap HumanOnly = {}  BY <3>2, RunScopesAreLimited
    <3>4. e.what.ticket \in {None, Ticket[e.by]}  BY <2>1, <3>1 DEF Allowed, RunGiven
    <3>5. ASSUME e.what.profile # None  PROVE "ticket.create" \in wish
      <4>1. "tickets.create" \in asked  BY <2>2, <3>5 DEF AccessTokensAssumption, asked
      <4> QED  BY <4>1, <3>2, RunScopesAreLimited
    <3> QED  BY <2>4, <3>3, <3>4, <3>5 DEF asked
  <2> QED  BY <2>2, <2>3, <2>4 DEF Holders
<1> QED  BY <1>1, Inductive, PTL

\* No token passes a gate after it was revoked, nor from its expiry on.
THEOREM RevokedPassesNoGate == AccessTokensAssumption => (Spec => []RevocationStands)
<1> SUFFICES ASSUME AccessTokensAssumption  PROVE Spec => []RevocationStands  OBVIOUS
<1>1. IInv => RevocationStands
  <2> SUFFICES ASSUME IInv,
                      NEW e \in done \cup {call[c] : c \in {c \in Clients : call[c] # None /\ call[c].gate > 0}}
               PROVE  InTime(e.by, e.at)
    BY DEF RevocationStands, InTime
  <2>1. CASE e \in done  BY <2>1 DEF IInv, DoneHold
  <2>2. CASE e \notin done
    <3>1. PICK c \in Clients : e = call[c] /\ call[c] # None /\ call[c].gate > 0  BY <2>2
    <3>2. e \in Requests  BY <3>1 DEF IInv, TypeOK
    <3> QED  BY <3>1, <3>2 DEF IInv, CallsHold
  <2> QED  BY <2>1, <2>2
<1> QED  BY <1>1, Inductive, PTL

\* The list of tokens tells when each was last used, to within the resolution.
THEOREM UsesStayRecorded == AccessTokensAssumption => (Spec => []UsesAreRecorded)
<1> SUFFICES ASSUME AccessTokensAssumption  PROVE Spec => []UsesAreRecorded  OBVIOUS
<1>1. IInv => UsesAreRecorded  BY DEF IInv
<1> QED  BY <1>1, Inductive, PTL

=============================================================================
