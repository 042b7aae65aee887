----------------------------- MODULE ExternalLinks -----------------------------
(***************************************************************************)
(* The links from tickets to issues and merge requests of one GitLab       *)
(* connection, and their cached state (domain/integrations.py):            *)
(*                                                                         *)
(*   - requests create and delete links, refresh one, import an issue as   *)
(*     a draft with its link; the API serves one                           *)
(*     at a time, calls to GitLab included, and may die in between;        *)
(*   - every five minutes the worker refreshes the links of tickets that   *)
(*     are not archived: it reads them all, asks for one page per repo     *)
(*     and kind, and commits at the end.                                   *)
(*                                                                         *)
(* Items change and vanish meanwhile.  A commit writes the columns whose   *)
(* value differs from the one loaded.                                      *)
(***************************************************************************)
EXTENDS Naturals, FiniteSets, FiniteSetsExt, Functions, SequencesExt

CONSTANTS Tickets, Items, None,
          Batches,        \* the pairs of a repo and a kind
          PerPage,        \* _PER_PAGE
          MaxIids,        \* _MAX_IIDS
          MaxRevisions,   \* bound: changes of the items
          MaxCalls        \* bound: requests, passes, and API crashes

ExternalLinksAssumption ==
  /\ None \notin Tickets \cup Items \cup Batches
  /\ PerPage \in Nat \ {0} /\ MaxIids \in Nat \ {0}
  /\ MaxRevisions \in Nat /\ MaxCalls \in Nat

VARIABLES
  batch,     \* batch[i]: the repo and kind of i, which never change
  revision,  \* revision[i]: how often i has changed at GitLab
  recent,    \* the items of GitLab, by updated_at, latest first
  ticket,    \* ticket[t]: None, "open" or "archived"
  link,      \* link[<<t, i>>]: [state, at], or None
  api,       \* the request under way: [op, ticket, item, state, now, got, late], or None
  pass,      \* of the worker: [held, todo, now, got, dropped, late, faulty], or None
  calls,
  crossed,   \* links written from a row, or an issue, that had changed since it was read
  missed     \* links the last pass could have refreshed and did not

vars == <<batch, revision, recent, ticket, link, api, pass, calls, crossed, missed>>

-----------------------------------------------------------------------------
Links == Tickets \X Items

\* The state of an item after r changes: it is closed and opened again.
StateAt(r) == IF r % 2 = 0 THEN "opened" ELSE "closed"
States == {"opened", "closed", None}

\* A row: its state, and, for synced_at, the revision its item then had.
Rows == [state : States, at : (0..MaxRevisions) \cup {None}]
NewRow == [state |-> None, at |-> None]
Existing == {l \in Links : link[l] # None}

TypeOK ==
  /\ batch \in [Items -> Batches]
  /\ revision \in [Items -> 0..MaxRevisions]
  /\ ToSet(recent) \subseteq Items /\ IsInjective(recent)
  /\ ticket \in [Tickets -> {"open", "archived", None}]
  /\ \A l \in Links : link[l] \in Rows \cup {None}
  /\ api # None => api.op \in {"refresh", "import"} /\ api.ticket \in Tickets /\ api.item \in Items
  /\ pass # None => /\ DOMAIN pass.held \subseteq Links /\ pass.todo \subseteq Batches
                    /\ DOMAIN pass.got \subseteq DOMAIN pass.held
  /\ calls \in 0..MaxCalls
  /\ crossed \subseteq Links /\ missed \subseteq Links

Init ==
  /\ batch \in [Items -> Batches]
  /\ revision = [i \in Items |-> 0] /\ recent \in SetToSeqs(Items)
  /\ ticket \in [Tickets -> {"open", None}]
  /\ link \in [Links -> {[state |-> "opened", at |-> 0], None}]
  /\ \A l \in Links : link[l] # None => ticket[l[1]] # None
  /\ api = None /\ pass = None
  /\ calls = 0 /\ crossed = {} /\ missed = {}

-----------------------------------------------------------------------------
(* GitLab and the board.                                                   *)

Live == ToSet(recent)
Changes == SumFunction(revision)
Request == api = None /\ calls < MaxCalls /\ calls' = calls + 1

\* Someone closes or reopens an item: it is the latest one.
ItemChanges(i) ==
  /\ i \in Live /\ Changes < MaxRevisions
  /\ revision' = [revision EXCEPT ![i] = @ + 1]
  /\ recent' = <<i>> \o Remove(recent, i)
  /\ UNCHANGED <<batch, ticket, link, api, pass, calls, crossed, missed>>

\* An item is deleted or moved.
ItemVanishes(i) ==
  /\ i \in Live /\ Changes < MaxRevisions
  /\ revision' = [revision EXCEPT ![i] = @ + 1]
  /\ recent' = Remove(recent, i)
  /\ UNCHANGED <<batch, ticket, link, api, pass, calls, crossed, missed>>

Archive(t) ==
  /\ Request /\ ticket[t] = "open"
  /\ ticket' = [ticket EXCEPT ![t] = "archived"]
  /\ UNCHANGED <<batch, revision, recent, link, api, pass, crossed, missed>>

-----------------------------------------------------------------------------
(* Requests.                                                               *)

\* What the worker's pass still has of a row that is deleted or written.
Drop(l) == IF pass = None THEN None ELSE [pass EXCEPT !.dropped = @ \cup {l}]
Overtake(l) == IF pass = None THEN None ELSE [pass EXCEPT !.late = @ \cup {l}]

\* create_ticket_link_api: an admin, or a run for its own ticket.
CreateLink(l) ==
  /\ Request /\ ticket[l[1]] # None /\ link[l] = None
  /\ link' = [link EXCEPT ![l] = NewRow]
  /\ UNCHANGED <<batch, revision, recent, ticket, api, pass, crossed, missed>>

DeleteLink(l) ==
  /\ Request /\ link[l] # None
  /\ link' = [link EXCEPT ![l] = None]
  /\ pass' = Drop(l) /\ crossed' = crossed \ {l} /\ missed' = missed \ {l}
  /\ UNCHANGED <<batch, revision, recent, ticket, api>>

\* refresh_external_link_api: reads the row and the time, then asks GitLab.
BeginRefresh(l) ==
  /\ Request /\ link[l] # None
  /\ api' = [op |-> "refresh", ticket |-> l[1], item |-> l[2], state |-> link[l].state,
             now |-> revision[l[2]], got |-> None, late |-> FALSE]
  /\ UNCHANGED <<batch, revision, recent, ticket, link, pass, crossed, missed>>

\* _live: the item, or an error (stamped on the connection, which no one reads).
Answer ==
  /\ api # None /\ api.op = "refresh" /\ api.got = None
  /\ \/ api.item \in Live /\ api' = [api EXCEPT !.got = revision[api.item]]
     \/ api' = None
  /\ UNCHANGED <<batch, revision, recent, ticket, link, pass, calls, crossed, missed>>

\* The row of _apply_snapshot: the state is written if it differs from was.
WrittenOnce(row, was, r, now) ==   \* wrong: like the title, a state is kept
  [state |-> IF row.state = None THEN StateAt(r) ELSE row.state, at |-> now]
Written(row, was, r, now) ==
  [state |-> IF StateAt(r) # was THEN StateAt(r) ELSE row.state, at |-> now]

CommitRefresh ==
  /\ api # None /\ api.op = "refresh" /\ api.got # None
  /\ LET l == <<api.ticket, api.item>> IN
       /\ link' = [link EXCEPT ![l] = Written(@, api.state, api.got, api.now)]
       /\ crossed' = IF api.late THEN crossed \cup {l} ELSE crossed \ {l}
       /\ missed' = missed \ {l}
       /\ pass' = Overtake(l)
  /\ api' = None
  /\ UNCHANGED <<batch, revision, recent, ticket, calls>>

\* import_issue_as_draft: the issue is read, its draft committed, then its link.
ImportTicket(t, i) ==
  /\ Request /\ ticket[t] = None /\ i \in Live
  /\ ticket' = [ticket EXCEPT ![t] = "open"]
  /\ api' = [op |-> "import", ticket |-> t, item |-> i, state |-> None,
             now |-> revision[i], got |-> revision[i], late |-> FALSE]
  /\ UNCHANGED <<batch, revision, recent, link, pass, crossed, missed>>

\* synced_at is the time of the insertion, the state that of the issue read.
ImportLink ==
  /\ api # None /\ api.op = "import"
  /\ link' = [link EXCEPT ![<<api.ticket, api.item>>] =
                [state |-> StateAt(api.got), at |-> revision[api.item]]]
  /\ api' = None
  /\ crossed' = IF revision[api.item] = api.got THEN crossed
                ELSE crossed \cup {<<api.ticket, api.item>>}
  /\ UNCHANGED <<batch, revision, recent, ticket, pass, calls, missed>>

ApiDies ==
  /\ api # None /\ calls < MaxCalls
  /\ api' = None /\ calls' = calls + 1
  /\ UNCHANGED <<batch, revision, recent, ticket, link, pass, crossed, missed>>

-----------------------------------------------------------------------------
(* The pass of the worker.                                                 *)

\* _active_links_by_connection.
Active == {l \in Existing : ticket[l[1]] = "open"}
Connected == pass # None /\ pass.now # None
ItemsOf(p, b) == {l[2] : l \in {k \in DOMAIN p.held : batch[k[2]] = b}}

BeginPass ==
  /\ pass = None /\ Active # {} /\ calls < MaxCalls
  /\ pass' = [held |-> [l \in Active |-> link[l].state], todo |-> {batch[l[2]] : l \in Active},
              now |-> None, got |-> <<>>, dropped |-> {}, late |-> {}, faulty |-> FALSE]
  /\ calls' = calls + 1
  /\ UNCHANGED <<batch, revision, recent, ticket, link, api, crossed, missed>>

\* The turn of the connection, after those before it.
Connect ==
  /\ pass # None /\ pass.now = None
  /\ pass' = [pass EXCEPT !.now = revision]
  /\ UNCHANGED <<batch, revision, recent, ticket, link, api, calls, crossed, missed>>

\* What a page tells of the items asked for: the latest PerPage of them.
PageOfOpen(asked) == {i \in asked \cap ToSet(recent) : StateAt(revision[i]) = "opened"}   \* wrong
Page(asked) == ToSet(SubSeq(SelectSeq(recent, LAMBDA i : i \in asked), 1,
                            Min({PerPage, Cardinality(asked \cap Live)})))

\* One request for a batch.  Of the links to one item the last one read is kept.
Fetch(b) ==
  /\ Connected /\ b \in pass.todo
  /\ \E asked \in kSubset(Min({MaxIids, Cardinality(ItemsOf(pass, b))}), ItemsOf(pass, b)) :
     \E last \in [Page(asked) -> Tickets] :
       /\ \A i \in Page(asked) : <<last[i], i>> \in DOMAIN pass.held
       /\ LET told == {<<last[i], i>> : i \in Page(asked)} IN
          pass' = [pass EXCEPT !.todo = @ \ {b},
                     !.got = [l \in DOMAIN @ \cup told |-> IF l \in told THEN revision[l[2]] ELSE @[l]]]
  /\ UNCHANGED <<batch, revision, recent, ticket, link, api, calls, crossed, missed>>

\* Another error skips the batch; a rate limit ends the pass of the connection.
FetchFails(b) ==
  /\ Connected /\ b \in pass.todo
  /\ \E rest \in {{}, pass.todo \ {b}} : pass' = [pass EXCEPT !.todo = rest, !.faulty = TRUE]
  /\ UNCHANGED <<batch, revision, recent, ticket, link, api, calls, crossed, missed>>

\* The links a pass could have left out without a fault: another link of the
\* pass is to the same item, or the batch has more items than a page, or than a
\* request names, or GitLab has the item no longer.
Crowded(l) ==
  \/ \E k \in DOMAIN pass.held \ {l} : k[2] = l[2]
  \/ Cardinality(ItemsOf(pass, batch[l[2]])) > Min({PerPage, MaxIids})
  \/ l[2] \notin Live

\* The commit of the connection.  A row that is gone fails it, and the tick with
\* it: the session of the tick is not rolled back.
CommitPass ==
  /\ Connected /\ pass.todo = {}
  /\ LET done == DOMAIN pass.got IN
       IF done \cap pass.dropped # {}
       THEN UNCHANGED <<link, crossed, missed, api>>
       ELSE /\ link' = [l \in Links |-> IF l \in done
                          THEN Written(link[l], pass.held[l], pass.got[l], pass.now[l[2]]) ELSE link[l]]
            /\ crossed' = (crossed \ done) \cup (done \cap pass.late)
            /\ missed' = IF pass.faulty THEN {}
                         ELSE {l \in DOMAIN pass.held \ (done \cup pass.dropped) : ~Crowded(l)}
            /\ api' = IF api # None /\ <<api.ticket, api.item>> \in done
                      THEN [api EXCEPT !.late = TRUE] ELSE api
  /\ pass' = None
  /\ UNCHANGED <<batch, revision, recent, ticket, calls>>

Next ==
  \/ \E i \in Items : ItemChanges(i) \/ ItemVanishes(i)
  \/ \E t \in Tickets : Archive(t) \/ \E i \in Items : ImportTicket(t, i)
  \/ \E l \in Links : CreateLink(l) \/ DeleteLink(l) \/ BeginRefresh(l)
  \/ Answer \/ CommitRefresh \/ ImportLink \/ ApiDies
  \/ BeginPass \/ Connect \/ CommitPass
  \/ \E b \in Batches : Fetch(b) \/ FetchFails(b)

Spec == Init /\ [][Next]_vars

-----------------------------------------------------------------------------
\* The state a link shows is one its item has had since synced_at, unless the
\* pass of the worker and a request wrote it over each other.
SyncedIsTrue ==
  \A l \in Existing \ crossed :
    link[l].at # None => \E r \in link[l].at..revision[l[2]] : link[l].state = StateAt(r)

\* A pass without an error refreshes every link it can.
PassIsComplete == missed = {}

=============================================================================
