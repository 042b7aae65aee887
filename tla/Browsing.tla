------------------------------- MODULE Browsing -------------------------------
(***************************************************************************)
(* The merge requests of a repository as the API shows them                *)
(* (api/routes/integrations.py): a live read through the connection, kept  *)
(* in the process for a while, with a flag on each one that waits for a    *)
(* review by the user of the connection, who is kept as well.  The         *)
(* credential of the connection may be replaced, by one of another user,   *)
(* and GitLab may refuse or not answer any call.                           *)
(***************************************************************************)
EXTENDS Naturals, FiniteSets

CONSTANTS Users, None,
          Ttl,        \* BROWSE_CACHE_TTL_SECONDS
          MaxTime     \* bound on the clock

BrowsingAssumption == None \notin Users /\ Ttl \in Nat \ {0} /\ MaxTime \in Nat

VARIABLES
  clock,
  user,       \* user[n]: whose the credential was at time n
  reviewer,   \* reviewer[n]: who was to review the merge request at time n
  status,     \* of the connection
  kept,       \* kept.user, kept.list: an entry of the cache, or None
  answer      \* the latest answer to a reader: [list, at, cached], or None

vars == <<clock, user, reviewer, status, kept, answer>>

-----------------------------------------------------------------------------
Times == 0..MaxTime
Statuses == {"unchecked", "ok", "auth_failed", "unreachable"}

\* What is kept: the user of the connection; the reviewer and the flag of the
\* merge request.  The last two fields are for the properties: as of when.
UserEntries == [expires : Nat, user : Users, of : Times]
Lists == [reviewer : Users, awaiting : BOOLEAN, known : BOOLEAN, items : Times, of : Times]
ListEntries == [expires : Nat, list : Lists]

TypeOK ==
  /\ clock \in Times
  /\ user \in [0..clock -> Users] /\ reviewer \in [0..clock -> Users]
  /\ status \in Statuses
  /\ kept.user \in UserEntries \cup {None} /\ kept.list \in ListEntries \cup {None}
  /\ answer # None => answer.list \in Lists /\ answer.at \in Times /\ answer.cached \in BOOLEAN

Init ==
  /\ clock = 0
  /\ user \in [{0} -> Users] /\ reviewer \in [{0} -> Users]
  /\ status = "unchecked"
  /\ kept = [user |-> None, list |-> None]
  /\ answer = None

\* TTLCache.get: an entry counts until it expires.
Fresh(e) == e # None /\ clock < e.expires

\* _connection_user_id without the entry: the call answers, or fails, which is
\* stamped if it is about the connection.
NoFailure == [entry |-> kept.user, status |-> status]
AskUser == {[entry |-> [expires |-> clock + Ttl, user |-> user[clock], of |-> clock], status |-> status]}
             \cup {[entry |-> None, status |-> s] : s \in {status, "auth_failed", "unreachable"}}
TheUser == IF Fresh(kept.user) THEN {NoFailure} ELSE AskUser

\* _with_awaiting.
Listed(u) ==
  [reviewer |-> reviewer[clock], awaiting |-> u # None /\ u.user = reviewer[clock],
   known |-> u # None, items |-> clock, of |-> IF u = None THEN clock ELSE u.of]

\* list_mrs_api: a list is kept only if the user is known.
KeepAlways(u) == TRUE   \* wrong: also when the user could not be resolved
Keep(u) == u # None

ReadKept ==
  /\ Fresh(kept.list)
  /\ answer' = [list |-> kept.list.list, at |-> clock, cached |-> TRUE]
  /\ UNCHANGED <<clock, user, reviewer, status, kept>>

ReadLive ==
  /\ ~Fresh(kept.list)
  /\ \E u \in TheUser :
       LET list == Listed(u.entry) IN
         /\ status' = u.status
         /\ answer' = [list |-> list, at |-> clock, cached |-> FALSE]
         /\ kept' = [user |-> u.entry,
                     list |-> IF Keep(u.entry) THEN [expires |-> clock + Ttl, list |-> list] ELSE None]
  /\ UNCHANGED <<clock, user, reviewer>>

\* _live: the call for the list fails, and so does the request.
ReadFails ==
  /\ ~Fresh(kept.list)
  /\ status' \in {status, "auth_failed", "unreachable"}
  /\ UNCHANGED <<clock, user, reviewer, kept, answer>>

\* test_connection: a throttled connection is ok.
Test ==
  /\ status' \in {"ok", "auth_failed", "unreachable"}
  /\ UNCHANGED <<clock, user, reviewer, kept, answer>>

\* Time passes; update_connection may have replaced the credential meanwhile,
\* which leaves the cache and the status alone, and others the reviewer.
Tick ==
  /\ clock < MaxTime /\ clock' = clock + 1
  /\ \E u, r \in Users :
       /\ user' = [n \in 0..clock + 1 |-> IF n <= clock THEN user[n] ELSE u]
       /\ reviewer' = [n \in 0..clock + 1 |-> IF n <= clock THEN reviewer[n] ELSE r]
  /\ UNCHANGED <<status, kept, answer>>

Next == ReadKept \/ ReadLive \/ ReadFails \/ Test \/ Tick

Spec == Init /\ [][Next]_vars

-----------------------------------------------------------------------------
\* A reader sees a merge request as it was at most Ttl ago; its flag is for a
\* user the connection had less than twice as long ago, since a list that is
\* kept was flagged for a user who was kept already; and only a live answer may
\* leave the flag out because the user could not be resolved.
AnswersAreRecent ==
  answer # None =>
    /\ answer.at - answer.list.items < Ttl
    /\ answer.at - answer.list.of < 2 * Ttl - 1
    /\ reviewer[answer.list.items] = answer.list.reviewer
    /\ answer.list.known => (answer.list.awaiting <=> user[answer.list.of] = answer.list.reviewer)
    /\ answer.cached => answer.list.known
=============================================================================
