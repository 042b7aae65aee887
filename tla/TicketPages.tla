------------------------------ MODULE TicketPages ------------------------------
(***************************************************************************)
(* The list of tickets, page by page (list_tickets and count_tickets in    *)
(* domain/tickets.py, GET /tickets in api/routes/tickets.py).              *)
(*                                                                         *)
(* A client asks for pages by offset, until it is told that there are no   *)
(* more.  The page and the total are two statements with the same filter,  *)
(* each a transaction of its own as they only read, and between pages      *)
(* tickets are made, changed, relabelled and deleted.  The orders are      *)
(* those by creation and by the latest change, latest first.               *)
(***************************************************************************)
EXTENDS Naturals, FiniteSets, Sequences, SequencesExt

CONSTANTS Tickets, None,
          Limit,        \* of a page
          MaxChanges    \* bound: changes made by others

TicketPagesAssumption == None \notin Tickets /\ Limit \in Nat \ {0} /\ MaxChanges \in Nat

VARIABLES
  born,      \* the tickets by created_at, latest first
  touched,   \* the tickets by updated_at, latest first
  match,     \* those the filter lets through
  client,    \* [sort, offset, seen, more]: where a client is
  page,      \* the page read for it, not yet counted, or None
  stay,      \* tickets that have matched since it began, and were not changed
  left,      \* has a ticket left the list since?
  changes

vars == <<born, touched, match, client, page, stay, left, changes>>

-----------------------------------------------------------------------------
Sorts == {"created", "recent"}
Clients == [sort : Sorts, offset : Nat, seen : SUBSET Tickets, more : BOOLEAN]

TypeOK ==
  /\ IsInjective(born) /\ Range(born) \subseteq Tickets
  /\ IsInjective(touched) /\ Range(touched) = Range(born)
  /\ match \subseteq Range(born)
  /\ client \in Clients
  /\ page # None => page \in Seq(Tickets) /\ Len(page) <= Limit
  /\ stay \subseteq match
  /\ left \in BOOLEAN /\ changes \in 0..MaxChanges

Init ==
  /\ \E known \in SUBSET Tickets :
       /\ born \in SetToSeqs(known) /\ touched \in SetToSeqs(known)
       /\ match \in SUBSET known
  /\ client \in [sort : Sorts, offset : {0}, seen : {{}}, more : {TRUE}]
  /\ page = None
  /\ stay = match /\ left = FALSE /\ changes = 0

-----------------------------------------------------------------------------
(* The client.                                                             *)

\* list_tickets: the filter, then the order.
RowsLeastRecentFirst(sort) ==   \* wrong: what was changed goes to the end
  SelectSeq(IF sort = "recent" THEN Reverse(touched) ELSE born, LAMBDA t : t \in match)
Rows(sort) == SelectSeq(IF sort = "recent" THEN touched ELSE born, LAMBDA t : t \in match)

ReadPage ==
  /\ client.more /\ page = None
  /\ LET rows == Rows(client.sort)
         end  == client.offset + Limit
     IN page' = SubSeq(rows, client.offset + 1, IF end < Len(rows) THEN end ELSE Len(rows))
  /\ UNCHANGED <<born, touched, match, client, stay, left, changes>>

\* count_tickets, X-Has-More, and the offset the client goes on from.
CountRows ==
  /\ page # None
  /\ LET next == client.offset + Len(page) IN
       client' = [client EXCEPT !.offset = next,
                                !.seen = @ \cup Range(page),
                                !.more = next < Cardinality(match)]
  /\ page' = None
  /\ UNCHANGED <<born, touched, match, stay, left, changes>>

-----------------------------------------------------------------------------
(* The others.                                                             *)

Changes == changes < MaxChanges /\ changes' = changes + 1
ToFront(t, s) == <<t>> \o SelectSeq(s, LAMBDA u : u # t)

Matching(new) ==
  /\ match' = new
  /\ left' = (left \/ match \ new # {})

Create(t) ==
  /\ Changes /\ t \notin Range(born)
  /\ born' = ToFront(t, born) /\ touched' = ToFront(t, touched)
  /\ \E new \in {match, match \cup {t}} : Matching(new)
  /\ UNCHANGED <<client, page, stay>>

\* A request or a run changes the row, and so perhaps whether it matches.
Touch(t) ==
  /\ Changes /\ t \in Range(born)
  /\ touched' = ToFront(t, touched)
  /\ \E new \in {match \ {t}, match \cup {t}} : Matching(new)
  /\ stay' = stay \ {t}
  /\ UNCHANGED <<born, client, page>>

\* Labels, and the outcome of the latest run, are in other rows.
Relabel(t) ==
  /\ Changes /\ t \in Range(born)
  /\ Matching(IF t \in match THEN match \ {t} ELSE match \cup {t})
  /\ stay' = stay \ {t}
  /\ UNCHANGED <<born, touched, client, page>>

Delete(t) ==
  /\ Changes /\ t \in Range(born)
  /\ born' = SelectSeq(born, LAMBDA u : u # t) /\ touched' = SelectSeq(touched, LAMBDA u : u # t)
  /\ Matching(match \ {t})
  /\ stay' = stay \ {t}
  /\ UNCHANGED <<client, page>>

Next ==
  \/ ReadPage \/ CountRows
  \/ \E t \in Tickets : Create(t) \/ Touch(t) \/ Relabel(t) \/ Delete(t)

Spec == Init /\ [][Next]_vars

-----------------------------------------------------------------------------
\* A client that is told there are no more tickets has seen each one that has
\* matched all the while and was not changed, if none has left the list.  (One
\* that leaves moves the others up past the offset, or lowers the total.)
LastPageIsLast == ~client.more /\ ~left => stay \subseteq client.seen
=============================================================================
