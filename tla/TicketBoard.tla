----------------------------- MODULE TicketBoard -----------------------------
(***************************************************************************)
(* What the board promises about a ticket's status: it moves only along    *)
(* the lifecycle table of domain/tickets.py, plus the one move the orphan  *)
(* sweep makes outside that table (a ticket nobody works on goes back to   *)
(* the queue).  This is the abstract specification that TicketRuns, with   *)
(* its API requests, daemon ticks and run processes, is checked against.   *)
(***************************************************************************)

CONSTANTS Tickets,   \* the tickets on the board
          Complete   \* those with the fields a run needs (ticket_completeness)

VARIABLE status      \* status[t]: the column ticket t is in

Statuses == {"inbox", "draft", "queued", "running", "review", "archived"}

\* The lifecycle table: the statuses a ticket may be moved to from s.
ValidTransitions(s) ==
  CASE s = "inbox"    -> {"draft", "queued", "archived"}
    [] s = "draft"    -> {"queued", "running", "inbox", "archived"}
    [] s = "queued"   -> {"draft", "running", "archived"}
    [] s = "running"  -> {"review"}
    [] s = "review"   -> {"queued", "archived"}
    [] s = "archived" -> {"queued", "inbox"}

RunnableTargets == {"draft", "queued", "running"}

\* transition_with_position refuses a move outside the table, and a move of an
\* under-specified inbox item to a runnable column.
MoveAllowed(t, from, to) ==
  /\ to \in ValidTransitions(from)
  /\ from = "inbox" /\ to \in RunnableTargets => t \in Complete

-----------------------------------------------------------------------------
Init == status \in [Tickets -> Statuses \ {"running"}]

Move(t) ==
  \E to \in Statuses :
     /\ MoveAllowed(t, status[t], to)
     /\ status' = [status EXCEPT ![t] = to]

\* Pass 2 of the orphan sweep puts any number of unattended tickets back.
Requeue ==
  \E R \in SUBSET {t \in Tickets : status[t] = "running"} :
     /\ R # {}
     /\ status' = [t \in Tickets |-> IF t \in R THEN "queued" ELSE status[t]]

\* Pass 1 of the orphan sweep lands any number of crashed tickets in review.
Recover ==
  \E R \in SUBSET {t \in Tickets : status[t] = "running"} :
     /\ R # {}
     /\ status' = [t \in Tickets |-> IF t \in R THEN "review" ELSE status[t]]

Next == Requeue \/ Recover \/ \E t \in Tickets : Move(t)

Spec == Init /\ [][Next]_status
=============================================================================
