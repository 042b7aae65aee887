---------------------------- MODULE MCTicketRuns ----------------------------
(***************************************************************************)
(* Instances of TicketRuns for TLC: one or two tickets, at most two run    *)
(* processes, and a small number of user requests and crashes.             *)
(***************************************************************************)
EXTENDS TicketRuns, TLC

\* Run processes are interchangeable (not used for liveness).
ProcSymmetry == Permutations(Procs)
=============================================================================
