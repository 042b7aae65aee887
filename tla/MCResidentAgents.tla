-------------------------- MODULE MCResidentAgents --------------------------
(***************************************************************************)
(* ResidentAgents for TLC: one agent with two host processes for safety,   *)
(* two agents under a cap of one for liveness.                             *)
(***************************************************************************)
EXTENDS ResidentAgents, TLC

\* Host processes are interchangeable (not used for liveness).
HostSymmetry == Permutations(Hosts)
=============================================================================
