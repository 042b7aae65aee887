----------------------------- MODULE MCSteering -----------------------------
(***************************************************************************)
(* Steering for TLC: the .cfg files of Steering give its constants values. *)
(* None is a model value.                                                  *)
(***************************************************************************)
EXTENDS Steering
=============================================================================
