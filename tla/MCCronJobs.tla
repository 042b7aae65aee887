----------------------------- MODULE MCCronJobs -----------------------------
(***************************************************************************)
(* CronJobs for TLC: the .cfg file gives its constants values.  None is a  *)
(* model value.                                                            *)
(***************************************************************************)
EXTENDS CronJobs
=============================================================================
