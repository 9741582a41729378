---------------------------- MODULE MCTaskServer ----------------------------
(***************************************************************************)
(* The workloads of MCTaskService in a process that is started and ended.  *)
(***************************************************************************)
EXTENDS MCTaskService, TaskServer
==============================================================================
