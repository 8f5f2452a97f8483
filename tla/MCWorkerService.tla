-------------------------- MODULE MCWorkerService --------------------------
(***************************************************************************)
(* Two queues, two overlapping stopAll() calls, and each queue's worker    *)
(* may be built twice, so a restart can meet a stop in progress.           *)
(***************************************************************************)
EXTENDS WorkerService

MCHandlers == <<"emails", "sms">>
=============================================================================
