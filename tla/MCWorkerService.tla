-------------------------- MODULE MCWorkerService --------------------------
(* Instances of WorkerService for TLC. *)
EXTENDS WorkerService, TLC

(* Everything that can fail, except Redis losing its data. *)
AnyFault ==
  Phase \cup {"ackReply", "ack", "handler", "submit", "sweep", "mark", "database"}

(* Redis may lose its data as well. *)
AnyLoss == AnyFault \cup {"flush"}

Symmetry == Permutations(Worker) \cup Permutations(JobId)
=============================================================================
