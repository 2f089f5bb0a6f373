----------------------------- MODULE MCJobWatch -----------------------------
(* One watch of a job of three steps, for TLC.                              *)
EXTENDS JobWatch

(* The search ends where the watch does, and a batch's process stays up: its  *)
(* routes and streams list every attempt alike.                               *)
Scope == Watching /\ (job.kind = "batch" => job.up)
=============================================================================
