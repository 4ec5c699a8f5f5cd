----------------------------- MODULE MCScheduler -----------------------------
(* One service, an event loop and two workers that send to it. *)
EXTENDS MFScheduler
=============================================================================
