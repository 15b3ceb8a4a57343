----------------------------- MODULE MCRoutines -----------------------------
(* A small instance of Routines: every minute, or on a signal. *)
EXTENDS Routines

MCSchedules == {{1, 2}, {}}
=============================================================================
