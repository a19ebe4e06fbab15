----------------------------- MODULE MCBarrier -----------------------------
(***************************************************************************)
(* The instance of Barrier that TLC checks: constants are in MCBarrier.cfg. *)
(***************************************************************************)
EXTENDS Barrier
=============================================================================
