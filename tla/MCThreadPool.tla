---------------------------- MODULE MCThreadPool ----------------------------
(***************************************************************************)
(* The instance of ThreadPool that TLC checks: constants in MCThreadPool.cfg. *)
(***************************************************************************)
EXTENDS ThreadPool
=============================================================================
