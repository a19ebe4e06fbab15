----------------------------- MODULE MCSyncLoop -----------------------------
(***************************************************************************)
(* The instance of SyncLoop that TLC checks: constants are in the cfg files. *)
(***************************************************************************)
EXTENDS SyncLoop
=============================================================================
