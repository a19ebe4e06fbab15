---------------------------- MODULE MCPeerToPeer ----------------------------
(***************************************************************************)
(* Two ranks with two threads or two slots, and four ranks in two pairs.     *)
(***************************************************************************)
EXTENDS PeerToPeer

Setup(r, t, w, n) == [ranks |-> r, threads |-> t, window |-> w, nrep |-> n]

MCSetups == {Setup(2, 2, 1, 2), Setup(2, 1, 2, 2), Setup(4, 1, 1, 1)}

\* Two slots, and no repetition.
MCWindows == {Setup(2, 1, 2, 2), Setup(2, 1, 1, 0)}
=============================================================================
