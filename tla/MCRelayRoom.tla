------------------------------ MODULE MCRelayRoom ------------------------------
(* RelayRoom with a panel and an overlay. *)
EXTENDS RelayRoom
=============================================================================
