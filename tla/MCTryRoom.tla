------------------------------- MODULE MCTryRoom -------------------------------
(* TryRoom with two panels.                                                *)
EXTENDS TryRoom
=============================================================================
