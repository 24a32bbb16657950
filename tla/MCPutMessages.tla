--------------------------- MODULE MCPutMessages ---------------------------
(* PutMessages for TLC: the handlers of Accounts are interchangeable. *)
EXTENDS PutMessages, TLC

Symmetry == Permutations(Handlers)
=============================================================================
