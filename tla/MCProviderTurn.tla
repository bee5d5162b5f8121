--------------------------- MODULE MCProviderTurn ---------------------------
(* ProviderTurn on a few short turns. *)
EXTENDS ProviderTurn
=============================================================================
