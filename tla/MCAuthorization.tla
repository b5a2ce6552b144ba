-------------------------- MODULE MCAuthorization --------------------------
(* Authorization on small instances. *)
EXTENDS Authorization, TLC

CONSTANTS g1, g2, k1, k2

\* A key in each generation.
KeyPerGeneration == k1 :> g1 @@ k2 :> g2
=============================================================================
