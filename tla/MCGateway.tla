------------------------------ MODULE MCGateway ------------------------------
(***************************************************************************)
(* A small instance of Gateway: two requests and one token.                *)
(***************************************************************************)
EXTENDS Gateway, TLC

CONSTANTS r1, r2, t1

Symmetric == Permutations({r1, r2})
=============================================================================
