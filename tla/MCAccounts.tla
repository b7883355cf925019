----------------------------- MODULE MCAccounts -----------------------------
(***************************************************************************)
(* Small instances of Accounts: two handlers at a time.                    *)
(***************************************************************************)
EXTENDS Accounts, TLC

CONSTANTS r1, r2

Symmetric == Permutations({r1, r2})
=============================================================================
