-------------------------- MODULE MCCachedDatabase --------------------------
(* Instances of CachedDatabase for TLC. *)
EXTENDS CachedDatabase

CONSTANTS reader, strict, loose, txn

OneOfEach == {reader, strict, loose, txn}
Triples == {OneOfEach \ {p} : p \in OneOfEach}
KindOf == [p \in Calls |->
    CASE p = reader -> "read" [] p = strict -> "strict"
      [] p = loose -> "loose" [] p = txn -> "txn"]
=============================================================================
