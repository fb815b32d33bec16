------------------------------ MODULE MCBTree -------------------------------
(* Small instances of BTree for TLC. *)
EXTENDS BTree

NaturalIds == 0 .. 2

IdsWithTombstone == {-1, 0, 1, 2}

=============================================================================
