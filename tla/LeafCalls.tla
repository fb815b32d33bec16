-------------------------------- MODULE LeafCalls -------------------------------
(***************************************************************************)
(* The calls of btree.c that the log's readers make (Wal), applied to the  *)
(* leaf of a table or an index (Leaf).                                     *)
(***************************************************************************)
EXTENDS Leaf, Wal

\* The calls that reading a log, or what is no log, may lead to.
AnyCall == [call  : {"btree_insert", "btree_delete"},
            key   : Int,
            value : Contents]

\* What a reader finds for a text is something a leaf can hold.
ASSUME ContentsAssumption == Texts \cup {Garbled, Blank} \subseteq Contents

\* Mutant of Call: a row that is there is not written over.
CallKeepsRows(node, c) ==
    IF c.call = "btree_insert" /\ Present(node, c.key) THEN node
    ELSE IF c.call = "btree_insert" THEN btree_insert(node, c.key, c.value)
                                    ELSE btree_delete(node, c.key)

\* One call of btree.c, and several.
Call(node, c) ==
    IF c.call = "btree_insert" THEN btree_insert(node, c.key, c.value)
                               ELSE btree_delete(node, c.key)

Calls(node, cs) == FoldLeft(Call, node, cs)

\* A fresh page, as the system hands out memory.
ZeroPage == [num_keys |-> 0,
             keys     |-> [i \in 1 .. Slots |-> 0],
             values   |-> [i \in 1 .. Slots |-> Empty]]

=============================================================================
