-------------------------------- MODULE BTree -------------------------------
(***************************************************************************)
(* One table or index of btree.c over its life: the leaf in its root page, *)
(* changed by btree_insert and btree_delete in any order, and the pins on  *)
(* the frame of that page which no caller will ever give back.             *)
(*                                                                         *)
(* The leaf is the C struct at full size; which part of it fits the page   *)
(* is not looked at here.                                                  *)
(***************************************************************************)
EXTENDS Leaf

CONSTANT MaxPins    \* bound on the leaked pins that are counted

ASSUME MaxPinsAssumption == MaxPins \in Nat

VARIABLES
    leaf,           \* the BTreeLeafNode in the root page
    leaked          \* pin_count of its frame between two calls

vars == <<leaf, leaked>>

\* The header of a new root page is written, the slots are whatever the frame
\* held before.
Init ==
    /\ \E old \in Node : leaf = Formatted(old)
    /\ leaked = 0

Insert(key, value) ==
    /\ leaf' = btree_insert(leaf, key, value)
    /\ leaked' = IF InsertLeaksPin(leaf, key) THEN leaked + 1 ELSE leaked
    /\ leaked' <= MaxPins

Delete(key) ==
    /\ leaf' = btree_delete(leaf, key)
    /\ leaked' = IF DeleteLeaksPin(leaf, key) THEN leaked + 1 ELSE leaked
    /\ leaked' <= MaxPins

Next ==
    \/ \E key \in RowIds, value \in Values : Insert(key, value)
    \/ \E key \in RowIds : Delete(key)

Spec == Init /\ [][Next]_vars

-----------------------------------------------------------------------------

TypeOK ==
    /\ leaf \in Node
    /\ leaked \in 0 .. MaxPins

\* No key but the tombstone is in two of the slots in use, whatever stale keys
\* lie behind num_keys: btree_insert's lookup before it opens a slot, and the
\* way a later insert always overwrites the slot that num_keys uncovers, keep a
\* row from coming back as a second copy of itself.
UniqueKeys ==
    \A i, j \in Used(leaf) :
        leaf.keys[i] = leaf.keys[j] /\ leaf.keys[i] # Tombstone => i = j

\* The rows are in ascending order with tombstones anywhere between them, so a
\* scan returns them sorted.  It needs row ids that are not negative:
\* btree_insert takes a tombstone for a key of -1.
SortedKeys ==
    \A i, j \in Used(leaf) :
        i < j /\ leaf.keys[i] # Tombstone /\ leaf.keys[j] # Tombstone
            => leaf.keys[i] < leaf.keys[j]

\* btree_insert and btree_delete implement the table with lossy removal, with
\* the table being what btree_search answers, for row ids not below -1: no
\* sequence of calls brings back a removed row or the stale bytes behind
\* num_keys, or changes a row other than the one asked for and the greatest.
\* With ids below -1 the rows are not in ascending order around a tombstone and
\* the lost row need not be the greatest.
Table == INSTANCE LossyTable WITH rows <- RowsOf(leaf)

ImplementsLossyTable == Table!Spec

\* tests/test_indexes.c:197 expects that deleting one record leaves the other
\* records accessible.
DeleteKeepsOthers ==
    [][\A key \in RowIds : Delete(key) =>
        LiveKeys(leaf) \ {key} \subseteq LiveKeys(leaf')]_vars

=============================================================================
