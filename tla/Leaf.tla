-------------------------------- MODULE Leaf --------------------------------
(***************************************************************************)
(* The one kind of page rows live in: BTreeLeafNode (btree.h) and the      *)
(* operations of btree.c on it, as pure operators.  No leaf is ever split  *)
(* and no internal node is ever created, so the root page a table or an    *)
(* index was created with stays its only page, and each of the three       *)
(* operations is a function of that one leaf.                              *)
(*                                                                         *)
(* C arrays are 0-based and slots are 1-based here: keys[i] of the code is *)
(* keys[i + 1].  The contents of a row are opaque values.                  *)
(***************************************************************************)
EXTENDS Integers, FiniteSetsExt

CONSTANTS
    Slots,     \* BTREE_ORDER - 1, the number of rows a leaf has room for
    RowIds,    \* the keys the program is called with
    Values,    \* the contents of rows
    Empty,     \* 256 zero bytes: what a deleted slot holds
    NoRow      \* the NULL that btree_search returns for a missing row

\* A deleted row's key is overwritten with -1.
Tombstone == -1

ASSUME SlotsAssumption == Slots \in Nat \ {0}

ASSUME RowIdsAssumption == RowIds \subseteq Int

\* A row's contents start with its id, so they are never the empty string.
ASSUME RowsAssumption ==
    /\ NoRow \notin Values \cup {Empty}
    /\ Empty \notin Values

-----------------------------------------------------------------------------

Keys == RowIds \cup {Tombstone}

Contents == Values \cup {Empty}

\* BTreeLeafNode, without is_leaf (always 1) and next_leaf (always 0).
Node == [num_keys : 0 .. Slots,
         keys     : [1 .. Slots -> Keys],
         values   : [1 .. Slots -> Contents]]

\* A leaf whose keys may be anything: a record of the log that was not read from
\* its start gives any number for a key.
AnyNode == [num_keys : 0 .. Slots,
            keys     : [1 .. Slots -> Int],
            values   : [1 .. Slots -> Contents]]

\* The slots the loops of btree.c look at.
Used(leaf) == 1 .. leaf.num_keys

\* Mutant of Matches: the loop stops one slot early.
MatchesButLast(leaf, key) ==
    {i \in 1 .. leaf.num_keys - 1 : leaf.keys[i] = key}

Matches(leaf, key) == {i \in Used(leaf) : leaf.keys[i] = key}

Present(leaf, key) == Matches(leaf, key) # {}

\* Mutant of LeafFull: compared with BTREE_ORDER.
LeafFullTooLate(leaf) == leaf.num_keys = Slots + 1

LeafFull(leaf) == leaf.num_keys = Slots

\* What CREATE TABLE and CREATE INDEX write into a new root page: the rest of
\* the page keeps what the frame held before.
Formatted(leaf) == [leaf EXCEPT !.num_keys = 0]

\* A lookup never returns a deleted row, so it never finds a row with key -1.
btree_search(leaf, key) ==
    IF key # Tombstone /\ Present(leaf, key)
    THEN leaf.values[Min(Matches(leaf, key))]
    ELSE NoRow

\* Mutant of InsertPosition: a new row is appended.
InsertAtEnd(leaf, key) == leaf.num_keys + 1

\* The first slot whose key is not below the new one; tombstones count as -1.
InsertPosition(leaf, key) ==
    Min({i \in 1 .. leaf.num_keys + 1 :
            i = leaf.num_keys + 1 \/ key <= leaf.keys[i]})

\* Mutant of ShiftIn: the loop that moves the slots stops one early.
ShiftInShort(slots, at, last, x) ==
    [j \in DOMAIN slots |->
        IF j = at THEN x
        ELSE IF j \in at + 1 .. last - 1 THEN slots[j - 1] ELSE slots[j]]

\* Open slot at among the first last - 1 slots and put x there.
ShiftIn(slots, at, last, x) ==
    [j \in DOMAIN slots |->
        IF j = at THEN x
        ELSE IF j \in at + 1 .. last THEN slots[j - 1] ELSE slots[j]]

\* A key that is there has its contents replaced, a tombstone too when the key
\* is -1; a new key is put in its place; a full leaf is left alone.
btree_insert(leaf, key, value) ==
    IF Present(leaf, key)
    THEN [leaf EXCEPT !.values[Min(Matches(leaf, key))] = value]
    ELSE IF LeafFull(leaf)
    THEN leaf
    ELSE LET at   == InsertPosition(leaf, key)
             last == leaf.num_keys + 1
         IN  [num_keys |-> last,
              keys     |-> ShiftIn(leaf.keys, at, last, key),
              values   |-> ShiftIn(leaf.values, at, last, value)]

\* The slot is marked, not closed up, and the leaf gets one slot shorter: the
\* last slot in use falls out of sight together with the deleted row.
btree_delete(leaf, key) ==
    IF Present(leaf, key)
    THEN LET at == Min(Matches(leaf, key))
         IN  [num_keys |-> leaf.num_keys - 1,
              keys     |-> [leaf.keys EXCEPT ![at] = Tombstone],
              values   |-> [leaf.values EXCEPT ![at] = Empty]]
    ELSE leaf

\* The two calls that return without unpinning the root page.
InsertLeaksPin(leaf, key) == ~Present(leaf, key) /\ LeafFull(leaf)
DeleteLeaksPin(leaf, key) == ~Present(leaf, key)

-----------------------------------------------------------------------------

\* The table a leaf stands for, as lookups see it.
RowsOf(leaf) == [key \in RowIds |-> btree_search(leaf, key)]

\* The rows a scan returns.
LiveKeys(leaf) == {leaf.keys[i] : i \in Used(leaf)} \ {Tombstone}

=============================================================================
