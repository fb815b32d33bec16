---------------------------- MODULE BTreeProofs -----------------------------
(***************************************************************************)
(* The invariants of BTree, for every number of slots and every set of row *)
(* ids, and its refinement of LossyTable.                                  *)
(***************************************************************************)
EXTENDS BTree, LeafProofs

\* Every invariant but the order of the rows is inductive for all row ids.
IInv ==
    /\ TypeOK
    /\ UniqueKeys

LEMMA InitIInv == Init => IInv
  <1> SUFFICES ASSUME NEW old \in Node, leaf = Formatted(old), leaked = 0
               PROVE  IInv
    BY DEF Init
  <1>1. leaf = [num_keys |-> 0, keys |-> old.keys, values |-> old.values]
    BY NodeParts DEF Formatted
  <1>2. leaf \in Node
    BY <1>1, NodeParts, SlotsAssumption DEF Node
  <1>3. Used(leaf) = {}
    BY <1>1 DEF Used
  <1>4. QED
    BY <1>2, <1>3, MaxPinsAssumption DEF IInv, TypeOK, UniqueKeys

\* What each of the three outcomes of a call does to the unique keys.
LEMMA NewKeyStaysUnique ==
    ASSUME leaf \in Node, UniqueKeys,
           NEW key \in RowIds, NEW value \in Values,
           ~ Present(leaf, key), ~ LeafFull(leaf),
           leaf' = btree_insert(leaf, key, value)
    PROVE  leaf' \in Node /\ UniqueKeys'
  <1> DEFINE p == InsertPosition(leaf, key)
  <1>1. /\ leaf' \in Node
        /\ leaf'.num_keys = leaf.num_keys + 1
        /\ p \in Used(leaf')
        /\ leaf'.keys[p] = key /\ leaf'.values[p] = value
        /\ \A j \in Used(leaf) : j < p =>
               leaf'.keys[j] = leaf.keys[j] /\ leaf'.values[j] = leaf.values[j]
        /\ \A j \in Used(leaf') : p < j =>
               /\ leaf'.keys[j] = leaf.keys[j - 1]
               /\ leaf'.values[j] = leaf.values[j - 1]
    BY InsertNew
  <1>2. \A j \in Used(leaf) : leaf.keys[j] # key
    BY DEF Present, Matches
  <1>3. leaf.num_keys \in Nat
    BY NodeParts, SlotsAssumption
  <1> HIDE DEF p
  <1>4. \A j \in Used(leaf') : \/ j = p
                               \/ j < p /\ j \in Used(leaf)
                               \/ p < j /\ j - 1 \in Used(leaf)
    BY <1>1, <1>3 DEF Used
  <1>5. UniqueKeys'
    <2>1. SUFFICES ASSUME NEW i \in Used(leaf'), NEW j \in Used(leaf'),
                          leaf'.keys[i] = leaf'.keys[j],
                          leaf'.keys[i] # Tombstone
                   PROVE  i = j
      BY DEF UniqueKeys
    <2>2. i \in Int /\ j \in Int /\ p \in Int
      BY <1>1, <1>3 DEF Used
    <2>3. QED
      BY <1>1, <1>2, <1>4, <2>1, <2>2 DEF UniqueKeys
  <1>6. QED
    BY <1>1, <1>5

LEMMA NextIInv == IInv /\ [Next]_vars => IInv'
  <1> SUFFICES ASSUME IInv, [Next]_vars
               PROVE  IInv'
    OBVIOUS
  <1>1. leaf \in Node /\ leaked \in Nat
    BY MaxPinsAssumption DEF IInv, TypeOK
  <1>2. ASSUME NEW key \in RowIds, NEW value \in Values, Insert(key, value)
        PROVE  IInv'
    <2>1. leaked' \in 0 .. MaxPins
      BY <1>1, <1>2, MaxPinsAssumption DEF Insert
    <2>2. CASE Present(leaf, key)
      <3> DEFINE p == Min(Matches(leaf, key))
      <3>1. /\ leaf' \in Node /\ p \in Used(leaf)
            /\ leaf'.num_keys = leaf.num_keys /\ leaf'.keys = leaf.keys
            /\ leaf'.values = [leaf.values EXCEPT ![p] = value]
        BY <1>1, <1>2, <2>2, InsertExisting DEF Insert
      <3> HIDE DEF p
      <3>2. Used(leaf') = Used(leaf)
        BY <3>1 DEF Used
      <3>3. \A i \in Used(leaf) :
                leaf'.values[i] = IF i = p THEN value ELSE leaf.values[i]
        BY <1>1, <3>1, NodeParts
      <3>4. QED
        BY <2>1, <3>1, <3>2, <3>3, RowsAssumption
           DEF IInv, TypeOK, UniqueKeys
    <2>3. CASE ~ Present(leaf, key) /\ ~ LeafFull(leaf)
      BY <1>1, <1>2, <2>1, <2>3, NewKeyStaysUnique DEF Insert, IInv, TypeOK
    <2>4. CASE ~ Present(leaf, key) /\ LeafFull(leaf)
      <3>1. leaf' = leaf
        BY <1>2, <2>4 DEF Insert, btree_insert
      <3>2. QED
        BY <2>1, <3>1 DEF IInv, TypeOK, UniqueKeys
    <2>5. QED
      BY <2>2, <2>3, <2>4
  <1>3. ASSUME NEW key \in RowIds, Delete(key)
        PROVE  IInv'
    <2>1. leaked' \in 0 .. MaxPins
      BY <1>1, <1>3, MaxPinsAssumption DEF Delete
    <2>2. CASE Present(leaf, key)
      <3> DEFINE p == Min(Matches(leaf, key))
      <3>1. /\ leaf' \in Node /\ p \in Used(leaf)
            /\ Used(leaf') = Used(leaf) \ {leaf.num_keys}
            /\ leaf'.keys = [leaf.keys EXCEPT ![p] = Tombstone]
            /\ leaf'.values = [leaf.values EXCEPT ![p] = Empty]
        BY <1>1, <1>3, <2>2, DeleteExisting DEF Delete
      <3> HIDE DEF p
      <3>2. \A i \in Used(leaf) :
                /\ leaf'.keys[i] = IF i = p THEN Tombstone ELSE leaf.keys[i]
                /\ i # p => leaf'.values[i] = leaf.values[i]
        BY <1>1, <3>1, NodeParts
      <3>3. QED
        BY <2>1, <3>1, <3>2 DEF IInv, TypeOK, UniqueKeys
    <2>3. CASE ~ Present(leaf, key)
      <3>1. leaf' = leaf
        BY <1>3, <2>3 DEF Delete, btree_delete
      <3>2. QED
        BY <2>1, <3>1 DEF IInv, TypeOK, UniqueKeys
    <2>4. QED
      BY <2>2, <2>3
  <1>4. CASE UNCHANGED vars
    BY <1>4 DEF vars, IInv, TypeOK, UniqueKeys
  <1>5. QED
    BY <1>2, <1>3, <1>4 DEF Next

\* For every number of slots and all row ids, negative ones too: the struct
\* stays well-formed and no row is in two slots in use.
THEOREM InvariantsHold == Spec => [](TypeOK /\ UniqueKeys)
  <1>1. Init => IInv
    BY InitIInv
  <1>2. IInv /\ [Next]_vars => IInv'
    BY NextIInv
  <1>3. QED
    BY <1>1, <1>2, PTL DEF Spec, IInv

-----------------------------------------------------------------------------

\* The order of the rows needs ids that a tombstone cannot be mistaken for.
NaturalRowIds == RowIds \subseteq Nat \cup {Tombstone}

LEMMA InitSorted == Init => SortedKeys
  <1> SUFFICES ASSUME NEW old \in Node, leaf = Formatted(old)
               PROVE  SortedKeys
    BY DEF Init
  <1>1. leaf.num_keys = 0
    BY NodeParts DEF Formatted, Node
  <1>2. QED
    BY <1>1 DEF SortedKeys, Used

LEMMA NextSorted ==
    NaturalRowIds /\ IInv /\ SortedKeys /\ [Next]_vars => SortedKeys'
  <1> SUFFICES ASSUME NaturalRowIds, IInv, SortedKeys, [Next]_vars
               PROVE  SortedKeys'
    OBVIOUS
  <1>0. leaf \in Node
    BY DEF IInv, TypeOK
  <1>1. /\ leaf.num_keys \in Nat
        /\ \A i \in Used(leaf) : leaf.keys[i] \in Nat \cup {Tombstone}
    BY <1>0, NodeParts, SlotsAssumption DEF NaturalRowIds, Keys
  <1>2. ASSUME NEW key \in RowIds, NEW value \in Values, Insert(key, value)
        PROVE  SortedKeys'
    <2>1. CASE Present(leaf, key)
      <3> DEFINE p == Min(Matches(leaf, key))
      <3>1. /\ leaf' \in Node /\ p \in Used(leaf)
            /\ leaf'.num_keys = leaf.num_keys /\ leaf'.keys = leaf.keys
            /\ leaf'.values = [leaf.values EXCEPT ![p] = value]
        BY <1>0, <1>2, <2>1, InsertExisting DEF Insert
      <3>2. QED
        BY <3>1 DEF SortedKeys, Used
    <2>2. CASE ~ Present(leaf, key) /\ ~ LeafFull(leaf)
      <3> DEFINE p == InsertPosition(leaf, key)
      <3>1. /\ leaf'.num_keys = leaf.num_keys + 1
            /\ p \in Used(leaf')
            /\ leaf'.keys[p] = key
            /\ \A j \in Used(leaf) : j < p => leaf'.keys[j] = leaf.keys[j]
            /\ \A j \in Used(leaf') : p < j => leaf'.keys[j] = leaf.keys[j - 1]
        BY <1>0, <1>2, <2>2, InsertNew DEF Insert
      <3>2. /\ \A j \in Used(leaf) : j < p => leaf.keys[j] < key
            /\ p \in Used(leaf) => key <= leaf.keys[p]
        BY <1>0, InsertPositionBounds, RowIdsAssumption
      <3>3. \A j \in Used(leaf) : leaf.keys[j] # key
        BY <2>2 DEF Present, Matches
      <3> HIDE DEF p
      <3>4. /\ p \in Int /\ key \in Int /\ Tombstone \in Int
            /\ key # Tombstone => Tombstone < key
            /\ \A j \in Used(leaf) : leaf.keys[j] \in Int
        <4>1. Tombstone \in Int /\ \A n \in Nat : Tombstone < n
          BY DEF Tombstone
        <4>2. p \in Int
          BY <1>1, <3>1 DEF Used
        <4>3. QED
          BY <1>1, <4>1, <4>2 DEF NaturalRowIds
      <3>5. \A j \in Used(leaf') : /\ j \in Int
                                   /\ \/ j = p
                                      \/ j < p /\ j \in Used(leaf)
                                      \/ p < j /\ j - 1 \in Used(leaf)
        BY <1>1, <3>1, <3>4 DEF Used
      <3>6. \A j \in Used(leaf) :
                p <= j /\ leaf.keys[j] # Tombstone /\ key # Tombstone
                    => key < leaf.keys[j]
        <4> SUFFICES ASSUME NEW j \in Used(leaf), p <= j,
                            leaf.keys[j] # Tombstone, key # Tombstone
                     PROVE  key < leaf.keys[j]
          OBVIOUS
        <4>1. p \in Used(leaf) /\ j \in Int
          BY <1>1, <3>1, <3>4 DEF Used
        <4>2. key <= leaf.keys[p] /\ leaf.keys[p] # Tombstone
          BY <3>2, <3>4, <4>1
        <4>3. p = j \/ leaf.keys[p] < leaf.keys[j]
          BY <3>4, <4>1, <4>2 DEF SortedKeys
        <4>4. QED
          BY <3>3, <3>4, <4>1, <4>2, <4>3
      <3>7. SUFFICES ASSUME NEW i \in Used(leaf'), NEW j \in Used(leaf'),
                            i < j, leaf'.keys[i] # Tombstone,
                            leaf'.keys[j] # Tombstone
                     PROVE  leaf'.keys[i] < leaf'.keys[j]
        BY DEF SortedKeys
      <3>8. CASE i = p
        BY <3>1, <3>4, <3>5, <3>6, <3>7, <3>8
      <3>9. CASE j = p
        <4>0. i \in Int /\ p \in Int /\ i < p
          BY <3>4, <3>5, <3>7, <3>9
        <4>1. i \in Used(leaf) /\ i < p
          BY <3>5, <4>0
        <4>2. leaf'.keys[i] < key
          BY <3>1, <3>2, <4>1
        <4>3. QED
          BY <3>1, <3>9, <4>2
      <3>10. CASE i # p /\ j # p
        BY <3>1, <3>4, <3>5, <3>7, <3>10 DEF SortedKeys
      <3>11. QED
        BY <3>8, <3>9, <3>10
    <2>3. CASE ~ Present(leaf, key) /\ LeafFull(leaf)
      BY <1>2, <2>3 DEF Insert, btree_insert, SortedKeys
    <2>4. QED
      BY <2>1, <2>2, <2>3
  <1>3. ASSUME NEW key \in RowIds, Delete(key)
        PROVE  SortedKeys'
    <2>1. CASE Present(leaf, key)
      <3> DEFINE p == Min(Matches(leaf, key))
      <3>1. /\ p \in Used(leaf)
            /\ Used(leaf') = Used(leaf) \ {leaf.num_keys}
            /\ leaf'.keys = [leaf.keys EXCEPT ![p] = Tombstone]
        BY <1>0, <1>3, <2>1, DeleteExisting DEF Delete
      <3> HIDE DEF p
      <3>2. \A i \in Used(leaf) :
                leaf'.keys[i] = IF i = p THEN Tombstone ELSE leaf.keys[i]
        BY <1>0, <3>1, NodeParts
      <3>3. QED
        BY <3>1, <3>2 DEF SortedKeys
    <2>2. CASE ~ Present(leaf, key)
      BY <1>3, <2>2 DEF Delete, btree_delete, SortedKeys
    <2>3. QED
      BY <2>1, <2>2
  <1>4. CASE UNCHANGED vars
    BY <1>4 DEF vars, SortedKeys
  <1>5. QED
    BY <1>2, <1>3, <1>4 DEF Next

\* With row ids that are not negative (or -1) the rows in use stay in ascending
\* order, tombstones between them or not.
THEOREM RowsStaySorted ==
    ASSUME NaturalRowIds
    PROVE  Spec => []SortedKeys
  <1>1. Init => IInv /\ SortedKeys
    BY InitIInv, InitSorted
  <1>2. IInv /\ SortedKeys /\ [Next]_vars => (IInv /\ SortedKeys)'
    BY NextIInv, NextSorted
  <1>3. QED
    BY <1>1, <1>2, PTL DEF Spec

-----------------------------------------------------------------------------

\* With unique keys a lookup answers the contents of the slot that has the key,
\* whichever slot that is, and NoRow when no slot has it.
LEMMA SearchHit ==
    ASSUME NEW n \in Node,
           \A i, j \in Used(n) :
               n.keys[i] = n.keys[j] /\ n.keys[i] # Tombstone => i = j,
           NEW i \in Used(n), n.keys[i] # Tombstone
    PROVE  btree_search(n, n.keys[i]) = n.values[i]
  <1> DEFINE k == n.keys[i]
  <1>1. Present(n, k)
    BY DEF Present, Matches
  <1>2. Min(Matches(n, k)) \in Used(n) /\ n.keys[Min(Matches(n, k))] = k
    BY <1>1, FirstMatch
  <1>3. Min(Matches(n, k)) = i
    BY <1>2
  <1>4. QED
    BY <1>1, <1>3 DEF btree_search

LEMMA SearchMiss ==
    ASSUME NEW n, NEW k, k = Tombstone \/ \A i \in Used(n) : n.keys[i] # k
    PROVE  btree_search(n, k) = NoRow
  BY DEF btree_search, Present, Matches

\* The step of the table that an insert is.
LEMMA InsertRefines ==
    ASSUME IInv, IInv', NEW key \in RowIds, NEW value \in Values,
           leaf' = btree_insert(leaf, key, value)
    PROVE  \/ RowsOf(leaf)' = RowsOf(leaf)
           \/ RowsOf(leaf)' = [RowsOf(leaf) EXCEPT ![key] = value]
  <1>1. leaf \in Node /\ leaf' \in Node
    BY DEF IInv, TypeOK
  <1>2. CASE Present(leaf, key)
    <2> DEFINE p == Min(Matches(leaf, key))
    <2>1. /\ p \in Used(leaf) /\ leaf.keys[p] = key
          /\ leaf'.num_keys = leaf.num_keys /\ leaf'.keys = leaf.keys
          /\ leaf'.values = [leaf.values EXCEPT ![p] = value]
      BY <1>1, <1>2, InsertExisting
    <2> HIDE DEF p
    <2>2. /\ Used(leaf') = Used(leaf)
          /\ \A i \in Used(leaf) :
                leaf'.values[i] = IF i = p THEN value ELSE leaf.values[i]
      BY <1>1, <2>1, NodeParts DEF Used
    <2>3. ASSUME NEW k \in RowIds
          PROVE  btree_search(leaf', k) =
                     IF k = key /\ key # Tombstone
                     THEN value ELSE btree_search(leaf, k)
      <3>1. CASE k = Tombstone \/ \A i \in Used(leaf) : leaf.keys[i] # k
        BY <2>1, <2>2, <3>1, SearchMiss
      <3>2. CASE k # Tombstone /\ \E i \in Used(leaf) : leaf.keys[i] = k
        <4>1. PICK i \in Used(leaf) : leaf.keys[i] = k
          BY <3>2
        <4>2. btree_search(leaf, k) = leaf.values[i]
          BY <1>1, <3>2, <4>1, SearchHit DEF IInv, UniqueKeys
        <4>3. btree_search(leaf', k) = leaf'.values[i]
          <5>1. i \in Used(leaf') /\ leaf'.keys[i] = k
            BY <2>1, <2>2, <4>1
          <5>2. QED
            BY <1>1, <3>2, <5>1, SearchHit DEF IInv, UniqueKeys
        <4>4. k = key <=> i = p
          BY <2>1, <3>2, <4>1 DEF IInv, UniqueKeys
        <4>5. QED
          BY <2>2, <3>2, <4>2, <4>3, <4>4
      <3>3. QED
        BY <3>1, <3>2
    <2>4. CASE key = Tombstone
      BY <2>3, <2>4 DEF RowsOf
    <2>5. CASE key # Tombstone
      BY <2>3, <2>5 DEF RowsOf
    <2>6. QED
      BY <2>4, <2>5
  <1>3. CASE ~ Present(leaf, key) /\ ~ LeafFull(leaf)
    <2> DEFINE p == InsertPosition(leaf, key)
    <2>1. /\ leaf'.num_keys = leaf.num_keys + 1
          /\ p \in Used(leaf')
          /\ leaf'.keys[p] = key /\ leaf'.values[p] = value
          /\ \A j \in Used(leaf) : j < p =>
                 leaf'.keys[j] = leaf.keys[j] /\ leaf'.values[j] = leaf.values[j]
          /\ \A j \in Used(leaf') : p < j =>
                 /\ leaf'.keys[j] = leaf.keys[j - 1]
                 /\ leaf'.values[j] = leaf.values[j - 1]
      BY <1>1, <1>3, InsertNew
    <2> HIDE DEF p
    <2>2. leaf.num_keys \in Nat /\ p \in Int
      BY <1>1, <2>1, NodeParts, SlotsAssumption DEF Used
    <2>3. \A j \in Used(leaf') : \/ j = p
                                 \/ j < p /\ j \in Used(leaf)
                                 \/ p < j /\ j - 1 \in Used(leaf)
      BY <2>1, <2>2 DEF Used
    <2>4. \A j \in Used(leaf) : \/ j < p /\ j \in Used(leaf')
                                \/ \E i \in Used(leaf') : p < i /\ i - 1 = j
      <3> TAKE j \in Used(leaf)
      <3>1. /\ j \in Int
            /\ j < p => j \in Used(leaf')
            /\ ~ (j < p) => p < j + 1 /\ j + 1 \in Used(leaf')
        BY <2>1, <2>2 DEF Used
      <3>2. (j + 1) - 1 = j
        BY <3>1
      <3>3. QED
        BY <3>1, <3>2
    <2>5. \A j \in Used(leaf) : \E i \in Used(leaf') :
              leaf'.keys[i] = leaf.keys[j] /\ leaf'.values[i] = leaf.values[j]
      <3> TAKE j \in Used(leaf)
      <3>1. CASE j < p /\ j \in Used(leaf')
        BY <2>1, <3>1
      <3>2. CASE \E i \in Used(leaf') : p < i /\ i - 1 = j
        <4>1. PICK i \in Used(leaf') : p < i /\ i - 1 = j
          BY <3>2
        <4>2. leaf'.keys[i] = leaf.keys[j] /\ leaf'.values[i] = leaf.values[j]
          BY <2>1, <4>1
        <4>3. QED
          BY <4>2
      <3>3. QED
        BY <2>4, <3>1, <3>2
    <2>6. ASSUME NEW k \in RowIds, k # key
          PROVE  btree_search(leaf', k) = btree_search(leaf, k)
      <3>1. CASE k = Tombstone \/ \A i \in Used(leaf) : leaf.keys[i] # k
        <4>1. k = Tombstone \/ \A i \in Used(leaf') : leaf'.keys[i] # k
          BY <2>1, <2>3, <2>6, <3>1
        <4>2. QED
          BY <3>1, <4>1, SearchMiss
      <3>2. CASE k # Tombstone /\ \E i \in Used(leaf) : leaf.keys[i] = k
        <4>1. PICK j \in Used(leaf) : leaf.keys[j] = k
          BY <3>2
        <4>2. PICK i \in Used(leaf') :
                leaf'.keys[i] = k /\ leaf'.values[i] = leaf.values[j]
          BY <2>5, <4>1
        <4>3. btree_search(leaf, k) = leaf.values[j]
          BY <1>1, <3>2, <4>1, SearchHit DEF IInv, UniqueKeys
        <4>4. btree_search(leaf', k) = leaf'.values[i]
          BY <1>1, <3>2, <4>2, SearchHit DEF IInv, UniqueKeys
        <4>5. QED
          BY <4>2, <4>3, <4>4
      <3>3. QED
        BY <3>1, <3>2
    <2>7. CASE key = Tombstone
      <3>1. btree_search(leaf', key) = btree_search(leaf, key)
        BY <2>7, SearchMiss
      <3>2. QED
        BY <2>6, <3>1 DEF RowsOf
    <2>8. CASE key # Tombstone
      <3>1. btree_search(leaf', key) = value
        BY <1>1, <2>1, <2>8, SearchHit DEF IInv, UniqueKeys
      <3>2. QED
        BY <2>6, <3>1 DEF RowsOf
    <2>9. QED
      BY <2>7, <2>8
  <1>4. CASE ~ Present(leaf, key) /\ LeafFull(leaf)
    BY <1>4 DEF btree_insert
  <1>5. QED
    BY <1>2, <1>3, <1>4

\* The step of the table that a delete is: the row and, when the last slot in
\* use holds another row, the greatest one with it.
LEMMA DeleteRefines ==
    ASSUME NaturalRowIds, IInv, IInv', SortedKeys, NEW key \in RowIds,
           leaf' = btree_delete(leaf, key)
    PROVE  \/ RowsOf(leaf)' = RowsOf(leaf)
           \/ RowsOf(leaf)' = [RowsOf(leaf) EXCEPT ![key] = NoRow]
           \/ \E j \in RowIds :
                /\ RowsOf(leaf)[j] # NoRow
                /\ \A k \in RowIds : RowsOf(leaf)[k] # NoRow => k <= j
                /\ RowsOf(leaf)' =
                       [RowsOf(leaf) EXCEPT ![key] = NoRow, ![j] = NoRow]
  <1>1. leaf \in Node /\ leaf' \in Node
    BY DEF IInv, TypeOK
  <1>2. CASE ~ Present(leaf, key)
    BY <1>2 DEF btree_delete
  <1>3. CASE Present(leaf, key)
    <2> DEFINE p == Min(Matches(leaf, key))
               last == leaf.num_keys
               j == leaf.keys[last]
    <2>1. /\ p \in Used(leaf) /\ leaf.keys[p] = key
          /\ Used(leaf') = Used(leaf) \ {last}
          /\ leaf'.keys = [leaf.keys EXCEPT ![p] = Tombstone]
          /\ leaf'.values = [leaf.values EXCEPT ![p] = Empty]
      BY <1>1, <1>3, DeleteExisting
    <2>2. /\ last \in Used(leaf)
          /\ \A i \in Used(leaf) : i \in Int /\ i <= last
      BY <1>1, <2>1, NodeParts, SlotsAssumption DEF Used
    <2> HIDE DEF p, last
    <2>3. \A i \in Used(leaf) :
              /\ leaf'.keys[i] = IF i = p THEN Tombstone ELSE leaf.keys[i]
              /\ i # p => leaf'.values[i] = leaf.values[i]
      BY <1>1, <2>1, NodeParts
    <2>4. ASSUME NEW k \in RowIds
          PROVE  btree_search(leaf', k) =
                     IF k = key \/ k = j THEN NoRow ELSE btree_search(leaf, k)
      <3>1. CASE k = Tombstone \/ \A i \in Used(leaf) : leaf.keys[i] # k
        <4>1. k = Tombstone \/ \A i \in Used(leaf') : leaf'.keys[i] # k
          BY <2>1, <2>3, <3>1
        <4>2. QED
          BY <3>1, <4>1, SearchMiss
      <3>2. CASE k # Tombstone /\ \E i \in Used(leaf) : leaf.keys[i] = k
        <4>1. PICK i \in Used(leaf) : leaf.keys[i] = k
          BY <3>2
        <4>2. k = key <=> i = p
          BY <2>1, <3>2, <4>1 DEF IInv, UniqueKeys
        <4>3. k = j <=> i = last
          BY <2>2, <3>2, <4>1 DEF IInv, UniqueKeys
        <4>4. CASE i = p \/ i = last
          <5>1. \A h \in Used(leaf') : leaf'.keys[h] # k
            BY <2>1, <2>3, <3>2, <4>1, <4>4 DEF IInv, UniqueKeys
          <5>2. QED
            BY <4>2, <4>3, <4>4, <5>1, SearchMiss
        <4>5. CASE i # p /\ i # last
          <5>1. i \in Used(leaf') /\ leaf'.keys[i] = k
                /\ leaf'.values[i] = leaf.values[i]
            BY <2>1, <2>3, <4>1, <4>5
          <5>2. btree_search(leaf', k) = leaf'.values[i]
            BY <1>1, <3>2, <5>1, SearchHit DEF IInv, UniqueKeys
          <5>3. btree_search(leaf, k) = leaf.values[i]
            BY <1>1, <3>2, <4>1, SearchHit DEF IInv, UniqueKeys
          <5>4. QED
            BY <4>2, <4>3, <4>5, <5>1, <5>2, <5>3
        <4>6. QED
          BY <4>4, <4>5
      <3>3. QED
        BY <3>1, <3>2
    <2>5. CASE j = Tombstone
      <3>1. \A k \in RowIds : k = j => btree_search(leaf, k) = NoRow
        BY <2>5, SearchMiss
      <3>2. QED
        BY <2>4, <3>1 DEF RowsOf
    <2>6. CASE j # Tombstone
      <3>1. /\ leaf.keys \in [1 .. Slots -> Keys]
            /\ leaf.values \in [1 .. Slots -> Contents]
            /\ Used(leaf) \subseteq 1 .. Slots
        BY <1>1, NodeParts
      <3>2. j \in RowIds
        BY <2>2, <2>6, <3>1 DEF Keys
      <3>3. btree_search(leaf, j) = leaf.values[last]
        BY <1>1, <2>2, <2>6, SearchHit DEF IInv, UniqueKeys
      <3>4. btree_search(leaf, j) # NoRow
        BY <2>2, <3>1, <3>3, RowsAssumption DEF Contents
      <3>5. ASSUME NEW k \in RowIds, btree_search(leaf, k) # NoRow
            PROVE  k <= j
        <4>1. PICK i \in Used(leaf) : leaf.keys[i] = k /\ k # Tombstone
          BY <3>5, SearchMiss
        <4>2. i = last \/ i < last
          BY <2>2, <4>1
        <4>3. k = j \/ k < j
          BY <2>2, <2>6, <4>1, <4>2 DEF SortedKeys
        <4>4. k \in Int /\ j \in Int
          BY <3>2, RowIdsAssumption
        <4>5. QED
          BY <4>3, <4>4
      <3>6. /\ RowsOf(leaf)[j] # NoRow
            /\ \A k \in RowIds : RowsOf(leaf)[k] # NoRow => k <= j
        BY <3>2, <3>4, <3>5 DEF RowsOf
      <3> HIDE DEF j
      <3>7. RowsOf(leaf)' =
                [RowsOf(leaf) EXCEPT ![key] = NoRow, ![j] = NoRow]
        BY <2>4, <3>2 DEF RowsOf
      <3>8. QED
        BY <3>2, <3>6, <3>7
    <2>7. QED
      BY <2>5, <2>6
  <1>4. QED
    BY <1>2, <1>3

\* btree.c's leaf is the lossy table, step by step, for every number of slots:
\* nothing but the row with the greatest id is ever lost beside the row a
\* delete asks for, and no other call changes any other row.
THEOREM LeafImplementsLossyTable ==
    ASSUME NaturalRowIds
    PROVE  Spec => ImplementsLossyTable
  <1>1. Init => Table!Init
    <2> SUFFICES ASSUME NEW old \in Node, leaf = Formatted(old)
                 PROVE  Table!Init
      BY DEF Init
    <2>1. leaf.num_keys = 0
      BY NodeParts DEF Formatted, Node
    <2>2. \A k \in RowIds : btree_search(leaf, k) = NoRow
      BY <2>1, SearchMiss DEF Used
    <2>3. QED
      BY <2>2 DEF Table!Init, RowsOf
  <1>2. IInv /\ IInv' /\ SortedKeys /\ [Next]_vars
            => [Table!Next]_(RowsOf(leaf))
    <2> SUFFICES ASSUME IInv, IInv', SortedKeys, [Next]_vars
                 PROVE  Table!Next \/ RowsOf(leaf)' = RowsOf(leaf)
      OBVIOUS
    <2>1. ASSUME NEW key \in RowIds, NEW value \in Values, Insert(key, value)
          PROVE  Table!Next \/ RowsOf(leaf)' = RowsOf(leaf)
      <3>1. leaf' = btree_insert(leaf, key, value)
        BY <2>1 DEF Insert
      <3>2. \/ RowsOf(leaf)' = RowsOf(leaf)
            \/ RowsOf(leaf)' = [RowsOf(leaf) EXCEPT ![key] = value]
        BY <3>1, InsertRefines
      <3>3. QED
        BY <3>2 DEF Table!Next, Table!Put
    <2>2. ASSUME NEW key \in RowIds, Delete(key)
          PROVE  Table!Next \/ RowsOf(leaf)' = RowsOf(leaf)
      <3>1. leaf' = btree_delete(leaf, key)
        BY <2>2 DEF Delete
      <3>2. \/ RowsOf(leaf)' = RowsOf(leaf)
            \/ RowsOf(leaf)' = [RowsOf(leaf) EXCEPT ![key] = NoRow]
            \/ \E j \in RowIds :
                 /\ RowsOf(leaf)[j] # NoRow
                 /\ \A k \in RowIds : RowsOf(leaf)[k] # NoRow => k <= j
                 /\ RowsOf(leaf)' =
                        [RowsOf(leaf) EXCEPT ![key] = NoRow, ![j] = NoRow]
        BY <3>1, DeleteRefines
      <3>3. QED
        BY <3>2 DEF Table!Next, Table!Remove, Table!RemoveWithGreatest,
           Table!IsGreatest, Table!Stored
    <2>3. CASE UNCHANGED vars
      BY <2>3 DEF vars, RowsOf
    <2>4. QED
      BY <2>1, <2>2, <2>3 DEF Next
  <1>3. Spec => [](IInv /\ SortedKeys)
    <2>1. Init => IInv /\ SortedKeys
      BY InitIInv, InitSorted
    <2>2. IInv /\ SortedKeys /\ [Next]_vars => (IInv /\ SortedKeys)'
      BY NextIInv, NextSorted
    <2>3. QED
      BY <2>1, <2>2, PTL DEF Spec
  <1>4. QED
    BY <1>1, <1>2, <1>3, PTL DEF Spec, ImplementsLossyTable, Table!Spec

=============================================================================
