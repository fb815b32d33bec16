----------------------------- MODULE LeafProofs -----------------------------
(***************************************************************************)
(* What the operators of module Leaf return, for every number of slots.    *)
(***************************************************************************)
EXTENDS Leaf, Recursion, TLAPS

\* A leaf whose keys are in K and whose slots hold what is in C.  K is Keys for the
\* leaf of a table that only statements have changed, Int for one that records of
\* the log were replayed into; C is Contents for the leaf of a table.
LeafOver(K, C) == [num_keys : 0 .. Slots,
                   keys     : [1 .. Slots -> K],
                   values   : [1 .. Slots -> C]]

LEMMA LeavesOver ==
    /\ Node = LeafOver(Keys, Contents) /\ AnyNode = LeafOver(Int, Contents)
    /\ Keys \subseteq Int /\ Node \subseteq AnyNode
    /\ Tombstone \in Keys /\ RowIds \subseteq Keys
    /\ Values \subseteq Contents /\ Empty \in Contents
  <1>1. Keys \subseteq Int
    BY RowIdsAssumption DEF Keys, Tombstone
  <1>2. QED
    BY <1>1 DEF LeafOver, Node, AnyNode, Keys, Contents

\* The slot a lookup settles on holds the key it looked for.
LEMMA FirstMatchOver ==
    ASSUME NEW K \in SUBSET Int, NEW C, NEW n \in LeafOver(K, C),
           NEW key, Present(n, key)
    PROVE  /\ Min(Matches(n, key)) \in Used(n)
           /\ n.keys[Min(Matches(n, key))] = key
  <1>1. Matches(n, key) \subseteq Nat /\ Matches(n, key) # {}
    BY DEF Matches, Used, Present, LeafOver
  <1>2. Min(Matches(n, key)) \in Matches(n, key)
    BY <1>1, MinOfNats
  <1>3. QED
    BY <1>2 DEF Matches

\* The parts of a leaf, and what the keys in it are.
LEMMA PartsOver ==
    ASSUME NEW K, NEW C, NEW n \in LeafOver(K, C)
    PROVE  /\ n.num_keys \in 0 .. Slots
           /\ n.keys \in [1 .. Slots -> K]
           /\ n.values \in [1 .. Slots -> C]
           /\ Used(n) \subseteq 1 .. Slots
           /\ n = [num_keys |-> n.num_keys, keys |-> n.keys,
                   values |-> n.values]
  <1>1. n.num_keys \in 0 .. Slots /\ Slots \in Nat
    BY SlotsAssumption DEF LeafOver
  <1>2. Used(n) \subseteq 1 .. Slots
    BY <1>1 DEF Used
  <1>3. QED
    BY <1>1, <1>2 DEF LeafOver

\* A new key goes behind every smaller key in use before the first that is not.
LEMMA InsertPositionBoundsOver ==
    ASSUME NEW K \in SUBSET Int, NEW C, NEW n \in LeafOver(K, C),
           NEW key \in Int
    PROVE  /\ InsertPosition(n, key) \in 1 .. n.num_keys + 1
           /\ \A j \in Used(n) : j < InsertPosition(n, key) => n.keys[j] < key
           /\ InsertPosition(n, key) \in Used(n) =>
                  key <= n.keys[InsertPosition(n, key)]
  <1> DEFINE Stops == {i \in 1 .. n.num_keys + 1 :
                          i = n.num_keys + 1 \/ key <= n.keys[i]}
  <1>1. n.num_keys \in Nat /\ \A j \in Used(n) : n.keys[j] \in Int
    BY PartsOver, SlotsAssumption
  <1>2. Stops \subseteq Nat /\ n.num_keys + 1 \in Stops
    BY <1>1
  <1>3. Min(Stops) \in Stops /\ \A i \in Stops : Min(Stops) <= i
    BY <1>2, MinOfNats
  <1>4. InsertPosition(n, key) = Min(Stops)
    BY DEF InsertPosition
  <1>5. \A j \in Used(n) : j < Min(Stops) => n.keys[j] < key
    BY <1>1, <1>3 DEF Used
  <1>6. \A i \in Stops : i \in Used(n) => key <= n.keys[i]
    BY <1>1 DEF Used
  <1>7. Min(Stops) \in 1 .. n.num_keys + 1
    BY <1>1, <1>3
  <1> HIDE DEF Stops
  <1>8. QED
    BY <1>3, <1>4, <1>5, <1>6, <1>7

-----------------------------------------------------------------------------

\* A leaf with room that does not have the key: where everything is afterwards.
LEMMA InsertNewOver ==
    ASSUME NEW K \in SUBSET Int, NEW C, NEW n \in LeafOver(K, C),
           NEW key \in K, NEW value \in C,
           ~ Present(n, key), ~ LeafFull(n)
    PROVE  LET m == btree_insert(n, key, value)
               p == InsertPosition(n, key)
           IN  /\ m \in LeafOver(K, C)
               /\ m.num_keys = n.num_keys + 1
               /\ p \in Used(m)
               /\ m.keys[p] = key /\ m.values[p] = value
               /\ \A j \in Used(n) : j < p =>
                      m.keys[j] = n.keys[j] /\ m.values[j] = n.values[j]
               /\ \A j \in Used(m) : p < j =>
                      m.keys[j] = n.keys[j - 1] /\ m.values[j] = n.values[j - 1]
  <1> DEFINE p    == InsertPosition(n, key)
             last == n.num_keys + 1
             m    == [num_keys |-> last,
                      keys     |-> ShiftIn(n.keys, p, last, key),
                      values   |-> ShiftIn(n.values, p, last, value)]
  <1>1. btree_insert(n, key, value) = m
    BY DEF btree_insert
  <1>2. last \in 1 .. Slots /\ n.num_keys \in Nat
    BY PartsOver, SlotsAssumption DEF LeafFull
  <1>3. p \in 1 .. last
    BY InsertPositionBoundsOver, PartsOver
  <1>4. /\ m.num_keys = last
        /\ m.keys = ShiftIn(n.keys, p, last, key)
        /\ m.values = ShiftIn(n.values, p, last, value)
    OBVIOUS
  <1>5. /\ Used(n) = 1 .. last - 1
        /\ Used(m) = 1 .. last
    BY <1>2, <1>4 DEF Used
  <1> HIDE DEF m, p, last
  <1>6. ASSUME NEW D, NEW x \in D, NEW f \in [1 .. Slots -> D]
        PROVE  /\ ShiftIn(f, p, last, x) \in [1 .. Slots -> D]
               /\ ShiftIn(f, p, last, x)[p] = x
               /\ \A j \in 1 .. last - 1 : j < p =>
                      ShiftIn(f, p, last, x)[j] = f[j]
               /\ \A j \in 1 .. last : p < j =>
                      ShiftIn(f, p, last, x)[j] = f[j - 1]
    <2>1. \A j \in 1 .. Slots : j \in p + 1 .. last => j - 1 \in 1 .. Slots
      BY <1>2, <1>3, SlotsAssumption
    <2>2. DOMAIN f = 1 .. Slots /\ \A j \in 1 .. Slots : f[j] \in D
      OBVIOUS
    <2>3. ShiftIn(f, p, last, x) \in [1 .. Slots -> D]
      BY <2>1, <2>2 DEF ShiftIn
    <2>4. \A j \in 1 .. Slots : ShiftIn(f, p, last, x)[j] =
              IF j = p THEN x
              ELSE IF j \in p + 1 .. last THEN f[j - 1] ELSE f[j]
      BY <2>2 DEF ShiftIn
    <2>5. QED
      BY <1>2, <1>3, <2>3, <2>4, SlotsAssumption
  <1>7. /\ ShiftIn(n.keys, p, last, key) \in [1 .. Slots -> K]
        /\ ShiftIn(n.values, p, last, value) \in [1 .. Slots -> C]
    BY <1>6, PartsOver
  <1>8. m \in LeafOver(K, C)
    BY <1>2, <1>7, SlotsAssumption DEF m, LeafOver
  <1>9. /\ m.keys[p] = key
        /\ \A j \in Used(n) : j < p => m.keys[j] = n.keys[j]
        /\ \A j \in Used(m) : p < j => m.keys[j] = n.keys[j - 1]
    BY <1>4, <1>5, <1>6, PartsOver
  <1>10. /\ m.values[p] = value
         /\ \A j \in Used(n) : j < p => m.values[j] = n.values[j]
         /\ \A j \in Used(m) : p < j => m.values[j] = n.values[j - 1]
    <2>1. value \in C /\ n.values \in [1 .. Slots -> C]
      BY PartsOver
    <2>2. /\ ShiftIn(n.values, p, last, value)[p] = value
          /\ \A j \in 1 .. last - 1 : j < p =>
                 ShiftIn(n.values, p, last, value)[j] = n.values[j]
          /\ \A j \in 1 .. last : p < j =>
                 ShiftIn(n.values, p, last, value)[j] = n.values[j - 1]
      BY <1>6, <2>1
    <2>3. QED
      BY <1>4, <1>5, <2>2
  <1>11. QED
    BY <1>1, <1>3, <1>4, <1>5, <1>8, <1>9, <1>10 DEF p, last

\* A leaf that has the key: only the contents of its first slot change.
LEMMA InsertExistingOver ==
    ASSUME NEW K \in SUBSET Int, NEW C, NEW n \in LeafOver(K, C),
           NEW key \in K, NEW value \in C,
           Present(n, key)
    PROVE  LET m == btree_insert(n, key, value)
               p == Min(Matches(n, key))
           IN  /\ m \in LeafOver(K, C)
               /\ p \in Used(n) /\ n.keys[p] = key
               /\ m.num_keys = n.num_keys /\ m.keys = n.keys
               /\ m.values = [n.values EXCEPT ![p] = value]
  <1>1. btree_insert(n, key, value) =
          [n EXCEPT !.values[Min(Matches(n, key))] = value]
    BY DEF btree_insert
  <1> DEFINE p == Min(Matches(n, key))
             m == [n EXCEPT !.values[p] = value]
  <1>2. p \in Used(n) /\ n.keys[p] = key
    BY FirstMatchOver
  <1> HIDE DEF p
  <1>3. /\ m.num_keys = n.num_keys /\ m.keys = n.keys
        /\ m.values = [n.values EXCEPT ![p] = value]
        /\ m = [num_keys |-> n.num_keys, keys |-> n.keys,
                values |-> [n.values EXCEPT ![p] = value]]
    BY DEF LeafOver
  <1>4. [n.values EXCEPT ![p] = value] \in [1 .. Slots -> C]
    BY PartsOver
  <1>5. m \in LeafOver(K, C)
    BY <1>3, <1>4, PartsOver DEF LeafOver
  <1>6. QED
    BY <1>1, <1>2, <1>3, <1>5 DEF p

\* A delete that finds its key: one slot becomes a tombstone and the slots in
\* use are one fewer.
LEMMA DeleteExistingOver ==
    ASSUME NEW K \in SUBSET Int, NEW C, NEW n \in LeafOver(K, C),
           Tombstone \in K, Empty \in C, NEW key, Present(n, key)
    PROVE  LET m == btree_delete(n, key)
               p == Min(Matches(n, key))
           IN  /\ m \in LeafOver(K, C)
               /\ p \in Used(n) /\ n.keys[p] = key
               /\ m.num_keys = n.num_keys - 1
               /\ Used(m) = Used(n) \ {n.num_keys}
               /\ m.keys = [n.keys EXCEPT ![p] = Tombstone]
               /\ m.values = [n.values EXCEPT ![p] = Empty]
  <1> DEFINE p == Min(Matches(n, key))
             m == [num_keys |-> n.num_keys - 1,
                   keys     |-> [n.keys EXCEPT ![p] = Tombstone],
                   values   |-> [n.values EXCEPT ![p] = Empty]]
  <1>1. btree_delete(n, key) = m
    BY DEF btree_delete
  <1>2. p \in Used(n) /\ n.keys[p] = key /\ p \in 1 .. Slots
    BY FirstMatchOver, PartsOver
  <1>3. n.num_keys - 1 \in 0 .. Slots
    BY <1>2, PartsOver, SlotsAssumption DEF Used
  <1> HIDE DEF p
  <1>4. m \in LeafOver(K, C)
    BY <1>2, <1>3, PartsOver DEF LeafOver
  <1>5. Used(m) = Used(n) \ {n.num_keys}
    BY <1>3, PartsOver, SlotsAssumption DEF Used
  <1>6. QED
    BY <1>1, <1>2, <1>4, <1>5 DEF p

-----------------------------------------------------------------------------
(* What lookups see of it.                                                  *)

\* m is n with a row that lookups see unless its key is -1, and shows all others as
\* before.
Shows(n, m, key, value) ==
    /\ key # Tombstone => btree_search(m, key) = value
    /\ \A k \in Int : k # key => btree_search(m, k) = btree_search(n, k)
    /\ \A k \in Int : Present(m, k) <=> Present(n, k) \/ k = key

\* A row that is there shows what it is replaced with.
LEMMA ReplacedIsShown ==
    ASSUME NEW C, NEW n \in LeafOver(Int, C), NEW key \in Int,
           NEW value \in C, Present(n, key)
    PROVE  Shows(n, btree_insert(n, key, value), key, value)
  <1> DEFINE m == btree_insert(n, key, value)
             p == Min(Matches(n, key))
  <1>1. Int \in SUBSET Int
    OBVIOUS
  <1>2. /\ p \in Used(n) /\ n.keys[p] = key
        /\ m.num_keys = n.num_keys /\ m.keys = n.keys
        /\ m.values = [n.values EXCEPT ![p] = value]
    BY <1>1, InsertExistingOver
  <1>3. n.values \in [1 .. Slots -> C] /\ Used(n) \subseteq 1 .. Slots
    BY <1>1, PartsOver
  <1>4. ASSUME NEW k \in Int
        PROVE  Matches(m, k) = Matches(n, k) /\ (Present(m, k) <=> Present(n, k))
    <2> HIDE DEF m
    <2>1. QED
      BY <1>2 DEF Matches, Used, Present
  <1>5. Min(Matches(m, key)) = p /\ Present(m, key)
    BY <1>4
  <1> HIDE DEF m, p
  <1>6. m.values[p] = value /\ \A j \in Used(n) : j # p => m.values[j] = n.values[j]
    BY <1>2, <1>3
  <1>7. key # Tombstone => btree_search(m, key) = value
    BY <1>5, <1>6 DEF btree_search
  <1>8. ASSUME NEW k \in Int, k # key
        PROVE  btree_search(m, k) = btree_search(n, k)
    <2>1. CASE Present(n, k)
      <3> DEFINE q == Min(Matches(n, k))
      <3>1. q \in Used(n) /\ n.keys[q] = k
        BY <1>1, <2>1, FirstMatchOver
      <3>2. Min(Matches(m, k)) = q
        BY <1>4
      <3> HIDE DEF q
      <3>3. m.values[q] = n.values[q]
        BY <1>2, <1>6, <1>8, <3>1
      <3>4. QED
        BY <1>4, <2>1, <3>2, <3>3 DEF btree_search, q
    <2>2. CASE ~ Present(n, k)
      BY <1>4, <2>2 DEF btree_search
    <2>3. QED
      BY <2>1, <2>2
  <1>9. QED
    BY <1>4, <1>5, <1>7, <1>8 DEF Shows, m

\* The slots with a key after the slots from p on have moved up by one.
LEMMA MovedMatch ==
    ASSUME NEW C, NEW n \in LeafOver(Int, C), NEW m, NEW p \in Nat \ {0}, NEW k \in Int, p <= m.num_keys,
           m.num_keys = n.num_keys + 1, m.keys[p] # k,
           \A j \in Used(n) : j < p =>
               m.keys[j] = n.keys[j] /\ m.values[j] = n.values[j],
           \A j \in Used(m) : p < j =>
               m.keys[j] = n.keys[j - 1] /\ m.values[j] = n.values[j - 1]
    PROVE  /\ Present(m, k) <=> Present(n, k)
           /\ btree_search(m, k) = btree_search(n, k)
  <1> DEFINE R(i) == IF i < p THEN i ELSE i + 1
             A == Matches(n, k)
             B == Matches(m, k)
  <1>1. n.num_keys \in Nat /\ Used(n) = 1 .. n.num_keys
        /\ Used(m) = 1 .. n.num_keys + 1
    <2>1. n.num_keys \in 0 .. Slots /\ Slots \in Nat
      BY SlotsAssumption DEF LeafOver
    <2>2. QED
      BY <2>1 DEF Used
  <1>2. A \subseteq Nat /\ B \subseteq Nat
    BY <1>1 DEF Matches
  <1>3. ASSUME NEW i \in A
        PROVE  R(i) \in B /\ m.values[R(i)] = n.values[i]
    <2>1. i \in Used(n) /\ n.keys[i] = k
      BY DEF Matches
    <2>2. CASE i < p
      BY <1>1, <2>1, <2>2 DEF Matches
    <2>3. CASE ~ (i < p)
      <3>1. i + 1 \in Used(m) /\ p < i + 1 /\ (i + 1) - 1 = i
        BY <1>1, <2>1, <2>3
      <3>2. m.keys[i + 1] = k /\ m.values[i + 1] = n.values[i]
        BY <2>1, <3>1
      <3>3. QED
        BY <2>3, <3>1, <3>2 DEF Matches
    <2>4. QED
      BY <2>2, <2>3
  <1>4. ASSUME NEW j \in B
        PROVE  \E i \in A : j = R(i)
    <2>1. j \in Used(m) /\ m.keys[j] = k /\ j # p /\ j \in Nat
      BY <1>2 DEF Matches
    <2>2. CASE j < p
      <3>1. j \in Used(n)
        BY <1>1, <2>1, <2>2
      <3>2. n.keys[j] = k
        BY <2>1, <2>2, <3>1
      <3>3. j \in A
        BY <3>1, <3>2 DEF Matches
      <3>4. QED
        BY <2>2, <3>3
    <2>3. CASE p < j
      <3>1. j - 1 \in Used(n) /\ ~ (j - 1 < p) /\ (j - 1) + 1 = j
        BY <1>1, <2>1, <2>3
      <3>2. j - 1 \in A
        BY <2>1, <2>3, <3>1 DEF Matches
      <3>3. QED
        BY <3>1, <3>2
    <2>4. QED
      BY <2>1, <2>2, <2>3
  <1>5. Present(m, k) <=> Present(n, k)
    BY <1>3, <1>4 DEF Present
  <1>6. CASE Present(n, k)
    <2> DEFINE a == Min(A)
               b == Min(B)
    <2>1. A # {} /\ B # {}
      BY <1>5, <1>6 DEF Present
    <2> HIDE DEF A, B
    <2>2. a \in A /\ \A x \in A : a <= x
      BY <1>2, <2>1, MinOfNats
    <2>3. b \in B /\ \A x \in B : b <= x
      BY <1>2, <2>1, MinOfNats
    <2> HIDE DEF a, b
    <2>4. PICK c \in A : b = R(c)
      BY <1>4, <2>3
    <2>5. b = R(a)
      <3>1. R(a) \in B
        BY <1>3, <2>2
      <3>2. a \in Nat /\ c \in Nat /\ a <= c /\ b <= R(a) /\ b = R(c)
        BY <1>2, <2>2, <2>3, <2>4, <3>1
      <3>3. QED
        BY <3>2
    <2>6. m.values[b] = n.values[a]
      BY <1>3, <2>2, <2>5
    <2>7. QED
      BY <1>5, <1>6, <2>6 DEF btree_search, a, b, A, B
  <1>7. CASE ~ Present(n, k)
    BY <1>5, <1>7 DEF btree_search
  <1>8. QED
    BY <1>5, <1>6, <1>7

\* A row for which there is room shows what was inserted.
LEMMA InsertedIsShown ==
    ASSUME NEW C, NEW n \in LeafOver(Int, C), NEW key \in Int,
           NEW value \in C, Present(n, key) \/ ~ LeafFull(n)
    PROVE  Shows(n, btree_insert(n, key, value), key, value)
  <1>1. CASE Present(n, key)
    BY <1>1, ReplacedIsShown
  <1>2. CASE ~ Present(n, key)
    <2> DEFINE m == btree_insert(n, key, value)
               p == InsertPosition(n, key)
    <2>1. Int \in SUBSET Int
      OBVIOUS
    <2>2. /\ m.num_keys = n.num_keys + 1 /\ p \in Used(m)
          /\ m.keys[p] = key /\ m.values[p] = value
          /\ \A j \in Used(n) : j < p =>
                 m.keys[j] = n.keys[j] /\ m.values[j] = n.values[j]
          /\ \A j \in Used(m) : p < j =>
                 m.keys[j] = n.keys[j - 1] /\ m.values[j] = n.values[j - 1]
      BY <1>2, <2>1, InsertNewOver
    <2> HIDE DEF m, p
    <2>3. n.num_keys \in Nat
      BY SlotsAssumption DEF LeafOver
    <2>4. p \in Nat \ {0} /\ p <= m.num_keys
      BY <2>2, <2>3 DEF Used
    <2>5. \A k \in Int : k # key => /\ Present(m, k) <=> Present(n, k)
                                    /\ btree_search(m, k) = btree_search(n, k)
      BY <2>2, <2>4, MovedMatch
    <2>6. Matches(m, key) = {p}
      <3>1. ASSUME NEW j \in Matches(m, key), j # p
            PROVE  FALSE
        <4>1. j \in Used(m) /\ m.keys[j] = key
          BY DEF Matches
        <4>2. CASE j < p
          <5>1. j \in Used(n)
            BY <2>2, <2>3, <2>4, <4>1, <4>2 DEF Used
          <5>2. QED
            BY <1>2, <2>2, <4>1, <4>2, <5>1 DEF Present, Matches
        <4>3. CASE p < j
          <5>1. j - 1 \in Used(n)
            BY <2>2, <2>3, <2>4, <4>1, <4>3 DEF Used
          <5>2. QED
            BY <1>2, <2>2, <4>1, <4>3, <5>1 DEF Present, Matches
        <4>4. QED
          BY <2>2, <2>3, <2>4, <3>1, <4>1, <4>2, <4>3 DEF Used
      <3>2. p \in Matches(m, key)
        BY <2>2 DEF Matches
      <3>3. QED
        BY <3>1, <3>2
    <2>7. (key # Tombstone => btree_search(m, key) = value) /\ Present(m, key)
      <3>1. Min({p}) \in {p}
        BY <2>4, MinOfNats
      <3>2. QED
        BY <2>2, <2>6, <3>1 DEF btree_search, Present
    <2>8. QED
      BY <2>5, <2>7 DEF Shows, m
  <1>3. QED
    BY <1>1, <1>2

\* No key is in two slots in use, but that of deleted rows.
OneSlotEach(n) ==
    \A i, j \in Used(n) : n.keys[i] = n.keys[j] /\ n.keys[i] # Tombstone => i = j

Proper(C) == {n \in LeafOver(Int, C) : OneSlotEach(n)}

\* The slot in use with a key is the one a lookup settles on.
LEMMA FoundSlot ==
    ASSUME NEW C, NEW n \in Proper(C), NEW j \in Used(n), n.keys[j] # Tombstone
    PROVE  /\ Present(n, n.keys[j]) /\ Min(Matches(n, n.keys[j])) = j
           /\ btree_search(n, n.keys[j]) = n.values[j]
  <1> DEFINE k == n.keys[j]
             q == Min(Matches(n, k))
  <1>1. n \in LeafOver(Int, C) /\ OneSlotEach(n) /\ Int \in SUBSET Int
    BY DEF Proper
  <1>2. j \in Matches(n, k) /\ Present(n, k)
    BY DEF Matches, Present
  <1>3. q \in Used(n) /\ n.keys[q] = k
    BY <1>1, <1>2, FirstMatchOver
  <1>4. q = j
    <2> HIDE DEF q
    <2>1. QED
      BY <1>1, <1>3 DEF OneSlotEach
  <1>5. QED
    BY <1>2, <1>4 DEF btree_search

\* An insert that is refused changes nothing.
LEMMA RefusedInsert ==
    ASSUME NEW n, NEW key, NEW value, ~ Present(n, key), LeafFull(n)
    PROVE  btree_insert(n, key, value) = n
  BY DEF btree_insert

\* No operation takes a leaf out of shape or puts a key into a second slot.
LEMMA InsertKeepsProper ==
    ASSUME NEW C, NEW n \in Proper(C), NEW key \in Int, NEW value \in C
    PROVE  btree_insert(n, key, value) \in Proper(C)
  <1> DEFINE m == btree_insert(n, key, value)
  <1>1. n \in LeafOver(Int, C) /\ OneSlotEach(n) /\ Int \in SUBSET Int
    BY DEF Proper
  <1>2. n.num_keys \in Nat
    BY <1>1, PartsOver, SlotsAssumption
  <1>3. CASE Present(n, key)
    <2> DEFINE p == Min(Matches(n, key))
    <2>1. /\ m \in LeafOver(Int, C)
          /\ p \in Used(n) /\ n.keys[p] = key
          /\ m.num_keys = n.num_keys /\ m.keys = n.keys
          /\ m.values = [n.values EXCEPT ![p] = value]
      BY <1>1, <1>3, InsertExistingOver
    <2> HIDE DEF m, p
    <2>2. OneSlotEach(m)
      BY <1>1, <2>1 DEF OneSlotEach, Used
    <2>3. QED
      BY <2>1, <2>2 DEF Proper, m
  <1>4. CASE ~ Present(n, key) /\ ~ LeafFull(n)
    <2> DEFINE p == InsertPosition(n, key)
    <2>1. /\ m \in LeafOver(Int, C) /\ m.num_keys = n.num_keys + 1
          /\ p \in Used(m) /\ m.keys[p] = key
          /\ \A j \in Used(n) : j < p => m.keys[j] = n.keys[j]
          /\ \A j \in Used(m) : p < j => m.keys[j] = n.keys[j - 1]
      BY <1>1, <1>4, InsertNewOver
    <2> HIDE DEF m, p
    <2>2. /\ \A j \in Used(m) : j < p => j \in Used(n)
          /\ \A j \in Used(m) : p < j => j - 1 \in Used(n)
          /\ \A j \in Used(m) : j \in Int /\ (j < p \/ j = p \/ p < j)
          /\ p \in Int
      BY <1>2, <2>1 DEF Used
    <2> DEFINE Old(j) == IF j < p THEN j ELSE j - 1
    <2>3. ASSUME NEW j \in Used(m), j # p
          PROVE  Old(j) \in Used(n) /\ m.keys[j] = n.keys[Old(j)] /\ m.keys[j] # key
      <3>1. Old(j) \in Used(n) /\ m.keys[j] = n.keys[Old(j)]
        BY <2>1, <2>2, <2>3
      <3> HIDE DEF Old
      <3>2. n.keys[Old(j)] # key
        BY <1>4, <3>1 DEF Present, Matches
      <3>3. QED
        BY <3>1, <3>2
    <2>4. \A i, j \in Used(m) : i # p /\ j # p /\ Old(i) = Old(j) => i = j
      BY <2>2
    <2>5. ASSUME NEW i \in Used(m), NEW j \in Used(m),
                 m.keys[i] = m.keys[j], m.keys[i] # Tombstone
          PROVE  i = j
      <3>1. CASE i = p \/ j = p
        BY <2>1, <2>3, <2>5, <3>1
      <3>2. CASE i # p /\ j # p
        <4> HIDE DEF Old
        <4>1. Old(i) = Old(j)
          BY <1>1, <2>3, <2>5, <3>2 DEF OneSlotEach
        <4>2. QED
          BY <2>4, <3>2, <4>1
      <3>3. QED
        BY <3>1, <3>2
    <2>6. OneSlotEach(m)
      BY <2>5 DEF OneSlotEach
    <2>7. QED
      BY <2>1, <2>6 DEF Proper, m
  <1>5. CASE ~ Present(n, key) /\ LeafFull(n)
    BY <1>5, RefusedInsert
  <1>6. QED
    BY <1>3, <1>4, <1>5

\* A deleted row is gone; the others are as they were, or hidden.
LEMMA DeletedIsGone ==
    ASSUME NEW C, Empty \in C, NEW n \in Proper(C), NEW key \in Int
    PROVE  LET m == btree_delete(n, key)
           IN  /\ m \in Proper(C)
               /\ btree_search(m, key) = NoRow
               /\ \A k \in Int : btree_search(m, k) \in {NoRow, btree_search(n, k)}
  <1> DEFINE m == btree_delete(n, key)
  <1>1. /\ n \in LeafOver(Int, C) /\ OneSlotEach(n)
        /\ Int \in SUBSET Int /\ Tombstone \in Int
    BY DEF Proper, Tombstone
  <1>2. CASE ~ Present(n, key)
    <2>1. m = n
      BY <1>2 DEF btree_delete
    <2>2. QED
      BY <1>2, <2>1 DEF btree_search
  <1>3. CASE Present(n, key)
    <2> DEFINE p == Min(Matches(n, key))
    <2>1. /\ m \in LeafOver(Int, C) /\ p \in Used(n) /\ n.keys[p] = key
          /\ Used(m) = Used(n) \ {n.num_keys}
          /\ m.keys = [n.keys EXCEPT ![p] = Tombstone]
          /\ m.values = [n.values EXCEPT ![p] = Empty]
      BY <1>1, <1>3, DeleteExistingOver
    <2>2. /\ n.keys \in [1 .. Slots -> Int] /\ n.values \in [1 .. Slots -> C]
          /\ Used(n) \subseteq 1 .. Slots
      BY <1>1, PartsOver
    <2> HIDE DEF m, p
    <2>3. /\ m.keys[p] = Tombstone
          /\ \A j \in Used(m) : j \in Used(n)
          /\ \A j \in Used(m) : j # p => /\ m.keys[j] = n.keys[j]
                                         /\ m.values[j] = n.values[j]
      BY <2>1, <2>2
    <2>4. OneSlotEach(m)
      BY <1>1, <2>3 DEF OneSlotEach
    <2>5. m \in Proper(C)
      BY <2>1, <2>4 DEF Proper
    <2>6. ASSUME NEW k \in Int, k # Tombstone, Present(m, k)
          PROVE  k # key /\ btree_search(m, k) = btree_search(n, k)
      <3>1. PICK j \in Used(m) : m.keys[j] = k
        BY <2>6 DEF Present, Matches
      <3>2. j # p /\ j \in Used(n) /\ n.keys[j] = k /\ m.values[j] = n.values[j]
        BY <2>3, <2>6, <3>1
      <3>3. btree_search(m, k) = m.values[j] /\ btree_search(n, k) = n.values[j]
        BY <2>5, <2>6, <3>1, <3>2, FoundSlot
      <3>4. k # key
        BY <1>1, <2>1, <2>6, <3>2 DEF OneSlotEach
      <3>5. QED
        BY <3>2, <3>3, <3>4
    <2>7. \A k \in Int : k = Tombstone \/ ~ Present(m, k) => btree_search(m, k) = NoRow
      BY DEF btree_search
    <2>8. QED
      BY <2>5, <2>6, <2>7 DEF m
  <1>4. QED
    BY <1>2, <1>3

\* An insert changes what lookups see of its own row at most.
LEMMA InsertShowsOthers ==
    ASSUME NEW C, NEW n \in LeafOver(Int, C), NEW key \in Int,
           NEW value \in C
    PROVE  LET m == btree_insert(n, key, value)
           IN  /\ btree_search(m, key) \in {value, btree_search(n, key)}
               /\ \A k \in Int : k # key => btree_search(m, k) = btree_search(n, k)
  <1>1. CASE ~ Present(n, key) /\ LeafFull(n)
    BY <1>1, RefusedInsert
  <1>2. CASE Present(n, key) \/ ~ LeafFull(n)
    <2> DEFINE m == btree_insert(n, key, value)
    <2>1. Shows(n, m, key, value)
      BY <1>2, InsertedIsShown
    <2>2. key = Tombstone => btree_search(m, key) = btree_search(n, key)
      BY DEF btree_search
    <2> HIDE DEF m
    <2>3. QED
      BY <2>1, <2>2 DEF Shows, m
  <1>3. QED
    BY <1>1, <1>2

-----------------------------------------------------------------------------
(* The same for the leaf of a table.                                        *)

LEMMA FirstMatch ==
    ASSUME NEW n \in Node, NEW key, Present(n, key)
    PROVE  /\ Min(Matches(n, key)) \in Used(n)
           /\ n.keys[Min(Matches(n, key))] = key
  <1>1. n \in LeafOver(Keys, Contents) /\ Keys \in SUBSET Int
    BY LeavesOver
  <1>2. QED
    BY <1>1, FirstMatchOver

LEMMA NodeParts ==
    ASSUME NEW n \in Node
    PROVE  /\ n.num_keys \in 0 .. Slots
           /\ n.keys \in [1 .. Slots -> Keys]
           /\ n.values \in [1 .. Slots -> Contents]
           /\ Keys \subseteq Int
           /\ Used(n) \subseteq 1 .. Slots
           /\ n = [num_keys |-> n.num_keys, keys |-> n.keys,
                   values |-> n.values]
  <1>1. n \in LeafOver(Keys, Contents) /\ Keys \in SUBSET Int
    BY LeavesOver
  <1>2. QED
    BY <1>1, PartsOver

LEMMA InsertPositionBounds ==
    ASSUME NEW n \in Node, NEW key \in Int
    PROVE  /\ InsertPosition(n, key) \in 1 .. n.num_keys + 1
           /\ \A j \in Used(n) : j < InsertPosition(n, key) => n.keys[j] < key
           /\ InsertPosition(n, key) \in Used(n) =>
                  key <= n.keys[InsertPosition(n, key)]
  <1>1. n \in LeafOver(Keys, Contents) /\ Keys \in SUBSET Int
    BY LeavesOver
  <1>2. QED
    BY <1>1, InsertPositionBoundsOver

LEMMA InsertNew ==
    ASSUME NEW n \in Node, NEW key \in RowIds, NEW value \in Values,
           ~ Present(n, key), ~ LeafFull(n)
    PROVE  LET m == btree_insert(n, key, value)
               p == InsertPosition(n, key)
           IN  /\ m \in Node
               /\ m.num_keys = n.num_keys + 1
               /\ p \in Used(m)
               /\ m.keys[p] = key /\ m.values[p] = value
               /\ \A j \in Used(n) : j < p =>
                      m.keys[j] = n.keys[j] /\ m.values[j] = n.values[j]
               /\ \A j \in Used(m) : p < j =>
                      m.keys[j] = n.keys[j - 1] /\ m.values[j] = n.values[j - 1]
  <1>1. /\ n \in LeafOver(Keys, Contents) /\ Keys \in SUBSET Int
        /\ key \in Keys /\ value \in Contents
    BY LeavesOver
  <1>2. QED
    BY <1>1, InsertNewOver, LeavesOver

LEMMA InsertExisting ==
    ASSUME NEW n \in Node, NEW key \in RowIds, NEW value \in Values,
           Present(n, key)
    PROVE  LET m == btree_insert(n, key, value)
               p == Min(Matches(n, key))
           IN  /\ m \in Node
               /\ p \in Used(n) /\ n.keys[p] = key
               /\ m.num_keys = n.num_keys /\ m.keys = n.keys
               /\ m.values = [n.values EXCEPT ![p] = value]
  <1>1. /\ n \in LeafOver(Keys, Contents) /\ Keys \in SUBSET Int
        /\ key \in Keys /\ value \in Contents
    BY LeavesOver
  <1>2. QED
    BY <1>1, InsertExistingOver, LeavesOver

LEMMA DeleteExisting ==
    ASSUME NEW n \in Node, NEW key \in RowIds, Present(n, key)
    PROVE  LET m == btree_delete(n, key)
               p == Min(Matches(n, key))
           IN  /\ m \in Node
               /\ p \in Used(n) /\ n.keys[p] = key
               /\ m.num_keys = n.num_keys - 1
               /\ Used(m) = Used(n) \ {n.num_keys}
               /\ m.keys = [n.keys EXCEPT ![p] = Tombstone]
               /\ m.values = [n.values EXCEPT ![p] = Empty]
  <1>1. n \in LeafOver(Keys, Contents) /\ Keys \in SUBSET Int /\ Tombstone \in Keys
    BY LeavesOver
  <1>2. QED
    BY <1>1, DeleteExistingOver, LeavesOver

\* Nor does it matter here what the keys are.
LEMMA ReplacedInAny ==
    ASSUME NEW n \in AnyNode, NEW key \in Int, NEW value \in Contents,
           Present(n, key)
    PROVE  LET m == btree_insert(n, key, value)
               p == Min(Matches(n, key))
           IN  /\ m \in AnyNode
               /\ p \in Used(n) /\ n.keys[p] = key
               /\ m.num_keys = n.num_keys /\ m.keys = n.keys
               /\ m.values = [n.values EXCEPT ![p] = value]
  <1>1. n \in LeafOver(Int, Contents) /\ Int \in SUBSET Int
    BY LeavesOver
  <1>2. QED
    BY <1>1, InsertExistingOver, LeavesOver

\* No operation takes a leaf out of shape, whatever the keys are.
LEMMA OperationsKeepShape ==
    ASSUME NEW n \in AnyNode, NEW key \in Int, NEW value \in Contents
    PROVE  /\ btree_insert(n, key, value) \in AnyNode
           /\ btree_delete(n, key) \in AnyNode
  <1>1. /\ n \in LeafOver(Int, Contents) /\ Int \in SUBSET Int /\ Tombstone \in Int
        /\ AnyNode = LeafOver(Int, Contents) /\ Empty \in Contents
    BY LeavesOver DEF Tombstone
  <1>2. btree_insert(n, key, value) \in AnyNode
    <2>1. CASE Present(n, key)
      BY <1>1, <2>1, InsertExistingOver
    <2>2. CASE ~ Present(n, key) /\ LeafFull(n)
      BY <2>2 DEF btree_insert
    <2>3. CASE ~ Present(n, key) /\ ~ LeafFull(n)
      BY <1>1, <2>3, InsertNewOver
    <2>4. QED
      BY <2>1, <2>2, <2>3
  <1>3. btree_delete(n, key) \in AnyNode
    <2>1. CASE Present(n, key)
      BY <1>1, <2>1, DeleteExistingOver
    <2>2. CASE ~ Present(n, key)
      BY <2>2 DEF btree_delete
    <2>3. QED
      BY <2>1, <2>2
  <1>4. QED
    BY <1>2, <1>3

=============================================================================
