------------------------------- MODULE FileScan -------------------------------
(***************************************************************************)
(* The database file as wal_apply_committed_transactions reads it: ROLLBACK*)
(* has it look for the records of the transaction there, where there are   *)
(* none.  The scan takes the bytes of the pages for log headers, from the  *)
(* start of the file in steps of a header, until one looks like a record.  *)
(*                                                                         *)
(* Pages are PageSize bytes long instead of 4096, with the same remainder  *)
(* of the length of a header, so a header falls on the same fields of each *)
(* page as in the program.  Slots behind the end of a page are not in the  *)
(* file.                                                                   *)
(***************************************************************************)
EXTENDS LeafCalls

CONSTANTS
    PageSize,       \* PAGE_SIZE
    ValueSize,      \* the size of a value in BTreeLeafNode, for 256
    CatalogPages    \* what may be in page 1, as far as it may read as a header

ASSUME PageAssumption ==
    /\ PageSize \in Nat /\ ValueSize \in Nat \ {0}
    /\ PageSize % HeaderSize = 4096 % HeaderSize
    /\ \A page \in CatalogPages : page \in Seq(Bytes) /\ Len(page) = PageSize
    /\ \A value \in Values \cup {Garbled} : TextBytes(value) \in Seq(Bytes)

-----------------------------------------------------------------------------
(* The file.                                                                *)

\* strcpy puts the text in front of what the slot held, taken to be zero here.
\* An entry for a row that no statement wrote is as such a row is.
ByteOfValue(value, i) ==
    LET text == TextBytes(IF value \in Values THEN value ELSE Garbled)
    IN  IF value = Empty \/ i >= Len(text) THEN 0 ELSE text[i + 1]

\* BTreeLeafNode: is_leaf, num_keys, the keys, the values, next_leaf.
ByteOfLeaf(leaf, i) ==
    LET word  == i \div 4
        texts == 4 * (2 + Slots)
    IN  IF word = 0 THEN ByteOf(1, i)
        ELSE IF word = 1 THEN ByteOf(leaf.num_keys, i - 4)
        ELSE IF i < texts THEN ByteOf(leaf.keys[word - 1], i % 4)
        ELSE IF i < texts + Slots * ValueSize
        THEN ByteOfValue(leaf.values[(i - texts) \div ValueSize + 1],
                         (i - texts) % ValueSize)
        ELSE 0

\* The pages with these leaves, one behind the other.
LeavesBytes(leaves) ==
    [n \in 1 .. PageSize * Len(leaves) |->
        ByteOfLeaf(leaves[(n - 1) \div PageSize + 1], (n - 1) % PageSize)]

\* Page 0, a leaf without rows that nothing uses.
UnusedRoot == LeavesBytes(<< Formatted(ZeroPage) >>)

\* Page 1 is the catalog, and leaves are behind it.
FileOf(page1, leaves) == UnusedRoot \o page1 \o LeavesBytes(leaves)

-----------------------------------------------------------------------------
(* The scan for the records of transaction tx: pos is where it reads.       *)

\* The calls a header leads to that was read up to body.
CallsOf(file, header, body, tx) ==
    IF TxId(header) # tx THEN << >>
    ELSE Redo(Type(header), ReadKey(file, body),
              ReadValue(file, body + KeySize, ValueLen(header)))

\* Where the rounds of the loop begin as long as none of them finds a record.
RoundsFrom(file, start) ==
    {start + HeaderSize * i : i \in 0 .. (Len(file) - start - 1) \div HeaderSize}

\* The header read at pos, over the one of the round before.
HeaderAt(file, start, old, pos) ==
    ReadHeader(file, pos,
               IF pos = start THEN old
               ELSE ReadHeader(file, pos - HeaderSize, Unread))

\* The rounds of the loop that find a record, of those from start on.
RecordsAhead(file, start, old, tx) ==
    {pos \in RoundsFrom(file, start) :
        CallsOf(file, HeaderAt(file, start, old, pos), pos + HeaderSize, tx) # << >>}

=============================================================================
