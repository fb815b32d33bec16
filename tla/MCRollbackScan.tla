--------------------------- MODULE MCRollbackScan ---------------------------
(* Values for the constants of RollbackScan.                               *)
EXTENDS RollbackScan

\* Contents of rows and entries: "1|-1" and "1", with the NUL.
Digits(n) == IF n < 0 THEN <<45, 48 - n>> ELSE <<48 + n>>

MCTextBytes(v) ==
    IF v \in Texts THEN Digits(v[1]) \o <<124>> \o Digits(v[2]) \o <<0>>
    ELSE IF v = Garbled THEN <<103, 0>>
    ELSE Digits(v[1]) \o <<0>>

SmallIds == {-2, 1}

SmallNumbers == {-1, 0}

\* Numbers that read as LOG_RECORD_TYPE_INSERT and as the first transaction's.
HeaderNumbers == {0, 1}

MCRowIds == -2 .. 1

MCTexts == Ids \X Numbers

MCValues == Texts \cup {<<id>> : id \in Ids} \cup {Garbled}

Zeros(n) == [i \in 1 .. n |-> 0]

\* The catalog's unset bytes read as an INSERT of the row "1|0" by the second
\* transaction and the header of a DELETE by it, which ends with the page.
RowLeft ==
    Zeros(8) \o FlattenSeq(wal_log_insert(0, 2, 1, <<1, 0>>, 0))
        \o LogRecordHeader(0, LOG_RECORD_TYPE_DELETE, 2, 0, 0)

MCCatalogPages == {RowLeft}

\* A frame that held nothing, and one with the catalog: no keys, and names.
CatalogLeaf == [num_keys |-> 1,
                keys     |-> [i \in 1 .. Slots |-> 1 + i],
                values   |-> [i \in 1 .. Slots |-> Garbled]]

MCOldPages == {CatalogLeaf}

=============================================================================
