----------------------------- MODULE MCDatabase -----------------------------
(* Values for the constants of Database.                                   *)
EXTENDS Database

CONSTANTS a, b, c

\* Rows "0|a" and "0|c", four bytes with the NUL, and one of twenty bytes, with
\* its key as long as a log header.
MCTextBytes(v) ==
    CASE v = a -> <<48, 124, 97, 0>>
      [] v = b -> [i \in 1 .. 20 |-> IF i = 20 THEN 0 ELSE 98]
      [] v = c -> <<48, 124, 99, 0>>
      [] OTHER -> <<103, 0>>

\* A row with a negative key and one whose key is a number of a transaction.
TwoRows == {-2, 1}

Zeros(n) == [i \in 1 .. n |-> 0]

\* The catalog's unset bytes read as a record of transaction 1: a header falls on
\* the ninth byte of the page.
Left(record) ==
    LET bytes == FlattenSeq(record)
    IN  Zeros(8) \o bytes \o Zeros(PageSize - 8 - Len(bytes))

MCCatalogPages ==
    { Zeros(PageSize),
      Left(wal_log_insert(0, 1, 1, Garbled, 0)),
      Left(wal_log_update(0, 1, -2, a, 0)) }

=============================================================================
