---------------------------- MODULE RollbackScan ----------------------------
(***************************************************************************)
(* ROLLBACK on a table with indexes.  It opens the file anew and has       *)
(* wal_apply_committed_transactions look for the records of the            *)
(* transaction in the database file, where there are none: the scan takes  *)
(* the bytes of the pages for log headers, and each call of btree.c that a *)
(* header makes it do moves the offset of the file it is reading.          *)
(***************************************************************************)
EXTENDS TableIndex, FileScan

VARIABLES
    catalog,    \* the bytes of page 1
    scan        \* the scan of ROLLBACK

vars == <<indexVars, catalog, scan>>

-----------------------------------------------------------------------------

File == FileOf(catalog, pages)

\* Where a read or a write of the table's page leaves the offset of the file.
BehindTable == 3 * PageSize

-----------------------------------------------------------------------------

\* odd tells a round from the one before it, also when it comes back to where that
\* one began.
NoScan == [running |-> FALSE, offset |-> 0, header |-> Unread,
           cached  |-> FALSE, found  |-> 0, odd |-> FALSE]

\* A new pool and a new pager on the same file, and the catalog as it was saved.
Rollback ==
    /\ up /\ locked /\ ~ scan.running
    /\ scan' = [NoScan EXCEPT !.running = TRUE]
    /\ UNCHANGED <<indexVars, catalog>>

\* A call writes the page to the file, unless it is one of those that change
\* nothing and return without unpinning it.
WritesPage(leaf, c) ==
    IF c.call = "btree_insert" THEN ~ InsertLeaksPin(leaf, c.key)
                               ELSE ~ DeleteLeaksPin(leaf, c.key)

\* Mutant of OffsetAfter: the scan has an offset of its own.
OwnOffset(calls, pos, past) == past

\* Mutant of OffsetAfter: after its calls the scan goes back to the header.
BackToHeader(calls, pos, past) == pos

\* The offset after the calls of a record at pos, which comes from reading the
\* page when it is not in the new pool yet, and from writing it.
OffsetAfter(calls, pos, past) ==
    IF \/ ~ scan.cached
       \/ \E i \in DOMAIN calls :
            WritesPage(Calls(table, SubSeq(calls, 1, i - 1)), calls[i])
    THEN BehindTable ELSE past

\* The table and the scan after a record was found at pos and its calls made.
AfterRecord(file, header, pos) ==
    LET calls == CallsOf(file, header, pos + HeaderSize, current_tx_id)
        past  == PastRecord(header, pos, {LOG_RECORD_TYPE_INSERT,
                                          LOG_RECORD_TYPE_UPDATE})
    IN  [table |-> Calls(table, calls),
         scan  |-> [running |-> TRUE,
                    offset  |-> OffsetAfter(calls, pos, past),
                    header  |-> header,
                    cached  |-> TRUE,
                    found   |-> IF scan.found < 2 THEN scan.found + 1
                                                  ELSE scan.found,
                    odd     |-> ~ scan.odd]]

\* The loop goes on to the next record it takes for one of the transaction, and
\* ends at the end of the file when there is none.
ScanStep ==
    /\ up /\ scan.running
    /\ \E file \in {File} :
       \E ahead \in {RecordsAhead(file, scan.offset, scan.header, current_tx_id)} :
        \/ /\ ahead = {}
           /\ scan' = NoScan
           /\ locked' = FALSE
           /\ UNCHANGED <<pages, again, clean>>
        \/ /\ ahead # {}
           /\ \E pos \in {Min(ahead)} :
              \E header \in {HeaderAt(file, scan.offset, scan.header, pos)} :
              \E after \in {AfterRecord(file, header, pos)} :
                /\ pages' = [pages EXCEPT ![TablePage] = after.table]
                /\ scan' = after.scan
                /\ again' = again \cup Reverted(after.table)
                /\ clean' = (clean /\ after.table = table)
           /\ UNCHANGED locked
    /\ UNCHANGED <<up, current_tx_id, lsn, log, indexes, session, given, catalog>>

\* The program is killed in the scan.
Kill ==
    /\ scan.running
    /\ Close
    /\ scan' = NoScan
    /\ UNCHANGED catalog

Init ==
    /\ InitIndex
    /\ catalog \in CatalogPages
    /\ scan = NoScan

Next ==
    \/ ~ scan.running /\ NextIndex /\ UNCHANGED <<catalog, scan>>
    \/ Rollback
    \/ ScanStep
    \/ Kill

Spec == Init /\ [][Next]_vars

\* The one thread goes on with the loop it is in.
FairSpec == Spec /\ WF_vars(ScanStep)

-----------------------------------------------------------------------------

\* Without a page behind the table's, a ROLLBACK finds one record at most: the
\* call it makes reads the table's page, which leaves the offset at the end of the
\* file.  This is what Database takes a ROLLBACK for.
OneRecordInThreePages == Len(pages) = 1 => scan.found <= 1

\* Only a recovery and a ROLLBACK, which may take for a record what is none, bring
\* rows into the table with contents that no statement gave, and besides these only
\* the INSERT of a row below -1 among tombstones, which btree_insert takes for rows
\* -1, brings rows out of order: no other statement does, wherever it dies, though
\* a DELETE leaves its slot to be filled by no one and hides the last row.
TableStaysLegible ==
    [][ up /\ ~ scan.running /\ Legible(table) =>
            /\ ShowsRows(table')
            /\ \/ InOrder(table')
               \/ /\ Present(table, Tombstone)
                  /\ \E id \in LiveKeys(table') \ LiveKeys(table) : id < Tombstone
      ]_vars

\* Somewhere behind the table's page four bytes read as INSERT or UPDATE and the
\* next four as the number of the transaction.
HeaderBehindTable ==
    \E behind \in {LeavesBytes(Tail(pages))} :
    \E i \in 0 .. (PageSize * (Len(pages) - 1)) \div 4 - 4 :
        /\ Number(behind, 4 * i + 8) \in {LOG_RECORD_TYPE_INSERT,
                                          LOG_RECORD_TYPE_UPDATE}
        /\ Number(behind, 4 * i + 12) = current_tx_id

\* ROLLBACK comes to an end when the pages of the indexes do not look like that:
\* whatever else it finds, each call that moves the offset back leaves less to be
\* found, and a call that changes nothing does not move it.
ScanEnds ==
    scan.running /\ ~ HeaderBehindTable ~> ~ scan.running

(* What the repository says of the program and the program does not do.     *)

\* ROLLBACK ends the transaction: "begin/commit/rollback support", README.md:8.
RollbackEnds == scan.running ~> ~ scan.running

=============================================================================
