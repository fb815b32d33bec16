------------------------------ MODULE Database ------------------------------
(***************************************************************************)
(* database.c: transactions on one table, over the leaf of btree.c and the *)
(* log of wal.c, through crashes and reopenings.  The program has a single *)
(* thread and a single transaction at a time; it may die between any two   *)
(* writes to its two files.  A page is in the file as soon as the call that*)
(* changes it returns (BufferPool, NothingToFlush), so leaf is both the    *)
(* page in memory and the page in the file.                                *)
(*                                                                         *)
(* The table was made by CREATE TABLE in a database of its own: pages 0    *)
(* and 1 are the unused root and the catalog, page 2 is the table's leaf.  *)
(***************************************************************************)
EXTENDS FileScan

CONSTANTS
    Statements,     \* the kinds of statements that are run
    UpdateTexts,    \* the contents UPDATE gives to rows
    Pads,           \* what may be in the padding of a log header
    TornRecords,    \* whether the program may die inside a log record
    Sessions,       \* statements are only run in the first so many sessions
    MaxTx,          \* bound on the transactions of a session
    MaxLog          \* bound on the length of the log, in bytes

ASSUME TextsAssumption ==
    /\ UpdateTexts \subseteq Texts
    /\ Texts \subseteq Values
    /\ Blank = Empty

ASSUME BoundsAssumption ==
    /\ Statements \subseteq {"INSERT", "UPDATE", "DELETE"}
    /\ TornRecords \in BOOLEAN
    /\ Sessions \in Nat /\ MaxTx \in Bytes
    /\ MaxLog \in 0 .. 255 * HeaderSize
    /\ RowIds \subseteq Int32 /\ Pads \subseteq Bytes

\* A row INSERT builds has a delimiter behind it at first, in a buffer that has
\* room for 255 characters.  Those UPDATE builds may have them all.
InsertTexts == {v \in Texts : Len(TextBytes(v)) <= 255}

VARIABLES
    up,             \* the program runs and has opened the database
    locked,         \* Database.locked: a transaction is open
    current_tx_id,  \* Database.current_tx_id
    lsn,            \* Wal.lsn
    leaf,           \* the table's page
    log,            \* wal.log
    catalog,        \* the bytes of page 1
    session,        \* number of the session
    (* History variables, which no action depends on.                       *)
    begun,          \* transactions begun so far, over all sessions
    history,        \* the statements whose record is in the log
    committed,      \* the transactions that were committed
    scanned         \* the calls ROLLBACKs made of what they took for records

memory == <<up, locked, current_tx_id, lsn>>

ghosts == <<begun, history, committed, scanned>>

vars == <<up, locked, current_tx_id, lsn, leaf, log, catalog, session, ghosts>>

-----------------------------------------------------------------------------

Init ==
    /\ up = TRUE
    /\ locked = FALSE
    /\ current_tx_id = 0
    /\ lsn = 0
    /\ leaf = Formatted(ZeroPage)
    /\ log = << >>
    /\ catalog \in CatalogPages
    /\ session = 1
    /\ begun = 0
    /\ history = << >>
    /\ committed = {}
    /\ scanned = {}

\* The program dies, or is left: what it had in memory is gone.
Forget ==
    /\ up' = FALSE
    /\ locked' = FALSE
    /\ current_tx_id' = 0
    /\ lsn' = 0

\* Mutant of Statement: the page is written before the log.
PageBeforeLog(record, page, redo) ==
    \E survives \in BOOLEAN :
        /\ leaf' = page
        /\ IF survives
           THEN /\ log' = log \o FlattenSeq(record)
                /\ lsn' = lsn + 1
                /\ history' = Append(history, [tx |-> begun, redo |-> redo])
                /\ UNCHANGED <<up, locked, current_tx_id>>
           ELSE Forget /\ UNCHANGED <<log, history>>
        /\ UNCHANGED <<catalog, session, begun, committed, scanned>>

\* A statement first writes its record, then its page, and may die in between.
Statement(record, page, redo) ==
    \E written \in 1 .. Len(record), survives \in BOOLEAN :
        /\ written < Len(record) => TornRecords /\ ~ survives
        /\ log' = log \o FlattenSeq(SubSeq(record, 1, written))
        /\ IF survives
           THEN leaf' = page /\ lsn' = lsn + 1
                /\ UNCHANGED <<up, locked, current_tx_id>>
           ELSE Forget /\ UNCHANGED leaf
        /\ history' = IF written < Len(record) THEN history
                      ELSE Append(history, [tx |-> begun, redo |-> redo])
        /\ UNCHANGED <<catalog, session, begun, committed, scanned>>

LogHasRoom == Len(log) < MaxLog

Begin ==
    /\ up /\ ~ locked
    /\ session <= Sessions /\ current_tx_id < MaxTx /\ LogHasRoom
    /\ locked' = TRUE
    /\ current_tx_id' = current_tx_id + 1
    /\ \E pad \in Pads :
        log' = log \o FlattenSeq(wal_log_begin(lsn, current_tx_id + 1, pad))
    /\ lsn' = lsn + 1
    /\ begun' = begun + 1
    /\ UNCHANGED <<up, leaf, catalog, session, history, committed, scanned>>

Insert(id, value) ==
    /\ up /\ locked /\ LogHasRoom /\ "INSERT" \in Statements
    /\ \E pad \in Pads :
        Statement(wal_log_insert(lsn, current_tx_id, id, value, pad),
                  btree_insert(leaf, id, value),
                  Redo(LOG_RECORD_TYPE_INSERT, id, value))

\* The row must be there.  Nothing of the old row is logged.
Update(id, value) ==
    /\ up /\ locked /\ LogHasRoom /\ "UPDATE" \in Statements
    /\ btree_search(leaf, id) # NoRow
    /\ \E pad \in Pads :
        Statement(wal_log_update(lsn, current_tx_id, id, value, pad),
                  btree_insert(leaf, id, value),
                  Redo(LOG_RECORD_TYPE_UPDATE, id, value))

\* The row need not be there.
Delete(id) ==
    /\ up /\ locked /\ LogHasRoom /\ "DELETE" \in Statements
    /\ \E pad \in Pads :
        Statement(wal_log_delete(lsn, current_tx_id, id, pad),
                  btree_delete(leaf, id),
                  Redo(LOG_RECORD_TYPE_DELETE, id, Blank))

\* Mutant of Commit: another transaction is recorded as committed.
CommitNextId ==
    /\ up /\ locked /\ LogHasRoom
    /\ \E pad \in Pads :
        log' = log \o FlattenSeq(wal_log_commit(lsn, current_tx_id, pad))
    /\ lsn' = lsn + 1
    /\ locked' = FALSE
    /\ committed' = committed \cup {begun + 1}
    /\ UNCHANGED <<up, current_tx_id, leaf, catalog, session, begun, history, scanned>>

\* The pages are in the file already: buffer_pool_flush_all finds nothing.
Commit ==
    /\ up /\ locked /\ LogHasRoom
    /\ \E pad \in Pads :
        log' = log \o FlattenSeq(wal_log_commit(lsn, current_tx_id, pad))
    /\ lsn' = lsn + 1
    /\ locked' = FALSE
    /\ committed' = committed \cup {begun}
    /\ UNCHANGED <<up, current_tx_id, leaf, catalog, session, begun, history, scanned>>

\* wal_apply_committed_transactions looks for the records of the transaction in
\* the database file, where it takes the bytes of the pages for headers.  The calls
\* it makes of the first that looks like one read the table's page, the last of
\* the file, and there the scan ends (RollbackScan, OneRecordInThreePages).
wal_apply_committed_transactions ==
    LET file  == FileOf(catalog, <<leaf>>)
        found == RecordsAhead(file, 0, Unread, current_tx_id)
        pos   == Min(found)
    IN  IF found = {} THEN << >>
        ELSE CallsOf(file, HeaderAt(file, 0, Unread, pos), pos + HeaderSize,
                     current_tx_id)

\* The pool and the pager are opened anew, which undoes nothing.
Rollback ==
    /\ up /\ locked
    /\ leaf' = Calls(leaf, wal_apply_committed_transactions)
    /\ locked' = FALSE
    /\ scanned' = scanned \cup Range(wal_apply_committed_transactions)
    /\ UNCHANGED <<up, current_tx_id, lsn, log, catalog, session,
                   begun, history, committed>>

\* db_close, or a death between two statements; an open transaction stays open.
Close ==
    /\ up
    /\ Forget
    /\ UNCHANGED <<leaf, log, catalog, session, ghosts>>

\* db_open replays the log on the page as it is; it may die half-way.
Open ==
    /\ ~ up
    /\ LET calls == wal_recover(log)
       IN  \E done \in 0 .. Len(calls) :
            /\ leaf' = Calls(leaf, SubSeq(calls, 1, done))
            /\ up' = (done = Len(calls))
            /\ session' = IF session <= Sessions /\ done = Len(calls)
                          THEN session + 1 ELSE session
    /\ UNCHANGED <<locked, current_tx_id, lsn, log, catalog, ghosts>>

Next ==
    \/ Begin
    \/ \E id \in RowIds : \/ \E value \in InsertTexts : Insert(id, value)
                          \/ \E value \in UpdateTexts : Update(id, value)
                          \/ Delete(id)
    \/ Commit
    \/ Rollback
    \/ Close
    \/ Open

Spec == Init /\ [][Next]_vars

-----------------------------------------------------------------------------

TypeOK ==
    /\ up \in BOOLEAN /\ locked \in BOOLEAN
    /\ current_tx_id \in 0 .. MaxTx
    /\ lsn \in 0 .. 255
    /\ leaf \in AnyNode
    /\ log \in Seq(Bytes)
    /\ catalog \in CatalogPages
    /\ session \in 1 .. Sessions + 1
    /\ begun \in Nat
    /\ committed \subseteq 1 .. begun
    /\ scanned \subseteq AnyCall
    /\ \A i \in DOMAIN history : history[i].tx \in 1 .. begun

\* Every row with contents a statement could have given was written to the log
\* before it was written to its page: write-ahead, at each point where the
\* program can die, and through recoveries that die half-way.  Only a ROLLBACK
\* that took bytes of the pages for a record may have made such a row of them.
RowsAreLogged ==
    \A id \in RowIds :
        btree_search(leaf, id) \in Texts =>
            \/ \E i \in DOMAIN history :
                    InsertCall(id, btree_search(leaf, id)) \in Range(history[i].redo)
            \/ InsertCall(id, btree_search(leaf, id)) \in scanned

\* The calls that redo the committed statements, in the order they were run.
CommittedCalls ==
    FlattenSeq([i \in DOMAIN history |->
        IF history[i].tx \in committed THEN history[i].redo ELSE << >>])

\* What a recovery would replay now is what the committed transactions did, all
\* of it, in order and nothing else.
ReplaysCommitted == wal_recover(log) = CommittedCalls

\* The contents the last committed statement gave to a row, of those inserted.
LastCommitted(id) ==
    LET is == {i \in DOMAIN CommittedCalls : CommittedCalls[i].key = id}
    IN  IF is = {} THEN NoRow ELSE CommittedCalls[Max(is)].value

OnlyInserts ==
    \A i \in DOMAIN history : Len(history[i].redo) = 1
                              /\ history[i].redo[1].call = "btree_insert"

\* As long as there were only INSERTs, an opened database has all rows that were
\* committed, with their last committed contents, whatever later transactions
\* wrote over them and rollbacks deleted or garbled.  A row -1 is in its slot, but
\* no lookup finds it (btree.c:34).
RecoveryRestores ==
    [][ ~ up /\ up' /\ OnlyInserts =>
            \A id \in RowIds \ {Tombstone} : LastCommitted(id) # NoRow =>
                btree_search(leaf', id) = LastCommitted(id) ]_vars

(* What the repository says of the program and the program does not do.     *)

\* ROLLBACK leaves no row behind that only transactions without a COMMIT gave:
\* tests/test_btree.c:111 looks the row up that was rolled back, and line 112
\* asserts that there is none; README.md:8 has "rollback support".
RolledBackRowsVanish ==
    [][ locked /\ ~ locked' /\ up' /\ committed' = committed =>
            \A id \in RowIds : btree_search(leaf', id) \in Texts =>
                InsertCall(id, btree_search(leaf', id)) \in Range(CommittedCalls)
      ]_vars

\* A recovery does nothing that no committed transaction did: "skip uncommitted
\* data", src/wal.c:158.
UncommittedIsSkipped ==
    Range(wal_recover(log)) \subseteq Range(CommittedCalls)

\* A recovery leaves out nothing that a committed transaction did: "write-ahead
\* logging for crash recovery", README.md:9.
CommittedIsReplayed ==
    Range(CommittedCalls) \subseteq Range(wal_recover(log))

=============================================================================
