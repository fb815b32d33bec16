----------------------------- MODULE TableIndex -----------------------------
(***************************************************************************)
(* Secondary indexes of database.c: one table and the indexes on it, each  *)
(* a leaf of btree.c in a page of its own, the statements that keep them   *)
(* together, and the lookups that go through them.  An index maps the      *)
(* number in a column to the primary key of one row.  Nothing about an     *)
(* index is logged, and a statement changes its pages one by one: the      *)
(* program may die after each.                                             *)
(*                                                                         *)
(* A row is <<id, g>>, its primary key and the INT column g; of its other  *)
(* columns it matters only that they cannot be indexed.  An index's entry  *)
(* holds <<id>>.  ROLLBACK is in RollbackScan.                             *)
(***************************************************************************)
EXTENDS LeafCalls

CONSTANTS
    Ids,            \* the primary keys INSERT is run with
    Numbers,        \* the contents of column g
    NoNumber,       \* the column is not there: strtok came to the end
    Pads,           \* what may be in the padding of a log header
    OldPages,       \* what a frame may hold that held no page of these, as a leaf
    MaxIndexes,     \* MAX_INDEXES_PER_TABLE
    Sessions,       \* statements are only run in the first so many sessions
    MaxTx,          \* bound on the transactions of a session
    MaxLog,         \* bound on the length of the log, in bytes
    MaxPages        \* bound on the pages of the table and its indexes

ASSUME IndexConstants ==
    /\ Texts = Ids \X Numbers
    /\ Texts \cup {<<id>> : id \in Ids} \cup {Garbled} \subseteq Values
    /\ Ids \subseteq Int32 /\ Numbers \subseteq Int32 /\ Pads \subseteq Bytes
    /\ Sessions \in Nat /\ MaxTx \in Bytes /\ MaxLog \in 0 .. 255 * HeaderSize
    /\ MaxIndexes \in Nat /\ MaxPages \in Nat \ {0}
    /\ Ids \cup Numbers \subseteq RowIds
    /\ Blank = Empty /\ OldPages \subseteq AnyNode
    /\ NoNumber \notin Int
    /\ \A id \in Ids : <<id, NoNumber>> \notin Contents

VARIABLES
    up,             \* the program runs and has opened the database
    locked,         \* Database.locked: a transaction is open
    current_tx_id,  \* Database.current_tx_id
    lsn,            \* Wal.lsn
    log,            \* wal.log
    pages,          \* page 2 of the file, the table's, and those behind it
    indexes,        \* IndexSchema: the page and the column of each index
    session,        \* number of the session
    (* History variables, which no action depends on.                       *)
    given,          \* the number the last statement on a row gave to it
    again,          \* rows inserted anew, or not as a statement left them
    clean           \* only INSERTs of new rows so far, none refused or cut off,
                    \* and none of a row -1

memory == <<up, locked, current_tx_id, lsn>>

ghosts == <<given, again, clean>>

indexVars == <<memory, log, pages, indexes, session, ghosts>>

TablePage == 1

table == pages[TablePage]

-----------------------------------------------------------------------------
(* Columns and entries.                                                     *)

\* extract_column_value and atoi.  Contents that no statement gave may show any
\* number, or none: junk is what they show.
ColumnValue(row, junk) ==
    IF row \in Texts THEN row[2] ELSE IF row = Blank THEN NoNumber ELSE junk

Junk == Numbers \cup {NoNumber}

\* The contents of an index's slot: a primary key, any that the table has.
Entries == [1 .. 1 -> Int]

ToPage(page, call) == [page |-> page, does |-> call]

\* The loop over the indexes, which skips those that are not on an INT column.
OnIntIndexes(call) ==
    FlattenSeq([i \in DOMAIN indexes |->
        IF indexes[i].column = "g" THEN << ToPage(indexes[i].page, call) >>
                                   ELSE << >>])

\* Mutant of maintain_indexes_insert: the loop starts at the second index.
MaintainFromSecond(id, number) ==
    LET all == OnIntIndexes(InsertCall(number, <<id>>))
    IN  SubSeq(all, 2, Len(all))

maintain_indexes_insert(id, number) ==
    IF number = NoNumber THEN << >>
    ELSE OnIntIndexes(InsertCall(number, <<id>>))

\* The entry goes by its number, whichever row it leads to.
maintain_indexes_delete(number) ==
    IF number = NoNumber THEN << >>
    ELSE OnIntIndexes(DeleteCall(number))

\* The first index on the column.
find_usable_index(column) ==
    indexes[Min({i \in DOMAIN indexes : indexes[i].column = column})]

\* The row is not compared with the number that was looked for.
execute_index_lookup(index, number) ==
    LET pointer == btree_search(pages[index.page], number)
    IN  IF pointer = NoRow THEN NoRow ELSE btree_search(table, pointer[1])

\* The rows a scan of the table returns for g = number.
ScanRows(number) ==
    {id \in LiveKeys(table) : btree_search(table, id) \in Ids \X {number}}

-----------------------------------------------------------------------------
(* Statements.                                                              *)

ToLog(record) == [page |-> 0, does |-> FlattenSeq(record)]

WriteStep(disk, step) ==
    IF step.page = 0 THEN [disk EXCEPT !.log = @ \o step.does]
                     ELSE [disk EXCEPT !.pages[step.page] = Call(@, step.does)]

Forget ==
    /\ up' = FALSE
    /\ locked' = FALSE
    /\ current_tx_id' = 0
    /\ lsn' = 0

\* The writes of a statement in their order, of which the first done are made.
Statement(steps, done) ==
    LET disk == FoldLeft(WriteStep, [log |-> log, pages |-> pages],
                         SubSeq(steps, 1, done))
    IN  /\ log' = disk.log
        /\ pages' = disk.pages
        /\ IF done = Len(steps)
           THEN lsn' = lsn + 1 /\ UNCHANGED <<up, locked, current_tx_id>>
           ELSE Forget
        /\ UNCHANGED <<indexes, session>>

\* Whether the table's page is among the first done writes.
TableWritten(steps, done) == \E i \in 1 .. done : steps[i].page = TablePage

MayWrite == up /\ locked /\ Len(log) < MaxLog

Begin ==
    /\ up /\ ~ locked
    /\ session <= Sessions /\ current_tx_id < MaxTx /\ Len(log) < MaxLog
    /\ locked' = TRUE
    /\ current_tx_id' = current_tx_id + 1
    /\ \E pad \in Pads :
        log' = log \o FlattenSeq(wal_log_begin(lsn, current_tx_id + 1, pad))
    /\ lsn' = lsn + 1
    /\ UNCHANGED <<up, pages, indexes, session, ghosts>>

Commit ==
    /\ MayWrite
    /\ \E pad \in Pads :
        log' = log \o FlattenSeq(wal_log_commit(lsn, current_tx_id, pad))
    /\ lsn' = lsn + 1
    /\ locked' = FALSE
    /\ UNCHANGED <<up, current_tx_id, pages, indexes, session, ghosts>>

\* No page of the table or an index refuses the row.
RoomFor(id, number) ==
    /\ ~ InsertLeaksPin(table, id)
    /\ \A i \in DOMAIN indexes : indexes[i].column = "g" =>
        ~ InsertLeaksPin(pages[indexes[i].page], number)

\* A row that is there is written over, and its old entries stay.
InsertSteps(id, number, pad) ==
    << ToLog(wal_log_insert(lsn, current_tx_id, id, <<id, number>>, pad)),
       ToPage(TablePage, InsertCall(id, <<id, number>>)) >>
        \o maintain_indexes_insert(id, number)

Insert(id, number) ==
    /\ MayWrite
    /\ \E pad \in Pads :
        LET steps == InsertSteps(id, number, pad)
        IN  \E done \in 1 .. Len(steps) :
                /\ Statement(steps, done)
                /\ given' = IF TableWritten(steps, done)
                            THEN [given EXCEPT ![id] = number] ELSE given
                /\ again' = IF given[id] # NoNumber
                            THEN again \cup {id} ELSE again
                /\ clean' = (clean /\ done = Len(steps)
                                /\ given[id] = NoNumber /\ RoomFor(id, number)
                                /\ id # Tombstone)

\* Mutant of UpdateSteps: the old entries go after the new row is written.
UpdateThenDelete(id, old, number, pad) ==
    << ToLog(wal_log_update(lsn, current_tx_id, id, <<id, number>>, pad)),
       ToPage(TablePage, InsertCall(id, <<id, number>>)) >>
        \o maintain_indexes_delete(old)
        \o maintain_indexes_insert(id, number)

\* The old row's entries go first.
UpdateSteps(id, old, number, pad) ==
    maintain_indexes_delete(old)
        \o << ToLog(wal_log_update(lsn, current_tx_id, id, <<id, number>>, pad)),
              ToPage(TablePage, InsertCall(id, <<id, number>>)) >>
        \o maintain_indexes_insert(id, number)

\* SET g.  A row whose contents no statement gave has no column to put the new
\* value in: the code then frees a pointer that was never set.
Update(id, number) ==
    /\ MayWrite
    /\ btree_search(table, id) \in Texts
    /\ \E pad \in Pads :
        LET steps == UpdateSteps(id, btree_search(table, id)[2], number, pad)
        IN  \E done \in 1 .. Len(steps) :
                /\ Statement(steps, done)
                /\ given' = IF TableWritten(steps, done)
                            THEN [given EXCEPT ![id] = number] ELSE given
                /\ UNCHANGED again
                /\ clean' = FALSE

\* A row that is not visible has no entries to remove, but is logged.
DeleteSteps(id, junk, pad) ==
    (IF btree_search(table, id) = NoRow THEN << >>
     ELSE maintain_indexes_delete(ColumnValue(btree_search(table, id), junk)))
        \o << ToLog(wal_log_delete(lsn, current_tx_id, id, pad)),
              ToPage(TablePage, DeleteCall(id)) >>

Delete(id) ==
    /\ MayWrite
    /\ \E pad \in Pads, junk \in Junk :
        LET steps == DeleteSteps(id, junk, pad)
        IN  \E done \in 1 .. Len(steps) :
                /\ Statement(steps, done)
                /\ UNCHANGED <<given, again>>
                /\ clean' = FALSE

-----------------------------------------------------------------------------
(* DDL, closing and opening.                                                *)

\* The entries CREATE INDEX makes, in the order of the table's slots.
FillCalls(column, junk) ==
    LET number(i) == ColumnValue(table.values[i], junk)
    IN  IF column # "g" THEN << >>
        ELSE FlattenSeq([i \in Used(table) |->
                IF table.keys[i] = Tombstone \/ number(i) = NoNumber THEN << >>
                ELSE << InsertCall(number(i), <<table.keys[i]>>) >>])

\* Mutant of NewRoot: the header keeps what was in the frame.
UnformattedRoot(old) == old

\* Only the header of a new page is set.
NewRoot(old) == Formatted(old)

\* Mutant of CreateIndex: the catalog is saved before there is a page.
CreateIndexSavedFirst(column) ==
    /\ up /\ ~ locked /\ session <= Sessions
    /\ Len(indexes) < MaxIndexes /\ Len(pages) < MaxPages
    /\ indexes' = Append(indexes, [page |-> Len(pages) + 1, column |-> column])
    /\ Forget
    /\ UNCHANGED <<log, pages, session, ghosts>>

\* The frame of the new page held another page before, of the table, an index or
\* neither, or nothing yet.  The page takes its number before it is filled, and
\* the catalog is saved last: cut off before that, the page is in the file and
\* belongs to no index.
CreateIndex(column) ==
    /\ up /\ ~ locked /\ session <= Sessions
    /\ Len(indexes) < MaxIndexes /\ Len(pages) < MaxPages
    /\ \E old \in Range(pages) \cup OldPages, junk \in Junk, survives \in BOOLEAN :
        LET fill == FillCalls(column, junk)
        IN  \E done \in 0 .. Len(fill) :
            /\ survives => done = Len(fill)
            /\ pages' = Append(pages,
                            Calls(NewRoot(old), SubSeq(fill, 1, done)))
            /\ IF survives
               THEN /\ indexes' = Append(indexes, [page   |-> Len(pages) + 1,
                                                   column |-> column])
                    /\ UNCHANGED memory
               ELSE Forget /\ UNCHANGED indexes
    /\ UNCHANGED <<log, session, ghosts>>

\* The indexes behind it move up; its page stays in the file.
DropIndex(i) ==
    /\ up /\ ~ locked /\ session <= Sessions
    /\ indexes' = RemoveAt(indexes, i)
    /\ UNCHANGED <<memory, log, pages, session, ghosts>>

\* db_close, or a death between two writes; an open transaction stays open.
Close ==
    /\ up
    /\ Forget
    /\ UNCHANGED <<log, pages, indexes, session, ghosts>>

\* Rows that are visible in node but not as the last statement left them.
Reverted(node) ==
    {id \in Ids : btree_search(node, id) \notin {NoRow, <<id, given[id]>>}}

\* db_open replays the log into the table and leaves the indexes as they are; it
\* may die half-way.
Open ==
    /\ ~ up
    /\ LET calls == wal_recover(log)
       IN  \E done \in 0 .. Len(calls) :
            /\ pages' = [pages EXCEPT ![TablePage] =
                            Calls(@, SubSeq(calls, 1, done))]
            /\ up' = (done = Len(calls))
            /\ session' = IF session <= Sessions /\ done = Len(calls)
                          THEN session + 1 ELSE session
    /\ again' = again \cup Reverted(table')
    /\ clean' = (clean /\ table' = table)
    /\ UNCHANGED <<locked, current_tx_id, lsn, log, indexes, given>>

\* CREATE TABLE was run in a database of its own; pages 0 and 1 are the unused
\* root and the catalog.
InitIndex ==
    /\ up = TRUE
    /\ locked = FALSE
    /\ current_tx_id = 0
    /\ lsn = 0
    /\ log = << >>
    /\ pages = << NewRoot(ZeroPage) >>
    /\ indexes = << >>
    /\ session = 1
    /\ given = [id \in Ids |-> NoNumber]
    /\ again = {}
    /\ clean = TRUE

\* Everything but ROLLBACK.
NextIndex ==
    \/ Begin
    \/ \E id \in Ids : \/ \E number \in Numbers : \/ Insert(id, number)
                                                  \/ Update(id, number)
                       \/ Delete(id)
    \/ Commit
    \/ \E column \in {"g", "name"} : CreateIndex(column)
    \/ \E i \in DOMAIN indexes : DropIndex(i)
    \/ Close
    \/ Open

-----------------------------------------------------------------------------

\* The page of an index: its slots hold primary keys, or what is left of the page
\* that was in the frame before.
IndexNode == [num_keys : 0 .. Slots,
              keys     : [1 .. Slots -> Int],
              values   : [1 .. Slots -> Contents \cup Entries]]

\* A number that a row, a record or a page's bytes gave for a key may be any.
TypeOK ==
    /\ up \in BOOLEAN /\ locked \in BOOLEAN
    /\ current_tx_id \in 0 .. MaxTx
    /\ lsn \in 0 .. 255
    /\ log \in Seq(Bytes)
    /\ Len(pages) \in 1 .. MaxPages
    /\ table \in AnyNode
    /\ \A p \in DOMAIN pages : pages[p] \in IndexNode
    /\ Len(indexes) \in 0 .. MaxIndexes
    /\ \A i \in DOMAIN indexes :
        /\ indexes[i].page \in 2 .. Len(pages)
        /\ indexes[i].column \in {"g", "name"}
    /\ session \in 1 .. Sessions + 1

\* An entry that leads to a visible row leads to one with the number it is kept
\* under, which execute_index_lookup never checks, wherever a statement on the
\* row or on others died.  The exceptions are rows that were inserted over or
\* anew, whose old entries stay, rows that a recovery or a ROLLBACK turned back
\* behind the index's back, and rows under ids that no statement gave.
EntriesLeadToRows ==
    \A i \in DOMAIN indexes : \A number \in LiveKeys(pages[indexes[i].page]) :
        \A id \in Ids \ again :
            /\ btree_search(pages[indexes[i].page], number) = <<id>>
            /\ btree_search(table, id) # NoRow
            => btree_search(table, id)[2] = number

\* SELECT answers WHERE g = number through an index with a row exactly when its
\* scan of the table would find one, and with a row that the scan finds: as long
\* as rows are only inserted, each once and none of them -1, there was room for all
\* of them and no INSERT was cut off; through CREATE INDEX before, between and
\* after them, DROP INDEX, restarts and recoveries.  Of several rows it answers with
\* one.  For the number -1 it answers with none, though the scan may find one:
\* btree_search (btree.c:34) takes the entry for a deleted one.
LookupsAgree ==
    clean /\ (\E i \in DOMAIN indexes : indexes[i].column = "g") =>
        \A number \in Numbers :
            LET answer == execute_index_lookup(find_usable_index("g"), number)
            IN  IF ScanRows(number) = {} \/ number = Tombstone THEN answer = NoRow
                ELSE answer \in ScanRows(number) \X {number}

\* A scan shows the rows in the order of their keys, each with contents that some
\* statement gave: as long as no reader of bytes that are no record made a row,
\* and no row below -1 went among tombstones.
ShowsRows(node) ==
    \A i \in Used(node) :
        node.keys[i] # Tombstone => node.values[i] \in Texts \cup {Blank}

InOrder(node) ==
    \A i, j \in Used(node) :
        i < j /\ Tombstone \notin {node.keys[i], node.keys[j]}
            => node.keys[i] < node.keys[j]

Legible(node) == ShowsRows(node) /\ InOrder(node)

\* The slots of the table's rows with a number.
SlotsOf(number) ==
    {i \in Used(table) : /\ table.keys[i] # Tombstone
                         /\ table.values[i] \in Ids \X {number}}

\* CREATE INDEX leaves an index that leads from each number to the last row with
\* it, and holds nothing else: whatever the frame of its page held, and whatever
\* tombstones, hidden rows and rows out of order are in the table.  Only the entry
\* for the number -1 leads nowhere.
CreatedIndexIsComplete ==
    [][ /\ Len(indexes') > Len(indexes) /\ indexes'[Len(indexes')].column = "g"
        /\ ShowsRows(table)
        => \A number \in Numbers :
            btree_search(pages'[Len(pages')], number) =
                IF SlotsOf(number) = {} \/ number = Tombstone THEN NoRow
                ELSE <<table.keys[Max(SlotsOf(number))]>>
      ]_indexVars

=============================================================================
