# A TLA+ model of c_database

This directory holds TLA+ modules for the storage engine of c_database (`src/`):
the leaf page, the buffer pool, the write-ahead log, transactions over them
with crashes and recoveries, secondary indexes, and the catalog with its DDL. TLC
checks small instances; TLAPS proves for all sizes the invariants and the
refinements of the leaf and the pool, the invariants of the catalog, what recovery
and the log promise of committed rows, and that index entries do not lead astray.
Paths below are relative to the repository; `src/` is its source directory.

## The system

The program is one process with one thread and at most one open transaction. It
keeps two files: the database file, an array of 4096-byte pages, and `wal.log`
in the working directory, one log for every database opened there.

| part | state | operations | used by |
|---|---|---|---|
| leaf page (`btree.c`) | one `BTreeLeafNode` in a root page: 31 slots of key and 256 bytes | `btree_search`, `btree_insert`, `btree_delete` | statements, recovery, rollback, indexes |
| buffer pool and pager (`buffer.c`) | 100 frames (page id, dirty, pin count, lru counter, page), file descriptor, `next_page_id` | `get_page`, `unpin_page`, `flush`, `flush_all`, `pager_open/close` | everything that touches a page |
| log (`wal.c`) | `wal.log`, a sequence of bytes; `lsn` | five writers, `wal_recover`, `wal_get_committed_tx_ids`, `wal_apply_committed_transactions` | statements, `db_open`, ROLLBACK |
| transactions (`database.c`) | `locked`, `current_tx_id` | BEGIN, COMMIT, ROLLBACK, INSERT, UPDATE, DELETE, `db_open`, `db_close` | command loop |
| catalog and DDL (`database.c`) | `Catalog`, 47300 bytes of which page 1 keeps the first 4088 | CREATE TABLE, CREATE INDEX, DROP INDEX | all statements |
| secondary indexes (`database.c`) | one leaf per index, column value to primary key | `maintain_indexes_*`, `execute_index_lookup` | row statements, SELECT |
| SELECT, parsing, output, command loop (`database.c`, `main.c`) | none that outlives a call | | |
| slotted page (`page.c`) | none: `page_init` is never called | | |

How they interact: a statement appends its record to the log (up to three
`write` calls), then calls `btree.c`, which pins the root page in the pool,
changes it through a pointer and unpins it dirty; unpinning dirty writes the page
to the file at once. There is no point at which pages of an open transaction are
held back. `db_open` replays the whole log into every table; ROLLBACK reopens
the file and reads it as if it were a log. SELECT flushes the pool and takes the
page ids of all frames away.

What is hard here is not concurrency but sequences: deaths between two writes,
recoveries over pages that are already newer, readers of the log that fall out
of step, state left behind (stale slots, leaked pins, unset bytes), the catalog
copied over frames of other pages. PROJECT.json lists these hazards at their
lines.

What makes each part correct:

* leaf: a well-formed node, one slot per row, ascending order, and the table
  that lookups see changes as the caller asked and never shows a stale slot;
* pool: one frame per page, a held page stays put, the copy of the catalog ends
  in no page in use, memory and file agree, a stored page is what is fetched later;
* log and transactions: a row is logged before it is in a page; recovery replays
  what was committed, all of it and nothing else; an opened database has the
  committed rows; a rolled back transaction leaves nothing, and ROLLBACK ends;
* indexes: an entry leads to the row it was made for, and a lookup answers as a
  scan would;
* catalog: no page is handed out twice, what is in memory is in the file, and
  what the file names it names for ever.

## Modules

```
 Leaf <---- BTree ----refines----> LossyTable       BufferPool --refines--> PageStore
   ^          ^                                         ^
   |        MCBTree                              BufferPoolProofs
   |
 LeafCalls ----> Wal                                Catalog <---- CatalogProofs
   ^    ^
   |    +-- FileScan <---- Database <---- MCDatabase
   |           ^
   |           +-----------+
   +-- TableIndex <---- RollbackScan <---- MCRollbackScan

   Recursion <-- LeafProofs <-- BTreeProofs
       ^             ^
       |             +-- WalProofs <-- DatabaseProofs
       |                     ^
   BufferPoolProofs          +-------- TableIndexProofs
```

`A <---- B` is "B EXTENDS A" (and LeafCalls extends Wal; RollbackScan extends
TableIndex and FileScan; WalProofs extends FileScan). Database, TableIndex and
Catalog use what BufferPoolProofs proves of BufferPool, see below.

**Leaf** has the three operations of `btree.c` as functions from leaf to leaf.
`find_leaf`'s inner-node branch is dead, as nothing creates an inner node, so
the root page is the only page. Slots are numbered from 1. Names follow the
code: `btree_insert` has its three outcomes (replace, refuse silently, shift and
put); `btree_delete` marks a slot and decrements `num_keys`, which hides the last
slot too. `Formatted` is what CREATE TABLE writes: only the header, so the slots
start with whatever the frame held. The two paths that return without unpinning
are `InsertLeaksPin` and `DeleteLeaksPin`. The struct is modelled at full size:
in the program it is larger than a page (8072 bytes) and its rows behind the
fifteenth lie in the next frame.

**BTree** is one table over its life: `leaf`, and `leaked`, the pins on its frame
that nobody will give back. **LossyTable** is the abstract table: a put takes
effect or nothing happens, and a remove may take the row with the greatest id
along. That is weaker than a table should be, and it is exactly what the code
does.

**BufferPool** is `buffer.c` with the client that `database.c` and `btree.c` are.
A call is one step, as there is one thread; `held` and `edited` are the client's
pointers and which of them it has written through.

| action | code |
|---|---|
| `GetCached`, `GetMissing` | `buffer_pool_get_page`, hit and miss with eviction |
| `UnpinPage` | `buffer_pool_unpin_page`, dirty iff the client wrote |
| `LeakPin` | the returns without unpin in `btree.c` |
| `EditPage` | writes through the pointer; a new page takes its number |
| `SaveCatalog` | `memcpy` of the whole `Catalog` over its frame (CREATE TABLE, CREATE INDEX, `db_close`) |
| `ForgetPages` | the head of SELECT |
| `Restart` | a crash and `db_open`, or ROLLBACK: a fresh pool and pager |

The catalog image behind the page is what `db_open` copied from a fresh pool, so
with at most one table `SaveCatalog` sets the headers of the ten frames behind its
own back to fresh ones (`Overwritten`; `Overrun` is the ten). It ends 2076 bytes
into the eleventh frame behind it: that frame keeps its `page_id` and pins, and
half of its page is overwritten, which the model makes `Junk`. With two tables
the image also lays unset bytes over the frame's own header; that is in Catalog.

A page in the eleventh frame would no longer be what the file holds, and a later
fetch would return it as it is. `OverrunHitsNoPage` says that no such page is there,
which comes from the order in which frames are used and from what the client holds:
`lru_counter` is never anything but 0, so the victim is always the first unpinned
frame. All pages therefore pass through one frame, behind frames whose pins were
leaked; only CREATE INDEX has two pages in hand, and then two frames. The model keeps
that discipline of the client: `MayFetch` lets it fetch a second page only besides
one other, neither of them the catalog's, and `indexing` says that it has, until
the catalog is saved. CREATE INDEX leaks no pin in between: the inserts of the fill
find a page with a slot for each. **PageStore** is the abstract
specification: a file of pages, fetched, changed, stored, released, with a store
that is durable at once.

**Wal** keeps the bytes of `wal.log`, because a reader that takes a field for
what it is not stays out of step from there on. The record header is 24 bytes
with six bytes of padding nothing sets (`Pads`). A key is any `int`, in two's
complement (`KeyBytes`). `wal_recover` gives the calls of
`btree.c` that a whole recovery makes. A `read` at the end of the file fills a
prefix of the buffer (`ReadHeader` keeps the old rest). Contents that no
statement wrote are the one value `Garbled`; `UnsetKey` stands for an `int` that
`read` did not fill.

**LeafCalls** applies the calls of `btree.c` that Wal's readers give to a leaf.

**Database** composes Leaf and Wal: `up`, `locked`, `current_tx_id`, `lsn`, the
table's `leaf`, `log` and `catalog`. A statement is its record and then its page,
with the choice of dying between any two of its writes (`Statement`); `Open`
replays and may die after any number of calls; `Close` is `db_close` or a death
between statements. One variable for the page in memory and in the file is
enough because of BufferPool's `NothingToFlush` and `CachedIsStored`, which are
proved: a page that has been unpinned is in the file. `session`, `begun`,
`history` and `committed` are history variables that no action reads, but for
the bound `Sessions`.

**FileScan** is the database file as ROLLBACK's scan reads it:
`wal_apply_committed_transactions` takes the database file for a log and reads it
in 24-byte steps. `FileOf` gives the bytes: page 0, the catalog's page as it may be
(`CatalogPages`; its unset bytes come from the stack of CREATE TABLE), and the leaves
behind it, each field of a `BTreeLeafNode` in its place (`ByteOfLeaf`).
`RecordsAhead` are the rounds of the loop that find a record of the transaction, and
`CallsOf` the calls of `btree.c` they make. Pages have `PageSize` bytes instead of
4096, with the same remainder by 24, so that headers fall on the same fields of each
page. Slots behind the end of a page are not in the file, as in the program.

For Database the file has three pages. Behind the catalog a header falls on the leaf
itself, at offset 8184: `is_leaf`, which is 1, reads as DELETE, `num_keys` as the
transaction id, the third key as the key; further headers fall on keys, contents and
what is left behind `num_keys`. The first page read of `btree.c` moves the file
offset to the end, so the first record found is the last. That is RollbackScan's
`OneRecordInThreePages`.

**TableIndex** is one table with its indexes: `pages` are the table's page and
those behind it, `indexes` the page and the column of each `IndexSchema`. A row is
its primary key and an INT column `g`, both any 32-bit numbers, as `atoi` gives them;
an index may also be on another column, which the code accepts and never puts
anything into. A statement is a list of
writes, one to the log and one to a page each, of which the program makes all or
dies after some (`Statement`).

| action | code |
|---|---|
| `Insert` | record, row, one entry per index (`maintain_indexes_insert`) |
| `Update` | old entries out, record, row, new entries in |
| `Delete` | search, entries out, record, `btree_delete` |
| `CreateIndex` | a page with the header set only, in a frame with any page before, one entry per visible row, the catalog last |
| `DropIndex` | the indexes behind it move up, the page stays |
| `Open` | replay into the table; the indexes stay as they are |
| `Begin`, `Commit`, `Close` | as in Database |

An index is a leaf: `InsertCall(number, <<id>>)` and `DeleteCall(number)` are
`btree_insert` and `btree_delete` on it with the number as the key, so equal
numbers share an entry and tombstones hide a last entry, as in the table. A number
-1 has an entry like any other, which `btree_search` takes for a deleted one. The
frame of a new index's page held the table, an index's page, or neither (`OldPages`,
the catalog's page or nothing), whose keys and contents stay behind `num_keys`.
`find_usable_index`, `execute_index_lookup` and `ScanRows` are what SELECT
answers for `g = number`. `OnIntIndexes` is the loop over the indexes that both
`maintain_indexes_*` have. `given`, `again` and `clean` are history variables: what
the last statement gave a row, which rows were inserted over or turned back, and
whether there were only INSERTs of new rows with room.

**RollbackScan** adds ROLLBACK. The scan runs over the bytes of the whole file
(`File`, by FileScan), one step per record it takes for one of the transaction (`ScanStep`);
the rounds in between change nothing but the offset. `OffsetAfter` is where the
file stands after the calls of a record: behind the table's page when the page
had to be read or was written, else behind the record. The scan's local header is
kept from round to round, since a read at the end of the file fills a part of it.

**Catalog** is the catalog in memory (`mem`) and in page 1 (`disk`), the numbers
of pages handed out (`next_page_id`, `fileLength`), and the frames that hold the
catalog under another number (`strays`).

| action | code |
|---|---|
| `OpenNew` | `db_open` of an empty file, dying before page 0, between pages 0 and 1, or not |
| `OpenOld` | `db_open` of any other file |
| `CreateTable`, `CreateIndex`, `DropIndex` | the new page, the save of the catalog, with a death in between (the fill of an index is TableIndex's) |
| `Save` | `memcpy` of 47300 bytes and the unpin; with two tables the frame's number becomes `unset` |
| `WriteStray` | an eviction or `flush_all` writes such a frame where its number says |
| `Rollback` | BEGIN and ROLLBACK: catalog and page count from the file |
| `Close`, `Kill` | `db_close`; a death between two statements |

Byte offset 4088 of the catalog, where the frame's `page_id` lies, is
`tables[1].columns[13].length` and two bytes of padding: bytes of the second
table that CREATE TABLE leaves as they were on its stack unless the table has 14
columns. `UnsetIds` is what they may read as. If it is 1 the save succeeds, and
the indexes of the second table are cut off by the end of the page. Where a name
or a type is looked at only to refuse a statement, the model just takes the
statements that are not refused. Indexes are a set here; their order is
TableIndex's.

## Runs

| run | bounds | shows |
|---|---|---|
| BTree | 3 slots, keys -1..2, 2 values, 1 leaked pin | `TypeOK`, `UniqueKeys`, `SortedKeys`, refinement of LossyTable |
| BTreeDelete | as BTree, keys 0..2 | violated: `DeleteKeepsOthers` |
| BufferPool | 4 frames, 3 pages, 2 contents, pin count 2, overrun 1 | `TypeOK`, `OneFramePerPage`, `HeldPagesStay`, `OverrunHitsNoPage`, `CachedIsStored`, `NothingToFlush`, `FileHasAllPages`, refinement of PageStore |
| Database | row ids -2 and 1, 5 slots, contents of 4 and 20 bytes, UPDATE with the latter, 2 transactions, 150 bytes of log, pages of 136 bytes, 3 kinds of unset bytes in the catalog | `TypeOK`, `RowsAreLogged`, `ReplaysCommitted`, `RecoveryRestores` |
| DatabaseRollback | as Database | violated: `RolledBackRowsVanish` |
| DatabaseReuse | two sessions with statements | violated: `UncommittedIsSkipped` |
| DatabaseUpdate | UPDATE with 4 bytes | violated: `CommittedIsReplayed` |
| DatabaseTorn | two sessions, deaths inside records | violated: `CommittedIsReplayed` |
| TableIndex | ids -2 and 1, numbers -1 and 0, 3 slots, 2 indexes, 2 transactions, 85 bytes of log, pages of 64 bytes, the catalog as the other page a frame held | `TypeOK`, `EntriesLeadToRows`, `LookupsAgree`, `OneRecordInThreePages`, `CreatedIndexIsComplete`, `TableStaysLegible`, `ScanEnds` |
| RollbackEnds | as TableIndex, numbers 0 and 1, 1 index, 1 transaction, 80 bytes of log | violated: `RollbackEnds` |
| Catalog | 2 tables, 2 indexes each, 8 pages, unset bytes 0, 1, 2 or 5 | `TypeOK`, `RootsAreDistinct`, `RootsBehindCatalog`, `OneTableIsSaved`, `TablesStay` |
| CatalogIsSaved | as Catalog | violated: `CatalogIsSaved` |

Why the bounds are enough. Three slots and three keys fill a leaf, delete from its
front, middle and end, and uncover every stale slot; arbitrary stale slots at the
start stand for every earlier owner of the frame. Pages pass through one frame, or
two during a CREATE INDEX, so three pages evict each other; leaked pins move these
frames back until the pool runs full of pins. With four frames and an overrun of one
frame there is a frame whose header is reset and one behind it whose page is
overwritten, while the first frame or the second has the catalog. 150 bytes of log hold two transactions with a statement or two each and
let the last record start within the bound and end behind it, so it is never the
bound that cuts a record.

For TableIndex, 85 bytes hold a BEGIN and two statements, a third behind two DELETEs,
or one statement in each of two transactions: enough to insert two rows with one
number, or to insert a row and to change it or take it out, with CREATE INDEX before,
between (after a ROLLBACK) and after. The ids and numbers are on both sides of the
-1 of tombstones, which is one of the numbers. Two indexes and three pages
put one index's entries behind the other's in the file, and let an index be
dropped and another be made. The catalog's unset bytes are one record that the
second transaction's ROLLBACK takes for its own; the first one's finds only what
is in the leaves. Texts have bytes above any transaction number, as in the program
for the first 31 transactions, so only keys and counts of leaves read as headers.
Statements alone do not fill a leaf in this run; a refused insert leaves an entry that leads to no
row or a row without an entry, of which the properties say nothing. In Catalog,
page 2 is the first table's root, 5 a page behind the end of the file at the time,
0 a page nothing uses, 1 the lucky one; eight pages hold both tables, two indexes
and two pages lost in deaths.

What the Database run leaves out, and why:

* Statements run in one session only (`Sessions = 1`); later sessions only
  recover, die in recovery and recover again. With a second one transaction ids
  repeat, and DatabaseReuse shows what that does.
* A torn record is the last of the log, for the same reason; DatabaseTorn shows
  what happens when another session writes behind it.
* UPDATE writes 20 bytes, so key and contents are as long as a header and the
  reader that does not skip them falls back in step; DatabaseUpdate shows the
  general case. The padding is not zero, so that a header made of contents does
  not happen to be a COMMIT.
* `RecoveryRestores` is about logs of INSERTs: a replayed DELETE hides a second
  row (see DeleteKeepsOthers), so with DELETEs even a full replay need not bring
  the committed rows back.

`ReplaysCommitted` and `RecoveryRestores` thus say precisely where recovery does
work: one session of work, a reader in step, a leaf that is not full.

What TableIndex's properties leave out, and why:

* `EntriesLeadToRows` speaks of the ids INSERT is run with, not of those that a
  ROLLBACK makes of a page's bytes, and does not speak of rows that were inserted over (their old
  entries stay: INSERT of an existing id maintains the new number only), inserted
  again after they were hidden or deleted, or turned back by recovery or by a
  ROLLBACK's scan (which know nothing of indexes). It speaks of all others,
  wherever the program died.
* `LookupsAgree` is about INSERTs of new rows only. A DELETE or UPDATE takes out
  the entry of a number, whichever row it leads to, and hides the index's last
  entry as `btree_delete` does in a table; so with them lookups may miss rows.
  A row that does not fit in the table or in an index is left out for the same
  reason, and so is an INSERT that was cut off, and one of a row -1. For the number
  -1 it says that the lookup answers with no row, though a scan may find some:
  `btree_search` (`src/src/btree.c:34`) passes over the entry.
* `CreatedIndexIsComplete` asks of the table that statements gave the contents of its
  rows (`ShowsRows`). ROLLBACK's scan and a recovery out of step may make a row of any
  bytes, which shows CREATE INDEX any number. In what order the rows are does not
  matter: the entry is that of the last slot with the number. Here too -1 leads
  nowhere.
* `TableStaysLegible` says that nothing else ends `Legible` (such contents, and the
  rows in the order of their keys) but one: an INSERT of a row below -1 may bring the
  order out when there are tombstones, which count as -1 when it looks for its place.
  With rows -7, -5 and -4 inserted, -7 deleted and -4 inserted again, -4 comes before
  -5. That takes three ids below -1; the run has one, so it checks all but that
  case, and the proof covers it.
* `ScanEnds` is conditional on `HeaderBehindTable`: that nothing behind the
  table's page reads as an INSERT or UPDATE of the transaction. DELETEs there do no
  harm, since a row can be deleted once only. RollbackEnds shows the condition is
  needed. A DELETE in the last 28 bytes of the file may lend its transaction
  number to the part of a header behind it; with pages of 64 bytes or more no
  leaf of three slots has one so near its end.

CHECK_DEADLOCK is off for the two BTree runs only, which stop at the bound on
leaked pins. Fairness is assumed in RollbackScan alone: `WF_vars(ScanStep)`, that
the one thread goes on with the loop it is in. Nothing is assumed of the user, of
deaths or of the next statement.

The properties of the seven violation runs are quoted from the repository's README, comments
and tests; PROJECT.json "findings" has the lines.

## Proofs

Eight modules hold proofs; tlapm checks every leaf. Each theorem holds for every
value of the constants that the named ASSUMEs allow; TLC evaluates those in the runs.

**Recursion** has what the others need of naturals, sequences and loops. `MinOfNats`
and `MaxOfNats` come from well-foundedness of `<`, `Induction` over the naturals from
`MinOfNats`: a set with 0 and the successors of its elements has no least missing
number. From it follow, once for all, that a loop of n steps has a state after each
(`Iteration`), that the folds and `FlattenSeq` of the community modules compute what
such a loop does, and that two runs with the same steps agree. A step is a function
here, so that these lemmas need no operator as a parameter.

**LeafProofs** is what `btree_insert` and `btree_delete` do slot by slot
(`InsertNew`, `InsertExisting`, `DeleteExisting`), for any set of keys and of
contents (`LeafOver`), since a table's leaf and an index's hold different ones;
what a call shows of the rows it does not touch (`Shows`); and that one slot for
each key in use (`Proper`) is kept.

**BTreeProofs**:

* `InvariantsHold`: `TypeOK` and `UniqueKeys`. Their conjunction `IInv` is
  inductive: an insert only takes a slot for a key that no slot in use has, and
  shifts the slots behind it over whatever was behind `num_keys`.
* `RowsStaySorted`: `SortedKeys`, inductive together with `IInv`, under
  `NaturalRowIds` (no row id below -1). Without it, it is false: a
  tombstone counts as -1 when an insert looks for its place, so with row ids
  -7, -5 and -4 inserted, -7 deleted and -4 inserted again, -4 comes before -5.
* `LeafImplementsLossyTable`: the refinement, under `NaturalRowIds` like the order
  it needs, with `RowsOf` (what `btree_search`
  answers for every id) as the mapping. An insert maps to `Put`, or stutters
  when refused; a delete maps to `Remove` or, since the rows are sorted and
  unique and the last slot falls out, to `RemoveWithGreatest`.

**BufferPoolProofs**, for every number of frames and pages and every overrun:

* `PoolIsSafe`: the seven invariants. `IInv` is six of them with two more:
  `HeldPagesKnown`, that held pages have numbers or are the one being created,
  and `NoZeroFrames`, that no frame ever shows a hole of the file. Nothing is
  dirty between two calls, so an eviction and SELECT's forgetting lose nothing, and
  every pin of the client is counted, so a held frame is never the victim. The
  catalog's copy resets frames only while the client holds nothing else. That it
  ends in no page in use needs `Ordered`, where frames are: `lru_counter` is always
  0, frames with leaked pins come first, all pages are in the one frame behind them
  or, during a CREATE INDEX, in one more, and the catalog is in the first of these.
  So no frame behind the ten has a page, whatever their number (`BehindOverrun`),
  which gives `OverrunHitsNoPage` and keeps `CachedIsStored`.
* `PoolImplementsPageStore`: the refinement, on the same two invariants.

**CatalogProofs**, for every number of pages and indexes, all values of the unset
bytes, and up to two tables:

* `PagesAreDistinct`, `CatalogIsApart`, `OneTableIsKept`, `CatalogTypes`,
  `TablesAreKept`: the five properties of the Catalog run.
  `Good` collects what holds of the tables in memory and of those in the file:
  roots distinct, above the catalog's page, below the next page number or the
  length of the file. The inductive invariant `IInv` needs
  besides that `next_page_id` is at most `fileLength`, for ROLLBACK takes the
  latter, and that memory is saved unless the second table's unset bytes are not
  the catalog's page (`MemoryIsSaved`): a load may give back what the file
  has and what was left in memory at the same time (`Loaded`), and these must
  be of one catalog.

**WalProofs** is about the readers of the log. Both loops of `wal.c` are one
(`Round`): the one that looks for commits replays no transaction. `Reaches` says
that so many rounds lead to a state of the loop; what was read stays read when the
log grows (`ReachesLonger`), and one lemma for each kind of record says that a
reader in step reads it as it was written and ends behind it, or skips it.
Whatever the bytes are, a recovery makes calls of `btree.c`, and so does the scan of
the database file (the lemmas `RecoveryMakesCalls` and `CallsOfAre`); that these keep
a leaf a leaf is `CallKeepsShape`. That the readers need no more rounds than `Rounds(log)` is
proved on the way.

**DatabaseProofs**:

* `DatabaseTypes`: `TypeOK`. `StateInv` adds that an open transaction was
  counted and that the log has a header for each record counted, so `lsn` stays
  a byte as long as the log is not longer than 255 headers.
* `RecoveryReplaysCommitted`: `ReplaysCommitted`, under `InStep`: one session of
  statements, and UPDATEs whose key and contents end where a header would. Both
  hypotheses are needed, as DatabaseReuse and DatabaseUpdate show. The invariant
  (`ReplayInv`) says of every set of transactions, not only of those committed,
  that a reader looking for them ends in step and makes their calls (`AllRead`);
  that is what makes it inductive, for a COMMIT changes the set. A death inside a
  record leaves a tail from which no reader reads a call or a commit.
* `WriteAhead`: `RowsAreLogged`, under `InStep`, for leaves of any number of slots,
  whatever is in page 1. Rows in use are from calls in the history or from what
  ROLLBACKs took for records (`RowsInv`, with `scanned`, which has the latter); a
  replay makes only calls of the history.
* `RecoveryRestoresRows`: `RecoveryRestores`, under `InStep` and `EnoughSlots`: a
  slot for each row and one for each transaction that may be rolled back. `Load`
  is the number of slots in use and of rows without one. An INSERT of a row does not
  raise it, the calls of a record that a ROLLBACK finds by one at most, and each transaction can be rolled back
  once (`Owed`), so as long as `Load` and what is owed fit, no insert of a replay is
  refused (`RoomInv`); a ROLLBACK makes one record's calls at most, of whatever slots
  and keys of the leaf its scan meets; then the last call for a row is what the row shows
  (`ShowsLast`, by induction over the calls). `EnoughSlots` suffices; that
  so many slots are needed is not claimed. The program's leaf of 31 slots has room
  for as many rows and rollbacks.

The constants of the Database run satisfy `InStep` and `EnoughSlots` (two rows and
two transactions in five slots).

**TableIndexProofs**, for the specification of RollbackScan:

* `IndexTypes`: `TypeOK` of TableIndex: the table's page is a leaf of rows, the
  others are leaves of rows or entries, and the pages of the indexes in the catalog
  are in the file and are not the table's.
* `EntriesLead`: `EntriesLeadToRows`.
* `OneRecordAtMost`: `OneRecordInThreePages`.
* `LookupsFindRows`: `LookupsAgree`.
* `CreatedIndexComplete`: `CreatedIndexIsComplete`.
* `NoStatementGarbles`: `TableStaysLegible`.

A statement is a list of writes of which the first few are made. `WritesLead`
proves a fact about all lengths at once: a family of sets of disks, one for each
number of writes, with each write leading from one set to the next. The
family (`Stage`) has three parts: while the old entries go, while the record and
the row are written, and while the new entries come. `EntriesLeadToRows` itself
is not inductive, since it says nothing of entries that lead to a row that is not
visible now. The invariant (`Fits`) speaks of both sides by what statements gave:
a row outside `again` is hidden or as it was given (`RowsFit`), and an entry for it
is under the number given (`EntriesFit`), visible or not. It holds only since
UPDATE and DELETE take the entries out before the row is written, and INSERT and
UPDATE put them in after it: the invariant is false half-way through a statement
in the other order. It also needs that each page keeps one slot for each key
(`Proper`), or an old entry could come up again when a new one is deleted, and
that an index on another column shares no page with one on `g` and has no entries.
ROLLBACK's scan needs that whatever a header is made of, it leads to calls that
keep the leaf proper (`CallsOfAre`), so the file's pages are bytes (`FileIs`), and
that what a call does to a row the statements did not do moves the row to `again`.
`OneRecordInThreePages` follows from where the offset is left: the page is not in
the new pool before the first record, so the record's call reads it and leaves
the offset at the end of the file.

What CREATE INDEX puts into a page is followed slot by slot (`Filled`): after the
first i slots of the table the new page leads from each number to the key of the
last of these slots with that number, and holds nothing for a number that none of
them has. A slot that shows no number makes no call (`SlotSkipped`), one that
does makes one insert (`SlotEntered`), for which there is room since each slot adds
one key at most and both leaves have the same number of slots. That the page
begins without a key in use is all that matters of its frame, be it the table's, an
index's or another (`OldFrameIs`, `NewPageFilled`). A slot's number is the row's only
since a statement gave its contents: this is where `ShowsRows` is needed (`SlotsAre`,
`FilledLeadsToLast`). `Filled` itself needs no such table, and `LookupsFindRows` uses
it as well. Both speak of the numbers but -1 (`Known`); that a lookup of -1 finds
nothing, whatever is in the page, is `NoTombstoneFound`.

`LookupsAgree` is not inductive: it speaks of one answer, and only while there is an
index on `g`. Its invariant (`CleanInv`) says that while `clean` holds, the table shows
exactly the rows that were given, as they were given (`RowsAre`), and that the page of
each index leads from each number to one of the rows given that number, and from
others to nothing (`PagesLead`). An INSERT keeps it by a family over its writes
(`Entering`): each index's page is as it was and has room, or is entered. CREATE INDEX
keeps it by `Filled`, the steps of recovery and ROLLBACK since `clean` ends when they
change the table.

`TableStaysLegible` follows from what one call does to the slots in use
(`InsertStaysLegible`, `DeleteStaysLegible`), since a statement's first writes leave
the table as it was or make its one call (`ReachedTable`). A new row goes in front
of the first slot with a key that is not smaller; that may be behind a tombstone,
which counts as -1, but behind a live key that is greater only when the new key is
below -1 and there is a tombstone in use: the case that `Kept` leaves out.

The bounds `MaxLog`, `MaxTx` and `Sessions` are constants of the theorems. Row ids and
the numbers in column `g` are any 32-bit integers (`Int32`). That transaction ids are
bytes, and the log no longer than 255 headers, are assumptions: the other numbers of a
record are written with two bytes (`LittleEndian`), and no claim is made of larger
ones. An INSERT builds its text in a
buffer for 255 characters (`InsertTexts`); an UPDATE can write 256 bytes, which the
readers skip and replay as the empty string.

The assumptions on constants are the named ASSUMEs of Leaf, LeafCalls, Wal, BTree,
BufferPool, Catalog, FileScan (`PageAssumption`), Database and TableIndex.

Only model-checked:

* `ScanEnds`, which is liveness. That a scan without `HeaderBehindTable` finds
  fewer records each time would be a variant, whose steps are safety; the conclusion
  under fairness is out of the prover's reach.
* What the recursive definitions of Wal compute is proved by unfolding them into
  loops with a trace; nothing is proved about definitions that recurse over data.
* The seven violations: a counterexample is TLC's.

## Not modelled

* Several tables over the shared log, and several databases in one directory: a
  record does not say which table it belongs to.
* The names of tables, columns and indexes, and the statements refused for them;
  `is_unique`, which nothing reads.
* A third table: its unset bytes are laid over the header of a further frame, of
  which Catalog's `strays` would then have to know what page it held.
* The rows of a table whose root is page 1, after a first `db_open` that died
  between its pages: the first key lies over `num_tables`.
* What a stray frame does to the page it is written over: it replaces it. Catalog
  has its effect on the length of the file only.
* UPDATE of a row whose contents no statement wrote: with a column missing the
  code frees a pointer it never set.
* Comparisons other than `=` in the WHERE clause, parsing and output: text
  processing within one call. The command loop: at the end of its input it
  executes the last line again and again.
* The bytes that two frames share when a leaf is larger than its page.
* Failing system calls: the code looks at none of `read`'s and `write`'s results
  beyond the end of the file.
* Contents longer than 255 bytes in a log record: their place in the log is
  modelled, what reading them into a 256-byte buffer does to memory is not.

## Plan

Done: Leaf, LossyTable, BTree and their proofs; PageStore, BufferPool and their
proofs; Wal, FileScan, Database; TableIndex, RollbackScan; Catalog; the proofs of all of these. Next,
most important first:

1. Proofs: the variant behind `ScanEnds`; that a ROLLBACK whose file reads as no
   record leaves a legible table legible.
2. **Database with two tables** over the shared log: replay of every record into
   every table.
3. **Session**: statements over BufferPool with a pool of few frames, to see which
   calls meet a pool full of leaked pins.
