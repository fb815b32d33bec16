------------------------------- MODULE Catalog -------------------------------
(***************************************************************************)
(* The catalog of database.c: its copy in memory, page 1 of the file, and  *)
(* the pages that CREATE TABLE and CREATE INDEX hand out.  Every statement *)
(* that changes it copies all of Catalog into the frame of page 1 and      *)
(* unpins the frame as dirty.                                              *)
(*                                                                         *)
(* Catalog is 47300 bytes long and a page holds 4088.  One table fits.     *)
(* With a second the copy lays bytes of columns[13] of that table, which   *)
(* CREATE TABLE left as they were on the stack unless there are as many    *)
(* columns, over the page_id of the frame.  The unpin then looks for page  *)
(* 1 in vain: nothing is saved, and the frame is written at some later     *)
(* time in the place its page_id names.                                    *)
(***************************************************************************)
EXTENDS Naturals, Sequences, FiniteSets

CONSTANTS
    UnsetIds,       \* what those bytes may read as, as the number of a page
    MaxIndexes,     \* MAX_INDEXES_PER_TABLE
    MaxTables,      \* bound on the tables, for MAX_TABLES
    MaxPages        \* bound on the pages of the file

ASSUME CatalogConstants ==
    /\ UnsetIds \subseteq Nat
    /\ MaxIndexes \in Nat /\ MaxPages \in Nat
    /\ MaxTables \in 0 .. 2

VARIABLES
    up,             \* the program runs and has opened the database
    mem,            \* Database.catalog: the tables, with the pages of their roots
    next_page_id,   \* Pager.next_page_id
    unset,          \* what the second table has in the place of the page_id
    strays,         \* numbers of the frames that hold the catalog as another page
    disk,           \* the tables of page 1 of the file
    fileLength,     \* the length of the file, in pages
    (* A history variable, which no action depends on.                      *)
    born            \* the pages there were when the first db_open ended

memory == <<up, mem, next_page_id, unset, strays>>

vars == <<memory, disk, fileLength, born>>

CatalogPage == 1

Roots(table) == {table.root} \cup table.indexes

Longest(m, n) == IF m < n THEN n ELSE m

-----------------------------------------------------------------------------

\* What page 1 holds of the tables: the indexes of the second are behind it.
Fitting(tables) ==
    [i \in DOMAIN tables |->
        IF i = 1 THEN tables[i] ELSE [tables[i] EXCEPT !.indexes = {}]]

\* The number the frame of page 1 has after the tables were copied into it.
FrameId(tables, id) == IF Len(tables) < 2 THEN CatalogPage ELSE id

\* memcpy and buffer_pool_unpin_page.
Save(tables, id) ==
    /\ disk' = IF FrameId(tables, id) = CatalogPage THEN Fitting(tables) ELSE disk
    /\ strays' = strays \cup ({FrameId(tables, id)} \ {CatalogPage})

Forget ==
    /\ up' = FALSE
    /\ mem' = << >>
    /\ next_page_id' = 0
    /\ unset' = CatalogPage
    /\ strays' = {}

\* A catalog is loaded in a new pool.
Load(tables) ==
    /\ up' = TRUE
    /\ mem' = tables
    /\ next_page_id' = fileLength
    /\ unset' = CatalogPage
    /\ strays' = {}

\* What is behind page 1 comes from the header of its frame and the frames behind
\* it, which buffer_pool_init leaves as the memory was: empty, or as the last copy
\* of the catalog left them in the pool that ROLLBACK gave back.
Loaded ==
    {disk} \cup
        (IF Len(disk) = 2 /\ Len(mem) = 2
         THEN {[disk EXCEPT ![2].indexes = mem[2].indexes]} ELSE {})

-----------------------------------------------------------------------------

\* Mutant of OpenNew: only the root page is counted.
OpenNewCountsRoot ==
    /\ ~ up /\ fileLength = 0
    /\ up' = TRUE
    /\ next_page_id' = 1
    /\ fileLength' = 2
    /\ born' = 2
    /\ UNCHANGED <<mem, unset, strays, disk>>

\* db_open makes pages 0 and 1, and may die before it has made both.
OpenNew ==
    /\ ~ up /\ fileLength = 0
    /\ \E made \in 0 .. 2 :
        /\ up' = (made = 2)
        /\ next_page_id' = IF made = 2 THEN made ELSE 0
        /\ fileLength' = made
        /\ born' = made
    /\ UNCHANGED <<mem, unset, strays, disk>>

\* db_open of any other file.  A page 1 that is not there reads as no tables.
OpenOld ==
    /\ ~ up /\ fileLength > 0
    /\ Load(disk)
    /\ UNCHANGED <<disk, fileLength, born>>

\* BEGIN and ROLLBACK: DDL is refused between them.
Rollback ==
    /\ up
    /\ \E tables \in Loaded : Load(tables)
    /\ UNCHANGED <<disk, fileLength, born>>

\* Mutant of CreateTable: the root page is unpinned as clean.
CreateTableUnwritten ==
    /\ up /\ Len(mem) < MaxTables /\ next_page_id < MaxPages
    /\ \E id \in IF Len(mem) = 1 THEN UnsetIds ELSE {unset} :
        /\ mem' = Append(mem, [root |-> next_page_id, indexes |-> {}])
        /\ next_page_id' = next_page_id + 1
        /\ unset' = id
        /\ Save(mem', id)
        /\ UNCHANGED up
    /\ UNCHANGED <<fileLength, born>>

\* Mutant of CreateTable: the new table takes the first place.
CreateTableOverFirst ==
    /\ up /\ Len(mem) < MaxTables /\ next_page_id < MaxPages
    /\ mem' = << [root |-> next_page_id, indexes |-> {}] >>
    /\ next_page_id' = next_page_id + 1
    /\ Save(mem', unset)
    /\ fileLength' = Longest(fileLength, next_page_id + 1)
    /\ UNCHANGED <<up, unset, born>>

\* The root page, then the catalog; the program may die between them.
CreateTable ==
    /\ up /\ Len(mem) < MaxTables /\ next_page_id < MaxPages
    /\ fileLength' = Longest(fileLength, next_page_id + 1)
    /\ \/ \E id \in IF Len(mem) = 1 THEN UnsetIds ELSE {unset} :
            /\ mem' = Append(mem, [root |-> next_page_id, indexes |-> {}])
            /\ next_page_id' = next_page_id + 1
            /\ unset' = id
            /\ Save(mem', id)
            /\ UNCHANGED up
       \/ Forget /\ UNCHANGED disk
    /\ UNCHANGED born

\* Mutant of CreateIndex: one index too many is taken in.
CreateIndexOneMore(t) ==
    /\ up /\ Cardinality(mem[t].indexes) <= MaxIndexes /\ next_page_id < MaxPages
    /\ fileLength' = Longest(fileLength, next_page_id + 1)
    /\ mem' = [mem EXCEPT ![t].indexes = @ \cup {next_page_id}]
    /\ next_page_id' = next_page_id + 1
    /\ Save(mem', unset)
    /\ UNCHANGED <<up, unset, born>>

\* The page, then the catalog; the program may die between them.  The entries go
\* into the page in between and are no matter of the catalog: TableIndex has them.
CreateIndex(t) ==
    /\ up /\ Cardinality(mem[t].indexes) < MaxIndexes /\ next_page_id < MaxPages
    /\ fileLength' = Longest(fileLength, next_page_id + 1)
    /\ \/ /\ mem' = [mem EXCEPT ![t].indexes = @ \cup {next_page_id}]
          /\ next_page_id' = next_page_id + 1
          /\ Save(mem', unset)
          /\ UNCHANGED <<up, unset>>
       \/ Forget /\ UNCHANGED disk
    /\ UNCHANGED born

\* Mutant of DropIndex: the catalog is not saved.
DropIndexUnsaved(t, page) ==
    /\ up
    /\ mem' = [mem EXCEPT ![t].indexes = @ \ {page}]
    /\ UNCHANGED <<up, next_page_id, unset, strays, disk, fileLength, born>>

\* The page of the index is not used again.
DropIndex(t, page) ==
    /\ up
    /\ mem' = [mem EXCEPT ![t].indexes = @ \ {page}]
    /\ Save(mem', unset)
    /\ UNCHANGED <<up, next_page_id, unset, fileLength, born>>

\* A frame that holds the catalog under another number is written to the place of
\* that page, by a later eviction, COMMIT or SELECT, or with a row that is put
\* into it; or it is not, when the bytes over is_dirty are zero.
WriteStray(id) ==
    /\ id \in strays
    /\ strays' = strays \ {id}
    /\ fileLength' = Longest(fileLength, id + 1)
    /\ UNCHANGED <<up, mem, next_page_id, unset, disk, born>>

\* db_close saves the catalog again and leaves.  The other frames it writes are
\* WriteStray's.
Close ==
    /\ up
    /\ disk' = IF FrameId(mem, unset) = CatalogPage THEN Fitting(mem) ELSE disk
    /\ fileLength' = Longest(fileLength, CatalogPage + 1)
    /\ Forget
    /\ UNCHANGED born

\* The program is killed.
Kill ==
    /\ up
    /\ Forget
    /\ UNCHANGED <<disk, fileLength, born>>

Init ==
    /\ up = FALSE
    /\ mem = << >>
    /\ next_page_id = 0
    /\ unset = CatalogPage
    /\ strays = {}
    /\ disk = << >>
    /\ fileLength = 0
    /\ born = 0

Next ==
    \/ OpenNew
    \/ OpenOld
    \/ Rollback
    \/ CreateTable
    \/ \E t \in DOMAIN mem : \/ CreateIndex(t)
                             \/ \E page \in mem[t].indexes : DropIndex(t, page)
    \/ \E id \in strays : WriteStray(id)
    \/ Close
    \/ Kill

Spec == Init /\ [][Next]_vars

-----------------------------------------------------------------------------

Tables == [root : Nat, indexes : SUBSET Nat]

\* The array of the indexes of a table is never overrun.
TypeOK ==
    /\ up \in BOOLEAN
    /\ mem \in Seq(Tables) /\ Len(mem) <= MaxTables
    /\ disk \in Seq(Tables) /\ Len(disk) <= MaxTables
    /\ \A t \in DOMAIN mem : Cardinality(mem[t].indexes) <= MaxIndexes
    /\ next_page_id \in Nat /\ fileLength \in Nat /\ born \in 0 .. 2
    /\ unset \in Nat
    /\ strays \subseteq Nat

\* No page of tables is the root of two of their tables and indexes.
Distinct(tables) ==
    /\ \A t \in DOMAIN tables : tables[t].root \notin tables[t].indexes
    /\ \A t, u \in DOMAIN tables :
        t # u => Roots(tables[t]) \cap Roots(tables[u]) = {}

\* Two tables or indexes never share a page, in memory or after the next db_open
\* or ROLLBACK: also when the program died between the page of a new one and the
\* catalog, when a ROLLBACK counts the pages anew by the length of the file, and
\* when a lost frame has grown the file.
RootsAreDistinct == Distinct(mem) /\ Distinct(disk)

\* No root is page 0 or the catalog's page, unless the first db_open died when it
\* had made one page: the next one takes the file for one with a catalog, and the
\* first table gets page 1.
RootsBehindCatalog ==
    \A t \in DOMAIN mem : \A root \in Roots(mem[t]) :
        IF born = 1 THEN root > 0 ELSE root > CatalogPage

\* With one table at most, what memory has is what the next db_open finds, at any
\* time: after a death in any statement, a ROLLBACK, and when there had been two
\* tables of which one was lost.
OneTableIsSaved == up /\ Len(mem) <= 1 => disk = mem

\* Once the file names a table it names it for ever, with the same root.
TablesStay ==
    [][ \A t \in DOMAIN disk :
            t \in DOMAIN disk' /\ disk'[t].root = disk[t].root ]_vars

(* What the repository says of the program and the program does not do.     *)

\* "save updated catalog to disk", database.c:377, 534 and 586: after a statement
\* the catalog in the file is the one in memory.
CatalogIsSaved == up => disk = mem

=============================================================================
