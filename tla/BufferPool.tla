----------------------------- MODULE BufferPool -----------------------------
(***************************************************************************)
(* buffer.c: the buffer pool and the pager, with the one client they have. *)
(* The database is single-threaded, so a call of the pool is one step; the *)
(* client holds pointers into frames between two calls, and may be stopped *)
(* (a crash, or a ROLLBACK that throws the pool away) between any two.     *)
(*                                                                         *)
(* The client is what database.c and btree.c do with pages, taken together:*)
(* fetch a page, write into it, unpin it as dirty if it was written; forget*)
(* to unpin it; forget all page ids (SELECT); copy the catalog, larger than*)
(* a page, over the catalog's frame.  Only CREATE INDEX fetches a second   *)
(* page with one in hand: the index's with the table's.  It does so until  *)
(* it saves the catalog, and its inserts always find room.                 *)
(***************************************************************************)
EXTENDS Naturals, Sequences, FiniteSetsExt

CONSTANTS
    NumFrames,      \* BUFFER_POOL_SIZE
    LastPage,       \* bound on the page ids
    Contents,       \* what the client writes into pages
    Junk,           \* memory nobody has written yet
    Zero,           \* a page of a hole in the file
    None,           \* no page at all
    CatalogPage,    \* page 1
    Overrun,        \* frames behind the catalog's that its image covers, 10
    MaxPins         \* bound on the pin count of one frame

ASSUME PoolAssumption ==
    /\ NumFrames \in Nat \ {0}
    /\ LastPage \in Nat
    /\ CatalogPage \in 0 .. LastPage
    /\ Overrun \in Nat \ {0}
    /\ MaxPins \in Nat \ {0}
    /\ {Junk, Zero} \cap Contents = {}
    /\ Junk # Zero
    /\ None \notin Contents \cup {Junk, Zero}

Pages == 0 .. LastPage

Frames == 1 .. NumFrames

Bytes == Contents \cup {Junk, Zero}

\* page_id -1 of a frame without a page, and the place of a page not held.
NoId == LastPage + 1

Nowhere == 0

VARIABLES
    frames,         \* BufferPool.frames
    file,           \* the database file: page p is file[p + 1]
    next_page_id,   \* Pager.next_page_id
    held,           \* the frame whose address the client has for a page
    edited,         \* the held pages the client has written to
    indexing        \* a CREATE INDEX has fetched its second page

vars == <<frames, file, next_page_id, held, edited, indexing>>

Frame == [page_id : Pages \cup {NoId}, is_dirty : 0 .. 1,
          pin_count : Nat, lru_counter : Nat, page : Bytes]

HeldPages == {p \in Pages : held[p] # Nowhere}

-----------------------------------------------------------------------------
(* The calls of buffer.c as operators on frames fs and a file fl.          *)

\* buffer_pool_init: malloc leaves the pages themselves unset.
buffer_pool_init ==
    [f \in Frames |-> [page_id |-> NoId, is_dirty |-> 0, pin_count |-> 0,
                       lru_counter |-> 0, page |-> Junk]]

\* Mutant of Cached: a pinned frame is not looked at.
CachedUnpinned(fs, p) ==
    \E f \in Frames : fs[f].page_id = p /\ fs[f].pin_count = 0

Cached(fs, p) == \E f \in Frames : fs[f].page_id = p

\* Every search of the pool takes the first frame that has the page.
FrameOf(fs, p) == Min({f \in Frames : fs[f].page_id = p})

\* The pages whose first frame is dirty.
DirtyPages(fs) == {p \in Pages : Cached(fs, p) /\ fs[FrameOf(fs, p)].is_dirty # 0}

\* lseek and write for the pages of D: a write past the end of the file leaves
\* zeros in between.
Written(fs, fl, D) ==
    [i \in 1 .. Max({Len(fl)} \cup {p + 1 : p \in D}) |->
        IF i - 1 \in D THEN fs[FrameOf(fs, i - 1)].page
        ELSE IF i <= Len(fl) THEN fl[i] ELSE Zero]

Cleaned(fs, D) ==
    [f \in Frames |->
        IF fs[f].page_id \in D /\ f = FrameOf(fs, fs[f].page_id)
        THEN [fs[f] EXCEPT !.is_dirty = 0]
        ELSE fs[f]]

\* Mutant of buffer_pool_flush: nothing is written.
FlushNothing(p, fs) == {}

\* buffer_pool_flush writes a page if it is dirty; buffer_pool_flush_all does
\* so for every page in the pool.
buffer_pool_flush(p, fs) == {p} \cap DirtyPages(fs)

buffer_pool_flush_all(fs) == DirtyPages(fs)

\* Mutant of Unpinned: the last pin does not count.
UnpinnedOrOnce(fs) == {f \in Frames : fs[f].pin_count <= 1}

Unpinned(fs) == {f \in Frames : fs[f].pin_count = 0}

\* Mutant of find_victim_frame: the last of the unpinned frames.
VictimIsLast(fs) == Max(Unpinned(fs))

\* The first of the unpinned frames with the least lru_counter.
find_victim_frame(fs) ==
    Min({f \in Unpinned(fs) :
            \A g \in Unpinned(fs) : fs[f].lru_counter <= fs[g].lru_counter})

\* The changes to a single frame.
Pinned(r) ==
    LET more == [r EXCEPT !.pin_count = @ + 1]
    IN  [more EXCEPT !.lru_counter = 0]

\* Mutant of Released: a page with another pin is not marked dirty.
ReleasedByLast(r, dirty) ==
    LET less == [r EXCEPT !.pin_count = @ - 1]
    IN  IF dirty /\ less.pin_count = 0 THEN [less EXCEPT !.is_dirty = 1] ELSE less

Released(r, dirty) ==
    LET less == [r EXCEPT !.pin_count = @ - 1]
    IN  IF dirty THEN [less EXCEPT !.is_dirty = 1] ELSE less

WithPage(r, b) == [r EXCEPT !.page = b]

\* Mutant of ReadPage: the last page of the file is not read.
ReadPageButLast(fl, p, old) == IF p + 1 < Len(fl) THEN fl[p + 1] ELSE old

\* What read leaves in a frame: nothing is read at the end of the file.
ReadPage(fl, p, old) == IF p < Len(fl) THEN fl[p + 1] ELSE old

-----------------------------------------------------------------------------

\* pager_open on a new file.
Init ==
    /\ frames = buffer_pool_init
    /\ file = <<>>
    /\ next_page_id = 0
    /\ held = [p \in Pages |-> Nowhere]
    /\ edited = {}
    /\ indexing = FALSE

\* A page the program knows is below next_page_id; the one at next_page_id is
\* fetched to be formatted, with nothing else held.  The catalog's page is held
\* alone, and no third page is held with two others.
MayFetch(p) ==
    /\ held[p] = Nowhere
    /\ p < next_page_id \/ (p = next_page_id /\ HeldPages = {})
    /\ \A q, r \in HeldPages : q = r
    /\ HeldPages = {} \/ CatalogPage \notin HeldPages \cup {p}

GetCached(p) ==
    /\ MayFetch(p)
    /\ Cached(frames, p)
    /\ LET f == FrameOf(frames, p)
       IN  /\ frames[f].pin_count < MaxPins
           /\ frames' = [frames EXCEPT ![f] = Pinned(frames[f])]
           /\ held' = [held EXCEPT ![p] = f]
    /\ indexing' = (indexing \/ HeldPages # {})
    /\ UNCHANGED <<file, next_page_id, edited>>

\* With every frame pinned the call returns NULL and changes nothing.
GetMissing(p) ==
    /\ MayFetch(p)
    /\ ~ Cached(frames, p)
    /\ Unpinned(frames) # {}
    /\ LET f   == find_victim_frame(frames)
           old == frames[f].page_id
           D   == buffer_pool_flush(old, frames)
           fs  == Cleaned(frames, D)
           fl  == Written(frames, file, D)
       IN  /\ frames' = [fs EXCEPT ![f] =
                   [page_id |-> p, is_dirty |-> 0, pin_count |-> 1,
                    lru_counter |-> 0, page |-> ReadPage(fl, p, fs[f].page)]]
           /\ file' = fl
           /\ held' = [held EXCEPT ![p] = f]
    /\ indexing' = (indexing \/ HeldPages # {})
    /\ UNCHANGED <<next_page_id, edited>>

\* The client writes through its pointer; a new page's number is taken then.
EditPage(p, b) ==
    /\ p \in HeldPages
    /\ frames' = [frames EXCEPT ![held[p]] = WithPage(frames[held[p]], b)]
    /\ edited' = edited \cup {p}
    /\ next_page_id' = IF p = next_page_id THEN next_page_id + 1
                                           ELSE next_page_id
    /\ UNCHANGED <<file, held, indexing>>

\* Mutant of Overwritten: the catalog's frame, too, gets its first header back.
OverwrittenUnpins(f, c, b) ==
    IF f = c
    THEN [page_id |-> CatalogPage, is_dirty |-> 0,
          pin_count |-> 0, lru_counter |-> 0, page |-> b]
    ELSE frames[f]

\* What is in frame f when the Catalog struct was copied over that of frame c,
\* with at most one table in it: behind the page the image still is what db_open
\* copied out of a fresh pool, so it puts the headers of the frames it covers back
\* to that.  It ends in the page of the frame behind them, whose header stays.
\* What it covers behind the last frame is not modelled.
Overwritten(f, c, b) ==
    IF f = c
    THEN [page_id |-> CatalogPage, is_dirty |-> 0,
          pin_count |-> 1, lru_counter |-> 0, page |-> b]
    ELSE IF f \in c + 1 .. c + Overrun
    THEN buffer_pool_init[f]
    ELSE IF f = c + Overrun + 1
    THEN WithPage(frames[f], Junk)
    ELSE frames[f]

\* The catalog is saved, by CREATE INDEX too as the last it does.
SaveCatalog(b) ==
    /\ HeldPages = {CatalogPage}
    /\ frames' = [f \in Frames |-> Overwritten(f, held[CatalogPage], b)]
    /\ edited' = edited \cup {CatalogPage}
    /\ next_page_id' = IF CatalogPage = next_page_id THEN next_page_id + 1
                                                     ELSE next_page_id
    /\ indexing' = FALSE
    /\ UNCHANGED <<file, held>>

\* A page that was written is unpinned dirty, and so flushed, any other clean.
UnpinPage(p) ==
    /\ p \in HeldPages
    /\ LET f  == FrameOf(frames, p)
           fs == IF Cached(frames, p)
                 THEN [frames EXCEPT ![f] = Released(frames[f], p \in edited)]
                 ELSE frames
           D  == IF p \in edited THEN buffer_pool_flush(p, fs) ELSE {}
       IN  /\ frames' = Cleaned(fs, D)
           /\ file' = Written(fs, file, D)
    /\ held' = [held EXCEPT ![p] = Nowhere]
    /\ edited' = edited \ {p}
    /\ UNCHANGED <<next_page_id, indexing>>

\* btree_insert into a full leaf and btree_delete of a missing key return
\* without the unpin; they have written nothing, and it is the only page held.
LeakPin(p) ==
    /\ HeldPages = {p} /\ ~ indexing
    /\ p \notin edited \cup {CatalogPage}
    /\ held' = [held EXCEPT ![p] = Nowhere]
    /\ UNCHANGED <<frames, file, next_page_id, edited, indexing>>

\* SELECT flushes every frame, then takes all page ids away but not the pins.
ForgetPages ==
    /\ HeldPages = {} /\ ~ indexing
    /\ LET D == buffer_pool_flush_all(frames)
       IN  /\ frames' = [f \in Frames |->
                   [Cleaned(frames, D)[f] EXCEPT !.page_id = NoId]]
           /\ file' = Written(frames, file, D)
    /\ UNCHANGED <<next_page_id, held, edited, indexing>>

\* Mutant of Restart: the pager does not look how long the file is.
RestartCountsNothing ==
    /\ frames' = buffer_pool_init
    /\ next_page_id' = 0
    /\ held' = [p \in Pages |-> Nowhere]
    /\ edited' = {}
    /\ indexing' = FALSE
    /\ UNCHANGED file

\* A crash and db_open, or ROLLBACK: a fresh pool and pager on the same file.
Restart ==
    /\ frames' = buffer_pool_init
    /\ next_page_id' = Len(file)
    /\ held' = [p \in Pages |-> Nowhere]
    /\ edited' = {}
    /\ indexing' = FALSE
    /\ UNCHANGED file

Next ==
    \/ \E p \in Pages : \/ GetCached(p)
                        \/ GetMissing(p)
                        \/ UnpinPage(p)
                        \/ LeakPin(p)
    \/ \E p \in Pages, b \in Contents : EditPage(p, b)
    \/ \E b \in Contents : SaveCatalog(b)
    \/ ForgetPages
    \/ Restart

Spec == Init /\ [][Next]_vars

-----------------------------------------------------------------------------

TypeOK ==
    /\ frames \in [Frames -> Frame]
    /\ file \in Seq(Bytes)
    /\ next_page_id \in 0 .. LastPage + 1
    /\ held \in [Pages -> Frames \cup {Nowhere}]
    /\ edited \subseteq HeldPages
    /\ indexing \in BOOLEAN

\* No page is in two frames: every search of the pool stops at the first, so a
\* second copy would be changed and never written, or written and never seen.
OneFramePerPage ==
    \A f, g \in Frames :
        frames[f].page_id = frames[g].page_id /\ frames[f].page_id # NoId
            => f = g

\* A page stays where the client's pointer says, and pinned, until the client
\* unpins it, whatever is fetched, evicted or overrun meanwhile.
HeldPagesStay ==
    \A p \in HeldPages :
        /\ frames[held[p]].page_id = p
        /\ frames[held[p]].pin_count > 0

\* The copy of the catalog ends within no page in use: behind the frames whose
\* headers it resets there is no frame with a page, though its own frame, where
\* the search for a victim ended, may have any place behind leaked pins and have
\* the pages of a CREATE INDEX around it.
OverrunHitsNoPage ==
    \A f, g \in Frames :
        frames[f].page_id = CatalogPage /\ g > f + Overrun
            => frames[g].page_id = NoId

\* A page in the pool that the client is not writing to is the page in the
\* file: evicting it or losing the pool loses nothing, and a hit returns what a
\* read would.
CachedIsStored ==
    \A f \in Frames :
        LET p == frames[f].page_id
        IN  p \in Pages /\ p \notin edited /\ p < Len(file)
                => frames[f].page = file[p + 1]

\* Between two calls no frame is dirty: the flush in buffer_pool_unpin_page
\* leaves nothing for the flush_all of COMMIT, SELECT and db_close to do, so a
\* row reaches the file long before its transaction commits.
NothingToFlush == \A f \in Frames : frames[f].is_dirty = 0

\* The file has exactly the pages that were given a number, but for one that is
\* being written for the first time, and no hole that nobody wrote: so
\* pager_open counts them right and a number is never given to two pages.
FileHasAllPages ==
    /\ next_page_id = IF Len(file) \in edited THEN Len(file) + 1 ELSE Len(file)
    /\ \A i \in 1 .. Len(file) : file[i] # Zero

\* A stored page is read back as it was stored, across evictions and restarts.
Store == INSTANCE PageStore WITH
    NoPage <- None,
    disk   <- [p \in Pages |-> IF p < Len(file) THEN file[p + 1] ELSE None],
    work   <- [p \in Pages |-> IF held[p] = Nowhere THEN None
                               ELSE frames[held[p]].page]

ImplementsPageStore == Store!Spec

=============================================================================
