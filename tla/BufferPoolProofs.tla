-------------------------- MODULE BufferPoolProofs --------------------------
(***************************************************************************)
(* The invariants of BufferPool, for every pool size and file, and its     *)
(* refinement of PageStore.                                                *)
(***************************************************************************)
EXTENDS BufferPool, Recursion

\* A page that is in one frame only is found there.
LEMMA FrameOfUnique ==
    ASSUME NEW fs, NEW p, NEW f \in Frames, fs[f].page_id = p,
           \A g \in Frames : fs[g].page_id = p => g = f
    PROVE  FrameOf(fs, p) = f /\ Cached(fs, p)
  <1>1. {g \in Frames : fs[g].page_id = p} = {f}
    OBVIOUS
  <1>2. f \in Nat
    BY DEF Frames
  <1>3. Min({f}) = f
    BY <1>2 DEF Min
  <1>4. QED
    BY <1>1, <1>3 DEF FrameOf, Cached

LEMMA MaxOfTwo ==
    ASSUME NEW m \in Nat, NEW n \in Nat
    PROVE  Max({m} \cup {n}) = IF m < n THEN n ELSE m
  <1> DEFINE top == IF m < n THEN n ELSE m
  <1>1. /\ top \in {m} \cup {n}
        /\ \A y \in {m} \cup {n} : top >= y
        /\ \A x \in {m} \cup {n} : (\A y \in {m} \cup {n} : x >= y) => x = top
    OBVIOUS
  <1>2. QED
    BY <1>1 DEF Max

\* Writing no page leaves the file as it is.
LEMMA NothingWritten ==
    ASSUME NEW fs, NEW fl \in Seq(Bytes)
    PROVE  Written(fs, fl, {}) = fl
  <1>1. {p + 1 : p \in {}} = {}
    OBVIOUS
  <1>2. Len(fl) \in Nat
    OBVIOUS
  <1>3. Max({Len(fl)} \cup {}) = Len(fl)
    BY <1>2 DEF Max
  <1>4. Written(fs, fl, {}) =
            [i \in 1 .. Len(fl) |->
                IF i - 1 \in {} THEN fs[FrameOf(fs, i - 1)].page
                ELSE IF i <= Len(fl) THEN fl[i] ELSE Zero]
    BY <1>1, <1>3 DEF Written
  <1>5. \A i \in 1 .. Len(fl) : i <= Len(fl) /\ i - 1 \notin {}
    OBVIOUS
  <1>6. Written(fs, fl, {}) = [i \in 1 .. Len(fl) |-> fl[i]]
    BY <1>4, <1>5
  <1>7. QED
    BY <1>6

\* Writing one page no further than right behind the end: the file has that
\* page then, every other page is as before, and no hole has come up.
LEMMA PageWritten ==
    ASSUME NEW fs, NEW fl \in Seq(Bytes), NEW p \in Nat, p <= Len(fl),
           fs[FrameOf(fs, p)].page \in Bytes
    PROVE  LET w == Written(fs, fl, {p})
           IN  /\ w \in Seq(Bytes)
               /\ Len(w) = IF p < Len(fl) THEN Len(fl) ELSE Len(fl) + 1
               /\ \A i \in 1 .. Len(w) :
                     w[i] = IF i = p + 1 THEN fs[FrameOf(fs, p)].page
                                         ELSE fl[i]
  <1> DEFINE b == fs[FrameOf(fs, p)].page
             n == IF p < Len(fl) THEN Len(fl) ELSE Len(fl) + 1
  <1>1. {q + 1 : q \in {p}} = {p + 1}
    OBVIOUS
  <1>2. Len(fl) \in Nat /\ p + 1 \in Nat
    OBVIOUS
  <1>3. Max({Len(fl)} \cup {p + 1}) = n
    BY <1>2, MaxOfTwo
  <1>4. Written(fs, fl, {p}) =
            [i \in 1 .. n |->
                IF i - 1 \in {p} THEN fs[FrameOf(fs, i - 1)].page
                ELSE IF i <= Len(fl) THEN fl[i] ELSE Zero]
    BY <1>1, <1>3 DEF Written
  <1>5. n \in Nat /\ \A i \in 1 .. n : i # p + 1 => i \in 1 .. Len(fl)
    BY <1>2
  <1>6. \A i \in 1 .. n :
            Written(fs, fl, {p})[i] = IF i = p + 1 THEN b ELSE fl[i]
    BY <1>2, <1>4, <1>5
  <1>7. \A i \in 1 .. n : Written(fs, fl, {p})[i] \in Bytes
    <2>1. \A i \in 1 .. Len(fl) : fl[i] \in Bytes
      OBVIOUS
    <2>2. QED
      BY <1>5, <1>6, <2>1
  <1> HIDE DEF n
  <1>8. Written(fs, fl, {p}) \in [1 .. n -> Bytes]
    BY <1>4, <1>7
  <1>9. Written(fs, fl, {p}) \in Seq(Bytes) /\ Len(Written(fs, fl, {p})) = n
    <2> DEFINE w == Written(fs, fl, {p})
    <2>1. n \in Nat /\ w \in [1 .. n -> Bytes]
      BY <1>5, <1>8
    <2> HIDE DEF w
    <2>2. w \in Seq(Bytes)
      BY <2>1, SeqDef
    <2>3. 1 .. n = 1 .. Len(w) /\ Len(w) \in Nat
      BY <2>1, <2>2, LenProperties
    <2>4. Len(w) = n
      <3>1. n < Len(w) => Len(w) \in 1 .. Len(w) /\ Len(w) \notin 1 .. n
        BY <2>1, <2>3
      <3>2. Len(w) < n => n \in 1 .. n /\ n \notin 1 .. Len(w)
        BY <2>1, <2>3
      <3>3. QED
        BY <2>1, <2>3, <3>1, <3>2
    <2>5. QED
      BY <2>2, <2>4 DEF w
  <1>10. QED
    BY <1>6, <1>9 DEF n

-----------------------------------------------------------------------------

\* The client never gets ahead of the file by more than one page, and the zeros
\* of a hole never get into the pool.  With these two the invariants of
\* BufferPool are inductive.
HeldPagesKnown == \A p \in HeldPages : p <= Len(file)

NoZeroFrames == \A f \in Frames : frames[f].page # Zero

IInv ==
    /\ TypeOK
    /\ OneFramePerPage
    /\ HeldPagesStay
    /\ CachedIsStored
    /\ NothingToFlush
    /\ FileHasAllPages
    /\ HeldPagesKnown
    /\ NoZeroFrames

\* The client has the address of frame f.
Borrowed(f) == \E p \in HeldPages : held[p] = f

\* Frame f has a pin that nobody will give back.
Leaky(f) == frames[f].pin_count > IF Borrowed(f) THEN 1 ELSE 0

\* In which order the frames are used: the counters that decide about a victim
\* are always equal, so it is the first frame without a pin.  The leaked frames
\* come first; then the one frame that all pages pass through, and during a
\* CREATE INDEX one more.
CountersAreZero == \A f \in Frames : frames[f].lru_counter = 0

LeaksFirst == \A f, g \in Frames : g < f /\ Leaky(f) => Leaky(g)

PagesBehindLeaks ==
    \A f, g \in Frames :
        frames[f].page_id # NoId /\ g < f /\ (g < f - 1 \/ ~ indexing)
            => Leaky(g)

CatalogBehindLeaks ==
    \A f \in Frames :
        frames[f].page_id = CatalogPage =>
            /\ ~ Leaky(f)
            /\ \A g \in Frames : g < f => Leaky(g)

Ordered ==
    /\ CountersAreZero
    /\ LeaksFirst
    /\ PagesBehindLeaks
    /\ CatalogBehindLeaks

\* Behind the frames the catalog's copy covers there is no frame with a page.
LEMMA BehindOverrun ==
    ASSUME Ordered, NEW c \in Frames, frames[c].page_id = CatalogPage,
           NEW g \in Frames, g > c + Overrun
    PROVE  frames[g].page_id = NoId
  <1>1. c \in Nat /\ g \in Nat /\ c < g /\ c < g - 1
    BY PoolAssumption DEF Frames
  <1>2. ~ Leaky(c)
    BY DEF Ordered, CatalogBehindLeaks
  <1>3. QED
    BY <1>1, <1>2 DEF Ordered, PagesBehindLeaks

LEMMA FreshPool ==
    /\ buffer_pool_init \in [Frames -> Frame]
    /\ \A f \in Frames :
          /\ buffer_pool_init[f].page_id = NoId
          /\ buffer_pool_init[f].is_dirty = 0
          /\ buffer_pool_init[f].pin_count = 0
          /\ buffer_pool_init[f].page = Junk
  BY DEF buffer_pool_init, Frame, Bytes

LEMMA PageIds ==
    /\ NoId \notin Pages
    /\ Pages \subseteq Nat
    /\ Nowhere \notin Frames
    /\ Zero \notin Contents /\ Junk # Zero
  BY PoolAssumption DEF NoId, Pages, Nowhere, Frames

\* Changing one frame.
LEMMA FrameUpdate ==
    ASSUME NEW fs \in [Frames -> Frame], NEW f \in Frames, NEW r \in Frame
    PROVE  /\ [fs EXCEPT ![f] = r] \in [Frames -> Frame]
           /\ \A g \in Frames : [fs EXCEPT ![f] = r][g] =
                                    IF g = f THEN r ELSE fs[g]
  OBVIOUS

LEMMA FrameFields ==
    ASSUME NEW r \in Frame
    PROVE  /\ r.page_id \in Pages \cup {NoId}
           /\ r.is_dirty \in 0 .. 1
           /\ r.pin_count \in Nat
           /\ r.lru_counter \in Nat
           /\ r.page \in Bytes
           /\ r = [page_id |-> r.page_id, is_dirty |-> r.is_dirty,
                   pin_count |-> r.pin_count, lru_counter |-> r.lru_counter,
                   page |-> r.page]
  BY DEF Frame

LEMMA PinnedFields ==
    ASSUME NEW r \in Frame
    PROVE  /\ Pinned(r) \in Frame
           /\ Pinned(r).page_id = r.page_id
           /\ Pinned(r).is_dirty = r.is_dirty
           /\ Pinned(r).page = r.page
           /\ Pinned(r).pin_count = r.pin_count + 1
           /\ Pinned(r).lru_counter = 0
  <1>1. Pinned(r) = [page_id |-> r.page_id, is_dirty |-> r.is_dirty,
                     pin_count |-> r.pin_count + 1, lru_counter |-> 0,
                     page |-> r.page]
    <2> DEFINE more == [r EXCEPT !.pin_count = @ + 1]
    <2>1. /\ more \in Frame
          /\ more.page_id = r.page_id /\ more.is_dirty = r.is_dirty
          /\ more.pin_count = r.pin_count + 1 /\ more.page = r.page
      BY DEF Frame
    <2> HIDE DEF more
    <2>2. [more EXCEPT !.lru_counter = 0] =
              [page_id |-> more.page_id, is_dirty |-> more.is_dirty,
               pin_count |-> more.pin_count, lru_counter |-> 0,
               page |-> more.page]
      BY <2>1 DEF Frame
    <2>3. Pinned(r) = [more EXCEPT !.lru_counter = 0]
      BY DEF Pinned, more
    <2>4. QED
      BY <2>1, <2>2, <2>3
  <1>2. QED
    BY <1>1, FrameFields DEF Frame

LEMMA ReleasedFields ==
    ASSUME NEW r \in Frame, NEW dirty \in BOOLEAN, r.pin_count > 0
    PROVE  /\ Released(r, dirty) \in Frame
           /\ Released(r, dirty).page_id = r.page_id
           /\ Released(r, dirty).is_dirty = IF dirty THEN 1 ELSE r.is_dirty
           /\ Released(r, dirty).page = r.page
           /\ Released(r, dirty).pin_count = r.pin_count - 1
           /\ Released(r, dirty).lru_counter = r.lru_counter
  <1>1. Released(r, dirty) =
            [page_id |-> r.page_id,
             is_dirty |-> IF dirty THEN 1 ELSE r.is_dirty,
             pin_count |-> r.pin_count - 1, lru_counter |-> r.lru_counter,
             page |-> r.page]
    BY DEF Released, Frame
  <1>2. r.pin_count - 1 \in Nat
    BY FrameFields
  <1>3. QED
    BY <1>1, <1>2, FrameFields DEF Frame

LEMMA WithPageFields ==
    ASSUME NEW r \in Frame, NEW b \in Bytes
    PROVE  /\ WithPage(r, b) \in Frame
           /\ WithPage(r, b).page_id = r.page_id
           /\ WithPage(r, b).is_dirty = r.is_dirty
           /\ WithPage(r, b).page = b
           /\ WithPage(r, b).pin_count = r.pin_count
           /\ WithPage(r, b).lru_counter = r.lru_counter
  <1>1. WithPage(r, b) =
            [page_id |-> r.page_id, is_dirty |-> r.is_dirty,
             pin_count |-> r.pin_count, lru_counter |-> r.lru_counter,
             page |-> b]
    BY FrameFields DEF WithPage
  <1>2. QED
    BY <1>1, FrameFields DEF Frame

LEMMA InitIInv == Init => IInv
  <1> SUFFICES ASSUME Init
               PROVE  IInv
    OBVIOUS
  <1>1. /\ file = <<>> /\ Len(file) = 0 /\ file \in Seq(Bytes)
        /\ next_page_id = 0 /\ edited = {} /\ HeldPages = {}
        /\ indexing = FALSE
        /\ held \in [Pages -> Frames \cup {Nowhere}]
    BY DEF Init, HeldPages
  <1>2. frames = buffer_pool_init
    BY DEF Init
  <1>3. TypeOK
    <2>1. frames \in [Frames -> Frame]
      BY <1>2, FreshPool
    <2>2. next_page_id \in 0 .. LastPage + 1
      BY <1>1, PoolAssumption
    <2>3. indexing \in BOOLEAN
      BY <1>1
    <2>4. edited \subseteq HeldPages
      BY <1>1
    <2>5. QED
      BY <1>1, <2>1, <2>2, <2>3, <2>4 DEF TypeOK
  <1>4. OneFramePerPage /\ HeldPagesStay /\ HeldPagesKnown
    BY <1>1, <1>2, FreshPool DEF OneFramePerPage, HeldPagesStay, HeldPagesKnown
  <1>5. CachedIsStored /\ NothingToFlush /\ NoZeroFrames
    BY <1>2, FreshPool, PageIds
       DEF CachedIsStored, NothingToFlush, NoZeroFrames
  <1>6. FileHasAllPages
    BY <1>1 DEF FileHasAllPages
  <1>7. QED
    BY <1>3, <1>4, <1>5, <1>6 DEF IInv

\* With no dirty frame a flush has nothing to do.
LEMMA NoDirtyPages ==
    ASSUME IInv
    PROVE  /\ DirtyPages(frames) = {}
           /\ Cleaned(frames, {}) = frames
           /\ Written(frames, file, {}) = file
  <1>1. ASSUME NEW p \in Pages, Cached(frames, p)
        PROVE  frames[FrameOf(frames, p)].is_dirty = 0
    <2>1. PICK f \in Frames : frames[f].page_id = p
      BY <1>1 DEF Cached
    <2>2. \A g \in Frames : frames[g].page_id = p => g = f
      BY <1>1, <2>1, PageIds DEF IInv, OneFramePerPage
    <2>3. FrameOf(frames, p) = f
      BY <2>1, <2>2, FrameOfUnique
    <2>4. QED
      BY <2>3 DEF IInv, NothingToFlush
  <1>2. DirtyPages(frames) = {}
    BY <1>1 DEF DirtyPages
  <1>3. Cleaned(frames, {}) = [f \in Frames |-> frames[f]]
    BY DEF Cleaned
  <1>4. frames = [f \in Frames |-> frames[f]]
    BY DEF IInv, TypeOK
  <1>5. Written(frames, file, {}) = file
    BY NothingWritten DEF IInv, TypeOK
  <1>6. QED
    BY <1>2, <1>3, <1>4, <1>5

\* A page that may be fetched is at most one behind the last of the file.
LEMMA FetchIsKnown ==
    ASSUME IInv, NEW p \in Pages, MayFetch(p)
    PROVE  p <= Len(file) /\ p \notin edited /\ Len(file) \in Nat
  <1>1. Len(file) \in Nat /\ p \in Nat
    BY PageIds DEF IInv, TypeOK
  <1>2. edited \subseteq HeldPages
    BY DEF IInv, TypeOK
  <1>3. p \notin edited
    BY <1>2 DEF MayFetch, HeldPages
  <1>4. CASE p < next_page_id
    BY <1>1, <1>3, <1>4 DEF IInv, FileHasAllPages, TypeOK
  <1>5. CASE p = next_page_id /\ HeldPages = {}
    <2>1. Len(file) \notin edited
      BY <1>2, <1>5
    <2>2. next_page_id = Len(file)
      BY <2>1 DEF IInv, FileHasAllPages
    <2>3. QED
      BY <1>1, <1>3, <1>5, <2>2
  <1>6. QED
    BY <1>4, <1>5 DEF MayFetch

LEMMA GetCachedKeeps ==
    ASSUME IInv, NEW p \in Pages, GetCached(p)
    PROVE  IInv'
  <1>1. PICK f \in Frames : frames[f].page_id = p
    BY DEF GetCached, Cached
  <1>2. FrameOf(frames, p) = f
    BY <1>1, PageIds, FrameOfUnique DEF IInv, OneFramePerPage
  <1>3. frames \in [Frames -> Frame] /\ held \in [Pages -> Frames \cup {Nowhere}]
    BY DEF IInv, TypeOK
  <1> DEFINE r == Pinned(frames[f])
  <1>4. /\ frames' = [frames EXCEPT ![f] = r]
        /\ held' = [held EXCEPT ![p] = f]
        /\ file' = file /\ next_page_id' = next_page_id /\ edited' = edited
    BY <1>2 DEF GetCached
  <1>5. /\ frames' \in [Frames -> Frame]
        /\ \A g \in Frames :
              /\ frames'[g].page_id = frames[g].page_id
              /\ frames'[g].is_dirty = frames[g].is_dirty
              /\ frames'[g].page = frames[g].page
              /\ frames'[g].pin_count =
                     IF g = f THEN frames[g].pin_count + 1
                              ELSE frames[g].pin_count
              /\ frames[g].pin_count \in Nat
    <2>1. frames[f] \in Frame
      BY <1>3
    <2>2. /\ r.page_id = frames[f].page_id
          /\ r.is_dirty = frames[f].is_dirty
          /\ r.page = frames[f].page
          /\ r.pin_count = frames[f].pin_count + 1
          /\ r \in Frame
      BY <2>1, PinnedFields
    <2> HIDE DEF r
    <2>3. /\ frames' \in [Frames -> Frame]
          /\ \A g \in Frames : frames'[g] = IF g = f THEN r ELSE frames[g]
      BY <1>3, <1>4, <2>2, FrameUpdate
    <2>4. \A g \in Frames : frames[g].pin_count \in Nat
      BY <1>3, FrameFields
    <2>5. QED
      BY <2>2, <2>3, <2>4
  <1>6. /\ held' \in [Pages -> Frames \cup {Nowhere}]
        /\ \A q \in Pages : held'[q] = IF q = p THEN f ELSE held[q]
    BY <1>3, <1>4
  <1>7. HeldPages' = HeldPages \cup {p}
    BY <1>6, PageIds DEF HeldPages
  <1>8. TypeOK'
    <2>1. indexing' \in BOOLEAN
      BY DEF GetCached
    <2>2. QED
      BY <1>4, <1>5, <1>6, <1>7, <2>1 DEF IInv, TypeOK
  <1>9. OneFramePerPage' /\ NothingToFlush' /\ NoZeroFrames' /\ FileHasAllPages'
    BY <1>4, <1>5 DEF IInv, OneFramePerPage, NothingToFlush, NoZeroFrames,
       FileHasAllPages
  <1>10. CachedIsStored'
    BY <1>4, <1>5 DEF IInv, CachedIsStored
  <1>11. HeldPagesStay'
    <2>1. SUFFICES ASSUME NEW q \in HeldPages'
                   PROVE  /\ frames'[held'[q]].page_id = q
                          /\ frames'[held'[q]].pin_count > 0
      BY DEF HeldPagesStay
    <2>2. CASE q = p
      BY <1>1, <1>5, <1>6, <2>2
    <2>3. CASE q # p
      <3>1. q \in HeldPages /\ held'[q] = held[q] /\ held[q] \in Frames
        BY <1>3, <1>6, <1>7, <2>3 DEF HeldPages
      <3>2. /\ frames[held[q]].page_id = q
            /\ frames[held[q]].pin_count > 0
        BY <3>1 DEF IInv, HeldPagesStay
      <3>3. QED
        BY <1>5, <3>1, <3>2
    <2>4. QED
      BY <2>2, <2>3
  <1>12. HeldPagesKnown'
    BY <1>4, <1>7, FetchIsKnown DEF IInv, HeldPagesKnown, GetCached
  <1>13. QED
    BY <1>8, <1>9, <1>10, <1>11, <1>12 DEF IInv

\* The victim is one of the unpinned frames.
LEMMA VictimIsUnpinned ==
    ASSUME NEW fs \in [Frames -> Frame], Unpinned(fs) # {}
    PROVE  find_victim_frame(fs) \in Frames
           /\ fs[find_victim_frame(fs)].pin_count = 0
  <1> DEFINE Counters == {fs[f].lru_counter : f \in Unpinned(fs)}
             Oldest == {f \in Unpinned(fs) : \A g \in Unpinned(fs) :
                           fs[f].lru_counter <= fs[g].lru_counter}
  <1>1. Counters \subseteq Nat /\ Counters # {}
    BY FrameFields DEF Unpinned
  <1>2. Min(Counters) \in Counters /\ \A c \in Counters : Min(Counters) <= c
    BY <1>1, MinOfNats
  <1>3. Oldest # {}
    <2>1. PICK f \in Unpinned(fs) : Min(Counters) = fs[f].lru_counter
      BY <1>2
    <2>2. \A g \in Unpinned(fs) : Min(Counters) <= fs[g].lru_counter
      BY <1>2
    <2>3. f \in Oldest
      BY <2>1, <2>2
    <2>4. QED
      BY <2>3
  <1>4. Oldest \subseteq Nat
    BY DEF Unpinned, Frames
  <1>5. Min(Oldest) \in Oldest
    BY <1>3, <1>4, MinOfNats
  <1>6. QED
    BY <1>5 DEF find_victim_frame, Unpinned

LEMMA GetMissingKeeps ==
    ASSUME IInv, NEW p \in Pages, GetMissing(p)
    PROVE  IInv'
  <1> DEFINE f == find_victim_frame(frames)
             r == [page_id |-> p, is_dirty |-> 0, pin_count |-> 1,
                   lru_counter |-> 0,
                   page |-> ReadPage(file, p, frames[f].page)]
  <1>1. frames \in [Frames -> Frame] /\ held \in [Pages -> Frames \cup {Nowhere}]
    BY DEF IInv, TypeOK
  <1>2. f \in Frames /\ frames[f].pin_count = 0
    BY <1>1, VictimIsUnpinned DEF GetMissing
  <1>3. /\ frames' = [frames EXCEPT ![f] = r]
        /\ held' = [held EXCEPT ![p] = f]
        /\ file' = file /\ next_page_id' = next_page_id /\ edited' = edited
    <2>1. buffer_pool_flush(frames[f].page_id, frames) = {}
      BY NoDirtyPages DEF buffer_pool_flush
    <2>2. QED
      BY <2>1, NoDirtyPages DEF GetMissing
  <1>4. file \in Seq(Bytes) /\ Len(file) \in Nat /\ p \in Nat
    BY PageIds DEF IInv, TypeOK
  <1>5. /\ frames[f].page \in Bytes /\ frames[f].page # Zero
        /\ p < Len(file) => p + 1 \in 1 .. Len(file)
    BY <1>1, <1>2, <1>4, FrameFields DEF IInv, NoZeroFrames
  <1>6. /\ ReadPage(file, p, frames[f].page) \in Bytes \ {Zero}
        /\ p < Len(file) => ReadPage(file, p, frames[f].page) = file[p + 1]
    BY <1>4, <1>5, ElementOfSeq DEF ReadPage, IInv, FileHasAllPages
  <1>7. r \in Frame
    BY <1>6 DEF Frame
  <1>8. /\ r.page_id = p /\ r.is_dirty = 0 /\ r.pin_count = 1
        /\ r.page = ReadPage(file, p, frames[f].page)
    OBVIOUS
  <1> HIDE DEF f, r
  <1>9. /\ frames' \in [Frames -> Frame]
        /\ \A g \in Frames : frames'[g] = IF g = f THEN r ELSE frames[g]
    BY <1>1, <1>2, <1>3, <1>7, FrameUpdate
  <1>10. /\ held' \in [Pages -> Frames \cup {Nowhere}]
         /\ \A q \in Pages : held'[q] = IF q = p THEN f ELSE held[q]
    BY <1>1, <1>2, <1>3
  <1>11. HeldPages' = HeldPages \cup {p}
    BY <1>2, <1>10, PageIds DEF HeldPages
  <1>12. TypeOK'
    <2>1. indexing' \in BOOLEAN
      BY DEF GetMissing
    <2>2. QED
      BY <1>3, <1>9, <1>10, <1>11, <2>1 DEF IInv, TypeOK
  <1>13. OneFramePerPage'
    BY <1>8, <1>9 DEF IInv, OneFramePerPage, GetMissing, Cached
  <1>14. NothingToFlush' /\ NoZeroFrames' /\ FileHasAllPages'
    BY <1>3, <1>6, <1>8, <1>9 DEF IInv, NothingToFlush, NoZeroFrames,
       FileHasAllPages
  <1>15. CachedIsStored'
    BY <1>3, <1>6, <1>8, <1>9 DEF IInv, CachedIsStored
  <1>16. HeldPagesStay'
    <2>1. SUFFICES ASSUME NEW q \in HeldPages'
                   PROVE  /\ frames'[held'[q]].page_id = q
                          /\ frames'[held'[q]].pin_count > 0
      BY DEF HeldPagesStay
    <2>2. CASE q = p
      BY <1>2, <1>8, <1>9, <1>10, <2>2 DEF HeldPages
    <2>3. CASE q # p
      <3>1. q \in HeldPages /\ held'[q] = held[q] /\ held[q] \in Frames
        BY <1>1, <1>10, <1>11, <2>3 DEF HeldPages
      <3>2. /\ frames[held[q]].page_id = q
            /\ frames[held[q]].pin_count > 0
        BY <3>1 DEF IInv, HeldPagesStay
      <3>3. held[q] # f
        BY <1>2, <3>2
      <3>4. QED
        BY <1>9, <3>1, <3>2, <3>3
    <2>4. QED
      BY <2>2, <2>3
  <1>17. HeldPagesKnown'
    BY <1>3, <1>11, FetchIsKnown DEF IInv, HeldPagesKnown, GetMissing
  <1>18. QED
    BY <1>12, <1>13, <1>14, <1>15, <1>16, <1>17 DEF IInv

\* The number of a page is taken when it is first written, and not again.
LEMMA NextPageIsTaken ==
    ASSUME IInv, NEW p \in HeldPages,
           edited' = edited \cup {p}, file' = file,
           next_page_id' = IF p = next_page_id THEN next_page_id + 1
                                               ELSE next_page_id
    PROVE  FileHasAllPages' /\ next_page_id' \in 0 .. LastPage + 1
  <1>1. /\ Len(file) \in Nat /\ p <= Len(file) /\ p \in Nat /\ p <= LastPage
        /\ next_page_id \in 0 .. LastPage + 1 /\ LastPage \in Nat
    BY PoolAssumption DEF IInv, TypeOK, HeldPagesKnown, HeldPages, Pages
  <1>2. next_page_id = IF Len(file) \in edited THEN Len(file) + 1 ELSE Len(file)
    BY DEF IInv, FileHasAllPages
  <1>3. CASE p = next_page_id
    <2>1. p = Len(file) /\ Len(file) \in edited'
      BY <1>1, <1>2, <1>3
    <2>2. QED
      BY <1>1, <1>3, <2>1 DEF IInv, FileHasAllPages
  <1>4. CASE p # next_page_id
    <2>1. Len(file) \in edited' <=> Len(file) \in edited
      BY <1>1, <1>2, <1>4
    <2>2. QED
      BY <1>1, <1>4, <2>1 DEF IInv, FileHasAllPages
  <1>5. QED
    BY <1>3, <1>4

\* The client writes a page it holds: EditPage, and SaveCatalog in the catalog's
\* frame.
LEMMA EditPageKeeps ==
    ASSUME IInv, NEW p \in Pages, NEW b \in Contents, EditPage(p, b)
    PROVE  IInv'
  <1> DEFINE f == held[p]
             r == WithPage(frames[f], b)
  <1>1. /\ frames \in [Frames -> Frame] /\ held \in [Pages -> Frames \cup {Nowhere}]
        /\ edited \subseteq HeldPages
    BY DEF IInv, TypeOK
  <1>2. /\ p \in HeldPages /\ f \in Frames /\ frames[f].page_id = p
    BY <1>1 DEF EditPage, HeldPages, IInv, HeldPagesStay
  <1>3. /\ frames' = [frames EXCEPT ![f] = r]
        /\ edited' = edited \cup {p}
        /\ next_page_id' = IF p = next_page_id THEN next_page_id + 1
                                               ELSE next_page_id
        /\ held' = held /\ file' = file /\ indexing' = indexing
    BY DEF EditPage
  <1>4. b \in Bytes /\ b # Zero
    BY PageIds DEF Bytes
  <1>5. frames[f] \in Frame
    BY <1>1, <1>2
  <1>6. /\ r \in Frame
        /\ r.page_id = frames[f].page_id /\ r.is_dirty = frames[f].is_dirty
        /\ r.page = b /\ r.pin_count = frames[f].pin_count
    BY <1>4, <1>5, WithPageFields
  <1> HIDE DEF f, r
  <1>7. /\ frames' \in [Frames -> Frame]
        /\ \A g \in Frames : frames'[g] = IF g = f THEN r ELSE frames[g]
    BY <1>1, <1>2, <1>3, <1>6, FrameUpdate
  <1>8. \A g \in Frames :
            /\ frames'[g].page_id = frames[g].page_id
            /\ frames'[g].is_dirty = frames[g].is_dirty
            /\ frames'[g].pin_count = frames[g].pin_count
            /\ frames'[g].page = IF g = f THEN b ELSE frames[g].page
    BY <1>6, <1>7
  <1>9. HeldPages' = HeldPages
    BY <1>3 DEF HeldPages
  <1>10. FileHasAllPages' /\ next_page_id' \in 0 .. LastPage + 1
    BY <1>1, <1>2, <1>3, NextPageIsTaken DEF IInv, TypeOK
  <1>11. TypeOK'
    BY <1>1, <1>2, <1>3, <1>7, <1>9, <1>10 DEF IInv, TypeOK
  <1>12. OneFramePerPage' /\ NothingToFlush' /\ NoZeroFrames'
    BY <1>4, <1>8 DEF IInv, OneFramePerPage, NothingToFlush, NoZeroFrames
  <1>13. CachedIsStored'
    BY <1>2, <1>3, <1>8 DEF IInv, CachedIsStored
  <1>14. HeldPagesStay' /\ HeldPagesKnown'
    <2>1. \A q \in HeldPages : held[q] \in Frames
      BY <1>1 DEF HeldPages
    <2>2. QED
      BY <1>3, <1>8, <1>9, <2>1 DEF IInv, HeldPagesStay, HeldPagesKnown
  <1>15. QED
    BY <1>10, <1>11, <1>12, <1>13, <1>14 DEF IInv

LEMMA SaveCatalogKeeps ==
    ASSUME IInv, Ordered, NEW b \in Contents, SaveCatalog(b)
    PROVE  IInv'
  <1> DEFINE c == held[CatalogPage]
             r == [page_id |-> CatalogPage, is_dirty |-> 0, pin_count |-> 1,
                   lru_counter |-> 0, page |-> b]
  <1>1. /\ frames \in [Frames -> Frame] /\ held \in [Pages -> Frames \cup {Nowhere}]
        /\ edited \subseteq HeldPages
    BY DEF IInv, TypeOK
  <1>2. /\ CatalogPage \in Pages /\ HeldPages = {CatalogPage}
        /\ c \in Frames /\ frames[c].page_id = CatalogPage
    BY <1>1, PoolAssumption
       DEF SaveCatalog, HeldPages, IInv, HeldPagesStay, Pages
  <1>3. /\ frames' = [f \in Frames |->
               IF f = c THEN r
               ELSE IF f \in c + 1 .. c + Overrun THEN buffer_pool_init[f]
               ELSE IF f = c + Overrun + 1 THEN WithPage(frames[f], Junk)
               ELSE frames[f]]
        /\ edited' = edited \cup {CatalogPage}
        /\ next_page_id' = IF CatalogPage = next_page_id THEN next_page_id + 1
                                                         ELSE next_page_id
        /\ held' = held /\ file' = file /\ indexing' = FALSE
    BY DEF SaveCatalog, Overwritten
  <1>4. b \in Bytes /\ b # Zero
    BY PageIds DEF Bytes
  <1>5. /\ r \in Frame /\ r.page_id = CatalogPage /\ r.is_dirty = 0
        /\ r.pin_count = 1 /\ r.page = b
    BY <1>2, <1>4 DEF Frame
  <1> HIDE DEF c, r
  <1>6. /\ frames' \in [Frames -> Frame]
        /\ \A g \in Frames :
              \/ g = c /\ frames'[g] = r
              \/ g # c /\ frames'[g] = buffer_pool_init[g]
              \/ g # c /\ frames'[g] = frames[g]
              \/ /\ g # c /\ frames'[g].page_id = NoId
                 /\ frames'[g].is_dirty = 0 /\ frames'[g].page = Junk
    <2>1. ASSUME NEW g \in Frames, g = c + Overrun + 1
          PROVE  /\ g # c /\ WithPage(frames[g], Junk) \in Frame
                 /\ WithPage(frames[g], Junk).page_id = NoId
                 /\ WithPage(frames[g], Junk).is_dirty = 0
                 /\ WithPage(frames[g], Junk).page = Junk
      <3>1. c \in Nat /\ Overrun \in Nat /\ g > c + Overrun
        BY <1>2, <2>1, PoolAssumption DEF Frames
      <3>2. frames[g] \in Frame /\ frames[g].page_id = NoId
            /\ frames[g].is_dirty = 0
        BY <1>1, <1>2, <3>1, BehindOverrun DEF IInv, NothingToFlush
      <3>3. Junk \in Bytes
        BY DEF Bytes
      <3>4. g # c
        BY <2>1, <3>1
      <3> QED
        BY <3>2, <3>3, <3>4, WithPageFields
    <2>2. \A g \in Frames :
              frames'[g] = IF g = c THEN r
                           ELSE IF g \in c + 1 .. c + Overrun
                           THEN buffer_pool_init[g]
                           ELSE IF g = c + Overrun + 1
                           THEN WithPage(frames[g], Junk) ELSE frames[g]
      BY <1>3
    <2>3. \A g \in Frames : frames'[g] \in Frame
      BY <1>1, <1>5, <2>1, <2>2, FreshPool
    <2>4. frames' \in [Frames -> Frame]
      BY <1>3, <2>3
    <2> QED
      BY <2>1, <2>2, <2>4
  <1>7. HeldPages' = HeldPages
    BY <1>3 DEF HeldPages
  <1>8. FileHasAllPages' /\ next_page_id' \in 0 .. LastPage + 1
    BY <1>1, <1>2, <1>3, NextPageIsTaken DEF IInv, TypeOK
  <1>9. TypeOK'
    BY <1>1, <1>2, <1>3, <1>6, <1>7, <1>8 DEF IInv, TypeOK
  <1>10. OneFramePerPage'
    BY <1>2, <1>5, <1>6, FreshPool DEF IInv, OneFramePerPage
  <1>11. NothingToFlush' /\ NoZeroFrames'
    BY <1>4, <1>5, <1>6, FreshPool, PageIds
       DEF IInv, NothingToFlush, NoZeroFrames
  <1>12. CachedIsStored'
    BY <1>2, <1>3, <1>5, <1>6, FreshPool, PageIds DEF IInv, CachedIsStored
  <1>13. HeldPagesStay' /\ HeldPagesKnown'
    <2>1. \A q \in HeldPages' : q = CatalogPage /\ held'[q] = c
      BY <1>2, <1>3, <1>7 DEF c
    <2>2. frames'[c] = r
      BY <1>2, <1>6
    <2>3. QED
      BY <1>2, <1>3, <1>5, <1>7, <2>1, <2>2
         DEF IInv, HeldPagesStay, HeldPagesKnown
  <1>14. QED
    BY <1>8, <1>9, <1>10, <1>11, <1>12, <1>13 DEF IInv

LEMMA CleanFields ==
    ASSUME NEW r \in Frame
    PROVE  LET c == [r EXCEPT !.is_dirty = 0]
           IN  /\ c \in Frame
               /\ c.page_id = r.page_id
               /\ c.is_dirty = 0
               /\ c.page = r.page
               /\ c.pin_count = r.pin_count
               /\ c.lru_counter = r.lru_counter
  <1>1. [r EXCEPT !.is_dirty = 0] =
            [page_id |-> r.page_id, is_dirty |-> 0,
             pin_count |-> r.pin_count, lru_counter |-> r.lru_counter,
             page |-> r.page]
    BY FrameFields
  <1>2. QED
    BY <1>1, FrameFields DEF Frame

\* What the pool and the file are after an unpin.
LEMMA UnpinPageResult ==
    ASSUME IInv, NEW p \in Pages, UnpinPage(p)
    PROVE  /\ frames' \in [Frames -> Frame]
           /\ \A g \in Frames :
                 /\ frames'[g].page_id = frames[g].page_id
                 /\ frames'[g].is_dirty = 0
                 /\ frames'[g].page = frames[g].page
                 /\ frames'[g].lru_counter = frames[g].lru_counter
                 /\ frames'[g].pin_count =
                       IF g = held[p] THEN frames[g].pin_count - 1
                                      ELSE frames[g].pin_count
           /\ p \notin edited => file' = file
           /\ p \in edited =>
                 /\ file' \in Seq(Bytes)
                 /\ Len(file') =
                       IF p < Len(file) THEN Len(file) ELSE Len(file) + 1
                 /\ \A i \in 1 .. Len(file') :
                       file'[i] = IF i = p + 1 THEN frames[held[p]].page
                                               ELSE file[i]
  <1> DEFINE f  == held[p]
             r  == Released(frames[f], p \in edited)
             fs == [frames EXCEPT ![f] = r]
             D  == IF p \in edited THEN buffer_pool_flush(p, fs) ELSE {}
  <1>1. /\ frames \in [Frames -> Frame] /\ held \in [Pages -> Frames \cup {Nowhere}]
        /\ p \in HeldPages
    BY DEF IInv, TypeOK, UnpinPage
  <1>2. /\ f \in Frames /\ frames[f].page_id = p /\ frames[f].pin_count > 0
    BY <1>1 DEF HeldPages, IInv, HeldPagesStay
  <1>3. \A g \in Frames : frames[g].page_id = p => g = f
    BY <1>2, PageIds DEF IInv, OneFramePerPage
  <1>4. FrameOf(frames, p) = f /\ Cached(frames, p)
    BY <1>2, <1>3, FrameOfUnique
  <1>5. frames[f] \in Frame /\ frames[f].is_dirty = 0
    BY <1>1, <1>2 DEF IInv, NothingToFlush
  <1>6. /\ r \in Frame /\ r.page_id = p
        /\ r.is_dirty = IF p \in edited THEN 1 ELSE 0
        /\ r.page = frames[f].page
        /\ r.pin_count = frames[f].pin_count - 1
        /\ r.lru_counter = frames[f].lru_counter
    <2>1. CASE p \in edited
      <3>1. r = Released(frames[f], TRUE)
        BY <2>1
      <3>2. QED
        BY <1>2, <1>5, <2>1, <3>1, ReleasedFields
    <2>2. CASE p \notin edited
      <3>1. r = Released(frames[f], FALSE)
        BY <2>2 DEF Released
      <3>2. /\ Released(frames[f], FALSE) \in Frame
            /\ Released(frames[f], FALSE).page_id = frames[f].page_id
            /\ Released(frames[f], FALSE).is_dirty = frames[f].is_dirty
            /\ Released(frames[f], FALSE).page = frames[f].page
            /\ Released(frames[f], FALSE).pin_count = frames[f].pin_count - 1
            /\ Released(frames[f], FALSE).lru_counter = frames[f].lru_counter
        BY <1>2, <1>5, ReleasedFields
      <3> HIDE DEF r
      <3>3. QED
        BY <1>2, <1>5, <2>2, <3>1, <3>2
    <2>3. QED
      BY <2>1, <2>2
  <1>7. frames' = Cleaned(fs, D) /\ file' = Written(fs, file, D)
    BY <1>4 DEF UnpinPage
  <1> HIDE DEF f, r
  <1>8. /\ fs \in [Frames -> Frame]
        /\ \A g \in Frames : fs[g] = IF g = f THEN r ELSE frames[g]
    BY <1>1, <1>2, <1>6, FrameUpdate
  <1> HIDE DEF fs
  <1>9. FrameOf(fs, p) = f /\ Cached(fs, p)
    <2>1. fs[f].page_id = p
      BY <1>2, <1>6, <1>8
    <2>2. \A g \in Frames : fs[g].page_id = p => g = f
      BY <1>3, <1>8
    <2>3. QED
      BY <1>2, <2>1, <2>2, FrameOfUnique
  <1>10. D = IF p \in edited THEN {p} ELSE {}
    BY <1>2, <1>6, <1>8, <1>9 DEF buffer_pool_flush, DirtyPages
  <1> HIDE DEF D
  <1>11. \A g \in Frames :
            /\ frames'[g] \in Frame
            /\ frames'[g].page_id = fs[g].page_id
            /\ frames'[g].is_dirty = 0
            /\ frames'[g].page = fs[g].page
            /\ frames'[g].pin_count = fs[g].pin_count
            /\ frames'[g].lru_counter = fs[g].lru_counter
    <2> SUFFICES ASSUME NEW g \in Frames
                 PROVE  /\ frames'[g] \in Frame
                        /\ frames'[g].page_id = fs[g].page_id
                        /\ frames'[g].is_dirty = 0
                        /\ frames'[g].page = fs[g].page
                        /\ frames'[g].pin_count = fs[g].pin_count
                        /\ frames'[g].lru_counter = fs[g].lru_counter
      OBVIOUS
    <2>1. fs[g] \in Frame
      BY <1>8
    <2>2. frames'[g] = IF fs[g].page_id \in D /\ g = FrameOf(fs, fs[g].page_id)
                       THEN [fs[g] EXCEPT !.is_dirty = 0] ELSE fs[g]
      BY <1>7 DEF Cleaned
    <2>3. CASE p \in edited /\ g = f
      <3>1. fs[g].page_id \in D /\ g = FrameOf(fs, fs[g].page_id)
        BY <1>6, <1>8, <1>9, <1>10, <2>3
      <3>2. frames'[g] = [fs[g] EXCEPT !.is_dirty = 0]
        BY <2>2, <3>1
      <3>3. QED
        BY <2>1, <3>2, CleanFields
    <2>4. CASE ~ (p \in edited /\ g = f)
      <3>1. fs[g].is_dirty = 0
        BY <1>6, <1>8, <2>4 DEF IInv, NothingToFlush
      <3>2. ~ (fs[g].page_id \in D /\ g = FrameOf(fs, fs[g].page_id))
        BY <1>9, <1>10, <2>4
      <3>3. frames'[g] = fs[g]
        BY <2>2, <3>2
      <3>4. QED
        BY <2>1, <3>1, <3>3
    <2>5. QED
      BY <2>3, <2>4
  <1>12. frames' \in [Frames -> Frame]
    <2>1. frames' = [g \in Frames |-> frames'[g]]
      BY <1>7 DEF Cleaned
    <2>2. QED
      BY <1>11, <2>1
  <1>13. \A g \in Frames :
            /\ frames'[g].page_id = frames[g].page_id
            /\ frames'[g].is_dirty = 0
            /\ frames'[g].page = frames[g].page
            /\ frames'[g].lru_counter = frames[g].lru_counter
            /\ frames'[g].pin_count = IF g = f THEN frames[g].pin_count - 1
                                               ELSE frames[g].pin_count
    BY <1>2, <1>6, <1>8, <1>11
  <1>14. p \notin edited => file' = file
    BY <1>7, <1>10, NothingWritten DEF IInv, TypeOK
  <1>15. p \in edited =>
            /\ file' \in Seq(Bytes)
            /\ Len(file') = IF p < Len(file) THEN Len(file) ELSE Len(file) + 1
            /\ \A i \in 1 .. Len(file') :
                  file'[i] = IF i = p + 1 THEN frames[f].page ELSE file[i]
    <2>1. fs[FrameOf(fs, p)].page = frames[f].page /\ frames[f].page \in Bytes
      BY <1>2, <1>5, <1>6, <1>8, <1>9, FrameFields
    <2>2. p \in Nat /\ p <= Len(file) /\ file \in Seq(Bytes)
      BY <1>1, PageIds DEF IInv, TypeOK, HeldPagesKnown
    <2>3. p \in edited => file' = Written(fs, file, {p})
      BY <1>7, <1>10
    <2>4. QED
      BY <2>1, <2>2, <2>3, PageWritten
  <1>16. QED
    BY <1>12, <1>13, <1>14, <1>15 DEF f

LEMMA UnpinPageKeeps ==
    ASSUME IInv, NEW p \in Pages, UnpinPage(p)
    PROVE  IInv'
  <1>1. /\ held \in [Pages -> Frames \cup {Nowhere}]
        /\ edited \subseteq HeldPages /\ p \in HeldPages
        /\ file \in Seq(Bytes) /\ Len(file) \in Nat
        /\ frames \in [Frames -> Frame]
    BY DEF IInv, TypeOK, UnpinPage
  <1>2. /\ held' = [held EXCEPT ![p] = Nowhere]
        /\ edited' = edited \ {p}
        /\ next_page_id' = next_page_id /\ indexing' = indexing
    BY DEF UnpinPage
  <1>3. /\ held' \in [Pages -> Frames \cup {Nowhere}]
        /\ \A q \in Pages : held'[q] = IF q = p THEN Nowhere ELSE held[q]
    BY <1>1, <1>2
  <1>4. HeldPages' = HeldPages \ {p}
    BY <1>3 DEF HeldPages
  <1>5. held[p] \in Frames /\ frames[held[p]].page_id = p /\ p \in Nat
    BY <1>1, PageIds DEF HeldPages, IInv, HeldPagesStay
  <1>6. \A g \in Frames :
            /\ frames'[g].page_id = frames[g].page_id
            /\ frames'[g].is_dirty = 0
            /\ frames'[g].page = frames[g].page
            /\ g # held[p] => frames'[g].pin_count = frames[g].pin_count
    BY UnpinPageResult
  <1>7. file' \in Seq(Bytes) /\ Len(file') \in Nat
    BY <1>1, UnpinPageResult
  <1>8. \A i \in 1 .. Len(file') :
            file'[i] = IF i = p + 1 /\ p \in edited THEN frames[held[p]].page
                                                    ELSE file[i]
    <2>1. CASE p \in edited
      BY <2>1, UnpinPageResult
    <2>2. CASE p \notin edited
      BY <2>2, UnpinPageResult
    <2>3. QED
      BY <2>1, <2>2
  <1>9. Len(file') = IF p \in edited /\ p >= Len(file) THEN Len(file) + 1
                                                       ELSE Len(file)
    <2>1. CASE p \in edited
      BY <1>1, <1>5, <2>1, UnpinPageResult
    <2>2. CASE p \notin edited
      BY <2>2, UnpinPageResult
    <2>3. QED
      BY <2>1, <2>2
  <1>10. p <= Len(file)
    BY <1>1 DEF IInv, HeldPagesKnown
  <1>11. TypeOK'
    <2>1. edited' \subseteq HeldPages'
      BY <1>1, <1>2, <1>4
    <2>2. frames' \in [Frames -> Frame]
      BY UnpinPageResult
    <2>3. QED
      BY <1>2, <1>3, <1>7, <2>1, <2>2 DEF IInv, TypeOK
  <1>12. OneFramePerPage' /\ NothingToFlush' /\ NoZeroFrames'
    BY <1>6 DEF IInv, OneFramePerPage, NothingToFlush, NoZeroFrames
  <1>13. HeldPagesStay' /\ HeldPagesKnown'
    <2>1. SUFFICES ASSUME NEW q \in HeldPages'
                   PROVE  /\ frames'[held'[q]].page_id = q
                          /\ frames'[held'[q]].pin_count > 0
                          /\ q <= Len(file')
      BY DEF HeldPagesStay, HeldPagesKnown
    <2>2. /\ q \in HeldPages /\ q # p /\ held'[q] = held[q]
          /\ held[q] \in Frames /\ q \in Nat
      BY <1>1, <1>3, <1>4, PageIds DEF HeldPages
    <2>3. /\ frames[held[q]].page_id = q
          /\ frames[held[q]].pin_count > 0
          /\ q <= Len(file)
      BY <2>2 DEF IInv, HeldPagesStay, HeldPagesKnown
    <2>4. held[q] # held[p]
      BY <1>5, <2>2, <2>3
    <2>5. QED
      BY <1>1, <1>6, <1>9, <2>2, <2>3, <2>4
  <1>14. CachedIsStored'
    <2>1. SUFFICES ASSUME NEW f \in Frames, NEW q \in Pages,
                          frames'[f].page_id = q,
                          q \notin edited', q < Len(file')
                   PROVE  frames'[f].page = file'[q + 1]
      BY DEF CachedIsStored
    <2>2. /\ q \in Nat /\ q + 1 \in 1 .. Len(file')
          /\ frames[f].page_id = q /\ frames'[f].page = frames[f].page
      BY <1>6, <1>7, <2>1, PageIds
    <2>3. CASE q = p /\ p \in edited
      <3>1. f = held[p]
        BY <1>5, <2>2, <2>3, PageIds DEF IInv, OneFramePerPage
      <3>2. QED
        BY <1>8, <2>2, <2>3, <3>1
    <2>4. CASE ~ (q = p /\ p \in edited)
      <3>1. q \notin edited
        BY <1>2, <2>1, <2>4
      <3>2. q < Len(file)
        BY <1>1, <1>5, <1>9, <1>10, <2>1, <2>2, <2>4
      <3>3. file'[q + 1] = file[q + 1]
        BY <1>5, <1>8, <2>2, <2>4
      <3>4. frames[f].page = file[q + 1]
        BY <2>2, <3>1, <3>2 DEF IInv, CachedIsStored
      <3>5. QED
        BY <2>2, <3>3, <3>4
    <2>5. QED
      BY <2>3, <2>4
  <1>15. FileHasAllPages'
    <2>1. next_page_id = IF Len(file) \in edited THEN Len(file) + 1
                                                 ELSE Len(file)
      BY DEF IInv, FileHasAllPages
    <2>2. \A q \in edited : q \in Nat /\ q <= Len(file)
      BY <1>1, PageIds DEF IInv, HeldPagesKnown, HeldPages
    <2>3. Len(file) + 1 \notin edited
      BY <1>1, <2>2
    <2>4. next_page_id' = IF Len(file') \in edited' THEN Len(file') + 1
                                                    ELSE Len(file')
      <3>1. CASE p \in edited /\ p = Len(file)
        BY <1>1, <1>2, <1>9, <2>1, <2>3, <3>1
      <3>2. CASE ~ (p \in edited /\ p = Len(file))
        <4>1. Len(file') = Len(file)
          BY <1>1, <1>5, <1>9, <1>10, <3>2
        <4>2. Len(file) \in edited' <=> Len(file) \in edited
          BY <1>2, <3>2
        <4>3. QED
          BY <1>2, <2>1, <4>1, <4>2
      <3>3. QED
        BY <3>1, <3>2
    <2>5. ASSUME NEW i \in 1 .. Len(file')
          PROVE  file'[i] # Zero
      <3>1. CASE i = p + 1 /\ p \in edited
        BY <1>5, <1>8, <3>1 DEF IInv, NoZeroFrames
      <3>2. CASE ~ (i = p + 1 /\ p \in edited)
        <4>1. i \in 1 .. Len(file)
          BY <1>1, <1>5, <1>7, <1>9, <1>10, <3>2
        <4>2. QED
          BY <1>8, <3>2, <4>1 DEF IInv, FileHasAllPages
      <3>3. QED
        BY <3>1, <3>2
    <2>6. QED
      BY <2>4, <2>5 DEF FileHasAllPages
  <1>16. QED
    BY <1>11, <1>12, <1>13, <1>14, <1>15 DEF IInv

LEMMA LeakPinKeeps ==
    ASSUME IInv, NEW p \in Pages, LeakPin(p)
    PROVE  IInv'
  <1>1. /\ held \in [Pages -> Frames \cup {Nowhere}]
        /\ held' = [held EXCEPT ![p] = Nowhere]
        /\ frames' = frames /\ file' = file /\ next_page_id' = next_page_id
        /\ edited' = edited /\ p \notin edited /\ edited \subseteq HeldPages
        /\ indexing' = indexing
    BY DEF IInv, TypeOK, LeakPin
  <1>2. /\ held' \in [Pages -> Frames \cup {Nowhere}]
        /\ \A q \in Pages : held'[q] = IF q = p THEN Nowhere ELSE held[q]
    BY <1>1
  <1>3. HeldPages' = HeldPages \ {p}
    BY <1>2 DEF HeldPages
  <1>4. TypeOK'
    BY <1>1, <1>2, <1>3 DEF IInv, TypeOK
  <1>5. /\ OneFramePerPage' /\ NothingToFlush' /\ NoZeroFrames'
        /\ CachedIsStored' /\ FileHasAllPages'
    BY <1>1 DEF IInv, OneFramePerPage, NothingToFlush, NoZeroFrames,
       CachedIsStored, FileHasAllPages
  <1>6. HeldPagesStay' /\ HeldPagesKnown'
    <2>1. \A q \in HeldPages' : q \in HeldPages /\ held'[q] = held[q]
      BY <1>2, <1>3 DEF HeldPages
    <2>2. QED
      BY <1>1, <2>1 DEF IInv, HeldPagesStay, HeldPagesKnown
  <1>7. QED
    BY <1>4, <1>5, <1>6 DEF IInv

LEMMA ForgetPagesKeeps ==
    ASSUME IInv, ForgetPages
    PROVE  IInv'
  <1>1. /\ frames \in [Frames -> Frame]
        /\ HeldPages = {} /\ edited = {}
        /\ next_page_id' = next_page_id /\ held' = held /\ edited' = edited
        /\ indexing' = indexing
    BY DEF IInv, TypeOK, ForgetPages
  <1>2. /\ frames' = [f \in Frames |-> [frames[f] EXCEPT !.page_id = NoId]]
        /\ file' = file
    BY NoDirtyPages DEF ForgetPages, buffer_pool_flush_all
  <1>3. ASSUME NEW f \in Frames
        PROVE  /\ frames'[f] \in Frame
               /\ frames'[f].page_id = NoId
               /\ frames'[f].is_dirty = frames[f].is_dirty
               /\ frames'[f].page = frames[f].page
    <2>1. frames[f] \in Frame
      BY <1>1
    <2>2. frames'[f] = [page_id |-> NoId, is_dirty |-> frames[f].is_dirty,
                        pin_count |-> frames[f].pin_count,
                        lru_counter |-> frames[f].lru_counter,
                        page |-> frames[f].page]
      BY <1>2, <2>1, FrameFields
    <2>3. QED
      BY <2>1, <2>2, FrameFields DEF Frame
  <1>4. HeldPages' = {}
    BY <1>1 DEF HeldPages
  <1>5. frames' \in [Frames -> Frame]
    BY <1>2, <1>3
  <1>6. TypeOK'
    BY <1>1, <1>2, <1>4, <1>5 DEF IInv, TypeOK
  <1>7. OneFramePerPage' /\ NothingToFlush' /\ NoZeroFrames'
    BY <1>3 DEF IInv, OneFramePerPage, NothingToFlush, NoZeroFrames
  <1>8. CachedIsStored'
    BY <1>3, PageIds DEF CachedIsStored
  <1>9. HeldPagesStay' /\ HeldPagesKnown' /\ FileHasAllPages'
    BY <1>1, <1>2, <1>4
       DEF IInv, HeldPagesStay, HeldPagesKnown, FileHasAllPages
  <1>10. QED
    BY <1>6, <1>7, <1>8, <1>9 DEF IInv

LEMMA RestartKeeps ==
    ASSUME IInv, Restart
    PROVE  IInv'
  <1>1. /\ frames' = buffer_pool_init /\ next_page_id' = Len(file)
        /\ held' = [p \in Pages |-> Nowhere] /\ edited' = {} /\ file' = file
        /\ indexing' = FALSE
    BY DEF Restart
  <1>2. HeldPages' = {}
    BY <1>1 DEF HeldPages
  <1>3. Len(file) \in 0 .. LastPage + 1
    <2>1. Len(file) \in Nat /\ LastPage \in Nat
          /\ next_page_id \in 0 .. LastPage + 1
      BY PoolAssumption DEF IInv, TypeOK
    <2>2. QED
      BY <2>1 DEF IInv, FileHasAllPages
  <1>4. TypeOK'
    BY <1>1, <1>2, <1>3, FreshPool DEF IInv, TypeOK
  <1>5. /\ OneFramePerPage' /\ NothingToFlush' /\ NoZeroFrames'
        /\ CachedIsStored'
    BY <1>1, FreshPool, PageIds
       DEF OneFramePerPage, NothingToFlush, NoZeroFrames, CachedIsStored
  <1>6. HeldPagesStay' /\ HeldPagesKnown'
    BY <1>2 DEF HeldPagesStay, HeldPagesKnown
  <1>7. FileHasAllPages'
    BY <1>1 DEF IInv, FileHasAllPages
  <1>8. QED
    BY <1>4, <1>5, <1>6, <1>7 DEF IInv

(* The order of the frames.                                                *)

\* It stays when no pin is leaked and no frame gets a page.
LEMMA OrderedStays ==
    ASSUME Ordered, indexing => indexing',
           \A f \in Frames :
              /\ Leaky(f)' <=> Leaky(f)
              /\ frames'[f].lru_counter = 0
              /\ frames'[f].page_id \in {frames[f].page_id, NoId}
    PROVE  Ordered'
  <1>1. CountersAreZero' /\ LeaksFirst'
    BY DEF Ordered, CountersAreZero, LeaksFirst
  <1>2. PagesBehindLeaks'
    BY DEF Ordered, PagesBehindLeaks
  <1>3. CatalogBehindLeaks'
    BY PoolAssumption, PageIds DEF Ordered, CatalogBehindLeaks, Pages
  <1>4. QED
    BY <1>1, <1>2, <1>3 DEF Ordered

\* Two pages are never held in one frame.
LEMMA HeldApart ==
    ASSUME IInv
    PROVE  /\ \A p \in HeldPages : held[p] \in Frames
           /\ \A p, q \in HeldPages : held[p] = held[q] => p = q
  <1>1. \A p \in HeldPages : held[p] \in Frames /\ frames[held[p]].page_id = p
    BY DEF IInv, TypeOK, HeldPagesStay, HeldPages
  <1>2. QED
    BY <1>1

LEMMA InitOrdered == Init => Ordered
  <1> SUFFICES ASSUME Init PROVE Ordered
    OBVIOUS
  <1>1. \A f \in Frames :
            /\ frames[f].page_id = NoId /\ frames[f].pin_count = 0
            /\ frames[f].lru_counter = 0
    BY DEF Init, buffer_pool_init
  <1>2. \A f \in Frames : ~ Leaky(f)
    BY <1>1 DEF Leaky
  <1>3. CatalogPage # NoId
    BY PoolAssumption, PageIds DEF Pages
  <1>4. QED
    BY <1>1, <1>2, <1>3 DEF Ordered, CountersAreZero, LeaksFirst,
       PagesBehindLeaks, CatalogBehindLeaks

\* A fetch of a page that is there adds a pin for the client.
LEMMA GetCachedOrdered ==
    ASSUME IInv, Ordered, NEW p \in Pages, GetCached(p)
    PROVE  Ordered'
  <1>1. PICK f \in Frames : frames[f].page_id = p
    BY DEF GetCached, Cached
  <1>2. FrameOf(frames, p) = f
    BY <1>1, PageIds, FrameOfUnique DEF IInv, OneFramePerPage
  <1>3. /\ frames \in [Frames -> Frame] /\ frames[f] \in Frame
        /\ held \in [Pages -> Frames \cup {Nowhere}]
        /\ held[p] = Nowhere
    BY DEF IInv, TypeOK, GetCached, MayFetch
  <1>4. /\ frames' = [frames EXCEPT ![f] = Pinned(frames[f])]
        /\ held' = [held EXCEPT ![p] = f]
        /\ indexing => indexing'
    BY <1>2 DEF GetCached
  <1>5. /\ Pinned(frames[f]).page_id = frames[f].page_id
        /\ Pinned(frames[f]).pin_count = frames[f].pin_count + 1
        /\ Pinned(frames[f]).lru_counter = 0
    BY <1>3, PinnedFields
  <1>6. \A q \in Pages : held'[q] = IF q = p THEN f ELSE held[q]
    BY <1>3, <1>4
  <1>7. HeldPages' = HeldPages \cup {p}
    BY <1>6, PageIds DEF HeldPages
  <1>8. \A q \in HeldPages : q # p /\ held[q] # f
    BY <1>1, <1>3 DEF HeldPages, IInv, HeldPagesStay
  <1>9. /\ Borrowed(f)' /\ ~ Borrowed(f)
        /\ \A g \in Frames : g # f => (Borrowed(g)' <=> Borrowed(g))
    BY <1>6, <1>7, <1>8 DEF Borrowed, HeldPages
  <1>10. \A g \in Frames :
            /\ frames'[g].page_id = frames[g].page_id
            /\ frames'[g].lru_counter = 0
            /\ frames'[g].pin_count = IF g = f THEN frames[g].pin_count + 1
                                               ELSE frames[g].pin_count
    BY <1>3, <1>4, <1>5 DEF Ordered, CountersAreZero
  <1>11. frames[f].pin_count \in Nat
    BY <1>3, FrameFields
  <1>12. \A g \in Frames : Leaky(g)' <=> Leaky(g)
    BY <1>9, <1>10, <1>11 DEF Leaky
  <1>13. QED
    BY <1>4, <1>10, <1>12, OrderedStays

\* The victim is the first frame without a pin.
LEMMA VictimIsFirst ==
    ASSUME IInv, Ordered, Unpinned(frames) # {}
    PROVE  \A g \in Frames :
              g < find_victim_frame(frames) => frames[g].pin_count > 0
  <1> DEFINE v == find_victim_frame(frames)
  <1>1. {f \in Unpinned(frames) : \A g \in Unpinned(frames) :
             frames[f].lru_counter <= frames[g].lru_counter} = Unpinned(frames)
    <2>1. \A f \in Unpinned(frames) : frames[f].lru_counter = 0
      BY DEF Unpinned, Ordered, CountersAreZero
    <2>2. QED
      BY <2>1
  <1>2. v = Min(Unpinned(frames))
    BY <1>1 DEF find_victim_frame
  <1>3. Unpinned(frames) \subseteq Nat
    BY DEF Unpinned, Frames
  <1>4. v \in Nat /\ \A g \in Unpinned(frames) : v <= g
    BY <1>2, <1>3, MinOfNats
  <1> HIDE DEF v
  <1>5. ASSUME NEW g \in Frames, g < v PROVE frames[g].pin_count > 0
    <2>1. g \notin Unpinned(frames)
      BY <1>4, <1>5 DEF Frames
    <2>2. frames[g].pin_count \in Nat
      BY FrameFields DEF IInv, TypeOK
    <2>3. QED
      BY <2>1, <2>2 DEF Unpinned
  <1>6. QED
    BY <1>5 DEF v

LEMMA GetMissingOrdered ==
    ASSUME IInv, Ordered, NEW p \in Pages, GetMissing(p)
    PROVE  Ordered'
  <1>0. PICK f : f = find_victim_frame(frames)
    OBVIOUS
  <1>1. /\ frames \in [Frames -> Frame]
        /\ held \in [Pages -> Frames \cup {Nowhere}]
        /\ held[p] = Nowhere
        /\ \A q, r \in HeldPages : q = r
        /\ HeldPages = {} \/ CatalogPage # p
    BY DEF IInv, TypeOK, GetMissing, MayFetch
  <1>2. f \in Frames /\ frames[f].pin_count = 0
    BY <1>0, <1>1, VictimIsUnpinned DEF GetMissing
  <1>3. \A g \in Frames : g < f => frames[g].pin_count > 0
    BY <1>0, VictimIsFirst DEF GetMissing
  <1>4. /\ \E b : frames' = [frames EXCEPT ![f] =
                     [page_id |-> p, is_dirty |-> 0, pin_count |-> 1,
                      lru_counter |-> 0, page |-> b]]
        /\ held' = [held EXCEPT ![p] = f]
        /\ indexing' = (indexing \/ HeldPages # {})
    <2>1. buffer_pool_flush(frames[f].page_id, frames) = {}
      BY NoDirtyPages DEF buffer_pool_flush
    <2>2. QED
      BY <1>0, <2>1, NoDirtyPages DEF GetMissing
  <1>5. /\ \A g \in Frames : g # f => frames'[g] = frames[g]
        /\ frames'[f].page_id = p /\ frames'[f].pin_count = 1
        /\ frames'[f].lru_counter = 0
    BY <1>1, <1>2, <1>4
  <1>6. \A q \in Pages : held'[q] = IF q = p THEN f ELSE held[q]
    BY <1>1, <1>4
  <1>7. HeldPages' = HeldPages \cup {p}
    BY <1>2, <1>6, PageIds DEF HeldPages
  <1>8. \A q \in HeldPages : q # p /\ held[q] # f
    BY <1>1, <1>2 DEF HeldPages, IInv, HeldPagesStay
  <1>9. /\ Borrowed(f)' /\ ~ Borrowed(f)
        /\ \A g \in Frames : g # f => (Borrowed(g)' <=> Borrowed(g))
    BY <1>6, <1>7, <1>8 DEF Borrowed, HeldPages
  <1>10. ~ Leaky(f)' /\ ~ Leaky(f)
    BY <1>2, <1>5, <1>9 DEF Leaky
  <1>11. \A g \in Frames : Leaky(g)' <=> Leaky(g)
    BY <1>5, <1>9, <1>10 DEF Leaky
  <1>12. \A g \in Frames : g < f /\ ~ Borrowed(g) => Leaky(g)
    BY <1>3 DEF Leaky
  <1>13. ASSUME NEW g \in Frames, g < f, g < f - 1 \/ ~ indexing'
         PROVE  Leaky(g)
    <2>1. CASE ~ Borrowed(g)
      BY <1>12, <1>13, <2>1
    <2>2. CASE Borrowed(g)
      <3>1. HeldPages # {}
        BY <2>2 DEF Borrowed
      <3>2. g < f - 1 /\ g \in Nat /\ f \in Nat
        <4>1. indexing'
          BY <1>4, <3>1
        <4>2. g < f - 1
          BY <1>13, <4>1
        <4>3. Frames \subseteq Nat
          BY PoolAssumption DEF Frames
        <4>4. QED
          BY <1>2, <4>2, <4>3
      <3>3. g + 1 \in Frames /\ g + 1 < f /\ g + 1 # g
        BY <1>2, <3>2, PoolAssumption DEF Frames
      <3>4. ~ Borrowed(g + 1)
        BY <1>1, <2>2, <3>3 DEF Borrowed
      <3>5. Leaky(g + 1)
        BY <1>12, <3>3, <3>4
      <3>6. QED
        BY <3>2, <3>3, <3>5 DEF Ordered, LeaksFirst
    <2>3. QED
      BY <2>1, <2>2
  <1>14. CountersAreZero' /\ LeaksFirst'
    BY <1>5, <1>11 DEF Ordered, CountersAreZero, LeaksFirst
  <1>15. PagesBehindLeaks'
    <2>1. SUFFICES ASSUME NEW h \in Frames, NEW g \in Frames,
                          frames'[h].page_id # NoId, g < h,
                          g < h - 1 \/ ~ indexing'
                   PROVE  Leaky(g)
      BY <1>11 DEF PagesBehindLeaks
    <2>2. CASE h = f
      BY <1>13, <2>1, <2>2
    <2>3. CASE h # f
      BY <1>4, <1>5, <2>1, <2>3 DEF Ordered, PagesBehindLeaks
    <2>4. QED
      BY <2>2, <2>3
  <1>16. CatalogBehindLeaks'
    <2>1. SUFFICES ASSUME NEW h \in Frames, frames'[h].page_id = CatalogPage
                   PROVE  ~ Leaky(h) /\ \A g \in Frames : g < h => Leaky(g)
      BY <1>11 DEF CatalogBehindLeaks
    <2>2. CASE h = f
      <3>1. HeldPages = {}
        BY <1>1, <1>5, <2>1, <2>2
      <3>2. QED
        BY <1>10, <1>12, <2>2, <3>1 DEF Borrowed
    <2>3. CASE h # f
      BY <1>5, <2>1, <2>3 DEF Ordered, CatalogBehindLeaks
    <2>4. QED
      BY <2>2, <2>3
  <1>17. QED
    BY <1>14, <1>15, <1>16 DEF Ordered

LEMMA EditPageOrdered ==
    ASSUME IInv, Ordered, NEW p \in Pages, NEW b \in Contents, EditPage(p, b)
    PROVE  Ordered'
  <1> DEFINE f == held[p]
  <1>1. /\ frames \in [Frames -> Frame] /\ f \in Frames /\ frames[f] \in Frame
        /\ frames' = [frames EXCEPT ![f] = WithPage(frames[f], b)]
        /\ held' = held /\ indexing' = indexing
    BY DEF IInv, TypeOK, EditPage, HeldPages
  <1>2. /\ WithPage(frames[f], b).page_id = frames[f].page_id
        /\ WithPage(frames[f], b).pin_count = frames[f].pin_count
        /\ WithPage(frames[f], b).lru_counter = frames[f].lru_counter
    BY <1>1, WithPageFields DEF Bytes
  <1> HIDE DEF f
  <1>3. \A g \in Frames :
            /\ frames'[g].page_id = frames[g].page_id
            /\ frames'[g].pin_count = frames[g].pin_count
            /\ frames'[g].lru_counter = 0
    BY <1>1, <1>2 DEF Ordered, CountersAreZero
  <1>4. \A g \in Frames : Leaky(g)' <=> Leaky(g)
    BY <1>1, <1>3 DEF Leaky, Borrowed, HeldPages
  <1>5. QED
    BY <1>1, <1>3, <1>4, OrderedStays

LEMMA SaveCatalogOrdered ==
    ASSUME IInv, Ordered, NEW b \in Contents, SaveCatalog(b)
    PROVE  Ordered'
  <1>0. PICK c : c = held[CatalogPage]
    OBVIOUS
  <1>1. /\ CatalogPage \in Pages /\ HeldPages = {CatalogPage}
        /\ c \in Frames /\ frames[c].page_id = CatalogPage
        /\ frames[c].pin_count > 0
        /\ frames \in [Frames -> Frame]
        /\ held' = held /\ HeldPages' = HeldPages
    BY <1>0, PoolAssumption
       DEF SaveCatalog, HeldPages, IInv, TypeOK, HeldPagesStay, Pages
  <1>2. \A g \in Frames : frames'[g] = Overwritten(g, c, b)
    BY <1>0 DEF SaveCatalog
  <1>3. \A g \in Frames : Borrowed(g) <=> g = c
    BY <1>0, <1>1 DEF Borrowed
  <1>4. \A g \in Frames : Borrowed(g)' <=> Borrowed(g)
    BY <1>1 DEF Borrowed
  <1>5. c \in Nat /\ ~ Leaky(c) /\ \A g \in Frames : g < c => Leaky(g)
    BY <1>1 DEF Ordered, CatalogBehindLeaks, Frames
  <1>6. /\ frames'[c].pin_count = 1 /\ frames'[c].lru_counter = 0
        /\ frames'[c].page_id = CatalogPage
    BY <1>1, <1>2 DEF Overwritten
  <1>7. ASSUME NEW g \in Frames, g > c
        PROVE  /\ frames'[g].page_id = NoId
               /\ ~ Leaky(g)' /\ ~ Leaky(g) /\ frames'[g].lru_counter = 0
    <2>1. ~ Leaky(g)
      BY <1>1, <1>5, <1>7 DEF Ordered, LeaksFirst
    <2>2. frames[g].pin_count \in Nat /\ frames[g].lru_counter = 0
          /\ frames[g] \in Frame
      BY <1>1, FrameFields DEF Ordered, CountersAreZero
    <2>3. frames[g].pin_count = 0 /\ ~ Borrowed(g)
      BY <1>3, <1>5, <1>7, <2>1, <2>2 DEF Leaky
    <2>4. CASE g \in c + 1 .. c + Overrun
      <3>1. frames'[g] = buffer_pool_init[g]
        BY <1>2, <1>5, <1>7, <2>4 DEF Overwritten
      <3>2. QED
        BY <1>4, <2>1, <2>3, <3>1 DEF Leaky, buffer_pool_init
    <2>5. CASE g \notin c + 1 .. c + Overrun
      <3>1. g > c + Overrun /\ g # c
        BY <1>5, <1>7, <2>5, PoolAssumption DEF Frames
      <3>2. frames[g].page_id = NoId
        BY <1>1, <3>1, BehindOverrun
      <3>3. frames'[g] = IF g = c + Overrun + 1
                         THEN WithPage(frames[g], Junk) ELSE frames[g]
        BY <1>2, <2>5, <3>1 DEF Overwritten
      <3>4. /\ WithPage(frames[g], Junk).page_id = frames[g].page_id
            /\ WithPage(frames[g], Junk).pin_count = frames[g].pin_count
            /\ WithPage(frames[g], Junk).lru_counter = frames[g].lru_counter
        BY <2>2, WithPageFields DEF Bytes
      <3>5. QED
        BY <1>4, <2>1, <2>2, <2>3, <3>2, <3>3, <3>4 DEF Leaky
    <2>6. QED
      BY <2>4, <2>5
  <1>8. ASSUME NEW g \in Frames, g < c
        PROVE  /\ frames'[g].lru_counter = 0
               /\ Leaky(g)' /\ Leaky(g)
               /\ frames'[g].page_id = frames[g].page_id
    <2>1. frames'[g] = frames[g]
      BY <1>2, <1>5, <1>8, PoolAssumption DEF Overwritten, Frames
    <2>2. QED
      BY <1>4, <1>5, <1>8, <2>1 DEF Leaky, Ordered, CountersAreZero
  <1>9. ~ Leaky(c)'
    BY <1>3, <1>4, <1>6, <1>1 DEF Leaky
  <1>10. \A g \in Frames : g < c \/ g = c \/ g > c
    BY <1>5 DEF Frames
  <1>11. CountersAreZero' /\ \A g \in Frames : Leaky(g)' <=> g < c
    BY <1>5, <1>6, <1>7, <1>8, <1>9, <1>10 DEF CountersAreZero, Frames
  <1>12. \A g \in Frames : frames'[g].page_id # NoId => g <= c
    BY <1>5, <1>7, <1>10 DEF Frames
  <1>13. LeaksFirst' /\ PagesBehindLeaks'
    BY <1>5, <1>11, <1>12 DEF LeaksFirst, PagesBehindLeaks, Frames
  <1>14. CatalogBehindLeaks'
    <2>1. ASSUME NEW g \in Frames, frames'[g].page_id = CatalogPage
          PROVE  g = c
      <3>1. CatalogPage # NoId
        BY <1>1, PageIds
      <3>2. g < c => frames[g].page_id = CatalogPage
        BY <1>8, <2>1
      <3>3. QED
        BY <1>1, <1>5, <1>7, <1>10, <2>1, <3>1, <3>2
           DEF IInv, OneFramePerPage
    <2>2. QED
      BY <1>11, <2>1, <1>5 DEF CatalogBehindLeaks
  <1>15. QED
    BY <1>11, <1>13, <1>14 DEF Ordered

LEMMA UnpinPageOrdered ==
    ASSUME IInv, Ordered, NEW p \in Pages, UnpinPage(p)
    PROVE  Ordered'
  <1>0. PICK f : f = held[p]
    OBVIOUS
  <1>1. /\ p \in HeldPages /\ held' = [held EXCEPT ![p] = Nowhere]
        /\ held \in [Pages -> Frames \cup {Nowhere}] /\ indexing' = indexing
        /\ frames[f].pin_count > 0 /\ f \in Frames
    BY <1>0 DEF UnpinPage, IInv, TypeOK, HeldPages, HeldPagesStay
  <1>2. \A q \in Pages : held'[q] = IF q = p THEN Nowhere ELSE held[q]
    BY <1>1
  <1>3. HeldPages' = HeldPages \ {p}
    BY <1>2 DEF HeldPages
  <1>4. /\ Borrowed(f) /\ ~ Borrowed(f)'
        /\ \A g \in Frames : g # f => (Borrowed(g)' <=> Borrowed(g))
    BY <1>0, <1>1, <1>2, <1>3, HeldApart DEF Borrowed, HeldPages
  <1>5. \A g \in Frames :
            /\ frames'[g].page_id = frames[g].page_id
            /\ frames'[g].pin_count = IF g = f THEN frames[g].pin_count - 1
                                               ELSE frames[g].pin_count
            /\ frames[g].pin_count \in Nat
    BY <1>0, UnpinPageResult, FrameFields DEF IInv, TypeOK
  <1>6. \A g \in Frames : frames'[g].lru_counter = 0
    BY UnpinPageResult DEF Ordered, CountersAreZero
  <1>7. \A g \in Frames : Leaky(g)' <=> Leaky(g)
    BY <1>1, <1>4, <1>5 DEF Leaky
  <1>8. QED
    BY <1>1, <1>5, <1>6, <1>7, OrderedStays

LEMMA LeakPinOrdered ==
    ASSUME IInv, Ordered, NEW p \in Pages, LeakPin(p)
    PROVE  Ordered'
  <1>0. PICK f : f = held[p]
    OBVIOUS
  <1>1. /\ HeldPages = {p} /\ held' = [held EXCEPT ![p] = Nowhere]
        /\ held \in [Pages -> Frames \cup {Nowhere}]
        /\ frames' = frames /\ indexing' = indexing /\ ~ indexing
        /\ frames[f].pin_count > 0 /\ f \in Frames /\ frames[f].page_id = p
        /\ p # CatalogPage /\ p # NoId
    BY <1>0, PageIds DEF LeakPin, IInv, TypeOK, HeldPages, HeldPagesStay
  <1>2. HeldPages' = {}
    BY <1>1 DEF HeldPages
  <1>3. /\ \A g \in Frames : Borrowed(g) <=> g = f
        /\ \A g \in Frames : ~ Borrowed(g)'
    BY <1>0, <1>1, <1>2 DEF Borrowed
  <1>4. \A g \in Frames : Leaky(g)' <=> g = f \/ Leaky(g)
    BY <1>1, <1>3 DEF Leaky
  <1>5. \A g \in Frames : g < f => Leaky(g)
    BY <1>1 DEF Ordered, PagesBehindLeaks
  <1>6. CountersAreZero' /\ PagesBehindLeaks'
    BY <1>1, <1>4 DEF Ordered, CountersAreZero, PagesBehindLeaks
  <1>7. LeaksFirst'
    BY <1>4, <1>5 DEF Ordered, LeaksFirst
  <1>8. CatalogBehindLeaks'
    BY <1>1, <1>4 DEF Ordered, CatalogBehindLeaks
  <1>9. QED
    BY <1>6, <1>7, <1>8 DEF Ordered

LEMMA ForgetPagesOrdered ==
    ASSUME IInv, Ordered, ForgetPages
    PROVE  Ordered'
  <1>1. /\ frames \in [Frames -> Frame] /\ held' = held /\ indexing' = indexing
        /\ frames' = [f \in Frames |-> [frames[f] EXCEPT !.page_id = NoId]]
    BY NoDirtyPages DEF ForgetPages, buffer_pool_flush_all, IInv, TypeOK
  <1>2. ASSUME NEW f \in Frames
        PROVE  /\ frames'[f].page_id = NoId
               /\ frames'[f].pin_count = frames[f].pin_count
               /\ frames'[f].lru_counter = frames[f].lru_counter
    <2>1. frames[f] \in Frame
      BY <1>1
    <2>2. frames'[f] = [page_id |-> NoId, is_dirty |-> frames[f].is_dirty,
                        pin_count |-> frames[f].pin_count,
                        lru_counter |-> frames[f].lru_counter,
                        page |-> frames[f].page]
      BY <1>1, <2>1, FrameFields
    <2>3. QED
      BY <2>2
  <1>3. \A f \in Frames : Leaky(f)' <=> Leaky(f)
    BY <1>1, <1>2 DEF Leaky, Borrowed, HeldPages
  <1>4. QED
    BY <1>1, <1>2, <1>3, OrderedStays DEF Ordered, CountersAreZero

LEMMA RestartOrdered ==
    ASSUME Restart
    PROVE  Ordered'
  <1>1. \A f \in Frames :
            /\ frames'[f].page_id = NoId /\ frames'[f].pin_count = 0
            /\ frames'[f].lru_counter = 0
    BY DEF Restart, buffer_pool_init
  <1>2. \A f \in Frames : ~ Leaky(f)'
    BY <1>1 DEF Leaky
  <1>3. CatalogPage # NoId
    BY PoolAssumption, PageIds DEF Pages
  <1>4. QED
    BY <1>1, <1>2, <1>3 DEF Ordered, CountersAreZero, LeaksFirst,
       PagesBehindLeaks, CatalogBehindLeaks

LEMMA NextOrdered == IInv /\ Ordered /\ [Next]_vars => Ordered'
  <1> SUFFICES ASSUME IInv, Ordered, [Next]_vars
               PROVE  Ordered'
    OBVIOUS
  <1>1. CASE UNCHANGED vars
    BY <1>1 DEF vars, Ordered, CountersAreZero, LeaksFirst, PagesBehindLeaks,
       CatalogBehindLeaks, Leaky, Borrowed, HeldPages
  <1>2. QED
    BY <1>1, GetCachedOrdered, GetMissingOrdered, EditPageOrdered,
       SaveCatalogOrdered, UnpinPageOrdered, LeakPinOrdered,
       ForgetPagesOrdered, RestartOrdered DEF Next

LEMMA NextIInv == IInv /\ Ordered /\ [Next]_vars => IInv'
  <1> SUFFICES ASSUME IInv, Ordered, [Next]_vars
               PROVE  IInv'
    OBVIOUS
  <1>1. ASSUME NEW p \in Pages, GetCached(p)
        PROVE  IInv'
    BY <1>1, GetCachedKeeps
  <1>2. ASSUME NEW p \in Pages, GetMissing(p)
        PROVE  IInv'
    BY <1>2, GetMissingKeeps
  <1>3. ASSUME NEW p \in Pages, UnpinPage(p)
        PROVE  IInv'
    BY <1>3, UnpinPageKeeps
  <1>4. ASSUME NEW p \in Pages, LeakPin(p)
        PROVE  IInv'
    BY <1>4, LeakPinKeeps
  <1>5. ASSUME NEW p \in Pages, NEW b \in Contents, EditPage(p, b)
        PROVE  IInv'
    BY <1>5, EditPageKeeps
  <1>6. ASSUME NEW b \in Contents, SaveCatalog(b)
        PROVE  IInv'
    BY <1>6, SaveCatalogKeeps
  <1>7. CASE ForgetPages
    BY <1>7, ForgetPagesKeeps
  <1>8. CASE Restart
    BY <1>8, RestartKeeps
  <1>9. CASE UNCHANGED vars
    BY <1>9 DEF vars, IInv, TypeOK, OneFramePerPage, HeldPagesStay,
       CachedIsStored, NothingToFlush, FileHasAllPages, HeldPagesKnown,
       NoZeroFrames, HeldPages
  <1>10. QED
    BY <1>1, <1>2, <1>3, <1>4, <1>5, <1>6, <1>7, <1>8, <1>9 DEF Next

LEMMA SpecIInv == Spec => [](IInv /\ Ordered)
  <1>1. Init => IInv /\ Ordered
    BY InitIInv, InitOrdered
  <1>2. IInv /\ Ordered /\ [Next]_vars => (IInv /\ Ordered)'
    BY NextIInv, NextOrdered
  <1>3. QED
    BY <1>1, <1>2, PTL DEF Spec

\* All the invariants of the pool hold for every pool size, file size and
\* overrun of the catalog: types, one frame per page, held pages stay where the
\* client's pointers say (buffer_pool_get_page), the copy of the catalog ends in
\* no page in use, the pool agrees with the file, nothing is ever left to flush,
\* and the file has all the pages.
THEOREM PoolIsSafe ==
    Spec => [](TypeOK /\ OneFramePerPage /\ HeldPagesStay /\ OverrunHitsNoPage
               /\ CachedIsStored /\ NothingToFlush /\ FileHasAllPages)
  <1>1. Ordered => OverrunHitsNoPage
    BY BehindOverrun DEF OverrunHitsNoPage
  <1>2. IInv /\ Ordered =>
            TypeOK /\ OneFramePerPage /\ HeldPagesStay /\ OverrunHitsNoPage
            /\ CachedIsStored /\ NothingToFlush /\ FileHasAllPages
    BY <1>1 DEF IInv
  <1>3. QED
    BY <1>2, SpecIInv, PTL

-----------------------------------------------------------------------------
(* The refinement.  The two state functions are what BufferPool substitutes *)
(* for the variables of PageStore.                                         *)

Disk == [p \in Pages |-> IF p < Len(file) THEN file[p + 1] ELSE None]

Work == [p \in Pages |-> IF held[p] = Nowhere THEN None
                         ELSE frames[held[p]].page]

\* What the client sees of a page it holds is a page.
WorkIsPages ==
    \A p \in Pages :
        /\ held[p] # Nowhere =>
              /\ Work[p] = frames[held[p]].page
              /\ Work[p] \in Bytes /\ Work[p] # None
              /\ held[p] \in Frames /\ frames[held[p]].page_id = p
              /\ frames[held[p]].pin_count > 0
        /\ held[p] = Nowhere => Work[p] = None

LEMMA WorkPages == IInv => WorkIsPages
  <1> SUFFICES ASSUME IInv, NEW p \in Pages
               PROVE  /\ held[p] # Nowhere =>
                            /\ Work[p] = frames[held[p]].page
                            /\ Work[p] \in Bytes /\ Work[p] # None
                            /\ held[p] \in Frames
                            /\ frames[held[p]].page_id = p
                            /\ frames[held[p]].pin_count > 0
                      /\ held[p] = Nowhere => Work[p] = None
    BY DEF WorkIsPages
  <1>1. None \notin Bytes
    BY PoolAssumption DEF Bytes
  <1>2. CASE held[p] # Nowhere
    <2>1. /\ held[p] \in Frames /\ frames[held[p]].page_id = p
          /\ frames[held[p]].pin_count > 0
      BY <1>2 DEF IInv, TypeOK, HeldPagesStay, HeldPages
    <2>2. frames[held[p]] \in Frame
      BY <2>1 DEF IInv, TypeOK
    <2>3. Work[p] = frames[held[p]].page
      BY <1>2 DEF Work
    <2>4. frames[held[p]].page \in Bytes
      BY <2>2, FrameFields
    <2>5. QED
      BY <1>1, <1>2, <2>1, <2>3, <2>4
  <1>3. CASE held[p] = Nowhere
    BY <1>3 DEF Work
  <1>4. QED
    BY <1>2, <1>3

LEMMA WorkPagesPrimed == IInv' => WorkIsPages'
  BY WorkPages, PTL

\* What a fetch does to the pool: no page that is pinned changes, and the
\* client gets the address of a frame.
LEMMA FetchResult ==
    ASSUME IInv, NEW p \in Pages, GetCached(p) \/ GetMissing(p)
    PROVE  /\ file' = file /\ edited' = edited
           /\ held[p] = Nowhere
           /\ \E f \in Frames : held' = [held EXCEPT ![p] = f]
           /\ \A g \in Frames : frames[g].pin_count > 0 =>
                 frames'[g].page = frames[g].page
  <1>1. held[p] = Nowhere /\ frames \in [Frames -> Frame]
    BY DEF GetCached, GetMissing, MayFetch, IInv, TypeOK
  <1>2. CASE GetCached(p)
    <2>1. PICK f \in Frames : frames[f].page_id = p
      BY <1>2 DEF GetCached, Cached
    <2>2. FrameOf(frames, p) = f
      BY <2>1, PageIds, FrameOfUnique DEF IInv, OneFramePerPage
    <2>3. frames[f] \in Frame
      BY <1>1
    <2>4. Pinned(frames[f]).page = frames[f].page
      BY <2>3, PinnedFields
    <2>5. frames' = [frames EXCEPT ![f] = Pinned(frames[f])]
      BY <1>2, <2>2 DEF GetCached
    <2>6. \A g \in Frames : frames'[g].page = frames[g].page
      BY <1>1, <2>4, <2>5
    <2>7. QED
      BY <1>1, <1>2, <2>2, <2>6 DEF GetCached
  <1>3. CASE GetMissing(p)
    <2> DEFINE f == find_victim_frame(frames)
    <2>1. f \in Frames /\ frames[f].pin_count = 0
      BY <1>1, <1>3, VictimIsUnpinned DEF GetMissing
    <2>2. buffer_pool_flush(frames[f].page_id, frames) = {}
      BY NoDirtyPages DEF buffer_pool_flush
    <2>3. /\ \E r : frames' = [frames EXCEPT ![f] = r]
          /\ file' = file /\ edited' = edited
          /\ held' = [held EXCEPT ![p] = f]
      BY <1>3, <2>2, NoDirtyPages DEF GetMissing
    <2> HIDE DEF f
    <2>4. \A g \in Frames : g # f => frames'[g] = frames[g]
      BY <1>1, <2>3
    <2>5. \A g \in Frames : frames[g].pin_count > 0 => g # f
      BY <2>1
    <2>6. \A g \in Frames : frames[g].pin_count > 0 =>
              frames'[g].page = frames[g].page
      BY <2>4, <2>5
    <2>7. \E g \in Frames : held' = [held EXCEPT ![p] = g]
      BY <2>1, <2>3
    <2>8. QED
      BY <1>1, <2>3, <2>6, <2>7
  <1>4. QED
    BY <1>2, <1>3

LEMMA FetchRefines ==
    ASSUME IInv, IInv', NEW p \in Pages, GetCached(p) \/ GetMissing(p)
    PROVE  Store!Fetch(p)
  <1>1. PICK f \in Frames : held' = [held EXCEPT ![p] = f]
    BY FetchResult
  <1>2. \A q \in Pages : held'[q] = IF q = p THEN f ELSE held[q]
    BY <1>1 DEF IInv, TypeOK
  <1>3. Disk' = Disk
    BY FetchResult DEF Disk
  <1>4. /\ held'[p] = f /\ frames'[f].page_id = p
        /\ Work'[p] = frames'[f].page /\ Work'[p] \in Bytes
    BY <1>2, WorkPagesPrimed, PageIds DEF WorkIsPages
  <1>5. \A q \in Pages : q # p => Work'[q] = Work[q]
    <2>1. SUFFICES ASSUME NEW q \in Pages, q # p
                   PROVE  Work'[q] = Work[q]
      OBVIOUS
    <2>2. held'[q] = held[q]
      BY <1>2, <2>1
    <2>3. CASE held[q] = Nowhere
      BY <2>2, <2>3, WorkPages, WorkPagesPrimed DEF WorkIsPages
    <2>4. CASE held[q] # Nowhere
      <3>1. /\ held[q] \in Frames /\ frames[held[q]].pin_count > 0
            /\ Work[q] = frames[held[q]].page
            /\ Work'[q] = frames'[held[q]].page
        BY <2>2, <2>4, WorkPages, WorkPagesPrimed DEF WorkIsPages
      <3>2. QED
        BY <3>1, FetchResult
    <2>5. QED
      BY <2>3, <2>4
  <1>6. Work' = [Work EXCEPT ![p] = Work'[p]]
    BY <1>5 DEF Work
  <1>7. Work[p] = None
    BY FetchResult, WorkPages DEF WorkIsPages
  <1>8. Disk[p] # None => Work'[p] = Disk[p]
    <2>1. ASSUME p < Len(file)
          PROVE  frames'[f].page = file[p + 1]
      <3>1. p \notin edited' /\ file' = file
        BY FetchIsKnown, FetchResult DEF GetCached, GetMissing
      <3>2. QED
        BY <1>4, <2>1, <3>1 DEF IInv, CachedIsStored
    <2>2. QED
      BY <1>4, <2>1 DEF Disk
  <1>9. QED
    BY <1>3, <1>4, <1>6, <1>7, <1>8 DEF Store!Fetch, Disk, Work

\* A write through the client's pointer reaches that page only.
LEMMA ChangeRefines ==
    ASSUME IInv, IInv', NEW p \in HeldPages, held' = held, file' = file,
           \A q \in HeldPages \ {p} : frames'[held[q]].page = frames[held[q]].page
    PROVE  Store!Change(p)
  <1>1. p \in Pages /\ held[p] # Nowhere
    BY DEF HeldPages
  <1>2. Disk' = Disk
    BY DEF Disk
  <1>3. Work[p] # None /\ Work'[p] \in Bytes
    BY <1>1, WorkPages, WorkPagesPrimed DEF WorkIsPages
  <1>4. Work' = [Work EXCEPT ![p] = Work'[p]]
    BY <1>1 DEF Work, HeldPages
  <1>5. QED
    BY <1>2, <1>3, <1>4 DEF Store!Change, Disk, Work

LEMMA EditPageRefines ==
    ASSUME IInv, IInv', NEW p \in Pages, NEW b \in Contents, EditPage(p, b)
    PROVE  Store!Change(p)
  <1>1. /\ p \in HeldPages /\ held' = held /\ file' = file
        /\ frames' = [frames EXCEPT ![held[p]] = WithPage(frames[held[p]], b)]
    BY DEF EditPage
  <1>2. ASSUME NEW q \in HeldPages \ {p}
        PROVE  frames'[held[q]].page = frames[held[q]].page
    <2>1. held[q] \in Frames /\ held[q] # held[p] /\ frames \in [Frames -> Frame]
      BY <1>1 DEF IInv, TypeOK, HeldPagesStay, HeldPages
    <2>2. QED
      BY <1>1, <2>1
  <1>3. QED
    BY <1>1, <1>2, ChangeRefines

LEMMA SaveCatalogRefines ==
    ASSUME IInv, IInv', NEW b \in Contents, SaveCatalog(b)
    PROVE  Store!Change(CatalogPage)
  <1>1. HeldPages = {CatalogPage} /\ held' = held /\ file' = file
    BY DEF SaveCatalog
  <1>2. QED
    BY <1>1, ChangeRefines

LEMMA WorkPutBack ==
    ASSUME IInv, NEW p \in HeldPages, held' = [held EXCEPT ![p] = Nowhere],
           \A f \in Frames : frames'[f].page = frames[f].page
    PROVE  Work' = [Work EXCEPT ![p] = None]
  <1>1. \A q \in Pages : held'[q] = IF q = p THEN Nowhere ELSE held[q]
    BY DEF IInv, TypeOK
  <1>2. \A q \in Pages : held[q] # Nowhere => held[q] \in Frames
    BY DEF IInv, TypeOK
  <1>3. ASSUME NEW q \in Pages
        PROVE  (IF held'[q] = Nowhere THEN None ELSE frames'[held'[q]].page) =
               IF q = p THEN None
               ELSE IF held[q] = Nowhere THEN None ELSE frames[held[q]].page
    <2>1. CASE q = p
      BY <1>1, <2>1
    <2>2. CASE q # p /\ held[q] = Nowhere
      BY <1>1, <2>2
    <2>3. CASE q # p /\ held[q] # Nowhere
      <3>1. held'[q] = held[q] /\ held[q] \in Frames
        BY <1>1, <1>2, <2>3
      <3>2. frames'[held'[q]].page = frames[held[q]].page
        BY <3>1
      <3>3. QED
        BY <2>3, <3>1, <3>2
    <2>4. QED
      BY <2>1, <2>2, <2>3
  <1>4. Work' = [q \in Pages |-> IF q = p THEN None ELSE Work[q]]
    BY <1>3 DEF Work
  <1>5. QED
    BY <1>4 DEF Work

\* Unpinning a written page stores it; unpinning another, or forgetting to,
\* puts a page back that is as in the file.
LEMMA PutBackRefines ==
    ASSUME IInv, NEW p \in HeldPages, p \notin edited, file' = file,
           held' = [held EXCEPT ![p] = Nowhere],
           \A f \in Frames : frames'[f].page = frames[f].page
    PROVE  Store!Release(p)
  <1>1. p \in Pages /\ held[p] # Nowhere /\ p \in Pages \ edited
    BY DEF HeldPages
  <1>2. Disk' = Disk
    BY DEF Disk
  <1>3. /\ Work[p] # None /\ Work[p] = frames[held[p]].page
        /\ held[p] \in Frames /\ frames[held[p]].page_id = p
    BY <1>1, WorkPages DEF WorkIsPages
  <1>4. Disk[p] # None => Work[p] = Disk[p]
    BY <1>1, <1>3 DEF Disk, IInv, CachedIsStored
  <1>5. Work' = [Work EXCEPT ![p] = None]
    BY WorkPutBack
  <1>6. QED
    BY <1>2, <1>3, <1>4, <1>5 DEF Store!Release, Disk, Work

LEMMA UnpinPageRefines ==
    ASSUME IInv, NEW p \in Pages, UnpinPage(p)
    PROVE  Store!Store(p) \/ Store!Release(p)
  <1>1. /\ p \in HeldPages /\ held' = [held EXCEPT ![p] = Nowhere]
        /\ held[p] # Nowhere
    BY DEF UnpinPage, HeldPages
  <1>2. \A f \in Frames : frames'[f].page = frames[f].page
    BY UnpinPageResult
  <1>3. CASE p \notin edited
    <2>1. file' = file
      BY <1>3, UnpinPageResult
    <2>2. QED
      BY <1>1, <1>2, <1>3, <2>1, PutBackRefines
  <1>4. CASE p \in edited
    <2>1. /\ Len(file') = IF p < Len(file) THEN Len(file) ELSE Len(file) + 1
          /\ \A i \in 1 .. Len(file') :
                file'[i] = IF i = p + 1 THEN frames[held[p]].page ELSE file[i]
      BY <1>4, UnpinPageResult
    <2>2. /\ Len(file) \in Nat /\ p \in Nat /\ p <= Len(file)
          /\ Pages \subseteq Nat
      BY <1>1, PageIds DEF IInv, TypeOK, HeldPagesKnown
    <2>3. Work[p] # None /\ Work[p] = frames[held[p]].page
      BY <1>1, WorkPages DEF WorkIsPages
    <2>4. \A q \in Pages : Disk'[q] = IF q = p THEN Work[p] ELSE Disk[q]
      <3>1. SUFFICES ASSUME NEW q \in Pages
                     PROVE  Disk'[q] = IF q = p THEN Work[p] ELSE Disk[q]
        OBVIOUS
      <3>2. Disk'[q] = IF q < Len(file') THEN file'[q + 1] ELSE None
        BY DEF Disk
      <3>3. CASE q = p
        <4>1. q < Len(file') /\ q + 1 \in 1 .. Len(file')
          BY <2>1, <2>2, <3>3
        <4>2. QED
          BY <2>1, <2>3, <3>2, <3>3, <4>1
      <3>4. CASE q # p
        <4>1. q < Len(file') <=> q < Len(file)
          BY <2>1, <2>2, <3>4
        <4>2. q < Len(file') => file'[q + 1] = file[q + 1]
          <5>1. q < Len(file') => q + 1 \in 1 .. Len(file') /\ q + 1 # p + 1
            BY <2>1, <2>2, <3>4
          <5>2. QED
            BY <2>1, <5>1
        <4>3. QED
          BY <3>2, <3>4, <4>1, <4>2 DEF Disk
      <3>5. QED
        BY <3>3, <3>4
    <2>5. Disk' = [Disk EXCEPT ![p] = Work[p]]
      BY <2>4 DEF Disk
    <2>6. Work' = [Work EXCEPT ![p] = None]
      BY <1>1, <1>2, WorkPutBack
    <2>7. QED
      BY <2>3, <2>5, <2>6 DEF Store!Store, Disk, Work
  <1>5. QED
    BY <1>3, <1>4

LEMMA LeakPinRefines ==
    ASSUME IInv, NEW p \in Pages, LeakPin(p)
    PROVE  Store!Release(p)
  BY PutBackRefines DEF LeakPin

LEMMA ForgetPagesStutters ==
    ASSUME IInv, ForgetPages
    PROVE  Disk' = Disk /\ Work' = Work
  <1>1. file' = file
    BY NoDirtyPages DEF ForgetPages, buffer_pool_flush_all
  <1>2. \A p \in Pages : held[p] = Nowhere /\ held'[p] = Nowhere
    BY DEF ForgetPages, HeldPages
  <1>3. QED
    BY <1>1, <1>2 DEF Disk, Work

\* The pool of buffer.c implements PageStore: whatever is evicted, flushed,
\* leaked, forgotten or lost, a stored page is in the file and a fetch returns
\* what was stored last.
THEOREM PoolImplementsPageStore == Spec => ImplementsPageStore
  <1>1. Init => Store!Init
    <2> SUFFICES ASSUME Init
                 PROVE  Store!Init
      OBVIOUS
    <2>1. \A p \in Pages : ~ (p < Len(file))
      BY PageIds DEF Init
    <2>2. \A p \in Pages : held[p] = Nowhere
      BY DEF Init
    <2>3. QED
      BY <2>1, <2>2 DEF Store!Init
  <1>2. IInv /\ IInv' /\ [Next]_vars => [Store!Next]_(Store!vars)
    <2> SUFFICES ASSUME IInv, IInv', [Next]_vars
                 PROVE  Store!Next \/ UNCHANGED Store!vars
      OBVIOUS
    <2>1. ASSUME NEW p \in Pages, GetCached(p) \/ GetMissing(p)
          PROVE  Store!Next
      BY <2>1, FetchRefines DEF Store!Next
    <2>2. ASSUME NEW p \in Pages, UnpinPage(p) \/ LeakPin(p)
          PROVE  Store!Next
      BY <2>2, UnpinPageRefines, LeakPinRefines DEF Store!Next
    <2>3. ASSUME NEW p \in Pages, NEW b \in Contents, EditPage(p, b)
          PROVE  Store!Next
      BY <2>3, EditPageRefines DEF Store!Next
    <2>4. ASSUME NEW b \in Contents, SaveCatalog(b)
          PROVE  Store!Next
      <3>1. CatalogPage \in Pages
        BY PoolAssumption DEF Pages
      <3>2. QED
        BY <2>4, <3>1, SaveCatalogRefines DEF Store!Next
    <2>5. CASE ForgetPages
      BY <2>5, ForgetPagesStutters DEF Store!vars, Disk, Work
    <2>6. CASE Restart
      <3>1. Store!Restart
        BY <2>6 DEF Restart, Store!Restart
      <3>2. QED
        BY <3>1 DEF Store!Next
    <2>7. CASE UNCHANGED vars
      BY <2>7 DEF vars, Store!vars
    <2>8. QED
      BY <2>1, <2>2, <2>3, <2>4, <2>5, <2>6, <2>7 DEF Next
  <1>3. QED
    BY <1>1, <1>2, SpecIInv, PTL DEF ImplementsPageStore, Store!Spec, Spec

=============================================================================
