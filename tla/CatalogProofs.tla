---------------------------- MODULE CatalogProofs ----------------------------
(***************************************************************************)
(* Proofs about Catalog, for every number of pages and indexes and any     *)
(* number that unset bytes may read as: the pages handed out are distinct, *)
(* and what one table's catalog has in memory it has in the file.          *)
(***************************************************************************)
EXTENDS Catalog, FiniteSetTheorems, TLAPS

\* The number that all roots are above.
Low == IF born = 1 THEN 0 ELSE CatalogPage

\* Tables whose pages are distinct, above low and below limit.
Good(tables, low, limit) ==
    /\ tables \in Seq(Tables)
    /\ Len(tables) <= MaxTables
    /\ Distinct(tables)
    /\ \A t \in DOMAIN tables :
        /\ \A root \in Roots(tables[t]) : low < root /\ root < limit
        /\ IsFiniteSet(tables[t].indexes)
        /\ Cardinality(tables[t].indexes) <= MaxIndexes

\* What is in memory is saved, unless there is a second table whose unset bytes
\* do not read as the catalog's page.
MemoryIsSaved ==
    /\ Len(mem) < 2 \/ unset = CatalogPage => disk = Fitting(mem)
    /\ Len(disk) = 2 => Len(mem) = 2 /\ unset = CatalogPage

Numbers ==
    /\ next_page_id \in Nat /\ fileLength \in Nat /\ unset \in Nat
    /\ born \in 0 .. 2
    /\ strays \subseteq Nat
    /\ next_page_id <= fileLength
    /\ fileLength = 0 \/ Low < fileLength

\* The inductive invariant.
IInv ==
    /\ up \in BOOLEAN
    /\ Numbers
    /\ Good(mem, Low, next_page_id)
    /\ Good(disk, Low, fileLength)
    /\ disk = Fitting(disk)
    /\ up => Low < next_page_id /\ MemoryIsSaved
    /\ ~ up => mem = << >> /\ strays = {}

-----------------------------------------------------------------------------
(* Tables.                                                                  *)

\* A longer file does no harm.
LEMMA GoodStays ==
    ASSUME NEW tables, NEW low \in Nat, NEW limit \in Nat, NEW more \in Nat,
           Good(tables, low, limit), limit <= more
    PROVE  Good(tables, low, more)
<1>1. ASSUME NEW t \in DOMAIN tables, NEW root \in Roots(tables[t])
      PROVE  low < root /\ root < more
  <2>1. tables[t] \in Tables
    BY DEF Good
  <2>2. root \in Nat
    BY <2>1 DEF Tables, Roots
  <2> QED
    BY <2>2, low < root /\ root < limit DEF Good
<1> QED
  BY <1>1 DEF Good

\* There are no bad pages where there are none.
LEMMA EmptyGood ==
    ASSUME NEW low, NEW limit
    PROVE  Good(<< >>, low, limit)
<1>1. DOMAIN << >> = {} /\ << >> \in Seq(Tables) /\ Len(<< >>) = 0
  OBVIOUS
<1> QED
  BY <1>1, CatalogConstants DEF Good, Distinct

\* Page 1 has the roots of the tables, and of their indexes those of the first.
LEMMA FittingFields ==
    ASSUME NEW tables \in Seq(Tables)
    PROVE  /\ Fitting(tables) \in Seq(Tables)
           /\ Len(Fitting(tables)) = Len(tables)
           /\ \A t \in DOMAIN tables :
                /\ Fitting(tables)[t].root = tables[t].root
                /\ Fitting(tables)[t].indexes =
                    IF t = 1 THEN tables[t].indexes ELSE {}
<1>1. \A t \in DOMAIN tables : tables[t] \in Tables
  OBVIOUS
<1>2. ASSUME NEW t \in DOMAIN tables
      PROVE  /\ Fitting(tables)[t] \in Tables
             /\ Fitting(tables)[t].root = tables[t].root
             /\ Fitting(tables)[t].indexes =
                    IF t = 1 THEN tables[t].indexes ELSE {}
  BY <1>1 DEF Fitting, Tables
<1>3. DOMAIN tables = 1 .. Len(tables) /\ Len(tables) \in Nat
  OBVIOUS
<1>4. Fitting(tables) \in [1 .. Len(tables) -> Tables]
  BY <1>2, <1>3 DEF Fitting
<1> QED
  BY <1>2, <1>3, <1>4

LEMMA FittingGood ==
    ASSUME NEW tables, NEW low, NEW limit,
           Good(tables, low, limit)
    PROVE  Good(Fitting(tables), low, limit)
<1> DEFINE fits == Fitting(tables)
<1>1. tables \in Seq(Tables) /\ Len(tables) <= MaxTables
  BY DEF Good
<1>2. /\ fits \in Seq(Tables) /\ Len(fits) = Len(tables)
      /\ DOMAIN fits = DOMAIN tables
      /\ \A t \in DOMAIN tables :
            fits[t].root = tables[t].root
                /\ fits[t].indexes = IF t = 1 THEN tables[t].indexes ELSE {}
  BY <1>1, FittingFields
<1> HIDE DEF fits
<1>3. ASSUME NEW t \in DOMAIN fits
      PROVE  /\ fits[t].root = tables[t].root
             /\ fits[t].indexes \subseteq tables[t].indexes
             /\ Roots(fits[t]) \subseteq Roots(tables[t])
             /\ IsFiniteSet(fits[t].indexes)
             /\ Cardinality(fits[t].indexes) <= MaxIndexes
  <2>1. IsFiniteSet({}) /\ Cardinality({}) = 0
    BY FS_EmptySet
  <2> QED
    BY <1>2, <2>1, CatalogConstants DEF Roots, Good
<1>4. Distinct(fits)
  BY <1>2, <1>3 DEF Distinct, Good
<1>5. Good(fits, low, limit)
  BY <1>1, <1>2, <1>3, <1>4 DEF Good
<1> QED
  BY <1>5 DEF fits

\* CREATE TABLE puts a table behind the others.
LEMMA AppendGood ==
    ASSUME NEW tables, NEW low \in Nat, NEW page \in Nat,
           Good(tables, low, page), low < page, Len(tables) < MaxTables
    PROVE  Good(Append(tables, [root |-> page, indexes |-> {}]),
                low, page + 1)
<1> DEFINE new == [root |-> page, indexes |-> {}]
           all == Append(tables, new)
<1>1. tables \in Seq(Tables) /\ new \in Tables
  BY DEF Good, Tables
<1>2. /\ all \in Seq(Tables) /\ Len(all) = Len(tables) + 1
      /\ DOMAIN all = 1 .. Len(tables) + 1
      /\ DOMAIN tables = 1 .. Len(tables) /\ Len(tables) \in Nat
      /\ \A t \in DOMAIN tables : all[t] = tables[t]
      /\ all[Len(tables) + 1] = new
  BY <1>1
<1>3. Roots(new) = {page} /\ new.indexes = {} /\ new.root = page
  BY DEF Roots
<1>4. IsFiniteSet({}) /\ Cardinality({}) = 0
  BY FS_EmptySet
<1>5. \A t \in DOMAIN tables : \A root \in Roots(tables[t]) :
        root \in Nat /\ low < root /\ root < page
  <2>1. \A t \in DOMAIN tables : tables[t] \in Tables
    BY <1>1
  <2> QED
    BY <2>1 DEF Good, Roots, Tables
<1> HIDE DEF new, all
<1>6. \A t \in DOMAIN all : t \in DOMAIN tables \/ t = Len(tables) + 1
  BY <1>2
<1>7. Distinct(all)
  <2>1. ASSUME NEW t \in DOMAIN all
        PROVE  all[t].root \notin all[t].indexes
    BY <1>2, <1>3, <1>6 DEF Good, Distinct
  <2>2. ASSUME NEW t \in DOMAIN all, NEW u \in DOMAIN all, t # u
        PROVE  Roots(all[t]) \cap Roots(all[u]) = {}
    <3>1. CASE t \in DOMAIN tables /\ u \in DOMAIN tables
      BY <1>2, <2>2, <3>1 DEF Good, Distinct
    <3>2. CASE t \in DOMAIN tables /\ u = Len(tables) + 1
      <4>1. page \notin Roots(tables[t])
        BY <1>5, <3>2
      <4> QED
        BY <1>2, <1>3, <3>2, <4>1
    <3>3. CASE t = Len(tables) + 1 /\ u \in DOMAIN tables
      <4>1. page \notin Roots(tables[u])
        BY <1>5, <3>3
      <4> QED
        BY <1>2, <1>3, <3>3, <4>1
    <3> QED
      BY <1>6, <2>2, <3>1, <3>2, <3>3
  <2> QED
    BY <2>1, <2>2 DEF Distinct
<1>8. ASSUME NEW t \in DOMAIN all
      PROVE  /\ \A root \in Roots(all[t]) : low < root /\ root < page + 1
             /\ IsFiniteSet(all[t].indexes)
             /\ Cardinality(all[t].indexes) <= MaxIndexes
  <2>1. CASE t \in DOMAIN tables
    BY <1>2, <1>5, <2>1 DEF Good
  <2>2. CASE t = Len(tables) + 1
    <3>1. all[t] = new
      BY <1>2, <2>2
    <3>2. \A root \in Roots(all[t]) : low < root /\ root < page + 1
      BY <1>3, <3>1
    <3>3. all[t].indexes = {}
      BY <1>3, <3>1
    <3> QED
      BY <1>4, <3>2, <3>3, CatalogConstants
  <2> QED
    BY <1>6, <2>1, <2>2
<1>9. Len(all) <= MaxTables
  BY <1>2, CatalogConstants
<1>10. Good(all, low, page + 1)
  BY <1>2, <1>7, <1>8, <1>9 DEF Good
<1> QED
  BY <1>10 DEF all, new

\* Another set of indexes for one table.
LEMMA IndexesFields ==
    ASSUME NEW tables \in Seq(Tables), NEW t \in DOMAIN tables,
           NEW indexes \in SUBSET Nat
    PROVE  LET all == [tables EXCEPT ![t].indexes = indexes]
           IN  /\ all \in Seq(Tables)
               /\ Len(all) = Len(tables) /\ DOMAIN all = DOMAIN tables
               /\ \A u \in DOMAIN tables : u # t => all[u] = tables[u]
               /\ all[t].root = tables[t].root /\ all[t].indexes = indexes
<1> DEFINE all == [tables EXCEPT ![t].indexes = indexes]
<1>1. tables[t] \in Tables
  OBVIOUS
<1>2. /\ DOMAIN all = DOMAIN tables
      /\ \A u \in DOMAIN tables : u # t => all[u] = tables[u]
      /\ all[t].root = tables[t].root /\ all[t].indexes = indexes
      /\ all[t] \in Tables
  BY <1>1 DEF Tables
<1>3. DOMAIN tables = 1 .. Len(tables) /\ Len(tables) \in Nat
  OBVIOUS
<1>4. all \in [1 .. Len(tables) -> Tables]
  BY <1>2, <1>3
<1> QED
  BY <1>2, <1>3, <1>4

LEMMA IndexesKeepRoots ==
    ASSUME NEW tables \in Seq(Tables), NEW t \in DOMAIN tables,
           NEW indexes \in SUBSET Nat
    PROVE  /\ [tables EXCEPT ![t].indexes = indexes] \in Seq(Tables)
           /\ DOMAIN [tables EXCEPT ![t].indexes = indexes] = DOMAIN tables
           /\ Len([tables EXCEPT ![t].indexes = indexes]) = Len(tables)
           /\ \A u \in DOMAIN tables :
                [tables EXCEPT ![t].indexes = indexes][u].root = tables[u].root
<1> DEFINE all == [tables EXCEPT ![t].indexes = indexes]
<1>1. /\ all \in Seq(Tables)
      /\ Len(all) = Len(tables) /\ DOMAIN all = DOMAIN tables
      /\ \A u \in DOMAIN tables : u # t => all[u] = tables[u]
      /\ all[t].root = tables[t].root
  BY IndexesFields
<1> HIDE DEF all
<1>2. \A u \in DOMAIN tables : all[u].root = tables[u].root
  BY <1>1
<1>3. /\ all \in Seq(Tables) /\ DOMAIN all = DOMAIN tables
      /\ Len(all) = Len(tables)
      /\ \A u \in DOMAIN tables : all[u].root = tables[u].root
  BY <1>1, <1>2
<1> QED
  BY <1>3 DEF all

\* CREATE INDEX.
LEMMA AddIndexGood ==
    ASSUME NEW tables, NEW low \in Nat, NEW page \in Nat,
           Good(tables, low, page), low < page,
           NEW t \in DOMAIN tables,
           Cardinality(tables[t].indexes) < MaxIndexes
    PROVE  Good([tables EXCEPT ![t].indexes = @ \cup {page}],
                low, page + 1)
<1> DEFINE indexes == tables[t].indexes \cup {page}
           all == [tables EXCEPT ![t].indexes = indexes]
<1>1. tables \in Seq(Tables) /\ tables[t] \in Tables
  BY DEF Good
<1>2. indexes \in SUBSET Nat
  BY <1>1 DEF Tables
<1>3. /\ all \in Seq(Tables)
      /\ Len(all) = Len(tables) /\ DOMAIN all = DOMAIN tables
      /\ \A u \in DOMAIN tables : u # t => all[u] = tables[u]
      /\ all[t].root = tables[t].root /\ all[t].indexes = indexes
  BY <1>1, <1>2, IndexesFields
<1>4. \A u \in DOMAIN tables : \A root \in Roots(tables[u]) :
        root \in Nat /\ low < root /\ root < page
  <2>1. \A u \in DOMAIN tables : tables[u] \in Tables
    BY <1>1
  <2> QED
    BY <2>1 DEF Good, Roots, Tables
<1>5. Roots(all[t]) = Roots(tables[t]) \cup {page}
  BY <1>3 DEF Roots
<1>6. /\ IsFiniteSet(indexes)
      /\ Cardinality(indexes) <= MaxIndexes
  <2>1. IsFiniteSet(tables[t].indexes) /\ Cardinality(tables[t].indexes) \in Nat
    BY FS_CardinalityType DEF Good
  <2>2. page \notin tables[t].indexes
    BY <1>4 DEF Roots
  <2>3. /\ IsFiniteSet(indexes)
        /\ Cardinality(indexes) = Cardinality(tables[t].indexes) + 1
    BY <2>1, <2>2, FS_AddElement
  <2> QED
    BY <2>1, <2>3, CatalogConstants
<1>7. page # tables[t].root
  BY <1>4 DEF Roots
<1> HIDE DEF all
<1>8. Distinct(all)
  <2>1. \A u \in DOMAIN all : all[u].root \notin all[u].indexes
    BY <1>3, <1>7 DEF Good, Distinct
  <2>2. ASSUME NEW u \in DOMAIN all, NEW v \in DOMAIN all, u # v
        PROVE  Roots(all[u]) \cap Roots(all[v]) = {}
    <3>1. Roots(tables[u]) \cap Roots(tables[v]) = {}
      BY <1>3, <2>2 DEF Good, Distinct
    <3>2. page \notin Roots(tables[u]) /\ page \notin Roots(tables[v])
      BY <1>3, <1>4, <2>2
    <3> QED
      BY <1>3, <1>5, <2>2, <3>1, <3>2
  <2> QED
    BY <2>1, <2>2 DEF Distinct
<1>9. ASSUME NEW u \in DOMAIN all
      PROVE  /\ \A root \in Roots(all[u]) : low < root /\ root < page + 1
             /\ IsFiniteSet(all[u].indexes)
             /\ Cardinality(all[u].indexes) <= MaxIndexes
  <2>1. CASE u # t
    BY <1>3, <1>4, <2>1 DEF Good
  <2>2. CASE u = t
    <3>1. \A root \in Roots(all[t]) : low < root /\ root < page + 1
      BY <1>4, <1>5
    <3> QED
      BY <1>3, <1>6, <2>2, <3>1
  <2> QED
    BY <2>1, <2>2
<1>10. Good(all, low, page + 1)
  BY <1>3, <1>8, <1>9 DEF Good
<1> QED
  BY <1>10 DEF all, indexes

\* DROP INDEX.
LEMMA DropIndexGood ==
    ASSUME NEW tables, NEW low, NEW limit,
           Good(tables, low, limit),
           NEW t \in DOMAIN tables, NEW page
    PROVE  Good([tables EXCEPT ![t].indexes = @ \ {page}], low, limit)
<1> DEFINE indexes == tables[t].indexes \ {page}
           all == [tables EXCEPT ![t].indexes = indexes]
<1>1. tables \in Seq(Tables) /\ tables[t] \in Tables
  BY DEF Good
<1>2. indexes \in SUBSET Nat
  BY <1>1 DEF Tables
<1>3. /\ all \in Seq(Tables)
      /\ Len(all) = Len(tables) /\ DOMAIN all = DOMAIN tables
      /\ \A u \in DOMAIN tables : u # t => all[u] = tables[u]
      /\ all[t].root = tables[t].root /\ all[t].indexes = indexes
  BY <1>1, <1>2, IndexesFields
<1>4. IsFiniteSet(indexes) /\ Cardinality(indexes) <= MaxIndexes
  <2>1. /\ IsFiniteSet(tables[t].indexes)
        /\ Cardinality(tables[t].indexes) <= MaxIndexes
        /\ Cardinality(tables[t].indexes) \in Nat
    BY FS_CardinalityType DEF Good
  <2>2. /\ IsFiniteSet(indexes) /\ Cardinality(indexes) \in Nat
        /\ Cardinality(indexes) <= Cardinality(tables[t].indexes)
    BY <2>1, FS_Subset, FS_CardinalityType
  <2> QED
    BY <2>1, <2>2, CatalogConstants
<1> HIDE DEF all
<1>5. \A u \in DOMAIN all :
        /\ all[u].root = tables[u].root
        /\ all[u].indexes \subseteq tables[u].indexes
        /\ Roots(all[u]) \subseteq Roots(tables[u])
  BY <1>3 DEF Roots
<1>6. Distinct(all)
  BY <1>3, <1>5 DEF Good, Distinct
<1>7. ASSUME NEW u \in DOMAIN all
      PROVE  /\ \A root \in Roots(all[u]) : low < root /\ root < limit
             /\ IsFiniteSet(all[u].indexes)
             /\ Cardinality(all[u].indexes) <= MaxIndexes
  BY <1>3, <1>4, <1>5 DEF Good
<1>8. Good(all, low, limit)
  BY <1>3, <1>6, <1>7 DEF Good
<1> QED
  BY <1>8 DEF all, indexes

-----------------------------------------------------------------------------
(* The inductive invariant.                                                 *)

\* Where page 1 ends, it ends: what is on it once fits.
LEMMA FittingTwice ==
    ASSUME NEW tables \in Seq(Tables)
    PROVE  Fitting(Fitting(tables)) = Fitting(tables)
<1>1. \A t \in DOMAIN tables : tables[t] \in Tables
  OBVIOUS
<1>2. \A t \in DOMAIN tables :
        Fitting(Fitting(tables))[t] = Fitting(tables)[t]
  BY <1>1 DEF Fitting, Tables
<1> QED
  BY <1>2 DEF Fitting

LEMMA EmptyFits == Fitting(<< >>) = << >>
<1>1. DOMAIN << >> = {}
  OBVIOUS
<1>2. DOMAIN Fitting(<< >>) = {}
  BY <1>1 DEF Fitting
<1>3. Fitting(<< >>) \in Seq(Tables) /\ Len(Fitting(<< >>)) = 0
  BY FittingFields, << >> \in Seq(Tables), Len(<< >>) = 0
<1> QED
  BY <1>3

LEMMA InitInv == Init => IInv
<1> SUFFICES ASSUME Init PROVE IInv
  OBVIOUS
<1>1. up \in BOOLEAN
  BY DEF Init
<1>2. Numbers
  BY DEF Init, Numbers, Low, CatalogPage
<1>3. Good(mem, Low, next_page_id) /\ Good(disk, Low, fileLength)
  BY EmptyGood DEF Init
<1>4. disk = Fitting(disk)
  BY EmptyFits DEF Init
<1> QED
  BY <1>1, <1>2, <1>3, <1>4 DEF Init, IInv

\* A save leaves good tables in the file, and those that were copied when they fit.
LEMMA SaveGood ==
    ASSUME NEW tables, NEW low \in Nat, NEW limit \in Nat, NEW length \in Nat,
           NEW id \in Nat,
           Good(tables, low, limit), limit <= length,
           Good(disk, low, length), strays \subseteq Nat,
           disk = Fitting(disk),
           Len(disk) = 2 => Len(tables) = 2 /\ id = CatalogPage,
           Save(tables, id)
    PROVE  /\ Good(disk', low, length)
           /\ disk' = Fitting(disk')
           /\ strays' \subseteq Nat
           /\ Len(tables) < 2 \/ id = CatalogPage => disk' = Fitting(tables)
           /\ Len(disk') = 2 => Len(tables) = 2 /\ id = CatalogPage
<1>1. Good(Fitting(tables), low, length)
  BY FittingGood, GoodStays
<1>2. tables \in Seq(Tables) /\ Len(tables) \in Nat
  BY DEF Good
<1>3. Fitting(Fitting(tables)) = Fitting(tables)
  BY <1>2, FittingTwice
<1>4. Len(Fitting(tables)) = Len(tables)
  BY <1>2, FittingFields
<1>5. strays' \subseteq Nat
  BY DEF Save, FrameId, CatalogPage
<1>6. CASE Len(tables) < 2 \/ id = CatalogPage
  <2>1. disk' = Fitting(tables)
    BY <1>6 DEF Save, FrameId
  <2>2. Good(disk', low, length)
    BY <1>1, <2>1, Zenon
  <2>3. disk' = Fitting(disk')
    BY <1>3, <2>1, Zenon
  <2>4. Len(disk') = 2 => Len(tables) = 2 /\ id = CatalogPage
    <3>1. Len(disk') = Len(tables)
      BY <1>4, <2>1, Zenon
    <3> QED
      BY <1>2, <1>6, <3>1
  <2> QED
    BY <1>5, <2>1, <2>2, <2>3, <2>4, Zenon
<1>7. CASE ~ (Len(tables) < 2 \/ id = CatalogPage)
  <2>1. disk' = disk
    BY <1>7 DEF Save, FrameId
  <2> QED
    BY <1>5, <1>7, <2>1
<1> QED
  BY <1>6, <1>7

\* A death leaves what is in the file.
LEMMA ForgetInv ==
    ASSUME Forget, Numbers, born' = born, Low < fileLength,
           fileLength' \in Nat, fileLength <= fileLength',
           Good(disk', Low, fileLength'), disk' = Fitting(disk')
    PROVE  IInv'
<1>1. up' = FALSE /\ mem' = << >> /\ next_page_id' = 0 /\ strays' = {}
      /\ unset' = CatalogPage /\ Low' = Low
  BY DEF Forget, Low
<1>2. Numbers'
  <2>1. Low \in Nat /\ Low < fileLength'
    BY DEF Numbers, Low, CatalogPage
  <2>2. /\ next_page_id' \in Nat /\ unset' \in Nat /\ strays' \subseteq Nat
        /\ next_page_id' <= fileLength'
    BY <1>1 DEF CatalogPage
  <2> QED
    BY <1>1, <2>1, <2>2 DEF Numbers
<1>3. Good(mem', Low', next_page_id')
  BY <1>1, EmptyGood
<1> QED
  BY <1>1, <1>2, <1>3 DEF IInv

\* A load of what the file has.
LEMMA LoadInv ==
    ASSUME NEW tables, Load(tables), Numbers, fileLength > 0,
           Good(tables, Low, fileLength),
           Good(disk, Low, fileLength),
           disk = Fitting(disk), disk = Fitting(tables),
           UNCHANGED <<disk, fileLength, born>>
    PROVE  IInv'
<1>1. up' = TRUE /\ mem' = tables /\ next_page_id' = fileLength /\ strays' = {}
      /\ unset' = CatalogPage /\ Low' = Low
  BY DEF Load, Low
<1>2. Numbers' /\ Low' < next_page_id'
  BY <1>1 DEF Numbers, Low, CatalogPage
<1>3. Len(disk) = Len(tables)
  BY FittingFields DEF Good
<1>4. MemoryIsSaved'
  BY <1>1, <1>3 DEF MemoryIsSaved
<1> QED
  BY <1>1, <1>2, <1>4 DEF IInv

\* A statement that changes the tables and saves them.
LEMMA SavedInv ==
    ASSUME IInv, up, up' = TRUE, born' = born,
           unset' \in Nat, next_page_id' \in Nat, fileLength' \in Nat,
           next_page_id <= next_page_id', next_page_id' <= fileLength',
           fileLength <= fileLength',
           Good(mem', Low, next_page_id'),
           Len(disk) = 2 => Len(mem') = 2 /\ unset' = CatalogPage,
           Save(mem', unset')
    PROVE  IInv'
<1>1. Low' = Low /\ Low \in Nat /\ Low < next_page_id
  BY DEF IInv, Numbers, Low, CatalogPage
<1>2. Good(disk, Low, fileLength')
  BY <1>1, GoodStays DEF IInv, Numbers
<1>3. /\ Good(disk', Low, fileLength')
      /\ disk' = Fitting(disk')
      /\ strays' \subseteq Nat
      /\ Len(mem') < 2 \/ unset' = CatalogPage => disk' = Fitting(mem')
      /\ Len(disk') = 2 => Len(mem') = 2 /\ unset' = CatalogPage
  BY <1>1, <1>2, SaveGood DEF IInv, Numbers
<1>4. Numbers' /\ Low' < next_page_id'
  BY <1>1, <1>3 DEF IInv, Numbers
<1>5. MemoryIsSaved'
  BY <1>3 DEF MemoryIsSaved
<1> QED
  BY <1>1, <1>3, <1>4, <1>5 DEF IInv

LEMMA LongestIsBound ==
    ASSUME NEW m \in Nat, NEW n \in Nat
    PROVE  Longest(m, n) \in Nat /\ m <= Longest(m, n) /\ n <= Longest(m, n)
BY DEF Longest

LEMMA OpenNewInv == IInv /\ OpenNew => IInv'
<1> SUFFICES ASSUME IInv, OpenNew PROVE IInv'
  OBVIOUS
<1>1. PICK made \in 0 .. 2 :
        /\ up' = (made = 2)
        /\ next_page_id' = IF made = 2 THEN made ELSE 0
        /\ fileLength' = made
        /\ born' = made
  BY DEF OpenNew
<1>2. /\ mem = << >> /\ mem' = << >> /\ disk' = disk
      /\ fileLength = 0 /\ strays = {} /\ strays' = {} /\ unset' = unset
  BY DEF OpenNew, IInv
<1>3. disk = << >>
  <2>1. disk \in Seq(Tables)
    BY DEF IInv, Good
  <2>2. ASSUME NEW t \in DOMAIN disk PROVE FALSE
    <3>1. disk[t] \in Tables
      BY <2>1
    <3>2. disk[t].root < 0
      BY <1>2 DEF IInv, Good, Roots
    <3> QED
      BY <3>1, <3>2 DEF Tables
  <2>3. DOMAIN disk = 1 .. Len(disk) /\ Len(disk) \in Nat
    BY <2>1
  <2>4. Len(disk) = 0
    BY <2>2, <2>3
  <2> QED
    BY <2>1, <2>4
<1>4. /\ Good(mem', Low', next_page_id')
      /\ Good(disk', Low', fileLength')
  BY <1>2, <1>3, EmptyGood
<1>5. Numbers'
  BY <1>1, <1>2 DEF IInv, Numbers, Low, CatalogPage
<1>6. up' \in BOOLEAN
  BY <1>1
<1>7. up' => made = 2
  BY <1>1, Zenon
<1>8. made = 2 => Low' < next_page_id'
  BY <1>1 DEF Low, CatalogPage
<1>9. disk' = Fitting(disk') /\ MemoryIsSaved'
  BY <1>2, <1>3, EmptyFits, Len(<< >>) = 0 DEF MemoryIsSaved
<1> QED
  BY <1>2, <1>4, <1>5, <1>6, <1>7, <1>8, <1>9, Zenon DEF IInv

LEMMA OpenOldInv == IInv /\ OpenOld => IInv'
BY LoadInv DEF OpenOld, IInv

\* What is left of the copy in memory makes the tables as they were.
LEMMA RollbackInv == IInv /\ Rollback => IInv'
<1> SUFFICES ASSUME IInv, Rollback PROVE IInv'
  OBVIOUS
<1>1. PICK tables \in Loaded : Load(tables)
  BY DEF Rollback
<1>2. UNCHANGED <<disk, fileLength, born>> /\ up
  BY DEF Rollback
<1>3. fileLength > 0
  BY <1>2 DEF IInv, Numbers, Low, CatalogPage
<1>4. CASE tables = disk
  BY <1>1, <1>2, <1>3, <1>4, LoadInv DEF IInv
<1>5. CASE Len(disk) = 2 /\ tables = [disk EXCEPT ![2].indexes = mem[2].indexes]
  <2>1. Len(mem) = 2 /\ disk = Fitting(mem)
    BY <1>2, <1>5 DEF IInv, MemoryIsSaved
  <2>2. mem \in Seq(Tables) /\ DOMAIN mem = {1, 2}
    BY <2>1 DEF IInv, Good
  <2>3. mem[1] \in Tables /\ mem[2] \in Tables
    BY <2>2
  <2>4. DOMAIN tables = {1, 2} /\ tables[1] = mem[1] /\ tables[2] = mem[2]
    BY <1>5, <2>1, <2>2, <2>3 DEF Fitting, Tables
  <2>5. tables \in Seq(Tables)
    <3>1. disk \in Seq(Tables) /\ 2 \in DOMAIN disk
      BY <1>5 DEF IInv, Good
    <3>2. mem[2].indexes \in SUBSET Nat
      BY <2>3 DEF Tables
    <3>3. \A indexes \in SUBSET Nat :
            [disk EXCEPT ![2].indexes = indexes] \in Seq(Tables)
      BY <3>1, IndexesFields
    <3> QED
      BY <1>5, <3>2, <3>3, Zenon
  <2>6. tables = mem
    BY <2>2, <2>4, <2>5
  <2>7. Good(tables, Low, fileLength)
    BY <2>6, GoodStays DEF IInv, Numbers, Low, CatalogPage
  <2> QED
    BY <1>1, <1>2, <1>3, <2>1, <2>6, <2>7, LoadInv DEF IInv
<1> QED
  BY <1>1, <1>4, <1>5 DEF Loaded

LEMMA CreateTableInv == IInv /\ CreateTable => IInv'
<1> SUFFICES ASSUME IInv, CreateTable PROVE IInv'
  OBVIOUS
<1>1. /\ up /\ Len(mem) < MaxTables
      /\ fileLength' = Longest(fileLength, next_page_id + 1)
      /\ born' = born
  BY DEF CreateTable
<1>2. /\ Low \in Nat /\ Low < next_page_id
      /\ next_page_id \in Nat /\ fileLength \in Nat /\ unset \in Nat
  BY <1>1 DEF IInv, Numbers, Low, CatalogPage
<1>3. /\ fileLength' \in Nat /\ fileLength <= fileLength'
      /\ next_page_id + 1 <= fileLength' /\ Low < fileLength
  BY <1>1, <1>2, LongestIsBound DEF IInv, Numbers
<1>4. CASE Forget /\ UNCHANGED disk
  <2>1. Good(disk', Low, fileLength')
    BY <1>1, <1>2, <1>3, <1>4, GoodStays DEF IInv
  <2> QED
    BY <1>1, <1>2, <1>3, <1>4, <2>1, ForgetInv DEF IInv
<1>5. ASSUME NEW id \in IF Len(mem) = 1 THEN UnsetIds ELSE {unset},
             mem' = Append(mem, [root |-> next_page_id, indexes |-> {}]),
             next_page_id' = next_page_id + 1,
             unset' = id,
             Save(mem', id),
             UNCHANGED up
      PROVE  IInv'
  <2>1. id \in Nat
    BY <1>2, <1>5, CatalogConstants
  <2>2. Good(mem', Low, next_page_id')
    BY <1>1, <1>2, <1>5, AppendGood DEF IInv
  <2>3. Len(disk) # 2
    BY <1>1, CatalogConstants DEF IInv, MemoryIsSaved
  <2>4. up' = TRUE
    BY <1>1, <1>5 DEF IInv
  <2> QED
    BY <1>1, <1>2, <1>3, <1>5, <2>1, <2>2, <2>3, <2>4, SavedInv
<1> QED
  BY <1>4, <1>5 DEF CreateTable

LEMMA CreateIndexInv ==
    ASSUME IInv, NEW t \in DOMAIN mem, CreateIndex(t)
    PROVE  IInv'
<1>1. /\ up /\ Cardinality(mem[t].indexes) < MaxIndexes
      /\ fileLength' = Longest(fileLength, next_page_id + 1)
      /\ born' = born
  BY DEF CreateIndex
<1>2. /\ Low \in Nat /\ Low < next_page_id
      /\ next_page_id \in Nat /\ fileLength \in Nat /\ unset \in Nat
  BY <1>1 DEF IInv, Numbers, Low, CatalogPage
<1>3. /\ fileLength' \in Nat /\ fileLength <= fileLength'
      /\ next_page_id + 1 <= fileLength' /\ Low < fileLength
  BY <1>1, <1>2, LongestIsBound DEF IInv, Numbers
<1>4. CASE Forget /\ UNCHANGED disk
  <2>1. Good(disk', Low, fileLength')
    BY <1>1, <1>2, <1>3, <1>4, GoodStays DEF IInv
  <2> QED
    BY <1>1, <1>2, <1>3, <1>4, <2>1, ForgetInv DEF IInv
<1>5. CASE /\ mem' = [mem EXCEPT ![t].indexes = @ \cup {next_page_id}]
           /\ next_page_id' = next_page_id + 1
           /\ Save(mem', unset)
           /\ UNCHANGED <<up, unset>>
  <2>1. Good(mem', Low, next_page_id')
    BY <1>1, <1>2, <1>5, AddIndexGood DEF IInv
  <2>2. Len(mem') = Len(mem)
    <3>1. mem \in Seq(Tables) /\ mem' \in Seq(Tables) /\ DOMAIN mem' = DOMAIN mem
      BY <1>5, <2>1 DEF IInv, Good
    <3> QED
      BY <3>1
  <2>3. Len(disk) = 2 => Len(mem') = 2 /\ unset' = CatalogPage
    BY <1>1, <1>5, <2>2 DEF IInv, MemoryIsSaved
  <2>4. up' = TRUE
    BY <1>1, <1>5 DEF IInv
  <2> QED
    BY <1>1, <1>2, <1>3, <1>5, <2>1, <2>3, <2>4, SavedInv
<1> QED
  BY <1>4, <1>5 DEF CreateIndex

LEMMA DropIndexInv ==
    ASSUME IInv, NEW t \in DOMAIN mem, NEW page, DropIndex(t, page)
    PROVE  IInv'
<1>1. /\ up /\ mem' = [mem EXCEPT ![t].indexes = @ \ {page}]
      /\ Save(mem', unset)
      /\ UNCHANGED <<up, next_page_id, unset, fileLength, born>>
  BY DEF DropIndex
<1>2. Good(mem', Low, next_page_id')
  BY <1>1, DropIndexGood DEF IInv
<1>3. Len(mem') = Len(mem)
  <2>1. mem \in Seq(Tables) /\ mem' \in Seq(Tables) /\ DOMAIN mem' = DOMAIN mem
    BY <1>1, <1>2 DEF IInv, Good
  <2> QED
    BY <2>1
<1>4. Len(disk) = 2 => Len(mem') = 2 /\ unset' = CatalogPage
  BY <1>1, <1>3 DEF IInv, MemoryIsSaved
<1>5. up' = TRUE
  BY <1>1 DEF IInv
<1> QED
  BY <1>1, <1>2, <1>4, <1>5, SavedInv DEF IInv, Numbers

LEMMA WriteStrayInv ==
    ASSUME IInv, NEW id \in strays, WriteStray(id)
    PROVE  IInv'
<1>1. /\ strays' = strays \ {id}
      /\ fileLength' = Longest(fileLength, id + 1)
      /\ UNCHANGED <<up, mem, next_page_id, unset, disk, born>>
  BY DEF WriteStray
<1>2. Low' = Low /\ Low \in Nat /\ id \in Nat /\ Low < fileLength
  BY <1>1 DEF IInv, Numbers, Low, CatalogPage
<1>3. fileLength' \in Nat /\ fileLength <= fileLength'
  BY <1>1, <1>2, LongestIsBound DEF IInv, Numbers
<1>4. Numbers'
  BY <1>1, <1>2, <1>3 DEF IInv, Numbers
<1>5. Good(disk', Low', fileLength')
  BY <1>1, <1>2, <1>3, GoodStays DEF IInv, Numbers
<1>6. MemoryIsSaved => MemoryIsSaved'
  BY <1>1 DEF MemoryIsSaved
<1> QED
  BY <1>1, <1>2, <1>4, <1>5, <1>6 DEF IInv

LEMMA CloseInv == IInv /\ Close => IInv'
<1> SUFFICES ASSUME IInv, Close PROVE IInv'
  OBVIOUS
<1>1. /\ up /\ Forget /\ born' = born
      /\ fileLength' = Longest(fileLength, CatalogPage + 1)
      /\ disk' = disk \/ disk' = Fitting(mem)
  BY DEF Close
<1>2. /\ fileLength' \in Nat /\ fileLength <= fileLength'
      /\ Low \in Nat /\ Low < fileLength
  BY <1>1, LongestIsBound DEF IInv, Numbers, Low, CatalogPage
<1>3. Good(disk, Low, fileLength') /\ Good(mem, Low, fileLength')
  BY <1>2, GoodStays DEF IInv, Numbers
<1>4. Good(disk', Low, fileLength')
  BY <1>1, <1>3, FittingGood
<1>5. disk' = Fitting(disk')
  BY <1>1, FittingTwice DEF IInv, Good
<1> QED
  BY <1>1, <1>2, <1>4, <1>5, ForgetInv DEF IInv, Numbers

LEMMA KillInv == IInv /\ Kill => IInv'
<1> SUFFICES ASSUME IInv, Kill PROVE IInv'
  OBVIOUS
<1>1. Low < fileLength
  BY DEF Kill, IInv, Numbers, Low, CatalogPage
<1> QED
  BY <1>1, ForgetInv DEF Kill, IInv, Numbers

LEMMA StepInv == IInv /\ [Next]_vars => IInv'
<1> SUFFICES ASSUME IInv, [Next]_vars PROVE IInv'
  OBVIOUS
<1>1. CASE Next
  BY <1>1, OpenNewInv, OpenOldInv, RollbackInv, CreateTableInv, CreateIndexInv,
     DropIndexInv, WriteStrayInv, CloseInv, KillInv DEF Next
<1>2. CASE UNCHANGED vars
  BY <1>2 DEF vars, memory, IInv, Numbers, Low, Good, MemoryIsSaved
<1> QED
  BY <1>1, <1>2

-----------------------------------------------------------------------------
(* The theorems.                                                            *)

\* The invariant holds in every state.
THEOREM InvariantHolds == Spec => []IInv
<1> QED
  BY InitInv, StepInv, PTL DEF Spec

\* TypeOK: the array of the indexes of a table is never overrun.
THEOREM CatalogTypes == Spec => []TypeOK
<1>1. IInv => TypeOK
  BY DEF IInv, Numbers, Good, TypeOK
<1> QED
  BY <1>1, InvariantHolds, PTL

\* RootsAreDistinct: CREATE TABLE and CREATE INDEX never hand out a page that
\* another table or index has, in memory or in the file, whatever deaths and
\* ROLLBACKs came before, which forget the pages that were counted in memory.
THEOREM PagesAreDistinct == Spec => []RootsAreDistinct
<1>1. IInv => RootsAreDistinct
  BY DEF IInv, Good, RootsAreDistinct
<1> QED
  BY <1>1, InvariantHolds, PTL

\* RootsBehindCatalog: no table or index lies on page 0 or the catalog, but where
\* the first db_open made one page only.
THEOREM CatalogIsApart == Spec => []RootsBehindCatalog
<1>1. IInv => RootsBehindCatalog
  BY DEF IInv, Good, Low, RootsBehindCatalog
<1> QED
  BY <1>1, InvariantHolds, PTL

\* OneTableIsSaved: a catalog with one table at most is in the file as it is in
\* memory.
THEOREM OneTableIsKept == Spec => []OneTableIsSaved
<1>1. ASSUME IInv, up, Len(mem) <= 1
      PROVE  disk = mem
  <2>1. mem \in Seq(Tables) /\ Len(mem) \in Nat
    BY <1>1 DEF IInv, Good
  <2>2. disk = Fitting(mem)
    BY <1>1, <2>1 DEF IInv, MemoryIsSaved
  <2>3. \A t \in DOMAIN mem : t = 1
    BY <1>1, <2>1
  <2>4. Fitting(mem) = [t \in DOMAIN mem |-> mem[t]]
    BY <2>3 DEF Fitting
  <2> QED
    BY <2>1, <2>2, <2>4
<1>2. IInv => OneTableIsSaved
  BY <1>1 DEF OneTableIsSaved
<1> QED
  BY <1>2, InvariantHolds, PTL

\* Which roots page 1 has after a save.
LEMMA SaveKeepsRoots ==
    ASSUME NEW tables \in Seq(Tables), NEW id,
           Len(tables) < 2 \/ id = CatalogPage => DOMAIN disk \subseteq DOMAIN tables,
           Len(tables) < 2 \/ id = CatalogPage =>
               \A t \in DOMAIN disk : tables[t].root = disk[t].root,
           Save(tables, id)
    PROVE  \A t \in DOMAIN disk : t \in DOMAIN disk' /\ disk'[t].root = disk[t].root
<1>1. CASE FrameId(tables, id) = CatalogPage
  <2>1. disk' = Fitting(tables)
    BY <1>1 DEF Save
  <2>2. Len(tables) < 2 \/ id = CatalogPage
    BY <1>1 DEF FrameId
  <2>3. \A t \in DOMAIN tables :
            t \in DOMAIN Fitting(tables) /\ Fitting(tables)[t].root = tables[t].root
    BY FittingFields DEF Fitting
  <2>4. \A t \in DOMAIN disk :
            t \in DOMAIN Fitting(tables) /\ Fitting(tables)[t].root = disk[t].root
    BY <2>2, <2>3
  <2> QED
    BY <2>1, <2>4, Zenon
<1>2. CASE FrameId(tables, id) # CatalogPage
  BY <1>2 DEF Save
<1> QED
  BY <1>1, <1>2

\* TablesStay: no step takes a table out of the file.
THEOREM TablesAreKept == Spec => TablesStay
<1> DEFINE Kept == \A t \in DOMAIN disk :
                        t \in DOMAIN disk' /\ disk'[t].root = disk[t].root
<1>1. ASSUME IInv, Next PROVE Kept
  <2>1. /\ mem \in Seq(Tables) /\ disk \in Seq(Tables)
        /\ Len(mem) \in Nat /\ Len(disk) \in Nat
    BY <1>1 DEF IInv, Good
  <2>2. ASSUME up, Len(mem) < 2 \/ unset = CatalogPage
        PROVE  /\ DOMAIN disk = DOMAIN mem
               /\ \A t \in DOMAIN disk : mem[t].root = disk[t].root
    <3>1. disk = Fitting(mem)
      BY <1>1, <2>2 DEF IInv, MemoryIsSaved
    <3>2. DOMAIN Fitting(mem) = DOMAIN mem
      BY DEF Fitting
    <3>3. \A t \in DOMAIN mem : Fitting(mem)[t].root = mem[t].root
      BY <2>1, FittingFields
    <3> QED
      BY <3>1, <3>2, <3>3, Zenon
  <2>3. CASE CreateTable
    <3>1. up /\ Len(mem) < MaxTables /\ next_page_id \in Nat
      BY <1>1, <2>3 DEF CreateTable, IInv, Numbers
    <3>2. Len(mem) < 2
      BY <2>1, <3>1, CatalogConstants
    <3> DEFINE new == [root |-> next_page_id, indexes |-> {}]
               all == Append(mem, new)
    <3>3. new \in Tables
      BY <3>1 DEF Tables
    <3>4. /\ all \in Seq(Tables) /\ DOMAIN mem \subseteq DOMAIN all
          /\ \A t \in DOMAIN mem : all[t] = mem[t]
      BY <2>1, <3>3
    <3>5. CASE Forget /\ UNCHANGED disk
      BY <3>5
    <3>6. ASSUME NEW id, mem' = all, Save(mem', id)
          PROVE  Kept
      <4>1. Save(all, id)
        BY <3>6, Zenon
      <4> HIDE DEF all
      <4> QED
        BY <2>2, <3>1, <3>2, <3>4, <4>1, SaveKeepsRoots
    <3> QED
      BY <2>3, <3>5, <3>6 DEF CreateTable
  <2>4. ASSUME NEW t \in DOMAIN mem, NEW indexes \in SUBSET Nat, up,
               mem' = [mem EXCEPT ![t].indexes = indexes],
               Save(mem', unset)
        PROVE  Kept
    <3> DEFINE all == [mem EXCEPT ![t].indexes = indexes]
    <3>1. /\ all \in Seq(Tables) /\ DOMAIN all = DOMAIN mem
          /\ Len(all) = Len(mem)
          /\ \A u \in DOMAIN mem : all[u].root = mem[u].root
      <4>1. mem \in Seq(Tables)
        BY <2>1
      <4>2. t \in DOMAIN mem
        OBVIOUS
      <4>3. indexes \in SUBSET Nat
        OBVIOUS
      <4> HIDE DEF Kept
      <4> QED
        BY ONLY <4>1, <4>2, <4>3, IndexesKeepRoots
    <3>2. Save(all, unset)
      BY <2>4, Zenon
    <3> HIDE DEF all
    <3> QED
      BY <2>2, <2>4, <3>1, <3>2, SaveKeepsRoots
  <2>5. \A t \in DOMAIN mem : mem[t].indexes \in SUBSET Nat
    <3>1. \A t \in DOMAIN mem : mem[t] \in Tables
      BY <2>1
    <3> QED
      BY <3>1 DEF Tables
  <2>6. ASSUME NEW t \in DOMAIN mem, CreateIndex(t) PROVE Kept
    <3>1. mem[t].indexes \cup {next_page_id} \in SUBSET Nat
      BY <1>1, <2>5 DEF IInv, Numbers
    <3> QED
      BY <2>4, <2>6, <3>1 DEF CreateIndex
  <2>7. ASSUME NEW t \in DOMAIN mem, NEW page, DropIndex(t, page) PROVE Kept
    <3>1. mem[t].indexes \ {page} \in SUBSET Nat
      BY <2>5
    <3> QED
      BY <2>4, <2>7, <3>1 DEF DropIndex
  <2>8. CASE Close
    <3>1. CASE FrameId(mem, unset) = CatalogPage
      <4>1. disk' = Fitting(mem) /\ up
        BY <2>8, <3>1 DEF Close
      <4>2. Len(mem) < 2 \/ unset = CatalogPage
        BY <3>1 DEF FrameId
      <4>3. disk' = disk
        BY <1>1, <4>1, <4>2 DEF IInv, MemoryIsSaved
      <4> QED
        BY <4>3
    <3>2. CASE FrameId(mem, unset) # CatalogPage
      BY <2>8, <3>2 DEF Close
    <3> QED
      BY <3>1, <3>2
  <2>9. CASE UNCHANGED disk
    BY <2>9
  <2> QED
    BY <1>1, <2>3, <2>6, <2>7, <2>8, <2>9
    DEF Next, OpenNew, OpenOld, Rollback, WriteStray, Kill
<1>2. ASSUME IInv, [Next]_vars PROVE [Kept]_vars
  BY <1>1, <1>2
<1> QED
  BY <1>2, InvariantHolds, PTL DEF Spec, TablesStay

=============================================================================
