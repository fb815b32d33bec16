--------------------------- MODULE TableIndexProofs -------------------------
(***************************************************************************)
(* Theorems about the indexes of a table (TableIndex) and the ROLLBACK on  *)
(* it (RollbackScan): the types; that an entry never leads to a row with   *)
(* another number; that a ROLLBACK finds one record at most when no page   *)
(* is behind the table's; that CREATE INDEX enters every row; that lookups *)
(* and scans agree after INSERTs alone; and that no statement brings rows  *)
(* out of order.                                                           *)
(*                                                                         *)
(* A statement is a list of writes of which the first few are made, so     *)
(* what it does is proved for each length of that list at once: a family   *)
(* of sets of disks, one for each number of writes, each write leading     *)
(* from one set to the next (WritesLead).                                  *)
(***************************************************************************)
EXTENDS RollbackScan, WalProofs

\* What an index's slot holds, and a row's.
Cells == Contents \cup Entries

\* The constants, as far as the proofs need them.
LEMMA ConstantsAre ==
    /\ MaxTx \in Bytes /\ Sessions \in Nat /\ MaxIndexes \in Nat
    /\ MaxPages \in Nat /\ MaxPages >= 1
    /\ Ids \subseteq Int32 /\ Ids \subseteq Int /\ Numbers \subseteq Int
    /\ Pads \subseteq Bytes /\ OldPages \subseteq AnyNode
    /\ NoNumber \notin Int
    /\ \A id \in Ids, number \in Numbers :
           <<id, number>> \in Texts /\ <<id, number>> \in Contents
    /\ \A id \in Ids : <<id, NoNumber>> \notin Contents
    /\ Texts \subseteq Contents /\ NoRow \notin Contents
    /\ Blank = Empty /\ Blank \in Contents /\ Blank \in Cells /\ Empty \in Cells
    /\ Contents \subseteq Cells /\ Tombstone \in Int
  <1>1. /\ Texts = Ids \X Numbers
        /\ Ids \subseteq Int32 /\ Numbers \subseteq Int32 /\ Pads \subseteq Bytes
        /\ OldPages \subseteq AnyNode /\ Sessions \in Nat /\ MaxTx \in Bytes
        /\ MaxIndexes \in Nat /\ MaxPages \in Nat \ {0}
        /\ Blank = Empty /\ NoNumber \notin Int
        /\ \A id \in Ids : <<id, NoNumber>> \notin Contents
    BY IndexConstants
  <1>2. Ids \subseteq Int /\ Numbers \subseteq Int /\ Tombstone \in Int
    BY <1>1, KeysAreInts
  <1>3. Texts \subseteq Contents /\ Blank \in Contents
    BY ContentsAssumption
  <1>4. NoRow \notin Contents
    BY RowsAssumption DEF Contents
  <1>5. \A id \in Ids, number \in Numbers :
            <<id, number>> \in Texts /\ <<id, number>> \in Contents
    BY <1>1, <1>3
  <1>6. Contents \subseteq Cells
    BY DEF Cells
  <1>7. MaxPages \in Nat /\ MaxPages >= 1
    BY <1>1
  <1>8. QED
    BY <1>1, <1>2, <1>3, <1>4, <1>5, <1>6, <1>7

\* What is written as the contents of an entry is no NULL.
LEMMA EntryIs ==
    \A id \in Int : <<id>> \in Entries /\ <<id>> \in Cells
  <1>1. \A id \in Int : <<id>> \in Entries
    BY DEF Entries
  <1>2. QED
    BY <1>1 DEF Cells

LEMMA IdsEntries == \A id \in Ids : <<id>> # NoRow
  <1>1. \A id \in Ids : <<id>> \in Values
    BY IndexConstants
  <1>2. QED
    BY <1>1, RowsAssumption

\* The counter of records in the header stays below 256 as long as the log is
\* not longer than that many headers.
LEMMA LsnStaysByte ==
    ASSUME NEW n \in Bytes, NEW l \in Nat, HeaderSize * n <= l, l < MaxLog,
           NEW m \in Nat, m >= l + HeaderSize
    PROVE  n + 1 \in Bytes /\ HeaderSize * (n + 1) <= m
  <1>1. MaxLog \in Int /\ MaxLog <= 255 * 24
    <2>1. MaxLog \in 0 .. 255 * HeaderSize
      BY IndexConstants
    <2> DEFINE top == 255 * HeaderSize
    <2>2. top = 255 * 24 /\ top \in Int
      BY DEF HeaderSize
    <2> HIDE DEF top
    <2>3. MaxLog \in Int /\ MaxLog <= top
      BY <2>1 DEF top
    <2>4. QED
      BY <2>2, <2>3
  <1>2. n \in Int /\ 0 <= n /\ n <= 255
    BY ByteIs
  <1>3. 24 * n <= l /\ HeaderSize = 24
    BY DEF HeaderSize
  <1>4. n + 1 <= 255
    BY <1>1, <1>2, <1>3
  <1>5. 24 * (n + 1) <= m
    BY <1>2, <1>3
  <1>6. QED
    BY <1>2, <1>3, <1>4, <1>5, ByteIs

-----------------------------------------------------------------------------
(* Pages, disks and writes.                                                 *)

\* A call of btree.c on the page of an index.
PageCall == [call  : {"btree_insert", "btree_delete"},
             key   : Int,
             value : Cells]

\* A call on the table's page is one that the page of an index may get, too.
LEMMA CallsOnPages ==
    /\ AnyCall \subseteq PageCall
    /\ \A key \in Int, value \in Cells : InsertCall(key, value) \in PageCall
    /\ \A key \in Int : DeleteCall(key) \in PageCall /\ DeleteCall(key) \in AnyCall
    /\ \A key \in Int, value \in Contents : InsertCall(key, value) \in AnyCall
  BY ConstantsAre DEF AnyCall, PageCall, InsertCall, DeleteCall

\* What a call makes of a proper page is one.
LEMMA CallKeepsProper ==
    /\ \A n \in Proper(Cells), c \in PageCall : Call(n, c) \in Proper(Cells)
    /\ \A n \in Proper(Contents), c \in AnyCall : Call(n, c) \in Proper(Contents)
    /\ Proper(Contents) \subseteq Proper(Cells)
    /\ Proper(Contents) \subseteq AnyNode
  <1>1. ASSUME NEW n \in Proper(Cells), NEW c \in PageCall
        PROVE  Call(n, c) \in Proper(Cells)
    <2>1. /\ c.call = "btree_insert" \/ c.call = "btree_delete"
          /\ c.key \in Int /\ c.value \in Cells
      BY DEF PageCall
    <2>2. QED
      BY <2>1, ConstantsAre, InsertKeepsProper, DeletedIsGone DEF Call
  <1>2. ASSUME NEW n \in Proper(Contents), NEW c \in AnyCall
        PROVE  Call(n, c) \in Proper(Contents)
    <2>1. /\ c.call = "btree_insert" \/ c.call = "btree_delete"
          /\ c.key \in Int /\ c.value \in Contents
      BY DEF AnyCall
    <2>2. QED
      BY <2>1, LeavesOver, InsertKeepsProper, DeletedIsGone DEF Call
  <1>3. Proper(Contents) \subseteq Proper(Cells)
    <2>1. \A f \in [1 .. Slots -> Contents] : f \in [1 .. Slots -> Cells]
      BY ConstantsAre
    <2>2. QED
      BY <2>1 DEF Proper, LeafOver
  <1>4. Proper(Contents) \subseteq AnyNode
    BY LeavesOver DEF Proper
  <1>5. QED
    BY <1>1, <1>2, <1>3, <1>4

\* The log and n pages, the first of which is the table's.
Disks(n) == {d \in [log : Seq(Bytes), pages : [1 .. n -> Proper(Cells)]] :
                d.pages[TablePage] \in Proper(Contents)}

\* The writes that a statement makes on such a disk.
Writes(n) == [page : {0}, does : Seq(Bytes)]
                \cup [page : {TablePage}, does : AnyCall]
                \cup [page : 2 .. n, does : PageCall]

\* A write to the log, to the table's page, and to another one.
WriteIs(d, w, e) ==
    \/ /\ w.page = 0 /\ w.does \in Seq(Bytes)
       /\ e.log = d.log \o w.does /\ e.pages = d.pages
    \/ /\ w.page = TablePage /\ w.does \in AnyCall
       /\ e.log = d.log
       /\ e.pages = [d.pages EXCEPT ![TablePage] = Call(@, w.does)]
    \/ /\ w.page # TablePage /\ w.does \in PageCall
       /\ e.log = d.log
       /\ e.pages = [d.pages EXCEPT ![w.page] = Call(@, w.does)]

\* It leaves a disk.
LEMMA WriteKeepsDisk ==
    ASSUME NEW n \in Nat, n >= 1, NEW d \in Disks(n), NEW w \in Writes(n)
    PROVE  WriteStep(d, w) \in Disks(n) /\ WriteIs(d, w, WriteStep(d, w))
  <1> DEFINE e == WriteStep(d, w)
  <1>1. /\ d = [log |-> d.log, pages |-> d.pages]
        /\ d.log \in Seq(Bytes) /\ d.pages \in [1 .. n -> Proper(Cells)]
        /\ d.pages[TablePage] \in Proper(Contents)
    BY DEF Disks
  <1>2. \/ w.page = 0 /\ w.does \in Seq(Bytes)
        \/ w.page = TablePage /\ w.does \in AnyCall
        \/ w.page \in 2 .. n /\ w.does \in PageCall
    BY DEF Writes
  <1>3. TablePage = 1 /\ TablePage \in 1 .. n
    BY DEF TablePage
  <1>4. CASE w.page = 0 /\ w.does \in Seq(Bytes)
    <2> DEFINE long == d.log \o w.does
    <2>1. long \in Seq(Bytes)
      BY <1>1, <1>4, JoinedLength
    <2>2. e = [d EXCEPT !.log = long]
      BY <1>4 DEF WriteStep
    <2> HIDE DEF long, e
    <2>3. e = [log |-> long, pages |-> d.pages]
      BY <1>1, <2>2
    <2>4. e \in Disks(n) /\ e.log = long /\ e.pages = d.pages
      BY <1>1, <2>1, <2>3 DEF Disks
    <2>5. WriteIs(d, w, e)
      BY <1>4, <2>4 DEF WriteIs, long
    <2>6. QED
      BY <2>4, <2>5 DEF e
  <1>5. ASSUME w.page \in 1 .. n, Call(d.pages[w.page], w.does) \in Proper(Cells),
               w.page = TablePage =>
                   Call(d.pages[w.page], w.does) \in Proper(Contents)
        PROVE  /\ e \in Disks(n) /\ e.log = d.log
               /\ e.pages = [d.pages EXCEPT ![w.page] = Call(@, w.does)]
    <2> DEFINE new == [d.pages EXCEPT ![w.page] = Call(@, w.does)]
    <2>1. w.page # 0
      BY <1>5
    <2>2. e = [d EXCEPT !.pages = new]
      BY <2>1 DEF WriteStep
    <2>3. new \in [1 .. n -> Proper(Cells)] /\ new[TablePage] \in Proper(Contents)
      BY <1>1, <1>3, <1>5
    <2> HIDE DEF new, e
    <2>4. e = [log |-> d.log, pages |-> new]
      BY <1>1, <2>2
    <2>5. e \in Disks(n) /\ e.log = d.log /\ e.pages = new
      BY <1>1, <2>3, <2>4 DEF Disks
    <2>6. QED
      BY <2>5 DEF new, e
  <1>6. CASE w.page = TablePage /\ w.does \in AnyCall
    <2>1. /\ Call(d.pages[w.page], w.does) \in Proper(Cells)
          /\ Call(d.pages[w.page], w.does) \in Proper(Contents)
      BY <1>1, <1>6, CallKeepsProper
    <2>2. QED
      BY <1>3, <1>5, <1>6, <2>1 DEF WriteIs
  <1>7. CASE w.page \in 2 .. n /\ w.does \in PageCall
    <2>1. w.page \in 1 .. n /\ w.page # TablePage
      BY <1>3, <1>7
    <2>2. Call(d.pages[w.page], w.does) \in Proper(Cells)
      BY <1>1, <1>7, <2>1, CallKeepsProper
    <2>3. QED
      BY <1>5, <1>7, <2>1, <2>2 DEF WriteIs
  <1>8. QED
    BY <1>2, <1>4, <1>6, <1>7

\* The writes as the steps of a loop.
WriteSteps(n, ws) == [i \in 1 .. Len(ws) |-> [d \in Disks(n) |-> WriteStep(d, ws[i])]]

LEMMA WriteStepsAre ==
    ASSUME NEW n \in Nat, n >= 1, NEW ws \in Seq(Writes(n))
    PROVE  /\ Len(ws) \in Nat
           /\ WriteSteps(n, ws) \in [1 .. Len(ws) -> [Disks(n) -> Disks(n)]]
           /\ \A i \in 1 .. Len(ws), d \in Disks(n) :
                  WriteSteps(n, ws)[i][d] = WriteStep(d, ws[i])
  <1>1. \A i \in 1 .. Len(ws), d \in Disks(n) : WriteStep(d, ws[i]) \in Disks(n)
    BY WriteKeepsDisk
  <1>2. QED
    BY <1>1 DEF WriteSteps

\* Several writes are made one after the other.
LEMMA WritesAre ==
    ASSUME NEW n \in Nat, n >= 1, NEW disk \in Disks(n), NEW ws \in Seq(Writes(n)),
           NEW g, IsRun(g, Len(ws), Disks(n), disk, WriteSteps(n, ws))
    PROVE  FoldLeft(WriteStep, disk, ws) = g[Len(ws)]
  <1> DEFINE m == Len(ws)
             Prefix(i) == 1 .. i
             Is(f)  == f = [s \in SUBSET Prefix(m) |->
                               IF s = {} THEN disk
                               ELSE WriteStep(f[s \ {Max(s)}], ws[Max(s)])]
             f == CHOOSE f : Is(f)
  <1>1. DOMAIN ws = 1 .. Len(ws)
    OBVIOUS
  <1>2. FoldLeft(WriteStep, disk, ws) = f[Prefix(m)]
    BY <1>1 DEF FoldLeft, MapThenFoldSet
  <1>3. \A i \in 1 .. m : /\ Prefix(i) \in SUBSET Prefix(m) /\ Prefix(i) # {}
                          /\ Max(Prefix(i)) = i
                          /\ Prefix(i) \ {i} = Prefix(i - 1)
    <2>1. SUFFICES ASSUME NEW i \in 1 .. m
                   PROVE  /\ Prefix(i) \in SUBSET Prefix(m) /\ Prefix(i) # {}
                          /\ Max(Prefix(i)) = i
                          /\ Prefix(i) \ {i} = Prefix(i - 1)
      OBVIOUS
    <2>2. /\ i - 1 \in Nat /\ (i - 1) + 1 = i /\ i \in Prefix(i)
          /\ Prefix(i) \in SUBSET (1 .. (i - 1) + 1)
      OBVIOUS
    <2>3. Max(Prefix(i)) = i
      BY <2>2, MaxOfSuccessor
    <2>4. Prefix(i) \in SUBSET Prefix(m) /\ Prefix(i) \ {i} = Prefix(i - 1)
      OBVIOUS
    <2>5. QED
      BY <2>2, <2>3, <2>4
  <1>4. Prefix(0) = {} /\ {} \in SUBSET Prefix(m)
    OBVIOUS
  <1>5. \A s \in SUBSET Prefix(m) : s # {} =>
            Max(s) \in Prefix(m) /\ s \ {Max(s)} \in SUBSET Prefix(m)
    <2>1. m \in Nat
      OBVIOUS
    <2> HIDE DEF m
    <2>2. \A s \in SUBSET Prefix(m) : s # {} => Max(s) \in s
      BY <2>1, MaxOfNats
    <2>3. QED
      BY <2>2
  <1>6. Is(f)
    <2>1. PICK h : IsFold(h, m, Disks(n), disk, WriteSteps(n, ws))
      BY WriteStepsAre, FoldRecursion
    <2>2. /\ h \in [SUBSET Prefix(m) -> Disks(n)] /\ h[{}] = disk
          /\ \A t \in SUBSET Prefix(m) :
                t # {} => h[t] = WriteSteps(n, ws)[Max(t)][h[t \ {Max(t)}]]
      BY <2>1 DEF IsFold
    <2>3. \A t \in SUBSET Prefix(m) :
                t # {} => h[t] = WriteStep(h[t \ {Max(t)}], ws[Max(t)])
      <3>1. \A i \in Prefix(m), d \in Disks(n) :
                WriteSteps(n, ws)[i][d] = WriteStep(d, ws[i])
        BY WriteStepsAre
      <3> HIDE DEF Prefix
      <3>2. QED
        BY <1>5, <2>2, <3>1
    <2> HIDE DEF Prefix, m
    <2>4. Is(h)
      BY <2>2, <2>3
    <2> HIDE DEF Is
    <2>5. QED
      BY <2>4
  <1>7. f[{}] = disk
        /\ \A i \in 1 .. m : f[Prefix(i)] = WriteStep(f[Prefix(i - 1)], ws[i])
    <2> HIDE DEF f, Prefix, m
    <2>1. QED
      BY <1>3, <1>4, <1>6
  <1>8. /\ g[0] = disk
        /\ \A i \in 1 .. m : g[i] = WriteStep(g[i - 1], ws[i])
    <2>1. /\ g \in [0 .. m -> Disks(n)] /\ g[0] = disk
          /\ \A i \in 1 .. m : g[i] = WriteSteps(n, ws)[i][g[i - 1]]
      BY DEF IsRun
    <2>2. \A i \in 1 .. m : i - 1 \in 0 .. m
      BY WriteStepsAre
    <2>3. QED
      BY <2>1, <2>2, WriteStepsAre
  <1> DEFINE r == [i \in 0 .. m |-> f[Prefix(i)]]
  <1> HIDE DEF f, Prefix
  <1>9. /\ m \in Nat /\ \A i \in 0 .. m : r[i] = f[Prefix(i)]
        /\ \A i \in 1 .. m : i \in 0 .. m /\ i - 1 \in 0 .. m
        /\ 0 \in 0 .. m /\ m \in 0 .. m
    BY WriteStepsAre
  <1> HIDE DEF r, m
  <1>10. SameSteps(r, g, m)
    BY <1>4, <1>7, <1>8, <1>9 DEF SameSteps
  <1>11. Agree(r, g, m)
    BY <1>9, <1>10, RunsAgree
  <1>12. QED
    BY <1>2, <1>9, <1>11 DEF Agree, m

\* Whatever each write leads from and to: after the first done of them.
LEMMA WritesLead ==
    ASSUME NEW n \in Nat, n >= 1, NEW disk \in Disks(n), NEW ws \in Seq(Writes(n)),
           NEW done \in 0 .. Len(ws),
           NEW I, disk \in I[0],
           \A i \in 1 .. Len(ws), d \in Disks(n) :
               d \in I[i - 1] => WriteStep(d, ws[i]) \in I[i]
    PROVE  /\ FoldLeft(WriteStep, disk, SubSeq(ws, 1, done)) \in Disks(n)
           /\ FoldLeft(WriteStep, disk, SubSeq(ws, 1, done)) \in I[done]
  <1> DEFINE pre == SubSeq(ws, 1, done)
  <1>1. /\ Len(ws) \in Nat /\ done \in Nat /\ done <= Len(ws)
        /\ pre \in Seq(Writes(n)) /\ Len(pre) = done
        /\ \A i \in 1 .. done : pre[i] = ws[i] /\ i \in 1 .. Len(ws)
    <2>1. /\ Len(ws) \in Nat /\ done \in Nat /\ done <= Len(ws)
      OBVIOUS
    <2>2. 1 \in Int /\ done \in Int /\ 1 <= done + 1
          /\ \A i \in 1 .. done : i \in 1 .. Len(ws)
      BY <2>1
    <2>3. /\ pre \in Seq(Writes(n)) /\ Len(pre) = done
          /\ \A i \in 1 .. done : pre[i] = ws[i]
      BY <2>1
    <2>4. QED
      BY <2>1, <2>2, <2>3
  <1> HIDE DEF pre
  <1>2. PICK g : IsRun(g, done, Disks(n), disk, WriteSteps(n, pre))
    BY <1>1, WriteStepsAre, Iteration
  <1>3. FoldLeft(WriteStep, disk, pre) = g[done]
    BY <1>1, <1>2, WritesAre
  <1>4. /\ g \in [0 .. done -> Disks(n)] /\ g[0] = disk
        /\ \A i \in 1 .. done : g[i] = WriteStep(g[i - 1], ws[i])
    <2>1. /\ g \in [0 .. done -> Disks(n)] /\ g[0] = disk
          /\ \A i \in 1 .. done : g[i] = WriteSteps(n, pre)[i][g[i - 1]]
      BY <1>2 DEF IsRun
    <2>2. \A i \in 1 .. done : i - 1 \in 0 .. done
      BY <1>1
    <2>3. \A i \in 1 .. done, d \in Disks(n) :
              WriteSteps(n, pre)[i][d] = WriteStep(d, pre[i])
      BY <1>1, WriteStepsAre
    <2>4. QED
      BY <1>1, <2>1, <2>2, <2>3
  <1> DEFINE Ms == {i \in Nat : i <= done => g[i] \in I[i]}
  <1>5. 0 \in Ms /\ Ms \in SUBSET Nat
    BY <1>4
  <1>6. ASSUME NEW i \in Ms
        PROVE  i + 1 \in Ms
    <2>1. i \in Nat /\ (i <= done => g[i] \in I[i])
      OBVIOUS
    <2>2. i + 1 <= done => i + 1 \in 1 .. done /\ i + 1 \in 1 .. Len(ws)
                           /\ i \in 0 .. done /\ (i + 1) - 1 = i
      BY <1>1, <2>1
    <2>3. i + 1 <= done => g[i + 1] \in I[i + 1]
      BY <1>1, <1>4, <2>1, <2>2
    <2>4. QED
      BY <2>1, <2>3
  <1>7. Ms = Nat
    <2> HIDE DEF Ms
    <2>1. QED
      BY <1>5, <1>6, Induction
  <1>8. g[done] \in I[done] /\ g[done] \in Disks(n)
    BY <1>1, <1>4, <1>7
  <1>9. QED
    BY <1>3, <1>8 DEF pre

-----------------------------------------------------------------------------
(* What a statement writes: the entries that go, the record and the table's  *)
(* page, and the entries that come.                                         *)

IndexRecords == [page : Nat, column : {"g", "name"}]

\* The pages of the indexes on INT columns, which statements maintain, and those
\* of the others.
IntPages(ixs) == {ixs[i].page : i \in {j \in DOMAIN ixs : ixs[j].column = "g"}}
NamePages(ixs) == {ixs[i].page : i \in {j \in DOMAIN ixs : ixs[j].column # "g"}}

\* The loop over the indexes makes the call on the page of each, and no other.
LEMMA OnIntIndexesIs ==
    ASSUME indexes \in Seq(IndexRecords), NEW call
    PROVE  /\ OnIntIndexes(call) \in Seq({ToPage(p, call) : p \in IntPages(indexes)})
           /\ \A p \in IntPages(indexes) :
                 \E j \in 1 .. Len(OnIntIndexes(call)) :
                     OnIntIndexes(call)[j] = ToPage(p, call)
  <1> DEFINE T == {ToPage(p, call) : p \in IntPages(indexes)}
             part(i) == IF indexes[i].column = "g"
                        THEN << ToPage(indexes[i].page, call) >> ELSE << >>
             parts == [i \in DOMAIN indexes |-> part(i)]
  <1>1. DOMAIN indexes = 1 .. Len(indexes) /\ Len(indexes) \in Nat
    OBVIOUS
  <1>2. \A i \in DOMAIN indexes : indexes[i].column = "g" =>
            indexes[i].page \in IntPages(indexes)
    BY DEF IntPages
  <1>3. \A i \in DOMAIN indexes : part(i) \in Seq(T)
    <2>1. SUFFICES ASSUME NEW i \in DOMAIN indexes
                   PROVE  part(i) \in Seq(T)
      OBVIOUS
    <2>2. CASE indexes[i].column = "g"
      <3>1. ToPage(indexes[i].page, call) \in T
        BY <1>2, <2>2
      <3> HIDE DEF T
      <3>2. << ToPage(indexes[i].page, call) >> \in Seq(T)
        BY <3>1
      <3>3. QED
        BY <2>2, <3>2
    <2>3. CASE indexes[i].column # "g"
      BY <2>3
    <2>4. QED
      BY <2>2, <2>3
  <1>4. OnIntIndexes(call) = FlattenSeq(parts)
    BY DEF OnIntIndexes
  <1> HIDE DEF T, part
  <1>5. parts \in Seq(Seq(T)) /\ Len(parts) = Len(indexes)
        /\ \A i \in DOMAIN indexes : parts[i] = part(i)
    BY <1>1, <1>3
  <1> HIDE DEF parts
  <1>6. OnIntIndexes(call) \in Seq(T)
    <2>1. << >> \in Seq(T)
      OBVIOUS
    <2>2. QED
      BY <1>4, <1>5, <2>1, FlattenAppend
  <1>7. ASSUME NEW p \in IntPages(indexes)
        PROVE  \E j \in 1 .. Len(OnIntIndexes(call)) :
                   OnIntIndexes(call)[j] = ToPage(p, call)
    <2>1. PICK i \in DOMAIN indexes : indexes[i].column = "g" /\ indexes[i].page = p
      BY <1>7 DEF IntPages
    <2>2. parts[i] = << ToPage(p, call) >>
      BY <1>5, <2>1 DEF part
    <2>3. 1 \in 1 .. Len(parts[i]) /\ parts[i][1] = ToPage(p, call)
      BY <2>2
    <2>4. i \in 1 .. Len(parts)
      BY <1>1, <1>5
    <2>5. \E j \in 1 .. Len(FlattenSeq(parts)) :
              FlattenSeq(parts)[j] = parts[i][1]
      BY <1>5, <2>3, <2>4, FlattenHas
    <2>6. QED
      BY <1>4, <2>3, <2>5
  <1>8. QED
    BY <1>6, <1>7 DEF T

\* ws are the writes of a statement on id in n pages, of which those in G are
\* maintained: a entries under the number old go before the table is written,
\* and entries of id under number come behind.
IsStatement(ws, n, G, a, record, c, old, number, id) ==
    /\ ws \in Seq(Writes(n)) /\ Len(ws) \in Nat
    /\ a \in Nat /\ a + 2 <= Len(ws)
    /\ old \in Int /\ number \in Int /\ id \in Int
    /\ G \subseteq 2 .. n
    /\ \A i \in 1 .. a : \E p \in G : ws[i] = ToPage(p, DeleteCall(old))
    /\ ws[a + 1] = ToLog(record)
    /\ FlattenSeq(record) \in Seq(Bytes)
    /\ Len(FlattenSeq(record)) \in Nat /\ Len(FlattenSeq(record)) >= HeaderSize
    /\ ws[a + 2] = ToPage(TablePage, c) /\ c \in AnyCall
    /\ \A i \in a + 3 .. Len(ws) :
          \E p \in G : ws[i] = ToPage(p, InsertCall(number, <<id>>))

\* Three sequences behind each other, the second of which has two elements.
LEMMA ThreeParts ==
    ASSUME NEW W, NEW A \in Seq(W), NEW B \in Seq(W), NEW x \in W, NEW y \in W
    PROVE  LET ws == (A \o << x, y >>) \o B
           IN  /\ ws \in Seq(W) /\ Len(ws) = Len(A) + 2 + Len(B)
               /\ \A i \in 1 .. Len(A) : ws[i] = A[i]
               /\ ws[Len(A) + 1] = x /\ ws[Len(A) + 2] = y
               /\ \A i \in 1 .. Len(B) : ws[Len(A) + 2 + i] = B[i]
  <1> DEFINE xy   == << x, y >>
             axy  == A \o xy
             ws   == axy \o B
  <1>1. xy \in Seq(W) /\ Len(xy) = 2 /\ xy[1] = x /\ xy[2] = y
    OBVIOUS
  <1> HIDE DEF xy
  <1>2. /\ axy \in Seq(W) /\ Len(axy) = Len(A) + 2 /\ Len(A) \in Nat
        /\ \A i \in 1 .. Len(A) : axy[i] = A[i]
        /\ \A i \in 1 .. 2 : axy[Len(A) + i] = xy[i]
    <2>1. /\ axy \in Seq(W) /\ Len(axy) = Len(A) + Len(xy) /\ Len(A) \in Nat
          /\ \A i \in 1 .. Len(A) : axy[i] = A[i]
          /\ \A i \in 1 .. Len(xy) : axy[Len(A) + i] = xy[i]
      <3>1. A \in Seq(W) /\ xy \in Seq(W)
        BY <1>1
      <3>2. QED
        BY <3>1
    <2> HIDE DEF axy
    <2>2. QED
      BY <1>1, <2>1
  <1> HIDE DEF axy
  <1>3. /\ ws \in Seq(W) /\ Len(ws) = Len(A) + 2 + Len(B)
        /\ \A i \in 1 .. Len(A) + 2 : ws[i] = axy[i]
        /\ \A i \in 1 .. Len(B) : ws[Len(A) + 2 + i] = B[i]
    <2>1. /\ ws \in Seq(W) /\ Len(ws) = Len(axy) + Len(B)
          /\ \A i \in 1 .. Len(axy) : ws[i] = axy[i]
          /\ \A i \in 1 .. Len(B) : ws[Len(axy) + i] = B[i]
      <3>1. axy \in Seq(W) /\ B \in Seq(W)
        BY <1>2
      <3>2. QED
        BY <3>1
    <2> HIDE DEF ws
    <2>2. QED
      BY <1>2, <2>1
  <1> HIDE DEF ws
  <1>4. \A i \in 1 .. Len(A) : ws[i] = A[i]
    <2>1. \A i \in 1 .. Len(A) : i \in 1 .. Len(A) + 2
      BY <1>2
    <2>2. QED
      BY <1>2, <1>3, <2>1
  <1>5. ws[Len(A) + 1] = x /\ ws[Len(A) + 2] = y
    <2>1. /\ Len(A) + 1 \in 1 .. Len(A) + 2 /\ Len(A) + 2 \in 1 .. Len(A) + 2
          /\ 1 \in 1 .. 2 /\ 2 \in 1 .. 2
      BY <1>2
    <2>2. QED
      BY <1>1, <1>2, <1>3, <2>1
  <1>6. QED
    BY <1>3, <1>4, <1>5 DEF ws, axy, xy

\* What is written to the pages in G before and after the row.
Removals(G, old) == Seq({ToPage(p, DeleteCall(old)) : p \in G})

Additions(G, number, id) == Seq({ToPage(p, InsertCall(number, <<id>>)) : p \in G})

\* The lists that database.c puts together.
LEMMA StatementIs ==
    ASSUME NEW n \in Nat, NEW G \in SUBSET (2 .. n), NEW record, NEW c \in AnyCall,
           FlattenSeq(record) \in Seq(Bytes), Len(FlattenSeq(record)) >= HeaderSize,
           NEW old \in Int, NEW number \in Int, NEW id \in Int,
           NEW A \in Removals(G, old), NEW B \in Additions(G, number, id),
           NEW ws, ws = (A \o << ToLog(record), ToPage(TablePage, c) >>) \o B
    PROVE  /\ IsStatement(ws, n, G, Len(A), record, c, old, number, id)
           /\ Len(ws) = Len(A) + 2 + Len(B)
           /\ \A i \in 1 .. Len(A) : ws[i] = A[i]
  <1> DEFINE x  == ToLog(record)
             y  == ToPage(TablePage, c)
             xy == << x, y >>
             all == (A \o xy) \o B
             SA == {ToPage(p, DeleteCall(old)) : p \in G}
             SB == {ToPage(p, InsertCall(number, <<id>>)) : p \in G}
             W  == Writes(n)
  <1>1. SA \subseteq W
    <2>1. SUFFICES ASSUME NEW p \in G
                   PROVE  ToPage(p, DeleteCall(old)) \in W
      OBVIOUS
    <2>2. p \in 2 .. n /\ DeleteCall(old) \in PageCall
      BY CallsOnPages
    <2>3. QED
      BY <2>2 DEF Writes, ToPage
  <1>2. SB \subseteq W
    <2>1. SUFFICES ASSUME NEW p \in G
                   PROVE  ToPage(p, InsertCall(number, <<id>>)) \in W
      OBVIOUS
    <2>2. p \in 2 .. n /\ InsertCall(number, <<id>>) \in PageCall
      BY EntryIs, CallsOnPages
    <2>3. QED
      BY <2>2 DEF Writes, ToPage
  <1>3. x \in W /\ y \in W
    BY DEF Writes, ToLog, ToPage
  <1>4. A \in Seq(SA) /\ B \in Seq(SB)
    BY DEF Removals, Additions
  <1> HIDE DEF W, x, y
  <1>5. /\ \A i \in 1 .. Len(A) : A[i] \in SA
        /\ \A i \in 1 .. Len(B) : B[i] \in SB
        /\ Len(A) \in Nat /\ Len(B) \in Nat
    <2> HIDE DEF SA, SB
    <2>1. QED
      BY <1>4
  <1> HIDE DEF SA, SB
  <1>6. A \in Seq(W) /\ B \in Seq(W)
    BY <1>1, <1>2, <1>4
  <1>7. /\ ws \in Seq(W) /\ Len(ws) = Len(A) + 2 + Len(B)
        /\ \A i \in 1 .. Len(A) : ws[i] = A[i]
        /\ ws[Len(A) + 1] = x /\ ws[Len(A) + 2] = y
        /\ \A i \in 1 .. Len(B) : ws[Len(A) + 2 + i] = B[i]
    <2>1. /\ all \in Seq(W) /\ Len(all) = Len(A) + 2 + Len(B)
          /\ \A i \in 1 .. Len(A) : all[i] = A[i]
          /\ all[Len(A) + 1] = x /\ all[Len(A) + 2] = y
          /\ \A i \in 1 .. Len(B) : all[Len(A) + 2 + i] = B[i]
      BY <1>3, <1>6, ThreeParts DEF xy
    <2>2. ws = all
      BY DEF x, y
    <2> HIDE DEF all
    <2>3. QED
      BY <2>1, <2>2
  <1>8. \A i \in 1 .. Len(A) : \E p \in G : ws[i] = ToPage(p, DeleteCall(old))
    BY <1>5, <1>7 DEF SA
  <1>9. ASSUME NEW i \in Len(A) + 3 .. Len(ws)
         PROVE  \E p \in G : ws[i] = ToPage(p, InsertCall(number, <<id>>))
    <2> DEFINE j == i - Len(A) - 2
    <2>1. j \in 1 .. Len(B) /\ i = Len(A) + 2 + j
      <3> DEFINE u == Len(A)
                 v == Len(B)
                 w == Len(ws)
      <3>1. u \in Nat /\ v \in Nat /\ w = u + 2 + v /\ i \in u + 3 .. w
        BY <1>5, <1>7
      <3> HIDE DEF u, v, w
      <3>2. i - u - 2 \in 1 .. v /\ i = u + 2 + (i - u - 2)
        BY <3>1
      <3>3. QED
        BY <3>2 DEF u, v
    <2> HIDE DEF j
    <2>2. ws[i] = B[j] /\ B[j] \in SB
      BY <1>5, <1>7, <2>1
    <2>3. QED
      BY <2>2 DEF SB
  <1>10. Len(FlattenSeq(record)) \in Nat
    OBVIOUS
  <1>11. Len(ws) \in Nat /\ Len(A) + 2 <= Len(ws)
    BY <1>5, <1>7
  <1>12. IsStatement(ws, n, G, Len(A), record, c, old, number, id)
    BY <1>5, <1>7, <1>8, <1>9, <1>10, <1>11 DEF IsStatement, W, x, y
  <1>13. QED
    BY <1>7, <1>12

\* The disk after i writes of a statement.  An entry in G is gone or as it was, or
\* leads to the row of the statement; those under the old number are gone from
\* the pages that were written.
Stage(ws, n, G, a, c, old, number, id, disk, i, d) ==
    /\ Len(d.log) >= Len(disk.log)
    /\ i >= a + 1 => Len(d.log) >= Len(disk.log) + HeaderSize
    /\ \A p \in 2 .. n : p \notin G => d.pages[p] = disk.pages[p]
    /\ i < a + 2 => d.pages[TablePage] = disk.pages[TablePage]
    /\ i >= a + 2 => d.pages[TablePage] = Call(disk.pages[TablePage], c)
    /\ \A p \in G, k \in Int :
          \/ btree_search(d.pages[p], k) = NoRow
          \/ btree_search(d.pages[p], k) = btree_search(disk.pages[p], k)
          \/ i >= a + 3 /\ k = number /\ btree_search(d.pages[p], k) = <<id>>
    /\ \A j \in 1 .. a : j <= i =>
          \A p \in G : ws[j] = ToPage(p, DeleteCall(old)) =>
              \/ btree_search(d.pages[p], old) = NoRow
              \/ /\ i >= a + 3 /\ old = number
                 /\ btree_search(d.pages[p], old) = <<id>>

\* An old entry goes.
LEMMA EntryGoes ==
    ASSUME NEW n \in Nat, n >= 1, NEW G, NEW ws, NEW a, NEW record, NEW c, NEW old,
           NEW number, NEW id, IsStatement(ws, n, G, a, record, c, old, number, id),
           NEW disk \in Disks(n), NEW d \in Disks(n), NEW i \in 1 .. a,
           Stage(ws, n, G, a, c, old, number, id, disk, i - 1, d)
    PROVE  Stage(ws, n, G, a, c, old, number, id, disk, i, WriteStep(d, ws[i]))
  <1> DEFINE e == WriteStep(d, ws[i])
  <1>1. /\ ws \in Seq(Writes(n)) /\ a \in Nat /\ a + 2 <= Len(ws) /\ Len(ws) \in Nat
        /\ old \in Int /\ G \subseteq 2 .. n
    BY DEF IsStatement
  <1>2. PICK p \in G : ws[i] = ToPage(p, DeleteCall(old))
    BY DEF IsStatement
  <1>3. p \in 1 .. n /\ p # TablePage /\ p # 0 /\ TablePage \in 1 .. n
    BY <1>1, <1>2 DEF TablePage
  <1>4. i \in 1 .. Len(ws) /\ i \in Nat
    BY <1>1
  <1>5. WriteIs(d, ws[i], e)
    BY <1>1, <1>4, WriteKeepsDisk
  <1>6. ws[i].page = p /\ ws[i].does = DeleteCall(old)
    BY <1>2 DEF ToPage
  <1>7. e.log = d.log /\ e.pages = [d.pages EXCEPT ![p] = Call(@, DeleteCall(old))]
    BY <1>3, <1>5, <1>6 DEF WriteIs
  <1> DEFINE x == d.pages[p]
  <1>8. Call(x, DeleteCall(old)) = btree_delete(x, old)
    BY DEF Call, DeleteCall
  <1>9. x \in Proper(Cells)
    BY <1>3 DEF Disks
  <1>10. /\ e.pages[p] = btree_delete(x, old)
         /\ \A q \in 1 .. n : q # p => e.pages[q] = d.pages[q]
    <2> HIDE DEF e
    <2>1. d.pages \in [1 .. n -> Proper(Cells)]
      BY DEF Disks
    <2>2. QED
      BY <1>3, <1>7, <1>8, <2>1
  <1> HIDE DEF e
  <1>11. /\ btree_search(e.pages[p], old) = NoRow
         /\ \A k \in Int : btree_search(e.pages[p], k) \in {NoRow, btree_search(x, k)}
    <2>1. Empty \in Cells
      BY ConstantsAre
    <2>2. QED
      BY <1>1, <1>9, <1>10, <2>1, DeletedIsGone
  <1>12. /\ Len(d.log) >= Len(disk.log)
         /\ \A q \in 2 .. n : q \notin G => d.pages[q] = disk.pages[q]
         /\ d.pages[TablePage] = disk.pages[TablePage]
         /\ \A q \in G, k \in Int :
               \/ btree_search(d.pages[q], k) = NoRow
               \/ btree_search(d.pages[q], k) = btree_search(disk.pages[q], k)
         /\ \A j \in 1 .. a : j <= i - 1 =>
               \A q \in G : ws[j] = ToPage(q, DeleteCall(old)) =>
                   btree_search(d.pages[q], old) = NoRow
    <2>1. /\ i - 1 < a + 1 /\ i - 1 < a + 2 /\ ~ (i - 1 >= a + 3)
          /\ ~ (i - 1 >= a + 1) /\ ~ (i - 1 >= a + 2)
      BY <1>1, <1>4
    <2>2. QED
      BY <2>1 DEF Stage
  <1>13. \A q \in 2 .. n : q \notin G => e.pages[q] = disk.pages[q]
    BY <1>2, <1>10, <1>12
  <1>14. e.pages[TablePage] = disk.pages[TablePage]
    BY <1>3, <1>10, <1>12
  <1>15. ASSUME NEW q \in G, NEW k \in Int
         PROVE  \/ btree_search(e.pages[q], k) = NoRow
                \/ btree_search(e.pages[q], k) = btree_search(disk.pages[q], k)
    <2>1. CASE q = p
      BY <2>1, <1>11, <1>12
    <2>2. CASE q # p
      BY <2>2, <1>1, <1>10, <1>12
    <2>3. QED
      BY <2>1, <2>2
  <1>16. ASSUME NEW j \in 1 .. a, j <= i, NEW q \in G,
                ws[j] = ToPage(q, DeleteCall(old))
         PROVE  btree_search(e.pages[q], old) = NoRow
    <2>1. CASE q = p
      BY <2>1, <1>11
    <2>2. CASE q # p
      <3>1. j # i
        BY <1>2, <1>16, <2>2 DEF ToPage
      <3>2. j <= i - 1
        BY <1>1, <1>4, <1>16, <3>1
      <3>3. QED
        BY <1>1, <1>10, <1>12, <1>16, <2>2, <3>2
    <2>3. QED
      BY <2>1, <2>2
  <1>17. i < a + 1 /\ i < a + 2 /\ ~ (i >= a + 1) /\ ~ (i >= a + 2)
    BY <1>1
  <1>18. Len(e.log) >= Len(disk.log)
    BY <1>7, <1>12
  <1> HIDE DEF x
  <1>19. Stage(ws, n, G, a, c, old, number, id, disk, i, e)
    BY <1>13, <1>14, <1>15, <1>16, <1>17, <1>18 DEF Stage
  <1>20. QED
    BY <1>19 DEF e

\* The record is written, and then the table.
LEMMA RowIsWritten ==
    ASSUME NEW n \in Nat, n >= 1, NEW G, NEW ws, NEW a, NEW record, NEW c, NEW old,
           NEW number, NEW id, IsStatement(ws, n, G, a, record, c, old, number, id),
           NEW disk \in Disks(n), NEW d \in Disks(n), NEW i,
           i = a + 1 \/ i = a + 2,
           Stage(ws, n, G, a, c, old, number, id, disk, i - 1, d)
    PROVE  Stage(ws, n, G, a, c, old, number, id, disk, i, WriteStep(d, ws[i]))
  <1> DEFINE e == WriteStep(d, ws[i])
  <1>1. /\ ws \in Seq(Writes(n)) /\ a \in Nat /\ a + 2 <= Len(ws) /\ Len(ws) \in Nat
        /\ G \subseteq 2 .. n
    BY DEF IsStatement
  <1>2. i \in Nat /\ i \in 1 .. Len(ws) /\ ~ (i >= a + 3) /\ ~ (i - 1 >= a + 3)
        /\ a + 1 \in Nat /\ a + 2 \in Nat /\ i - 1 < a + 2 /\ i >= a + 1
    BY <1>1
  <1>3. WriteIs(d, ws[i], e)
    BY <1>1, <1>2, WriteKeepsDisk
  <1>4. /\ Len(d.log) >= Len(disk.log)
        /\ i - 1 >= a + 1 => Len(d.log) >= Len(disk.log) + HeaderSize
        /\ \A q \in 2 .. n : q \notin G => d.pages[q] = disk.pages[q]
        /\ d.pages[TablePage] = disk.pages[TablePage]
        /\ \A q \in G, k \in Int :
               \/ btree_search(d.pages[q], k) = NoRow
               \/ btree_search(d.pages[q], k) = btree_search(disk.pages[q], k)
        /\ \A j \in 1 .. a : j <= i - 1 =>
               \A q \in G : ws[j] = ToPage(q, DeleteCall(old)) =>
                   btree_search(d.pages[q], old) = NoRow
    BY <1>1, <1>2 DEF Stage
  <1>5. \A j \in 1 .. a : j <= i - 1
    BY <1>1, <1>2
  <1>6. TablePage = 1 /\ TablePage \in 1 .. n /\ \A q \in 2 .. n : q \in 1 .. n /\ q # TablePage
    BY DEF TablePage
  <1>7. ASSUME \A q \in 2 .. n : e.pages[q] = d.pages[q],
               Len(e.log) >= Len(disk.log) + HeaderSize,
               i < a + 2 => e.pages[TablePage] = disk.pages[TablePage],
               i >= a + 2 => e.pages[TablePage] = Call(disk.pages[TablePage], c)
        PROVE  Stage(ws, n, G, a, c, old, number, id, disk, i, e)
    <2> HIDE DEF e
    <2>1. \A q \in 2 .. n : q \notin G => e.pages[q] = disk.pages[q]
      BY <1>4, <1>7
    <2>2. \A q \in G, k \in Int :
              \/ btree_search(e.pages[q], k) = NoRow
              \/ btree_search(e.pages[q], k) = btree_search(disk.pages[q], k)
      BY <1>1, <1>4, <1>7
    <2>3. \A j \in 1 .. a, q \in G : ws[j] = ToPage(q, DeleteCall(old)) =>
                   btree_search(e.pages[q], old) = NoRow
      BY <1>1, <1>4, <1>5, <1>7
    <2>4. Len(e.log) \in Nat /\ Len(disk.log) \in Nat
      <3>1. e \in Disks(n)
        BY <1>1, <1>2, WriteKeepsDisk DEF e
      <3>2. e.log \in Seq(Bytes) /\ disk.log \in Seq(Bytes)
        BY <3>1 DEF Disks
      <3>3. QED
        BY <3>2
    <2>5. Len(e.log) >= Len(disk.log)
      BY <1>7, <2>4 DEF HeaderSize
    <2>6. QED
      BY <1>7, <2>1, <2>2, <2>3, <2>5 DEF Stage
  <1>8. CASE i = a + 1
    <2> DEFINE bytes == FlattenSeq(record)
    <2>1. ws[i] = ToLog(record) /\ bytes \in Seq(Bytes) /\ Len(bytes) \in Nat
          /\ Len(bytes) >= HeaderSize
      BY <1>8 DEF IsStatement
    <2>2. ws[i].page = 0 /\ ws[i].does = bytes
      BY <2>1 DEF ToLog
    <2>3. e.log = d.log \o bytes /\ e.pages = d.pages
      <3>1. 0 # TablePage
        BY <1>6
      <3>3. e.log = d.log \o ws[i].does
        BY <1>1, <1>2, <2>2 DEF WriteStep, Disks
      <3>4. e.pages = d.pages
        BY <1>1, <1>2, <2>2 DEF WriteStep, Disks
      <3>5. QED
        BY <2>2, <3>3, <3>4
    <2>4. d.log \in Seq(Bytes) /\ disk.log \in Seq(Bytes)
      BY DEF Disks
    <2> HIDE DEF bytes
    <2>5. Len(e.log) = Len(d.log) + Len(bytes) /\ Len(d.log) \in Nat
      BY <2>1, <2>3, <2>4, JoinedLength
    <2>6. Len(disk.log) \in Nat
      BY <2>4
    <2>7. Len(e.log) >= Len(disk.log) + HeaderSize
      BY <1>4, <2>1, <2>5, <2>6 DEF HeaderSize
    <2>8. ~ (i >= a + 2)
      BY <1>1, <1>8
    <2> HIDE DEF e
    <2>9. /\ \A q \in 2 .. n : e.pages[q] = d.pages[q]
          /\ i < a + 2 => e.pages[TablePage] = disk.pages[TablePage]
          /\ i >= a + 2 => e.pages[TablePage] = Call(disk.pages[TablePage], c)
      BY <1>4, <2>3, <2>8
    <2>10. QED
      BY <1>7, <2>7, <2>9 DEF e
  <1>9. CASE i = a + 2
    <2>1. ws[i] = ToPage(TablePage, c)
      BY <1>9 DEF IsStatement
    <2>2. ws[i].page = TablePage /\ ws[i].does = c
      BY <2>1 DEF ToPage
    <2>3. e.log = d.log /\ e.pages = [d.pages EXCEPT ![TablePage] = Call(@, c)]
      BY <1>3, <1>6, <2>2 DEF WriteIs
    <2>4. /\ e.pages[TablePage] = Call(d.pages[TablePage], c)
          /\ \A q \in 1 .. n : q # TablePage => e.pages[q] = d.pages[q]
      <3> HIDE DEF e
      <3>1. d.pages \in [1 .. n -> Proper(Cells)]
        BY DEF Disks
      <3>2. QED
        BY <1>6, <2>3, <3>1
    <2>5. i - 1 >= a + 1 /\ ~ (i < a + 2)
      BY <1>1, <1>9
    <2> HIDE DEF e
    <2>6. /\ \A q \in 2 .. n : e.pages[q] = d.pages[q]
          /\ i < a + 2 => e.pages[TablePage] = disk.pages[TablePage]
          /\ i >= a + 2 => e.pages[TablePage] = Call(disk.pages[TablePage], c)
      BY <1>4, <1>6, <2>4, <2>5
    <2>7. Len(e.log) >= Len(disk.log) + HeaderSize
      BY <1>4, <2>3, <2>5
    <2>8. QED
      BY <1>7, <2>6, <2>7 DEF e
  <1>10. QED
    BY <1>8, <1>9 DEF e

\* A new entry comes.
LEMMA EntryComes ==
    ASSUME NEW n \in Nat, n >= 1, NEW G, NEW ws, NEW a, NEW record, NEW c, NEW old,
           NEW number, NEW id, IsStatement(ws, n, G, a, record, c, old, number, id),
           NEW disk \in Disks(n), NEW d \in Disks(n), NEW i \in a + 3 .. Len(ws),
           Stage(ws, n, G, a, c, old, number, id, disk, i - 1, d)
    PROVE  Stage(ws, n, G, a, c, old, number, id, disk, i, WriteStep(d, ws[i]))
  <1> DEFINE e == WriteStep(d, ws[i])
  <1>1. /\ ws \in Seq(Writes(n)) /\ a \in Nat /\ a + 2 <= Len(ws) /\ Len(ws) \in Nat
        /\ old \in Int /\ number \in Int /\ id \in Int
        /\ G \subseteq 2 .. n
    BY DEF IsStatement
  <1>2. PICK p \in G : ws[i] = ToPage(p, InsertCall(number, <<id>>))
    BY DEF IsStatement
  <1>3. p \in 1 .. n /\ p # TablePage /\ p # 0 /\ TablePage \in 1 .. n
    BY <1>1, <1>2 DEF TablePage
  <1>4. i \in 1 .. Len(ws) /\ i \in Nat
    BY <1>1
  <1>5. WriteIs(d, ws[i], e)
    BY <1>1, <1>4, WriteKeepsDisk
  <1>6. ws[i].page = p /\ ws[i].does = InsertCall(number, <<id>>)
    BY <1>2 DEF ToPage
  <1>7. /\ e.log = d.log
        /\ e.pages = [d.pages EXCEPT ![p] = Call(@, InsertCall(number, <<id>>))]
    BY <1>3, <1>5, <1>6 DEF WriteIs
  <1> DEFINE x == d.pages[p]
  <1>8. Call(x, InsertCall(number, <<id>>)) = btree_insert(x, number, <<id>>)
    BY DEF Call, InsertCall
  <1>9. x \in LeafOver(Int, Cells)
    BY <1>3 DEF Disks, Proper
  <1>10. /\ e.pages[p] = btree_insert(x, number, <<id>>)
         /\ \A q \in 1 .. n : q # p => e.pages[q] = d.pages[q]
    <2> HIDE DEF e
    <2>1. d.pages \in [1 .. n -> Proper(Cells)]
      BY DEF Disks
    <2>2. QED
      BY <1>3, <1>7, <1>8, <2>1
  <1> HIDE DEF e
  <1>11. /\ btree_search(e.pages[p], number) \in {<<id>>, btree_search(x, number)}
         /\ \A k \in Int : k # number =>
                btree_search(e.pages[p], k) = btree_search(x, k)
    <2>1. <<id>> \in Cells
      BY <1>1, EntryIs
    <2>2. QED
      BY <1>1, <1>9, <1>10, <2>1, InsertShowsOthers
  <1>12. /\ Len(d.log) >= Len(disk.log) + HeaderSize
         /\ Len(d.log) >= Len(disk.log)
         /\ \A q \in 2 .. n : q \notin G => d.pages[q] = disk.pages[q]
         /\ d.pages[TablePage] = Call(disk.pages[TablePage], c)
    <2>1. i - 1 >= a + 1 /\ i - 1 >= a + 2
      BY <1>1
    <2>2. QED
      BY <2>1 DEF Stage
  <1>13. \A q \in G, k \in Int :
             \/ btree_search(d.pages[q], k) = NoRow
             \/ btree_search(d.pages[q], k) = btree_search(disk.pages[q], k)
             \/ k = number /\ btree_search(d.pages[q], k) = <<id>>
    BY DEF Stage
  <1>14. \A j \in 1 .. a, q \in G : ws[j] = ToPage(q, DeleteCall(old)) =>
             \/ btree_search(d.pages[q], old) = NoRow
             \/ old = number /\ btree_search(d.pages[q], old) = <<id>>
    <2>1. \A j \in 1 .. a : j <= i - 1
      BY <1>1
    <2>2. QED
      BY <2>1 DEF Stage
  <1>15. \A q \in 2 .. n : q \notin G => e.pages[q] = disk.pages[q]
    BY <1>2, <1>10, <1>12
  <1>16. e.pages[TablePage] = Call(disk.pages[TablePage], c)
    BY <1>3, <1>10, <1>12
  <1>17. ASSUME NEW q \in G, NEW k \in Int
         PROVE  \/ btree_search(e.pages[q], k) = NoRow
                \/ btree_search(e.pages[q], k) = btree_search(disk.pages[q], k)
                \/ k = number /\ btree_search(e.pages[q], k) = <<id>>
    <2>1. CASE q = p
      BY <2>1, <1>11, <1>13
    <2>2. CASE q # p
      BY <2>2, <1>1, <1>10, <1>13
    <2>3. QED
      BY <2>1, <2>2
  <1>18. ASSUME NEW j \in 1 .. a, NEW q \in G, ws[j] = ToPage(q, DeleteCall(old))
         PROVE  \/ btree_search(e.pages[q], old) = NoRow
                \/ old = number /\ btree_search(e.pages[q], old) = <<id>>
    <2>1. CASE q = p
      <3>1. \/ btree_search(x, old) = NoRow
            \/ old = number /\ btree_search(x, old) = <<id>>
        BY <2>1, <1>14, <1>18
      <3> HIDE DEF x
      <3>2. CASE old = number
        BY <2>1, <1>11, <3>1, <3>2
      <3>3. CASE old # number
        BY <2>1, <1>1, <1>11, <3>1, <3>3
      <3>4. QED
        BY <3>2, <3>3
    <2>2. CASE q # p
      <3>1. e.pages[q] = d.pages[q]
        BY <2>2, <1>1, <1>10
      <3>2. \/ btree_search(d.pages[q], old) = NoRow
            \/ old = number /\ btree_search(d.pages[q], old) = <<id>>
        BY <1>14, <1>18
      <3>3. QED
        BY <3>1, <3>2
    <2>3. QED
      BY <2>1, <2>2
  <1>19. i >= a + 3 /\ ~ (i < a + 2) /\ i >= a + 1
    BY <1>1
  <1>20. Len(e.log) >= Len(disk.log) /\ Len(e.log) >= Len(disk.log) + HeaderSize
    BY <1>7, <1>12
  <1> HIDE DEF x
  <1>21. Stage(ws, n, G, a, c, old, number, id, disk, i, e)
    BY <1>15, <1>16, <1>17, <1>18, <1>19, <1>20 DEF Stage
  <1>22. QED
    BY <1>21 DEF e

\* So after the first done writes the disk is at that stage.
LEMMA StatementReaches ==
    ASSUME NEW n \in Nat, n >= 1, NEW G, NEW ws, NEW a, NEW record, NEW c, NEW old,
           NEW number, NEW id, IsStatement(ws, n, G, a, record, c, old, number, id),
           NEW disk \in Disks(n), NEW done \in 0 .. Len(ws), NEW d,
           d = FoldLeft(WriteStep, disk, SubSeq(ws, 1, done))
    PROVE  d \in Disks(n) /\ Stage(ws, n, G, a, c, old, number, id, disk, done, d)
  <1> DEFINE St(i, x) == Stage(ws, n, G, a, c, old, number, id, disk, i, x)
             I == [i \in 0 .. Len(ws) |-> {x \in Disks(n) : St(i, x)}]
  <1>1. ws \in Seq(Writes(n)) /\ a \in Nat /\ Len(ws) \in Nat
    BY DEF IsStatement
  <1>2. St(0, disk)
    <2>1. Len(disk.log) \in Nat
      BY DEF Disks
    <2>2. ~ (0 >= a + 1) /\ ~ (0 >= a + 2) /\ 0 < a + 2 /\ \A j \in 1 .. a : ~ (j <= 0)
      BY <1>1
    <2>3. QED
      BY <2>1, <2>2 DEF Stage
  <1>3. ASSUME NEW i \in 1 .. Len(ws), NEW x \in Disks(n), St(i - 1, x)
        PROVE  St(i, WriteStep(x, ws[i]))
    <2>1. CASE i \in 1 .. a
      BY <1>3, <2>1, EntryGoes
    <2>2. CASE i = a + 1 \/ i = a + 2
      BY <1>3, <2>2, RowIsWritten
    <2>3. CASE i \in a + 3 .. Len(ws)
      BY <1>3, <2>3, EntryComes
    <2>4. i \in 1 .. a \/ i = a + 1 \/ i = a + 2 \/ i \in a + 3 .. Len(ws)
      BY <1>1
    <2>5. QED
      BY <2>1, <2>2, <2>3, <2>4
  <1> HIDE DEF St
  <1>4. disk \in I[0]
    BY <1>1, <1>2
  <1>5. \A i \in 1 .. Len(ws), x \in Disks(n) :
            x \in I[i - 1] => WriteStep(x, ws[i]) \in I[i]
    <2>1. SUFFICES ASSUME NEW i \in 1 .. Len(ws), NEW x \in Disks(n), x \in I[i - 1]
                   PROVE  WriteStep(x, ws[i]) \in I[i]
      OBVIOUS
    <2>2. i - 1 \in 0 .. Len(ws) /\ i \in 0 .. Len(ws)
      BY <1>1
    <2>3. St(i - 1, x)
      BY <2>1, <2>2
    <2>4. WriteStep(x, ws[i]) \in Disks(n)
      BY <1>1, WriteKeepsDisk
    <2>5. QED
      BY <1>3, <2>2, <2>3, <2>4
  <1> HIDE DEF I
  <1>6. d \in Disks(n) /\ d \in I[done]
    BY <1>1, <1>4, <1>5, WritesLead
  <1>7. QED
    BY <1>6 DEF I, St

-----------------------------------------------------------------------------
(* Rows as statements left them, and entries that fit to them.              *)

\* What lookups find under the ids in S was given by a statement.
RowsFit(node, gave, S) ==
    \A id \in S : btree_search(node, id) \in {NoRow, <<id, gave[id]>>}

\* An entry of a row in S is kept under the number the row was given.
PageFits(node, gave, S) ==
    \A k \in Int, id \in S : btree_search(node, k) = <<id>> => gave[id] = k

EntriesFit(ps, G, gave, S) == \A p \in G : PageFits(ps[p], gave, S)

\* The row that a statement inserts is seen, if there was room, and no other one
\* changes.
LEMMA RowComes ==
    ASSUME NEW n \in Proper(Contents), NEW id \in Ids, NEW number \in Numbers,
           NEW m, m = Call(n, InsertCall(id, <<id, number>>))
    PROVE  /\ \A k \in Int : k # id => btree_search(m, k) = btree_search(n, k)
           /\ btree_search(m, id) \in {<<id, number>>, btree_search(n, id)}
           /\ btree_search(n, id) # NoRow => btree_search(m, id) = <<id, number>>
  <1> DEFINE row == <<id, number>>
  <1>1. /\ id \in Int /\ row \in Contents
        /\ n \in LeafOver(Int, Contents)
    BY ConstantsAre DEF Proper
  <1>2. m = btree_insert(n, id, row)
    BY DEF Call, InsertCall
  <1> HIDE DEF row
  <1>3. /\ \A k \in Int : k # id => btree_search(m, k) = btree_search(n, k)
        /\ btree_search(m, id) \in {row, btree_search(n, id)}
    BY <1>1, <1>2, InsertShowsOthers
  <1>4. ASSUME btree_search(n, id) # NoRow
        PROVE  btree_search(m, id) = row
    <2>1. Present(n, id) /\ id # Tombstone
      BY <1>4 DEF btree_search
    <2>2. QED
      BY <1>1, <1>2, <2>1, ReplacedIsShown DEF Shows
  <1>5. QED
    BY <1>3, <1>4 DEF row

Fitting(disk, G, gave, S) ==
    RowsFit(disk.pages[TablePage], gave, S) /\ EntriesFit(disk.pages, G, gave, S)

\* The first done writes of a statement lead from disk to d.
Reached(ws, n, G, a, record, c, old, number, id, disk, done, d) ==
    /\ n \in Nat /\ n >= 1
    /\ IsStatement(ws, n, G, a, record, c, old, number, id)
    /\ disk \in Disks(n) /\ d \in Disks(n) /\ done \in 0 .. Len(ws)
    /\ Stage(ws, n, G, a, c, old, number, id, disk, done, d)

\* No statement has given the row a number before, or it is seen and the entries
\* under its number go first.
Replaces(ws, G, a, old, id, disk, gave) ==
    \/ gave[id] = NoNumber
    \/ /\ old \in Numbers
       /\ btree_search(disk.pages[TablePage], id) = <<id, old>>
       /\ \A p \in G : \E j \in 1 .. a : ws[j] = ToPage(p, DeleteCall(old))

\* The row is given its number when the table is written.
GivenBy(gave, id, number, a, done) ==
    IF done >= a + 2 THEN [gave EXCEPT ![id] = number] ELSE gave

\* An INSERT of a row that no statement has inserted, or an UPDATE of one that is
\* seen and whose entries all go first, leaves rows and entries that fit.
LEMMA WrittenFits ==
    ASSUME NEW n, NEW G, NEW ws, NEW a, NEW record, NEW old,
           NEW number \in Numbers, NEW id \in Ids, NEW disk, NEW d, NEW done,
           Reached(ws, n, G, a, record, InsertCall(id, <<id, number>>),
                   old, number, id, disk, done, d),
           NEW gave \in [Ids -> Numbers \cup {NoNumber}],
           NEW S \in SUBSET Ids, NEW S2 \in SUBSET S,
           Fitting(disk, G, gave, S),
           id \in S2 => Replaces(ws, G, a, old, id, disk, gave)
    PROVE  Fitting(d, G, GivenBy(gave, id, number, a, done), S2)
  <1> USE DEF Reached, Fitting, Replaces
  <1> DEFINE gave2 == GivenBy(gave, id, number, a, done)
  <1> DEFINE c    == InsertCall(id, <<id, number>>)
             old1 == disk.pages[TablePage]
             new1 == d.pages[TablePage]
  <1>1. /\ a \in Nat /\ Len(ws) \in Nat /\ done \in Nat
        /\ old \in Int /\ number \in Int /\ id \in Int /\ Ids \subseteq Int
        /\ NoNumber \notin Int /\ G \subseteq 2 .. n
    BY ConstantsAre DEF IsStatement
  <1>2. /\ done < a + 2 => new1 = old1 /\ gave2 = gave
        /\ done >= a + 2 => new1 = Call(old1, c) /\ gave2[id] = number
        /\ \A x \in Ids : x # id => gave2[x] = gave[x]
        /\ done < a + 2 \/ done >= a + 2
        /\ done >= a + 3 => done >= a + 2
    <2>1. done < a + 2 => ~ (done >= a + 2)
      BY <1>1
    <2>2. /\ done < a + 2 \/ done >= a + 2
          /\ done >= a + 3 => done >= a + 2
      BY <1>1
    <2>3. /\ done < a + 2 => new1 = old1
          /\ done >= a + 2 => new1 = Call(old1, c)
      BY DEF Stage
    <2>4. gave2 = IF done >= a + 2 THEN [gave EXCEPT ![id] = number] ELSE gave
      BY DEF GivenBy
    <2> HIDE DEF gave2
    <2>5. QED
      BY <2>1, <2>2, <2>3, <2>4
  <1> HIDE DEF gave2
  <1>3. old1 \in Proper(Contents)
    BY DEF Disks
  <1>4. \A x \in S : btree_search(old1, x) \in {NoRow, <<x, gave[x]>>}
    BY DEF RowsFit
  <1>5. /\ \A p \in G, k \in Int, x \in S :
              btree_search(disk.pages[p], k) = <<x>> => gave[x] = k
    BY DEF EntriesFit, PageFits
  <1>6. id \in S2 => btree_search(old1, id) = NoRow \/ (gave[id] = old /\ old \in Numbers)
    <2>1. SUFFICES ASSUME id \in S2, btree_search(old1, id) # NoRow
                   PROVE  gave[id] = old /\ old \in Numbers
      OBVIOUS
    <2>2. btree_search(old1, id) = <<id, gave[id]>>
      BY <1>4, <2>1
    <2>3. btree_search(old1, id) \in Contents
      <3>1. Present(old1, id) /\ btree_search(old1, id) = old1.values[Min(Matches(old1, id))]
        BY <2>1 DEF btree_search
      <3>2. old1 \in LeafOver(Int, Contents) /\ Int \in SUBSET Int
        BY <1>3 DEF Proper
      <3> HIDE DEF old1
      <3>3. Min(Matches(old1, id)) \in Used(old1)
        BY <3>1, <3>2, FirstMatchOver
      <3>4. /\ old1.values \in [1 .. Slots -> Contents]
            /\ Used(old1) \subseteq 1 .. Slots
        BY <3>2, PartsOver
      <3>5. QED
        BY <3>1, <3>3, <3>4
    <2>4. gave[id] # NoNumber
      BY <2>2, <2>3, ConstantsAre
    <2>5. old \in Numbers /\ btree_search(old1, id) = <<id, old>>
      BY <2>1, <2>4
    <2>6. QED
      BY <2>2, <2>5
  <1>7. RowsFit(new1, gave2, S2)
    <2>1. SUFFICES ASSUME NEW x \in S2
                   PROVE  btree_search(new1, x) \in {NoRow, <<x, gave2[x]>>}
      BY DEF RowsFit
    <2>2. x \in Ids /\ x \in S /\ x \in Int
      BY <1>1
    <2>3. CASE done < a + 2
      <3>1. new1 = old1 /\ gave2 = gave
        BY <1>2, <2>3
      <3>2. QED
        BY <1>4, <2>2, <3>1
    <2>4. CASE done >= a + 2
      <3> DEFINE row == <<id, number>>
      <3>1. /\ \A k \in Int : k # id => btree_search(new1, k) = btree_search(old1, k)
            /\ btree_search(new1, id) \in {row, btree_search(old1, id)}
            /\ btree_search(old1, id) # NoRow => btree_search(new1, id) = row
        BY <1>2, <1>3, <2>4, RowComes
      <3>2. CASE x = id
        <4>1. gave2[id] = number
          BY <1>2, <2>4
        <4>2. btree_search(new1, id) \in {NoRow, row}
          BY <3>1
        <4>3. QED
          BY <3>2, <4>1, <4>2
      <3>3. CASE x # id
        <4>1. gave2[x] = gave[x]
          BY <1>2, <2>2, <3>3
        <4>2. btree_search(new1, x) = btree_search(old1, x)
          BY <2>2, <3>1, <3>3
        <4> HIDE DEF new1, old1
        <4>3. QED
          BY <1>4, <2>2, <4>1, <4>2
      <3>4. QED
        BY <3>2, <3>3
    <2>5. QED
      BY <1>2, <2>3, <2>4
  <1>8. EntriesFit(d.pages, G, gave2, S2)
    <2>1. SUFFICES ASSUME NEW p \in G, NEW k \in Int, NEW x \in S2,
                          btree_search(d.pages[p], k) = <<x>>
                   PROVE  gave2[x] = k
      BY DEF EntriesFit, PageFits
    <2>2. x \in Ids /\ x \in S /\ x \in Int /\ <<x>> # NoRow
      BY <1>1, IdsEntries
    <2>3. \/ btree_search(disk.pages[p], k) = <<x>>
          \/ done >= a + 3 /\ k = number /\ <<x>> = <<id>>
      BY <2>1, <2>2 DEF Stage
    <2>4. CASE done >= a + 3 /\ k = number /\ <<x>> = <<id>>
      <3>1. x = id
        BY <2>4
      <3>2. QED
        BY <1>2, <2>4, <3>1
    <2>5. CASE btree_search(disk.pages[p], k) = <<x>>
      <3>1. gave[x] = k
        BY <1>5, <2>2, <2>5
      <3>2. CASE x # id
        BY <1>2, <2>2, <3>1, <3>2
      <3>3. CASE x = id /\ done < a + 2
        BY <1>2, <3>1, <3>3
      <3>4. CASE x = id /\ done >= a + 2
        <4>1. gave[id] # NoNumber
          BY <1>1, <3>1, <3>4
        <4>2. /\ old \in Numbers
              /\ btree_search(old1, id) = <<id, old>>
              /\ \A q \in G : \E j \in 1 .. a : ws[j] = ToPage(q, DeleteCall(old))
          BY <2>1, <3>4, <4>1
        <4>3. btree_search(old1, id) # NoRow
          BY <4>2, ConstantsAre
        <4>4. gave[id] = old
          BY <1>6, <3>4, <4>3
        <4>5. PICK j \in 1 .. a : ws[j] = ToPage(p, DeleteCall(old))
          BY <4>2
        <4>6. j <= done
          BY <1>1, <3>4
        <4>7. \/ btree_search(d.pages[p], old) = NoRow
              \/ old = number
          BY <4>5, <4>6 DEF Stage
        <4>8. old = number
          BY <2>1, <2>2, <3>1, <3>4, <4>4, <4>7
        <4>9. QED
          BY <1>2, <3>1, <3>4, <4>4, <4>8
      <3>5. QED
        BY <1>2, <3>2, <3>3, <3>4
    <2>6. QED
      BY <2>3, <2>4, <2>5
  <1>9. QED
    BY <1>7, <1>8 DEF gave2

\* And so does a DELETE.
LEMMA DeletedFits ==
    ASSUME NEW n, NEW G, NEW ws, NEW a, NEW record, NEW old,
           NEW number, NEW id \in Ids, NEW disk, NEW d, NEW done,
           Reached(ws, n, G, a, record, DeleteCall(id), old, number, id,
                   disk, done, d),
           Len(ws) = a + 2,
           NEW gave, NEW S \in SUBSET Ids, Fitting(disk, G, gave, S)
    PROVE  Fitting(d, G, gave, S)
  <1> USE DEF Reached, Fitting
  <1> DEFINE old1 == disk.pages[TablePage]
             new1 == d.pages[TablePage]
  <1>1. /\ a \in Nat /\ done \in Nat /\ ~ (done >= a + 3) /\ G \subseteq 2 .. n
        /\ Ids \subseteq Int /\ id \in Int
        /\ done < a + 2 \/ done >= a + 2
    BY ConstantsAre DEF IsStatement
  <1>2. old1 \in Proper(Contents)
    BY DEF Disks
  <1>3. \A k \in Int : btree_search(new1, k) \in {NoRow, btree_search(old1, k)}
    <2>1. CASE done < a + 2
      BY <2>1 DEF Stage
    <2>2. CASE done >= a + 2
      <3>1. new1 = Call(old1, DeleteCall(id))
        BY <2>2 DEF Stage
      <3>2. new1 = btree_delete(old1, id)
        BY <3>1 DEF Call, DeleteCall
      <3> HIDE DEF new1, old1
      <3>3. QED
        BY <1>1, <1>2, <3>2, LeavesOver, DeletedIsGone
    <2>3. QED
      BY <1>1, <2>1, <2>2
  <1>4. RowsFit(new1, gave, S)
    <2>1. \A x \in S : btree_search(old1, x) \in {NoRow, <<x, gave[x]>>}
      BY DEF RowsFit
    <2> HIDE DEF new1, old1
    <2>2. QED
      BY <1>1, <1>3, <2>1 DEF RowsFit
  <1>5. EntriesFit(d.pages, G, gave, S)
    <2>1. SUFFICES ASSUME NEW p \in G, NEW k \in Int, NEW x \in S,
                          btree_search(d.pages[p], k) = <<x>>
                   PROVE  gave[x] = k
      BY DEF EntriesFit, PageFits
    <2>2. <<x>> # NoRow
      BY IdsEntries
    <2>3. btree_search(disk.pages[p], k) = <<x>>
      BY <1>1, <2>1, <2>2 DEF Stage
    <2>4. QED
      BY <2>3 DEF EntriesFit, PageFits
  <1>6. QED
    BY <1>4, <1>5


-----------------------------------------------------------------------------
(* The invariant.                                                           *)

Disk == [log |-> log, pages |-> pages]

StateInv ==
    /\ up \in BOOLEAN /\ locked \in BOOLEAN
    /\ current_tx_id \in 0 .. MaxTx
    /\ lsn \in Bytes /\ HeaderSize * lsn <= Len(log)
    /\ Len(pages) \in 1 .. MaxPages /\ Disk \in Disks(Len(pages))
    /\ indexes \in Seq(IndexRecords) /\ Len(indexes) <= MaxIndexes
    /\ \A i \in DOMAIN indexes : indexes[i].page \in 2 .. Len(pages)
    /\ session \in 1 .. Sessions + 1
    /\ given \in [Ids -> Numbers \cup {NoNumber}]

\* Rows and entries fit to what statements gave to the rows in S; an index that
\* is not on an INT column has no entries and no page in common with one that is.
Fits(ps, ixs, gave, S) ==
    /\ RowsFit(ps[TablePage], gave, S)
    /\ EntriesFit(ps, IntPages(ixs), gave, S)
    /\ \A p \in NamePages(ixs) : ps[p].num_keys = 0 /\ p \notin IntPages(ixs)

FitInv == Fits(pages, indexes, given, Ids \ again)

\* The parts of the invariant the proofs below need.
LEMMA StateParts ==
    ASSUME StateInv
    PROVE  /\ Len(pages) \in Nat /\ Len(pages) >= 1 /\ Len(pages) <= MaxPages
           /\ TablePage \in 1 .. Len(pages) /\ DOMAIN pages = 1 .. Len(pages)
           /\ pages \in [1 .. Len(pages) -> Proper(Cells)]
           /\ table \in Proper(Contents)
           /\ log \in Seq(Bytes) /\ Len(log) \in Nat
           /\ Disk \in Disks(Len(pages)) /\ Disk.log = log /\ Disk.pages = pages
           /\ lsn \in Bytes /\ current_tx_id \in Bytes /\ lsn + 1 \in Int
           /\ IntPages(indexes) \subseteq 2 .. Len(pages)
           /\ NamePages(indexes) \subseteq 2 .. Len(pages)
           /\ Len(indexes) \in Nat /\ DOMAIN indexes = 1 .. Len(indexes)
           /\ HeaderSize * lsn <= Len(log)
  <1>1. /\ Len(pages) \in 1 .. MaxPages /\ Disk \in Disks(Len(pages))
        /\ indexes \in Seq(IndexRecords) /\ lsn \in Bytes
        /\ current_tx_id \in 0 .. MaxTx /\ HeaderSize * lsn <= Len(log)
        /\ \A i \in DOMAIN indexes : indexes[i].page \in 2 .. Len(pages)
    BY DEF StateInv
  <1>2. Disk.log = log /\ Disk.pages = pages
    BY DEF Disk
  <1>3. /\ pages \in [1 .. Len(pages) -> Proper(Cells)]
        /\ table \in Proper(Contents) /\ log \in Seq(Bytes)
    BY <1>1, <1>2 DEF Disks, table
  <1>4. /\ Len(pages) \in Nat /\ Len(pages) >= 1 /\ Len(pages) <= MaxPages
        /\ TablePage \in 1 .. Len(pages)
    BY <1>1, ConstantsAre DEF TablePage
  <1>5. DOMAIN pages = 1 .. Len(pages)
    BY <1>3
  <1>6. current_tx_id \in Bytes
    BY <1>1, ConstantsAre, ByteIs
  <1>7. lsn + 1 \in Int
    BY <1>1, ByteIs
  <1>8. IntPages(indexes) \subseteq 2 .. Len(pages)
        /\ NamePages(indexes) \subseteq 2 .. Len(pages)
    BY <1>1 DEF IntPages, NamePages
  <1>9. Len(log) \in Nat /\ Len(indexes) \in Nat /\ DOMAIN indexes = 1 .. Len(indexes)
    BY <1>1, <1>3
  <1>10. QED
    BY <1>1, <1>2, <1>3, <1>4, <1>5, <1>6, <1>7, <1>8, <1>9

\* A page without rows shows none.
LEMMA NoRowsShown ==
    ASSUME NEW m, m.num_keys = 0, NEW k
    PROVE  btree_search(m, k) = NoRow /\ LiveKeys(m) = {} /\ Used(m) = {}
  <1>1. Used(m) = {}
    BY DEF Used
  <1>2. QED
    BY <1>1 DEF btree_search, Present, Matches, LiveKeys

\* What may be in the frame of a new page is a leaf, and so is the new root.
LEMMA NewRootIs ==
    ASSUME NEW C, NEW old \in LeafOver(Int, C)
    PROVE  NewRoot(old) \in Proper(C) /\ NewRoot(old).num_keys = 0
  <1> DEFINE m == [num_keys |-> 0, keys |-> old.keys, values |-> old.values]
  <1>1. NewRoot(old) = m
    <2>1. old = [num_keys |-> old.num_keys, keys |-> old.keys, values |-> old.values]
      BY PartsOver
    <2>2. NewRoot(old) = [old EXCEPT !.num_keys = 0]
      BY DEF NewRoot, Formatted
    <2>3. QED
      BY <2>1, <2>2
  <1>2. m \in LeafOver(Int, C)
    <2>1. old.keys \in [1 .. Slots -> Int] /\ old.values \in [1 .. Slots -> C]
      BY PartsOver
    <2>2. 0 \in 0 .. Slots
      BY SlotsAssumption
    <2>3. QED
      BY <2>1, <2>2 DEF LeafOver
  <1>3. Used(m) = {}
    BY DEF Used
  <1>4. m \in Proper(C)
    BY <1>2, <1>3 DEF Proper, OneSlotEach
  <1>5. QED
    BY <1>1, <1>4

\* Whatever a frame held is a leaf, over what the page of an index may hold.
LEMMA LeavesAreCells == AnyNode \subseteq LeafOver(Int, Cells)
  <1>1. \A f \in [1 .. Slots -> Contents] : f \in [1 .. Slots -> Cells]
    BY ConstantsAre
  <1>2. QED
    BY <1>1, LeavesOver DEF LeafOver

\* What the frame of a new page held.
LEMMA OldFrameIs ==
    ASSUME StateInv, NEW old \in Range(pages) \cup OldPages
    PROVE  old \in LeafOver(Int, Cells)
  <1>1. CASE old \in OldPages
    <2>1. old \in AnyNode
      BY <1>1, ConstantsAre
    <2>2. QED
      BY <2>1, LeavesAreCells
  <1>2. CASE old \in Range(pages)
    <2>1. /\ DOMAIN pages = 1 .. Len(pages)
          /\ pages \in [1 .. Len(pages) -> Proper(Cells)]
      BY StateParts
    <2>2. old \in Proper(Cells)
      BY <1>2, <2>1 DEF Range
    <2>3. QED
      BY <2>2 DEF Proper
  <1>3. QED
    BY <1>1, <1>2

LEMMA InitFits == InitIndex => StateInv /\ FitInv
  <1> SUFFICES ASSUME InitIndex
               PROVE  StateInv /\ FitInv
    OBVIOUS
  <1> DEFINE root == NewRoot(ZeroPage)
  <1>1. root \in Proper(Contents) /\ root \in Proper(Cells) /\ root.num_keys = 0
    <2>1. ZeroPage \in LeafOver(Int, Contents)
      BY ZeroPageIs
    <2>2. root \in Proper(Contents) /\ root.num_keys = 0
      BY <2>1, NewRootIs
    <2> HIDE DEF root
    <2>3. QED
      BY <2>2, CallKeepsProper
  <1>2. /\ up = TRUE /\ locked = FALSE /\ current_tx_id = 0 /\ lsn = 0
        /\ log = << >> /\ pages = << root >> /\ indexes = << >> /\ session = 1
        /\ given = [id \in Ids |-> NoNumber]
    BY DEF InitIndex
  <1> HIDE DEF root
  <1>3. Len(pages) = 1 /\ pages \in [1 .. 1 -> Proper(Cells)] /\ pages[1] = root
    BY <1>1, <1>2
  <1>4. log \in Seq(Bytes) /\ Len(log) = 0
    BY <1>2
  <1>5. Disk \in Disks(1)
    BY <1>1, <1>3, <1>4 DEF Disk, Disks, TablePage
  <1>6. current_tx_id \in 0 .. MaxTx /\ lsn \in Bytes /\ HeaderSize * lsn <= Len(log)
    <2>1. MaxTx \in Int /\ 0 <= MaxTx
      BY ConstantsAre, ByteIs
    <2>2. 0 \in Bytes
      BY ByteIs
    <2>3. QED
      BY <1>2, <1>4, <2>1, <2>2 DEF HeaderSize
  <1>7. /\ indexes \in Seq(IndexRecords) /\ Len(indexes) <= MaxIndexes
        /\ DOMAIN indexes = {}
    BY <1>2, ConstantsAre
  <1>8. session \in 1 .. Sessions + 1 /\ 1 \in 1 .. MaxPages
    BY <1>2, ConstantsAre
  <1>9. given \in [Ids -> Numbers \cup {NoNumber}]
    BY <1>2
  <1>10. StateInv
    BY <1>2, <1>3, <1>5, <1>6, <1>7, <1>8, <1>9 DEF StateInv
  <1>11. IntPages(indexes) = {} /\ NamePages(indexes) = {}
    BY <1>7 DEF IntPages, NamePages
  <1>12. RowsFit(pages[TablePage], given, Ids \ again)
    BY <1>1, <1>3, NoRowsShown DEF RowsFit, TablePage
  <1>13. FitInv
    BY <1>11, <1>12 DEF FitInv, Fits, EntriesFit
  <1>14. QED
    BY <1>10, <1>13

\* Fewer rows or indexes fit as well.
LEMMA FitsLess ==
    ASSUME NEW ps, NEW ixs, NEW gave, NEW S, Fits(ps, ixs, gave, S),
           NEW ixs2, NEW S2 \in SUBSET S,
           IntPages(ixs2) \subseteq IntPages(ixs),
           NamePages(ixs2) \subseteq NamePages(ixs)
    PROVE  Fits(ps, ixs2, gave, S2)
  <1>1. RowsFit(ps[TablePage], gave, S2)
    BY DEF Fits, RowsFit
  <1>2. EntriesFit(ps, IntPages(ixs2), gave, S2)
    BY DEF Fits, EntriesFit, PageFits
  <1>3. \A p \in NamePages(ixs2) : ps[p].num_keys = 0 /\ p \notin IntPages(ixs2)
    BY DEF Fits
  <1>4. QED
    BY <1>1, <1>2, <1>3 DEF Fits

\* The next disk has as many pages.
LEMMA NextDisk ==
    ASSUME NEW n \in Nat, NEW d \in Disks(n), NEW l, NEW ps,
           l = d.log, ps = d.pages
    PROVE  /\ d = [log |-> l, pages |-> ps]
           /\ Len(ps) = n /\ ps \in [1 .. n -> Proper(Cells)]
           /\ l \in Seq(Bytes) /\ Len(l) \in Nat
  <1>1. /\ d = [log |-> d.log, pages |-> d.pages]
        /\ d.log \in Seq(Bytes) /\ d.pages \in [1 .. n -> Proper(Cells)]
    BY DEF Disks
  <1>2. Len(ps) = n
    BY <1>1, PagesAre
  <1>3. Len(l) \in Nat
    BY <1>1
  <1>4. QED
    BY <1>1, <1>2, <1>3

\* BEGIN and COMMIT write a header.
LEMMA ShortRecordFits ==
    ASSUME StateInv, FitInv, Begin \/ Commit
    PROVE  StateInv' /\ FitInv'
  <1>1. /\ lsn \in Bytes /\ log \in Seq(Bytes) /\ Len(log) \in Nat
        /\ pages \in [1 .. Len(pages) -> Proper(Cells)] /\ table \in Proper(Contents)
        /\ HeaderSize * lsn <= Len(log) /\ Len(pages) \in Nat
    BY StateParts
  <1>2. current_tx_id \in Int /\ 0 <= current_tx_id /\ current_tx_id <= MaxTx
        /\ MaxTx \in Int /\ MaxTx <= 255 /\ Pads \subseteq Bytes
    <2>1. current_tx_id \in 0 .. MaxTx
      BY DEF StateInv
    <2>2. MaxTx \in Int /\ MaxTx <= 255 /\ Pads \subseteq Bytes
      BY ConstantsAre, ByteIs
    <2>3. QED
      BY <2>1, <2>2
  <1>3. \E type \in 0 .. 4, pad \in Pads :
            /\ log' = log \o FlattenSeq(<< LogRecordHeader(lsn, type,
                                                current_tx_id', 0, pad) >>)
            /\ current_tx_id' \in 0 .. MaxTx
            /\ lsn' = lsn + 1 /\ locked' \in BOOLEAN /\ up' = up
            /\ Len(log) < MaxLog
            /\ UNCHANGED <<pages, indexes, session, given, again>>
    <2>1. CASE Begin
      <3>1. /\ current_tx_id' = current_tx_id + 1 /\ current_tx_id < MaxTx
            /\ lsn' = lsn + 1 /\ locked' = TRUE /\ up' = up /\ Len(log) < MaxLog
            /\ UNCHANGED <<pages, indexes, session, given, again>>
        BY <2>1 DEF Begin, ghosts
      <3>2. PICK pad \in Pads :
                log' = log \o FlattenSeq(wal_log_begin(lsn, current_tx_id + 1, pad))
        BY <2>1 DEF Begin
      <3>3. current_tx_id' \in 0 .. MaxTx
        BY <1>2, <3>1
      <3>4. QED
        BY <3>1, <3>2, <3>3, TypesOfRecords DEF wal_log_begin
    <2>2. CASE Commit
      <3>1. /\ current_tx_id' = current_tx_id
            /\ lsn' = lsn + 1 /\ locked' = FALSE /\ up' = up /\ Len(log) < MaxLog
            /\ UNCHANGED <<pages, indexes, session, given, again>>
        BY <2>2 DEF Commit, ghosts, MayWrite
      <3>2. PICK pad \in Pads :
                log' = log \o FlattenSeq(wal_log_commit(lsn, current_tx_id, pad))
        BY <2>2 DEF Commit
      <3>3. current_tx_id' \in 0 .. MaxTx
        BY <3>1 DEF StateInv
      <3>4. QED
        BY <3>1, <3>2, <3>3, TypesOfRecords DEF wal_log_commit
    <2>3. QED
      BY <2>1, <2>2
  <1>4. PICK type \in 0 .. 4, pad \in Pads :
            /\ log' = log \o FlattenSeq(<< LogRecordHeader(lsn, type,
                                                current_tx_id', 0, pad) >>)
            /\ current_tx_id' \in 0 .. MaxTx
            /\ lsn' = lsn + 1 /\ locked' \in BOOLEAN /\ up' = up
            /\ Len(log) < MaxLog
            /\ UNCHANGED <<pages, indexes, session, given, again>>
    BY <1>3
  <1> DEFINE bytes == FlattenSeq(<< LogRecordHeader(lsn, type, current_tx_id', 0, pad) >>)
  <1>5. bytes \in Seq(Bytes) /\ Len(bytes) = HeaderSize
    <2>1. current_tx_id' \in Bytes
      BY <1>2, <1>4, ByteIs
    <2>2. QED
      BY <1>1, <1>2, <1>4, <2>1, ShortRecordIsWritten
  <1> HIDE DEF bytes
  <1>6. log' = log \o bytes
    BY <1>4 DEF bytes
  <1>7. log' \in Seq(Bytes) /\ Len(log') \in Nat /\ Len(log') >= Len(log) + HeaderSize
    <2>1. log' \in Seq(Bytes) /\ Len(log') = Len(log) + Len(bytes)
      BY <1>1, <1>5, <1>6, JoinedLength
    <2>2. QED
      BY <1>1, <1>5, <2>1 DEF HeaderSize
  <1>8. lsn' \in Bytes /\ HeaderSize * lsn' <= Len(log')
    BY <1>1, <1>4, <1>7, LsnStaysByte
  <1>9. Disk' \in Disks(Len(pages))
    BY <1>1, <1>4, <1>7 DEF Disk, Disks, table
  <1>10. StateInv'
    BY <1>4, <1>8, <1>9 DEF StateInv
  <1>11. FitInv'
    BY <1>4 DEF FitInv
  <1>12. QED
    BY <1>10, <1>11

\* What is left of a sequence without one of its elements.
LEMMA RemovedIs ==
    ASSUME NEW T, NEW s \in Seq(T), NEW i \in 1 .. Len(s)
    PROVE  /\ RemoveAt(s, i) \in Seq(T) /\ Len(RemoveAt(s, i)) = Len(s) - 1
           /\ \A j \in 1 .. Len(RemoveAt(s, i)) :
                 \E k \in 1 .. Len(s) : RemoveAt(s, i)[j] = s[k]
  <1> DEFINE x == SubSeq(s, 1, i - 1)
             y == SubSeq(s, i + 1, Len(s))
  <1>1. Len(s) \in Nat /\ i \in Nat /\ 1 <= i /\ i <= Len(s)
    OBVIOUS
  <1>2. /\ x \in Seq(T) /\ Len(x) = i - 1
        /\ \A j \in 1 .. Len(x) : x[j] = s[j]
    BY <1>1
  <1>3. /\ y \in Seq(T) /\ Len(y) = Len(s) - i
        /\ \A j \in 1 .. Len(y) : y[j] = s[i + j]
    <2>1. y \in Seq(T) /\ Len(y) = Len(s) - i
      BY <1>1, SubSeqProperties
    <2>2. \A j \in 1 .. Len(s) - i : y[j] = s[(i + 1) + j - 1]
      BY <1>1, SubSeqProperties
    <2>3. \A j \in 1 .. Len(s) - i : (i + 1) + j - 1 = i + j
      BY <1>1
    <2> HIDE DEF y
    <2>4. QED
      BY <2>1, <2>2, <2>3
  <1>4. RemoveAt(s, i) = x \o y
    BY DEF RemoveAt
  <1> HIDE DEF x, y
  <1> DEFINE r == RemoveAt(s, i)
  <1>5. /\ r \in Seq(T) /\ Len(r) = Len(x) + Len(y)
        /\ \A j \in 1 .. Len(x) : r[j] = x[j]
        /\ \A j \in 1 .. Len(y) : r[Len(x) + j] = y[j]
    <2>1. x \in Seq(T) /\ y \in Seq(T)
      BY <1>2, <1>3
    <2>2. /\ x \o y \in Seq(T) /\ Len(x \o y) = Len(x) + Len(y)
          /\ \A j \in 1 .. Len(x) : (x \o y)[j] = x[j]
          /\ \A j \in 1 .. Len(y) : (x \o y)[Len(x) + j] = y[j]
      BY <2>1, Concatenated
    <2>3. QED
      BY <1>4, <2>2
  <1> HIDE DEF r
  <1>6. ASSUME NEW j \in 1 .. Len(r)
        PROVE  \E k \in 1 .. Len(s) : r[j] = s[k]
    <2>1. CASE j <= Len(x)
      <3>1. j \in 1 .. Len(x) /\ j \in 1 .. Len(s)
        BY <1>1, <1>2, <2>1
      <3>2. QED
        BY <1>2, <1>5, <3>1
    <2>2. CASE j > Len(x)
      <3> DEFINE m == j - Len(x)
      <3>1. m \in 1 .. Len(y) /\ j = Len(x) + m /\ i + m \in 1 .. Len(s)
        BY <1>1, <1>2, <1>3, <1>5, <2>2
      <3> HIDE DEF m
      <3>2. r[j] = s[i + m]
        BY <1>3, <1>5, <3>1
      <3>3. QED
        BY <3>1, <3>2
    <2>3. QED
      BY <1>1, <1>2, <2>1, <2>2
  <1>7. Len(r) = Len(s) - 1
    BY <1>1, <1>2, <1>3, <1>5
  <1>8. QED
    BY <1>5, <1>6, <1>7 DEF r

LEMMA DropIndexFits ==
    ASSUME StateInv, FitInv, NEW i \in DOMAIN indexes, DropIndex(i)
    PROVE  StateInv' /\ FitInv'
  <1>1. /\ indexes' = RemoveAt(indexes, i)
        /\ UNCHANGED <<up, locked, current_tx_id, lsn, log, pages, session, given, again>>
    BY DEF DropIndex, memory, ghosts
  <1>2. indexes \in Seq(IndexRecords) /\ Len(indexes) <= MaxIndexes
        /\ Len(indexes) \in Nat /\ DOMAIN indexes = 1 .. Len(indexes)
        /\ MaxIndexes \in Nat
    <2>1. indexes \in Seq(IndexRecords) /\ Len(indexes) <= MaxIndexes
      BY DEF StateInv
    <2>2. QED
      BY <2>1, ConstantsAre
  <1>3. /\ indexes' \in Seq(IndexRecords) /\ Len(indexes') = Len(indexes) - 1
        /\ \A j \in 1 .. Len(indexes') :
               \E k \in 1 .. Len(indexes) : indexes'[j] = indexes[k]
    <2> DEFINE r == RemoveAt(indexes, i)
    <2>1. indexes \in Seq(IndexRecords) /\ i \in 1 .. Len(indexes)
      BY <1>2
    <2>2. /\ r \in Seq(IndexRecords) /\ Len(r) = Len(indexes) - 1
          /\ \A j \in 1 .. Len(r) : \E k \in 1 .. Len(indexes) : r[j] = indexes[k]
      BY <2>1, RemovedIs
    <2> HIDE DEF r
    <2>3. indexes' = r
      BY <1>1 DEF r
    <2>4. QED
      BY <2>2, <2>3
  <1>4. /\ DOMAIN indexes' = 1 .. Len(indexes') /\ Len(indexes') \in Nat
    BY <1>3
  <1>5. /\ \A j \in DOMAIN indexes' : indexes'[j].page \in 2 .. Len(pages)
        /\ IntPages(indexes') \subseteq IntPages(indexes)
        /\ NamePages(indexes') \subseteq NamePages(indexes)
    <2>1. \A j \in DOMAIN indexes' : \E k \in DOMAIN indexes : indexes'[j] = indexes[k]
      BY <1>2, <1>3, <1>4
    <2>2. \A k \in DOMAIN indexes : indexes[k].page \in 2 .. Len(pages)
      BY DEF StateInv
    <2>3. QED
      BY <2>1, <2>2 DEF IntPages, NamePages
  <1>6. Len(indexes') <= MaxIndexes
    BY <1>2, <1>3
  <1>7. Disk' = Disk
    BY <1>1 DEF Disk
  <1>8. StateInv'
    BY <1>1, <1>3, <1>5, <1>6, <1>7 DEF StateInv
  <1>9. FitInv'
    <2>1. Fits(pages, indexes', given, Ids \ again)
      BY <1>5, FitsLess DEF FitInv
    <2>2. QED
      BY <1>1, <2>1 DEF FitInv
  <1>10. QED
    BY <1>8, <1>9

\* Closing or dying forgets what was in memory.
LEMMA CloseFits ==
    ASSUME StateInv, FitInv, Close
    PROVE  StateInv' /\ FitInv'
  <1>1. /\ up' = FALSE /\ locked' = FALSE /\ current_tx_id' = 0 /\ lsn' = 0
        /\ UNCHANGED <<log, pages, indexes, session, given, again>>
    BY DEF Close, Forget, ghosts
  <1>2. current_tx_id' \in 0 .. MaxTx /\ lsn' \in Bytes /\ HeaderSize * lsn' <= Len(log')
    <2>1. MaxTx \in Int /\ 0 <= MaxTx
      BY ConstantsAre, ByteIs
    <2>2. 0 \in Bytes
      BY ByteIs
    <2>3. Len(log) \in Nat
      BY StateParts
    <2>4. QED
      BY <1>1, <2>1, <2>2, <2>3 DEF HeaderSize
  <1>3. Disk' = Disk
    BY <1>1 DEF Disk
  <1>4. StateInv'
    BY <1>1, <1>2, <1>3 DEF StateInv
  <1>5. FitInv'
    BY <1>1 DEF FitInv
  <1>6. QED
    BY <1>4, <1>5

-----------------------------------------------------------------------------
(* The statements.                                                          *)

\* As far as a statement gets, the disk is at that stage.
LEMMA StatementKeepsState ==
    ASSUME StateInv, NEW ws, NEW a, NEW record, NEW c, NEW old, NEW number, NEW id,
           IsStatement(ws, Len(pages), IntPages(indexes), a, record, c,
                       old, number, id),
           NEW done \in 1 .. Len(ws), Statement(ws, done), Len(log) < MaxLog,
           given' \in [Ids -> Numbers \cup {NoNumber}]
    PROVE  /\ StateInv' /\ indexes' = indexes
           /\ Reached(ws, Len(pages), IntPages(indexes), a, record, c, old, number,
                      id, Disk, done, Disk')
  <1> DEFINE d == FoldLeft(WriteStep, Disk, SubSeq(ws, 1, done))
             n == Len(pages)
             G == IntPages(indexes)
  <1>1. /\ n \in Nat /\ n >= 1 /\ Disk \in Disks(n) /\ Disk.log = log
        /\ lsn \in Bytes /\ Len(log) \in Nat /\ HeaderSize * lsn <= Len(log)
    BY StateParts
  <1>2. /\ log' = d.log /\ pages' = d.pages
        /\ done = Len(ws) => lsn' = lsn + 1 /\ UNCHANGED <<up, locked, current_tx_id>>
        /\ done # Len(ws) => Forget
        /\ UNCHANGED <<indexes, session>>
    BY DEF Statement, Disk
  <1>3. Len(ws) \in Nat /\ a \in Nat /\ a + 2 <= Len(ws) /\ done \in 0 .. Len(ws)
    BY DEF IsStatement
  <1> HIDE DEF d
  <1>4. d \in Disks(n) /\ Stage(ws, n, G, a, c, old, number, id, Disk, done, d)
    BY <1>1, <1>3, StatementReaches DEF d
  <1>5. /\ Disk' = d /\ Len(pages') = n /\ log' \in Seq(Bytes) /\ Len(log') \in Nat
    <2>1. /\ d = [log |-> log', pages |-> pages']
          /\ Len(pages') = n /\ log' \in Seq(Bytes) /\ Len(log') \in Nat
      BY <1>1, <1>2, <1>4, NextDisk
    <2>2. QED
      BY <2>1 DEF Disk
  <1>6. ASSUME done = Len(ws)
        PROVE  StateInv'
    <2>1. done >= a + 1
      BY <1>3, <1>6
    <2>2. Len(log') >= Len(log) + HeaderSize
      BY <1>1, <1>2, <1>4, <2>1 DEF Stage
    <2>3. lsn' \in Bytes /\ HeaderSize * lsn' <= Len(log')
      BY <1>1, <1>2, <1>5, <1>6, <2>2, LsnStaysByte
    <2>4. /\ up' = up /\ locked' = locked /\ current_tx_id' = current_tx_id
          /\ indexes' = indexes /\ session' = session
      BY <1>2, <1>6
    <2>5. StateInv'
      BY <1>4, <1>5, <2>3, <2>4 DEF StateInv
    <2>6. QED
      BY <2>5
  <1>7. ASSUME done # Len(ws)
        PROVE  StateInv'
    <2>1. up' = FALSE /\ locked' = FALSE /\ current_tx_id' = 0 /\ lsn' = 0
      BY <1>2, <1>7 DEF Forget
    <2>2. current_tx_id' \in 0 .. MaxTx /\ lsn' \in Bytes
          /\ HeaderSize * lsn' <= Len(log')
      <3>1. MaxTx \in Int /\ 0 <= MaxTx
        BY ConstantsAre, ByteIs
      <3>2. 0 \in Bytes
        BY ByteIs
      <3>3. QED
        BY <1>5, <2>1, <3>1, <3>2 DEF HeaderSize
    <2>3. indexes' = indexes /\ session' = session
      BY <1>2
    <2>4. StateInv'
      BY <1>4, <1>5, <2>1, <2>2, <2>3 DEF StateInv
    <2>5. QED
      BY <2>4
  <1>8. StateInv' /\ indexes' = indexes /\ Disk' = d
    BY <1>2, <1>5, <1>6, <1>7
  <1>9. Reached(ws, n, G, a, record, c, old, number, id, Disk, done, Disk')
    BY <1>1, <1>3, <1>4, <1>8 DEF Reached
  <1>10. QED
    BY <1>8, <1>9

\* The table is written when the second write after the old entries is made.
LEMMA TableWrittenIs ==
    ASSUME NEW ws, NEW n, NEW G, NEW a, NEW record, NEW c, NEW old, NEW number,
           NEW id, IsStatement(ws, n, G, a, record, c, old, number, id),
           NEW done \in 1 .. Len(ws)
    PROVE  TableWritten(ws, done) <=> done >= a + 2
  <1>1. /\ a \in Nat /\ Len(ws) \in Nat /\ G \subseteq 2 .. n
        /\ \A i \in 1 .. a : \E p \in G : ws[i] = ToPage(p, DeleteCall(old))
        /\ ws[a + 1] = ToLog(record) /\ ws[a + 2] = ToPage(TablePage, c)
    BY DEF IsStatement
  <1>2. ASSUME NEW i \in 1 .. a
        PROVE  ws[i].page # TablePage
    <2>1. PICK p \in G : ws[i] = ToPage(p, DeleteCall(old))
      BY <1>1
    <2>2. p \in 2 .. n /\ ws[i].page = p
      BY <1>1, <2>1 DEF ToPage
    <2>3. QED
      BY <2>2 DEF TablePage
  <1>3. ws[a + 1].page # TablePage
    BY <1>1 DEF ToLog, TablePage
  <1>4. ws[a + 2].page = TablePage
    BY <1>1 DEF ToPage
  <1>5. CASE done >= a + 2
    <2>1. a + 2 \in 1 .. done
      BY <1>1, <1>5
    <2>2. QED
      BY <1>4, <1>5, <2>1 DEF TableWritten
  <1>6. CASE ~ (done >= a + 2)
    <2>1. \A i \in 1 .. done : i \in 1 .. a \/ i = a + 1
      BY <1>1, <1>6
    <2>2. QED
      BY <1>2, <1>3, <1>6, <2>1 DEF TableWritten
  <1>7. QED
    BY <1>5, <1>6

\* The indexes on other columns are not touched.
LEMMA StageFits ==
    ASSUME StateInv, FitInv, NEW ws, NEW a, NEW record, NEW c, NEW old,
           NEW number, NEW id, NEW done, indexes' = indexes,
           Reached(ws, Len(pages), IntPages(indexes), a, record, c, old, number,
                   id, Disk, done, Disk'),
           Fitting(Disk', IntPages(indexes), given', Ids \ again')
    PROVE  FitInv'
  <1>1. \A p \in 2 .. Len(pages) : p \notin IntPages(indexes) => pages'[p] = pages[p]
    BY DEF Stage, Reached, Disk
  <1>2. \A p \in NamePages(indexes) : pages[p].num_keys = 0 /\ p \notin IntPages(indexes)
    BY DEF FitInv, Fits
  <1>3. NamePages(indexes) \subseteq 2 .. Len(pages)
    BY StateParts
  <1>4. \A p \in NamePages(indexes) : pages'[p].num_keys = 0 /\ p \notin IntPages(indexes)
    BY <1>1, <1>2, <1>3
  <1>5. Disk'.pages = pages'
    BY DEF Disk
  <1>6. Fits(pages', indexes', given', Ids \ again')
    BY <1>4, <1>5 DEF Fits, Fitting
  <1>7. QED
    BY <1>6 DEF FitInv

\* Before it, rows and entries fit.
LEMMA NowFits ==
    ASSUME StateInv, FitInv
    PROVE  Fitting(Disk, IntPages(indexes), given, Ids \ again)
  <1>1. Disk.pages = pages
    BY DEF Disk
  <1>2. QED
    BY <1>1 DEF FitInv, Fits, Fitting

\* The entries that a statement makes or removes, on the page of each index.
LEMMA MaintainedIs ==
    ASSUME StateInv, NEW number \in Numbers, NEW id
    PROVE  /\ maintain_indexes_insert(id, number) \in
                  Additions(IntPages(indexes), number, id)
           /\ maintain_indexes_delete(number) \in Removals(IntPages(indexes), number)
           /\ \A p \in IntPages(indexes) :
                 \E j \in 1 .. Len(maintain_indexes_delete(number)) :
                     maintain_indexes_delete(number)[j] = ToPage(p, DeleteCall(number))
  <1>1. indexes \in Seq(IndexRecords)
    BY DEF StateInv
  <1>2. number # NoNumber
    BY ConstantsAre
  <1>3. /\ maintain_indexes_insert(id, number) = OnIntIndexes(InsertCall(number, <<id>>))
        /\ maintain_indexes_delete(number) = OnIntIndexes(DeleteCall(number))
    BY <1>2 DEF maintain_indexes_insert, maintain_indexes_delete
  <1>4. OnIntIndexes(InsertCall(number, <<id>>)) \in
            Seq({ToPage(p, InsertCall(number, <<id>>)) : p \in IntPages(indexes)})
    BY <1>1, OnIntIndexesIs
  <1>5. /\ OnIntIndexes(DeleteCall(number)) \in
               Seq({ToPage(p, DeleteCall(number)) : p \in IntPages(indexes)})
        /\ \A p \in IntPages(indexes) :
               \E j \in 1 .. Len(OnIntIndexes(DeleteCall(number))) :
                   OnIntIndexes(DeleteCall(number))[j] = ToPage(p, DeleteCall(number))
    BY <1>1, OnIntIndexesIs
  <1>6. QED
    BY <1>3, <1>4, <1>5 DEF Additions, Removals

\* A record is written whole, as one write.
LEMMA RecordsAreBytes ==
    ASSUME StateInv, NEW id \in Ids, NEW pad \in Pads
    PROVE  /\ \A number \in Numbers :
              LET record == wal_log_insert(lsn, current_tx_id, id, <<id, number>>, pad)
              IN  /\ FlattenSeq(record) \in Seq(Bytes)
                  /\ Len(FlattenSeq(record)) >= HeaderSize
           /\ \A number \in Numbers :
              LET record == wal_log_update(lsn, current_tx_id, id, <<id, number>>, pad)
              IN  /\ FlattenSeq(record) \in Seq(Bytes)
                  /\ Len(FlattenSeq(record)) >= HeaderSize
           /\ LET record == wal_log_delete(lsn, current_tx_id, id, pad)
              IN  /\ FlattenSeq(record) \in Seq(Bytes)
                  /\ Len(FlattenSeq(record)) >= HeaderSize
  <1>1. lsn \in Bytes /\ current_tx_id \in Bytes /\ pad \in Bytes /\ id \in Int32
        /\ \A number \in Numbers : <<id, number>> \in Texts
    BY StateParts, ConstantsAre
  <1>2. ASSUME NEW record, NEW hd, WritesRecord(record, hd)
        PROVE  FlattenSeq(record) \in Seq(Bytes) /\ Len(FlattenSeq(record)) >= HeaderSize
    <2>1. Len(record) \in 1 .. Len(record)
      BY <1>2 DEF WritesRecord
    <2>2. QED
      BY <1>2, <2>1 DEF WritesRecord
  <1>3. ASSUME NEW number \in Numbers, NEW type \in 0 .. 4
        PROVE  LET record == RowRecord(lsn, type, current_tx_id, id, <<id, number>>, pad)
               IN  /\ FlattenSeq(record) \in Seq(Bytes)
                   /\ Len(FlattenSeq(record)) >= HeaderSize
    <2>1. \E hd : WritesRecord(RowRecord(lsn, type, current_tx_id, id,
                                         <<id, number>>, pad), hd)
      BY <1>1, RowRecordIsWritten
    <2>2. QED
      BY <1>2, <2>1
  <1>4. LET record == wal_log_delete(lsn, current_tx_id, id, pad)
        IN  /\ FlattenSeq(record) \in Seq(Bytes)
            /\ Len(FlattenSeq(record)) >= HeaderSize
    <2>1. \E hd : WritesRecord(wal_log_delete(lsn, current_tx_id, id, pad), hd)
      BY <1>1, DeleteRecordIsWritten
    <2>2. QED
      BY <1>2, <2>1
  <1>5. QED
    BY <1>3, <1>4, TypesOfRecords DEF wal_log_insert, wal_log_update

\* INSERT: no entries go.
LEMMA InsertIsStatement ==
    ASSUME StateInv, NEW id \in Ids, NEW number \in Numbers, NEW pad \in Pads
    PROVE  IsStatement(InsertSteps(id, number, pad), Len(pages), IntPages(indexes), 0,
                       wal_log_insert(lsn, current_tx_id, id, <<id, number>>, pad),
                       InsertCall(id, <<id, number>>), 0, number, id)
  <1> DEFINE record == wal_log_insert(lsn, current_tx_id, id, <<id, number>>, pad)
             c  == InsertCall(id, <<id, number>>)
             xy == << ToLog(record), ToPage(TablePage, c) >>
             B  == maintain_indexes_insert(id, number)
             G  == IntPages(indexes)
             A  == << >>
             ws == InsertSteps(id, number, pad)
  <1>1. Len(pages) \in Nat /\ G \in SUBSET (2 .. Len(pages))
    BY StateParts
  <1>2. /\ FlattenSeq(record) \in Seq(Bytes) /\ Len(FlattenSeq(record)) >= HeaderSize
    BY RecordsAreBytes
  <1>3. c \in AnyCall /\ id \in Int /\ number \in Int
    BY ConstantsAre, CallsOnPages
  <1>4. B \in Additions(G, number, id)
    BY MaintainedIs
  <1>5. A \in Removals(G, 0) /\ Len(A) = 0 /\ 0 \in Int
    BY DEF Removals
  <1> HIDE DEF A, record, c, B, G
  <1>6. A \o xy = xy
    <2> DEFINE T == {ToLog(record), ToPage(TablePage, c)}
    <2>1. xy \in Seq(T)
      OBVIOUS
    <2> HIDE DEF T, xy
    <2>2. QED
      BY <2>1, ConcatEmptySeq DEF A
  <1>7. ws = (A \o xy) \o B
    BY <1>6 DEF InsertSteps, record, c, B, ws
  <1> HIDE DEF ws
  <1>8. IsStatement(ws, Len(pages), G, Len(A), record, c, 0, number, id)
    BY <1>1, <1>2, <1>3, <1>4, <1>5, <1>7, StatementIs
  <1>9. QED
    BY <1>5, <1>8 DEF record, c, G, ws

LEMMA InsertFits ==
    ASSUME StateInv, FitInv, NEW id \in Ids, NEW number \in Numbers, Insert(id, number)
    PROVE  StateInv' /\ FitInv'
  <1>1. PICK pad \in Pads :
            \E done \in 1 .. Len(InsertSteps(id, number, pad)) :
                /\ Statement(InsertSteps(id, number, pad), done)
                /\ given' = IF TableWritten(InsertSteps(id, number, pad), done)
                            THEN [given EXCEPT ![id] = number] ELSE given
    BY DEF Insert
  <1> DEFINE ws     == InsertSteps(id, number, pad)
             record == wal_log_insert(lsn, current_tx_id, id, <<id, number>>, pad)
             c      == InsertCall(id, <<id, number>>)
             n      == Len(pages)
             G      == IntPages(indexes)
             S      == Ids \ again
             S2     == Ids \ again'
  <1>2. PICK done \in 1 .. Len(ws) :
            /\ Statement(ws, done)
            /\ given' = IF TableWritten(ws, done)
                        THEN [given EXCEPT ![id] = number] ELSE given
    BY <1>1
  <1>3. IsStatement(ws, n, G, 0, record, c, 0, number, id)
    BY InsertIsStatement
  <1>4. /\ again' = IF given[id] # NoNumber THEN again \cup {id} ELSE again
        /\ Len(log) < MaxLog
    BY DEF Insert, MayWrite
  <1> HIDE DEF ws, record, c
  <1>5. TableWritten(ws, done) <=> done >= 0 + 2
    BY <1>3, TableWrittenIs
  <1>6. given' = IF done >= 0 + 2 THEN [given EXCEPT ![id] = number] ELSE given
    BY <1>2, <1>5
  <1>7. given \in [Ids -> Numbers \cup {NoNumber}]
    BY DEF StateInv
  <1>8. given' \in [Ids -> Numbers \cup {NoNumber}]
    BY <1>6, <1>7
  <1>9. /\ StateInv' /\ indexes' = indexes
        /\ Reached(ws, n, G, 0, record, c, 0, number, id, Disk, done, Disk')
    BY <1>2, <1>3, <1>4, <1>8, StatementKeepsState
  <1>10. /\ S \in SUBSET Ids /\ S2 \in SUBSET S
         /\ id \in S2 => Replaces(ws, G, 0, 0, id, Disk, given)
    BY <1>4 DEF Replaces
  <1>11. Fitting(Disk, G, given, S)
    BY NowFits
  <1>12. given' = GivenBy(given, id, number, 0, done)
    BY <1>6 DEF GivenBy
  <1> HIDE DEF G, S, S2, n
  <1>13. Fitting(Disk', G, given', S2)
    BY <1>7, <1>9, <1>10, <1>11, <1>12, WrittenFits DEF c
  <1>14. FitInv'
    BY <1>9, <1>13, StageFits DEF G, S2, n
  <1>15. QED
    BY <1>9, <1>14

\* UPDATE: the entries under the old number go.
LEMMA UpdateIsStatement ==
    ASSUME StateInv, NEW id \in Ids, NEW number \in Numbers, NEW pad \in Pads,
           NEW old \in Numbers
    PROVE  LET ws == UpdateSteps(id, old, number, pad)
               a  == Len(maintain_indexes_delete(old))
           IN  /\ IsStatement(ws, Len(pages), IntPages(indexes), a,
                       wal_log_update(lsn, current_tx_id, id, <<id, number>>, pad),
                       InsertCall(id, <<id, number>>), old, number, id)
               /\ \A p \in IntPages(indexes) :
                     \E j \in 1 .. a : ws[j] = ToPage(p, DeleteCall(old))
  <1> DEFINE record == wal_log_update(lsn, current_tx_id, id, <<id, number>>, pad)
             c  == InsertCall(id, <<id, number>>)
             xy == << ToLog(record), ToPage(TablePage, c) >>
             A  == maintain_indexes_delete(old)
             B  == maintain_indexes_insert(id, number)
             G  == IntPages(indexes)
             ws == UpdateSteps(id, old, number, pad)
  <1>1. Len(pages) \in Nat /\ G \in SUBSET (2 .. Len(pages))
    BY StateParts
  <1>2. /\ FlattenSeq(record) \in Seq(Bytes) /\ Len(FlattenSeq(record)) >= HeaderSize
    BY RecordsAreBytes
  <1>3. /\ c \in AnyCall /\ id \in Int /\ number \in Int
        /\ old \in Int
    BY ConstantsAre, CallsOnPages
  <1>4. B \in Additions(G, number, id)
    BY MaintainedIs
  <1>5. /\ A \in Removals(G, old)
        /\ \A p \in G : \E j \in 1 .. Len(A) : A[j] = ToPage(p, DeleteCall(old))
    BY MaintainedIs
  <1>6. ws = (A \o xy) \o B
    BY DEF UpdateSteps, record, c, A, B
  <1> HIDE DEF A, record, c, B, G, ws
  <1>7. /\ IsStatement(ws, Len(pages), G, Len(A), record, c, old, number, id)
        /\ \A i \in 1 .. Len(A) : ws[i] = A[i]
    <2>1. A \in Removals(G, old)
      BY <1>5
    <2>2. IsStatement(ws, Len(pages), G, Len(A), record, c, old, number, id)
      BY <1>1, <1>2, <1>3, <1>4, <1>6, <2>1, StatementIs
    <2>3. \A i \in 1 .. Len(A) : ws[i] = A[i]
      BY <1>1, <1>2, <1>3, <1>4, <1>6, <2>1, StatementIs
    <2>4. QED
      BY <2>2, <2>3
  <1>8. ASSUME NEW p \in G
        PROVE  \E j \in 1 .. Len(A) : ws[j] = ToPage(p, DeleteCall(old))
    <2>1. PICK j \in 1 .. Len(A) : A[j] = ToPage(p, DeleteCall(old))
      BY <1>5
    <2>2. ws[j] = A[j]
      BY <1>7
    <2>3. QED
      BY <2>1, <2>2
  <1>9. QED
    BY <1>7, <1>8 DEF ws, A, G, record, c

LEMMA UpdateFits ==
    ASSUME StateInv, FitInv, NEW id \in Ids, NEW number \in Numbers, Update(id, number)
    PROVE  StateInv' /\ FitInv'
  <1> DEFINE old == btree_search(table, id)[2]
  <1>1. btree_search(table, id) \in Texts /\ again' = again /\ Len(log) < MaxLog
    BY DEF Update, MayWrite
  <1>2. PICK pad \in Pads :
            \E done \in 1 .. Len(UpdateSteps(id, old, number, pad)) :
                /\ Statement(UpdateSteps(id, old, number, pad), done)
                /\ given' = IF TableWritten(UpdateSteps(id, old, number, pad), done)
                            THEN [given EXCEPT ![id] = number] ELSE given
    BY DEF Update
  <1> DEFINE ws     == UpdateSteps(id, old, number, pad)
             a      == Len(maintain_indexes_delete(old))
             record == wal_log_update(lsn, current_tx_id, id, <<id, number>>, pad)
             c      == InsertCall(id, <<id, number>>)
             n      == Len(pages)
             G      == IntPages(indexes)
             S      == Ids \ again
  <1>3. PICK done \in 1 .. Len(ws) :
            /\ Statement(ws, done)
            /\ given' = IF TableWritten(ws, done)
                        THEN [given EXCEPT ![id] = number] ELSE given
    BY <1>2
  <1>4. old \in Numbers /\ \E x \in Ids : btree_search(table, id) = <<x, old>>
    <2>1. Texts = Ids \X Numbers
      BY IndexConstants
    <2>2. QED
      BY <1>1, <2>1
  <1> HIDE DEF old
  <1>5. /\ IsStatement(ws, n, G, a, record, c, old, number, id)
        /\ \A p \in G : \E j \in 1 .. a : ws[j] = ToPage(p, DeleteCall(old))
    BY <1>4, UpdateIsStatement
  <1> HIDE DEF ws, record, c, a
  <1>6. TableWritten(ws, done) <=> done >= a + 2
    BY <1>5, TableWrittenIs
  <1>7. given' = GivenBy(given, id, number, a, done)
    BY <1>3, <1>6 DEF GivenBy
  <1>8. given \in [Ids -> Numbers \cup {NoNumber}]
    BY DEF StateInv
  <1>9. given' \in [Ids -> Numbers \cup {NoNumber}]
    BY <1>7, <1>8 DEF GivenBy
  <1>10. /\ StateInv' /\ indexes' = indexes
         /\ Reached(ws, n, G, a, record, c, old, number, id, Disk, done, Disk')
    BY <1>1, <1>3, <1>5, <1>9, StatementKeepsState
  <1>11. Fitting(Disk, G, given, S)
    BY NowFits
  <1>12. id \in S => Replaces(ws, G, a, old, id, Disk, given)
    <2>1. SUFFICES ASSUME id \in S
                   PROVE  btree_search(Disk.pages[TablePage], id) = <<id, old>>
      BY <1>4, <1>5 DEF Replaces
    <2>2. Disk.pages[TablePage] = table
      BY DEF Disk, table
    <2>3. btree_search(table, id) \in {NoRow, <<id, given[id]>>}
      BY <1>11, <2>1, <2>2 DEF Fitting, RowsFit
    <2>4. btree_search(table, id) # NoRow
      BY <1>1, ConstantsAre
    <2>5. btree_search(table, id) = <<id, given[id]>>
      BY <2>3, <2>4
    <2>6. given[id] = old
      BY <1>4, <2>5
    <2>7. QED
      BY <2>2, <2>5, <2>6
  <1>13. S \in SUBSET Ids /\ S \in SUBSET S
    OBVIOUS
  <1> HIDE DEF G, S, n
  <1>14. Fitting(Disk', G, given', S)
    BY <1>7, <1>8, <1>10, <1>11, <1>12, <1>13, WrittenFits DEF c
  <1>15. Fitting(Disk', G, given', Ids \ again')
    BY <1>1, <1>14 DEF S
  <1>16. FitInv'
    BY <1>10, <1>15, StageFits DEF G, n
  <1>17. QED
    BY <1>10, <1>16

\* The number in a column, of a row that a statement wrote or of what is left of
\* one.
LEMMA ColumnIs ==
    ASSUME NEW row, NEW junk \in Junk
    PROVE  /\ ColumnValue(row, junk) \in Numbers \cup {NoNumber}
           /\ \A id \in Ids, number \in Numbers :
                 row = <<id, number>> => ColumnValue(row, junk) = number
  <1>1. Texts = Ids \X Numbers
    BY IndexConstants
  <1>2. row \in Texts => row[2] \in Numbers /\ ColumnValue(row, junk) = row[2]
    BY <1>1 DEF ColumnValue
  <1>3. row \notin Texts => ColumnValue(row, junk) \in {NoNumber, junk}
    BY DEF ColumnValue
  <1>4. junk \in Numbers \cup {NoNumber}
    BY DEF Junk
  <1>5. \A id \in Ids, number \in Numbers : <<id, number>> \in Texts
    BY <1>1
  <1>6. QED
    BY <1>2, <1>3, <1>4, <1>5

\* DELETE: no entries come, and the old ones go if the row is seen.
LEMMA DeleteIsStatement ==
    ASSUME StateInv, NEW id \in Ids, NEW pad \in Pads, NEW junk \in Junk
    PROVE  \E a, old, number :
              LET ws == DeleteSteps(id, junk, pad)
              IN  /\ IsStatement(ws, Len(pages), IntPages(indexes), a,
                                 wal_log_delete(lsn, current_tx_id, id, pad),
                                 DeleteCall(id), old, number, id)
                  /\ Len(ws) = a + 2
  <1> DEFINE record == wal_log_delete(lsn, current_tx_id, id, pad)
             c  == DeleteCall(id)
             xy == << ToLog(record), ToPage(TablePage, c) >>
             A  == IF btree_search(table, id) = NoRow THEN << >>
                   ELSE maintain_indexes_delete(
                            ColumnValue(btree_search(table, id), junk))
             B  == << >>
             G  == IntPages(indexes)
             ws == DeleteSteps(id, junk, pad)
             n  == Len(pages)
             number == 0
  <1>1. n \in Nat /\ G \in SUBSET (2 .. n)
    BY StateParts
  <1>2. /\ FlattenSeq(record) \in Seq(Bytes) /\ Len(FlattenSeq(record)) >= HeaderSize
    BY RecordsAreBytes
  <1>3. /\ c \in AnyCall /\ id \in Int /\ number \in Int
    BY ConstantsAre, CallsOnPages DEF Tombstone
  <1>4. B \in Additions(G, number, id) /\ Len(B) = 0
    BY DEF Additions
  <1>5. \E old \in Int : A \in Removals(G, old)
    <2> DEFINE number2 == ColumnValue(btree_search(table, id), junk)
    <2>1. number2 \in Numbers \cup {NoNumber}
      BY ColumnIs
    <2>2. CASE btree_search(table, id) = NoRow \/ number2 = NoNumber
      <3>1. A = << >>
        BY <2>2 DEF maintain_indexes_delete
      <3> HIDE DEF A
      <3>2. A \in Removals(G, 0)
        BY <3>1 DEF Removals
      <3>3. QED
        BY <3>2
    <2>3. CASE btree_search(table, id) # NoRow /\ number2 # NoNumber
      <3>1. A = maintain_indexes_delete(number2)
        BY <2>3
      <3> HIDE DEF A, number2
      <3>2. number2 \in Numbers
        BY <2>1, <2>3
      <3>3. A \in Removals(G, number2) /\ number2 \in Int
        BY <3>1, <3>2, MaintainedIs, ConstantsAre
      <3>4. QED
        BY <3>3
    <2>4. QED
      BY <2>2, <2>3
  <1>6. PICK old \in Int : A \in Removals(G, old)
    BY <1>5
  <1>7. ws = (A \o xy) \o B
    <2>1. ws = A \o xy
      BY DEF DeleteSteps
    <2> DEFINE T == Writes(n)
    <2>2. ToLog(record) \in T /\ ToPage(TablePage, c) \in T
      BY <1>2, <1>3 DEF Writes, ToLog, ToPage
    <2>3. A \in Seq(T)
      <3>1. {ToPage(p, DeleteCall(old)) : p \in G} \subseteq T
        <4>1. SUFFICES ASSUME NEW p \in G
                       PROVE  ToPage(p, DeleteCall(old)) \in T
          OBVIOUS
        <4>2. p \in 2 .. n /\ DeleteCall(old) \in PageCall
          BY <1>1, CallsOnPages
        <4>3. QED
          BY <4>2 DEF Writes, ToPage
      <3> DEFINE U == {ToPage(p, DeleteCall(old)) : p \in G}
      <3>2. A \in Seq(U)
        BY <1>6 DEF Removals
      <3> HIDE DEF A, T, U
      <3>3. QED
        BY <3>1, <3>2 DEF U
    <2> HIDE DEF A, T, ws
    <2>4. xy \in Seq(T)
      BY <2>2
    <2> HIDE DEF xy
    <2>5. A \o xy \in Seq(T)
      BY <2>3, <2>4, Concatenated
    <2>6. QED
      BY <2>1, <2>5, ConcatEmptySeq
  <1> HIDE DEF record, c, A, B, G, ws, n, number
  <1>8. IsStatement(ws, n, G, Len(A), record, c, old, number, id)
    BY <1>1, <1>2, <1>3, <1>4, <1>6, <1>7, StatementIs
  <1>9. Len(ws) = Len(A) + 2 + Len(B)
    BY <1>1, <1>2, <1>3, <1>4, <1>6, <1>7, StatementIs
  <1>10. Len(A) \in Nat
    BY <1>8 DEF IsStatement
  <1>11. Len(ws) = Len(A) + 2
    BY <1>4, <1>9, <1>10
  <1>12. QED
    BY <1>8, <1>11 DEF record, c, G, ws, n

LEMMA DeleteFits ==
    ASSUME StateInv, FitInv, NEW id \in Ids, Delete(id)
    PROVE  StateInv' /\ FitInv'
  <1>1. PICK pad \in Pads, junk \in Junk :
            \E done \in 1 .. Len(DeleteSteps(id, junk, pad)) :
                Statement(DeleteSteps(id, junk, pad), done)
    BY DEF Delete
  <1>2. given' = given /\ again' = again /\ Len(log) < MaxLog
    BY DEF Delete, MayWrite
  <1> DEFINE ws     == DeleteSteps(id, junk, pad)
             record == wal_log_delete(lsn, current_tx_id, id, pad)
             n      == Len(pages)
             G      == IntPages(indexes)
             S      == Ids \ again
  <1>3. PICK done \in 1 .. Len(ws) : Statement(ws, done)
    BY <1>1
  <1>4. PICK a, old, number :
            IsStatement(ws, n, G, a, record, DeleteCall(id), old, number, id)
            /\ Len(ws) = a + 2
    BY DeleteIsStatement
  <1> HIDE DEF ws, record
  <1>5. given' \in [Ids -> Numbers \cup {NoNumber}]
    BY <1>2 DEF StateInv
  <1>6. /\ StateInv' /\ indexes' = indexes
        /\ Reached(ws, n, G, a, record, DeleteCall(id), old, number, id, Disk,
                   done, Disk')
    BY <1>2, <1>3, <1>4, <1>5, StatementKeepsState
  <1>7. Fitting(Disk, G, given, S)
    BY NowFits
  <1>8. S \in SUBSET Ids
    OBVIOUS
  <1> HIDE DEF G, S, n
  <1>9. Fitting(Disk', G, given, S)
    BY <1>4, <1>6, <1>7, <1>8, DeletedFits
  <1>10. Fitting(Disk', G, given', Ids \ again')
    BY <1>2, <1>9 DEF S
  <1>11. FitInv'
    BY <1>6, <1>10, StageFits DEF G, n
  <1>12. QED
    BY <1>6, <1>11

-----------------------------------------------------------------------------
(* What a reader of the log, or of what is no log, does to the table.        *)

LEMMA CallsKeepProper ==
    ASSUME NEW node \in Proper(Contents), NEW cs \in Seq(AnyCall)
    PROVE  Calls(node, cs) \in Proper(Contents)
  <1>1. \A i \in 1 .. Len(cs) : cs[i] \in AnyCall
    OBVIOUS
  <1>2. Closed(Proper(Contents), cs)
    BY <1>1, CallKeepsProper DEF Closed
  <1>3. QED
    BY <1>2, CallsKeep

\* The rows that are not as statements left them no longer count, and the indexes
\* are not touched.
LEMMA TableChangeFits ==
    ASSUME StateInv, FitInv, NEW t \in Proper(Contents),
           pages' = [pages EXCEPT ![TablePage] = t],
           again' = again \cup Reverted(t),
           UNCHANGED <<log, indexes, given>>
    PROVE  /\ Disk' \in Disks(Len(pages')) /\ Len(pages') = Len(pages)
           /\ FitInv'
  <1> DEFINE n == Len(pages)
             S == Ids \ again'
  <1>1. /\ n \in Nat /\ n >= 1 /\ pages \in [1 .. n -> Proper(Cells)]
        /\ log \in Seq(Bytes) /\ TablePage \in 1 .. n
        /\ IntPages(indexes) \subseteq 2 .. n /\ NamePages(indexes) \subseteq 2 .. n
    BY StateParts
  <1>2. t \in Proper(Cells)
    BY CallKeepsProper
  <1> HIDE DEF n
  <1>3. /\ pages' \in [1 .. n -> Proper(Cells)] /\ pages'[TablePage] = t
        /\ \A p \in 1 .. n : p # TablePage => pages'[p] = pages[p]
    BY <1>1, <1>2
  <1>4. Len(pages') = n
    BY <1>1, <1>3, PagesAre
  <1>5. Disk' \in Disks(n)
    <2>1. Disk' = [log |-> log, pages |-> pages']
      BY DEF Disk
    <2>2. [log |-> log, pages |-> pages'] \in Disks(n)
      BY <1>1, <1>3 DEF Disks
    <2>3. QED
      BY <2>1, <2>2
  <1>6. \A p \in 2 .. n : pages'[p] = pages[p]
    <2>1. SUFFICES ASSUME NEW p \in 2 .. n
                   PROVE  pages'[p] = pages[p]
      OBVIOUS
    <2>2. p \in 1 .. n /\ p # TablePage
      BY <1>1 DEF TablePage
    <2>3. QED
      BY <1>3, <2>2
  <1>7. RowsFit(t, given, S)
    BY DEF RowsFit, Reverted
  <1>8. S \subseteq Ids \ again
    OBVIOUS
  <1>9. EntriesFit(pages', IntPages(indexes), given, S)
    <2>1. EntriesFit(pages, IntPages(indexes), given, Ids \ again)
      BY DEF FitInv, Fits
    <2> HIDE DEF S
    <2>2. QED
      BY <1>1, <1>6, <1>8, <2>1 DEF EntriesFit, PageFits
  <1>10. \A p \in NamePages(indexes) : pages'[p].num_keys = 0 /\ p \notin IntPages(indexes)
    BY <1>1, <1>6 DEF FitInv, Fits
  <1> HIDE DEF S
  <1>11. Fits(pages', indexes, given, S)
    BY <1>3, <1>7, <1>9, <1>10 DEF Fits
  <1>12. FitInv'
    <2>1. indexes' = indexes /\ given' = given
      OBVIOUS
    <2>2. QED
      BY <1>11, <2>1 DEF FitInv, S
  <1>13. QED
    BY <1>4, <1>5, <1>12 DEF n

LEMMA OpenFits ==
    ASSUME StateInv, FitInv, Open
    PROVE  StateInv' /\ FitInv'
  <1> DEFINE calls == wal_recover(log)
  <1>1. PICK done \in 0 .. Len(calls) :
            /\ pages' = [pages EXCEPT ![TablePage] = Calls(@, SubSeq(calls, 1, done))]
            /\ up' = (done = Len(calls))
            /\ session' = IF session <= Sessions /\ done = Len(calls)
                          THEN session + 1 ELSE session
    BY DEF Open
  <1>2. /\ again' = again \cup Reverted(table')
        /\ UNCHANGED <<locked, current_tx_id, lsn, log, indexes, given>>
    BY DEF Open
  <1>3. /\ log \in Seq(Bytes) /\ table \in Proper(Contents) /\ Len(pages) \in Nat
        /\ pages \in [1 .. Len(pages) -> Proper(Cells)]
        /\ TablePage \in 1 .. Len(pages)
    BY StateParts
  <1>4. calls \in Seq(AnyCall)
    BY <1>3, RecoveryMakesCalls
  <1> HIDE DEF calls
  <1> DEFINE cs == SubSeq(calls, 1, done)
             t  == Calls(table, cs)
  <1>5. cs \in Seq(AnyCall)
    <2>1. Len(calls) \in Nat /\ done \in Nat /\ done <= Len(calls)
      BY <1>4
    <2>2. QED
      BY <1>4, <2>1
  <1> HIDE DEF cs
  <1>6. t \in Proper(Contents)
    BY <1>3, <1>5, CallsKeepProper
  <1>7. pages' = [pages EXCEPT ![TablePage] = t]
    BY <1>1 DEF cs, table
  <1> HIDE DEF t
  <1>8. table' = t
    BY <1>3, <1>7 DEF table
  <1>9. /\ Disk' \in Disks(Len(pages')) /\ Len(pages') = Len(pages) /\ FitInv'
    BY <1>2, <1>6, <1>7, <1>8, TableChangeFits
  <1>10. session' \in 1 .. Sessions + 1
    <2>1. session \in 1 .. Sessions + 1 /\ Sessions \in Nat
      BY ConstantsAre DEF StateInv
    <2>2. session' = session \/ (session <= Sessions /\ session' = session + 1)
      BY <1>1
    <2>3. QED
      BY <2>1, <2>2
  <1>11. up' \in BOOLEAN
    BY <1>1
  <1>12. StateInv'
    BY <1>2, <1>9, <1>10, <1>11 DEF StateInv
  <1>13. QED
    BY <1>9, <1>12

-----------------------------------------------------------------------------
(* CREATE INDEX.                                                            *)

\* The calls that fill a page and leave it fit, for the rows in S.
FillingCalls(gave, S) ==
    {c \in PageCall : /\ c.call = "btree_insert"
                      /\ \A id \in S : c.value = <<id>> => gave[id] = c.key}

FittingPages(gave, S) == {m \in Proper(Cells) : PageFits(m, gave, S)}

LEMMA FillingKeepsFit ==
    ASSUME NEW gave, NEW S \in SUBSET Ids, NEW node \in FittingPages(gave, S),
           NEW cs \in Seq(FillingCalls(gave, S))
    PROVE  Calls(node, cs) \in FittingPages(gave, S)
  <1>1. ASSUME NEW c \in FillingCalls(gave, S), NEW m \in FittingPages(gave, S)
        PROVE  Call(m, c) \in FittingPages(gave, S)
    <2>1. /\ c \in PageCall /\ c.call = "btree_insert"
          /\ \A id \in S : c.value = <<id>> => gave[id] = c.key
          /\ m \in Proper(Cells) /\ PageFits(m, gave, S)
      BY DEF FillingCalls, FittingPages
    <2>2. c.key \in Int /\ c.value \in Cells
      BY <2>1 DEF PageCall
    <2> DEFINE e == Call(m, c)
    <2>3. e = btree_insert(m, c.key, c.value)
      BY <2>1 DEF Call
    <2>4. e \in Proper(Cells)
      BY <2>1, CallKeepsProper
    <2> HIDE DEF e
    <2>5. /\ btree_search(e, c.key) \in {c.value, btree_search(m, c.key)}
          /\ \A k \in Int : k # c.key => btree_search(e, k) = btree_search(m, k)
      <3>1. m \in LeafOver(Int, Cells)
        BY <2>1 DEF Proper
      <3>2. QED
        BY <2>1, <2>2, <2>3, <3>1, InsertShowsOthers
    <2>6. ASSUME NEW k \in Int, NEW id \in S, btree_search(e, k) = <<id>>
          PROVE  gave[id] = k
      <3>1. CASE btree_search(m, k) = <<id>>
        BY <2>1, <3>1 DEF PageFits
      <3>2. CASE k = c.key /\ c.value = <<id>>
        BY <2>1, <3>2
      <3>3. QED
        BY <2>5, <2>6, <3>1, <3>2
    <2>7. PageFits(e, gave, S)
      BY <2>6 DEF PageFits
    <2>8. QED
      BY <2>4, <2>7 DEF FittingPages, e
  <1>2. \A i \in 1 .. Len(cs) : cs[i] \in FillingCalls(gave, S)
    OBVIOUS
  <1>3. Closed(FittingPages(gave, S), cs)
    BY <1>1, <1>2 DEF Closed
  <1>4. QED
    BY <1>3, CallsKeep

\* The entry of a row that is not as a statement left it may be any, but not that
\* of one that is.
LEMMA FillIs ==
    ASSUME StateInv, FitInv, NEW junk \in Junk, NEW column \in {"g", "name"}
    PROVE  /\ FillCalls(column, junk) \in Seq(FillingCalls(given, Ids \ again))
           /\ column = "name" => FillCalls(column, junk) = << >>
  <1> DEFINE S == Ids \ again
             F == FillingCalls(given, S)
             number(i) == ColumnValue(table.values[i], junk)
             part(i) == IF table.keys[i] = Tombstone \/ number(i) = NoNumber THEN << >>
                        ELSE << InsertCall(number(i), <<table.keys[i]>>) >>
             parts == [i \in Used(table) |-> part(i)]
  <1>1. /\ table \in Proper(Contents) /\ table \in LeafOver(Int, Contents)
    BY StateParts DEF Proper
  <1>2. /\ table.keys \in [1 .. Slots -> Int] /\ table.values \in [1 .. Slots -> Contents]
        /\ Used(table) \subseteq 1 .. Slots /\ table.num_keys \in 0 .. Slots
    BY <1>1, PartsOver
  <1>3. RowsFit(table, given, S) /\ given \in [Ids -> Numbers \cup {NoNumber}]
    BY DEF FitInv, Fits, StateInv, table
  <1>4. ASSUME NEW i \in Used(table), table.keys[i] # Tombstone, number(i) # NoNumber
        PROVE  InsertCall(number(i), <<table.keys[i]>>) \in F
    <2> DEFINE k == table.keys[i]
               v == table.values[i]
    <2>1. k \in Int /\ v \in Contents /\ btree_search(table, k) = v
      BY <1>1, <1>2, <1>4, FoundSlot
    <2>2. number(i) \in Numbers \cup {NoNumber}
          /\ \A id \in Ids, x \in Numbers : v = <<id, x>> => number(i) = x
      BY ColumnIs
    <2>3. number(i) \in Int /\ <<k>> \in Cells
      <3>1. number(i) \in Numbers
        BY <1>4, <2>2
      <3>2. \A x \in Numbers : x \in Int
        BY ConstantsAre
      <3> HIDE DEF number, k
      <3>3. QED
        BY <2>1, <3>1, <3>2, EntryIs
    <2>4. ASSUME NEW id \in S, <<k>> = <<id>>
          PROVE  given[id] = number(i)
      <3>1. id = k /\ id \in Ids
        BY <2>4
      <3>2. btree_search(table, id) \in {NoRow, <<id, given[id]>>}
        BY <1>3 DEF RowsFit
      <3> HIDE DEF number, k, v
      <3>3. v = <<id, given[id]>>
        BY <2>1, <3>1, <3>2, ConstantsAre
      <3>4. given[id] # NoNumber
        BY <2>1, <3>1, <3>3, ConstantsAre
      <3>5. given[id] \in Numbers
        BY <1>3, <3>1, <3>4
      <3>6. QED
        BY <2>2, <3>1, <3>3, <3>5
    <2> DEFINE c == InsertCall(number(i), <<k>>)
    <2> HIDE DEF number, k, v
    <2>5. c \in PageCall
      BY <2>3, CallsOnPages
    <2>6. c.call = "btree_insert" /\ c.key = number(i) /\ c.value = <<k>>
      BY DEF InsertCall
    <2> HIDE DEF c, S
    <2>7. c \in FillingCalls(given, S)
      BY <2>3, <2>4, <2>5, <2>6 DEF FillingCalls
    <2>8. QED
      BY <2>7 DEF c, k
  <1> HIDE DEF number, F
  <1>5. \A i \in Used(table) : part(i) \in Seq(F)
    <2>1. SUFFICES ASSUME NEW i \in Used(table)
                   PROVE  part(i) \in Seq(F)
      OBVIOUS
    <2>2. CASE table.keys[i] = Tombstone \/ number(i) = NoNumber
      BY <2>2
    <2>3. CASE table.keys[i] # Tombstone /\ number(i) # NoNumber
      <3> DEFINE c == InsertCall(number(i), <<table.keys[i]>>)
      <3>1. c \in F
        BY <1>4, <2>3
      <3> HIDE DEF c
      <3>2. << c >> \in Seq(F)
        BY <3>1
      <3>3. part(i) = << c >>
        BY <2>3 DEF c
      <3> HIDE DEF part
      <3>4. QED
        BY <3>2, <3>3
    <2>4. QED
      BY <2>2, <2>3
  <1>6. FillCalls(column, junk) = IF column # "g" THEN << >> ELSE FlattenSeq(parts)
    BY DEF FillCalls, number
  <1> HIDE DEF part
  <1>7. parts \in Seq(Seq(F))
    <2> DEFINE m == table.num_keys
    <2>1. m \in Nat /\ Used(table) = 1 .. m
      BY <1>2, SlotsAssumption DEF Used
    <2> HIDE DEF m
    <2>2. parts \in [1 .. m -> Seq(F)]
      BY <1>5, <2>1
    <2> HIDE DEF parts
    <2>3. QED
      BY <2>1, <2>2, PagesAre
  <1> HIDE DEF parts
  <1>8. FlattenSeq(parts) \in Seq(F) /\ << >> \in Seq(F)
    <2>1. << >> \in Seq(F)
      OBVIOUS
    <2>2. QED
      BY <1>7, <2>1, FlattenAppend
  <1>9. FillCalls(column, junk) \in Seq(F)
    BY <1>6, <1>8
  <1>10. column = "name" => FillCalls(column, junk) = << >>
    BY <1>6
  <1>11. QED
    BY <1>9, <1>10 DEF F

\* What CREATE INDEX makes of the new page, as far as it gets.
LEMMA NewPageIs ==
    ASSUME StateInv, FitInv, NEW junk \in Junk, NEW column \in {"g", "name"},
           NEW old \in Range(pages) \cup OldPages,
           NEW done \in 0 .. Len(FillCalls(column, junk)), NEW new,
           new = Calls(NewRoot(old), SubSeq(FillCalls(column, junk), 1, done))
    PROVE  /\ new \in FittingPages(given, Ids \ again)
           /\ column = "name" => new.num_keys = 0
  <1> DEFINE S    == Ids \ again
             fill == FillCalls(column, junk)
             F    == FillingCalls(given, S)
             root == NewRoot(old)
             cs   == SubSeq(fill, 1, done)
  <1>1. old \in LeafOver(Int, Cells)
    BY OldFrameIs
  <1>2. root \in Proper(Cells) /\ root.num_keys = 0
    BY <1>1, NewRootIs
  <1>3. fill \in Seq(F) /\ (column = "name" => fill = << >>)
    BY FillIs
  <1> HIDE DEF root, fill, F
  <1>4. root \in FittingPages(given, S)
    <2>1. \A k \in Int, id \in S : btree_search(root, k) # <<id>>
      BY <1>2, NoRowsShown, IdsEntries
    <2>2. QED
      BY <1>2, <2>1 DEF FittingPages, PageFits
  <1>5. cs \in Seq(F) /\ Len(cs) = done
    <2>1. Len(fill) \in Nat /\ done \in Nat /\ done <= Len(fill)
      BY <1>3 DEF fill
    <2>2. QED
      BY <1>3, <2>1
  <1>6. new = Calls(root, cs)
    BY DEF root, fill
  <1> HIDE DEF cs, S
  <1>7. Calls(root, cs) \in FittingPages(given, S)
    <2>1. S \in SUBSET Ids
      BY DEF S
    <2>2. QED
      BY <1>4, <1>5, <2>1, FillingKeepsFit DEF F
  <1>8. ASSUME column = "name"
        PROVE  new.num_keys = 0
    <2>1. fill = << >>
      BY <1>3, <1>8
    <2>2. Len(fill) = 0
      BY <2>1
    <2>3. Len(cs) = 0
      BY <1>5, <2>2 DEF fill
    <2> DEFINE R == {root}
    <2>4. Closed(R, cs)
      BY <2>3 DEF Closed
    <2>5. Calls(root, cs) \in R
      BY <1>5, <2>4, CallsKeep
    <2>6. QED
      BY <1>2, <1>6, <2>5
  <1>9. QED
    BY <1>6, <1>7, <1>8 DEF S

\* One more index, on the page behind the others.
OneMore(ixs, n, column, more) ==
    /\ more \in Seq(IndexRecords) /\ Len(more) = Len(ixs) + 1
    /\ \A i \in DOMAIN more : more[i].page = n \/
          (i \in DOMAIN ixs /\ more[i] = ixs[i])
    /\ \A p \in IntPages(more) : p \in IntPages(ixs) \/ (p = n /\ column = "g")
    /\ \A p \in NamePages(more) : p \in NamePages(ixs) \/ (p = n /\ column = "name")

LEMMA MoreIndexes ==
    ASSUME NEW ixs \in Seq(IndexRecords), NEW n \in Nat, NEW column \in {"g", "name"},
           NEW more, more = Append(ixs, [page |-> n, column |-> column])
    PROVE  OneMore(ixs, n, column, more)
  <1> DEFINE x == [page |-> n, column |-> column]
  <1>1. x \in IndexRecords /\ x.page = n /\ x.column = column
    BY DEF IndexRecords
  <1> HIDE DEF x
  <1>2. more = Append(ixs, x)
    BY DEF x
  <1>3. Len(ixs) \in Nat /\ DOMAIN ixs = 1 .. Len(ixs)
    OBVIOUS
  <1>4. /\ more \in Seq(IndexRecords) /\ Len(more) = Len(ixs) + 1
        /\ more[Len(ixs) + 1] = x /\ DOMAIN more = 1 .. Len(ixs) + 1
        /\ \A i \in 1 .. Len(ixs) : more[i] = ixs[i]
    BY <1>1, <1>2, AppendProperties
  <1>5. \A i \in DOMAIN more : more[i] = x \/ (i \in DOMAIN ixs /\ more[i] = ixs[i])
    <2>1. SUFFICES ASSUME NEW i \in DOMAIN more
                   PROVE  more[i] = x \/ (i \in DOMAIN ixs /\ more[i] = ixs[i])
      OBVIOUS
    <2>2. i = Len(ixs) + 1 \/ i \in 1 .. Len(ixs)
      BY <1>3, <1>4
    <2>3. QED
      BY <1>3, <1>4, <2>2
  <1>6. \A i \in DOMAIN more : more[i].page = n \/ (i \in DOMAIN ixs /\ more[i] = ixs[i])
    BY <1>1, <1>5
  <1>7. \A p \in IntPages(more) : p \in IntPages(ixs) \/ (p = n /\ column = "g")
    <2>1. SUFFICES ASSUME NEW p \in IntPages(more)
                   PROVE  p \in IntPages(ixs) \/ (p = n /\ column = "g")
      OBVIOUS
    <2>2. PICK i \in DOMAIN more : more[i].column = "g" /\ more[i].page = p
      BY <2>1 DEF IntPages
    <2>3. QED
      BY <1>1, <1>5, <2>2 DEF IntPages
  <1>8. \A p \in NamePages(more) : p \in NamePages(ixs) \/ (p = n /\ column = "name")
    <2>1. SUFFICES ASSUME NEW p \in NamePages(more)
                   PROVE  p \in NamePages(ixs) \/ (p = n /\ column = "name")
      OBVIOUS
    <2>2. PICK i \in DOMAIN more : more[i].column # "g" /\ more[i].page = p
      BY <2>1 DEF NamePages
    <2>3. QED
      BY <1>1, <1>5, <2>2 DEF NamePages
  <1>9. QED
    BY <1>4, <1>6, <1>7, <1>8 DEF OneMore

LEMMA CreateIndexFits ==
    ASSUME StateInv, FitInv, NEW column \in {"g", "name"}, CreateIndex(column)
    PROVE  StateInv' /\ FitInv'
  <1>1. /\ Len(indexes) < MaxIndexes /\ Len(pages) < MaxPages
        /\ UNCHANGED <<log, session, given, again>>
    BY DEF CreateIndex, ghosts
  <1>2. PICK old \in Range(pages) \cup OldPages, junk \in Junk, survives \in BOOLEAN :
            \E done \in 0 .. Len(FillCalls(column, junk)) :
               /\ pages' = Append(pages, Calls(NewRoot(old),
                                SubSeq(FillCalls(column, junk), 1, done)))
               /\ IF survives
                  THEN /\ indexes' = Append(indexes, [page   |-> Len(pages) + 1,
                                                      column |-> column])
                       /\ UNCHANGED memory
                  ELSE Forget /\ UNCHANGED indexes
    BY DEF CreateIndex
  <1>3. PICK done \in 0 .. Len(FillCalls(column, junk)) :
            /\ pages' = Append(pages, Calls(NewRoot(old),
                                SubSeq(FillCalls(column, junk), 1, done)))
            /\ IF survives
               THEN /\ indexes' = Append(indexes, [page   |-> Len(pages) + 1,
                                                   column |-> column])
                    /\ UNCHANGED memory
               ELSE Forget /\ UNCHANGED indexes
    BY <1>2
  <1> DEFINE n   == Len(pages)
             S   == Ids \ again
             new == Calls(NewRoot(old), SubSeq(FillCalls(column, junk), 1, done))
  <1>4. /\ new \in FittingPages(given, S) /\ (column = "name" => new.num_keys = 0)
    BY NewPageIs
  <1>5. pages' = Append(pages, new)
    BY <1>3
  <1> HIDE DEF new
  <1>6. /\ n \in Nat /\ n >= 1 /\ pages \in [1 .. n -> Proper(Cells)]
        /\ log \in Seq(Bytes) /\ TablePage \in 1 .. n /\ table \in Proper(Contents)
        /\ IntPages(indexes) \subseteq 2 .. n /\ NamePages(indexes) \subseteq 2 .. n
        /\ lsn \in Bytes /\ HeaderSize * lsn <= Len(log) /\ Len(log) \in Nat
        /\ Len(indexes) \in Nat /\ MaxPages \in Nat /\ MaxIndexes \in Nat
    BY StateParts, ConstantsAre
  <1>7. new \in Proper(Cells) /\ PageFits(new, given, S)
    BY <1>4 DEF FittingPages
  <1>8. /\ pages' \in [1 .. n + 1 -> Proper(Cells)] /\ pages'[n + 1] = new
        /\ Len(pages') = n + 1 /\ \A p \in 1 .. n : pages'[p] = pages[p]
    <2> DEFINE P == Proper(Cells)
    <2>1. pages \in Seq(P) /\ new \in P
      BY <1>6, <1>7, PagesAre
    <2> HIDE DEF P
    <2>2. /\ Append(pages, new) \in Seq(P) /\ Len(Append(pages, new)) = n + 1
          /\ Append(pages, new)[n + 1] = new
          /\ \A p \in 1 .. n : Append(pages, new)[p] = pages[p]
      BY <2>1, AppendProperties
    <2> DEFINE ps == Append(pages, new)
    <2> HIDE DEF ps
    <2>3. ps \in Seq(P) /\ Len(ps) = n + 1
      BY <2>2 DEF ps
    <2>4. ps \in [1 .. n + 1 -> P]
      BY <2>3
    <2>5. pages' = ps
      BY <1>5 DEF ps
    <2>6. QED
      BY <2>2, <2>4, <2>5 DEF P, ps
  <1> HIDE DEF n, S
  <1>9. table' = table /\ pages'[TablePage] = pages[TablePage]
    BY <1>6, <1>8 DEF table
  <1>10. Disk' \in Disks(n + 1)
    <2>1. Disk' = [log |-> log, pages |-> pages']
      BY <1>1 DEF Disk
    <2>2. pages'[TablePage] \in Proper(Contents)
      BY <1>6, <1>9 DEF table
    <2>3. [log |-> log, pages |-> pages'] \in Disks(n + 1)
      BY <1>6, <1>8, <2>2 DEF Disks
    <2>4. QED
      BY <2>1, <2>3
  <1>11. n + 1 \in 1 .. MaxPages
    BY <1>1, <1>6 DEF n
  <1>12. /\ up' \in BOOLEAN /\ locked' \in BOOLEAN /\ current_tx_id' \in 0 .. MaxTx
         /\ lsn' \in Bytes /\ HeaderSize * lsn' <= Len(log')
    <2>1. CASE survives
      <3>1. /\ up' = up /\ locked' = locked /\ current_tx_id' = current_tx_id
            /\ lsn' = lsn /\ log' = log
        BY <1>1, <1>3, <2>1 DEF memory
      <3>2. QED
        BY <1>6, <3>1 DEF StateInv
    <2>2. CASE ~ survives
      <3>1. /\ up' = FALSE /\ locked' = FALSE /\ current_tx_id' = 0 /\ lsn' = 0
            /\ log' = log
        BY <1>1, <1>3, <2>2 DEF Forget
      <3>2. MaxTx \in Int /\ 0 <= MaxTx /\ 0 \in Bytes
        BY ConstantsAre, ByteIs
      <3>3. current_tx_id' \in 0 .. MaxTx /\ lsn' \in Bytes
        BY <3>1, <3>2
      <3>4. HeaderSize * lsn' <= Len(log')
        BY <1>6, <3>1 DEF HeaderSize
      <3>5. QED
        BY <3>1, <3>3, <3>4
    <2>3. QED
      BY <2>1, <2>2
  <1>13. /\ indexes \in Seq(IndexRecords) /\ Len(indexes) <= MaxIndexes
         /\ \A i \in DOMAIN indexes : indexes[i].page \in 2 .. n
    BY DEF StateInv, n
  <1>14. \/ indexes' = indexes
         \/ indexes' = Append(indexes, [page |-> n + 1, column |-> column])
    BY <1>3 DEF n
  <1>15. /\ indexes' \in Seq(IndexRecords) /\ Len(indexes') <= MaxIndexes
         /\ \A i \in DOMAIN indexes' : indexes'[i].page \in 2 .. n + 1
         /\ \A p \in IntPages(indexes') :
                p \in IntPages(indexes) \/ (p = n + 1 /\ column = "g")
         /\ \A p \in NamePages(indexes') :
                p \in NamePages(indexes) \/ (p = n + 1 /\ column = "name")
    <2>1. 2 .. n \subseteq 2 .. n + 1 /\ n + 1 \in 2 .. n + 1 /\ n + 1 \in Nat
      BY <1>6
    <2>2. CASE indexes' = indexes
      BY <1>13, <2>1, <2>2
    <2>3. CASE indexes' = Append(indexes, [page |-> n + 1, column |-> column])
      <3> DEFINE more == Append(indexes, [page |-> n + 1, column |-> column])
                 next == n + 1
      <3>1. more = Append(indexes, [page |-> next, column |-> column]) /\ next \in Nat
        BY <2>1
      <3> HIDE DEF more, next
      <3>2. OneMore(indexes, next, column, more)
        BY <1>13, <3>1, MoreIndexes
      <3>3. /\ more \in Seq(IndexRecords) /\ Len(more) = Len(indexes) + 1
            /\ \A i \in DOMAIN more :
                  more[i].page = n + 1 \/ (i \in DOMAIN indexes /\ more[i] = indexes[i])
            /\ \A p \in IntPages(more) :
                  p \in IntPages(indexes) \/ (p = n + 1 /\ column = "g")
            /\ \A p \in NamePages(more) :
                  p \in NamePages(indexes) \/ (p = n + 1 /\ column = "name")
        BY <3>2 DEF next, OneMore
      <3>4. indexes' = more
        BY <2>3 DEF more
      <3>5. Len(more) <= MaxIndexes
        BY <1>1, <1>6, <3>3
      <3>6. \A i \in DOMAIN more : more[i].page \in 2 .. n + 1
        BY <1>13, <2>1, <3>3
      <3>7. QED
        BY <3>3, <3>4, <3>5, <3>6
    <2>4. QED
      BY <1>14, <2>2, <2>3
  <1>16. StateInv'
    <2>1. session' = session /\ given' = given
      BY <1>1
    <2>2. session \in 1 .. Sessions + 1 /\ given \in [Ids -> Numbers \cup {NoNumber}]
      BY DEF StateInv
    <2>3. Len(pages') = n + 1
      BY <1>8
    <2>4. QED
      BY <1>10, <1>11, <1>12, <1>15, <2>1, <2>2, <2>3 DEF StateInv
  <1>17. \A p \in 2 .. n : pages'[p] = pages[p] /\ p # n + 1
    <2>1. 2 .. n \subseteq 1 .. n /\ \A p \in 2 .. n : p # n + 1
      BY <1>6
    <2>2. QED
      BY <1>8, <2>1
  <1>18. /\ RowsFit(pages[TablePage], given, S)
         /\ EntriesFit(pages, IntPages(indexes), given, S)
         /\ \A p \in NamePages(indexes) : pages[p].num_keys = 0 /\ p \notin IntPages(indexes)
    BY DEF FitInv, Fits, S
  <1>19. EntriesFit(pages', IntPages(indexes'), given, S)
    <2>1. SUFFICES ASSUME NEW p \in IntPages(indexes')
                   PROVE  PageFits(pages'[p], given, S)
      BY DEF EntriesFit
    <2>2. CASE p \in IntPages(indexes)
      BY <1>6, <1>17, <1>18, <2>2 DEF EntriesFit
    <2>3. CASE p = n + 1
      BY <1>7, <1>8, <2>3
    <2>4. QED
      BY <1>15, <2>2, <2>3
  <1>20. \A p \in NamePages(indexes') :
             pages'[p].num_keys = 0 /\ p \notin IntPages(indexes')
    <2>1. SUFFICES ASSUME NEW p \in NamePages(indexes')
                   PROVE  pages'[p].num_keys = 0 /\ p \notin IntPages(indexes')
      OBVIOUS
    <2>2. CASE p \in NamePages(indexes)
      BY <1>6, <1>15, <1>17, <1>18, <2>2
    <2>3. CASE p = n + 1 /\ column = "name"
      BY <1>4, <1>6, <1>8, <1>15, <1>17, <2>3
    <2>4. QED
      BY <1>15, <2>2, <2>3
  <1>21. Fits(pages', indexes', given, S)
    BY <1>9, <1>18, <1>19, <1>20 DEF Fits
  <1>22. FitInv'
    BY <1>1, <1>21 DEF FitInv, S
  <1>23. QED
    BY <1>16, <1>22

\* The file that ROLLBACK scans.
LEMMA FileIs ==
    ASSUME StateInv, catalog \in CatalogPages
    PROVE  /\ File \in Seq(Bytes) /\ Len(File) \in Nat
           /\ Len(pages) = 1 => Len(File) = BehindTable
  <1> DEFINE n == Len(pages)
  <1>1. n \in Nat /\ pages \in [1 .. n -> Proper(Cells)]
    BY StateParts
  <1>2. pages \in [1 .. n -> LeafOver(Int, Cells)]
    BY <1>1 DEF Proper
  <1>3. /\ FileOf(catalog, pages) \in Seq(Bytes) /\ Len(FileOf(catalog, pages)) \in Nat
        /\ n = 1 => Len(FileOf(catalog, pages)) = 3 * PageSize
    BY <1>1, <1>2, FileBytes
  <1>4. QED
    BY <1>3 DEF File, BehindTable

-----------------------------------------------------------------------------
(* ROLLBACK.                                                                *)

\* With no page behind the table's, the first record that is found leaves the
\* offset at the end of the file.
ScanInv ==
    /\ catalog \in CatalogPages
    /\ scan.offset \in Nat /\ scan.header \in Headers
    /\ scan.running = FALSE => scan = NoScan
    /\ Len(pages) = 1 => \/ scan.found = 0 /\ scan.cached = FALSE
                         \/ scan.found = 1 /\ scan.offset = BehindTable

LEMMA NoScanIs ==
    /\ NoScan.offset \in Nat /\ NoScan.header \in Headers
    /\ NoScan.found = 0 /\ NoScan.cached = FALSE /\ NoScan.running = FALSE
  <1>1. Unread \in Headers
    BY StartIsState DEF LoopStart, LoopState
  <1>2. QED
    BY <1>1 DEF NoScan

\* A round that finds a record.
LEMMA RecordFound ==
    ASSUME StateInv, ScanInv, NEW file \in Seq(Bytes), NEW pos \in Nat,
           NEW header \in Headers, NEW after, after = AfterRecord(file, header, pos)
    PROVE  /\ after.table \in Proper(Contents)
           /\ after.scan.running = TRUE
           /\ after.scan.offset \in Nat /\ after.scan.header \in Headers
           /\ Len(pages) = 1 /\ scan.found = 0 =>
                 after.scan.found = 1 /\ after.scan.offset = BehindTable
  <1> DEFINE calls == CallsOf(file, header, pos + HeaderSize, current_tx_id)
             past  == PastRecord(header, pos, {LOG_RECORD_TYPE_INSERT,
                                               LOG_RECORD_TYPE_UPDATE})
             next  == OffsetAfter(calls, pos, past)
             found == IF scan.found < 2 THEN scan.found + 1 ELSE scan.found
  <1>1. /\ after.table = Calls(table, calls) /\ after.scan.running = TRUE
        /\ after.scan.offset = next /\ after.scan.header = header
        /\ after.scan.found = found
    BY DEF AfterRecord
  <1>2. calls \in Seq(AnyCall)
    BY CallsOfAre DEF HeaderSize
  <1>3. past \in Nat
    BY RecordsAdvance
  <1>4. BehindTable \in Nat
    BY PageAssumption DEF BehindTable
  <1> HIDE DEF calls, past
  <1>5. next = BehindTable \/ next = past
    BY DEF OffsetAfter
  <1>6. scan.cached = FALSE => next = BehindTable
    BY DEF OffsetAfter
  <1>7. Calls(table, calls) \in Proper(Contents)
    BY <1>2, StateParts, CallsKeepProper
  <1>8. Len(pages) = 1 /\ scan.found = 0 => found = 1 /\ scan.cached = FALSE
    BY DEF ScanInv
  <1>9. QED
    BY <1>1, <1>3, <1>4, <1>5, <1>6, <1>7, <1>8

\* A round of ROLLBACK.
LEMMA ScanStepKeeps ==
    ASSUME StateInv, FitInv, ScanInv, ScanStep
    PROVE  StateInv' /\ FitInv' /\ ScanInv'
  <1> DEFINE ahead  == RecordsAhead(File, scan.offset, scan.header, current_tx_id)
             rounds == RoundsFrom(File, scan.offset)
             header(pos) == HeaderAt(File, scan.offset, scan.header, pos)
  <1>1. File \in Seq(Bytes) /\ (Len(pages) = 1 => Len(File) = BehindTable)
    BY FileIs DEF ScanInv
  <1>2. UNCHANGED <<up, current_tx_id, lsn, log, indexes, session, given, catalog>>
    BY DEF ScanStep
  <1>3. \/ /\ ahead = {} /\ scan' = NoScan /\ locked' = FALSE
           /\ UNCHANGED <<pages, again, clean>>
        \/ /\ ahead # {} /\ locked' = locked
           /\ \E pos \in {Min(ahead)} :
              \E after \in {AfterRecord(File, header(pos), pos)} :
                 /\ pages' = [pages EXCEPT ![TablePage] = after.table]
                 /\ scan' = after.scan
                 /\ again' = again \cup Reverted(after.table)
    BY DEF ScanStep
  <1> HIDE DEF ahead
  <1>4. CASE /\ ahead = {} /\ scan' = NoScan /\ locked' = FALSE
             /\ UNCHANGED <<pages, again, clean>>
    <2>1. Disk' = Disk
      BY <1>2, <1>4 DEF Disk
    <2>2. StateInv'
      BY <1>2, <1>4, <2>1 DEF StateInv
    <2>3. FitInv'
      BY <1>2, <1>4 DEF FitInv
    <2>4. ScanInv'
      BY <1>2, <1>4, NoScanIs DEF ScanInv
    <2>5. QED
      BY <2>2, <2>3, <2>4
  <1>5. CASE /\ ahead # {} /\ locked' = locked
             /\ \E pos \in {Min(ahead)} :
                \E after \in {AfterRecord(File, header(pos), pos)} :
                   /\ pages' = [pages EXCEPT ![TablePage] = after.table]
                   /\ scan' = after.scan
                   /\ again' = again \cup Reverted(after.table)
    <2>1. PICK pos, after :
              /\ pos = Min(ahead)
              /\ after = AfterRecord(File, header(pos), pos)
              /\ pages' = [pages EXCEPT ![TablePage] = after.table]
              /\ scan' = after.scan
              /\ again' = again \cup Reverted(after.table)
      BY <1>5
    <2>2. pos \in rounds
      <3>1. \A p \in rounds : p \in Nat
        BY <1>1, RoundsAre DEF ScanInv
      <3>2. ahead \subseteq rounds
        BY DEF ahead, RecordsAhead
      <3>3. ahead \subseteq Nat
        BY <3>1, <3>2
      <3>4. Min(ahead) \in ahead
        BY <1>5, <3>3, MinOfNats
      <3>5. QED
        BY <2>1, <3>2, <3>4
    <2>3. pos \in Nat /\ header(pos) \in Headers /\ pos < Len(File)
      BY <1>1, <2>2, RoundsAre DEF ScanInv
    <2>4. /\ after.table \in Proper(Contents)
          /\ after.scan.running = TRUE
          /\ after.scan.offset \in Nat /\ after.scan.header \in Headers
          /\ Len(pages) = 1 /\ scan.found = 0 =>
                after.scan.found = 1 /\ after.scan.offset = BehindTable
      BY <1>1, <2>1, <2>3, RecordFound
    <2>5. /\ Disk' \in Disks(Len(pages')) /\ Len(pages') = Len(pages)
          /\ FitInv'
      <3>1. UNCHANGED <<log, indexes, given>>
        BY <1>2
      <3>2. QED
        BY <2>1, <2>4, <3>1, TableChangeFits
    <2>6. StateInv'
      BY <1>2, <1>5, <2>5 DEF StateInv
    <2>7. Len(pages) = 1 => scan.found = 0
      <3>1. SUFFICES ASSUME Len(pages) = 1, scan.offset = BehindTable
                     PROVE  FALSE
        BY DEF ScanInv
      <3>2. Len(File) = scan.offset /\ scan.offset \in Nat
        BY <1>1, <3>1 DEF ScanInv
      <3>3. pos >= scan.offset
        BY <2>2, <3>2 DEF RoundsFrom, HeaderSize
      <3>4. QED
        BY <2>3, <3>2, <3>3
    <2>8. ScanInv'
      BY <1>2, <2>1, <2>4, <2>5, <2>7 DEF ScanInv
    <2>9. QED
      BY <2>5, <2>6, <2>8
  <1>6. QED
    BY <1>3, <1>4, <1>5

-----------------------------------------------------------------------------
(* What always holds.                                                       *)

IndexInv == StateInv /\ FitInv /\ ScanInv

\* Statements, DDL, closing and opening, which the scan does not see.
LEMMA NextIndexFits ==
    ASSUME StateInv, FitInv, NextIndex
    PROVE  StateInv' /\ FitInv'
  <1>1. CASE Begin
    BY <1>1, ShortRecordFits
  <1>2. CASE \E id \in Ids, number \in Numbers : Insert(id, number)
    BY <1>2, InsertFits
  <1>3. CASE \E id \in Ids, number \in Numbers : Update(id, number)
    BY <1>3, UpdateFits
  <1>4. CASE \E id \in Ids : Delete(id)
    BY <1>4, DeleteFits
  <1>5. CASE Commit
    BY <1>5, ShortRecordFits
  <1>6. CASE \E column \in {"g", "name"} : CreateIndex(column)
    BY <1>6, CreateIndexFits
  <1>7. CASE \E i \in DOMAIN indexes : DropIndex(i)
    BY <1>7, DropIndexFits
  <1>8. CASE Close
    BY <1>8, CloseFits
  <1>9. CASE Open
    BY <1>9, OpenFits
  <1>10. QED
    BY <1>1, <1>2, <1>3, <1>4, <1>5, <1>6, <1>7, <1>8, <1>9 DEF NextIndex

LEMMA IndexInvInit == Init => IndexInv
  BY InitFits, NoScanIs DEF Init, IndexInv, ScanInv

LEMMA IndexInvNext == IndexInv /\ [Next]_vars => IndexInv'
  <1> SUFFICES ASSUME StateInv, FitInv, ScanInv, [Next]_vars
               PROVE  StateInv' /\ FitInv' /\ ScanInv'
    BY DEF IndexInv
  <1>1. CASE UNCHANGED vars
    <2>1. UNCHANGED <<up, locked, current_tx_id, lsn, log, pages, indexes, session,
                      given, again, catalog, scan>>
      BY <1>1 DEF vars, indexVars, memory, ghosts
    <2>2. Disk' = Disk
      BY <2>1 DEF Disk
    <2>3. StateInv'
      BY <2>1, <2>2 DEF StateInv
    <2>4. FitInv' /\ ScanInv'
      BY <2>1 DEF FitInv, ScanInv
    <2>5. QED
      BY <2>3, <2>4
  <1>2. CASE ~ scan.running /\ NextIndex /\ UNCHANGED <<catalog, scan>>
    <2>1. scan' = NoScan /\ catalog' = catalog
      BY <1>2 DEF ScanInv
    <2>2. ScanInv'
      BY <2>1, NoScanIs DEF ScanInv
    <2>3. QED
      BY <1>2, <2>2, NextIndexFits
  <1>3. CASE Rollback
    <2>1. /\ scan' = [NoScan EXCEPT !.running = TRUE]
          /\ UNCHANGED <<up, locked, current_tx_id, lsn, log, pages, indexes, session,
                         given, again, catalog>>
      BY <1>3 DEF Rollback, indexVars, memory, ghosts
    <2>2. /\ scan'.offset = NoScan.offset /\ scan'.header = NoScan.header
          /\ scan'.found = NoScan.found /\ scan'.cached = NoScan.cached
          /\ scan'.running = TRUE
      BY <2>1 DEF NoScan
    <2>3. Disk' = Disk
      BY <2>1 DEF Disk
    <2>4. StateInv'
      BY <2>1, <2>3 DEF StateInv
    <2>5. FitInv'
      BY <2>1 DEF FitInv
    <2>6. ScanInv'
      BY <2>1, <2>2, NoScanIs DEF ScanInv
    <2>7. QED
      BY <2>4, <2>5, <2>6
  <1>4. CASE ScanStep
    BY <1>4, ScanStepKeeps
  <1>5. CASE Kill
    <2>1. Close /\ scan' = NoScan /\ catalog' = catalog
      BY <1>5 DEF Kill
    <2>2. ScanInv'
      BY <2>1, NoScanIs DEF ScanInv
    <2>3. QED
      BY <2>1, <2>2, CloseFits
  <1>6. QED
    BY <1>1, <1>2, <1>3, <1>4, <1>5 DEF Next

LEMMA IndexInvAlways == Spec => []IndexInv
  BY IndexInvInit, IndexInvNext, PTL DEF Spec

\* The variables keep their types, wherever a statement, CREATE INDEX, a recovery
\* or a ROLLBACK dies, and whatever bytes they take for records: the page of the
\* table stays a leaf of rows, each other page a leaf of rows or entries, and each
\* index of the catalog has a page that is in the file and is not the table's.
THEOREM IndexTypes == Spec => []TypeOK
  <1>1. IndexInv => TypeOK
    <2> SUFFICES ASSUME StateInv
                 PROVE  TypeOK
      BY DEF IndexInv
    <2>1. /\ table \in AnyNode /\ log \in Seq(Bytes)
          /\ DOMAIN pages = 1 .. Len(pages) /\ Len(indexes) \in Nat
          /\ pages \in [1 .. Len(pages) -> Proper(Cells)]
      BY StateParts, CallKeepsProper
    <2>2. \A p \in DOMAIN pages : pages[p] \in IndexNode
      BY <2>1 DEF Proper, LeafOver, IndexNode, Cells
    <2>3. /\ up \in BOOLEAN /\ locked \in BOOLEAN
          /\ current_tx_id \in 0 .. MaxTx
          /\ Len(pages) \in 1 .. MaxPages
          /\ session \in 1 .. Sessions + 1
          /\ indexes \in Seq(IndexRecords) /\ Len(indexes) <= MaxIndexes
          /\ \A i \in DOMAIN indexes : indexes[i].page \in 2 .. Len(pages)
      BY DEF StateInv
    <2>4. \A i \in DOMAIN indexes : indexes[i].column \in {"g", "name"}
      <3>1. \A record \in IndexRecords : record.column \in {"g", "name"}
        BY DEF IndexRecords
      <3>2. \A i \in DOMAIN indexes : indexes[i] \in IndexRecords
        BY <2>3
      <3>3. QED
        BY <3>1, <3>2
    <2>5. Len(indexes) \in 0 .. MaxIndexes
      BY <2>1, <2>3, ConstantsAre
    <2>6. lsn \in 0 .. 255
      BY DEF StateInv, Bytes
    <2>7. QED
      BY <2>1, <2>2, <2>3, <2>4, <2>5, <2>6 DEF TypeOK
  <1>2. QED
    BY <1>1, IndexInvAlways, PTL

\* An index's entry never leads a lookup to a row that has another number than the
\* one it is kept under, although a lookup does not compare them and a statement
\* may die between any two of its writes: a row is unindexed before it is written
\* and indexed after it.  Not so for a row that was inserted over or that a
\* recovery or a ROLLBACK turned back, which no statement on indexes sees.
THEOREM EntriesLead == Spec => []EntriesLeadToRows
  <1>1. IndexInv => EntriesLeadToRows
    <2> SUFFICES ASSUME StateInv, FitInv, NEW i \in DOMAIN indexes,
                        NEW number \in LiveKeys(pages[indexes[i].page]),
                        NEW id \in Ids \ again,
                        btree_search(pages[indexes[i].page], number) = <<id>>,
                        btree_search(table, id) # NoRow
                 PROVE  btree_search(table, id)[2] = number
      BY DEF IndexInv, EntriesLeadToRows
    <2> DEFINE p == indexes[i].page
               S == Ids \ again
    <2>1. /\ RowsFit(table, given, S)
          /\ EntriesFit(pages, IntPages(indexes), given, S)
          /\ \A q \in NamePages(indexes) : pages[q].num_keys = 0
      BY DEF FitInv, Fits, table
    <2>2. pages[p] \in Proper(Cells)
      <3>1. p \in 2 .. Len(pages)
        BY DEF StateInv
      <3>2. p \in 1 .. Len(pages)
        BY <3>1, StateParts
      <3>3. QED
        BY <3>2, StateParts
    <2>3. number \in Int
      <3>1. pages[p] \in LeafOver(Int, Cells)
        BY <2>2 DEF Proper
      <3>2. /\ pages[p].keys \in [1 .. Slots -> Int]
            /\ Used(pages[p]) \subseteq 1 .. Slots
        BY <3>1, PartsOver
      <3>3. PICK j \in Used(pages[p]) : number = pages[p].keys[j]
        BY DEF LiveKeys
      <3>4. QED
        BY <3>2, <3>3
    <2>4. p \in IntPages(indexes)
      <3>1. p \in NamePages(indexes) => btree_search(pages[p], number) = NoRow
        BY <2>1, <2>2, <2>3, NoRowsShown
      <3>2. p \in IntPages(indexes) \/ p \in NamePages(indexes)
        BY DEF IntPages, NamePages
      <3>3. QED
        BY <3>1, <3>2, IdsEntries
    <2>5. given[id] = number
      BY <2>1, <2>3, <2>4 DEF EntriesFit, PageFits
    <2>6. btree_search(table, id) = <<id, given[id]>>
      BY <2>1 DEF RowsFit
    <2>7. QED
      BY <2>5, <2>6
  <1>2. QED
    BY <1>1, IndexInvAlways, PTL

\* A ROLLBACK of a table without indexes finds one record at most in the database
\* file, whatever the bytes of its pages and of the catalog look like: the call it
\* leads to reads the table's page, which is the last of the file.
THEOREM OneRecordAtMost == Spec => []OneRecordInThreePages
  <1>1. IndexInv => OneRecordInThreePages
    BY DEF IndexInv, ScanInv, OneRecordInThreePages
  <1>2. QED
    BY <1>1, IndexInvAlways, PTL

-----------------------------------------------------------------------------
(* What CREATE INDEX fills a page with.  The slots of the table are given by  *)
(* their keys and by the numbers in the column; those without one, and those  *)
(* of deleted rows, have NoNumber.                                          *)

\* The numbers whose entries lookups find: btree_search passes over a key -1.
Known == Numbers \ {Tombstone}

\* The last of the first i slots with that number.
LastSlot(numbers, i, k, j) ==
    j \in 1 .. i /\ numbers[j] = k /\ \A l \in j + 1 .. i : numbers[l] # k

\* Page leads from each number in the first i slots to the key in the last of them.
Filled(page, keys, numbers, i) ==
    /\ page \in Proper(Cells) /\ page.num_keys <= i
    /\ \A k \in Known :
          \/ /\ btree_search(page, k) = NoRow
             /\ \A j \in 1 .. i : numbers[j] # k
          \/ \E j : /\ LastSlot(numbers, i, k, j)
                    /\ btree_search(page, k) = <<keys[j]>>

\* A slot without a number makes no call.
LEMMA SlotSkipped ==
    ASSUME NEW page, NEW keys, NEW numbers, NEW i \in Nat,
           Filled(page, keys, numbers, i), numbers[i + 1] = NoNumber
    PROVE  Filled(page, keys, numbers, i + 1)
  <1>1. page.num_keys \in Nat /\ page.num_keys <= i + 1
    <2>1. page \in LeafOver(Int, Cells) /\ page.num_keys <= i
      BY DEF Filled, Proper
    <2>2. page.num_keys \in 0 .. Slots
      BY <2>1, PartsOver
    <2>3. QED
      BY <2>1, <2>2, SlotsAssumption
  <1>2. \A k \in Known : numbers[i + 1] # k
    BY ConstantsAre DEF Known
  <1>3. \A j \in 1 .. i + 1 : j \in 1 .. i \/ j = i + 1
    OBVIOUS
  <1>4. \A k \in Known : \A j : LastSlot(numbers, i, k, j) =>
                                    LastSlot(numbers, i + 1, k, j)
    <2>1. SUFFICES ASSUME NEW k \in Known, NEW j, LastSlot(numbers, i, k, j)
                   PROVE  LastSlot(numbers, i + 1, k, j)
      OBVIOUS
    <2>2. /\ j \in 1 .. i /\ numbers[j] = k /\ j \in 1 .. i + 1
          /\ \A l \in j + 1 .. i : numbers[l] # k
      BY <2>1 DEF LastSlot
    <2>3. \A l \in j + 1 .. i + 1 : l \in j + 1 .. i \/ l = i + 1
      BY <2>2
    <2>4. QED
      BY <1>2, <2>2, <2>3 DEF LastSlot
  <1>5. page \in Proper(Cells)
    BY DEF Filled
  <1>6. ASSUME NEW k \in Known
        PROVE  \/ /\ btree_search(page, k) = NoRow
                  /\ \A j \in 1 .. i + 1 : numbers[j] # k
               \/ \E j : /\ LastSlot(numbers, i + 1, k, j)
                         /\ btree_search(page, k) = <<keys[j]>>
    <2>1. CASE /\ btree_search(page, k) = NoRow
               /\ \A j \in 1 .. i : numbers[j] # k
      BY <1>2, <1>3, <2>1
    <2>2. CASE \E j : /\ LastSlot(numbers, i, k, j)
                      /\ btree_search(page, k) = <<keys[j]>>
      BY <1>4, <2>2
    <2>3. QED
      BY <2>1, <2>2 DEF Filled
  <1>7. QED
    BY <1>1, <1>5, <1>6 DEF Filled

\* A slot with a number makes an entry, for which there is room: the page of an
\* index has as many slots as the table's.
LEMMA SlotEntered ==
    ASSUME NEW page, NEW keys, NEW numbers, NEW i \in Nat, i < Slots,
           Filled(page, keys, numbers, i), numbers[i + 1] \in Numbers,
           keys[i + 1] \in Int
    PROVE  Filled(Call(page, InsertCall(numbers[i + 1], <<keys[i + 1]>>)),
                  keys, numbers, i + 1)
  <1> DEFINE number == numbers[i + 1]
             value  == <<keys[i + 1]>>
             new    == btree_insert(page, number, value)
  <1>1. /\ page \in Proper(Cells) /\ page \in LeafOver(Int, Cells)
        /\ page.num_keys <= i
    BY DEF Filled, Proper
  <1>2. page.num_keys \in Nat /\ Slots \in Nat
    <2>1. page.num_keys \in 0 .. Slots
      BY <1>1, PartsOver
    <2>2. QED
      BY <2>1, SlotsAssumption
  <1>3. number \in Int /\ value \in Cells /\ \A k \in Known : k \in Int
    BY ConstantsAre, EntryIs DEF Known
  <1>4. ~ LeafFull(page)
    BY <1>1, <1>2 DEF LeafFull
  <1>5. Call(page, InsertCall(number, value)) = new
    BY DEF Call, InsertCall
  <1>6. new \in Proper(Cells)
    BY <1>1, <1>3, InsertKeepsProper
  <1>7. new.num_keys <= i + 1
    <2>1. CASE Present(page, number)
      <3>1. page = [num_keys |-> page.num_keys, keys |-> page.keys,
                    values |-> page.values]
        BY <1>1, PartsOver
      <3> HIDE DEF number, value
      <3>2. new.num_keys = page.num_keys
        BY <2>1, <3>1 DEF btree_insert
      <3>3. QED
        BY <1>1, <1>2, <3>2
    <2>2. CASE ~ Present(page, number)
      <3>1. new.num_keys = page.num_keys + 1
        BY <1>1, <1>3, <1>4, <2>2, InsertNewOver
      <3>2. QED
        BY <1>1, <1>2, <3>1
    <2>3. QED
      BY <2>1, <2>2
  <1>8. /\ number # Tombstone => btree_search(new, number) = value
        /\ \A k \in Int : k # number => btree_search(new, k) = btree_search(page, k)
    <2>1. number # Tombstone => Shows(page, new, number, value)
      BY <1>1, <1>3, <1>4, InsertedIsShown
    <2>2. \A k \in Int : k # number => btree_search(new, k) = btree_search(page, k)
      BY <1>1, <1>3, InsertShowsOthers
    <2>3. QED
      BY <2>1, <2>2 DEF Shows
  <1> HIDE DEF new
  <1>9. LastSlot(numbers, i + 1, number, i + 1)
    <2>1. i + 1 \in 1 .. i + 1 /\ \A l \in (i + 1) + 1 .. i + 1 : FALSE
      OBVIOUS
    <2>2. QED
      BY <2>1 DEF LastSlot
  <1>10. ASSUME NEW k \in Known, k # number
         PROVE  \/ /\ btree_search(new, k) = NoRow
                   /\ \A j \in 1 .. i + 1 : numbers[j] # k
                \/ \E j : /\ LastSlot(numbers, i + 1, k, j)
                          /\ btree_search(new, k) = <<keys[j]>>
    <2>1. btree_search(new, k) = btree_search(page, k)
      BY <1>3, <1>8, <1>10
    <2>2. \A j \in 1 .. i + 1 : j \in 1 .. i \/ j = i + 1
      OBVIOUS
    <2>3. CASE /\ btree_search(page, k) = NoRow
               /\ \A j \in 1 .. i : numbers[j] # k
      BY <1>10, <2>1, <2>2, <2>3
    <2>4. CASE \E j : /\ LastSlot(numbers, i, k, j)
                      /\ btree_search(page, k) = <<keys[j]>>
      <3>1. PICK j : LastSlot(numbers, i, k, j) /\ btree_search(page, k) = <<keys[j]>>
        BY <2>4
      <3>2. /\ j \in 1 .. i /\ numbers[j] = k /\ j \in 1 .. i + 1
            /\ \A l \in j + 1 .. i : numbers[l] # k
        BY <3>1 DEF LastSlot
      <3>3. \A l \in j + 1 .. i + 1 : l \in j + 1 .. i \/ l = i + 1
        BY <3>2
      <3>4. LastSlot(numbers, i + 1, k, j)
        BY <1>10, <3>2, <3>3 DEF LastSlot
      <3>5. QED
        BY <2>1, <3>1, <3>4
    <2>5. QED
      BY <2>3, <2>4 DEF Filled
  <1>11. ASSUME NEW k \in Known
         PROVE  \/ /\ btree_search(new, k) = NoRow
                   /\ \A j \in 1 .. i + 1 : numbers[j] # k
                \/ \E j : /\ LastSlot(numbers, i + 1, k, j)
                          /\ btree_search(new, k) = <<keys[j]>>
    <2>1. CASE k = number
      BY <1>8, <1>9, <2>1 DEF Known
    <2>2. CASE k # number
      BY <1>10, <2>2
    <2>3. QED
      BY <2>1, <2>2
  <1>12. QED
    BY <1>5, <1>6, <1>7, <1>11 DEF Filled

\* The call for a slot, if it has a number.
SlotCalls(keys, numbers, i) ==
    IF numbers[i] = NoNumber THEN << >>
    ELSE << InsertCall(numbers[i], <<keys[i]>>) >>

\* After the calls for all slots a page that was empty is filled.
LEMMA FilledIs ==
    ASSUME NEW m \in 0 .. Slots, NEW keys, \A i \in 1 .. m : keys[i] \in Int,
           NEW numbers, \A i \in 1 .. m : numbers[i] \in Numbers \cup {NoNumber},
           NEW root \in Proper(Cells), root.num_keys = 0,
           NEW parts \in Seq(Seq(PageCall)), Len(parts) = m,
           \A i \in 1 .. m : parts[i] = SlotCalls(keys, numbers, i)
    PROVE  Filled(Calls(root, FlattenSeq(parts)), keys, numbers, m)
  <1>1. m \in Nat /\ m <= Slots /\ Slots \in Nat
    BY SlotsAssumption
  <1>2. \A i \in 1 .. m : parts[i] \in Seq(PageCall)
    OBVIOUS
  <1>3. PICK g : IsFlattening(g, m, PageCall, parts)
    BY <1>1, <1>2, FlatteningExists
  <1>4. FlattenSeq(parts) = g[m]
    BY <1>3, FlattenIs
  <1>5. /\ g \in [0 .. m -> Seq(PageCall)] /\ g[0] = << >>
        /\ \A i \in 1 .. m : g[i] = g[i - 1] \o parts[i]
    BY <1>3 DEF IsFlattening
  <1>6. ClosedUnder(Proper(Cells), PageCall)
    BY CallKeepsProper DEF ClosedUnder
  <1> DEFINE Good(i) == i <= m => Filled(Calls(root, g[i]), keys, numbers, i)
             S       == {i \in Nat : Good(i)}
  <1>7. Good(0)
    <2>1. Calls(root, g[0]) = root
      BY <1>5, CallsEmpty
    <2>2. \A k \in Known : btree_search(root, k) = NoRow
      BY NoRowsShown
    <2>3. \A j \in 1 .. 0 : FALSE
      OBVIOUS
    <2>4. QED
      BY <2>1, <2>2, <2>3 DEF Filled
  <1>8. ASSUME NEW i \in Nat, Good(i), i + 1 <= m
        PROVE  Filled(Calls(root, g[i + 1]), keys, numbers, i + 1)
    <2>1. /\ i <= m /\ i < Slots /\ i \in 0 .. m /\ i + 1 \in 1 .. m
          /\ (i + 1) - 1 = i
      BY <1>1, <1>8
    <2> DEFINE page == Calls(root, g[i])
    <2>2. /\ Filled(page, keys, numbers, i) /\ g[i] \in Seq(PageCall)
          /\ g[i + 1] = g[i] \o SlotCalls(keys, numbers, i + 1)
      BY <1>5, <1>8, <2>1
    <2>3. CASE numbers[i + 1] = NoNumber
      <3>1. g[i + 1] = g[i]
        BY <2>2, <2>3 DEF SlotCalls
      <3>2. Filled(page, keys, numbers, i + 1)
        BY <2>2, <2>3, SlotSkipped
      <3>3. QED
        BY <3>1, <3>2
    <2>4. CASE numbers[i + 1] # NoNumber
      <3> DEFINE c == InsertCall(numbers[i + 1], <<keys[i + 1]>>)
      <3>1. numbers[i + 1] \in Numbers /\ keys[i + 1] \in Int
        BY <2>1, <2>4
      <3>2. numbers[i + 1] \in Int /\ <<keys[i + 1]>> \in Cells
        BY <3>1, ConstantsAre, EntryIs
      <3>3. c \in PageCall
        BY <3>2, CallsOnPages
      <3>4. Filled(Call(page, c), keys, numbers, i + 1)
        BY <2>1, <2>2, <3>1, SlotEntered
      <3>5. SlotCalls(keys, numbers, i + 1) = << c >>
        BY <2>4 DEF SlotCalls
      <3> HIDE DEF c
      <3>6. g[i + 1] = Append(g[i], c)
        <4>1. g[i + 1] = g[i] \o << c >>
          BY <2>2, <3>5
        <4>2. QED
          BY <2>2, <3>3, <4>1, AppendIsConcat
      <3> DEFINE s == g[i]
      <3>7. s \in Seq(PageCall)
        BY <2>2
      <3> HIDE DEF s
      <3>8. Calls(root, Append(s, c)) = Call(Calls(root, s), c)
        BY <1>6, <3>3, <3>7, CallsAppendOver
      <3>9. QED
        BY <3>4, <3>6, <3>8 DEF s
    <2>5. QED
      BY <2>3, <2>4
  <1> HIDE DEF Good
  <1>9. 0 \in S /\ \A i \in S : i + 1 \in S
    <2>1. \A i \in Nat : Good(i) => Good(i + 1)
      <3>1. SUFFICES ASSUME NEW i \in Nat, Good(i), i + 1 <= m
                     PROVE  Filled(Calls(root, g[i + 1]), keys, numbers, i + 1)
        BY DEF Good
      <3>2. QED
        BY <1>8, <3>1
    <2>2. QED
      BY <1>7, <2>1
  <1>10. S = Nat
    BY <1>9, Induction
  <1>11. Good(m)
    BY <1>1, <1>10
  <1>12. QED
    BY <1>1, <1>4, <1>11 DEF Good

\* The numbers in the slots of a node.
SlotNumbers(node, junk) ==
    [i \in Used(node) |-> IF node.keys[i] = Tombstone THEN NoNumber
                          ELSE ColumnValue(node.values[i], junk)]

\* CREATE INDEX on the INT column, if the program does not die, fills the new page.
LEMMA NewPageFilled ==
    ASSUME StateInv, NEW junk \in Junk, NEW old \in Range(pages) \cup OldPages
    PROVE  Filled(Calls(NewRoot(old), FillCalls("g", junk)), table.keys,
                  SlotNumbers(table, junk), table.num_keys)
  <1> DEFINE m       == table.num_keys
             keys    == table.keys
             numbers == SlotNumbers(table, junk)
             number(i) == ColumnValue(table.values[i], junk)
             part(i) == IF table.keys[i] = Tombstone \/ number(i) = NoNumber THEN << >>
                        ELSE << InsertCall(number(i), <<table.keys[i]>>) >>
             parts   == [i \in Used(table) |-> part(i)]
             root    == NewRoot(old)
  <1>1. /\ table \in Proper(Contents) /\ table \in LeafOver(Int, Contents)
    BY StateParts DEF Proper
  <1>2. /\ keys \in [1 .. Slots -> Int] /\ m \in 0 .. Slots /\ m \in Nat
        /\ Used(table) = 1 .. m /\ Used(table) \subseteq 1 .. Slots
    <2>1. m \in 0 .. Slots /\ keys \in [1 .. Slots -> Int]
          /\ Used(table) \subseteq 1 .. Slots
      BY <1>1, PartsOver
    <2>2. QED
      BY <2>1, SlotsAssumption DEF Used
  <1>3. old \in LeafOver(Int, Cells)
    BY OldFrameIs
  <1>4. root \in Proper(Cells) /\ root.num_keys = 0
    BY <1>3, NewRootIs
  <1>5. FillCalls("g", junk) = FlattenSeq(parts)
    BY DEF FillCalls, number
  <1> HIDE DEF root
  <1>6. ASSUME NEW i \in 1 .. m
        PROVE  /\ numbers[i] \in Numbers \cup {NoNumber}
               /\ parts[i] = SlotCalls(keys, numbers, i)
    <2>1. /\ i \in Used(table)
          /\ numbers[i] = IF keys[i] = Tombstone THEN NoNumber ELSE number(i)
      BY <1>2 DEF SlotNumbers
    <2>2. number(i) \in Numbers \cup {NoNumber}
      BY ColumnIs
    <2>3. parts[i] = part(i)
      BY <2>1
    <2> HIDE DEF numbers, number, keys
    <2>4. part(i) = SlotCalls(keys, numbers, i)
      <3>1. CASE keys[i] = Tombstone
        BY <2>1, <3>1 DEF SlotCalls, keys
      <3>2. CASE keys[i] # Tombstone /\ number(i) = NoNumber
        BY <2>1, <3>2 DEF SlotCalls, keys
      <3>3. CASE keys[i] # Tombstone /\ number(i) # NoNumber
        BY <2>1, <3>3 DEF SlotCalls, keys
      <3>4. QED
        BY <3>1, <3>2, <3>3
    <2>5. QED
      BY <2>1, <2>2, <2>3, <2>4
  <1>7. ASSUME NEW i \in 1 .. m
        PROVE  SlotCalls(keys, numbers, i) \in Seq(PageCall)
    <2> DEFINE c == InsertCall(numbers[i], <<keys[i]>>)
    <2>1. CASE numbers[i] = NoNumber
      BY <2>1 DEF SlotCalls
    <2>2. CASE numbers[i] # NoNumber
      <3>1. keys[i] \in Int /\ i \in 1 .. Slots
        BY <1>2
      <3>2. numbers[i] \in Int /\ <<keys[i]>> \in Cells
        BY <1>6, <2>2, <3>1, ConstantsAre, EntryIs
      <3>3. c \in PageCall
        BY <3>2, CallsOnPages
      <3>4. SlotCalls(keys, numbers, i) = << c >>
        BY <2>2 DEF SlotCalls
      <3> HIDE DEF c
      <3>5. << c >> \in Seq(PageCall)
        BY <3>3
      <3>6. QED
        BY <3>4, <3>5
    <2>3. QED
      BY <2>1, <2>2
  <1> HIDE DEF part, numbers
  <1>8. parts \in Seq(Seq(PageCall)) /\ Len(parts) = m
    <2>1. \A i \in 1 .. m : parts[i] \in Seq(PageCall)
      BY <1>6, <1>7
    <2>2. parts = [i \in 1 .. m |-> part(i)]
      BY <1>2
    <2> HIDE DEF parts
    <2>3. parts \in [1 .. m -> Seq(PageCall)]
      BY <2>1, <2>2
    <2> HIDE DEF m
    <2>4. QED
      BY <1>2, <2>3, PagesAre
  <1> HIDE DEF parts
  <1>9. \A i \in 1 .. m : keys[i] \in Int
    BY <1>2
  <1> HIDE DEF keys, m
  <1>10. Filled(Calls(root, FlattenSeq(parts)), keys, numbers, m)
    BY <1>2, <1>4, <1>6, <1>8, <1>9, FilledIs
  <1>11. QED
    BY <1>5, <1>10 DEF root, keys, m, numbers

\* The slots with a number, as CREATE INDEX reads them, when no contents are ones
\* that no statement gave.
LEMMA SlotsAre ==
    ASSUME ShowsRows(table), NEW junk \in Junk, NEW number \in Numbers
    PROVE  \A i \in Used(table) :
               SlotNumbers(table, junk)[i] = number <=> i \in SlotsOf(number)
  <1>1. SUFFICES ASSUME NEW i \in Used(table)
                 PROVE  SlotNumbers(table, junk)[i] = number <=> i \in SlotsOf(number)
    OBVIOUS
  <1> DEFINE row == table.values[i]
             n   == SlotNumbers(table, junk)[i]
  <1>2. /\ n = IF table.keys[i] = Tombstone THEN NoNumber ELSE ColumnValue(row, junk)
        /\ i \in SlotsOf(number) <=>
               table.keys[i] # Tombstone /\ row \in Ids \X {number}
    BY DEF SlotNumbers, SlotsOf
  <1>3. table.keys[i] # Tombstone => row \in Texts \cup {Blank}
    BY DEF ShowsRows
  <1>4. /\ Texts = Ids \X Numbers /\ Blank \notin Texts
        /\ number # NoNumber
    <2>1. Texts = Ids \X Numbers
      BY IndexConstants
    <2>2. Blank \notin Texts
      BY IndexConstants, RowsAssumption
    <2>3. number # NoNumber
      BY ConstantsAre
    <2>4. QED
      BY <2>1, <2>2, <2>3
  <1> HIDE DEF row
  <1>5. CASE table.keys[i] = Tombstone
    BY <1>2, <1>4, <1>5
  <1>6. CASE table.keys[i] # Tombstone /\ row \in Texts
    <2>1. PICK id \in Ids, x \in Numbers : row = <<id, x>>
      BY <1>4, <1>6
    <2>2. n = x
      BY <1>2, <1>6, <2>1 DEF ColumnValue
    <2>3. row \in Ids \X {number} <=> x = number
      BY <2>1
    <2>4. QED
      BY <1>2, <1>6, <2>2, <2>3
  <1>7. CASE table.keys[i] # Tombstone /\ row \notin Texts
    <2>1. row = Blank /\ n = NoNumber
      BY <1>2, <1>3, <1>7 DEF ColumnValue
    <2>2. row \notin Ids \X {number}
      BY <1>4, <1>7
    <2>3. QED
      BY <1>2, <1>4, <2>1, <2>2
  <1>8. QED
    BY <1>5, <1>6, <1>7

\* A key -1 is no lookup's.
LEMMA NoTombstoneFound == \A node : btree_search(node, Tombstone) = NoRow
  BY DEF btree_search

\* A page that is filled leads to the last row with a number.
LEMMA FilledLeadsToLast ==
    ASSUME StateInv, ShowsRows(table), NEW junk \in Junk, NEW page,
           Filled(page, table.keys, SlotNumbers(table, junk), table.num_keys),
           NEW number \in Known
    PROVE  btree_search(page, number) =
               IF SlotsOf(number) = {} THEN NoRow
               ELSE <<table.keys[Max(SlotsOf(number))]>>
  <1> DEFINE n  == SlotNumbers(table, junk)
             m  == table.num_keys
             is == SlotsOf(number)
  <1>1. table \in LeafOver(Int, Contents)
    BY StateParts DEF Proper
  <1>2. Used(table) = 1 .. m /\ m \in Nat
    <2>1. m \in 0 .. Slots
      BY <1>1, PartsOver
    <2>2. QED
      BY <2>1, SlotsAssumption DEF Used
  <1> HIDE DEF m
  <1>3. /\ is \subseteq 1 .. m
        /\ \A i \in 1 .. m : n[i] = number <=> i \in is
    <2>1. number \in Numbers
      BY DEF Known
    <2>2. is \subseteq Used(table)
      BY DEF SlotsOf
    <2>3. QED
      BY <1>2, <2>1, <2>2, SlotsAre
  <1> HIDE DEF n, is
  <1>4. CASE /\ btree_search(page, number) = NoRow
             /\ \A j \in 1 .. m : n[j] # number
    <2>1. is = {}
      BY <1>3, <1>4
    <2>2. QED
      BY <1>4, <2>1 DEF is
  <1>5. CASE \E j : /\ LastSlot(n, m, number, j)
                    /\ btree_search(page, number) = <<table.keys[j]>>
    <2>1. PICK j : /\ LastSlot(n, m, number, j)
                   /\ btree_search(page, number) = <<table.keys[j]>>
      BY <1>5
    <2>2. /\ j \in 1 .. m /\ j \in is
          /\ \A l \in j + 1 .. m : l \notin is
      <3>1. /\ j \in 1 .. m /\ n[j] = number
            /\ \A l \in j + 1 .. m : n[l] # number
        BY <2>1 DEF LastSlot
      <3>2. \A l \in j + 1 .. m : l \in 1 .. m
        BY <1>2, <3>1
      <3>3. QED
        BY <1>3, <3>1, <3>2
    <2>3. j \in is /\ j \in Nat /\ \A i \in is : i \in Nat /\ i <= j
      <3>1. \A i \in 1 .. m : i \in Nat /\ (i <= j \/ i \in j + 1 .. m)
        BY <1>2, <2>2
      <3>2. QED
        BY <1>3, <2>2, <3>1
    <2>4. Max(is) = j
      <3>1. is \subseteq Nat /\ is # {} /\ m \in Nat /\ \A i \in is : i <= m
        BY <1>2, <1>3, <2>3
      <3>2. \A y \in is : j >= y
        BY <2>3
      <3>3. Max(is) \in is /\ \A y \in is : Max(is) >= y
        BY <2>3, <3>2 DEF Max
      <3> DEFINE most == Max(is)
      <3> HIDE DEF most
      <3>4. most \in is /\ most >= j
        BY <2>3, <3>3 DEF most
      <3>5. most = j
        BY <2>3, <3>4
      <3>6. QED
        BY <3>5 DEF most
    <2>5. QED
      BY <2>1, <2>3, <2>4 DEF is
  <1>6. QED
    BY <1>4, <1>5 DEF Filled, n, m

\* Only a CREATE INDEX that the program survives lengthens the list of indexes.
LEMMA LongerIsCreated ==
    ASSUME StateInv, [Next]_vars, Len(indexes') > Len(indexes)
    PROVE  \E column \in {"g", "name"} : CreateIndex(column) /\ indexes' # indexes
  <1>1. indexes' # indexes
    <2>1. Len(indexes) \in Nat
      BY StateParts
    <2>2. ASSUME indexes' = indexes
          PROVE  FALSE
      BY <2>1, <2>2
    <2>3. QED
      BY <2>2
  <1>2. NextIndex
    <2>1. CASE UNCHANGED vars
      BY <1>1, <2>1 DEF vars, indexVars
    <2>2. CASE ~ scan.running /\ NextIndex /\ UNCHANGED <<catalog, scan>>
      BY <2>2
    <2>3. CASE Rollback
      BY <1>1, <2>3 DEF Rollback, indexVars
    <2>4. CASE ScanStep
      BY <1>1, <2>4 DEF ScanStep
    <2>5. CASE Kill
      BY <1>1, <2>5 DEF Kill, Close
    <2>6. QED
      BY <2>1, <2>2, <2>3, <2>4, <2>5 DEF Next
  <1>3. CASE Begin
    BY <1>1, <1>3 DEF Begin
  <1>4. CASE \E id \in Ids, number \in Numbers : Insert(id, number)
    BY <1>1, <1>4 DEF Insert, Statement
  <1>5. CASE \E id \in Ids, number \in Numbers : Update(id, number)
    BY <1>1, <1>5 DEF Update, Statement
  <1>6. CASE \E id \in Ids : Delete(id)
    BY <1>1, <1>6 DEF Delete, Statement
  <1>7. CASE Commit
    BY <1>1, <1>7 DEF Commit
  <1>8. CASE \E column \in {"g", "name"} : CreateIndex(column)
    BY <1>1, <1>8
  <1>9. CASE \E i \in DOMAIN indexes : DropIndex(i)
    <2>1. PICK i \in DOMAIN indexes : DropIndex(i)
      BY <1>9
    <2>2. /\ indexes \in Seq(IndexRecords) /\ i \in 1 .. Len(indexes)
          /\ Len(indexes) \in Nat
      BY StateParts DEF StateInv
    <2>3. indexes' = RemoveAt(indexes, i)
      BY <2>1 DEF DropIndex
    <2>4. Len(RemoveAt(indexes, i)) = Len(indexes) - 1
      BY <2>2, RemovedIs
    <2>5. QED
      BY <2>2, <2>3, <2>4
  <1>10. CASE Close
    BY <1>1, <1>10 DEF Close
  <1>11. CASE Open
    BY <1>1, <1>11 DEF Open
  <1>12. QED
    BY <1>2, <1>3, <1>4, <1>5, <1>6, <1>7, <1>8, <1>9, <1>10, <1>11 DEF NextIndex

\* It makes a page that is filled.
LEMMA CreatedIsFilled ==
    ASSUME StateInv, FitInv, NEW column \in {"g", "name"}, CreateIndex(column),
           indexes' # indexes, indexes'[Len(indexes')].column = "g"
    PROVE  \E junk \in Junk :
              Filled(pages'[Len(pages')], table.keys, SlotNumbers(table, junk),
                     table.num_keys)
  <1>1. PICK old \in Range(pages) \cup OldPages, junk \in Junk, survives \in BOOLEAN :
            \E done \in 0 .. Len(FillCalls(column, junk)) :
               /\ survives => done = Len(FillCalls(column, junk))
               /\ pages' = Append(pages, Calls(NewRoot(old),
                                SubSeq(FillCalls(column, junk), 1, done)))
               /\ IF survives
                  THEN indexes' = Append(indexes, [page   |-> Len(pages) + 1,
                                                   column |-> column])
                  ELSE UNCHANGED indexes
    BY DEF CreateIndex
  <1> DEFINE fill == FillCalls(column, junk)
             ix   == [page |-> Len(pages) + 1, column |-> column]
  <1>2. /\ pages' = Append(pages, Calls(NewRoot(old), SubSeq(fill, 1, Len(fill))))
        /\ indexes' = Append(indexes, ix)
    BY <1>1
  <1>3. fill \in Seq(FillingCalls(given, Ids \ again))
    BY FillIs
  <1>4. column = "g"
    <2>1. indexes \in Seq(IndexRecords) /\ ix \in IndexRecords
      BY StateParts DEF StateInv, IndexRecords
    <2>2. ix.column = column
      OBVIOUS
    <2> HIDE DEF ix
    <2>3. indexes'[Len(indexes')] = ix
      BY <1>2, <2>1, AppendProperties
    <2>4. QED
      BY <2>2, <2>3
  <1> HIDE DEF fill
  <1>5. SubSeq(fill, 1, Len(fill)) = fill
    BY <1>3
  <1> DEFINE new == Calls(NewRoot(old), fill)
  <1>6. Filled(new, table.keys, SlotNumbers(table, junk), table.num_keys)
    BY <1>4, NewPageFilled DEF fill
  <1>7. pages'[Len(pages')] = new
    <2>1. pages' = Append(pages, new)
      BY <1>2, <1>5
    <2> DEFINE P == Proper(Cells)
    <2>2. pages \in Seq(P) /\ new \in P
      <3>1. pages \in [1 .. Len(pages) -> P] /\ Len(pages) \in Nat
        BY StateParts
      <3>2. new \in P
        BY <1>6 DEF Filled
      <3> HIDE DEF P
      <3>3. QED
        BY <3>1, <3>2, PagesAre
    <2> HIDE DEF P, new
    <2>3. QED
      BY <2>1, <2>2, AppendProperties
  <1> HIDE DEF new
  <1>8. QED
    BY <1>6, <1>7

\* The index leads to the last slot with each number.
Leads(page, number) ==
    btree_search(page, number) =
        IF SlotsOf(number) = {} \/ number = Tombstone THEN NoRow
        ELSE <<table.keys[Max(SlotsOf(number))]>>

LEMMA CreatedIsComplete ==
    ASSUME StateInv, FitInv, [Next]_vars, Len(indexes') > Len(indexes),
           indexes'[Len(indexes')].column = "g", ShowsRows(table),
           NEW number \in Numbers
    PROVE  Leads(pages'[Len(pages')], number)
  <1>1. PICK column \in {"g", "name"} : CreateIndex(column) /\ indexes' # indexes
    BY LongerIsCreated
  <1>2. PICK junk \in Junk :
            Filled(pages'[Len(pages')], table.keys, SlotNumbers(table, junk),
                   table.num_keys)
    BY <1>1, CreatedIsFilled
  <1>3. CASE number = Tombstone
    BY <1>3, NoTombstoneFound DEF Leads
  <1>4. CASE number # Tombstone
    <2>1. number \in Known
      BY <1>4 DEF Known
    <2>2. QED
      BY <1>2, <1>4, <2>1, FilledLeadsToLast DEF Leads
  <1>5. QED
    BY <1>3, <1>4

\* CREATE INDEX leaves an index that leads from each number but -1 to the row in
\* the last of the table's slots that have it, and nowhere from the others:
\* whatever tombstones, hidden rows and rows out of order the table has, and
\* whatever page, of the table, an index or the catalog, the frame of the new page
\* held before.  Each row is entered over the one before it with its number.
THEOREM CreatedIndexComplete == Spec => CreatedIndexIsComplete
  <1> DEFINE Complete ==
        /\ Len(indexes') > Len(indexes) /\ indexes'[Len(indexes')].column = "g"
        /\ ShowsRows(table)
        => \A number \in Numbers :
            btree_search(pages'[Len(pages')], number) =
                IF SlotsOf(number) = {} \/ number = Tombstone THEN NoRow
                ELSE <<table.keys[Max(SlotsOf(number))]>>
  <1>1. IndexInv /\ [Next]_vars => [Complete]_indexVars
    <2>1. SUFFICES ASSUME StateInv, FitInv, [Next]_vars
                   PROVE  Complete
      BY DEF IndexInv
    <2>2. QED
      BY <2>1, CreatedIsComplete DEF Leads
  <1> HIDE DEF Complete
  <1>2. Spec => [][Complete]_indexVars
    BY <1>1, IndexInvAlways, PTL DEF Spec
  <1>3. QED
    BY <1>2 DEF Complete, CreatedIndexIsComplete

-----------------------------------------------------------------------------
(* As long as rows are only inserted, each once, and none refused or cut off. *)

\* The table has the rows that statements gave, and no other.
RowsAre(node, gave) ==
    \A k \in Int :
        IF k \in Ids /\ gave[k] # NoNumber
        THEN Present(node, k) /\ btree_search(node, k) = <<k, gave[k]>>
        ELSE ~ Present(node, k)

\* The page of an index leads from each number but -1 to a row that was given it,
\* if there is one.
PageLeads(page, gave) ==
    \A k \in Known :
        \/ btree_search(page, k) = NoRow /\ \A id \in Ids : gave[id] # k
        \/ \E id \in Ids : gave[id] = k /\ btree_search(page, k) = <<id>>

PagesLead(ps, G, gave) == \A p \in G : PageLeads(ps[p], gave)

CleanInv == clean => RowsAre(table, given) /\ PagesLead(pages, IntPages(indexes), given)

\* A page that already leads to a row just inserted has a slot for its number.
Entered(page, gave, number) == PageLeads(page, gave) /\ Present(page, number)

\* A new row is there, and the others are as before.
LEMMA RowEntered ==
    ASSUME NEW node \in Proper(Contents),
           NEW gave \in [Ids -> Numbers \cup {NoNumber}], RowsAre(node, gave),
           NEW id \in Ids, id # Tombstone, NEW number \in Numbers,
           ~ InsertLeaksPin(node, id)
    PROVE  RowsAre(Call(node, InsertCall(id, <<id, number>>)),
                   [gave EXCEPT ![id] = number])
  <1> DEFINE row   == <<id, number>>
             m     == Call(node, InsertCall(id, row))
             gave2 == [gave EXCEPT ![id] = number]
  <1>1. /\ id \in Int /\ id # Tombstone /\ row \in Contents /\ number # NoNumber
    BY ConstantsAre
  <1>2. m = btree_insert(node, id, row)
    BY DEF Call, InsertCall
  <1>3. node \in LeafOver(Int, Contents) /\ (Present(node, id) \/ ~ LeafFull(node))
    BY DEF Proper, InsertLeaksPin
  <1> HIDE DEF m
  <1>4. Shows(node, m, id, row)
    BY <1>1, <1>2, <1>3, InsertedIsShown
  <1>5. /\ btree_search(m, id) = row
        /\ \A k \in Int : k # id => btree_search(m, k) = btree_search(node, k)
        /\ \A k \in Int : Present(m, k) <=> Present(node, k) \/ k = id
    BY <1>4 DEF Shows
  <1>6. gave2[id] = number /\ \A k \in Ids : k # id => gave2[k] = gave[k]
    OBVIOUS
  <1> HIDE DEF gave2
  <1>7. SUFFICES ASSUME NEW k \in Int
                 PROVE  IF k \in Ids /\ gave2[k] # NoNumber
                        THEN Present(m, k) /\ btree_search(m, k) = <<k, gave2[k]>>
                        ELSE ~ Present(m, k)
    BY DEF RowsAre, m, gave2
  <1>8. CASE k = id
    BY <1>1, <1>5, <1>6, <1>8
  <1>9. CASE k # id
    BY <1>5, <1>6, <1>9 DEF RowsAre
  <1>10. QED
    BY <1>8, <1>9

\* Its entry is there, whether the page was entered before or not, and the others
\* are as before.
LEMMA EntryEntered ==
    ASSUME NEW page \in Proper(Cells),
           NEW gave \in [Ids -> Numbers \cup {NoNumber}],
           NEW id \in Ids, gave[id] = NoNumber, NEW number \in Numbers,
           NEW gave2, gave2 = [gave EXCEPT ![id] = number],
           \/ PageLeads(page, gave) /\ ~ InsertLeaksPin(page, number)
           \/ Entered(page, gave2, number)
    PROVE  Entered(Call(page, InsertCall(number, <<id>>)), gave2, number)
  <1> DEFINE value == <<id>>
             m     == Call(page, InsertCall(number, value))
  <1>1. /\ number \in Int /\ value \in Cells /\ number # NoNumber
        /\ Numbers \subseteq Int /\ NoNumber \notin Numbers /\ Known \subseteq Numbers
    BY ConstantsAre, EntryIs DEF Known
  <1>2. m = btree_insert(page, number, value)
    BY DEF Call, InsertCall
  <1>3. /\ page \in LeafOver(Int, Cells)
        /\ Present(page, number) \/ ~ LeafFull(page)
    BY DEF Proper, InsertLeaksPin, Entered
  <1> HIDE DEF m
  <1>4. Shows(page, m, number, value)
    BY <1>1, <1>2, <1>3, InsertedIsShown
  <1>5. /\ number # Tombstone => btree_search(m, number) = value
        /\ \A k \in Int : k # number => btree_search(m, k) = btree_search(page, k)
        /\ Present(m, number)
    BY <1>1, <1>4 DEF Shows
  <1>6. gave2[id] = number /\ \A x \in Ids : x # id => gave2[x] = gave[x]
    OBVIOUS
  <1>7. PageLeads(m, gave2)
    <2>1. SUFFICES ASSUME NEW k \in Known
                   PROVE  \/ /\ btree_search(m, k) = NoRow
                             /\ \A x \in Ids : gave2[x] # k
                          \/ \E x \in Ids : gave2[x] = k /\ btree_search(m, k) = <<x>>
      BY DEF PageLeads
    <2>2. CASE k = number
      BY <1>5, <1>6, <2>2 DEF Known
    <2>3. CASE k # number
      <3>1. btree_search(m, k) = btree_search(page, k)
        BY <1>1, <1>5, <2>3
      <3>2. CASE Entered(page, gave2, number)
        BY <3>1, <3>2 DEF Entered, PageLeads
      <3>3. CASE PageLeads(page, gave)
        <4>1. \A x \in Ids : gave2[x] = k <=> gave[x] = k
          BY <1>1, <1>6, <2>3
        <4>2. QED
          BY <3>1, <3>3, <4>1 DEF PageLeads
      <3>4. QED
        BY <3>2, <3>3
    <2>4. QED
      BY <2>2, <2>3
  <1>8. QED
    BY <1>5, <1>7 DEF Entered, m

\* None of them is -1.
LEMMA GivenIsNoTombstone ==
    ASSUME NEW node, NEW gave \in [Ids -> Numbers \cup {NoNumber}],
           RowsAre(node, gave), NEW id \in Ids, gave[id] # NoNumber
    PROVE  id # Tombstone
  <1>1. id \in Int /\ <<id, gave[id]>> # NoRow
    BY ConstantsAre
  <1>2. btree_search(node, id) = <<id, gave[id]>>
    BY <1>1 DEF RowsAre
  <1>3. QED
    BY <1>1, <1>2, NoTombstoneFound

\* The rows that a scan finds are those that statements gave the number to.
LEMMA ScanOfClean ==
    ASSUME NEW node, NEW gave \in [Ids -> Numbers \cup {NoNumber}],
           NEW C, node \in Proper(C), RowsAre(node, gave), NEW number \in Numbers
    PROVE  {id \in LiveKeys(node) : btree_search(node, id) \in Ids \X {number}}
               = {id \in Ids : gave[id] = number}
  <1> DEFINE rows == {id \in LiveKeys(node) : btree_search(node, id) \in Ids \X {number}}
  <1>1. Ids \subseteq Int /\ number # NoNumber
    BY ConstantsAre
  <1>2. ASSUME NEW id \in rows
        PROVE  id \in Ids /\ gave[id] = number
    <2>1. PICK i \in Used(node) : id = node.keys[i]
      BY <1>2 DEF LiveKeys
    <2>2. id \in Int
      <3>1. node \in LeafOver(Int, C)
        BY DEF Proper
      <3>2. node.keys \in [1 .. Slots -> Int] /\ Used(node) \subseteq 1 .. Slots
        BY <3>1, PartsOver
      <3>3. QED
        BY <2>1, <3>2
    <2>3. Present(node, id)
      BY <2>1 DEF Present, Matches
    <2>4. id \in Ids /\ btree_search(node, id) = <<id, gave[id]>>
      BY <2>2, <2>3 DEF RowsAre
    <2>5. <<id, gave[id]>> \in Ids \X {number}
      BY <1>2, <2>4
    <2>6. QED
      BY <2>4, <2>5
  <1>3. ASSUME NEW id \in Ids, gave[id] = number
        PROVE  id \in rows
    <2>1. Present(node, id) /\ btree_search(node, id) = <<id, number>>
      BY <1>1, <1>3 DEF RowsAre
    <2>2. id \in LiveKeys(node)
      <3>1. id # Tombstone
        BY <1>1, <1>3, GivenIsNoTombstone
      <3>2. QED
        BY <2>1, <3>1 DEF Present, Matches, LiveKeys
    <2>3. QED
      BY <2>1, <2>2
  <1>4. QED
    BY <1>2, <1>3

\* A page filled from such a table leads to those rows.
LEMMA FilledLeads ==
    ASSUME NEW node \in Proper(Contents), NEW gave \in [Ids -> Numbers \cup {NoNumber}],
           RowsAre(node, gave), NEW junk \in Junk, NEW page,
           Filled(page, node.keys, SlotNumbers(node, junk), node.num_keys)
    PROVE  PageLeads(page, gave)
  <1> DEFINE n == SlotNumbers(node, junk)
             m == node.num_keys
  <1>1. /\ \A i \in Used(node) : node.keys[i] \in Int
        /\ Used(node) = 1 .. m
    <2>1. node \in LeafOver(Int, Contents)
      BY DEF Proper
    <2>2. node.keys \in [1 .. Slots -> Int] /\ Used(node) \subseteq 1 .. Slots
      BY <2>1, PartsOver
    <2>3. QED
      BY <2>2 DEF Used
  <1>2. /\ Numbers \subseteq Int /\ NoNumber \notin Int /\ Ids \subseteq Int
        /\ Known \subseteq Numbers
    BY ConstantsAre DEF Known
  <1>3. \A i \in Used(node) : n[i] = IF node.keys[i] = Tombstone THEN NoNumber
                                     ELSE ColumnValue(node.values[i], junk)
    BY DEF SlotNumbers
  <1> HIDE DEF n, m
  <1>4. ASSUME NEW i \in Used(node), node.keys[i] # Tombstone
        PROVE  node.keys[i] \in Ids /\ gave[node.keys[i]] = n[i]
    <2> DEFINE k == node.keys[i]
    <2>1. k \in Int /\ Present(node, k) /\ btree_search(node, k) = node.values[i]
      BY <1>1, <1>4, FoundSlot
    <2>2. /\ k \in Ids /\ gave[k] # NoNumber /\ node.values[i] = <<k, gave[k]>>
      BY <2>1 DEF RowsAre
    <2>3. gave[k] \in Numbers
      BY <2>2
    <2> HIDE DEF k
    <2>4. ColumnValue(node.values[i], junk) = gave[k]
      BY <2>2, <2>3, ColumnIs
    <2>5. QED
      BY <1>3, <1>4, <2>2, <2>4 DEF k
  <1>5. ASSUME NEW id \in Ids, gave[id] \in Numbers
        PROVE  \E i \in Used(node) : node.keys[i] = id /\ n[i] = gave[id]
    <2>1. Present(node, id)
      BY <1>2, <1>5 DEF RowsAre
    <2>2. PICK i \in Used(node) : node.keys[i] = id
      BY <2>1 DEF Present, Matches
    <2>3. id # Tombstone
      BY <1>2, <1>5, GivenIsNoTombstone
    <2>4. QED
      BY <1>4, <2>2, <2>3
  <1>6. SUFFICES ASSUME NEW k \in Known
                 PROVE  \/ btree_search(page, k) = NoRow /\ \A id \in Ids : gave[id] # k
                        \/ \E id \in Ids : gave[id] = k /\ btree_search(page, k) = <<id>>
    BY DEF PageLeads
  <1>7. CASE btree_search(page, k) = NoRow /\ \A j \in 1 .. m : n[j] # k
    BY <1>1, <1>2, <1>5, <1>7
  <1>8. CASE \E j : LastSlot(n, m, k, j) /\ btree_search(page, k) = <<node.keys[j]>>
    <2>1. PICK j : LastSlot(n, m, k, j) /\ btree_search(page, k) = <<node.keys[j]>>
      BY <1>8
    <2>2. j \in Used(node) /\ n[j] = k
      BY <1>1, <2>1 DEF LastSlot
    <2>3. node.keys[j] # Tombstone
      BY <1>2, <1>3, <2>2
    <2>4. node.keys[j] \in Ids /\ gave[node.keys[j]] = k
      BY <1>4, <2>2, <2>3
    <2>5. QED
      BY <2>1, <2>4
  <1>9. QED
    BY <1>7, <1>8 DEF Filled, n, m

\* After i writes of an INSERT each page is as before and has room, or is entered;
\* those that were written are.
Waiting(page, gave, number) == PageLeads(page, gave) /\ ~ InsertLeaksPin(page, number)

Entering(ws, G, gave, gave2, number, id, i, d) ==
    \A p \in G :
        /\ Waiting(d.pages[p], gave, number) \/ Entered(d.pages[p], gave2, number)
        /\ (\E j \in 1 .. i : ws[j] = ToPage(p, InsertCall(number, <<id>>)))
              => Entered(d.pages[p], gave2, number)

LEMMA WriteEnters ==
    ASSUME NEW n \in Nat, n >= 1, NEW G, NEW ws, NEW record, NEW c,
           NEW id \in Ids, NEW number \in Numbers,
           IsStatement(ws, n, G, 0, record, c, 0, number, id),
           NEW gave \in [Ids -> Numbers \cup {NoNumber}], gave[id] = NoNumber,
           NEW gave2, gave2 = [gave EXCEPT ![id] = number],
           NEW d \in Disks(n), NEW i \in 1 .. Len(ws),
           Entering(ws, G, gave, gave2, number, id, i - 1, d)
    PROVE  Entering(ws, G, gave, gave2, number, id, i, WriteStep(d, ws[i]))
  <1> DEFINE e     == WriteStep(d, ws[i])
             entry == InsertCall(number, <<id>>)
  <1>1. /\ ws \in Seq(Writes(n)) /\ Len(ws) \in Nat /\ G \subseteq 2 .. n
        /\ ws[0 + 1] = ToLog(record) /\ ws[0 + 2] = ToPage(TablePage, c)
        /\ \A j \in 0 + 3 .. Len(ws) : \E p \in G : ws[j] = ToPage(p, entry)
    BY DEF IsStatement
  <1>2. /\ 0 + 1 = 1 /\ 0 + 2 = 2 /\ 0 + 3 = 3 /\ TablePage = 1
        /\ i \in Nat /\ i - 1 \in Nat /\ (i = 1 \/ i = 2 \/ i \in 3 .. Len(ws))
        /\ \A j \in 1 .. i : j \in 1 .. i - 1 \/ j = i
        /\ \A p \in 2 .. n : p \in 1 .. n /\ p # 0 /\ p # 1
    BY <1>1 DEF TablePage
  <1>3. WriteIs(d, ws[i], e)
    BY <1>1, WriteKeepsDisk
  <1>4. d.pages \in [1 .. n -> Proper(Cells)]
    BY DEF Disks
  <1>5. \A p, q, x : ToPage(p, x).page = p
    BY DEF ToPage
  <1> HIDE DEF e, entry
  <1>6. ASSUME NEW p \in G, ws[i].page # p
        PROVE  e.pages[p] = d.pages[p] /\ ws[i] # ToPage(p, entry)
    <2>1. p \in 1 .. n /\ p # 0 /\ p # 1 /\ ws[i] # ToPage(p, entry)
      BY <1>1, <1>2, <1>5, <1>6
    <2>2. CASE e.pages = d.pages
      BY <2>1, <2>2
    <2>3. CASE e.pages = [d.pages EXCEPT ![TablePage] = Call(@, ws[i].does)]
      BY <1>2, <1>4, <2>1, <2>3
    <2>4. CASE e.pages = [d.pages EXCEPT ![ws[i].page] = Call(@, ws[i].does)]
      BY <1>4, <1>6, <2>1, <2>4
    <2>5. QED
      BY <1>3, <2>2, <2>3, <2>4 DEF WriteIs
  <1>7. ASSUME NEW p \in G, ws[i].page = p
        PROVE  e.pages[p] = Call(d.pages[p], entry)
    <2>1. p \in 1 .. n /\ p # 0 /\ p # 1
      BY <1>1, <1>2
    <2>2. ToLog(record).page = 0
      BY DEF ToLog
    <2>3. i \in 3 .. Len(ws)
      BY <1>1, <1>2, <1>5, <1>7, <2>1, <2>2
    <2>4. PICK q \in G : ws[i] = ToPage(q, entry)
      BY <1>1, <1>2, <2>3
    <2>5. ws[i].does = entry
      BY <2>4 DEF ToPage
    <2>6. e.pages = [d.pages EXCEPT ![p] = Call(@, entry)]
      BY <1>2, <1>3, <1>7, <2>1, <2>5 DEF WriteIs
    <2>7. QED
      BY <1>4, <2>1, <2>6
  <1>8. SUFFICES ASSUME NEW p \in G
                 PROVE  /\ \/ Waiting(e.pages[p], gave, number)
                           \/ Entered(e.pages[p], gave2, number)
                        /\ (\E j \in 1 .. i : ws[j] = ToPage(p, entry))
                              => Entered(e.pages[p], gave2, number)
    BY DEF Entering, e, entry
  <1>9. /\ Waiting(d.pages[p], gave, number) \/ Entered(d.pages[p], gave2, number)
        /\ (\E j \in 1 .. i - 1 : ws[j] = ToPage(p, entry))
              => Entered(d.pages[p], gave2, number)
    BY DEF Entering, entry
  <1>10. CASE ws[i].page # p
    <2>1. e.pages[p] = d.pages[p] /\ ws[i] # ToPage(p, entry)
      BY <1>6, <1>10
    <2>2. (\E j \in 1 .. i : ws[j] = ToPage(p, entry))
              => \E j \in 1 .. i - 1 : ws[j] = ToPage(p, entry)
      BY <1>2, <2>1
    <2>3. QED
      BY <1>9, <2>1, <2>2
  <1>11. CASE ws[i].page = p
    <2> DEFINE page == d.pages[p]
    <2>1. e.pages[p] = Call(page, entry)
      BY <1>7, <1>11
    <2>2. page \in Proper(Cells)
      BY <1>1, <1>2, <1>4
    <2>3. \/ PageLeads(page, gave) /\ ~ InsertLeaksPin(page, number)
          \/ Entered(page, gave2, number)
      BY <1>9 DEF Waiting
    <2> HIDE DEF page
    <2>4. Entered(Call(page, entry), gave2, number)
      BY <2>2, <2>3, EntryEntered DEF entry
    <2>5. QED
      BY <2>1, <2>4
  <1>12. QED
    BY <1>10, <1>11

\* After all of them all pages are entered.
LEMMA StatementEnters ==
    ASSUME NEW n \in Nat, n >= 1, NEW G, NEW ws, NEW record, NEW c,
           NEW id \in Ids, NEW number \in Numbers,
           IsStatement(ws, n, G, 0, record, c, 0, number, id),
           \A p \in G : \E j \in 1 .. Len(ws) : ws[j] = ToPage(p, InsertCall(number, <<id>>)),
           NEW gave \in [Ids -> Numbers \cup {NoNumber}], gave[id] = NoNumber,
           NEW gave2, gave2 = [gave EXCEPT ![id] = number],
           NEW disk \in Disks(n), \A p \in G : Waiting(disk.pages[p], gave, number),
           NEW d, d = FoldLeft(WriteStep, disk, SubSeq(ws, 1, Len(ws)))
    PROVE  PagesLead(d.pages, G, gave2)
  <1> DEFINE Ent(i, x) == Entering(ws, G, gave, gave2, number, id, i, x)
             I == [i \in 0 .. Len(ws) |-> {x \in Disks(n) : Ent(i, x)}]
  <1>1. ws \in Seq(Writes(n)) /\ Len(ws) \in Nat /\ Len(ws) \in 0 .. Len(ws)
    BY DEF IsStatement
  <1>2. Ent(0, disk)
    <2>1. \A j \in 1 .. 0 : FALSE
      OBVIOUS
    <2>2. QED
      BY <2>1 DEF Entering
  <1>3. ASSUME NEW i \in 1 .. Len(ws), NEW x \in Disks(n), Ent(i - 1, x)
        PROVE  Ent(i, WriteStep(x, ws[i]))
    BY <1>3, WriteEnters
  <1> HIDE DEF Ent
  <1>4. disk \in I[0]
    BY <1>1, <1>2
  <1>5. \A i \in 1 .. Len(ws), x \in Disks(n) :
            x \in I[i - 1] => WriteStep(x, ws[i]) \in I[i]
    <2>1. SUFFICES ASSUME NEW i \in 1 .. Len(ws), NEW x \in Disks(n), x \in I[i - 1]
                   PROVE  WriteStep(x, ws[i]) \in I[i]
      OBVIOUS
    <2>2. i - 1 \in 0 .. Len(ws) /\ i \in 0 .. Len(ws)
      BY <1>1
    <2>3. Ent(i - 1, x)
      BY <2>1, <2>2
    <2>4. WriteStep(x, ws[i]) \in Disks(n)
      BY <1>1, WriteKeepsDisk
    <2>5. QED
      BY <1>3, <2>2, <2>3, <2>4
  <1> HIDE DEF I
  <1>6. d \in I[Len(ws)]
    BY <1>1, <1>4, <1>5, WritesLead
  <1>7. Ent(Len(ws), d)
    BY <1>1, <1>6 DEF I
  <1>8. QED
    BY <1>7 DEF Ent, Entering, PagesLead, Entered

\* What is behind two elements.
LEMMA BehindTwo ==
    ASSUME NEW W, NEW x \in W, NEW y \in W, NEW B \in Seq(W), NEW ws,
           ws = << x, y >> \o B
    PROVE  /\ Len(B) \in Nat /\ Len(ws) = 2 + Len(B)
           /\ \A i \in 1 .. Len(B) : ws[2 + i] = B[i]
  <1> DEFINE xy == << x, y >>
  <1>1. xy \in Seq(W) /\ Len(xy) = 2
    OBVIOUS
  <1> HIDE DEF xy
  <1> DEFINE all == xy \o B
  <1>2. /\ Len(all) = Len(xy) + Len(B)
        /\ \A i \in 1 .. Len(B) : all[Len(xy) + i] = B[i]
    <2>1. xy \in Seq(W) /\ B \in Seq(W)
      BY <1>1
    <2>2. QED
      BY <2>1
  <1>3. Len(B) \in Nat /\ ws = all
    BY DEF xy
  <1> HIDE DEF all
  <1>4. QED
    BY <1>1, <1>2, <1>3

\* An INSERT writes the page of each index on an INT column.
LEMMA InsertReachesAll ==
    ASSUME StateInv, NEW id \in Ids, NEW number \in Numbers, NEW pad,
           NEW p \in IntPages(indexes)
    PROVE  \E j \in 1 .. Len(InsertSteps(id, number, pad)) :
              InsertSteps(id, number, pad)[j] = ToPage(p, InsertCall(number, <<id>>))
  <1> DEFINE call   == InsertCall(number, <<id>>)
             record == wal_log_insert(lsn, current_tx_id, id, <<id, number>>, pad)
             c  == InsertCall(id, <<id, number>>)
             x  == ToLog(record)
             y  == ToPage(TablePage, c)
             B  == OnIntIndexes(call)
             E  == {ToPage(q, call) : q \in IntPages(indexes)}
             W  == {x, y} \cup E
             ws == InsertSteps(id, number, pad)
  <1>1. indexes \in Seq(IndexRecords)
    BY DEF StateInv
  <1>2. B \in Seq(E) /\ \E j \in 1 .. Len(B) : B[j] = ToPage(p, call)
    <2> HIDE DEF call
    <2>1. QED
      BY <1>1, OnIntIndexesIs
  <1>3. number # NoNumber
    BY ConstantsAre
  <1>4. ws = << x, y >> \o B
    BY <1>3 DEF InsertSteps, maintain_indexes_insert
  <1> HIDE DEF x, y, B, E, ws, call
  <1>5. x \in W /\ y \in W /\ B \in Seq(W)
    <2>1. E \subseteq W
      OBVIOUS
    <2>2. QED
      BY <1>2, <2>1
  <1> HIDE DEF W
  <1>6. /\ Len(ws) = 2 + Len(B) /\ Len(B) \in Nat
        /\ \A i \in 1 .. Len(B) : ws[2 + i] = B[i]
    BY <1>4, <1>5, BehindTwo
  <1>7. PICK j \in 1 .. Len(B) : B[j] = ToPage(p, call)
    BY <1>2
  <1>8. 2 + j \in 1 .. Len(ws) /\ ws[2 + j] = ToPage(p, call)
    BY <1>6, <1>7
  <1>9. QED
    BY <1>8 DEF ws, call

\* An INSERT of a new row for which there is room, all of whose writes are made.
LEMMA InsertStaysClean ==
    ASSUME StateInv, CleanInv, NEW id \in Ids, NEW number \in Numbers,
           Insert(id, number), clean'
    PROVE  /\ RowsAre(table', given')
           /\ PagesLead(pages', IntPages(indexes'), given')
  <1> DEFINE n == Len(pages)
             G == IntPages(indexes)
             c == InsertCall(id, <<id, number>>)
             gave2 == [given EXCEPT ![id] = number]
  <1>1. PICK pad \in Pads :
            LET steps == InsertSteps(id, number, pad)
            IN  \E done \in 1 .. Len(steps) :
                /\ Statement(steps, done)
                /\ given' = IF TableWritten(steps, done) THEN gave2 ELSE given
                /\ clean /\ done = Len(steps)
                /\ given[id] = NoNumber /\ RoomFor(id, number)
                /\ id # Tombstone
    BY DEF Insert
  <1> DEFINE ws     == InsertSteps(id, number, pad)
             record == wal_log_insert(lsn, current_tx_id, id, <<id, number>>, pad)
  <1>2. /\ Statement(ws, Len(ws)) /\ Len(ws) \in 1 .. Len(ws)
        /\ given' = IF TableWritten(ws, Len(ws)) THEN gave2 ELSE given
    BY <1>1
  <1>3. /\ clean /\ given[id] = NoNumber /\ RoomFor(id, number)
        /\ Len(log) < MaxLog /\ id # Tombstone
    BY <1>1 DEF Insert, MayWrite
  <1>4. /\ IsStatement(ws, n, G, 0, record, c, 0, number, id)
        /\ \A p \in G : \E j \in 1 .. Len(ws) :
               ws[j] = ToPage(p, InsertCall(number, <<id>>))
    BY InsertIsStatement, InsertReachesAll
  <1>5. /\ n \in Nat /\ n >= 1 /\ Disk \in Disks(n) /\ Disk.pages = pages
        /\ TablePage \in 1 .. n /\ table \in Proper(Contents)
        /\ given \in [Ids -> Numbers \cup {NoNumber}]
    BY StateParts DEF StateInv
  <1>6. RowsAre(table, given) /\ PagesLead(pages, G, given)
    BY <1>3 DEF CleanInv
  <1> HIDE DEF ws, record
  <1>7. given' = gave2 /\ Len(ws) >= 0 + 2
    <2>1. Len(ws) \in Nat /\ Len(ws) >= 0 + 2
      BY <1>4 DEF IsStatement
    <2>2. TableWritten(ws, Len(ws))
      BY <1>2, <1>4, <2>1, TableWrittenIs
    <2>3. QED
      BY <1>2, <2>1, <2>2
  <1>8. given' \in [Ids -> Numbers \cup {NoNumber}]
    BY <1>5, <1>7
  <1>9. /\ indexes' = indexes
        /\ Reached(ws, n, G, 0, record, c, 0, number, id, Disk, Len(ws), Disk')
    BY <1>2, <1>3, <1>4, <1>8, StatementKeepsState
  <1>10. table' = Call(table, c)
    <2>1. Disk'.pages[TablePage] = Call(Disk.pages[TablePage], c)
      BY <1>7, <1>9 DEF Reached, Stage
    <2>2. Disk'.pages = pages'
      BY DEF Disk
    <2>3. QED
      BY <1>5, <2>1, <2>2 DEF table
  <1>11. RowsAre(table', given')
    <2>1. ~ InsertLeaksPin(table, id)
      BY <1>3 DEF RoomFor
    <2>2. QED
      BY <1>3, <1>5, <1>6, <1>7, <1>10, <2>1, RowEntered
  <1>12. \A p \in G : Waiting(Disk.pages[p], given, number)
    <2>1. SUFFICES ASSUME NEW p \in G
                   PROVE  Waiting(pages[p], given, number)
      BY <1>5
    <2>2. PICK i \in DOMAIN indexes : indexes[i].column = "g" /\ indexes[i].page = p
      BY DEF IntPages
    <2>3. ~ InsertLeaksPin(pages[p], number)
      BY <1>3, <2>2 DEF RoomFor
    <2>4. QED
      BY <1>6, <2>3 DEF Waiting, PagesLead
  <1>13. PagesLead(pages', G, given')
    <2> DEFINE d == FoldLeft(WriteStep, Disk, SubSeq(ws, 1, Len(ws)))
    <2>1. pages' = d.pages
      BY <1>2 DEF Statement, Disk
    <2> HIDE DEF d, gave2, G, n, c
    <2>2. PagesLead(d.pages, G, gave2)
      <3>1. gave2 = [given EXCEPT ![id] = number]
        BY DEF gave2
      <3>2. QED
        BY <1>3, <1>4, <1>5, <1>12, <3>1, StatementEnters DEF d
    <2>3. QED
      BY <1>7, <2>1, <2>2
  <1>14. QED
    BY <1>9, <1>11, <1>13

\* Fewer indexes, and pages that the indexes do not have, make no difference.
LEMMA CleanLess ==
    ASSUME CleanInv, clean' => clean, table' = table, given' = given,
           IntPages(indexes') \subseteq IntPages(indexes),
           \A p \in IntPages(indexes') : pages'[p] = pages[p]
    PROVE  CleanInv'
  <1>1. SUFFICES ASSUME clean'
                 PROVE  /\ RowsAre(table', given')
                        /\ PagesLead(pages', IntPages(indexes'), given')
    BY DEF CleanInv
  <1>2. RowsAre(table, given) /\ PagesLead(pages, IntPages(indexes), given)
    BY <1>1 DEF CleanInv
  <1>3. QED
    BY <1>2 DEF PagesLead

\* A reader of the log, or of what is no log, that left the table as it was.
LEMMA TableKept ==
    ASSUME StateInv, CleanInv, NEW t, pages' = [pages EXCEPT ![TablePage] = t],
           clean' => clean /\ t = table, UNCHANGED <<indexes, given>>
    PROVE  CleanInv'
  <1>1. SUFFICES ASSUME clean'
                 PROVE  CleanInv'
    BY DEF CleanInv
  <1>2. /\ pages \in [1 .. Len(pages) -> Proper(Cells)]
        /\ TablePage \in 1 .. Len(pages)
    BY StateParts
  <1>3. pages' = pages
    BY <1>1, <1>2 DEF table
  <1>4. table' = table
    BY <1>3 DEF table
  <1>5. QED
    BY <1>1, <1>3, <1>4, CleanLess

\* The new page leads to the rows, if the program did not die.
LEMMA CreateIndexStaysClean ==
    ASSUME StateInv, FitInv, CleanInv, NEW column \in {"g", "name"},
           CreateIndex(column)
    PROVE  CleanInv'
  <1>1. PICK new :
            /\ pages' = Append(pages, new)
            /\ \/ indexes' = indexes
               \/ indexes' = Append(indexes, [page   |-> Len(pages) + 1,
                                              column |-> column])
    BY DEF CreateIndex
  <1>2. clean' = clean /\ given' = given
    BY DEF CreateIndex, ghosts
  <1> DEFINE n == Len(pages)
  <1>3. /\ n \in Nat /\ n >= 1 /\ TablePage \in 1 .. n /\ table \in Proper(Contents)
        /\ pages \in [1 .. n -> Proper(Cells)]
        /\ IntPages(indexes) \subseteq 2 .. n /\ Len(indexes) \in Nat
        /\ indexes \in Seq(IndexRecords)
        /\ given \in [Ids -> Numbers \cup {NoNumber}]
    BY StateParts DEF StateInv
  <1>4. \A p \in 1 .. n : pages'[p] = pages[p]
    <2> DEFINE P == Proper(Cells) \cup {new}
    <2>1. pages \in Seq(P) /\ new \in P
      <3>1. pages \in [1 .. n -> P]
        BY <1>3
      <3> HIDE DEF P
      <3>2. pages \in Seq(P)
        BY <1>3, <3>1, PagesAre
      <3>3. QED
        BY <3>2 DEF P
    <2> HIDE DEF P
    <2>2. QED
      BY <1>1, <2>1, AppendProperties
  <1>5. table' = table
    BY <1>3, <1>4 DEF table
  <1>6. \A p \in IntPages(indexes) : pages'[p] = pages[p]
    <2>1. \A p \in 2 .. n : p \in 1 .. n
      BY <1>3
    <2>2. QED
      BY <1>3, <1>4, <2>1
  <1>7. CASE indexes' = indexes
    BY <1>2, <1>5, <1>6, <1>7, CleanLess
  <1>8. CASE indexes' # indexes
    <2> DEFINE next == n + 1
               more == Append(indexes, [page |-> next, column |-> column])
    <2>1. indexes' = more /\ next \in Nat
      BY <1>1, <1>3, <1>8
    <2> HIDE DEF more, next
    <2>2. OneMore(indexes, next, column, more)
      BY <1>3, <2>1, MoreIndexes DEF more
    <2>3. \A p \in IntPages(indexes') :
              p \in IntPages(indexes) \/ (p = next /\ column = "g")
      BY <2>1, <2>2 DEF OneMore
    <2>4. CASE column # "g"
      <3>1. IntPages(indexes') \subseteq IntPages(indexes)
        BY <2>3, <2>4
      <3>2. QED
        BY <1>2, <1>5, <1>6, <3>1, CleanLess
    <2>5. CASE column = "g"
      <3>1. SUFFICES ASSUME clean
                     PROVE  /\ RowsAre(table', given')
                            /\ PagesLead(pages', IntPages(indexes'), given')
        BY <1>2 DEF CleanInv
      <3>2. RowsAre(table, given) /\ PagesLead(pages, IntPages(indexes), given)
        BY <3>1 DEF CleanInv
      <3>3. indexes'[Len(indexes')].column = "g"
        <4> DEFINE ix == [page |-> next, column |-> column]
        <4>1. ix \in IndexRecords /\ ix.column = "g"
          BY <2>1, <2>5 DEF IndexRecords
        <4>2. indexes' = Append(indexes, ix)
          BY <2>1 DEF more
        <4> HIDE DEF ix
        <4>3. indexes'[Len(indexes')] = ix
          BY <1>3, <4>1, <4>2, AppendProperties
        <4>4. QED
          BY <4>1, <4>3
      <3>4. PICK junk \in Junk :
                Filled(pages'[Len(pages')], table.keys, SlotNumbers(table, junk),
                       table.num_keys)
        BY <1>8, <3>3, CreatedIsFilled
      <3>5. PageLeads(pages'[Len(pages')], given)
        BY <1>3, <3>2, <3>4, FilledLeads
      <3>6. Len(pages') = next
        <4> DEFINE P == Proper(Cells) \cup {new}
        <4>1. pages \in Seq(P) /\ new \in P
          <5>1. pages \in [1 .. n -> P]
            BY <1>3
          <5> HIDE DEF P
          <5>2. pages \in Seq(P)
            BY <1>3, <5>1, PagesAre
          <5>3. QED
            BY <5>2 DEF P
        <4> HIDE DEF P
        <4>2. QED
          BY <1>1, <4>1, AppendProperties DEF next
      <3>7. PagesLead(pages', IntPages(indexes'), given)
        BY <1>6, <2>3, <3>2, <3>5, <3>6 DEF PagesLead
      <3>8. QED
        BY <1>2, <1>5, <3>2, <3>7
    <2>6. QED
      BY <2>4, <2>5
  <1>9. QED
    BY <1>7, <1>8

LEMMA DropIndexStaysClean ==
    ASSUME StateInv, CleanInv, NEW i \in DOMAIN indexes, DropIndex(i)
    PROVE  CleanInv'
  <1>1. /\ indexes' = RemoveAt(indexes, i)
        /\ pages' = pages /\ given' = given /\ clean' = clean
    BY DEF DropIndex, ghosts
  <1>2. /\ indexes \in Seq(IndexRecords) /\ i \in 1 .. Len(indexes)
        /\ DOMAIN indexes = 1 .. Len(indexes)
    BY StateParts DEF StateInv
  <1> DEFINE r == RemoveAt(indexes, i)
  <1>3. /\ r \in Seq(IndexRecords)
        /\ \A j \in 1 .. Len(r) : \E k \in 1 .. Len(indexes) : r[j] = indexes[k]
    BY <1>2, RemovedIs
  <1> HIDE DEF r
  <1>4. indexes' = r /\ DOMAIN r = 1 .. Len(r)
    BY <1>1, <1>3 DEF r
  <1>5. IntPages(indexes') \subseteq IntPages(indexes)
    BY <1>2, <1>3, <1>4 DEF IntPages
  <1>6. table' = table
    BY <1>1 DEF table
  <1>7. QED
    BY <1>1, <1>5, <1>6, CleanLess

LEMMA SamePagesStayClean ==
    ASSUME CleanInv, UNCHANGED <<pages, indexes, given, clean>>
    PROVE  CleanInv'
  <1>1. table' = table
    BY DEF table
  <1>2. QED
    BY <1>1, CleanLess

LEMMA OpenStaysClean ==
    ASSUME StateInv, CleanInv, Open
    PROVE  CleanInv'
  <1>1. PICK t : pages' = [pages EXCEPT ![TablePage] = t]
    BY DEF Open
  <1>2. clean' = (clean /\ table' = table) /\ UNCHANGED <<indexes, given>>
    BY DEF Open
  <1>3. table' = t
    <2>1. /\ pages \in [1 .. Len(pages) -> Proper(Cells)]
          /\ TablePage \in 1 .. Len(pages)
      BY StateParts
    <2>2. QED
      BY <1>1, <2>1 DEF table
  <1>4. QED
    BY <1>1, <1>2, <1>3, TableKept

LEMMA ScanStepStaysClean ==
    ASSUME StateInv, CleanInv, ScanStep
    PROVE  CleanInv'
  <1>1. UNCHANGED <<indexes, given>>
    BY DEF ScanStep
  <1>2. \/ UNCHANGED <<pages, clean>>
        \/ \E t : /\ pages' = [pages EXCEPT ![TablePage] = t]
                  /\ clean' = (clean /\ t = table)
    BY DEF ScanStep
  <1>3. CASE UNCHANGED <<pages, clean>>
    BY <1>1, <1>3, SamePagesStayClean
  <1>4. ASSUME NEW t, pages' = [pages EXCEPT ![TablePage] = t],
               clean' = (clean /\ t = table)
        PROVE  CleanInv'
    BY <1>1, <1>4, TableKept
  <1>5. QED
    BY <1>2, <1>3, <1>4

LEMMA CleanInit == Init => CleanInv
  <1> SUFFICES ASSUME InitIndex
               PROVE  RowsAre(table, given) /\ PagesLead(pages, IntPages(indexes), given)
    BY DEF Init, CleanInv
  <1> DEFINE root == NewRoot(ZeroPage)
  <1>1. root.num_keys = 0
    <2>1. ZeroPage \in LeafOver(Int, Contents)
      BY ZeroPageIs
    <2>2. QED
      BY <2>1, NewRootIs
  <1>2. /\ pages = << root >> /\ indexes = << >>
        /\ given = [id \in Ids |-> NoNumber]
    BY DEF InitIndex
  <1> HIDE DEF root
  <1>3. table = root
    BY <1>2 DEF table, TablePage
  <1>4. \A k : ~ Present(table, k)
    BY <1>1, <1>3, NoRowsShown DEF Present, Matches
  <1>5. RowsAre(table, given)
    BY <1>2, <1>4 DEF RowsAre
  <1>6. IntPages(indexes) = {}
    <2>1. DOMAIN indexes = {}
      BY <1>2
    <2>2. QED
      BY <2>1 DEF IntPages
  <1>7. QED
    BY <1>5, <1>6 DEF PagesLead

LEMMA CleanNext == IndexInv /\ CleanInv /\ [Next]_vars => CleanInv'
  <1> SUFFICES ASSUME StateInv, FitInv, CleanInv, [Next]_vars
               PROVE  CleanInv'
    BY DEF IndexInv
  <1>1. CASE UNCHANGED vars
    BY <1>1, SamePagesStayClean DEF vars, indexVars, ghosts
  <1>2. CASE NextIndex
    <2>1. CASE Begin
      BY <2>1, SamePagesStayClean DEF Begin, ghosts
    <2>2. CASE \E id \in Ids, number \in Numbers : Insert(id, number)
      <3>1. PICK id \in Ids, number \in Numbers : Insert(id, number)
        BY <2>2
      <3>2. QED
        BY <3>1, InsertStaysClean DEF CleanInv
    <2>3. CASE \E id \in Ids, number \in Numbers : Update(id, number)
      BY <2>3 DEF Update, CleanInv
    <2>4. CASE \E id \in Ids : Delete(id)
      BY <2>4 DEF Delete, CleanInv
    <2>5. CASE Commit
      BY <2>5, SamePagesStayClean DEF Commit, ghosts
    <2>6. CASE \E column \in {"g", "name"} : CreateIndex(column)
      BY <2>6, CreateIndexStaysClean
    <2>7. CASE \E i \in DOMAIN indexes : DropIndex(i)
      BY <2>7, DropIndexStaysClean
    <2>8. CASE Close
      BY <2>8, SamePagesStayClean DEF Close, ghosts
    <2>9. CASE Open
      BY <2>9, OpenStaysClean
    <2>10. QED
      BY <1>2, <2>1, <2>2, <2>3, <2>4, <2>5, <2>6, <2>7, <2>8, <2>9 DEF NextIndex
  <1>3. CASE Rollback
    BY <1>3, SamePagesStayClean DEF Rollback, indexVars, ghosts
  <1>4. CASE ScanStep
    BY <1>4, ScanStepStaysClean
  <1>5. CASE Kill
    BY <1>5, SamePagesStayClean DEF Kill, Close, ghosts
  <1>6. QED
    BY <1>1, <1>2, <1>3, <1>4, <1>5 DEF Next

LEMMA CleanAlways == Spec => []CleanInv
  BY CleanInit, CleanNext, IndexInvAlways, PTL DEF Spec

\* What an index on the INT column answers a lookup with.
LEMMA LookupIs ==
    ASSUME StateInv, CleanInv, clean, NEW index, index.page \in IntPages(indexes),
           NEW number \in Numbers, NEW answer,
           answer = execute_index_lookup(index, number)
    PROVE  IF ScanRows(number) = {} \/ number = Tombstone THEN answer = NoRow
           ELSE answer \in ScanRows(number) \X {number}
  <1> DEFINE page    == pages[index.page]
             pointer == btree_search(page, number)
  <1>1. /\ table \in Proper(Contents)
        /\ given \in [Ids -> Numbers \cup {NoNumber}]
    BY StateParts DEF StateInv
  <1>2. RowsAre(table, given) /\ PageLeads(page, given)
    BY DEF CleanInv, PagesLead
  <1>3. ScanRows(number) = {id \in Ids : given[id] = number}
    BY <1>1, <1>2, ScanOfClean DEF ScanRows
  <1>4. answer = IF pointer = NoRow THEN NoRow ELSE btree_search(table, pointer[1])
    BY DEF execute_index_lookup
  <1>8. CASE number = Tombstone
    BY <1>4, <1>8, NoTombstoneFound
  <1> HIDE DEF page, pointer
  <1>5. CASE pointer = NoRow /\ \A id \in Ids : given[id] # number
    BY <1>3, <1>4, <1>5
  <1>6. CASE /\ number # Tombstone
             /\ \E id \in Ids : given[id] = number /\ pointer = <<id>>
    <2>1. PICK id \in Ids : given[id] = number /\ pointer = <<id>>
      BY <1>6
    <2>2. pointer # NoRow /\ pointer[1] = id
      BY <2>1, IdsEntries
    <2>3. btree_search(table, id) = <<id, number>>
      <3>1. id \in Int /\ number # NoNumber
        BY ConstantsAre
      <3>2. QED
        BY <1>2, <2>1, <3>1 DEF RowsAre
    <2>4. answer = <<id, number>> /\ id \in ScanRows(number)
      BY <1>3, <1>4, <2>1, <2>2, <2>3
    <2>5. QED
      BY <1>6, <2>4
  <1>7. QED
    BY <1>2, <1>5, <1>6, <1>8 DEF PageLeads, Known, pointer

\* SELECT through an index and its scan of the table agree on every number but -1,
\* as long as rows are only inserted, each once and none of them -1, there was room
\* and no INSERT was cut off: each INSERT then entered the page of each index, and
\* each index was filled when it was created.  For -1 the index answers with no row.
THEOREM LookupsFindRows == Spec => []LookupsAgree
  <1>1. IndexInv /\ CleanInv => LookupsAgree
    <2> SUFFICES ASSUME StateInv, CleanInv, clean,
                        \E i \in DOMAIN indexes : indexes[i].column = "g",
                        NEW number \in Numbers
                 PROVE  LET answer == execute_index_lookup(find_usable_index("g"), number)
                        IN  IF ScanRows(number) = {} \/ number = Tombstone
                            THEN answer = NoRow
                            ELSE answer \in ScanRows(number) \X {number}
      BY DEF IndexInv, LookupsAgree
    <2> DEFINE on    == {i \in DOMAIN indexes : indexes[i].column = "g"}
               index == find_usable_index("g")
    <2>1. on \subseteq Nat /\ on # {}
      <3>1. DOMAIN indexes = 1 .. Len(indexes) /\ Len(indexes) \in Nat
        BY StateParts
      <3>2. QED
        BY <3>1
    <2>2. Min(on) \in on
      <3> HIDE DEF on
      <3>1. QED
        BY <2>1, MinOfNats
    <2>3. index = indexes[Min(on)]
      BY DEF find_usable_index
    <2>4. index.page \in IntPages(indexes)
      BY <2>2, <2>3 DEF IntPages
    <2> HIDE DEF index
    <2>5. QED
      BY <2>4, LookupIs DEF index
  <1>2. QED
    BY <1>1, IndexInvAlways, CleanAlways, PTL

-----------------------------------------------------------------------------
(* Statements keep the table legible, but for a row below -1 among tombstones. *)

Live(node) == {i \in Used(node) : node.keys[i] # Tombstone}

\* The two parts of Legible, by the live slots.
LEMMA LegibleIs ==
    ASSUME NEW node
    PROVE  /\ ShowsRows(node) <=>
                 \A i \in Live(node) : node.values[i] \in Texts \cup {Blank}
           /\ InOrder(node) <=>
                 \A i, j \in Live(node) : i < j => node.keys[i] < node.keys[j]
  BY DEF ShowsRows, InOrder, Live

\* What a statement may make of a legible table.
Kept(node, m) ==
    /\ ShowsRows(m)
    /\ \/ InOrder(m)
       \/ /\ Present(node, Tombstone)
          /\ \E id \in LiveKeys(m) \ LiveKeys(node) : id < Tombstone

\* A new row goes between the smaller keys and the others; below -1 only when there
\* is no tombstone among these.
LEMMA InsertStaysLegible ==
    ASSUME NEW node \in Proper(Contents), Legible(node), NEW id \in Ids, NEW row \in Texts
    PROVE  Kept(node, btree_insert(node, id, row))
  <1> DEFINE m == btree_insert(node, id, row)
             u == node.num_keys
  <1>1. /\ node \in LeafOver(Int, Contents) /\ Int \in SUBSET Int
        /\ id \in Int /\ row \in Contents /\ Tombstone = -1
    BY ConstantsAre DEF Proper, Tombstone
  <1>2. /\ u \in Nat /\ u \in 0 .. Slots
        /\ \A i \in Used(node) : node.keys[i] \in Int /\ i \in Nat
    <2>1. /\ u \in 0 .. Slots /\ node.keys \in [1 .. Slots -> Int]
          /\ Used(node) \subseteq 1 .. Slots
      BY <1>1, PartsOver
    <2>2. QED
      BY <2>1, SlotsAssumption
  <1>3. /\ \A i \in Live(node) : node.values[i] \in Texts \cup {Blank}
        /\ \A i, j \in Live(node) : i < j => node.keys[i] < node.keys[j]
    BY LegibleIs DEF Legible
  <1>4. CASE Present(node, id)
    <2> DEFINE p == Min(Matches(node, id))
    <2>1. /\ m.num_keys = u /\ m.keys = node.keys
          /\ m.values = [node.values EXCEPT ![p] = row]
      <3>1. node = [num_keys |-> u, keys |-> node.keys, values |-> node.values]
        BY <1>1, PartsOver
      <3> HIDE DEF p
      <3>2. m = [node EXCEPT !.values[p] = row]
        BY <1>4 DEF btree_insert, p
      <3> HIDE DEF m, u
      <3>3. QED
        BY <3>1, <3>2
    <2>2. node.values \in [1 .. Slots -> Contents] /\ Used(node) \subseteq 1 .. Slots
      BY <1>1, PartsOver
    <2> HIDE DEF p
    <2>3. \A i \in Used(node) : m.values[i] = row \/ m.values[i] = node.values[i]
      BY <2>1, <2>2
    <2> HIDE DEF m
    <2>4. Used(m) = Used(node) /\ Live(m) = Live(node)
      BY <2>1 DEF Used, Live
    <2>5. \A i \in Live(m) : m.values[i] \in Texts \cup {Blank}
      BY <1>3, <2>3, <2>4 DEF Live
    <2>6. QED
      BY <1>3, <2>1, <2>4, <2>5, LegibleIs DEF Kept, m
  <1>5. CASE ~ Present(node, id) /\ LeafFull(node)
    BY <1>5, RefusedInsert DEF Legible, Kept
  <1>6. CASE ~ Present(node, id) /\ ~ LeafFull(node)
    <2> DEFINE p == InsertPosition(node, id)
    <2>1. /\ m.num_keys = u + 1
          /\ m.keys[p] = id /\ m.values[p] = row
          /\ \A j \in Used(node) : j < p =>
                 m.keys[j] = node.keys[j] /\ m.values[j] = node.values[j]
          /\ \A j \in Used(m) : p < j =>
                 m.keys[j] = node.keys[j - 1] /\ m.values[j] = node.values[j - 1]
      <3>1. m.num_keys = u + 1
        BY <1>6 DEF btree_insert
      <3>2. m.keys[p] = id /\ m.values[p] = row
        BY <1>1, <1>6, InsertNewOver
      <3>3. \A j \in Used(node) : j < p =>
                 m.keys[j] = node.keys[j] /\ m.values[j] = node.values[j]
        BY <1>1, <1>6, InsertNewOver
      <3>4. \A j \in Used(m) : p < j =>
                 m.keys[j] = node.keys[j - 1] /\ m.values[j] = node.values[j - 1]
        BY <1>1, <1>6, InsertNewOver
      <3>5. QED
        BY <3>1, <3>2, <3>3, <3>4
    <2>2. /\ p \in 1 .. u + 1
          /\ \A j \in Used(node) : j < p => node.keys[j] < id
          /\ p \in Used(node) => id <= node.keys[p]
      BY <1>1, InsertPositionBoundsOver
    <2> HIDE DEF m, p
    <2>3. /\ Used(node) = 1 .. u /\ Used(m) = 1 .. u + 1 /\ p \in Nat
      BY <2>1, <2>2 DEF Used
    <2> HIDE DEF u
    <2>4. \A j \in Used(node) : node.keys[j] # id
      BY <1>6 DEF Present, Matches
    <2>5. ASSUME NEW j \in Live(m)
          PROVE  /\ j \in Nat
                 /\ \/ j < p /\ j \in Live(node)
                    \/ j = p
                    \/ p < j /\ j - 1 \in Live(node)
      <3>1. j \in 1 .. u + 1 /\ j \in Nat /\ m.keys[j] # Tombstone
        BY <1>2, <2>3, <2>5 DEF Live
      <3>2. j < p => j \in 1 .. u
        BY <1>2, <2>2, <3>1
      <3>3. p < j => j - 1 \in 1 .. u
        BY <1>2, <2>2, <2>3, <3>1
      <3>4. j < p \/ j = p \/ p < j
        BY <2>3, <3>1
      <3>5. QED
        BY <2>1, <2>3, <3>1, <3>2, <3>3, <3>4 DEF Live
    <2>6. \A j \in Live(m) : m.values[j] \in Texts \cup {Blank}
      <3>1. SUFFICES ASSUME NEW j \in Live(m)
                     PROVE  m.values[j] \in Texts \cup {Blank}
        OBVIOUS
      <3>2. j \in Used(m) /\ Live(node) \subseteq Used(node)
        BY DEF Live
      <3>3. QED
        BY <1>3, <2>1, <2>5, <3>2
    <2>7. ASSUME id >= Tombstone \/ ~ Present(node, Tombstone),
                 NEW j \in Live(node), ~ (j < p), j \in Nat
          PROVE  id < node.keys[j]
      <3>1. p \in Used(node)
        BY <1>2, <2>2, <2>3, <2>7 DEF Live
      <3>2. id < node.keys[p] /\ node.keys[p] \in Int
        BY <1>1, <1>2, <2>2, <2>4, <3>1
      <3>3. p \in Live(node)
        <4>1. CASE id >= Tombstone
          BY <1>1, <3>1, <3>2, <4>1 DEF Live
        <4>2. CASE ~ Present(node, Tombstone)
          BY <3>1, <4>2 DEF Live, Present, Matches
        <4>3. QED
          BY <2>7, <4>1, <4>2
      <3>4. CASE j = p
        BY <3>2, <3>4
      <3>5. CASE p < j
        <4>1. node.keys[p] < node.keys[j] /\ node.keys[j] \in Int
          BY <1>2, <1>3, <3>3, <3>5 DEF Live
        <4>2. QED
          BY <1>1, <3>2, <4>1
      <3>6. QED
        BY <2>3, <2>7, <3>4, <3>5
    <2>8. ASSUME id >= Tombstone \/ ~ Present(node, Tombstone),
                 NEW i \in Live(m), NEW j \in Live(m), i < j
          PROVE  m.keys[i] < m.keys[j]
      <3>1. /\ i \in Nat /\ j \in Nat /\ i \in Used(m) /\ j \in Used(m)
            /\ Live(node) \subseteq Used(node)
        BY <2>5 DEF Live
      <3>2. CASE j < p /\ j \in Live(node)
        <4>1. i < p /\ i \in Live(node)
          BY <2>3, <2>5, <2>8, <3>1, <3>2
        <4>2. QED
          BY <1>3, <2>1, <2>8, <3>1, <3>2, <4>1
      <3>3. CASE j = p
        <4>1. i < p /\ i \in Live(node)
          BY <2>3, <2>5, <2>8, <3>1, <3>3
        <4>2. QED
          BY <2>1, <2>2, <3>1, <3>3, <4>1
      <3>4. CASE p < j /\ j - 1 \in Live(node)
        <4>1. m.keys[j] = node.keys[j - 1] /\ j - 1 \in Nat /\ ~ (j - 1 < p)
          BY <1>2, <2>1, <2>3, <3>1, <3>4
        <4>2. id < node.keys[j - 1] /\ node.keys[j - 1] \in Int
          BY <1>2, <2>7, <2>8, <3>1, <3>4, <4>1
        <4>3. CASE i < p /\ i \in Live(node)
          <5>1. m.keys[i] = node.keys[i] /\ node.keys[i] < id /\ node.keys[i] \in Int
            BY <1>2, <2>1, <2>2, <3>1, <4>3
          <5>2. QED
            BY <1>1, <4>1, <4>2, <5>1
        <4>4. CASE i = p
          BY <2>1, <4>1, <4>2, <4>4
        <4>5. CASE p < i /\ i - 1 \in Live(node)
          <5>1. i - 1 < j - 1
            BY <2>8, <3>1
          <5>2. m.keys[i] = node.keys[i - 1]
            BY <2>1, <3>1, <4>5
          <5>3. QED
            BY <1>3, <3>4, <4>1, <4>5, <5>1, <5>2
        <4>6. QED
          BY <2>5, <4>3, <4>4, <4>5
      <3>5. QED
        BY <2>5, <3>2, <3>3, <3>4
    <2>9. ShowsRows(m)
      BY <2>6, LegibleIs
    <2>10. CASE id >= Tombstone \/ ~ Present(node, Tombstone)
      <3>1. InOrder(m)
        BY <2>8, <2>10, LegibleIs
      <3>2. QED
        BY <2>9, <3>1 DEF Kept, m
    <2>11. CASE ~ (id >= Tombstone) /\ Present(node, Tombstone)
      <3>1. id < Tombstone /\ id # Tombstone
        BY <1>1, <2>11
      <3>2. id \in LiveKeys(m)
        BY <2>1, <2>2, <2>3, <3>1 DEF LiveKeys
      <3>3. id \notin LiveKeys(node)
        BY <2>4 DEF LiveKeys
      <3>4. QED
        BY <2>9, <2>11, <3>1, <3>2, <3>3 DEF Kept, m
    <2>12. QED
      BY <2>10, <2>11
  <1>7. QED
    BY <1>4, <1>5, <1>6

\* A deleted row leaves a tombstone, and the last slot is no longer in use.
LEMMA DeleteStaysLegible ==
    ASSUME NEW node \in Proper(Contents), Legible(node), NEW id \in Int
    PROVE  Kept(node, btree_delete(node, id))
  <1> DEFINE m == btree_delete(node, id)
  <1>1. /\ node \in LeafOver(Int, Contents) /\ Int \in SUBSET Int
        /\ Tombstone \in Int /\ Empty \in Contents
    BY ConstantsAre DEF Proper
  <1>2. CASE ~ Present(node, id)
    BY <1>2 DEF btree_delete, Legible, Kept
  <1>3. CASE Present(node, id)
    <2> DEFINE p == Min(Matches(node, id))
    <2>1. /\ Used(m) = Used(node) \ {node.num_keys}
          /\ m.keys = [node.keys EXCEPT ![p] = Tombstone]
          /\ m.values = [node.values EXCEPT ![p] = Empty]
      <3>1. m.num_keys = node.num_keys - 1
        BY <1>3 DEF btree_delete
      <3>2. m.keys = [node.keys EXCEPT ![p] = Tombstone]
        BY <1>3 DEF btree_delete
      <3>3. m.values = [node.values EXCEPT ![p] = Empty]
        BY <1>3 DEF btree_delete
      <3> HIDE DEF m
      <3>4. Used(m) = Used(node) \ {node.num_keys}
        <4>1. node.num_keys \in 0 .. Slots
          BY <1>1, PartsOver
        <4>2. QED
          BY <3>1, <4>1, SlotsAssumption DEF Used
      <3>5. QED
        BY <3>2, <3>3, <3>4
    <2>2. /\ node.keys \in [1 .. Slots -> Int] /\ node.values \in [1 .. Slots -> Contents]
          /\ Used(node) \subseteq 1 .. Slots
      BY <1>1, PartsOver
    <2> HIDE DEF m, p
    <2>3. \A i \in Live(m) : /\ i \in Live(node) /\ m.keys[i] = node.keys[i]
                             /\ m.values[i] = node.values[i]
      <3>1. SUFFICES ASSUME NEW i \in Live(m)
                     PROVE  /\ i \in Live(node) /\ m.keys[i] = node.keys[i]
                            /\ m.values[i] = node.values[i]
        OBVIOUS
      <3>2. i \in Used(node) /\ m.keys[i] # Tombstone /\ i \in 1 .. Slots
        BY <2>1, <2>2 DEF Live
      <3>3. i # p
        BY <2>1, <2>2, <3>2
      <3>4. QED
        BY <2>1, <2>2, <3>2, <3>3 DEF Live
    <2>4. QED
      BY <2>3, LegibleIs DEF Legible, Kept, m
  <1>4. QED
    BY <1>2, <1>3

\* After the first done writes of a statement the table is as it was, or the one
\* call of the statement was made on it.
LEMMA ReachedTable ==
    ASSUME NEW ws, NEW n, NEW G, NEW a, NEW record, NEW c, NEW old, NEW number,
           NEW id, NEW done,
           Reached(ws, n, G, a, record, c, old, number, id, Disk, done, Disk')
    PROVE  table' = table \/ table' = Call(table, c)
  <1>1. /\ done \in Nat /\ a \in Nat
    BY DEF Reached, IsStatement
  <1>2. done < a + 2 \/ done >= a + 2
    BY <1>1
  <1>3. \/ Disk'.pages[TablePage] = Disk.pages[TablePage]
        \/ Disk'.pages[TablePage] = Call(Disk.pages[TablePage], c)
    BY <1>2 DEF Reached, Stage
  <1>4. Disk.pages = pages /\ Disk'.pages = pages'
    BY DEF Disk
  <1>5. QED
    BY <1>3, <1>4 DEF table

\* The calls of INSERT, UPDATE and DELETE on a legible table.
LEMMA CallStaysLegible ==
    ASSUME NEW node \in Proper(Contents), Legible(node), NEW id \in Ids
    PROVE  /\ \A number \in Numbers :
                 Kept(node, Call(node, InsertCall(id, <<id, number>>)))
           /\ Kept(node, Call(node, DeleteCall(id)))
  <1>1. id \in Int /\ \A number \in Numbers : <<id, number>> \in Texts
    BY ConstantsAre
  <1>2. Call(node, DeleteCall(id)) = btree_delete(node, id)
    BY DEF Call, DeleteCall
  <1>3. ASSUME NEW number \in Numbers
        PROVE  Kept(node, Call(node, InsertCall(id, <<id, number>>)))
    <2> DEFINE row == <<id, number>>
    <2>1. row \in Texts
      BY <1>1
    <2> HIDE DEF row
    <2>2. Call(node, InsertCall(id, row)) = btree_insert(node, id, row)
      BY DEF Call, InsertCall
    <2>3. Kept(node, btree_insert(node, id, row))
      BY <2>1, InsertStaysLegible
    <2>4. QED
      BY <2>2, <2>3 DEF row
  <1>4. Kept(node, btree_delete(node, id))
    BY <1>1, DeleteStaysLegible
  <1>5. QED
    BY <1>2, <1>3, <1>4

LEMMA InsertLeavesLegible ==
    ASSUME StateInv, Legible(table), NEW id \in Ids, NEW number \in Numbers,
           Insert(id, number)
    PROVE  Kept(table, table')
  <1> DEFINE gave2 == [given EXCEPT ![id] = number]
  <1>1. PICK pad \in Pads :
            LET steps == InsertSteps(id, number, pad)
            IN  \E done \in 1 .. Len(steps) :
                /\ Statement(steps, done)
                /\ given' = IF TableWritten(steps, done) THEN gave2 ELSE given
    BY DEF Insert
  <1> DEFINE ws     == InsertSteps(id, number, pad)
             record == wal_log_insert(lsn, current_tx_id, id, <<id, number>>, pad)
             c      == InsertCall(id, <<id, number>>)
             n      == Len(pages)
             G      == IntPages(indexes)
  <1>2. PICK done \in 1 .. Len(ws) :
            Statement(ws, done) /\ given' \in {gave2, given}
    BY <1>1
  <1>3. given' \in [Ids -> Numbers \cup {NoNumber}] /\ Len(log) < MaxLog
    BY <1>2 DEF StateInv, Insert, MayWrite
  <1>4. IsStatement(ws, n, G, 0, record, c, 0, number, id)
    BY InsertIsStatement
  <1> HIDE DEF ws, record, c
  <1>5. Reached(ws, n, G, 0, record, c, 0, number, id, Disk, done, Disk')
    BY <1>2, <1>3, <1>4, StatementKeepsState
  <1> HIDE DEF n, G
  <1>6. table' = table \/ table' = Call(table, c)
    BY <1>5, ReachedTable
  <1>7. table \in Proper(Contents)
    BY StateParts
  <1>8. Kept(table, Call(table, c)) /\ Kept(table, table)
    BY <1>7, CallStaysLegible DEF Legible, Kept, c
  <1>9. QED
    BY <1>6, <1>8

LEMMA UpdateLeavesLegible ==
    ASSUME StateInv, Legible(table), NEW id \in Ids, NEW number \in Numbers,
           Update(id, number)
    PROVE  Kept(table, table')
  <1> DEFINE gave2 == [given EXCEPT ![id] = number]
             old   == btree_search(table, id)[2]
  <1>1. PICK pad \in Pads :
            LET steps == UpdateSteps(id, old, number, pad)
            IN  \E done \in 1 .. Len(steps) :
                /\ Statement(steps, done)
                /\ given' = IF TableWritten(steps, done) THEN gave2 ELSE given
    BY DEF Update
  <1> DEFINE ws     == UpdateSteps(id, old, number, pad)
             record == wal_log_update(lsn, current_tx_id, id, <<id, number>>, pad)
             c      == InsertCall(id, <<id, number>>)
             a      == Len(maintain_indexes_delete(old))
             n      == Len(pages)
             G      == IntPages(indexes)
  <1>2. PICK done \in 1 .. Len(ws) :
            Statement(ws, done) /\ given' \in {gave2, given}
    BY <1>1
  <1>3. /\ given' \in [Ids -> Numbers \cup {NoNumber}] /\ Len(log) < MaxLog
        /\ btree_search(table, id) \in Texts
    BY <1>2 DEF StateInv, Update, MayWrite
  <1>4. old \in Numbers
    <2>1. Texts = Ids \X Numbers
      BY IndexConstants
    <2>2. QED
      BY <1>3, <2>1
  <1> HIDE DEF old
  <1>5. IsStatement(ws, n, G, a, record, c, old, number, id)
    BY <1>4, UpdateIsStatement
  <1> HIDE DEF ws, record, c, a
  <1>6. Reached(ws, n, G, a, record, c, old, number, id, Disk, done, Disk')
    BY <1>2, <1>3, <1>5, StatementKeepsState
  <1> HIDE DEF n, G
  <1>7. table' = table \/ table' = Call(table, c)
    BY <1>6, ReachedTable
  <1>8. table \in Proper(Contents)
    BY StateParts
  <1>9. Kept(table, Call(table, c)) /\ Kept(table, table)
    BY <1>8, CallStaysLegible DEF Legible, Kept, c
  <1>10. QED
    BY <1>7, <1>9

LEMMA DeleteLeavesLegible ==
    ASSUME StateInv, Legible(table), NEW id \in Ids, Delete(id)
    PROVE  Kept(table, table')
  <1>1. PICK pad \in Pads, junk \in Junk :
            \E done \in 1 .. Len(DeleteSteps(id, junk, pad)) :
                Statement(DeleteSteps(id, junk, pad), done)
    BY DEF Delete
  <1> DEFINE ws     == DeleteSteps(id, junk, pad)
             record == wal_log_delete(lsn, current_tx_id, id, pad)
             c      == DeleteCall(id)
             n      == Len(pages)
             G      == IntPages(indexes)
  <1>2. PICK done \in 1 .. Len(ws) : Statement(ws, done)
    BY <1>1
  <1>3. given' \in [Ids -> Numbers \cup {NoNumber}] /\ Len(log) < MaxLog
    BY DEF StateInv, Delete, MayWrite
  <1>4. PICK a, old, number :
            IsStatement(ws, n, G, a, record, c, old, number, id)
    BY DeleteIsStatement
  <1> HIDE DEF ws, record, c
  <1>5. Reached(ws, n, G, a, record, c, old, number, id, Disk, done, Disk')
    BY <1>2, <1>3, <1>4, StatementKeepsState
  <1> HIDE DEF n, G
  <1>6. table' = table \/ table' = Call(table, c)
    BY <1>5, ReachedTable
  <1>7. table \in Proper(Contents)
    BY StateParts
  <1>8. Kept(table, Call(table, c)) /\ Kept(table, table)
    BY <1>7, CallStaysLegible DEF Legible, Kept, c
  <1>9. QED
    BY <1>6, <1>8

LEMMA CreateIndexKeepsTable ==
    ASSUME StateInv, NEW column \in {"g", "name"}, CreateIndex(column)
    PROVE  table' = table
  <1>1. PICK new : pages' = Append(pages, new)
    BY DEF CreateIndex
  <1> DEFINE n == Len(pages)
             P == Proper(Cells) \cup {new}
  <1>2. /\ pages \in [1 .. n -> Proper(Cells)] /\ TablePage \in 1 .. n
        /\ n \in Nat /\ n >= 1
    BY StateParts
  <1>3. pages \in Seq(P) /\ new \in P
    <2>1. pages \in [1 .. n -> P]
      BY <1>2
    <2> HIDE DEF P
    <2>2. pages \in Seq(P)
      BY <1>2, <2>1, PagesAre
    <2>3. QED
      BY <2>2 DEF P
  <1> HIDE DEF P
  <1>4. pages'[TablePage] = pages[TablePage]
    BY <1>1, <1>2, <1>3, AppendProperties
  <1>5. QED
    BY <1>4 DEF table

\* No statement leaves a legible table with contents that none gave, or out of
\* order but for the INSERT of a row below -1 among tombstones, wherever it dies:
\* only a recovery and a ROLLBACK may, which take for records what are none.
THEOREM NoStatementGarbles == Spec => TableStaysLegible
  <1>1. IndexInv /\ [Next]_vars =>
            (up /\ ~ scan.running /\ Legible(table) => Kept(table, table'))
    <2> SUFFICES ASSUME StateInv, [Next]_vars, up, ~ scan.running, Legible(table)
                 PROVE  Kept(table, table')
      BY DEF IndexInv
    <2>0. table' = table => Kept(table, table')
      BY DEF Legible, Kept
    <2>1. CASE UNCHANGED pages
      BY <2>0, <2>1 DEF table
    <2>2. CASE NextIndex
      <3>1. CASE \/ Begin \/ Commit \/ Close
                 \/ \E i \in DOMAIN indexes : DropIndex(i)
        BY <2>1, <3>1 DEF Begin, Commit, Close, DropIndex
      <3>2. CASE \E id \in Ids, number \in Numbers : Insert(id, number)
        BY <3>2, InsertLeavesLegible
      <3>3. CASE \E id \in Ids, number \in Numbers : Update(id, number)
        BY <3>3, UpdateLeavesLegible
      <3>4. CASE \E id \in Ids : Delete(id)
        BY <3>4, DeleteLeavesLegible
      <3>5. CASE \E column \in {"g", "name"} : CreateIndex(column)
        BY <2>0, <3>5, CreateIndexKeepsTable
      <3>6. CASE Open
        BY <3>6 DEF Open
      <3>7. QED
        BY <2>2, <3>1, <3>2, <3>3, <3>4, <3>5, <3>6 DEF NextIndex
    <2>3. CASE UNCHANGED vars \/ Rollback
      BY <2>1, <2>3 DEF vars, indexVars, Rollback
    <2>4. CASE ScanStep \/ Kill
      BY <2>4 DEF ScanStep, Kill
    <2>5. QED
      BY <2>2, <2>3, <2>4 DEF Next
  <1>2. QED
    BY <1>1, IndexInvAlways, PTL DEF Spec, TableStaysLegible, Kept
=============================================================================
