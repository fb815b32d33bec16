--------------------------- MODULE DatabaseProofs ---------------------------
(***************************************************************************)
(* Theorems about transactions and recovery (Database): the types, that a  *)
(* recovery replays what was committed and nothing else, that a row is in  *)
(* the log before it is in its page, and that a recovery brings the rows   *)
(* back that were committed.  What a reader makes of the log's bytes is    *)
(* proved in WalProofs, what the calls do to a leaf in LeafProofs.         *)
(***************************************************************************)
EXTENDS Database, WalProofs, FiniteSetTheorems

\* What the assumptions say of the constants, as the proofs use it.
LEMMA Bounds ==
    /\ MaxTx \in Bytes /\ MaxTx \in Nat /\ Sessions \in Nat
    /\ RowIds \subseteq Int32 /\ RowIds \subseteq Int /\ Pads \subseteq Bytes
    /\ Texts \subseteq Contents /\ UpdateTexts \subseteq Texts
    /\ Blank \in Contents /\ Blank \notin Texts
    /\ 1 .. MaxTx \subseteq Bytes
  <1>1. /\ MaxTx \in Bytes /\ Sessions \in Nat
        /\ RowIds \subseteq Int32 /\ Pads \subseteq Bytes
    BY BoundsAssumption, Zenon
  <1>2. /\ MaxTx \in Nat /\ RowIds \subseteq Int /\ 1 .. MaxTx \subseteq Bytes
    BY <1>1, ByteIs, KeysAreInts
  <1>3. /\ Texts \subseteq Contents /\ UpdateTexts \subseteq Texts
        /\ Blank \in Contents /\ Blank \notin Texts
    BY TextsAssumption, ContentsAssumption, RowsAssumption
  <1>4. QED
    BY <1>1, <1>2, <1>3

\* The counter of records in the header stays below 256 as long as the log is
\* not longer than that many headers.
LEMMA LsnIsByte ==
    ASSUME NEW n \in Bytes, NEW l \in Nat, HeaderSize * n <= l, l < MaxLog,
           NEW m \in Nat, m >= l + HeaderSize
    PROVE  n + 1 \in Bytes /\ HeaderSize * (n + 1) <= m /\ HeaderSize * 0 <= m
  <1>1. MaxLog \in Int /\ MaxLog <= 255 * 24
    <2>1. MaxLog \in 0 .. 255 * HeaderSize
      BY BoundsAssumption
    <2> DEFINE top == 255 * HeaderSize
    <2>2. top = 255 * 24 /\ top \in Int
      BY DEF HeaderSize
    <2> HIDE DEF top
    <2>3. MaxLog \in Int /\ MaxLog <= top
      BY <2>1 DEF top
    <2>4. QED
      BY <2>2, <2>3
  <1>2. n \in Int /\ 0 <= n /\ n <= 255
    BY ByteIs
  <1>3. 24 * n <= l /\ HeaderSize = 24
    BY DEF HeaderSize
  <1>4. n + 1 <= 255
    BY <1>1, <1>2, <1>3
  <1>5. 24 * (n + 1) <= m /\ 24 * 0 <= m
    BY <1>2, <1>3
  <1>6. QED
    BY <1>2, <1>3, <1>4, <1>5, ByteIs

-----------------------------------------------------------------------------
(* Types.                                                                   *)

Logged == [tx : Nat, redo : Seq(AnyCall)]

\* An open transaction has been counted, and the log has a header for every
\* record that was counted in the session.
StateInv ==
    /\ TypeOK
    /\ locked => current_tx_id # 0 /\ begun # 0
    /\ HeaderSize * lsn <= Len(log)
    /\ history \in Seq(Logged)

\* It holds initially.
LEMMA InitState ==
    ASSUME Init
    PROVE  StateInv
  <1>1. Formatted(ZeroPage) \in AnyNode
    BY ZeroPageIs, LeavesOver
  <1>2. 0 \in 0 .. MaxTx /\ 0 \in 0 .. 255 /\ 1 \in 1 .. Sessions + 1
    BY Bounds
  <1>3. TypeOK
    <2>1. /\ up \in BOOLEAN /\ locked \in BOOLEAN
          /\ current_tx_id \in 0 .. MaxTx /\ lsn \in 0 .. 255
          /\ leaf \in AnyNode /\ catalog \in CatalogPages
          /\ session \in 1 .. Sessions + 1
      BY <1>1, <1>2, Zenon DEF Init
    <2>2. /\ log \in Seq(Bytes) /\ begun \in Nat /\ committed \subseteq 1 .. begun
          /\ scanned \subseteq AnyCall
          /\ \A i \in DOMAIN history : history[i].tx \in 1 .. begun
      BY DEF Init
    <2>3. QED
      BY <2>1, <2>2, Zenon DEF TypeOK
  <1>4. HeaderSize * 0 <= Len(<< >>)
    BY DEF HeaderSize
  <1>5. QED
    BY <1>3, <1>4 DEF Init, StateInv

\* The parts of the invariant the proofs below need.
LEMMA StateParts ==
    ASSUME StateInv
    PROVE  /\ lsn \in Bytes /\ current_tx_id \in Nat /\ current_tx_id <= MaxTx
           /\ current_tx_id \in Bytes
           /\ log \in Seq(Bytes) /\ Len(log) \in Nat /\ leaf \in AnyNode
           /\ begun \in Nat /\ catalog \in CatalogPages
           /\ session \in Nat /\ history \in Seq(Logged)
           /\ committed \subseteq 1 .. begun /\ scanned \subseteq AnyCall
           /\ up \in BOOLEAN /\ locked \in BOOLEAN
  <1>1. lsn \in Bytes
    BY Zenon DEF StateInv, TypeOK, Bytes
  <1>2. current_tx_id \in 0 .. MaxTx /\ log \in Seq(Bytes) /\ leaf \in AnyNode
        /\ begun \in Nat /\ catalog \in CatalogPages /\ session \in 1 .. Sessions + 1
        /\ history \in Seq(Logged) /\ committed \subseteq 1 .. begun
        /\ scanned \subseteq AnyCall
        /\ up \in BOOLEAN /\ locked \in BOOLEAN
    BY DEF StateInv, TypeOK
  <1>3. current_tx_id \in Nat /\ current_tx_id <= MaxTx
    BY <1>2, Bounds
  <1>4. current_tx_id \in Bytes
    <2>1. MaxTx \in Int /\ MaxTx <= 255
      BY Bounds, ByteIs
    <2>2. QED
      BY <1>3, <2>1, ByteIs
  <1>5. Len(log) \in Nat /\ session \in Nat
    BY <1>2, Bounds
  <1>6. QED
    BY <1>1, <1>2, <1>3, <1>4, <1>5

\* Replaying the record of a statement makes these calls.
LEMMA RedoIsOfCalls ==
    ASSUME NEW id \in RowIds, NEW value \in Texts
    PROVE  /\ Redo(LOG_RECORD_TYPE_INSERT, id, value) = << InsertCall(id, value) >>
           /\ Redo(LOG_RECORD_TYPE_UPDATE, id, value) =
                  << DeleteCall(id), InsertCall(id, value) >>
           /\ Redo(LOG_RECORD_TYPE_DELETE, id, Blank) = << DeleteCall(id) >>
           /\ Redo(LOG_RECORD_TYPE_INSERT, id, value) \in Seq(AnyCall)
           /\ Redo(LOG_RECORD_TYPE_UPDATE, id, value) \in Seq(AnyCall)
           /\ Redo(LOG_RECORD_TYPE_DELETE, id, Blank) \in Seq(AnyCall)
  <1>1. /\ LOG_RECORD_TYPE_INSERT # LOG_RECORD_TYPE_DELETE
        /\ LOG_RECORD_TYPE_INSERT # LOG_RECORD_TYPE_UPDATE
        /\ LOG_RECORD_TYPE_UPDATE # LOG_RECORD_TYPE_DELETE
    BY DEF LOG_RECORD_TYPE_INSERT, LOG_RECORD_TYPE_UPDATE, LOG_RECORD_TYPE_DELETE
  <1>2. /\ Redo(LOG_RECORD_TYPE_INSERT, id, value) = << InsertCall(id, value) >>
        /\ Redo(LOG_RECORD_TYPE_UPDATE, id, value) =
               << DeleteCall(id), InsertCall(id, value) >>
        /\ Redo(LOG_RECORD_TYPE_DELETE, id, Blank) = << DeleteCall(id) >>
    BY <1>1 DEF Redo
  <1>3. InsertCall(id, value) \in AnyCall /\ DeleteCall(id) \in AnyCall
    BY Bounds DEF InsertCall, DeleteCall, AnyCall
  <1>4. QED
    BY <1>2, <1>3

\* What a statement does, read once for all proofs.
Completed(record, redo) ==
    /\ log' = log \o FlattenSeq(record)
    /\ history' = Append(history, [tx |-> begun, redo |-> redo])

StatementParts(record, page, redo) ==
    /\ UNCHANGED <<catalog, session, begun, committed, scanned>>
    /\ \/ /\ leaf' = page /\ lsn' = lsn + 1
          /\ UNCHANGED <<up, locked, current_tx_id>>
          /\ Completed(record, redo)
       \/ Forget /\ UNCHANGED leaf /\ Completed(record, redo)
       \/ /\ Forget /\ UNCHANGED leaf
          /\ history' = history
          /\ \E w \in 1 .. Len(record) :
                /\ w < Len(record)
                /\ log' = log \o FlattenSeq(SubSeq(record, 1, w))

\* A statement does one of three things.
LEMMA StatementIs ==
    ASSUME NEW record, NEW hd, NEW page, NEW redo,
           WritesRecord(record, hd), Statement(record, page, redo)
    PROVE  StatementParts(record, page, redo)
  <1>1. PICK w \in 1 .. Len(record), survives \in BOOLEAN :
            /\ w < Len(record) => TornRecords /\ ~ survives
            /\ log' = log \o FlattenSeq(SubSeq(record, 1, w))
            /\ IF survives
               THEN leaf' = page /\ lsn' = lsn + 1
                    /\ UNCHANGED <<up, locked, current_tx_id>>
               ELSE Forget /\ UNCHANGED leaf
            /\ history' = IF w < Len(record) THEN history
                          ELSE Append(history, [tx |-> begun, redo |-> redo])
            /\ UNCHANGED <<catalog, session, begun, committed, scanned>>
    BY DEF Statement
  <1>2. SubSeq(record, 1, Len(record)) = record
    BY DEF WritesRecord
  <1>3. CASE w < Len(record)
    BY <1>1, <1>3 DEF StatementParts
  <1>4. CASE ~ (w < Len(record))
    <2>1. w = Len(record)
      <3>1. Len(record) \in Nat
        BY Zenon DEF WritesRecord
      <3>2. QED
        BY <1>4, <3>1
    <2>2. Completed(record, redo)
      <3>1. log' = log \o FlattenSeq(SubSeq(record, 1, w))
        BY <1>1
      <3>2. history' = Append(history, [tx |-> begun, redo |-> redo])
        BY <1>1, <1>4
      <3>3. SubSeq(record, 1, w) = record
        BY <1>2, <2>1, Zenon
      <3>4. QED
        BY <3>1, <3>2, <3>3, Zenon DEF Completed
    <2>3. QED
      BY <1>1, <2>2 DEF StatementParts
  <1>5. QED
    BY <1>3, <1>4

\* The log with more bytes, the other parts of the types unchanged or reset.
LEMMA StatementKeepsState ==
    ASSUME StateInv, locked, LogHasRoom,
           NEW record, NEW hd, WritesRecord(record, hd),
           NEW page \in AnyNode, NEW redo \in Seq(AnyCall),
           Statement(record, page, redo)
    PROVE  StateInv'
  <1>1. StatementParts(record, page, redo)
    BY StatementIs
  <1>2. /\ Len(record) \in Nat /\ Len(record) >= 1
        /\ FlattenSeq(record) \in Seq(Bytes)
        /\ Len(FlattenSeq(record)) >= HeaderSize
        /\ \A w \in 1 .. Len(record) : FlattenSeq(SubSeq(record, 1, w)) \in Seq(Bytes)
    <2>1. Len(record) \in 1 .. Len(record)
      BY DEF WritesRecord
    <2>2. QED
      BY <2>1 DEF WritesRecord
  <1> DEFINE added == [tx |-> begun, redo |-> redo]
  <1>3. /\ added \in Logged /\ added.tx = begun
        /\ Append(history, added) \in Seq(Logged)
        /\ \A i \in DOMAIN Append(history, added) :
              Append(history, added)[i].tx \in 1 .. begun
    <2>1. added \in Logged /\ added.tx = begun
      BY StateParts DEF Logged
    <2> HIDE DEF added
    <2>2. history \in Seq(Logged) /\ begun \in 1 .. begun
      BY StateParts DEF StateInv
    <2>3. \A i \in DOMAIN history : history[i].tx \in 1 .. begun
      BY DEF StateInv, TypeOK
    <2>4. QED
      BY <2>1, <2>2, <2>3, AppendProperties
  <1>4. log' \in Seq(Bytes) /\ Len(log') >= Len(log)
        /\ Len(log) \in Nat /\ Len(log') \in Nat
    <2>1. log \in Seq(Bytes)
      BY StateParts
    <2>2. CASE Completed(record, redo)
      BY <1>2, <2>1, <2>2, JoinedLength DEF Completed
    <2>3. CASE \E w \in 1 .. Len(record) :
                  log' = log \o FlattenSeq(SubSeq(record, 1, w))
      BY <1>2, <2>1, <2>3, JoinedLength
    <2>4. QED
      BY <1>1, <2>2, <2>3 DEF StatementParts
  <1>5. /\ history' \in Seq(Logged)
        /\ \A i \in DOMAIN history' : history'[i].tx \in 1 .. begun
    <2>1. history \in Seq(Logged)
          /\ \A i \in DOMAIN history : history[i].tx \in 1 .. begun
      BY DEF StateInv, TypeOK
    <2>2. history' = history \/ history' = Append(history, added)
      BY <1>1 DEF StatementParts, Completed
    <2> HIDE DEF added
    <2>3. QED
      BY <1>3, <2>1, <2>2
  <1>6. lsn' \in Bytes /\ HeaderSize * lsn' <= Len(log')
    <2>1. lsn \in Bytes /\ HeaderSize * lsn <= Len(log) /\ Len(log) < MaxLog
      BY StateParts DEF StateInv, LogHasRoom
    <2>2. CASE lsn' = 0
      BY <1>4, <2>2, ByteIs DEF HeaderSize
    <2>3. CASE lsn' = lsn + 1 /\ Completed(record, redo)
      <3>1. Len(log') >= Len(log) + HeaderSize
        <4>1. Len(log') = Len(log) + Len(FlattenSeq(record))
              /\ Len(FlattenSeq(record)) \in Nat
          BY <1>2, <2>3, StateParts, JoinedLength DEF Completed
        <4>2. HeaderSize \in Nat
          BY DEF HeaderSize
        <4>3. QED
          BY <1>2, <1>4, <4>1, <4>2
      <3>2. QED
        BY <1>4, <2>1, <2>3, <3>1, LsnIsByte
    <2>4. QED
      BY <1>1, <2>2, <2>3 DEF StatementParts, Forget
  <1>7. /\ up' \in BOOLEAN /\ locked' \in BOOLEAN
        /\ current_tx_id' \in 0 .. MaxTx /\ leaf' \in AnyNode
        /\ locked' => current_tx_id' # 0 /\ begun' # 0
        /\ catalog' = catalog /\ session' = session /\ begun' = begun
        /\ committed' = committed /\ scanned' = scanned
    <2>1. /\ up \in BOOLEAN /\ locked \in BOOLEAN
          /\ current_tx_id \in 0 .. MaxTx /\ leaf \in AnyNode
          /\ locked => current_tx_id # 0 /\ begun # 0
          /\ 0 \in 0 .. MaxTx
      BY Bounds DEF StateInv, TypeOK
    <2>2. QED
      BY <1>1, <2>1 DEF StatementParts, Forget
  <1>8. lsn' \in 0 .. 255
    BY <1>6, Zenon DEF Bytes
  <1>9. TypeOK'
    <2>1. /\ catalog \in CatalogPages /\ session \in 1 .. Sessions + 1
          /\ begun \in Nat /\ committed \subseteq 1 .. begun /\ scanned \subseteq AnyCall
      BY DEF StateInv, TypeOK
    <2>2. QED
      BY <1>4, <1>5, <1>7, <1>8, <2>1, Zenon DEF TypeOK
  <1>10. QED
    BY <1>5, <1>6, <1>7, <1>9 DEF StateInv

\* Each action keeps it.
LEMMA ShortRecordKeepsState ==
    ASSUME StateInv, LogHasRoom,
           NEW type \in 0 .. 4, NEW tx_id \in Bytes, NEW pad \in Pads,
           log' = log \o FlattenSeq(<< LogRecordHeader(lsn, type, tx_id, 0, pad) >>),
           lsn' = lsn + 1
    PROVE  log' \in Seq(Bytes) /\ lsn' \in 0 .. 255 /\ HeaderSize * lsn' <= Len(log')
  <1> DEFINE bytes == FlattenSeq(<< LogRecordHeader(lsn, type, tx_id, 0, pad) >>)
  <1>1. lsn \in Bytes /\ log \in Seq(Bytes) /\ pad \in Bytes
    BY StateParts, Bounds
  <1>2. bytes \in Seq(Bytes) /\ Len(bytes) = HeaderSize
    BY <1>1, ShortRecordIsWritten
  <1>3. log' = log \o bytes
    OBVIOUS
  <1> HIDE DEF bytes
  <1>4. log' \in Seq(Bytes) /\ Len(log') = Len(log) + HeaderSize
        /\ Len(log) \in Nat /\ Len(log') \in Nat
    BY <1>1, <1>2, <1>3, JoinedLength
  <1>5. Len(log') >= Len(log) + HeaderSize
    BY <1>4 DEF HeaderSize
  <1>6. HeaderSize * lsn <= Len(log) /\ Len(log) < MaxLog
    BY DEF StateInv, LogHasRoom
  <1>7. lsn + 1 \in Bytes /\ HeaderSize * (lsn + 1) <= Len(log')
    BY <1>1, <1>4, <1>5, <1>6, LsnIsByte
  <1>8. QED
    BY <1>4, <1>7, Zenon DEF Bytes

LEMMA BeginKeepsState ==
    ASSUME StateInv, Begin
    PROVE  StateInv'
  <1>1. PICK pad \in Pads :
            log' = log \o FlattenSeq(wal_log_begin(lsn, current_tx_id + 1, pad))
    BY DEF Begin
  <1>2. /\ current_tx_id \in Nat /\ current_tx_id + 1 <= MaxTx /\ MaxTx \in Nat
    BY StateParts, Bounds DEF Begin
  <1>3. current_tx_id + 1 \in Bytes
    <2>1. MaxTx <= 255
      BY Bounds, ByteIs
    <2>2. QED
      BY <1>2, <2>1, ByteIs
  <1>4. log' \in Seq(Bytes) /\ lsn' \in 0 .. 255 /\ HeaderSize * lsn' <= Len(log')
    <2>1. LOG_RECORD_TYPE_BEGIN \in 0 .. 4
      BY TypesOfRecords
    <2>2. log' = log \o FlattenSeq(<< LogRecordHeader(lsn, LOG_RECORD_TYPE_BEGIN,
                                                     current_tx_id + 1, 0, pad) >>)
      BY <1>1 DEF wal_log_begin
    <2>3. lsn' = lsn + 1 /\ LogHasRoom
      BY DEF Begin
    <2>4. QED
      BY <1>3, <2>1, <2>2, <2>3, ShortRecordKeepsState
  <1>5. /\ up' \in BOOLEAN /\ locked' \in BOOLEAN
        /\ current_tx_id' \in 0 .. MaxTx /\ leaf' \in AnyNode
        /\ current_tx_id' # 0
        /\ catalog' \in CatalogPages /\ session' \in 1 .. Sessions + 1
        /\ history' = history /\ scanned' \subseteq AnyCall
    BY <1>2 DEF Begin, StateInv, TypeOK
  <1>6. /\ begun' \in Nat /\ begun' # 0 /\ committed' \subseteq 1 .. begun'
        /\ \A i \in DOMAIN history' : history'[i].tx \in 1 .. begun'
    <2>1. /\ begun \in Nat /\ committed \subseteq 1 .. begun
          /\ \A i \in DOMAIN history : history[i].tx \in 1 .. begun
          /\ begun' = begun + 1 /\ committed' = committed /\ history' = history
      BY DEF StateInv, TypeOK, Begin
    <2>2. 1 .. begun \subseteq 1 .. begun + 1 /\ begun + 1 \in Nat /\ begun + 1 # 0
      BY <2>1
    <2>3. QED
      BY <2>1, <2>2
  <1>7. TypeOK'
    BY <1>4, <1>5, <1>6, Zenon DEF TypeOK
  <1>8. QED
    BY <1>4, <1>5, <1>6, <1>7 DEF StateInv

LEMMA CommitKeepsState ==
    ASSUME StateInv, Commit
    PROVE  StateInv'
  <1>1. PICK pad \in Pads :
            log' = log \o FlattenSeq(wal_log_commit(lsn, current_tx_id, pad))
    BY DEF Commit
  <1>2. log' \in Seq(Bytes) /\ lsn' \in 0 .. 255 /\ HeaderSize * lsn' <= Len(log')
    <2>1. LOG_RECORD_TYPE_COMMIT \in 0 .. 4 /\ current_tx_id \in Bytes
      BY TypesOfRecords, StateParts
    <2>2. log' = log \o FlattenSeq(<< LogRecordHeader(lsn, LOG_RECORD_TYPE_COMMIT,
                                                     current_tx_id, 0, pad) >>)
      BY <1>1 DEF wal_log_commit
    <2>3. lsn' = lsn + 1 /\ LogHasRoom
      BY DEF Commit
    <2>4. QED
      BY <2>1, <2>2, <2>3, ShortRecordKeepsState
  <1>3. /\ up' \in BOOLEAN /\ locked' = FALSE
        /\ current_tx_id' \in 0 .. MaxTx /\ leaf' \in AnyNode
        /\ catalog' \in CatalogPages /\ session' \in 1 .. Sessions + 1
        /\ begun' \in Nat /\ history' = history /\ begun' = begun
        /\ scanned' \subseteq AnyCall
        /\ \A i \in DOMAIN history' : history'[i].tx \in 1 .. begun'
    BY DEF Commit, StateInv, TypeOK
  <1>4. committed' \subseteq 1 .. begun'
    <2>1. begun \in Nat /\ begun # 0 /\ committed \subseteq 1 .. begun
      BY DEF Commit, StateInv, TypeOK
    <2>2. committed' = committed \cup {begun} /\ begun' = begun
      BY DEF Commit
    <2>3. QED
      BY <2>1, <2>2
  <1>5. TypeOK'
    BY <1>2, <1>3, <1>4, Zenon DEF TypeOK
  <1>6. QED
    BY <1>2, <1>3, <1>5 DEF StateInv

LEMMA RowStatementKeepsState ==
    ASSUME StateInv, NEW id \in RowIds
    PROVE  /\ \A value \in Texts : Insert(id, value) => StateInv'
           /\ \A value \in UpdateTexts : Update(id, value) => StateInv'
           /\ Delete(id) => StateInv'
  <1>1. /\ id \in Int /\ id \in Int32 /\ leaf \in AnyNode
        /\ lsn \in Bytes /\ current_tx_id \in Bytes /\ Pads \subseteq Bytes
    BY StateParts, Bounds
  <1>2. ASSUME NEW value \in Texts, Insert(id, value)
        PROVE  StateInv'
    <2>1. PICK pad \in Pads :
              Statement(wal_log_insert(lsn, current_tx_id, id, value, pad),
                        btree_insert(leaf, id, value),
                        Redo(LOG_RECORD_TYPE_INSERT, id, value))
      BY <1>2 DEF Insert
    <2>2. btree_insert(leaf, id, value) \in AnyNode
      BY <1>1, Bounds, OperationsKeepShape
    <2>3. Redo(LOG_RECORD_TYPE_INSERT, id, value) \in Seq(AnyCall)
      BY RedoIsOfCalls
    <2> DEFINE hd == LogRecordHeader(lsn, LOG_RECORD_TYPE_INSERT, current_tx_id,
                                     Len(TextBytes(value)), pad)
    <2>4. WritesRecord(wal_log_insert(lsn, current_tx_id, id, value, pad), hd)
      BY <1>1, TypesOfRecords, RowRecordIsWritten DEF wal_log_insert
    <2>5. locked /\ LogHasRoom
      BY <1>2 DEF Insert
    <2> HIDE DEF hd
    <2>6. QED
      BY <2>1, <2>2, <2>3, <2>4, <2>5, StatementKeepsState
  <1>3. ASSUME NEW value \in UpdateTexts, Update(id, value)
        PROVE  StateInv'
    <2>1. PICK pad \in Pads :
              Statement(wal_log_update(lsn, current_tx_id, id, value, pad),
                        btree_insert(leaf, id, value),
                        Redo(LOG_RECORD_TYPE_UPDATE, id, value))
      BY <1>3 DEF Update
    <2>2. value \in Texts /\ btree_insert(leaf, id, value) \in AnyNode
      BY <1>1, Bounds, OperationsKeepShape
    <2>3. Redo(LOG_RECORD_TYPE_UPDATE, id, value) \in Seq(AnyCall)
      BY <2>2, RedoIsOfCalls
    <2> DEFINE hd == LogRecordHeader(lsn, LOG_RECORD_TYPE_UPDATE, current_tx_id,
                                     Len(TextBytes(value)), pad)
    <2>4. WritesRecord(wal_log_update(lsn, current_tx_id, id, value, pad), hd)
      BY <1>1, <2>2, TypesOfRecords, RowRecordIsWritten DEF wal_log_update
    <2>5. locked /\ LogHasRoom
      BY <1>3 DEF Update
    <2> HIDE DEF hd
    <2>6. QED
      BY <2>1, <2>2, <2>3, <2>4, <2>5, StatementKeepsState
  <1>4. ASSUME Delete(id)
        PROVE  StateInv'
    <2>1. PICK pad \in Pads :
              Statement(wal_log_delete(lsn, current_tx_id, id, pad),
                        btree_delete(leaf, id),
                        Redo(LOG_RECORD_TYPE_DELETE, id, Blank))
      BY <1>4 DEF Delete
    <2>2. btree_delete(leaf, id) \in AnyNode
      BY <1>1, Bounds, OperationsKeepShape
    <2>3. Redo(LOG_RECORD_TYPE_DELETE, id, Blank) \in Seq(AnyCall)
      <3>1. DeleteCall(id) \in AnyCall
        BY <1>1, Bounds DEF DeleteCall, AnyCall
      <3>2. Redo(LOG_RECORD_TYPE_DELETE, id, Blank) = << DeleteCall(id) >>
        BY DEF Redo, LOG_RECORD_TYPE_INSERT, LOG_RECORD_TYPE_DELETE, LOG_RECORD_TYPE_UPDATE
      <3>3. QED
        BY <3>1, <3>2
    <2> DEFINE hd == LogRecordHeader(lsn, LOG_RECORD_TYPE_DELETE, current_tx_id,
                                     0, pad)
    <2>4. WritesRecord(wal_log_delete(lsn, current_tx_id, id, pad), hd)
      BY <1>1, DeleteRecordIsWritten
    <2>5. locked /\ LogHasRoom
      BY <1>4 DEF Delete
    <2> HIDE DEF hd
    <2>6. QED
      BY <2>1, <2>2, <2>3, <2>4, <2>5, StatementKeepsState
  <1>5. QED
    BY <1>2, <1>3, <1>4

\* What ROLLBACK finds in the database file is the calls of one record at most.
LEMMA RollbackMakesCalls ==
    ASSUME StateInv
    PROVE  LET calls == wal_apply_committed_transactions
           IN  /\ calls \in Seq(AnyCall)
               /\ \E key \in Int, value \in Contents :
                     calls \in {<< >>, << InsertCall(key, value) >>,
                                << DeleteCall(key) >>,
                                << DeleteCall(key), InsertCall(key, value) >>}
  <1> DEFINE calls  == wal_apply_committed_transactions
             file   == FileOf(catalog, <<leaf>>)
             found  == RecordsAhead(file, 0, Unread, current_tx_id)
             pos    == Min(found)
             header == HeaderAt(file, 0, Unread, pos)
  <1>1. file \in Seq(Bytes)
    <2> DEFINE leaves == <<leaf>>
    <2>1. leaves \in [1 .. 1 -> LeafOver(Int, Contents)] /\ Len(leaves) = 1
      BY StateParts, LeavesOver
    <2>2. catalog \in CatalogPages
      BY StateParts
    <2> HIDE DEF leaves
    <2>3. FileOf(catalog, leaves) \in Seq(Bytes)
      BY <2>1, <2>2, FileBytes
    <2>4. QED
      BY <2>3 DEF leaves
  <1>2. calls = IF found = {} THEN << >>
                ELSE CallsOf(file, header, pos + HeaderSize, current_tx_id)
    BY DEF wal_apply_committed_transactions
  <1> HIDE DEF file, header, calls
  <1>3. CASE found = {}
    <2>1. 0 \in Int /\ Empty \in Contents /\ << >> \in Seq(AnyCall)
      BY LeavesOver
    <2>2. QED
      BY <1>2, <1>3, <2>1 DEF calls
  <1>4. CASE found # {}
    <2>1. Unread \in Headers
      BY StartIsState DEF LoopStart, LoopState
    <2>2. found \subseteq RoundsFrom(file, 0)
      BY DEF RecordsAhead
    <2>3. found \subseteq Nat
      BY <1>1, <2>1, <2>2, RoundsAre
    <2> HIDE DEF found
    <2>4. pos \in found
      BY <1>4, <2>3, MinOfNats
    <2> HIDE DEF pos
    <2>5. pos \in Nat /\ pos + HeaderSize \in Nat
      BY <2>3, <2>4 DEF HeaderSize
    <2>6. QED
      BY <1>1, <1>2, <1>4, <2>5, CallsOfAre DEF calls
  <1>5. QED
    BY <1>3, <1>4

\* The log and its counter as they were, or the counter reset.
LEMMA LogKept ==
    ASSUME StateInv, log' = log, lsn' = lsn \/ lsn' = 0
    PROVE  /\ log' \in Seq(Bytes) /\ lsn' \in 0 .. 255
           /\ HeaderSize * lsn' <= Len(log')
  <1>1. log \in Seq(Bytes) /\ lsn \in Bytes /\ Len(log) \in Nat
        /\ HeaderSize * lsn <= Len(log)
    BY StateParts DEF StateInv
  <1>2. HeaderSize * 0 = 0 /\ 0 \in Bytes
    BY ByteIs DEF HeaderSize
  <1>3. lsn' \in Bytes /\ HeaderSize * lsn' <= Len(log')
    BY <1>1, <1>2
  <1>4. QED
    BY <1>1, <1>3, Zenon DEF Bytes

\* The actions that write nothing to the log.
LEMMA OtherActionsKeepState ==
    ASSUME StateInv, Rollback \/ Close \/ Open \/ UNCHANGED vars
    PROVE  StateInv'
  <1>1. /\ log' \in Seq(Bytes) /\ lsn' \in 0 .. 255
        /\ HeaderSize * lsn' <= Len(log')
    <2>1. log' = log /\ (lsn' = lsn \/ lsn' = 0)
      BY DEF Rollback, Close, Open, vars, Forget
    <2>2. QED
      BY <2>1, LogKept
  <1>2. /\ catalog' \in CatalogPages /\ begun' \in Nat /\ begun' = begun
        /\ committed' \subseteq 1 .. begun' /\ history' = history
        /\ \A i \in DOMAIN history' : history'[i].tx \in 1 .. begun'
    BY DEF StateInv, TypeOK, Rollback, Close, Open, vars, ghosts
  <1>3. leaf' \in AnyNode
    <2>1. leaf \in AnyNode
      BY StateParts
    <2>2. CASE Rollback
      BY <2>1, <2>2, RollbackMakesCalls, CallsKeepShape DEF Rollback
    <2>3. CASE Open
      <3> DEFINE calls == wal_recover(log)
      <3>1. calls \in Seq(AnyCall)
        BY StateParts, RecoveryMakesCalls
      <3>2. PICK done \in 0 .. Len(calls) : leaf' = Calls(leaf, SubSeq(calls, 1, done))
        BY <2>3 DEF Open
      <3> HIDE DEF calls
      <3>3. SubSeq(calls, 1, done) \in Seq(AnyCall)
        BY <3>1
      <3>4. QED
        BY <2>1, <3>2, <3>3, CallsKeepShape
    <2>4. CASE Close \/ UNCHANGED vars
      BY <2>1, <2>4 DEF Close, vars
    <2>5. QED
      BY <2>2, <2>3, <2>4
  <1>4. /\ up' \in BOOLEAN /\ locked' \in BOOLEAN /\ current_tx_id' \in 0 .. MaxTx
        /\ locked' => current_tx_id' # 0 /\ begun' # 0
    <2>1. /\ up \in BOOLEAN /\ locked \in BOOLEAN /\ current_tx_id \in 0 .. MaxTx
          /\ locked => current_tx_id # 0 /\ begun # 0
          /\ 0 \in 0 .. MaxTx
      BY Bounds DEF StateInv, TypeOK
    <2>2. CASE Rollback
      BY <2>1, <2>2 DEF Rollback, ghosts
    <2>3. CASE Close
      BY <2>1, <2>3 DEF Close, Forget
    <2>4. CASE Open
      BY <2>1, <2>4 DEF Open, ghosts
    <2>5. CASE UNCHANGED vars
      BY <2>1, <2>5 DEF vars, ghosts
    <2>6. QED
      BY <2>2, <2>3, <2>4, <2>5
  <1>5. session' \in 1 .. Sessions + 1
    <2>1. session \in 1 .. Sessions + 1 /\ Sessions \in Nat
      BY Bounds DEF StateInv, TypeOK
    <2>2. \/ session' = session
          \/ session <= Sessions /\ session' = session + 1
      BY DEF Rollback, Close, Open, vars, ghosts
    <2>3. QED
      BY <2>1, <2>2
  <1>6. scanned' \subseteq AnyCall
    <2>1. scanned \subseteq AnyCall
      BY StateParts
    <2>2. CASE Rollback
      <3> DEFINE calls == wal_apply_committed_transactions
      <3>1. calls \in Seq(AnyCall)
        BY RollbackMakesCalls
      <3>2. scanned' = scanned \cup Range(calls)
        BY <2>2 DEF Rollback
      <3> HIDE DEF calls
      <3>3. Range(calls) \subseteq AnyCall
        BY <3>1 DEF Range
      <3>4. QED
        BY <2>1, <3>2, <3>3
    <2>3. CASE Close \/ Open \/ UNCHANGED vars
      BY <2>1, <2>3 DEF Close, Open, vars, ghosts
    <2>4. QED
      BY <2>2, <2>3
  <1>7. TypeOK'
    BY <1>1, <1>2, <1>3, <1>4, <1>5, <1>6, Zenon DEF TypeOK
  <1>8. history' \in Seq(Logged)
    BY <1>2 DEF StateInv
  <1>9. QED
    BY <1>1, <1>4, <1>7, <1>8, Zenon DEF StateInv

\* Every step keeps it.
LEMMA StepState ==
    ASSUME StateInv, [Next]_vars
    PROVE  StateInv'
  <1>1. CASE Begin
    BY <1>1, BeginKeepsState
  <1>2. CASE \E id \in RowIds : \/ \E value \in InsertTexts : Insert(id, value)
                                \/ \E value \in UpdateTexts : Update(id, value)
                                \/ Delete(id)
    BY <1>2, RowStatementKeepsState DEF InsertTexts
  <1>3. CASE Commit
    BY <1>3, CommitKeepsState
  <1>4. CASE Rollback \/ Close \/ Open \/ UNCHANGED vars
    BY <1>4, OtherActionsKeepState
  <1>5. QED
    BY <1>1, <1>2, <1>3, <1>4 DEF Next

LEMMA StateAlways == Spec => []StateInv
  <1>1. Init => StateInv
    BY InitState
  <1>2. StateInv /\ [Next]_vars => StateInv'
    BY StepState
  <1>3. QED
    BY <1>1, <1>2, PTL DEF Spec

\* The variables keep their types, whatever the catalog's unset bytes are read
\* as and whatever recovery makes of records it is out of step with: the leaf
\* stays a leaf, and no transaction is recorded as committed that never began.
THEOREM DatabaseTypes == Spec => []TypeOK
  <1>1. StateInv => TypeOK
    BY DEF StateInv
  <1>2. QED
    BY <1>1, StateAlways, PTL

-----------------------------------------------------------------------------
(* Recovery.                                                                *)

\* What keeps the readers of the log in step: one session, since the ids start
\* over in the next one, and no UPDATE whose key and contents, skipped as headers,
\* do not end where a header ends.
InStep ==
    /\ Sessions = 1
    /\ \A v \in UpdateTexts :
          \E m \in Nat : KeySize + Len(TextBytes(v)) = m * HeaderSize

\* The calls of the logged statements of some transactions.
Selected(h, I) ==
    FlattenSeq([i \in DOMAIN h |-> IF h[i].tx \in I THEN h[i].redo ELSE << >>])

\* One more statement is one more selected statement, or none.
LEMMA SelectedAppend ==
    ASSUME NEW h \in Seq(Logged), NEW x \in Logged, NEW I
    PROVE  /\ Selected(h, I) \in Seq(AnyCall)
           /\ Selected(Append(h, x), I) =
                  IF x.tx \in I THEN Selected(h, I) \o x.redo ELSE Selected(h, I)
  <1> DEFINE part(r) == IF r.tx \in I THEN r.redo ELSE << >>
             parts   == [i \in DOMAIN h |-> part(h[i])]
             all     == Append(h, x)
  <1>1. \A r \in Logged : part(r) \in Seq(AnyCall)
    BY DEF Logged
  <1>2. /\ DOMAIN h = 1 .. Len(h) /\ Len(h) \in Nat
        /\ \A i \in 1 .. Len(h) : h[i] \in Logged
    OBVIOUS
  <1>3. /\ all \in Seq(Logged) /\ Len(all) = Len(h) + 1
        /\ DOMAIN all = 1 .. Len(h) + 1
        /\ all[Len(h) + 1] = x /\ \A i \in 1 .. Len(h) : all[i] = h[i]
    BY AppendProperties
  <1> HIDE DEF part, all
  <1>4. parts \in Seq(Seq(AnyCall)) /\ Len(parts) = Len(h)
        /\ \A i \in 1 .. Len(h) : parts[i] = part(h[i])
    <2>1. parts \in [1 .. Len(h) -> Seq(AnyCall)]
      BY <1>1, <1>2
    <2>2. QED
      BY <1>2, <2>1
  <1> HIDE DEF parts
  <1>5. [i \in DOMAIN all |-> part(all[i])] = Append(parts, part(x))
    <2> DEFINE left  == [i \in DOMAIN all |-> part(all[i])]
               right == Append(parts, part(x))
               m     == Len(h) + 1
    <2>1. part(x) \in Seq(AnyCall) /\ m \in Nat
      BY <1>1, <1>2
    <2>2. /\ right \in Seq(Seq(AnyCall)) /\ Len(right) = m
          /\ right[m] = part(x)
          /\ \A i \in 1 .. Len(h) : right[i] = part(h[i])
      BY <1>4, <2>1, AppendProperties
    <2> HIDE DEF right
    <2>3. right \in [1 .. m -> Seq(AnyCall)]
      BY <2>1, <2>2
    <2>4. \A i \in 1 .. m : part(all[i]) = right[i]
      BY <1>2, <1>3, <2>2
    <2>5. left = [i \in 1 .. m |-> right[i]]
      BY <1>3, <2>4
    <2> HIDE DEF left
    <2>6. left = right
      BY <2>3, <2>5
    <2>7. QED
      BY <2>6 DEF left, right
  <1>6. /\ FlattenSeq(parts) \in Seq(AnyCall)
        /\ FlattenSeq(Append(parts, part(x))) = FlattenSeq(parts) \o part(x)
    BY <1>1, <1>4, FlattenAppend
  <1>7. Selected(h, I) = FlattenSeq(parts)
    BY DEF Selected, parts, part
  <1>8. Selected(all, I) = FlattenSeq(parts) \o part(x)
    BY <1>5, <1>6 DEF Selected, part
  <1>9. FlattenSeq(parts) \o << >> = FlattenSeq(parts)
    BY <1>6, ConcatEmptySeq
  <1>10. QED
    BY <1>6, <1>7, <1>8, <1>9 DEF part, all

LEMMA SelectedEmpty ==
    ASSUME NEW I
    PROVE  Selected(<< >>, I) = << >>
  <1>1. [i \in DOMAIN << >> |->
            IF << >>[i].tx \in I THEN << >>[i].redo ELSE << >>] = << >>
    OBVIOUS
  <1>2. QED
    BY <1>1, FlattenEmpty DEF Selected

\* Whichever transactions a reader looks for, it ends in step, has found those
\* that were committed, and has made the calls of those it looked for.
AllRead(l, ids, h) ==
    \A I \in SUBSET (1 .. MaxTx) : AtEnd(l, I, ids, Selected(h, I))

\* Then a recovery makes the calls of the transactions it finds committed.
LEMMA ReplayOf ==
    ASSUME NEW l \in Seq(Bytes), NEW ids \in SUBSET (1 .. MaxTx), NEW h,
           AllRead(l, ids, h)
    PROVE  wal_recover(l) = Selected(h, ids)
  <1>1. /\ AtEnd(l, {}, ids, Selected(h, {}))
        /\ AtEnd(l, ids, ids, Selected(h, ids))
    BY DEF AllRead
  <1>2. /\ Ended(l, {}, ids, Selected(h, {}))
        /\ Ended(l, ids, ids, Selected(h, ids))
    BY <1>1, AtEndIsEnded
  <1>3. QED
    BY <1>2, RecoveryOf

ReplayInv ==
    /\ locked => up /\ session = 1 /\ begun \notin committed
    /\ up /\ session = 1 => begun = current_tx_id /\ AllRead(log, committed, history)
    /\ committed \subseteq 1 .. MaxTx
    /\ ReplaysCommitted

\* The calls that redo what was committed are selected so.
LEMMA CommittedIsSelected == CommittedCalls = Selected(history, committed)
  BY DEF CommittedCalls, Selected

LEMMA CommittedIsSelectedNext == CommittedCalls' = Selected(history', committed')
  BY DEF CommittedCalls, Selected

\* It holds initially.
LEMMA InitReplay ==
    ASSUME Init
    PROVE  ReplayInv
  <1>1. AllRead(<< >>, {}, << >>)
    BY EmptyLogIsRead, SelectedEmpty DEF AllRead
  <1>2. ReplaysCommitted
    <2>1. wal_recover(<< >>) = Selected(<< >>, {})
      <3>1. << >> \in Seq(Bytes) /\ {} \in SUBSET (1 .. MaxTx)
        OBVIOUS
      <3>2. QED
        BY <1>1, <3>1, ReplayOf
    <2>2. QED
      BY <2>1, CommittedIsSelected DEF Init, ReplaysCommitted
  <1>3. QED
    BY <1>1, <1>2 DEF Init, ReplayInv

\* A statement whose record is read as it was written, or skipped.
RecordIsRead(record, redo) ==
    \A I \in SUBSET (1 .. MaxTx) :
        AtEnd(log \o FlattenSeq(record), I, committed,
              IF current_tx_id \in I THEN Selected(history, I) \o redo
                                     ELSE Selected(history, I))

\* A statement keeps it, wherever the program dies in it.
LEMMA StatementKeepsReplay ==
    ASSUME StateInv, StateInv', ReplayInv, locked,
           NEW record, NEW hd, WritesRecord(record, hd),
           NEW type \in {LOG_RECORD_TYPE_INSERT, LOG_RECORD_TYPE_UPDATE,
                         LOG_RECORD_TYPE_DELETE},
           NEW len \in Nat, IsHeader(hd, type, current_tx_id, len),
           NEW page, NEW redo \in Seq(AnyCall), RecordIsRead(record, redo),
           Statement(record, page, redo)
    PROVE  ReplayInv'
  <1>1. StatementParts(record, page, redo)
    BY StatementIs
  <1>2. /\ up /\ session = 1 /\ begun \notin committed /\ begun = current_tx_id
        /\ committed \subseteq 1 .. MaxTx
        /\ AllRead(log, committed, history)
    BY DEF ReplayInv
  <1>3. /\ session' = session /\ begun' = begun /\ committed' = committed
    BY <1>1 DEF StatementParts
  <1>4. /\ log \in Seq(Bytes) /\ history \in Seq(Logged) /\ current_tx_id \in Int
        /\ begun \in Nat
    BY StateParts
  <1>5. log' \in Seq(Bytes)
    BY DEF StateInv, TypeOK
  <1>6. CASE Completed(record, redo)
    <2> DEFINE x == [tx |-> begun, redo |-> redo]
    <2>1. x \in Logged /\ x.tx = begun /\ x.redo = redo
      BY <1>4 DEF Logged
    <2>2. history' = Append(history, x) /\ log' = log \o FlattenSeq(record)
      BY <1>6 DEF Completed
    <2> HIDE DEF x
    <2>3. ASSUME NEW I \in SUBSET (1 .. MaxTx)
          PROVE  AtEnd(log', I, committed, Selected(history', I))
      <3>1. Selected(history', I) = IF current_tx_id \in I
                                    THEN Selected(history, I) \o redo
                                    ELSE Selected(history, I)
        <4>1. Selected(Append(history, x), I) =
                  IF x.tx \in I THEN Selected(history, I) \o x.redo
                                ELSE Selected(history, I)
          BY <1>4, <2>1, SelectedAppend
        <4>2. QED
          BY <1>2, <2>1, <2>2, <4>1
      <3>2. QED
        BY <2>2, <3>1 DEF RecordIsRead
    <2>4. AllRead(log', committed', history')
      BY <1>3, <2>3 DEF AllRead
    <2>5. ReplaysCommitted'
      <3>1. wal_recover(log') = Selected(history', committed')
        BY <1>2, <1>3, <1>5, <2>4, ReplayOf
      <3>2. QED
        BY <3>1, CommittedIsSelectedNext DEF ReplaysCommitted
    <2>6. /\ up' => current_tx_id' = current_tx_id
          /\ locked' => up'
      BY <1>1, <1>2 DEF StatementParts, Forget
    <2>7. QED
      BY <1>2, <1>3, <2>4, <2>5, <2>6 DEF ReplayInv
  <1>7. CASE /\ Forget /\ history' = history
             /\ \E w \in 1 .. Len(record) :
                   /\ w < Len(record)
                   /\ log' = log \o FlattenSeq(SubSeq(record, 1, w))
    <2>1. PICK w \in 1 .. Len(record) :
              w < Len(record) /\ log' = log \o FlattenSeq(SubSeq(record, 1, w))
      BY <1>7
    <2>2. IsRecordStart(FlattenSeq(SubSeq(record, 1, w)), hd)
      BY <2>1, Zenon DEF WritesRecord
    <2>3. PICK rest \in Seq(Bytes) : /\ Len(rest) <= KeySize
                                     /\ FlattenSeq(SubSeq(record, 1, w)) = hd \o rest
      BY <2>2 DEF IsRecordStart
    <2>4. log' = log \o (hd \o rest)
      BY <2>1, <2>3
    <2>5. ASSUME NEW I \in SUBSET (1 .. MaxTx), current_tx_id \notin I
          PROVE  Ended(log', I, committed, Selected(history, I))
      <3>1. AtEnd(log, I, committed, Selected(history, I))
        BY <1>2 DEF AllRead
      <3>2. Ended(log \o (hd \o rest), I, committed, Selected(history, I))
        BY <1>4, <2>3, <2>5, <3>1, TornRecordIsSkipped
      <3>3. QED
        BY <2>4, <3>2
    <2>6. /\ Ended(log', {}, committed, Selected(history, {}))
          /\ Ended(log', committed, committed, Selected(history, committed))
      BY <1>2, <2>5
    <2>7. wal_recover(log') = Selected(history, committed)
      BY <1>5, <2>6, RecoveryOf
    <2>8. ReplaysCommitted'
      BY <1>3, <1>7, <2>7, CommittedIsSelectedNext DEF ReplaysCommitted
    <2>9. QED
      BY <1>2, <1>3, <1>7, <2>8 DEF ReplayInv, Forget
  <1>8. QED
    BY <1>1, <1>6, <1>7 DEF StatementParts

\* The fields a statement writes into its header.
LEMMA FieldsAre ==
    ASSUME StateInv, NEW pad \in Pads, NEW type \in 0 .. 4
    PROVE  /\ Fields(lsn, type, current_tx_id, 0, pad)
           /\ \A v \in Texts :
                 /\ Fields(lsn, type, current_tx_id, Len(TextBytes(v)), pad)
                 /\ Len(TextBytes(v)) \in Nat
  <1>1. lsn \in Bytes /\ current_tx_id \in Bytes /\ pad \in Bytes
    BY StateParts, Bounds
  <1>2. \A v \in Texts : TextBytes(v) \in Seq(Bytes)
    BY StringsAssumption
  <1>3. \A v \in Texts : Len(TextBytes(v)) \in Nat
    BY <1>2
  <1>4. QED
    BY <1>1, <1>3, FieldsOfRecord

\* Each kind of statement writes such a record.
LEMMA InsertKeepsReplay ==
    ASSUME InStep, StateInv, StateInv', ReplayInv,
           NEW id \in RowIds, NEW value \in InsertTexts, Insert(id, value)
    PROVE  ReplayInv'
  <1>1. PICK pad \in Pads :
            Statement(wal_log_insert(lsn, current_tx_id, id, value, pad),
                      btree_insert(leaf, id, value),
                      Redo(LOG_RECORD_TYPE_INSERT, id, value))
    BY DEF Insert
  <1> DEFINE type   == LOG_RECORD_TYPE_INSERT
             record == wal_log_insert(lsn, current_tx_id, id, value, pad)
             redo   == Redo(type, id, value)
             len    == Len(TextBytes(value))
             hd     == LogRecordHeader(lsn, type, current_tx_id, len, pad)
  <1>2. /\ lsn \in Bytes /\ current_tx_id \in Bytes /\ pad \in Bytes /\ id \in Int32
        /\ log \in Seq(Bytes) /\ type \in 0 .. 4 /\ up /\ session = 1 /\ locked
        /\ value \in Texts
    BY StateParts, Bounds, TypesOfRecords DEF ReplayInv, Insert, InsertTexts
  <1>3. Fields(lsn, type, current_tx_id, len, pad) /\ len \in Nat /\ len <= 255
    BY <1>2, FieldsAre DEF InsertTexts
  <1>4. redo \in Seq(AnyCall)
    BY <1>2, RedoIsOfCalls
  <1>5. IsHeader(hd, type, current_tx_id, len) /\ WritesRecord(record, hd)
    BY <1>2, RowRecordIsWritten DEF wal_log_insert
  <1>6. RecordIsRead(record, redo)
    <2>1. ASSUME NEW I \in SUBSET (1 .. MaxTx)
          PROVE  AtEnd(log \o FlattenSeq(record), I, committed,
                       IF current_tx_id \in I THEN Selected(history, I) \o redo
                                              ELSE Selected(history, I))
      <3>1. AtEnd(log, I, committed, Selected(history, I))
        BY <1>2 DEF ReplayInv, AllRead
      <3>2. QED
        BY <1>2, <1>3, <3>1, RowRecordIsRead DEF wal_log_insert
    <2>2. QED
      BY <2>1 DEF RecordIsRead
  <1>7. Statement(record, btree_insert(leaf, id, value), redo)
    BY <1>1
  <1>8. type \in {LOG_RECORD_TYPE_INSERT, LOG_RECORD_TYPE_UPDATE,
                  LOG_RECORD_TYPE_DELETE}
    OBVIOUS
  <1> HIDE DEF type, record, redo, len, hd
  <1>9. QED
    BY <1>2, <1>3, <1>4, <1>5, <1>6, <1>7, <1>8, StatementKeepsReplay

\* The record of an UPDATE is read if its transaction is looked for, and skipped
\* in steps of a header if not.
LEMMA UpdateKeepsReplay ==
    ASSUME InStep, StateInv, StateInv', ReplayInv,
           NEW id \in RowIds, NEW value \in UpdateTexts, Update(id, value)
    PROVE  ReplayInv'
  <1>1. PICK pad \in Pads :
            Statement(wal_log_update(lsn, current_tx_id, id, value, pad),
                      btree_insert(leaf, id, value),
                      Redo(LOG_RECORD_TYPE_UPDATE, id, value))
    BY DEF Update
  <1> DEFINE type   == LOG_RECORD_TYPE_UPDATE
             record == wal_log_update(lsn, current_tx_id, id, value, pad)
             redo   == Redo(type, id, value)
             len    == Len(TextBytes(value))
             hd     == LogRecordHeader(lsn, type, current_tx_id, len, pad)
  <1>2. /\ lsn \in Bytes /\ current_tx_id \in Bytes /\ pad \in Bytes /\ id \in Int32
        /\ log \in Seq(Bytes) /\ type \in 0 .. 4 /\ up /\ session = 1 /\ locked
        /\ value \in Texts /\ 1 .. MaxTx \subseteq Bytes
    BY StateParts, Bounds, TypesOfRecords DEF ReplayInv, Update
  <1>3. Fields(lsn, type, current_tx_id, len, pad) /\ len \in Nat /\ len <= 255
    <2>1. Fields(lsn, type, current_tx_id, len, pad) /\ len \in Nat
      BY <1>2, FieldsAre
    <2>2. PICK m \in Nat : KeySize + len = m * HeaderSize
      BY DEF InStep
    <2>3. len <= 256
      BY <1>2, TextIsShort
    <2> HIDE DEF len
    <2>4. len + 4 = m * 24
      BY <2>1, <2>2 DEF KeySize, HeaderSize
    <2>5. len <= 255
      BY <2>1, <2>3, <2>4
    <2>6. QED
      BY <2>1, <2>5
  <1>4. redo \in Seq(AnyCall)
    BY <1>2, RedoIsOfCalls
  <1>5. IsHeader(hd, type, current_tx_id, len) /\ WritesRecord(record, hd)
    BY <1>2, RowRecordIsWritten DEF wal_log_update
  <1>6. RecordIsRead(record, redo)
    <2>1. PICK m \in Nat : KeySize + len = m * HeaderSize
      BY DEF InStep
    <2>2. ASSUME NEW I \in SUBSET (1 .. MaxTx)
          PROVE  AtEnd(log \o FlattenSeq(record), I, committed,
                       IF current_tx_id \in I THEN Selected(history, I) \o redo
                                              ELSE Selected(history, I))
      <3>1. AtEnd(log, I, committed, Selected(history, I))
        BY <1>2 DEF ReplayInv, AllRead
      <3>2. CASE current_tx_id \in I
        BY <1>2, <1>3, <3>1, <3>2, RowRecordIsRead DEF wal_log_update
      <3>3. CASE current_tx_id \notin I
        <4>1. I \in SUBSET Bytes
          BY <1>2
        <4>2. AtEnd(log \o FlattenSeq(record), I, committed, Selected(history, I))
          BY <1>2, <1>3, <2>1, <3>1, <3>3, <4>1, UpdateIsSkipped
        <4>3. QED
          BY <3>3, <4>2
      <3>4. QED
        BY <3>2, <3>3
    <2>3. QED
      BY <2>2 DEF RecordIsRead
  <1>7. Statement(record, btree_insert(leaf, id, value), redo)
    BY <1>1
  <1>8. type \in {LOG_RECORD_TYPE_INSERT, LOG_RECORD_TYPE_UPDATE,
                  LOG_RECORD_TYPE_DELETE}
    OBVIOUS
  <1> HIDE DEF type, record, redo, len, hd
  <1>9. QED
    BY <1>2, <1>3, <1>4, <1>5, <1>6, <1>7, <1>8, StatementKeepsReplay

LEMMA DeleteKeepsReplay ==
    ASSUME InStep, StateInv, StateInv', ReplayInv,
           NEW id \in RowIds, Delete(id)
    PROVE  ReplayInv'
  <1>1. PICK pad \in Pads :
            Statement(wal_log_delete(lsn, current_tx_id, id, pad),
                      btree_delete(leaf, id),
                      Redo(LOG_RECORD_TYPE_DELETE, id, Blank))
    BY DEF Delete
  <1> DEFINE type   == LOG_RECORD_TYPE_DELETE
             record == wal_log_delete(lsn, current_tx_id, id, pad)
             redo   == Redo(type, id, Blank)
             hd     == LogRecordHeader(lsn, type, current_tx_id, 0, pad)
  <1>2. /\ lsn \in Bytes /\ current_tx_id \in Bytes /\ pad \in Bytes /\ id \in Int32
        /\ log \in Seq(Bytes) /\ type \in 0 .. 4 /\ up /\ session = 1 /\ locked
        /\ 0 \in Nat
    BY StateParts, Bounds, TypesOfRecords DEF ReplayInv, Delete
  <1>3. Fields(lsn, type, current_tx_id, 0, pad)
    BY <1>2, FieldsAre
  <1>4. redo \in Seq(AnyCall)
    <2>1. DeleteCall(id) \in AnyCall
      BY Bounds DEF DeleteCall, AnyCall
    <2>2. Redo(LOG_RECORD_TYPE_DELETE, id, Blank) = << DeleteCall(id) >>
      BY DEF Redo, LOG_RECORD_TYPE_INSERT, LOG_RECORD_TYPE_DELETE, LOG_RECORD_TYPE_UPDATE
    <2>3. QED
      BY <2>1, <2>2
  <1>5. IsHeader(hd, type, current_tx_id, 0) /\ WritesRecord(record, hd)
    BY <1>2, DeleteRecordIsWritten
  <1>6. RecordIsRead(record, redo)
    <2>1. ASSUME NEW I \in SUBSET (1 .. MaxTx)
          PROVE  AtEnd(log \o FlattenSeq(record), I, committed,
                       IF current_tx_id \in I THEN Selected(history, I) \o redo
                                              ELSE Selected(history, I))
      <3>1. AtEnd(log, I, committed, Selected(history, I))
        BY <1>2 DEF ReplayInv, AllRead
      <3>2. QED
        BY <1>2, <1>3, <3>1, DeleteRecordIsRead
    <2>2. QED
      BY <2>1 DEF RecordIsRead
  <1>7. Statement(record, btree_delete(leaf, id), redo)
    BY <1>1
  <1>8. type \in {LOG_RECORD_TYPE_INSERT, LOG_RECORD_TYPE_UPDATE,
                  LOG_RECORD_TYPE_DELETE}
    OBVIOUS
  <1> HIDE DEF type, record, redo, hd
  <1>9. QED
    BY <1>2, <1>4, <1>5, <1>6, <1>7, <1>8, StatementKeepsReplay

\* A record without a body, written for BEGIN or COMMIT.
LEMMA ShortRecordKeepsReplay ==
    ASSUME StateInv, AllRead(log, committed, history),
           NEW pad \in Pads, NEW tx_id \in 1 .. MaxTx,
           NEW type, type = LOG_RECORD_TYPE_COMMIT \/ type = LOG_RECORD_TYPE_BEGIN,
           log' = log \o FlattenSeq(<< LogRecordHeader(lsn, type, tx_id, 0, pad) >>)
    PROVE  /\ type = LOG_RECORD_TYPE_COMMIT =>
                  AllRead(log', committed \cup {tx_id}, history)
           /\ type = LOG_RECORD_TYPE_BEGIN => AllRead(log', committed, history)
  <1>1. lsn \in Bytes /\ tx_id \in Bytes /\ pad \in Bytes /\ log \in Seq(Bytes)
    BY StateParts, Bounds
  <1>2. Fields(lsn, type, tx_id, 0, pad)
    BY <1>1, TypesOfRecords, FieldsOfRecord
  <1> DEFINE ids == IF type = LOG_RECORD_TYPE_COMMIT
                    THEN committed \cup {tx_id} ELSE committed
  <1>3. ASSUME NEW I \in SUBSET (1 .. MaxTx)
        PROVE  AtEnd(log', I, ids, Selected(history, I))
    <2>1. AtEnd(log, I, committed, Selected(history, I))
      BY DEF AllRead
    <2>2. QED
      BY <1>1, <1>2, <2>1, ShortRecordIsRead
  <1>4. AllRead(log', ids, history)
    BY <1>3 DEF AllRead
  <1>5. LOG_RECORD_TYPE_BEGIN # LOG_RECORD_TYPE_COMMIT
    BY DEF LOG_RECORD_TYPE_BEGIN, LOG_RECORD_TYPE_COMMIT
  <1>6. QED
    BY <1>4, <1>5

LEMMA BeginKeepsReplay ==
    ASSUME InStep, StateInv, StateInv', ReplayInv, Begin
    PROVE  ReplayInv'
  <1>1. PICK pad \in Pads :
            log' = log \o FlattenSeq(wal_log_begin(lsn, current_tx_id + 1, pad))
    BY DEF Begin
  <1>2. /\ up /\ up' /\ session = 1 /\ session' = 1
        /\ current_tx_id + 1 \in 1 .. MaxTx
        /\ current_tx_id' = current_tx_id + 1 /\ begun' = begun + 1
        /\ committed' = committed /\ history' = history
        /\ committed \subseteq 1 .. begun /\ begun \in Nat
    <2>1. session \in 1 .. Sessions + 1 /\ session <= Sessions /\ Sessions = 1
      BY DEF StateInv, TypeOK, Begin, InStep
    <2>2. session = 1
      BY <2>1
    <2>3. current_tx_id + 1 \in 1 .. MaxTx
      BY StateParts, Bounds DEF Begin
    <2>4. QED
      BY <2>2, <2>3, StateParts DEF Begin
  <1>3. begun = current_tx_id /\ AllRead(log, committed, history)
        /\ committed \subseteq 1 .. MaxTx
    BY <1>2 DEF ReplayInv
  <1>4. AllRead(log', committed', history')
    <2>1. log' = log \o FlattenSeq(<< LogRecordHeader(lsn, LOG_RECORD_TYPE_BEGIN,
                                                     current_tx_id + 1, 0, pad) >>)
      BY <1>1 DEF wal_log_begin
    <2>2. AllRead(log', committed, history)
      BY <1>2, <1>3, <2>1, ShortRecordKeepsReplay
    <2>3. QED
      BY <1>2, <2>2
  <1>5. begun' \notin committed'
    BY <1>2
  <1>6. ReplaysCommitted'
    <2>1. log' \in Seq(Bytes)
      BY DEF StateInv, TypeOK
    <2>2. committed' \in SUBSET (1 .. MaxTx)
      BY <1>2, <1>3
    <2>3. wal_recover(log') = Selected(history', committed')
      BY <1>4, <2>1, <2>2, ReplayOf
    <2>4. QED
      BY <2>3, CommittedIsSelectedNext DEF ReplaysCommitted
  <1>7. QED
    BY <1>2, <1>3, <1>4, <1>5, <1>6 DEF ReplayInv

\* The transaction is found committed from its COMMIT on, and not before.
LEMMA CommitKeepsReplay ==
    ASSUME InStep, StateInv, StateInv', ReplayInv, Commit
    PROVE  ReplayInv'
  <1>1. PICK pad \in Pads :
            log' = log \o FlattenSeq(wal_log_commit(lsn, current_tx_id, pad))
    BY DEF Commit
  <1>2. /\ up /\ session = 1 /\ begun = current_tx_id
        /\ AllRead(log, committed, history)
        /\ committed \subseteq 1 .. MaxTx
        /\ locked' = FALSE /\ up' = up /\ session' = session /\ begun' = begun
        /\ current_tx_id' = current_tx_id /\ history' = history
        /\ committed' = committed \cup {begun}
    BY DEF ReplayInv, Commit
  <1>3. current_tx_id \in 1 .. MaxTx
    <2>1. current_tx_id # 0
      BY DEF StateInv, Commit
    <2>2. QED
      BY <2>1, StateParts, Bounds
  <1>4. AllRead(log', committed', history')
    <2>1. log' = log \o FlattenSeq(<< LogRecordHeader(lsn, LOG_RECORD_TYPE_COMMIT,
                                                     current_tx_id, 0, pad) >>)
      BY <1>1 DEF wal_log_commit
    <2>2. QED
      BY <1>2, <1>3, <2>1, ShortRecordKeepsReplay
  <1>5. committed' \in SUBSET (1 .. MaxTx)
    BY <1>2, <1>3
  <1>6. ReplaysCommitted'
    <2>1. log' \in Seq(Bytes)
      BY DEF StateInv, TypeOK
    <2>2. wal_recover(log') = Selected(history', committed')
      BY <1>4, <1>5, <2>1, ReplayOf
    <2>3. QED
      BY <2>2, CommittedIsSelectedNext DEF ReplaysCommitted
  <1>7. QED
    BY <1>2, <1>4, <1>5, <1>6 DEF ReplayInv

\* The actions that write nothing to the log.
LEMMA OtherActionsKeepReplay ==
    ASSUME InStep, StateInv, ReplayInv, Rollback \/ Close \/ Open \/ UNCHANGED vars
    PROVE  ReplayInv'
  <1>1. /\ log' = log /\ history' = history /\ committed' = committed
        /\ begun' = begun
    BY DEF Rollback, Close, Open, vars, ghosts
  <1>2. ReplaysCommitted'
    <2>1. wal_recover(log) = Selected(history, committed)
      BY CommittedIsSelected DEF ReplayInv, ReplaysCommitted
    <2>2. QED
      BY <1>1, <2>1, CommittedIsSelectedNext DEF ReplaysCommitted
  <1>3. CASE Rollback \/ UNCHANGED vars
    BY <1>1, <1>2, <1>3 DEF Rollback, vars, ghosts, ReplayInv
  <1>4. CASE Close
    BY <1>1, <1>2, <1>4 DEF Close, Forget, ReplayInv
  <1>5. CASE Open
    <2>1. /\ ~ up /\ locked' = locked /\ ~ locked
      BY <1>5 DEF Open, ReplayInv
    <2>2. up' => session' # 1
      <3>1. session \in 1 .. 2 /\ Sessions = 1
        BY DEF StateInv, TypeOK, InStep
      <3>2. up' => session' = IF session <= Sessions THEN session + 1 ELSE session
        BY <1>5 DEF Open
      <3>3. QED
        BY <3>1, <3>2
    <2>3. QED
      BY <1>1, <1>2, <2>1, <2>2 DEF ReplayInv
  <1>6. QED
    BY <1>3, <1>4, <1>5

\* Every step keeps it.
LEMMA StepReplay ==
    ASSUME InStep, StateInv, ReplayInv, [Next]_vars
    PROVE  ReplayInv'
  <1>1. StateInv'
    BY StepState
  <1>2. CASE Begin
    BY <1>1, <1>2, BeginKeepsReplay
  <1>3. CASE \E id \in RowIds : \/ \E value \in InsertTexts : Insert(id, value)
                                \/ \E value \in UpdateTexts : Update(id, value)
                                \/ Delete(id)
    BY <1>1, <1>3, InsertKeepsReplay, UpdateKeepsReplay, DeleteKeepsReplay
  <1>4. CASE Commit
    BY <1>1, <1>4, CommitKeepsReplay
  <1>5. CASE Rollback \/ Close \/ Open \/ UNCHANGED vars
    BY <1>5, OtherActionsKeepReplay
  <1>6. QED
    BY <1>2, <1>3, <1>4, <1>5 DEF Next

\* A recovery replays what the committed transactions did, all of it, in order
\* and nothing else, wherever the program dies between two writes and inside a
\* record, for every number of rows, transactions and texts that keep the readers
\* in step.  Each hypothesis is one a run shows to be needed: statements of a
\* second session (DatabaseReuse), and an UPDATE that does not end where a header
\* would (DatabaseUpdate).
THEOREM RecoveryReplaysCommitted ==
    ASSUME InStep
    PROVE  Spec => []ReplaysCommitted
  <1>1. Init => StateInv /\ ReplayInv
    BY InitState, InitReplay
  <1>2. StateInv /\ ReplayInv /\ [Next]_vars => StateInv' /\ ReplayInv'
    BY StepState, StepReplay
  <1>3. ReplayInv => ReplaysCommitted
    BY DEF ReplayInv
  <1>4. QED
    BY <1>1, <1>2, <1>3, PTL DEF Spec

-----------------------------------------------------------------------------
(* Write-ahead.                                                             *)

\* The rows in use with contents a statement could have given are from these
\* calls.
RowsAreFrom(n, S) ==
    \A j \in Used(n) :
        n.values[j] \in Texts => InsertCall(n.keys[j], n.values[j]) \in S

\* A call that is none of these and inserts no text adds no other row.
LEMMA CallAddsOwnRow ==
    ASSUME NEW n \in AnyNode, NEW S, RowsAreFrom(n, S), NEW c \in AnyCall,
           c.call = "btree_insert" /\ c.value \in Texts => c \in S
    PROVE  RowsAreFrom(Call(n, c), S)
  <1>1. /\ AnyNode = LeafOver(Int, Contents) /\ Int \in SUBSET Int /\ Tombstone \in Int
        /\ Empty \in Contents
        /\ Slots \in Nat
    BY LeavesOver, SlotsAssumption DEF Tombstone
  <1>2. /\ c.call = "btree_insert" \/ c.call = "btree_delete"
        /\ c.key \in Int /\ c.value \in Contents
        /\ c.call = "btree_insert" => c = InsertCall(c.key, c.value)
    BY DEF AnyCall, InsertCall
  <1>3. n.num_keys \in 0 .. Slots /\ n.values \in [1 .. Slots -> Contents]
        /\ n.keys \in [1 .. Slots -> Int] /\ Used(n) \subseteq 1 .. Slots
    BY <1>1, PartsOver
  <1>4. CASE c.call = "btree_insert"
    <2> DEFINE m == btree_insert(n, c.key, c.value)
    <2>1. Call(n, c) = m
      BY <1>4 DEF Call
    <2>2. CASE Present(n, c.key)
      <3> DEFINE p == Min(Matches(n, c.key))
      <3>1. /\ m \in AnyNode
            /\ p \in Used(n) /\ n.keys[p] = c.key
            /\ m.num_keys = n.num_keys /\ m.keys = n.keys
            /\ m.values = [n.values EXCEPT ![p] = c.value]
        BY <1>2, <2>2, ReplacedInAny
      <3> HIDE DEF p, m
      <3>2. Used(m) = Used(n)
        BY <3>1 DEF Used
      <3>3. ASSUME NEW j \in Used(m), m.values[j] \in Texts
            PROVE  InsertCall(m.keys[j], m.values[j]) \in S
        <4>1. CASE j = p
          <5>1. m.values[j] = c.value /\ m.keys[j] = c.key
            BY <1>3, <3>1, <3>2, <4>1
          <5>2. QED
            BY <1>2, <1>4, <3>3, <5>1
        <4>2. CASE j # p
          <5>1. m.values[j] = n.values[j] /\ m.keys[j] = n.keys[j]
            BY <1>3, <3>1, <3>2, <4>2
          <5>2. QED
            BY <3>2, <3>3, <5>1 DEF RowsAreFrom
        <4>3. QED
          BY <4>1, <4>2
      <3>4. QED
        BY <2>1, <3>3 DEF RowsAreFrom
    <2>3. CASE ~ Present(n, c.key) /\ ~ LeafFull(n)
      <3> DEFINE p == InsertPosition(n, c.key)
      <3>1. /\ m.num_keys = n.num_keys + 1 /\ p \in Used(m)
            /\ m.keys[p] = c.key /\ m.values[p] = c.value
            /\ \A j \in Used(n) : j < p =>
                   m.keys[j] = n.keys[j] /\ m.values[j] = n.values[j]
            /\ \A j \in Used(m) : p < j =>
                   m.keys[j] = n.keys[j - 1] /\ m.values[j] = n.values[j - 1]
        BY <1>1, <1>2, <2>3, InsertNewOver
      <3> HIDE DEF p, m
      <3>2. /\ \A j \in Used(m) : j < p => j \in Used(n)
            /\ \A j \in Used(m) : p < j => j - 1 \in Used(n)
            /\ \A j \in Used(m) : j < p \/ j = p \/ p < j
        BY <1>3, <3>1 DEF Used
      <3>3. ASSUME NEW j \in Used(m), m.values[j] \in Texts
            PROVE  InsertCall(m.keys[j], m.values[j]) \in S
        <4>1. CASE j = p
          BY <1>2, <1>4, <3>1, <3>3, <4>1
        <4>2. CASE j < p
          BY <3>1, <3>2, <3>3, <4>2 DEF RowsAreFrom
        <4>3. CASE p < j
          BY <3>1, <3>2, <3>3, <4>3 DEF RowsAreFrom
        <4>4. QED
          BY <3>2, <4>1, <4>2, <4>3
      <3>4. QED
        BY <2>1, <3>3 DEF RowsAreFrom
    <2>4. CASE ~ Present(n, c.key) /\ LeafFull(n)
      BY <2>1, <2>4 DEF btree_insert
    <2>5. QED
      BY <2>2, <2>3, <2>4
  <1>5. CASE c.call = "btree_delete"
    <2> DEFINE m == btree_delete(n, c.key)
    <2>1. Call(n, c) = m
      BY <1>5 DEF Call
    <2>2. CASE Present(n, c.key)
      <3> DEFINE p == Min(Matches(n, c.key))
      <3>1. /\ m \in AnyNode /\ p \in Used(n) /\ n.keys[p] = c.key
            /\ Used(m) = Used(n) \ {n.num_keys}
            /\ m.num_keys = n.num_keys - 1
            /\ m.keys = [n.keys EXCEPT ![p] = Tombstone]
            /\ m.values = [n.values EXCEPT ![p] = Empty]
        BY <1>1, <2>2, DeleteExistingOver
      <3>2. Empty \notin Texts
        BY Bounds, TextsAssumption
      <3> HIDE DEF p, m
      <3>3. ASSUME NEW j \in Used(m), m.values[j] \in Texts
            PROVE  InsertCall(m.keys[j], m.values[j]) \in S
        <4>1. j \in Used(n) /\ j # p
          BY <1>3, <3>1, <3>2, <3>3
        <4>2. m.values[j] = n.values[j] /\ m.keys[j] = n.keys[j]
          BY <1>3, <3>1, <4>1
        <4>3. QED
          BY <3>3, <4>1, <4>2 DEF RowsAreFrom
      <3>4. QED
        BY <2>1, <3>3 DEF RowsAreFrom
    <2>3. CASE ~ Present(n, c.key)
      BY <2>1, <2>3 DEF btree_delete
    <2>4. QED
      BY <2>2, <2>3
  <1>6. QED
    BY <1>2, <1>4, <1>5

LEMMA CallsAddOwnRows ==
    ASSUME NEW n \in AnyNode, NEW S, RowsAreFrom(n, S), NEW cs \in Seq(AnyCall),
           \A i \in 1 .. Len(cs) :
               cs[i].call = "btree_insert" /\ cs[i].value \in Texts => cs[i] \in S
    PROVE  RowsAreFrom(Calls(n, cs), S)
  <1> DEFINE Good == {x \in AnyNode : RowsAreFrom(x, S)}
  <1>1. \A i \in 1 .. Len(cs) : cs[i] \in AnyCall
    OBVIOUS
  <1>2. ASSUME NEW i \in 1 .. Len(cs), NEW x \in Good
        PROVE  Call(x, cs[i]) \in Good
    BY <1>1, CallKeepsShape, CallAddsOwnRow
  <1>3. Good \in SUBSET AnyNode /\ n \in Good
    OBVIOUS
  <1> HIDE DEF Good
  <1>4. Calls(n, cs) \in Good
    BY <1>2, <1>3, CallsKeep DEF Closed
  <1>5. QED
    BY <1>4 DEF Good

\* The calls in the history.
LoggedCalls(h) ==
    {c \in AnyCall : \E i \in DOMAIN h : \E j \in DOMAIN h[i].redo : c = h[i].redo[j]}

LEMMA LoggedAppend ==
    ASSUME NEW h \in Seq(Logged), NEW x \in Logged
    PROVE  /\ LoggedCalls(h) \subseteq LoggedCalls(Append(h, x))
           /\ \A j \in 1 .. Len(x.redo) : x.redo[j] \in LoggedCalls(Append(h, x))
  <1> DEFINE all == Append(h, x)
  <1>1. /\ DOMAIN h = 1 .. Len(h) /\ DOMAIN all = 1 .. Len(h) + 1
        /\ all[Len(h) + 1] = x /\ \A i \in 1 .. Len(h) : all[i] = h[i]
        /\ Len(h) \in Nat
    BY AppendProperties
  <1> HIDE DEF all
  <1>2. Len(h) + 1 \in DOMAIN all /\ \A i \in DOMAIN h : i \in DOMAIN all
    BY <1>1
  <1>3. LoggedCalls(h) \subseteq LoggedCalls(all)
    BY <1>1, <1>2 DEF LoggedCalls
  <1>4. ASSUME NEW j \in 1 .. Len(x.redo)
        PROVE  x.redo[j] \in LoggedCalls(all)
    <2>1. x.redo \in Seq(AnyCall)
      BY DEF Logged
    <2>2. j \in DOMAIN x.redo /\ x.redo[j] \in AnyCall
      BY <2>1
    <2>3. QED
      BY <1>1, <1>2, <2>2 DEF LoggedCalls
  <1>5. QED
    BY <1>3, <1>4 DEF all

\* A sequence is one over the set its elements are from.
LEMMA SeqOver ==
    ASSUME NEW A, NEW s \in Seq(A), NEW B, \A i \in 1 .. Len(s) : s[i] \in B
    PROVE  s \in Seq(B)
  <1>1. Len(s) \in Nat /\ s = [i \in 1 .. Len(s) |-> s[i]]
    OBVIOUS
  <1>2. s \in [1 .. Len(s) -> B]
    BY <1>1
  <1>3. QED
    BY <1>1, <1>2

LEMMA SelectedAreLogged ==
    ASSUME NEW h \in Seq(Logged), NEW I
    PROVE  Selected(h, I) \in Seq(LoggedCalls(h))
  <1> DEFINE T == LoggedCalls(h)
             parts == [i \in DOMAIN h |-> IF h[i].tx \in I THEN h[i].redo ELSE << >>]
  <1>1. DOMAIN h = 1 .. Len(h) /\ Len(h) \in Nat
    OBVIOUS
  <1>2. ASSUME NEW i \in DOMAIN h
        PROVE  h[i].redo \in Seq(T)
    <2>1. h[i] \in Logged
      OBVIOUS
    <2>2. h[i].redo \in Seq(AnyCall)
      BY <2>1 DEF Logged
    <2>3. \A j \in 1 .. Len(h[i].redo) : h[i].redo[j] \in T
      BY <2>2 DEF LoggedCalls
    <2> HIDE DEF T
    <2>4. QED
      BY <2>2, <2>3, SeqOver
  <1>3. << >> \in Seq(T)
    OBVIOUS
  <1>4. parts \in [1 .. Len(h) -> Seq(T)]
    BY <1>1, <1>2, <1>3
  <1> HIDE DEF T, parts
  <1>5. parts \in Seq(Seq(T))
    BY <1>1, <1>4
  <1>6. FlattenSeq(parts) \in Seq(T)
    BY <1>3, <1>5, FlattenAppend
  <1>7. QED
    BY <1>6 DEF Selected, parts, T

\* The calls a row may be from: those of the log, and those of ROLLBACKs.
Sources == LoggedCalls(history) \cup scanned

RowsInv == RowsAreFrom(leaf, Sources)

LEMMA RowsInvIsLogged ==
    ASSUME StateInv, RowsInv
    PROVE  RowsAreLogged
  <1>1. SUFFICES ASSUME NEW id \in RowIds, btree_search(leaf, id) \in Texts
                 PROVE  \/ \E i \in DOMAIN history :
                              InsertCall(id, btree_search(leaf, id)) \in
                                  Range(history[i].redo)
                        \/ InsertCall(id, btree_search(leaf, id)) \in scanned
    BY DEF RowsAreLogged
  <1> DEFINE p == Min(Matches(leaf, id))
             value == btree_search(leaf, id)
  <1>2. /\ AnyNode = LeafOver(Int, Contents) /\ Int \in SUBSET Int /\ leaf \in AnyNode
        /\ NoRow \notin Texts
    BY LeavesOver, StateParts, TextsAssumption, RowsAssumption
  <1>3. Present(leaf, id) /\ value = leaf.values[p]
    BY <1>1, <1>2 DEF btree_search
  <1>4. p \in Used(leaf) /\ leaf.keys[p] = id
    BY <1>2, <1>3, FirstMatchOver
  <1> HIDE DEF p
  <1>5. InsertCall(id, value) \in LoggedCalls(history) \cup scanned
    BY <1>1, <1>3, <1>4 DEF RowsInv, RowsAreFrom, Sources
  <1>6. ASSUME InsertCall(id, value) \in LoggedCalls(history)
        PROVE  \E i \in DOMAIN history : InsertCall(id, value) \in Range(history[i].redo)
    <2>1. PICK i \in DOMAIN history : \E j \in DOMAIN history[i].redo :
                                          InsertCall(id, value) = history[i].redo[j]
      BY <1>6 DEF LoggedCalls
    <2>2. InsertCall(id, value) \in Range(history[i].redo)
      BY <2>1 DEF Range
    <2>3. QED
      BY <2>2
  <1>7. QED
    BY <1>5, <1>6

LEMMA InitRows ==
    ASSUME Init
    PROVE  RowsInv
  <1>1. leaf.num_keys = 0
    BY DEF Init, Formatted, ZeroPage
  <1>2. Used(leaf) = {}
    BY <1>1 DEF Used
  <1>3. QED
    BY <1>2 DEF RowsInv, RowsAreFrom

\* The record is complete when the page is written.
LEMMA StatementKeepsRows ==
    ASSUME StateInv, RowsInv,
           NEW record, NEW hd, WritesRecord(record, hd), NEW page,
           NEW c \in AnyCall, page = Call(leaf, c),
           NEW redo \in Seq(AnyCall),
           c.call = "btree_insert" => \E i \in 1 .. Len(redo) : redo[i] = c,
           Statement(record, page, redo)
    PROVE  RowsInv'
  <1>1. StatementParts(record, page, redo)
    BY StatementIs
  <1>2. leaf \in AnyNode /\ history \in Seq(Logged)
    BY StateParts
  <1> DEFINE x == [tx |-> begun, redo |-> redo]
  <1>3. x \in Logged /\ x.redo = redo
    BY StateParts DEF Logged
  <1> HIDE DEF x
  <1> DEFINE more == LoggedCalls(Append(history, x)) \cup scanned
  <1>4. /\ Sources \subseteq more
        /\ \A j \in 1 .. Len(redo) : redo[j] \in more
    BY <1>2, <1>3, LoggedAppend DEF Sources
  <1>5. RowsAreFrom(leaf, Sources) /\ RowsAreFrom(leaf, more)
    BY <1>4 DEF RowsInv, RowsAreFrom
  <1>6. scanned' = scanned
    BY <1>1 DEF StatementParts
  <1>7. CASE leaf' = leaf /\ (history' = history \/ history' = Append(history, x))
    BY <1>5, <1>6, <1>7 DEF RowsInv, Sources
  <1>8. CASE leaf' = page /\ history' = Append(history, x)
    <2>1. c.call = "btree_insert" => c \in more
      BY <1>4
    <2> HIDE DEF more
    <2>2. RowsAreFrom(Call(leaf, c), more)
      BY <1>2, <1>5, <2>1, CallAddsOwnRow
    <2>3. Sources' = more
      BY <1>6, <1>8 DEF Sources, more
    <2>4. QED
      BY <1>8, <2>2, <2>3 DEF RowsInv
  <1>9. QED
    BY <1>1, <1>7, <1>8 DEF StatementParts, Completed, x

LEMMA RowStatementKeepsRows ==
    ASSUME StateInv, RowsInv, NEW id \in RowIds
    PROVE  /\ \A value \in Texts : Insert(id, value) => RowsInv'
           /\ \A value \in UpdateTexts : Update(id, value) => RowsInv'
           /\ Delete(id) => RowsInv'
  <1>1. /\ id \in Int /\ id \in Int32
        /\ lsn \in Bytes /\ current_tx_id \in Bytes /\ Pads \subseteq Bytes
        /\ UpdateTexts \subseteq Texts
    BY StateParts, Bounds
  <1>2. ASSUME NEW value \in Texts
        PROVE  /\ InsertCall(id, value) \in AnyCall
               /\ btree_insert(leaf, id, value) = Call(leaf, InsertCall(id, value))
    BY Bounds DEF InsertCall, AnyCall, Call
  <1>3. /\ DeleteCall(id) \in AnyCall
        /\ DeleteCall(id).call # "btree_insert"
        /\ btree_delete(leaf, id) = Call(leaf, DeleteCall(id))
    BY Bounds DEF DeleteCall, AnyCall, Call
  <1>4. ASSUME NEW value \in Texts, Insert(id, value)
        PROVE  RowsInv'
    <2>1. PICK pad \in Pads :
              Statement(wal_log_insert(lsn, current_tx_id, id, value, pad),
                        btree_insert(leaf, id, value),
                        Redo(LOG_RECORD_TYPE_INSERT, id, value))
      BY <1>4 DEF Insert
    <2> DEFINE redo == Redo(LOG_RECORD_TYPE_INSERT, id, value)
               c == InsertCall(id, value)
    <2>2. redo \in Seq(AnyCall) /\ redo = << c >>
      BY RedoIsOfCalls
    <2> DEFINE hd == LogRecordHeader(lsn, LOG_RECORD_TYPE_INSERT, current_tx_id,
                                     Len(TextBytes(value)), pad)
    <2>3. WritesRecord(wal_log_insert(lsn, current_tx_id, id, value, pad), hd)
      BY <1>1, TypesOfRecords, RowRecordIsWritten DEF wal_log_insert
    <2>4. Statement(wal_log_insert(lsn, current_tx_id, id, value, pad),
                    btree_insert(leaf, id, value), redo)
      BY <2>1
    <2> HIDE DEF hd, redo, c
    <2>5. \E i \in 1 .. Len(redo) : redo[i] = c
      BY <2>2
    <2>6. c \in AnyCall /\ btree_insert(leaf, id, value) = Call(leaf, c)
      BY <1>2 DEF c
    <2>7. QED
      BY <2>2, <2>3, <2>4, <2>5, <2>6, StatementKeepsRows
  <1>5. ASSUME NEW value \in UpdateTexts, Update(id, value)
        PROVE  RowsInv'
    <2>1. PICK pad \in Pads :
              Statement(wal_log_update(lsn, current_tx_id, id, value, pad),
                        btree_insert(leaf, id, value),
                        Redo(LOG_RECORD_TYPE_UPDATE, id, value))
      BY <1>5 DEF Update
    <2> DEFINE redo == Redo(LOG_RECORD_TYPE_UPDATE, id, value)
               c == InsertCall(id, value)
    <2>2. redo \in Seq(AnyCall) /\ redo = << DeleteCall(id), c >>
      BY <1>1, RedoIsOfCalls
    <2> DEFINE hd == LogRecordHeader(lsn, LOG_RECORD_TYPE_UPDATE, current_tx_id,
                                     Len(TextBytes(value)), pad)
    <2>3. WritesRecord(wal_log_update(lsn, current_tx_id, id, value, pad), hd)
      BY <1>1, TypesOfRecords, RowRecordIsWritten DEF wal_log_update
    <2>4. Statement(wal_log_update(lsn, current_tx_id, id, value, pad),
                    btree_insert(leaf, id, value), redo)
      BY <2>1
    <2> HIDE DEF hd, redo, c
    <2>5. \E i \in 1 .. Len(redo) : redo[i] = c
      BY <2>2
    <2>6. c \in AnyCall /\ btree_insert(leaf, id, value) = Call(leaf, c)
      BY <1>1, <1>2 DEF c
    <2>7. QED
      BY <2>2, <2>3, <2>4, <2>5, <2>6, StatementKeepsRows
  <1>6. ASSUME Delete(id)
        PROVE  RowsInv'
    <2>1. PICK pad \in Pads :
              Statement(wal_log_delete(lsn, current_tx_id, id, pad),
                        btree_delete(leaf, id),
                        Redo(LOG_RECORD_TYPE_DELETE, id, Blank))
      BY <1>6 DEF Delete
    <2> DEFINE redo == Redo(LOG_RECORD_TYPE_DELETE, id, Blank)
    <2>2. redo \in Seq(AnyCall)
      <3>1. redo = << DeleteCall(id) >>
        BY DEF Redo, LOG_RECORD_TYPE_INSERT, LOG_RECORD_TYPE_DELETE, LOG_RECORD_TYPE_UPDATE
      <3>2. QED
        BY <1>3, <3>1
    <2> DEFINE hd == LogRecordHeader(lsn, LOG_RECORD_TYPE_DELETE, current_tx_id,
                                     0, pad)
    <2>3. WritesRecord(wal_log_delete(lsn, current_tx_id, id, pad), hd)
      BY <1>1, DeleteRecordIsWritten
    <2>4. Statement(wal_log_delete(lsn, current_tx_id, id, pad),
                    btree_delete(leaf, id), redo)
      BY <2>1
    <2> HIDE DEF hd, redo
    <2>5. QED
      BY <1>3, <2>2, <2>3, <2>4, StatementKeepsRows
  <1>7. QED
    BY <1>4, <1>5, <1>6

\* What a ROLLBACK makes rows of is counted in.
LEMMA RollbackKeepsRows ==
    ASSUME StateInv, RowsInv, Rollback
    PROVE  RowsInv'
  <1> DEFINE cs == wal_apply_committed_transactions
  <1>1. /\ leaf \in AnyNode /\ cs \in Seq(AnyCall) /\ leaf' = Calls(leaf, cs)
        /\ history' = history /\ scanned' = scanned \cup Range(cs)
    BY StateParts, RollbackMakesCalls DEF Rollback
  <1> HIDE DEF cs
  <1>2. Sources' = Sources \cup Range(cs)
    BY <1>1 DEF Sources
  <1>3. RowsAreFrom(leaf, Sources')
    BY <1>2 DEF RowsInv, RowsAreFrom
  <1>4. \A i \in 1 .. Len(cs) : cs[i] \in Sources'
    BY <1>1, <1>2 DEF Range
  <1>5. RowsAreFrom(Calls(leaf, cs), Sources')
    BY <1>1, <1>3, <1>4, CallsAddOwnRows
  <1>6. QED
    BY <1>1, <1>5 DEF RowsInv

\* A recovery gives back rows of the log only, also one that dies half-way.
LEMMA OpenKeepsRows ==
    ASSUME StateInv, ReplayInv, RowsInv, Open
    PROVE  RowsInv'
  <1> DEFINE calls == wal_recover(log)
  <1>1. PICK done \in 0 .. Len(calls) : leaf' = Calls(leaf, SubSeq(calls, 1, done))
    BY DEF Open
  <1>2. /\ history' = history /\ scanned' = scanned
        /\ leaf \in AnyNode /\ history \in Seq(Logged)
    BY StateParts DEF Open, ghosts
  <1>3. calls = Selected(history, committed)
    BY CommittedIsSelected DEF ReplayInv, ReplaysCommitted
  <1>4. calls \in Seq(LoggedCalls(history))
    BY <1>2, <1>3, SelectedAreLogged
  <1> HIDE DEF calls
  <1> DEFINE cs == SubSeq(calls, 1, done)
  <1>5. cs \in Seq(LoggedCalls(history))
    BY <1>4
  <1>6. \A i \in 1 .. Len(cs) : cs[i] \in LoggedCalls(history)
    BY <1>5
  <1>7. cs \in Seq(AnyCall)
    <2>1. LoggedCalls(history) \subseteq AnyCall
      BY DEF LoggedCalls
    <2>2. \A i \in 1 .. Len(cs) : cs[i] \in AnyCall
      BY <1>6, <2>1
    <2> HIDE DEF cs
    <2>3. QED
      BY <1>5, <2>2, SeqOver
  <1>8. leaf' = Calls(leaf, cs)
    BY <1>1
  <1> HIDE DEF cs
  <1>9. RowsAreFrom(Calls(leaf, cs), Sources)
    BY <1>2, <1>6, <1>7, CallsAddOwnRows DEF RowsInv, Sources
  <1>10. QED
    BY <1>2, <1>8, <1>9 DEF RowsInv, Sources

LEMMA StepRows ==
    ASSUME StateInv, ReplayInv, RowsInv, [Next]_vars
    PROVE  RowsInv'
  <1>1. CASE \E id \in RowIds : \/ \E value \in InsertTexts : Insert(id, value)
                                \/ \E value \in UpdateTexts : Update(id, value)
                                \/ Delete(id)
    BY <1>1, RowStatementKeepsRows DEF InsertTexts
  <1>2. CASE Begin \/ Commit \/ Close \/ UNCHANGED vars
    <2>1. leaf' = leaf /\ history' = history /\ scanned' = scanned
      BY <1>2 DEF Begin, Commit, Close, vars, ghosts
    <2>2. QED
      BY <2>1 DEF RowsInv, Sources
  <1>3. CASE Rollback
    BY <1>3, RollbackKeepsRows
  <1>4. CASE Open
    BY <1>4, OpenKeepsRows
  <1>5. QED
    BY <1>1, <1>2, <1>3, <1>4 DEF Next

\* Write-ahead: a row with contents a statement could have given is in the log
\* as it is in the page, unless a ROLLBACK made it of bytes of the pages, at each
\* point where the program can die, and through rollbacks that garble the page and
\* recoveries that die half-way.
THEOREM WriteAhead ==
    ASSUME InStep
    PROVE  Spec => []RowsAreLogged
  <1> DEFINE Inv == StateInv /\ ReplayInv /\ RowsInv
  <1>1. Init => Inv
    BY InitState, InitReplay, InitRows
  <1>2. Inv /\ [Next]_vars => Inv'
    BY StepState, StepReplay, StepRows
  <1>3. Inv => RowsAreLogged
    BY RowsInvIsLogged
  <1>4. QED
    BY <1>1, <1>2, <1>3, PTL DEF Spec

-----------------------------------------------------------------------------
(* Recovery brings rows back.                                               *)

\* The row ids that have no slot in use, and the slots a leaf needs for all rows.
Missing(n) == {id \in RowIds : ~ Present(n, id)}

Load(n) == n.num_keys + Cardinality(Missing(n))

\* There are finitely many rows, so these are numbers.
LEMMA LoadParts ==
    ASSUME NEW n \in AnyNode
    PROVE  /\ IsFiniteSet(Missing(n)) /\ Cardinality(Missing(n)) \in Nat
           /\ n.num_keys \in Nat /\ n.num_keys <= Slots /\ Slots \in Nat
           /\ Load(n) \in Nat /\ IsFiniteSet(RowIds) /\ Cardinality(RowIds) \in Nat
  <1>1. IsFiniteSet(RowIds)
    <2> DEFINE low == -2147483647 - 1
               top == 2147483647
    <2>1. low \in Int /\ top \in Int
      BY SMT
    <2>2. Int32 = {k \in Int : low <= k /\ k <= top}
      BY SMT DEF Int32
    <2> HIDE DEF low, top
    <2>3. Int32 \subseteq low .. top
      BY <2>1, <2>2
    <2>4. IsFiniteSet(low .. top)
      BY <2>1, FS_Interval
    <2>5. QED
      BY <2>3, <2>4, Bounds, FS_Subset
  <1>2. Missing(n) \in SUBSET RowIds
    BY DEF Missing
  <1>3. IsFiniteSet(Missing(n))
    BY <1>1, <1>2, FS_Subset
  <1>4. Cardinality(Missing(n)) \in Nat /\ Cardinality(RowIds) \in Nat
    BY <1>1, <1>3, FS_CardinalityType
  <1>5. n.num_keys \in Nat /\ n.num_keys <= Slots /\ Slots \in Nat
    BY SlotsAssumption DEF AnyNode
  <1>6. QED
    BY <1>1, <1>3, <1>4, <1>5 DEF Load

\* As long as the load is not more than the slots, each row has its slot or room.
LEMMA LoadLeavesRoom ==
    ASSUME NEW n \in AnyNode, Load(n) <= Slots, NEW id \in RowIds
    PROVE  Present(n, id) \/ ~ LeafFull(n)
  <1>1. CASE ~ Present(n, id)
    <2>1. id \in Missing(n)
      BY <1>1 DEF Missing
    <2>2. Cardinality(Missing(n)) # 0
      BY <2>1, LoadParts, FS_EmptySet
    <2>3. n.num_keys < Slots
      BY <2>2, LoadParts DEF Load
    <2>4. QED
      BY <2>3, LoadParts DEF LeafFull
  <1>2. QED
    BY <1>1

\* A call adds no row that is missing before and no call removes more than two.
LEMMA FewerMissing ==
    ASSUME NEW n \in AnyNode, NEW m \in AnyNode,
           Missing(m) \subseteq Missing(n)
    PROVE  Cardinality(Missing(m)) <= Cardinality(Missing(n))
  BY LoadParts, FS_Subset

LEMMA MoreMissing ==
    ASSUME NEW n \in AnyNode, NEW m \in AnyNode, NEW x, NEW y,
           Missing(m) \subseteq (Missing(n) \cup {x}) \cup {y}
    PROVE  Cardinality(Missing(m)) <= Cardinality(Missing(n)) + 2
  <1> DEFINE A == Missing(n)
             B == A \cup {x}
             C == B \cup {y}
             M == Missing(m)
  <1>1. IsFiniteSet(A) /\ Cardinality(A) \in Nat
    BY LoadParts
  <1>2. M \in SUBSET C
    OBVIOUS
  <1> HIDE DEF A, M
  <1>3. IsFiniteSet(B) /\ (Cardinality(B) = Cardinality(A)
                           \/ Cardinality(B) = Cardinality(A) + 1)
    BY <1>1, FS_AddElement
  <1> HIDE DEF B
  <1>4. IsFiniteSet(C) /\ (Cardinality(C) = Cardinality(B)
                           \/ Cardinality(C) = Cardinality(B) + 1)
    BY <1>3, FS_AddElement
  <1> HIDE DEF C
  <1>5. Cardinality(M) <= Cardinality(C) /\ Cardinality(M) \in Nat
    BY <1>2, <1>4, FS_Subset, FS_CardinalityType
  <1>6. QED
    BY <1>1, <1>3, <1>4, <1>5 DEF A, M

LEMMA OneMoreMissing ==
    ASSUME NEW n \in AnyNode, NEW m \in AnyNode, NEW x,
           Missing(m) \subseteq Missing(n) \cup {x}
    PROVE  Cardinality(Missing(m)) <= Cardinality(Missing(n)) + 1
  <1> DEFINE A == Missing(n)
             B == A \cup {x}
             M == Missing(m)
  <1>1. IsFiniteSet(A) /\ Cardinality(A) \in Nat
    BY LoadParts
  <1>2. M \in SUBSET B
    OBVIOUS
  <1> HIDE DEF A, M
  <1>3. IsFiniteSet(B) /\ (Cardinality(B) = Cardinality(A)
                           \/ Cardinality(B) = Cardinality(A) + 1)
    BY <1>1, FS_AddElement
  <1> HIDE DEF B
  <1>4. Cardinality(M) <= Cardinality(B) /\ Cardinality(M) \in Nat
    BY <1>2, <1>3, FS_Subset, FS_CardinalityType
  <1>5. QED
    BY <1>1, <1>3, <1>4 DEF A, M

\* The load goes by the slots in use and the rows that are missing.
LEMMA LoadChange ==
    ASSUME NEW n \in AnyNode, NEW m \in AnyNode
    PROVE  /\ Load(n) \in Nat /\ Load(m) \in Nat
           /\ /\ m.num_keys = n.num_keys
              /\ Cardinality(Missing(m)) <= Cardinality(Missing(n))
              => Load(m) <= Load(n)
           /\ /\ m.num_keys = n.num_keys + 1
              /\ Cardinality(Missing(m)) = Cardinality(Missing(n)) - 1
              => Load(m) <= Load(n)
           /\ /\ m.num_keys = n.num_keys + 1
              /\ Cardinality(Missing(m)) <= Cardinality(Missing(n))
              => Load(m) <= Load(n) + 1
           /\ /\ m.num_keys = n.num_keys - 1
              /\ Cardinality(Missing(m)) <= Cardinality(Missing(n)) + 2
              => Load(m) <= Load(n) + 1
           /\ /\ m.num_keys = n.num_keys - 1
              /\ Cardinality(Missing(m)) <= Cardinality(Missing(n)) + 1
              => Load(m) <= Load(n)
  <1>1. /\ n.num_keys \in Nat /\ m.num_keys \in Nat
        /\ Cardinality(Missing(n)) \in Nat /\ Cardinality(Missing(m)) \in Nat
        /\ Load(n) \in Nat /\ Load(m) \in Nat
    BY LoadParts
  <1>2. QED
    BY <1>1 DEF Load

\* Inserting a row takes a slot for a row that needed one.
LEMMA InsertKeepsLoad ==
    ASSUME NEW n \in AnyNode, NEW id \in RowIds, NEW value \in Contents
    PROVE  Load(btree_insert(n, id, value)) <= Load(n)
  <1> DEFINE m == btree_insert(n, id, value)
  <1>1. AnyNode = LeafOver(Int, Contents) /\ Int \in SUBSET Int /\ id \in Int
    BY LeavesOver, Bounds
  <1>2. m \in AnyNode
    BY <1>1, OperationsKeepShape
  <1>3. CASE Present(n, id)
    <2>1. m.num_keys = n.num_keys
      <3> DEFINE p == Min(Matches(n, id))
      <3>1. /\ p \in Used(n) /\ n.keys[p] = id
            /\ m.num_keys = n.num_keys /\ m.keys = n.keys
            /\ m.values = [n.values EXCEPT ![p] = value]
        BY <1>1, <1>3, InsertExistingOver
      <3>2. QED
        BY <3>1
    <2>2. Shows(n, m, id, value)
      BY <1>1, <1>3, ReplacedIsShown
    <2> HIDE DEF m
    <2>3. Missing(m) \subseteq Missing(n)
      BY <2>2, Bounds DEF Shows, Missing
    <2>4. Cardinality(Missing(m)) <= Cardinality(Missing(n))
      BY <1>2, <2>3, FewerMissing
    <2>5. QED
      BY <1>2, <2>1, <2>4, LoadChange DEF m
  <1>4. CASE ~ Present(n, id) /\ ~ LeafFull(n)
    <2>1. m.num_keys = n.num_keys + 1
      BY <1>4 DEF btree_insert
    <2>2. Shows(n, m, id, value)
      BY <1>1, <1>4, InsertedIsShown
    <2> HIDE DEF m
    <2>3. Missing(m) = Missing(n) \ {id} /\ id \in Missing(n)
      BY <1>4, <2>2, Bounds DEF Shows, Missing
    <2>4. Cardinality(Missing(m)) = Cardinality(Missing(n)) - 1
      BY <2>3, LoadParts, FS_RemoveElement
    <2>5. QED
      BY <1>2, <2>1, <2>4, LoadChange DEF m
  <1>5. CASE ~ Present(n, id) /\ LeafFull(n)
    <2>1. m = n
      BY <1>5 DEF btree_insert
    <2>2. QED
      BY <2>1, LoadParts
  <1>6. QED
    BY <1>3, <1>4, <1>5

\* A deletion takes its own row and the last one out of sight.
LEMMA DeletedAreMissing ==
    ASSUME NEW n \in AnyNode, NEW k \in Int, Present(n, k)
    PROVE  LET m == btree_delete(n, k)
           IN  /\ m.num_keys = n.num_keys - 1
               /\ Missing(m) \subseteq (Missing(n) \cup {k}) \cup {n.keys[n.num_keys]}
  <1> DEFINE m    == btree_delete(n, k)
             p    == Min(Matches(n, k))
             last == n.keys[n.num_keys]
  <1>1. AnyNode = LeafOver(Int, Contents) /\ Int \in SUBSET Int
    BY LeavesOver
  <1>2. p \in Used(n) /\ n.keys[p] = k
    BY <1>1, FirstMatchOver
  <1>3. /\ m.num_keys = n.num_keys - 1
        /\ m.keys = [n.keys EXCEPT ![p] = Tombstone]
    BY DEF btree_delete
  <1> HIDE DEF p, m
  <1>4. Used(m) = Used(n) \ {n.num_keys}
    BY <1>3, LoadParts DEF Used
  <1>5. n.keys \in [1 .. Slots -> Int] /\ Used(n) \subseteq 1 .. Slots
    BY <1>1, PartsOver
  <1>6. ASSUME NEW id \in RowIds, Present(n, id), id # k, id # last
        PROVE  Present(m, id)
    <2>1. PICK j \in Used(n) : n.keys[j] = id
      BY <1>6 DEF Present, Matches
    <2>2. j # p /\ j # n.num_keys
      BY <1>2, <1>6, <2>1
    <2>3. j \in Used(m) /\ m.keys[j] = id
      BY <1>3, <1>4, <1>5, <2>1, <2>2
    <2>4. QED
      BY <2>3 DEF Present, Matches
  <1> HIDE DEF last
  <1>7. Missing(m) \subseteq (Missing(n) \cup {k}) \cup {last}
    BY <1>6 DEF Missing
  <1>8. QED
    BY <1>3, <1>7 DEF m, last

\* So it takes no room when its own row is none of the table's.
LEMMA DeleteKeepsLoad ==
    ASSUME NEW n \in AnyNode, NEW k \in Int, k \notin RowIds
    PROVE  Load(btree_delete(n, k)) <= Load(n)
  <1> DEFINE m    == btree_delete(n, k)
             last == n.keys[n.num_keys]
  <1>1. m \in AnyNode
    <2>1. Empty \in Contents
      BY LeavesOver
    <2>2. QED
      BY <2>1, OperationsKeepShape
  <1>2. CASE Present(n, k)
    <2>1. /\ m.num_keys = n.num_keys - 1
          /\ Missing(m) \subseteq (Missing(n) \cup {k}) \cup {last}
      BY <1>2, DeletedAreMissing
    <2> HIDE DEF m, last
    <2>2. Missing(m) \subseteq Missing(n) \cup {last}
      BY <2>1 DEF Missing
    <2>3. Cardinality(Missing(m)) <= Cardinality(Missing(n)) + 1
      BY <1>1, <2>2, OneMoreMissing
    <2>4. QED
      BY <1>1, <2>1, <2>3, LoadChange DEF m
  <1>3. CASE ~ Present(n, k)
    <2>1. m = n
      BY <1>3 DEF btree_delete
    <2>2. QED
      BY <2>1, LoadParts
  <1>4. QED
    BY <1>2, <1>3

\* The other calls: an insertion takes a slot for nothing, and a deletion takes two
\* rows out of sight and gives back one slot, if its own was one of the rows.
LEMMA CallAddsOne ==
    ASSUME NEW n \in AnyNode, NEW c \in AnyCall
    PROVE  Load(Call(n, c)) <= Load(n) + 1
  <1> DEFINE k == c.key
  <1>1. /\ AnyNode = LeafOver(Int, Contents) /\ Int \in SUBSET Int /\ Tombstone \in Int
        /\ Empty \in Contents
        /\ c.call = "btree_insert" \/ c.call = "btree_delete"
        /\ k \in Int /\ c.value \in Contents
    BY LeavesOver DEF AnyCall, Tombstone
  <1>2. CASE c.call = "btree_insert"
    <2> DEFINE m == btree_insert(n, k, c.value)
    <2>1. Call(n, c) = m /\ m \in AnyNode
      BY <1>1, <1>2, OperationsKeepShape DEF Call
    <2>2. CASE Present(n, k)
      <3> DEFINE p == Min(Matches(n, k))
      <3>1. /\ m \in AnyNode
            /\ p \in Used(n) /\ n.keys[p] = k
            /\ m.num_keys = n.num_keys /\ m.keys = n.keys
            /\ m.values = [n.values EXCEPT ![p] = c.value]
        <4>1. k \in Int /\ c.value \in Contents
          BY <1>1
        <4>2. QED
          BY <2>2, <4>1, ReplacedInAny
      <3> HIDE DEF m
      <3>2. Missing(m) \subseteq Missing(n)
        BY <3>1 DEF Missing, Present, Matches, Used
      <3>3. Load(m) <= Load(n)
        BY <2>1, <3>1, <3>2, FewerMissing, LoadChange
      <3>4. QED
        BY <2>1, <3>3, LoadParts
    <2>3. CASE ~ Present(n, k) /\ ~ LeafFull(n)
      <3> DEFINE p == InsertPosition(n, k)
      <3>1. /\ m.num_keys = n.num_keys + 1 /\ p \in Used(m)
            /\ m.keys[p] = k
            /\ \A j \in Used(n) : j < p =>
                   m.keys[j] = n.keys[j] /\ m.values[j] = n.values[j]
            /\ \A j \in Used(m) : p < j =>
                   m.keys[j] = n.keys[j - 1] /\ m.values[j] = n.values[j - 1]
        BY <1>1, <2>3, InsertNewOver
      <3> HIDE DEF m, p
      <3>2. p \in Nat \ {0} /\ p <= m.num_keys
        BY <3>1, LoadParts DEF Used
      <3>3. \A id \in RowIds : id # k => (Present(m, id) <=> Present(n, id))
        BY <1>1, <3>1, <3>2, Bounds, MovedMatch
      <3>4. Missing(m) \subseteq Missing(n)
        BY <2>3, <3>3 DEF Missing
      <3>5. Load(m) <= Load(n) + 1
        BY <2>1, <3>1, <3>4, FewerMissing, LoadChange
      <3>6. QED
        BY <2>1, <3>5
    <2>4. CASE ~ Present(n, k) /\ LeafFull(n)
      <3>1. m = n
        BY <2>4 DEF btree_insert
      <3>2. QED
        BY <2>1, <3>1, LoadParts
    <2>5. QED
      BY <2>2, <2>3, <2>4
  <1>3. CASE c.call = "btree_delete"
    <2> DEFINE m == btree_delete(n, k)
    <2>1. Call(n, c) = m /\ m \in AnyNode
      BY <1>1, <1>3, OperationsKeepShape DEF Call
    <2>2. CASE Present(n, k)
      <3> DEFINE last == n.keys[n.num_keys]
      <3>1. /\ m.num_keys = n.num_keys - 1
            /\ Missing(m) \subseteq (Missing(n) \cup {k}) \cup {last}
        BY <1>1, <2>2, DeletedAreMissing
      <3> HIDE DEF m, last
      <3>2. Cardinality(Missing(m)) <= Cardinality(Missing(n)) + 2
        BY <2>1, <3>1, MoreMissing
      <3>3. QED
        BY <2>1, <3>1, <3>2, LoadChange
    <2>3. CASE ~ Present(n, k)
      <3>1. m = n
        BY <2>3 DEF btree_delete
      <3>2. QED
        BY <2>1, <3>1, LoadParts
    <2>4. QED
      BY <2>2, <2>3
  <1>4. QED
    BY <1>1, <1>2, <1>3

\* Insertions of rows, which is all a recovery makes when there were only INSERTs.
RowCalls == {c \in AnyCall : c.call = "btree_insert" /\ c.key \in RowIds}

\* The leaves with a slot or room for each row.
Roomy == {n \in AnyNode : Load(n) <= Slots}

LEMMA RowCallShows ==
    ASSUME NEW n \in AnyNode, NEW c \in RowCalls
    PROVE  /\ Call(n, c) \in AnyNode /\ Load(Call(n, c)) <= Load(n)
           /\ n \in Roomy => /\ Shows(n, Call(n, c), c.key, c.value)
                             /\ Call(n, c) \in Roomy
  <1>1. /\ c \in AnyCall /\ c.key \in RowIds /\ c.value \in Contents
        /\ Call(n, c) = btree_insert(n, c.key, c.value)
        /\ c.key \in Int
    BY Bounds DEF RowCalls, AnyCall, Call
  <1>2. Call(n, c) \in AnyNode
    BY <1>1, CallKeepsShape
  <1>3. Load(Call(n, c)) <= Load(n)
    BY <1>1, InsertKeepsLoad
  <1>4. ASSUME n \in Roomy
        PROVE  Shows(n, Call(n, c), c.key, c.value)
    <2>1. Present(n, c.key) \/ ~ LeafFull(n)
      BY <1>1, <1>4, LoadLeavesRoom DEF Roomy
    <2>2. QED
      BY <1>1, <2>1, LeavesOver, InsertedIsShown
  <1>5. n \in Roomy => Load(Call(n, c)) <= Slots
    <2>1. Load(n) \in Nat /\ Load(Call(n, c)) \in Nat /\ Slots \in Nat
      BY <1>2, LoadParts
    <2>2. QED
      BY <1>3, <2>1 DEF Roomy
  <1>6. QED
    BY <1>2, <1>3, <1>4, <1>5 DEF Roomy

\* Where a row is among the first calls, and what the last of them gives it.
Giving(cs, k, id) == {i \in 1 .. k : cs[i].key = id}

ShowsLast(n, cs, k) ==
    \A id \in RowIds \ {Tombstone} : Giving(cs, k, id) # {} =>
        btree_search(n, id) = cs[Max(Giving(cs, k, id))].value

\* One more call.
LEMMA ShowsNext ==
    ASSUME NEW n \in AnyNode, n \in Roomy, NEW cs \in Seq(RowCalls),
           NEW k \in Nat, k + 1 \in 1 .. Len(cs), ShowsLast(n, cs, k)
    PROVE  ShowsLast(Call(n, cs[k + 1]), cs, k + 1)
  <1> DEFINE c == cs[k + 1]
             m == Call(n, c)
  <1>1. c \in RowCalls
    OBVIOUS
  <1>2. Shows(n, m, c.key, c.value)
    BY <1>1, RowCallShows
  <1> HIDE DEF m, c
  <1>3. ASSUME NEW id \in RowIds \ {Tombstone}, Giving(cs, k + 1, id) # {}
        PROVE  btree_search(m, id) = cs[Max(Giving(cs, k + 1, id))].value
    <2> DEFINE t == Giving(cs, k + 1, id)
    <2>1. t \in SUBSET (1 .. k + 1)
      BY DEF Giving
    <2>2. k + 1 \in t <=> c.key = id
      BY DEF Giving, c
    <2>3. CASE c.key = id
      <3> HIDE DEF t
      <3>1. Max(t) = k + 1
        BY <2>1, <2>2, <2>3, MaxOfSuccessor
      <3>2. QED
        BY <1>2, <2>3, <3>1 DEF Shows, t, c
    <2>4. CASE c.key # id
      <3>1. t = Giving(cs, k, id)
        <4>1. \A i \in 1 .. k + 1 : i = k + 1 \/ i \in 1 .. k
          OBVIOUS
        <4>2. \A i \in 1 .. k : i \in 1 .. k + 1
          OBVIOUS
        <4>3. QED
          BY <2>2, <2>4, <4>1, <4>2 DEF Giving
      <3> HIDE DEF t
      <3>2. btree_search(n, id) = cs[Max(t)].value
        BY <1>3, <3>1 DEF ShowsLast, t
      <3>3. btree_search(m, id) = btree_search(n, id)
        BY <1>2, <2>4, Bounds DEF Shows
      <3>4. QED
        BY <3>2, <3>3 DEF t
    <2>5. QED
      BY <2>3, <2>4
  <1>4. QED
    BY <1>3 DEF ShowsLast, m, c

\* A recovery that makes all its calls shows the last contents of each row.
LEMMA ReplayShows ==
    ASSUME NEW node \in Roomy, NEW cs \in Seq(RowCalls)
    PROVE  ShowsLast(Calls(node, cs), cs, Len(cs))
  <1> DEFINE n == Len(cs)
  <1>1. /\ node \in AnyNode
        /\ \A i \in 1 .. n : cs[i] \in RowCalls /\ cs[i] \in AnyCall
    BY DEF Roomy, RowCalls
  <1>2. cs \in Seq(AnyCall)
    BY <1>1, SeqOver
  <1>3. n \in Nat /\ \A i \in 1 .. n, x \in AnyNode : CallStep(AnyNode, cs)[i][x] = Call(x, cs[i])
    BY <1>2, CallsAreClosed, CallSteps
  <1>4. PICK g : IsRun(g, n, AnyNode, node, CallStep(AnyNode, cs))
    BY <1>1, <1>2, CallsAreClosed, CallSteps, Iteration
  <1>5. Calls(node, cs) = g[n]
    BY <1>1, <1>2, <1>4, CallsAreClosed, CallsAre
  <1>6. /\ g \in [0 .. n -> AnyNode] /\ g[0] = node
        /\ \A i \in 1 .. n : g[i] = CallStep(AnyNode, cs)[i][g[i - 1]]
    BY <1>4 DEF IsRun
  <1> DEFINE Good(k) == g[k] \in Roomy /\ ShowsLast(g[k], cs, k)
             S == {k \in Nat : k <= n => Good(k)}
  <1>7. Good(0)
    <2>1. \A id : Giving(cs, 0, id) = {}
      BY DEF Giving
    <2>2. QED
      BY <1>6, <2>1 DEF ShowsLast
  <1>8. ASSUME NEW k \in Nat, k + 1 <= n, Good(k)
        PROVE  Good(k + 1)
    <2>1. /\ k + 1 \in 1 .. n /\ (k + 1) - 1 = k /\ k \in 0 .. n
      BY <1>3, <1>8
    <2>2. g[k] \in AnyNode
      BY <1>6, <2>1
    <2>3. g[k + 1] = Call(g[k], cs[k + 1])
      BY <1>3, <1>6, <2>1, <2>2
    <2>4. Call(g[k], cs[k + 1]) \in Roomy
      BY <1>1, <1>8, <2>1, <2>2, RowCallShows
    <2>5. ShowsLast(Call(g[k], cs[k + 1]), cs, k + 1)
      BY <1>8, <2>1, <2>2, ShowsNext
    <2>6. QED
      BY <2>3, <2>4, <2>5
  <1> HIDE DEF Good, n
  <1>9. ASSUME NEW k \in S
        PROVE  k + 1 \in S
    <2>1. k \in Nat /\ k + 1 \in Nat /\ (k + 1 <= n => k <= n)
      BY <1>3
    <2>2. QED
      BY <1>8, <2>1
  <1>10. 0 \in S /\ S \in SUBSET Nat
    BY <1>7
  <1>11. S = Nat
    <2> HIDE DEF S
    <2>1. QED
      BY <1>9, <1>10, Induction
  <1>12. Good(n)
    <2>1. n \in S /\ n <= n
      BY <1>3, <1>11
    <2>2. QED
      BY <2>1
  <1>13. QED
    BY <1>5, <1>12 DEF Good, n

\* There is a slot for each row, and one more for each rollback, which may take one
\* for a row of its own.
EnoughSlots == Cardinality(RowIds) + MaxTx <= Slots

\* The rollbacks that may still come: one for each transaction of the session.
OwedFor(is_up, number, is_locked, tx) ==
    IF is_up /\ number = 1
    THEN (MaxTx - tx) + (IF is_locked THEN 1 ELSE 0)
    ELSE 0

Owed == OwedFor(up, session, locked, current_tx_id)

\* As long as there were only INSERTs, the leaf has a slot or room for each row,
\* and will have after the rollbacks to come.
RoomInv ==
    OnlyInserts => /\ LoggedCalls(history) \subseteq RowCalls
                   /\ Load(leaf) + Owed <= Slots

LEMMA OwedForIs ==
    ASSUME NEW u \in BOOLEAN, NEW s, NEW l \in BOOLEAN, NEW c \in 0 .. MaxTx
    PROVE  /\ MaxTx \in Nat /\ c \in Nat /\ c <= MaxTx
           /\ OwedFor(u, s, l, c) \in Nat
           /\ ~ (u /\ s = 1) => OwedFor(u, s, l, c) = 0
           /\ u /\ s = 1 /\ l => OwedFor(u, s, l, c) = (MaxTx - c) + 1
           /\ u /\ s = 1 /\ ~ l => OwedFor(u, s, l, c) = MaxTx - c
  <1>1. MaxTx \in Nat /\ c \in Nat /\ c <= MaxTx
    BY Bounds
  <1>2. QED
    BY <1>1 DEF OwedFor

LEMMA OwedIs ==
    ASSUME StateInv
    PROVE  /\ Load(leaf) \in Nat /\ Slots \in Nat /\ MaxTx \in Nat
           /\ current_tx_id \in Nat /\ current_tx_id <= MaxTx
           /\ Owed \in Nat
           /\ ~ (up /\ session = 1) => Owed = 0
           /\ up /\ session = 1 /\ locked => Owed = (MaxTx - current_tx_id) + 1
           /\ up /\ session = 1 /\ ~ locked => Owed = MaxTx - current_tx_id
  <1>1. Load(leaf) \in Nat /\ Slots \in Nat
    BY StateParts, LoadParts
  <1>2. up \in BOOLEAN /\ locked \in BOOLEAN /\ current_tx_id \in 0 .. MaxTx
    BY DEF StateInv, TypeOK
  <1>3. QED
    BY <1>1, <1>2, OwedForIs DEF Owed

LEMMA OwedIsNext ==
    ASSUME StateInv'
    PROVE  /\ Load(leaf') \in Nat /\ current_tx_id' \in Nat
           /\ current_tx_id' <= MaxTx /\ Owed' \in Nat
           /\ ~ (up' /\ session' = 1) => Owed' = 0
           /\ up' /\ session' = 1 /\ locked' => Owed' = (MaxTx - current_tx_id') + 1
           /\ up' /\ session' = 1 /\ ~ locked' => Owed' = MaxTx - current_tx_id'
  <1>1. /\ leaf' \in AnyNode
        /\ up' \in BOOLEAN /\ locked' \in BOOLEAN /\ current_tx_id' \in 0 .. MaxTx
    BY DEF StateInv, TypeOK
  <1>2. Owed' = OwedFor(up', session', locked', current_tx_id')
    BY DEF Owed
  <1>3. Load(leaf') \in Nat
    BY <1>1, LoadParts
  <1>4. QED
    BY <1>1, <1>2, <1>3, OwedForIs

LEMMA InitRoom ==
    ASSUME EnoughSlots, Init
    PROVE  RoomInv
  <1>1. StateInv
    BY InitState
  <1>2. LoggedCalls(history) = {}
    BY DEF Init, LoggedCalls
  <1>3. leaf.num_keys = 0
    BY DEF Init, Formatted, ZeroPage
  <1>4. Missing(leaf) = RowIds
    BY <1>3 DEF Missing, Present, Matches, Used
  <1>5. Load(leaf) = Cardinality(RowIds) /\ Cardinality(RowIds) \in Nat
    BY <1>1, <1>3, <1>4, StateParts, LoadParts DEF Load
  <1>6. Owed = MaxTx
    BY <1>1, OwedIs DEF Init
  <1>7. QED
    BY <1>1, <1>2, <1>5, <1>6, OwedIs DEF EnoughSlots, RoomInv

\* The history is longer by one statement.
LEMMA OnlyInsertsBefore ==
    ASSUME history \in Seq(Logged), NEW x \in Logged, history' = Append(history, x),
           OnlyInserts'
    PROVE  /\ OnlyInserts
           /\ Len(x.redo) = 1 /\ x.redo[1].call = "btree_insert"
           /\ LoggedCalls(history') \subseteq LoggedCalls(history) \cup {x.redo[1]}
  <1> DEFINE all == Append(history, x)
             n == Len(history)
  <1>1. /\ DOMAIN history = 1 .. n /\ DOMAIN all = 1 .. n + 1
        /\ all[n + 1] = x /\ \A i \in 1 .. n : all[i] = history[i]
        /\ n \in Nat
    BY AppendProperties
  <1>2. \A i \in DOMAIN all : Len(all[i].redo) = 1
                              /\ all[i].redo[1].call = "btree_insert"
    BY DEF OnlyInserts
  <1> HIDE DEF all, n
  <1>3. /\ n + 1 \in DOMAIN all /\ \A i \in DOMAIN history : i \in DOMAIN all
        /\ \A i \in DOMAIN all : i = n + 1 \/ i \in DOMAIN history
    BY <1>1
  <1>4. OnlyInserts
    BY <1>1, <1>2, <1>3 DEF OnlyInserts
  <1>5. Len(x.redo) = 1 /\ x.redo[1].call = "btree_insert"
    BY <1>1, <1>2, <1>3
  <1>6. ASSUME NEW c \in LoggedCalls(all)
        PROVE  c \in LoggedCalls(history) \cup {x.redo[1]}
    <2>1. PICK i \in DOMAIN all : \E j \in DOMAIN all[i].redo : c = all[i].redo[j]
      BY DEF LoggedCalls
    <2>2. CASE i \in DOMAIN history
      BY <1>1, <2>1, <2>2 DEF LoggedCalls
    <2>3. CASE i = n + 1
      <3>1. \E j \in DOMAIN x.redo : c = x.redo[j]
        BY <1>1, <2>1, <2>3
      <3>2. DOMAIN x.redo = 1 .. 1
        BY <1>5 DEF Logged
      <3>3. QED
        BY <3>1, <3>2
    <2>4. QED
      BY <1>3, <2>2, <2>3
  <1>7. QED
    BY <1>4, <1>5, <1>6 DEF all

\* An INSERT takes the room of its row, and dying gives up all rollbacks.
LEMMA StatementKeepsRoom ==
    ASSUME StateInv, StateInv', RoomInv,
           NEW record, NEW hd, WritesRecord(record, hd), NEW page,
           NEW redo \in Seq(AnyCall),
           Len(redo) = 1 /\ redo[1].call = "btree_insert" =>
               redo[1] \in RowCalls /\ page = Call(leaf, redo[1]),
           Statement(record, page, redo)
    PROVE  RoomInv'
  <1>1. StatementParts(record, page, redo)
    BY StatementIs
  <1>2. SUFFICES ASSUME OnlyInserts'
                 PROVE  LoggedCalls(history') \subseteq RowCalls
                        /\ Load(leaf') + Owed' <= Slots
    BY DEF RoomInv
  <1>3. leaf \in AnyNode /\ history \in Seq(Logged) /\ session' = session
    BY <1>1, StateParts DEF StatementParts
  <1> DEFINE x == [tx |-> begun, redo |-> redo]
  <1>4. x \in Logged /\ x.redo = redo
    BY StateParts DEF Logged
  <1> HIDE DEF x
  <1>5. CASE history' = Append(history, x)
    <2>1. /\ OnlyInserts /\ Len(redo) = 1 /\ redo[1].call = "btree_insert"
          /\ LoggedCalls(history') \subseteq LoggedCalls(history) \cup {redo[1]}
      BY <1>2, <1>3, <1>4, <1>5, OnlyInsertsBefore
    <2>2. redo[1] \in RowCalls /\ page = Call(leaf, redo[1])
      BY <2>1
    <2>3. LoggedCalls(history') \subseteq RowCalls /\ Load(leaf) + Owed <= Slots
      BY <2>1, <2>2 DEF RoomInv
    <2>4. Load(page) <= Load(leaf)
      BY <1>3, <2>2, RowCallShows
    <2>5. CASE leaf' = page /\ UNCHANGED <<up, locked, current_tx_id>>
      <3>1. Owed' = Owed /\ Load(leaf') <= Load(leaf)
        BY <1>3, <2>4, <2>5 DEF Owed
      <3>2. QED
        BY <2>3, <3>1, OwedIs, OwedIsNext
    <2>6. CASE Forget /\ leaf' = leaf
      <3>1. Owed' = 0
        BY <2>6, OwedIsNext DEF Forget
      <3>2. QED
        BY <2>3, <2>6, <3>1, OwedIs
    <2>7. QED
      BY <1>1, <2>5, <2>6 DEF StatementParts
  <1>6. CASE Forget /\ leaf' = leaf /\ history' = history
    <2>1. OnlyInserts
      BY <1>2, <1>6 DEF OnlyInserts
    <2>2. LoggedCalls(history') \subseteq RowCalls /\ Load(leaf) + Owed <= Slots
      BY <1>6, <2>1 DEF RoomInv
    <2>3. Owed' = 0
      BY <1>6, OwedIsNext DEF Forget
    <2>4. QED
      BY <1>6, <2>2, <2>3, OwedIs
  <1>7. QED
    BY <1>1, <1>5, <1>6 DEF StatementParts, Completed, x
LEMMA InsertKeepsRoom ==
    ASSUME StateInv, StateInv', RoomInv,
           NEW id \in RowIds, NEW value \in Texts, Insert(id, value)
    PROVE  RoomInv'
  <1>1. PICK pad \in Pads :
            Statement(wal_log_insert(lsn, current_tx_id, id, value, pad),
                      btree_insert(leaf, id, value),
                      Redo(LOG_RECORD_TYPE_INSERT, id, value))
    BY DEF Insert
  <1> DEFINE redo == Redo(LOG_RECORD_TYPE_INSERT, id, value)
             page == btree_insert(leaf, id, value)
             hd == LogRecordHeader(lsn, LOG_RECORD_TYPE_INSERT, current_tx_id,
                                   Len(TextBytes(value)), pad)
  <1>2. /\ id \in Int /\ id \in Int32 /\ value \in Contents
        /\ lsn \in Bytes /\ current_tx_id \in Bytes /\ Pads \subseteq Bytes
    BY StateParts, Bounds
  <1>3. redo \in Seq(AnyCall) /\ redo = << InsertCall(id, value) >>
    BY RedoIsOfCalls
  <1>4. redo[1] = InsertCall(id, value)
    BY <1>3
  <1>5. redo[1] \in RowCalls /\ page = Call(leaf, redo[1])
    BY <1>2, <1>4 DEF InsertCall, AnyCall, Call, RowCalls
  <1>6. WritesRecord(wal_log_insert(lsn, current_tx_id, id, value, pad), hd)
    BY <1>2, TypesOfRecords, RowRecordIsWritten DEF wal_log_insert
  <1>7. Statement(wal_log_insert(lsn, current_tx_id, id, value, pad), page, redo)
    BY <1>1
  <1> HIDE DEF redo, page, hd
  <1>8. QED
    BY <1>3, <1>5, <1>6, <1>7, StatementKeepsRoom

\* An UPDATE logs two calls, and there were not only INSERTs.
LEMMA UpdateKeepsRoom ==
    ASSUME StateInv, StateInv', RoomInv,
           NEW id \in RowIds, NEW value \in UpdateTexts, Update(id, value)
    PROVE  RoomInv'
  <1>1. PICK pad \in Pads :
            Statement(wal_log_update(lsn, current_tx_id, id, value, pad),
                      btree_insert(leaf, id, value),
                      Redo(LOG_RECORD_TYPE_UPDATE, id, value))
    BY DEF Update
  <1> DEFINE redo == Redo(LOG_RECORD_TYPE_UPDATE, id, value)
             page == btree_insert(leaf, id, value)
             hd == LogRecordHeader(lsn, LOG_RECORD_TYPE_UPDATE, current_tx_id,
                                   Len(TextBytes(value)), pad)
  <1>2. /\ id \in Int32 /\ value \in Texts
        /\ lsn \in Bytes /\ current_tx_id \in Bytes /\ Pads \subseteq Bytes
    BY StateParts, Bounds
  <1>3. redo \in Seq(AnyCall) /\ redo = << DeleteCall(id), InsertCall(id, value) >>
    BY <1>2, RedoIsOfCalls
  <1>4. Len(redo) # 1
    BY <1>3
  <1>5. WritesRecord(wal_log_update(lsn, current_tx_id, id, value, pad), hd)
    BY <1>2, TypesOfRecords, RowRecordIsWritten DEF wal_log_update
  <1>6. Statement(wal_log_update(lsn, current_tx_id, id, value, pad), page, redo)
    BY <1>1
  <1> HIDE DEF redo, page, hd
  <1>7. QED
    BY <1>3, <1>4, <1>5, <1>6, StatementKeepsRoom

\* Nor were there after a DELETE.
LEMMA DeleteKeepsRoom ==
    ASSUME StateInv, StateInv', RoomInv, NEW id \in RowIds, Delete(id)
    PROVE  RoomInv'
  <1>1. PICK pad \in Pads :
            Statement(wal_log_delete(lsn, current_tx_id, id, pad),
                      btree_delete(leaf, id),
                      Redo(LOG_RECORD_TYPE_DELETE, id, Blank))
    BY DEF Delete
  <1> DEFINE redo == Redo(LOG_RECORD_TYPE_DELETE, id, Blank)
             page == btree_delete(leaf, id)
             hd == LogRecordHeader(lsn, LOG_RECORD_TYPE_DELETE, current_tx_id, 0, pad)
  <1>2. /\ id \in Int32 /\ id \in Int
        /\ lsn \in Bytes /\ current_tx_id \in Bytes /\ Pads \subseteq Bytes
    BY StateParts, Bounds
  <1>3. redo \in Seq(AnyCall) /\ redo[1].call # "btree_insert"
    <2>1. redo = << DeleteCall(id) >>
      BY DEF Redo, LOG_RECORD_TYPE_INSERT, LOG_RECORD_TYPE_DELETE, LOG_RECORD_TYPE_UPDATE
    <2>2. DeleteCall(id) \in AnyCall /\ DeleteCall(id).call # "btree_insert"
      BY <1>2, Bounds DEF DeleteCall, AnyCall
    <2>3. QED
      BY <2>1, <2>2
  <1>4. WritesRecord(wal_log_delete(lsn, current_tx_id, id, pad), hd)
    BY <1>2, DeleteRecordIsWritten
  <1>5. Statement(wal_log_delete(lsn, current_tx_id, id, pad), page, redo)
    BY <1>1
  <1> HIDE DEF redo, page, hd
  <1>6. QED
    BY <1>3, <1>4, <1>5, StatementKeepsRoom

\* What is taken for a record takes one slot at most, that of an UPDATE too: it
\* deletes the row it inserts.
LEMMA RecordAddsOne ==
    ASSUME NEW n \in AnyNode, NEW cs, NEW key \in Int, NEW value \in Contents,
           cs \in {<< >>, << InsertCall(key, value) >>, << DeleteCall(key) >>,
                   << DeleteCall(key), InsertCall(key, value) >>}
    PROVE  Load(Calls(n, cs)) <= Load(n) + 1
  <1> DEFINE ins == InsertCall(key, value)
             del == DeleteCall(key)
             m   == Call(n, del)
  <1>1. /\ ins \in AnyCall /\ del \in AnyCall /\ << >> \in Seq(AnyCall)
        /\ << del >> \in Seq(AnyCall) /\ << >> = << >>
        /\ << ins >> = Append(<< >>, ins) /\ << del >> = Append(<< >>, del)
        /\ << del, ins >> = Append(<< del >>, ins)
    <2>1. ins \in AnyCall /\ del \in AnyCall
      BY RedoIsCalls
    <2> HIDE DEF ins, del
    <2>2. QED
      BY <2>1
  <1>2. /\ \A x : Call(x, ins) = btree_insert(x, key, value)
        /\ m = btree_delete(n, key)
    BY DEF Call, InsertCall, DeleteCall
  <1> HIDE DEF ins, del
  <1>3. /\ Calls(n, << >>) = n
        /\ Calls(n, << ins >>) = Call(n, ins)
        /\ Calls(n, << del >>) = m
        /\ Calls(n, << del, ins >>) = Call(m, ins)
    <2>1. Calls(n, << >>) = n
      BY CallsEmpty
    <2>2. Calls(n, << ins >>) = Call(n, ins) /\ Calls(n, << del >>) = m
      BY <1>1, <2>1, CallsAppend
    <2>3. Calls(n, << del, ins >>) = Call(m, ins)
      BY <1>1, <2>2, CallsAppend
    <2>4. QED
      BY <2>1, <2>2, <2>3
  <1>4. m \in AnyNode /\ Call(m, ins) \in AnyNode
    BY <1>1, CallKeepsShape
  <1>5. Load(Call(n, ins)) <= Load(n) + 1 /\ Load(m) <= Load(n) + 1
    BY <1>1, CallAddsOne
  <1>6. Load(Call(m, ins)) <= Load(n) + 1
    <2>1. Load(n) \in Nat /\ Load(m) \in Nat /\ Load(Call(m, ins)) \in Nat
      BY <1>4, LoadParts
    <2>2. CASE key \in RowIds
      <3>1. Load(Call(m, ins)) <= Load(m)
        BY <1>2, <1>4, <2>2, InsertKeepsLoad
      <3>2. QED
        BY <1>5, <2>1, <3>1
    <2>3. CASE key \notin RowIds
      <3>1. Load(m) <= Load(n)
        BY <1>2, <2>3, DeleteKeepsLoad
      <3>2. Load(Call(m, ins)) <= Load(m) + 1
        BY <1>1, <1>4, CallAddsOne
      <3>3. QED
        BY <2>1, <3>1, <3>2
    <2>4. QED
      BY <2>2, <2>3
  <1>7. Load(n) <= Load(n) + 1
    BY LoadParts
  <1>8. cs = << >> \/ cs = << ins >> \/ cs = << del >> \/ cs = << del, ins >>
    BY DEF ins, del
  <1>9. QED
    BY <1>3, <1>5, <1>6, <1>7, <1>8

LEMMA RowCallsKeepRoom ==
    ASSUME NEW n \in AnyNode, NEW cs \in Seq(RowCalls)
    PROVE  Load(Calls(n, cs)) <= Load(n)
  <1> DEFINE Good == {x \in AnyNode : Load(x) <= Load(n)}
  <1>1. \A i \in 1 .. Len(cs) : cs[i] \in RowCalls /\ cs[i] \in AnyCall
    BY DEF RowCalls
  <1>2. cs \in Seq(AnyCall)
    BY <1>1, SeqOver
  <1>3. ASSUME NEW i \in 1 .. Len(cs), NEW x \in Good
        PROVE  Call(x, cs[i]) \in Good
    <2>1. /\ x \in AnyNode /\ Call(x, cs[i]) \in AnyNode
          /\ Load(Call(x, cs[i])) <= Load(x)
      BY <1>1, RowCallShows
    <2>2. Load(x) \in Nat /\ Load(n) \in Nat /\ Load(Call(x, cs[i])) \in Nat
      BY <2>1, LoadParts
    <2>3. QED
      BY <2>1, <2>2
  <1>4. Good \in SUBSET AnyNode /\ n \in Good
    BY LoadParts
  <1> HIDE DEF Good
  <1>5. Calls(n, cs) \in Good
    BY <1>2, <1>3, <1>4, CallsKeep DEF Closed
  <1>6. QED
    BY <1>5 DEF Good

\* A rollback takes one record, and is one fewer to come.
LEMMA RollbackKeepsRoom ==
    ASSUME StateInv, StateInv', ReplayInv, RoomInv, Rollback
    PROVE  RoomInv'
  <1> DEFINE cs == wal_apply_committed_transactions
  <1>1. /\ leaf \in AnyNode /\ leaf' = Calls(leaf, cs)
        /\ up /\ locked /\ session = 1
        /\ history' = history /\ up' = up /\ session' = session
        /\ current_tx_id' = current_tx_id /\ ~ locked'
    BY StateParts DEF Rollback, ReplayInv
  <1>2. PICK key \in Int, value \in Contents :
            cs \in {<< >>, << InsertCall(key, value) >>, << DeleteCall(key) >>,
                    << DeleteCall(key), InsertCall(key, value) >>}
    BY RollbackMakesCalls
  <1> HIDE DEF cs
  <1>3. Load(leaf') <= Load(leaf) + 1
    BY <1>1, <1>2, RecordAddsOne
  <1>4. Owed' + 1 = Owed
    BY <1>1, OwedIs, OwedIsNext
  <1>5. OnlyInserts' => OnlyInserts
    BY <1>1 DEF OnlyInserts
  <1>6. QED
    BY <1>1, <1>3, <1>4, <1>5, OwedIs, OwedIsNext DEF RoomInv

\* What a recovery replays is calls of the log.
LEMMA RecoveryIsLogged ==
    ASSUME StateInv, ReplayInv
    PROVE  /\ wal_recover(log) = CommittedCalls
           /\ wal_recover(log) \in Seq(LoggedCalls(history))
  <1>1. wal_recover(log) = CommittedCalls
    BY DEF ReplayInv, ReplaysCommitted
  <1>2. history \in Seq(Logged)
    BY StateParts
  <1>3. QED
    BY <1>1, <1>2, CommittedIsSelected, SelectedAreLogged

LEMMA OtherActionsKeepRoom ==
    ASSUME InStep, StateInv, StateInv', ReplayInv, ReplayInv', RoomInv,
           Begin \/ Commit \/ Close \/ Open \/ UNCHANGED vars
    PROVE  RoomInv'
  <1>1. history' = history
    BY DEF Begin, Commit, Close, Open, ghosts, vars
  <1>2. SUFFICES ASSUME OnlyInserts
                 PROVE  Load(leaf') + Owed' <= Slots
    BY <1>1 DEF RoomInv, OnlyInserts
  <1>3. LoggedCalls(history) \subseteq RowCalls /\ Load(leaf) + Owed <= Slots
    BY <1>2 DEF RoomInv
  <1>4. CASE Begin
    <2>1. /\ leaf' = leaf /\ up' = up /\ session' = session /\ up /\ ~ locked /\ locked'
          /\ current_tx_id' = current_tx_id + 1
      BY <1>4 DEF Begin
    <2>2. session = 1
      BY <2>1 DEF ReplayInv
    <2>3. Owed' = Owed
      BY <2>1, <2>2, OwedIs, OwedIsNext
    <2>4. QED
      BY <1>3, <2>1, <2>3
  <1>5. CASE Commit
    <2>1. /\ leaf' = leaf /\ up' = up /\ session' = session /\ up /\ locked /\ ~ locked'
          /\ current_tx_id' = current_tx_id
      BY <1>5 DEF Commit
    <2>2. Owed = Owed' + 1
      BY <2>1, OwedIs, OwedIsNext DEF ReplayInv
    <2>3. QED
      BY <1>3, <2>1, <2>2, OwedIs, OwedIsNext
  <1>6. CASE Close
    <2>1. leaf' = leaf /\ Owed' = 0
      BY <1>6, OwedIsNext DEF Close, Forget
    <2>2. QED
      BY <1>3, <2>1, OwedIs
  <1>7. CASE Open
    <2> DEFINE calls == wal_recover(log)
    <2>1. PICK done \in 0 .. Len(calls) : leaf' = Calls(leaf, SubSeq(calls, 1, done))
      BY <1>7 DEF Open
    <2>2. calls \in Seq(RowCalls)
      <3>1. calls \in Seq(LoggedCalls(history))
        BY RecoveryIsLogged
      <3> HIDE DEF calls
      <3>2. \A i \in 1 .. Len(calls) : calls[i] \in RowCalls
        BY <1>3, <3>1
      <3>3. QED
        BY <3>1, <3>2, SeqOver
    <2> HIDE DEF calls
    <2>3. SubSeq(calls, 1, done) \in Seq(RowCalls) /\ leaf \in AnyNode
      BY <2>2, StateParts
    <2>4. Load(leaf') <= Load(leaf)
      BY <2>1, <2>3, RowCallsKeepRoom
    <2>5. Owed' = 0
      <3>1. session \in 1 .. 2 /\ Sessions = 1
        BY DEF StateInv, TypeOK, InStep
      <3>2. up' => session' = IF session <= Sessions THEN session + 1 ELSE session
        BY <1>7 DEF Open
      <3>3. up' => session' # 1
        BY <3>1, <3>2
      <3>4. QED
        BY <3>3, OwedIsNext
    <2>6. QED
      BY <1>3, <2>4, <2>5, OwedIs, OwedIsNext
  <1>8. CASE UNCHANGED vars
    BY <1>3, <1>8 DEF vars, Owed
  <1>9. QED
    BY <1>4, <1>5, <1>6, <1>7, <1>8

LEMMA StepRoom ==
    ASSUME InStep, StateInv, ReplayInv, RoomInv, [Next]_vars
    PROVE  RoomInv'
  <1>1. StateInv' /\ ReplayInv'
    BY StepState, StepReplay
  <1>2. CASE \E id \in RowIds : \/ \E value \in InsertTexts : Insert(id, value)
                                \/ \E value \in UpdateTexts : Update(id, value)
                                \/ Delete(id)
    BY <1>1, <1>2, InsertKeepsRoom, UpdateKeepsRoom, DeleteKeepsRoom DEF InsertTexts
  <1>3. CASE Rollback
    BY <1>1, <1>3, RollbackKeepsRoom
  <1>4. CASE Begin \/ Commit \/ Close \/ Open \/ UNCHANGED vars
    BY <1>1, <1>4, OtherActionsKeepRoom
  <1>5. QED
    BY <1>2, <1>3, <1>4 DEF Next

\* What a completed recovery shows of the rows that were committed.
RestoresStep ==
    ~ up /\ up' /\ OnlyInserts =>
        \A id \in RowIds \ {Tombstone} : LastCommitted(id) # NoRow =>
            btree_search(leaf', id) = LastCommitted(id)

LEMMA StepRestores ==
    ASSUME StateInv, ReplayInv, RoomInv, [Next]_vars
    PROVE  RestoresStep
  <1>1. SUFFICES ASSUME ~ up, up', OnlyInserts,
                        NEW id \in RowIds \ {Tombstone}, LastCommitted(id) # NoRow
                 PROVE  btree_search(leaf', id) = LastCommitted(id)
    BY DEF RestoresStep
  <1>2. Open
    <2>1. ~ Begin /\ ~ Commit /\ ~ Rollback /\ ~ Close
      BY <1>1 DEF Begin, Commit, Rollback, Close
    <2>2. \A i : \A v : ~ Insert(i, v) /\ ~ Update(i, v) /\ ~ Delete(i)
      BY <1>1 DEF Insert, Update, Delete
    <2>3. ~ UNCHANGED vars
      BY <1>1 DEF vars
    <2>4. QED
      BY <2>1, <2>2, <2>3 DEF Next
  <1> DEFINE calls == wal_recover(log)
  <1>3. PICK done \in 0 .. Len(calls) :
            leaf' = Calls(leaf, SubSeq(calls, 1, done)) /\ up' = (done = Len(calls))
    BY <1>2 DEF Open
  <1>4. calls = CommittedCalls /\ calls \in Seq(LoggedCalls(history))
    BY RecoveryIsLogged
  <1>5. LoggedCalls(history) \subseteq RowCalls /\ Load(leaf) + Owed <= Slots
    BY <1>1 DEF RoomInv
  <1> HIDE DEF calls
  <1>6. calls \in Seq(RowCalls)
    <2>1. \A i \in 1 .. Len(calls) : calls[i] \in RowCalls
      BY <1>4, <1>5
    <2>2. QED
      BY <1>4, <2>1, SeqOver
  <1>7. leaf' = Calls(leaf, calls)
    <2>1. SubSeq(calls, 1, Len(calls)) = calls
      BY <1>6
    <2>2. QED
      BY <1>1, <1>3, <2>1
  <1>8. leaf \in Roomy
    BY <1>5, StateParts, OwedIs DEF Roomy
  <1>9. ShowsLast(leaf', calls, Len(calls))
    BY <1>6, <1>7, <1>8, ReplayShows
  <1>10. LastCommitted(id) = IF Giving(calls, Len(calls), id) = {} THEN NoRow
                             ELSE calls[Max(Giving(calls, Len(calls), id))].value
    <2>1. DOMAIN calls = 1 .. Len(calls)
      BY <1>6
    <2>2. QED
      BY <1>4, <2>1 DEF LastCommitted, Giving
  <1>11. QED
    BY <1>1, <1>9, <1>10 DEF ShowsLast

\* As long as there were only INSERTs, a database that was opened has each row
\* that was committed, with the contents that were committed last, whatever later
\* transactions wrote over it and rollbacks deleted or garbled, wherever the
\* program died, and however often a recovery died half-way.
THEOREM RecoveryRestoresRows ==
    ASSUME InStep, EnoughSlots
    PROVE  Spec => RecoveryRestores
  <1> DEFINE Inv == StateInv /\ ReplayInv /\ RoomInv
  <1>1. Init => Inv
    BY InitState, InitReplay, InitRoom
  <1>2. Inv /\ [Next]_vars => Inv'
    BY StepState, StepReplay, StepRoom
  <1>3. Inv /\ [Next]_vars => [RestoresStep]_vars
    BY StepRestores
  <1>4. [][RestoresStep]_vars => RecoveryRestores
    BY DEF RestoresStep, RecoveryRestores
  <1>5. QED
    BY <1>1, <1>2, <1>3, <1>4, PTL DEF Spec


=============================================================================
