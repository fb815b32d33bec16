--------------------------------- MODULE Wal --------------------------------
(***************************************************************************)
(* wal.c: the write-ahead log, as operators on the bytes of wal.log.  The  *)
(* file is opened O_APPEND and never truncated, so it is only ever a       *)
(* sequence that grows; a record is written by one write() for its header, *)
(* one for its key and one for its contents, with no length of the whole,  *)
(* no checksum and no alignment.  A reader that takes a field for what it  *)
(* is not stays out of step from there on, so the bytes are kept.          *)
(***************************************************************************)
EXTENDS Integers, SequencesExt

CONSTANTS
    Texts,          \* the contents statements give to rows
    TextBytes(_),   \* a text as the bytes of a C string, its NUL included
    Garbled,        \* contents that no statement gave
    Blank,          \* the empty string
    UnsetKey        \* what is in the int key that read() did not fill

Bytes == 0 .. 255

\* The values of an int, -2^31 .. 2^31 - 1.
Int32 == {n \in Int : -2147483647 - 1 <= n /\ n <= 2147483647}

\* A text is a C string in a buffer of 256 bytes, and different texts differ.
ASSUME StringsAssumption ==
    /\ \A v \in Texts :
        /\ TextBytes(v) \in Seq(Bytes)
        /\ Len(TextBytes(v)) \in 1 .. 256
        /\ \A i \in 1 .. Len(TextBytes(v)) :
            TextBytes(v)[i] = 0 <=> i = Len(TextBytes(v))
    /\ \A v, w \in Texts : TextBytes(v) = TextBytes(w) => v = w
    /\ UnsetKey \in Int

\* LogRecordType
LOG_RECORD_TYPE_INSERT == 0
LOG_RECORD_TYPE_DELETE == 1
LOG_RECORD_TYPE_UPDATE == 2
LOG_RECORD_TYPE_COMMIT == 3
LOG_RECORD_TYPE_BEGIN  == 4

HeaderSize == 24

KeySize == 4

-----------------------------------------------------------------------------
(* Writing.  Of the numbers written, lsn, transaction ids and lengths need *)
(* two bytes at most.  A key is any int.                                   *)

LittleEndian(n, size) ==
    [i \in 1 .. size |-> IF i = 1 THEN n % 256
                         ELSE IF i = 2 THEN n \div 256 ELSE 0]

\* The bytes of an int in memory, in two's complement.
ByteOf(n, i) == (n \div <<1, 256, 65536, 16777216>>[i + 1]) % 256

KeyBytes(key) == [i \in 1 .. KeySize |-> ByteOf(key, i - 1)]

\* LogRecordHeader has six bytes of padding that nothing sets.
LogRecordHeader(lsn, type, tx_id, value_len, pad) ==
    LittleEndian(lsn, 8) \o LittleEndian(type, 4) \o LittleEndian(tx_id, 4)
        \o LittleEndian(value_len, 2) \o [i \in 1 .. 6 |-> pad]

\* A record is the sequence of the byte strings handed to write().
RowRecord(lsn, type, tx_id, key, value, pad) ==
    << LogRecordHeader(lsn, type, tx_id, Len(TextBytes(value)), pad),
       KeyBytes(key),
       TextBytes(value) >>

wal_log_insert(lsn, tx_id, key, value, pad) ==
    RowRecord(lsn, LOG_RECORD_TYPE_INSERT, tx_id, key, value, pad)

wal_log_update(lsn, tx_id, key, value, pad) ==
    RowRecord(lsn, LOG_RECORD_TYPE_UPDATE, tx_id, key, value, pad)

wal_log_delete(lsn, tx_id, key, pad) ==
    << LogRecordHeader(lsn, LOG_RECORD_TYPE_DELETE, tx_id, 0, pad),
       KeyBytes(key) >>

wal_log_commit(lsn, tx_id, pad) ==
    << LogRecordHeader(lsn, LOG_RECORD_TYPE_COMMIT, tx_id, 0, pad) >>

wal_log_begin(lsn, tx_id, pad) ==
    << LogRecordHeader(lsn, LOG_RECORD_TYPE_BEGIN, tx_id, 0, pad) >>

-----------------------------------------------------------------------------
(* Reading.  pos is the offset in the file of the next byte.                *)

\* A read that meets the end of the file fills the front of the buffer only.
ReadHeader(log, pos, old) ==
    [i \in 1 .. HeaderSize |->
        IF pos + i <= Len(log) THEN log[pos + i] ELSE old[i]]

Number(bytes, at) ==
    bytes[at + 1] + 256 * bytes[at + 2] + 65536 * bytes[at + 3]
        + 16777216 * (IF bytes[at + 4] < 128 THEN bytes[at + 4]
                                             ELSE bytes[at + 4] - 256)

Type(header) == Number(header, 8)

TxId(header) == Number(header, 12)

ValueLen(header) == header[17] + 256 * header[18]

ReadKey(log, pos) ==
    IF pos + KeySize <= Len(log) THEN Number(log, pos) ELSE UnsetKey

\* Contents of more than 255 bytes are skipped and come back as the empty
\* string; no contents at all leave the buffer as it was.
ReadValue(log, pos, len) ==
    IF len > 255 THEN Blank
    ELSE LET last  == IF pos + len <= Len(log) THEN pos + len ELSE Len(log)
             bytes == SubSeq(log, pos + 1, last)
         IN  IF \E v \in Texts : IsPrefix(TextBytes(v), bytes)
             THEN CHOOSE v \in Texts : IsPrefix(TextBytes(v), bytes)
             ELSE Garbled

\* Mutant of PastRecord: the key of a DELETE is not skipped.
PastRecordNoKey(header, pos, withContents) ==
    IF Type(header) \in withContents
    THEN pos + HeaderSize + KeySize + ValueLen(header)
    ELSE pos + HeaderSize

\* Where a reader goes on that is told which types have contents.
PastRecord(header, pos, withContents) ==
    IF Type(header) \in withContents
    THEN pos + HeaderSize + KeySize + ValueLen(header)
    ELSE IF Type(header) = LOG_RECORD_TYPE_DELETE
    THEN pos + HeaderSize + KeySize
    ELSE pos + HeaderSize

\* No loop below takes more rounds: each reads a header or the last bytes.
Rounds(log) == Len(log) \div HeaderSize + 1

Unread == [i \in 1 .. HeaderSize |-> 0]

\* The key and the contents of an UPDATE are not skipped: they are read as the
\* beginning of the next header.
CommitRound(log, s) ==
    LET h == ReadHeader(log, s.pos, s.header)
    IN  IF s.pos >= Len(log) THEN s
        ELSE [pos    |-> PastRecord(h, s.pos, {LOG_RECORD_TYPE_INSERT}),
              header |-> h,
              ids    |-> IF Type(h) = LOG_RECORD_TYPE_COMMIT
                         THEN s.ids \cup {TxId(h)} ELSE s.ids]

wal_get_committed_tx_ids(log) ==
    LET scan[n \in 0 .. Rounds(log)] ==
            IF n = 0 THEN [pos |-> 0, header |-> Unread, ids |-> {}]
            ELSE CommitRound(log, scan[n - 1])
    IN  scan[Rounds(log)].ids

\* The calls of btree.c that replaying a record makes.
InsertCall(key, value) == [call |-> "btree_insert", key |-> key, value |-> value]

DeleteCall(key) == [call |-> "btree_delete", key |-> key, value |-> Blank]

Redo(type, key, value) ==
    CASE type = LOG_RECORD_TYPE_INSERT -> << InsertCall(key, value) >>
      [] type = LOG_RECORD_TYPE_DELETE -> << DeleteCall(key) >>
      [] type = LOG_RECORD_TYPE_UPDATE -> << DeleteCall(key),
                                             InsertCall(key, value) >>
      [] OTHER -> << >>

\* The records of the transactions in ids are replayed, in the order of the file.
\* The others are skipped, the contents of an UPDATE again excepted.
ReplayRound(log, ids, s) ==
    LET h    == ReadHeader(log, s.pos, s.header)
        body == s.pos + HeaderSize
    IN  IF s.pos >= Len(log) THEN s
        ELSE IF TxId(h) \in ids
        THEN [pos    |-> PastRecord(h, s.pos, {LOG_RECORD_TYPE_INSERT,
                                               LOG_RECORD_TYPE_UPDATE}),
              header |-> h,
              calls  |-> s.calls \o
                            Redo(Type(h), ReadKey(log, body),
                                 ReadValue(log, body + KeySize, ValueLen(h)))]
        ELSE [pos    |-> PastRecord(h, s.pos, {LOG_RECORD_TYPE_INSERT}),
              header |-> h,
              calls  |-> s.calls]

wal_replay(log, ids) ==
    LET replay[n \in 0 .. Rounds(log)] ==
            IF n = 0 THEN [pos |-> 0, header |-> Unread, calls |-> << >>]
            ELSE ReplayRound(log, ids, replay[n - 1])
    IN  replay[Rounds(log)].calls

\* The calls of a whole recovery: those of the records whose transaction id is
\* that of some COMMIT record.
wal_recover(log) == wal_replay(log, wal_get_committed_tx_ids(log))

=============================================================================
