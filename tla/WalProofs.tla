------------------------------ MODULE WalProofs -----------------------------
(***************************************************************************)
(* What the readers of wal.log make of its bytes (Wal), for every log: that*)
(* a recovery makes calls of btree.c whatever the bytes are, and that a    *)
(* reader that is at the end of a log, behind a last complete record, reads*)
(* or skips the next record as it was written.  The two loops of wal.c go  *)
(* through the same states, so both are one loop here (Round), and a proof *)
(* that goes by its rounds goes by the iteration lemmas of Recursion.  The *)
(* scan of the database file (FileScan) makes calls of btree.c as well.    *)
(***************************************************************************)
EXTENDS FileScan, LeafProofs

\* A call keeps a leaf a leaf.
LEMMA CallKeepsShape ==
    ASSUME NEW n \in AnyNode, NEW c \in AnyCall
    PROVE  Call(n, c) \in AnyNode
  <1>1. /\ c.call = "btree_insert" \/ c.call = "btree_delete"
        /\ c.key \in Int /\ c.value \in Contents
    BY DEF AnyCall
  <1>2. QED
    BY <1>1, OperationsKeepShape DEF Call

\* The calls as the steps of a loop, over leaves that they keep in S.
CallStep(S, cs) == [i \in 1 .. Len(cs) |-> [x \in S |-> Call(x, cs[i])]]

Closed(S, cs) == \A i \in 1 .. Len(cs), x \in S : Call(x, cs[i]) \in S

\* The leaves that each of the calls in A keeps.
ClosedUnder(S, A) == \A x \in S, c \in A : Call(x, c) \in S

\* Each of these steps is a call.
LEMMA CallSteps ==
    ASSUME NEW S, NEW A, NEW cs \in Seq(A), Closed(S, cs)
    PROVE  /\ Len(cs) \in Nat
           /\ CallStep(S, cs) \in [1 .. Len(cs) -> [S -> S]]
           /\ \A i \in 1 .. Len(cs), x \in S : CallStep(S, cs)[i][x] = Call(x, cs[i])
  <1>1. Len(cs) \in Nat
    OBVIOUS
  <1>2. CallStep(S, cs) \in [1 .. Len(cs) -> [S -> S]]
    BY DEF CallStep, Closed
  <1>3. QED
    BY <1>1, <1>2 DEF CallStep

\* Several calls are made one after the other.
LEMMA CallsAre ==
    ASSUME NEW S, NEW node \in S, NEW A, NEW cs \in Seq(A), Closed(S, cs), NEW g,
           IsRun(g, Len(cs), S, node, CallStep(S, cs))
    PROVE  Calls(node, cs) = g[Len(cs)]
  <1> DEFINE n      == Len(cs)
             Prefix(i) == 1 .. i
             Is(f)  == f = [s \in SUBSET Prefix(n) |->
                               IF s = {} THEN node
                               ELSE Call(f[s \ {Max(s)}], cs[Max(s)])]
             f == CHOOSE f : Is(f)
  <1>1. DOMAIN cs = 1 .. Len(cs)
    OBVIOUS
  <1>2. Calls(node, cs) = f[Prefix(n)]
    BY <1>1 DEF Calls, FoldLeft, MapThenFoldSet
  <1>3. \A i \in 1 .. n : /\ Prefix(i) \in SUBSET Prefix(n) /\ Prefix(i) # {}
                          /\ Max(Prefix(i)) = i
                          /\ Prefix(i) \ {i} = Prefix(i - 1)
    <2>1. SUFFICES ASSUME NEW i \in 1 .. n
                   PROVE  /\ Prefix(i) \in SUBSET Prefix(n) /\ Prefix(i) # {}
                          /\ Max(Prefix(i)) = i
                          /\ Prefix(i) \ {i} = Prefix(i - 1)
      OBVIOUS
    <2>2. /\ i - 1 \in Nat /\ (i - 1) + 1 = i /\ i \in Prefix(i)
          /\ Prefix(i) \in SUBSET (1 .. (i - 1) + 1)
      OBVIOUS
    <2>3. Max(Prefix(i)) = i
      BY <2>2, MaxOfSuccessor
    <2>4. Prefix(i) \in SUBSET Prefix(n) /\ Prefix(i) \ {i} = Prefix(i - 1)
      OBVIOUS
    <2>5. QED
      BY <2>2, <2>3, <2>4
  <1>4. Prefix(0) = {} /\ {} \in SUBSET Prefix(n)
    OBVIOUS
  <1>5. \A s \in SUBSET Prefix(n) : s # {} =>
            Max(s) \in Prefix(n) /\ s \ {Max(s)} \in SUBSET Prefix(n)
    <2>1. n \in Nat
      OBVIOUS
    <2> HIDE DEF n
    <2>2. \A s \in SUBSET Prefix(n) : s # {} => Max(s) \in s
      BY <2>1, MaxOfNats
    <2>3. QED
      BY <2>2
  <1>6. Is(f)
    <2>1. PICK h : IsFold(h, n, S, node, CallStep(S, cs))
      BY CallSteps, FoldRecursion
    <2>2. /\ h \in [SUBSET Prefix(n) -> S] /\ h[{}] = node
          /\ \A t \in SUBSET Prefix(n) :
                t # {} => h[t] = CallStep(S, cs)[Max(t)][h[t \ {Max(t)}]]
      BY <2>1 DEF IsFold
    <2>3. \A t \in SUBSET Prefix(n) :
                t # {} => h[t] = Call(h[t \ {Max(t)}], cs[Max(t)])
      <3>1. \A i \in Prefix(n), x \in S : CallStep(S, cs)[i][x] = Call(x, cs[i])
        BY CallSteps
      <3> HIDE DEF Prefix
      <3>2. QED
        BY <1>5, <2>2, <3>1
    <2> HIDE DEF Prefix, n
    <2>4. Is(h)
      BY <2>2, <2>3
    <2> HIDE DEF Is
    <2>5. QED
      BY <2>4
  <1>7. f[{}] = node /\ \A i \in 1 .. n : f[Prefix(i)] = Call(f[Prefix(i - 1)], cs[i])
    <2> HIDE DEF f, Prefix, n
    <2>1. QED
      BY <1>3, <1>4, <1>6
  <1>8. /\ g[0] = node
        /\ \A i \in 1 .. n : g[i] = Call(g[i - 1], cs[i])
    <2>1. /\ g \in [0 .. n -> S] /\ g[0] = node
          /\ \A i \in 1 .. n : g[i] = CallStep(S, cs)[i][g[i - 1]]
      BY DEF IsRun
    <2>2. \A i \in 1 .. n : i - 1 \in 0 .. n
      BY CallSteps
    <2>3. QED
      BY <2>1, <2>2, CallSteps
  <1> DEFINE r == [i \in 0 .. n |-> f[Prefix(i)]]
  <1> HIDE DEF f, Prefix
  <1>9. /\ n \in Nat /\ \A i \in 0 .. n : r[i] = f[Prefix(i)]
        /\ \A i \in 1 .. n : i \in 0 .. n /\ i - 1 \in 0 .. n
        /\ 0 \in 0 .. n /\ n \in 0 .. n
    BY CallSteps
  <1> HIDE DEF r, n
  <1>10. SameSteps(r, g, n)
    BY <1>4, <1>7, <1>8, <1>9 DEF SameSteps
  <1>11. Agree(r, g, n)
    BY <1>9, <1>10, RunsAgree
  <1>12. QED
    BY <1>2, <1>9, <1>11 DEF Agree, n

\* What each call keeps, several calls keep.
LEMMA CallsKeep ==
    ASSUME NEW S, NEW node \in S, NEW A, NEW cs \in Seq(A), Closed(S, cs)
    PROVE  Calls(node, cs) \in S
  <1>1. PICK g : IsRun(g, Len(cs), S, node, CallStep(S, cs))
    BY CallSteps, Iteration
  <1>2. Calls(node, cs) = g[Len(cs)]
    BY <1>1, CallsAre
  <1>3. g \in [0 .. Len(cs) -> S] /\ Len(cs) \in 0 .. Len(cs)
    BY <1>1 DEF IsRun
  <1>4. QED
    BY <1>2, <1>3

\* Calls keep a leaf a leaf.
LEMMA CallsAreClosed ==
    ASSUME NEW cs \in Seq(AnyCall)
    PROVE  Closed(AnyNode, cs)
  <1>1. \A i \in 1 .. Len(cs) : cs[i] \in AnyCall
    OBVIOUS
  <1>2. QED
    BY <1>1, CallKeepsShape DEF Closed

\* Whatever calls are made, a leaf stays a leaf.
LEMMA CallsKeepShape ==
    ASSUME NEW node \in AnyNode, NEW cs \in Seq(AnyCall)
    PROVE  Calls(node, cs) \in AnyNode
  BY CallsAreClosed, CallsKeep

\* No calls.
LEMMA CallsEmpty ==
    ASSUME NEW node
    PROVE  Calls(node, << >>) = node
  <1> DEFINE S == {node}
  <1>1. << >> \in Seq(AnyCall) /\ Len(<< >>) = 0 /\ node \in S
    OBVIOUS
  <1> HIDE DEF S
  <1>2. Closed(S, << >>)
    BY <1>1 DEF Closed
  <1>3. PICK g : IsRun(g, Len(<< >>), S, node, CallStep(S, << >>))
    BY <1>1, <1>2, CallSteps, Iteration
  <1>4. Calls(node, << >>) = g[Len(<< >>)]
    BY <1>1, <1>2, <1>3, CallsAre
  <1>5. QED
    BY <1>1, <1>3, <1>4 DEF IsRun

\* The last of some calls is made last.
LEMMA CallsAppendOver ==
    ASSUME NEW S, NEW A, ClosedUnder(S, A),
           NEW node \in S, NEW cs \in Seq(A), NEW c \in A
    PROVE  Calls(node, Append(cs, c)) = Call(Calls(node, cs), c)
  <1> DEFINE n   == Len(cs)
             all == Append(cs, c)
  <1>1. /\ all \in Seq(A) /\ Len(all) = n + 1 /\ n \in Nat
        /\ all[n + 1] = c /\ \A i \in 1 .. n : all[i] = cs[i]
    BY AppendProperties
  <1> HIDE DEF all
  <1>2. Closed(S, cs) /\ Closed(S, all)
    <2>1. /\ \A i \in 1 .. Len(cs) : cs[i] \in A
          /\ \A i \in 1 .. Len(all) : all[i] \in A
      BY <1>1
    <2>2. QED
      BY <2>1 DEF Closed, ClosedUnder
  <1>3. PICK h : IsRun(h, Len(all), S, node, CallStep(S, all))
    BY <1>1, <1>2, CallSteps, Iteration
  <1>4. Calls(node, all) = h[n + 1]
    BY <1>1, <1>3, <1>2, CallsAre
  <1>5. PICK g : IsRun(g, n, S, node, CallStep(S, cs))
    BY <1>1, <1>2, CallSteps, Iteration
  <1>6. Calls(node, cs) = g[n]
    BY <1>5, <1>2, CallsAre
  <1>7. /\ h \in [0 .. n + 1 -> S] /\ h[0] = node
        /\ \A i \in 1 .. n + 1 : h[i] = CallStep(S, all)[i][h[i - 1]]
    BY <1>1, <1>3 DEF IsRun
  <1>8. /\ g \in [0 .. n -> S] /\ g[0] = node
        /\ \A i \in 1 .. n : g[i] = CallStep(S, cs)[i][g[i - 1]]
    BY <1>5 DEF IsRun
  <1>9. /\ \A i \in 1 .. n, x \in S :
              CallStep(S, cs)[i][x] = Call(x, cs[i])
        /\ \A i \in 1 .. n + 1, x \in S :
              CallStep(S, all)[i][x] = Call(x, all[i])
    BY <1>1, <1>2, CallSteps
  <1> HIDE DEF n
  <1>10. /\ \A i \in 1 .. n : i - 1 \in 0 .. n /\ i \in 1 .. n + 1
        /\ \A i \in 1 .. n + 1 : i - 1 \in 0 .. n + 1
        /\ n + 1 \in 1 .. n + 1 /\ (n + 1) - 1 = n /\ n \in 0 .. n
    BY <1>1
  <1>11. /\ \A i \in 1 .. n : g[i] = Call(g[i - 1], cs[i])
         /\ \A i \in 1 .. n + 1 : h[i] = Call(h[i - 1], all[i])
    BY <1>7, <1>8, <1>9, <1>10
  <1>12. SameSteps(g, h, n)
    BY <1>1, <1>7, <1>8, <1>10, <1>11 DEF SameSteps
  <1>13. Agree(g, h, n)
    BY <1>1, <1>12, RunsAgree
  <1>14. g[n] = h[n] /\ h[n + 1] = Call(h[n], c)
    BY <1>1, <1>10, <1>11, <1>13 DEF Agree
  <1>15. QED
    BY <1>4, <1>6, <1>14 DEF all

\* The same for the leaf of a table.
LEMMA CallsAppend ==
    ASSUME NEW node \in AnyNode, NEW cs \in Seq(AnyCall), NEW c \in AnyCall
    PROVE  Calls(node, Append(cs, c)) = Call(Calls(node, cs), c)
  <1>1. ClosedUnder(AnyNode, AnyCall)
    BY CallKeepsShape DEF ClosedUnder
  <1>2. QED
    BY <1>1, CallsAppendOver


-----------------------------------------------------------------------------
(* What a reader of the log makes of bytes, whichever they are.             *)

Headers == [1 .. HeaderSize -> Bytes]

\* A byte, as a range of integers (the set alone sends the prover to its
\* elements).
LEMMA ByteIs == \A x : x \in Bytes <=> x \in Int /\ 0 <= x /\ x <= 255
  BY DEF Bytes

\* A header that was read is a header, complete or not.
LEMMA HeaderRead ==
    ASSUME NEW log \in Seq(Bytes), NEW pos \in Nat, NEW old \in Headers
    PROVE  ReadHeader(log, pos, old) \in Headers
  <1>1. \A i \in 1 .. HeaderSize :
            pos + i <= Len(log) => log[pos + i] \in Bytes
    <2>1. \A i \in 1 .. HeaderSize : i \in Nat /\ i >= 1
      BY DEF HeaderSize
    <2>2. \A j \in 1 .. Len(log) : log[j] \in Bytes
      OBVIOUS
    <2>3. QED
      BY <2>1, <2>2
  <1>2. \A i \in 1 .. HeaderSize : old[i] \in Bytes
    BY DEF Headers
  <1>3. QED
    BY <1>1, <1>2 DEF ReadHeader, Headers

\* Four bytes are some number.
LEMMA NumberIsInt ==
    ASSUME NEW b, NEW at,
           b[at + 1] \in Bytes, b[at + 2] \in Bytes,
           b[at + 3] \in Bytes, b[at + 4] \in Bytes
    PROVE  Number(b, at) \in Int
  <1> DEFINE x == b[at + 1]
             y == b[at + 2]
             z == b[at + 3]
             w == b[at + 4]
  <1>1. x \in Int /\ y \in Int /\ z \in Int /\ w \in Int
    BY ByteIs
  <1>2. Number(b, at) = x + 256 * y + 65536 * z
                          + 16777216 * (IF w < 128 THEN w ELSE w - 256)
    BY DEF Number
  <1> HIDE DEF x, y, z, w
  <1>3. QED
    BY <1>1, <1>2

\* So the fields of a header are numbers.
LEMMA HeaderFields ==
    ASSUME NEW h \in Headers
    PROVE  Type(h) \in Int /\ TxId(h) \in Int /\ ValueLen(h) \in Nat
  <1>1. \A i \in 1 .. 24 : h[i] \in Bytes
    BY DEF Headers, HeaderSize
  <1>2. /\ h[8 + 1] \in Bytes /\ h[8 + 2] \in Bytes
        /\ h[8 + 3] \in Bytes /\ h[8 + 4] \in Bytes
        /\ h[12 + 1] \in Bytes /\ h[12 + 2] \in Bytes
        /\ h[12 + 3] \in Bytes /\ h[12 + 4] \in Bytes
        /\ h[17] \in Bytes /\ h[18] \in Bytes
    BY <1>1
  <1>3. Number(h, 8) \in Int /\ Number(h, 12) \in Int
    BY <1>2, NumberIsInt
  <1>4. ValueLen(h) \in Nat
    <2> DEFINE x == h[17]
               y == h[18]
    <2>1. x \in Nat /\ y \in Nat
      BY <1>2, ByteIs
    <2>2. ValueLen(h) = x + 256 * y
      BY DEF ValueLen
    <2> HIDE DEF x, y
    <2>3. QED
      BY <2>1, <2>2
  <1>5. QED
    BY <1>3, <1>4 DEF Type, TxId

\* A reader never goes back and moves by a header at least.
LEMMA RecordsAdvance ==
    ASSUME NEW h \in Headers, NEW pos \in Nat, NEW types
    PROVE  /\ PastRecord(h, pos, types) \in Nat
           /\ PastRecord(h, pos, types) >= pos + HeaderSize
  BY HeaderFields DEF PastRecord, HeaderSize, KeySize

\* A key that was read is some number.
LEMMA KeyRead ==
    ASSUME NEW log \in Seq(Bytes), NEW pos \in Nat
    PROVE  ReadKey(log, pos) \in Int
  <1>1. CASE pos + KeySize <= Len(log)
    <2>1. /\ pos + 1 \in 1 .. Len(log) /\ pos + 2 \in 1 .. Len(log)
          /\ pos + 3 \in 1 .. Len(log) /\ pos + 4 \in 1 .. Len(log)
      BY <1>1 DEF KeySize
    <2>2. \A j \in 1 .. Len(log) : log[j] \in Bytes
      OBVIOUS
    <2>3. Number(log, pos) \in Int
      BY <2>1, <2>2, NumberIsInt
    <2>4. QED
      BY <1>1, <2>3 DEF ReadKey
  <1>2. CASE ~ (pos + KeySize <= Len(log))
    BY <1>2, StringsAssumption DEF ReadKey
  <1>3. QED
    BY <1>1, <1>2

\* Contents that were read are some contents.
LEMMA ValueRead ==
    ASSUME NEW log, NEW pos, NEW len
    PROVE  ReadValue(log, pos, len) \in Contents
  <1> DEFINE bytes == SubSeq(log, pos + 1,
                             IF pos + len <= Len(log) THEN pos + len ELSE Len(log))
             Found == \E v \in Texts : IsPrefix(TextBytes(v), bytes)
  <1>1. ReadValue(log, pos, len) =
            IF len > 255 THEN Blank
            ELSE IF Found THEN CHOOSE v \in Texts : IsPrefix(TextBytes(v), bytes)
            ELSE Garbled
    BY DEF ReadValue
  <1>2. Found => (CHOOSE v \in Texts : IsPrefix(TextBytes(v), bytes)) \in Texts
    <2> HIDE DEF bytes
    <2>1. QED
      OBVIOUS
  <1> HIDE DEF Found
  <1>3. QED
    BY <1>1, <1>2, ContentsAssumption

\* A record of any type is replayed by calls.
LEMMA RedoIsCalls ==
    ASSUME NEW type, NEW key \in Int, NEW value \in Contents
    PROVE  /\ Redo(type, key, value) \in Seq(AnyCall)
           /\ InsertCall(key, value) \in AnyCall /\ DeleteCall(key) \in AnyCall
  <1>1. InsertCall(key, value) \in AnyCall
    BY DEF InsertCall, AnyCall
  <1>2. DeleteCall(key) \in AnyCall
    BY ContentsAssumption DEF DeleteCall, AnyCall
  <1>3. /\ << InsertCall(key, value) >> \in Seq(AnyCall)
        /\ << DeleteCall(key) >> \in Seq(AnyCall)
        /\ << DeleteCall(key), InsertCall(key, value) >> \in Seq(AnyCall)
        /\ << >> \in Seq(AnyCall)
    BY <1>1, <1>2
  <1>4. QED
    BY <1>1, <1>2, <1>3 DEF Redo, LOG_RECORD_TYPE_INSERT, LOG_RECORD_TYPE_DELETE,
                            LOG_RECORD_TYPE_UPDATE

-----------------------------------------------------------------------------
(* The two loops over the log, as one: the loop that collects the ids of the *)
(* committed transactions goes where the loop that replays none would go.    *)

LoopState == [pos    : Nat,
              header : Headers,
              ids    : SUBSET Int,
              calls  : Seq(AnyCall)]

LoopStart == [pos |-> 0, header |-> Unread, ids |-> {}, calls |-> << >>]

Round(log, I, s) ==
    LET h    == ReadHeader(log, s.pos, s.header)
        body == s.pos + HeaderSize
    IN  [pos    |-> IF TxId(h) \in I
                    THEN PastRecord(h, s.pos, {LOG_RECORD_TYPE_INSERT,
                                               LOG_RECORD_TYPE_UPDATE})
                    ELSE PastRecord(h, s.pos, {LOG_RECORD_TYPE_INSERT}),
         header |-> h,
         ids    |-> IF Type(h) = LOG_RECORD_TYPE_COMMIT
                    THEN s.ids \cup {TxId(h)} ELSE s.ids,
         calls  |-> IF TxId(h) \in I
                    THEN s.calls \o Redo(Type(h), ReadKey(log, body),
                                        ReadValue(log, body + KeySize, ValueLen(h)))
                    ELSE s.calls]

\* A round leads to a state of the loop, a header further at least.
LEMMA RoundIsState ==
    ASSUME NEW log \in Seq(Bytes), NEW I, NEW s \in LoopState
    PROVE  /\ Round(log, I, s) \in LoopState
           /\ Round(log, I, s).pos >= s.pos + HeaderSize
  <1> DEFINE h    == ReadHeader(log, s.pos, s.header)
             body == s.pos + HeaderSize
             key  == ReadKey(log, body)
             text == ReadValue(log, body + KeySize, ValueLen(h))
             pos  == IF TxId(h) \in I
                     THEN PastRecord(h, s.pos, {LOG_RECORD_TYPE_INSERT,
                                                LOG_RECORD_TYPE_UPDATE})
                     ELSE PastRecord(h, s.pos, {LOG_RECORD_TYPE_INSERT})
             ids  == IF Type(h) = LOG_RECORD_TYPE_COMMIT
                     THEN s.ids \cup {TxId(h)} ELSE s.ids
             calls == IF TxId(h) \in I
                      THEN s.calls \o Redo(Type(h), key, text) ELSE s.calls
  <1>1. /\ s.pos \in Nat /\ s.header \in Headers /\ s.ids \in SUBSET Int
        /\ s.calls \in Seq(AnyCall)
    BY DEF LoopState
  <1>2. h \in Headers
    BY <1>1, HeaderRead
  <1>3. TxId(h) \in Int
    BY <1>2, HeaderFields
  <1>4. body \in Nat /\ key \in Int
    BY <1>1, KeyRead DEF HeaderSize
  <1>5. text \in Contents
    BY ValueRead
  <1>6. Round(log, I, s) = [pos |-> pos, header |-> h, ids |-> ids, calls |-> calls]
    BY DEF Round
  <1> HIDE DEF h, key, text
  <1>7. pos \in Nat /\ pos >= s.pos + HeaderSize
    BY <1>1, <1>2, RecordsAdvance
  <1>8. Redo(Type(h), key, text) \in Seq(AnyCall)
    BY <1>4, <1>5, RedoIsCalls
  <1>9. calls \in Seq(AnyCall)
    BY <1>1, <1>8, ConcatProperties
  <1>10. ids \in SUBSET Int
    BY <1>1, <1>3
  <1> HIDE DEF pos, ids, calls, body
  <1>11. QED
    BY <1>2, <1>6, <1>7, <1>9, <1>10 DEF LoopState

-----------------------------------------------------------------------------
(* Bytes behind the end of a record do not change how it is read.           *)

\* The bytes of two strings, joined.
LEMMA LongerLog ==
    ASSUME NEW log \in Seq(Bytes), NEW tail \in Seq(Bytes)
    PROVE  /\ log \o tail \in Seq(Bytes)
           /\ Len(log \o tail) = Len(log) + Len(tail)
           /\ Len(log) \in Nat /\ Len(tail) \in Nat
           /\ \A i \in 1 .. Len(log) : (log \o tail)[i] = log[i]
           /\ \A i \in 1 .. Len(tail) : (log \o tail)[Len(log) + i] = tail[i]
           /\ \A i \in Len(log) + 1 .. Len(log) + Len(tail) :
                 (log \o tail)[i] = tail[i - Len(log)]
  <1>1. /\ log \o tail \in Seq(Bytes)
        /\ Len(log \o tail) = Len(log) + Len(tail)
        /\ Len(log) \in Nat /\ Len(tail) \in Nat
        /\ \A i \in 1 .. Len(log) : (log \o tail)[i] = log[i]
        /\ \A i \in 1 .. Len(tail) : (log \o tail)[Len(log) + i] = tail[i]
    BY ConcatProperties
  <1>2. \A i \in Len(log) + 1 .. Len(log) + Len(tail) :
            /\ i - Len(log) \in 1 .. Len(tail)
            /\ Len(log) + (i - Len(log)) = i
    BY <1>1
  <1>3. QED
    BY <1>1, <1>2

\* A key before the end is read as it was.
LEMMA KeyIsStable ==
    ASSUME NEW log \in Seq(Bytes), NEW tail \in Seq(Bytes), NEW pos \in Nat,
           pos + KeySize <= Len(log)
    PROVE  ReadKey(log \o tail, pos) = ReadKey(log, pos)
  <1> DEFINE all == log \o tail
  <1>1. /\ pos + 1 \in 1 .. Len(log) /\ pos + 2 \in 1 .. Len(log)
        /\ pos + 3 \in 1 .. Len(log) /\ pos + 4 \in 1 .. Len(log)
        /\ pos + KeySize <= Len(all)
    BY LongerLog DEF KeySize
  <1>2. \A i \in 1 .. Len(log) : all[i] = log[i]
    BY LongerLog
  <1> HIDE DEF all
  <1>3. Number(all, pos) = Number(log, pos)
    BY <1>1, <1>2 DEF Number
  <1>4. ReadKey(all, pos) = ReadKey(log, pos)
    BY <1>1, <1>3 DEF ReadKey
  <1>5. QED
    BY <1>4 DEF all

\* And so are contents.
LEMMA ValueIsStable ==
    ASSUME NEW log \in Seq(Bytes), NEW tail \in Seq(Bytes), NEW pos \in Nat,
           NEW len \in Nat, pos + len <= Len(log)
    PROVE  ReadValue(log \o tail, pos, len) = ReadValue(log, pos, len)
  <1> DEFINE all == log \o tail
  <1>1. pos + len <= Len(all) /\ SubSeq(all, pos + 1, pos + len)
                                   = SubSeq(log, pos + 1, pos + len)
    <2>1. Len(all) = Len(log) + Len(tail) /\ Len(log) \in Nat /\ Len(tail) \in Nat
      BY LongerLog
    <2>2. SubSeq(all, pos + 1, pos + len) = SubSeq(log, pos + 1, pos + len)
      BY SubSeqOfConcat1, <2>1
    <2>3. QED
      BY <2>1, <2>2
  <1> HIDE DEF all
  <1>2. ReadValue(all, pos, len) = ReadValue(log, pos, len)
    BY <1>1 DEF ReadValue
  <1>3. QED
    BY <1>2 DEF all

\* And so is a round that ends before the end.
LEMMA RoundIsStable ==
    ASSUME NEW log \in Seq(Bytes), NEW tail \in Seq(Bytes), NEW I,
           NEW s \in LoopState, Round(log, I, s).pos <= Len(log)
    PROVE  Round(log \o tail, I, s) = Round(log, I, s)
  <1> DEFINE all  == log \o tail
             h    == ReadHeader(log, s.pos, s.header)
             body == s.pos + HeaderSize
             len  == ValueLen(h)
             read(l) == Redo(Type(h), ReadKey(l, body),
                             ReadValue(l, body + KeySize, len))
  <1>1. /\ s.pos \in Nat /\ s.header \in Headers
        /\ h \in Headers /\ body \in Nat /\ len \in Nat
    <2>1. s.pos \in Nat /\ s.header \in Headers
      BY DEF LoopState
    <2>2. h \in Headers
      BY <2>1, HeaderRead
    <2>3. len \in Nat
      BY <2>2, HeaderFields
    <2>4. QED
      BY <2>1, <2>2, <2>3 DEF HeaderSize
  <1>2. body <= Len(log)
    <2>1. Round(log, I, s).pos >= body /\ Round(log, I, s) \in LoopState
      BY RoundIsState
    <2>2. Round(log, I, s).pos \in Nat
      BY <2>1 DEF LoopState
    <2>3. QED
      BY <1>1, <2>1, <2>2, LongerLog
  <1>3. ReadHeader(all, s.pos, s.header) = h
    <2>1. \A i \in 1 .. HeaderSize :
              /\ s.pos + i <= Len(log) /\ s.pos + i <= Len(all)
              /\ all[s.pos + i] = log[s.pos + i]
      <3>1. /\ Len(all) = Len(log) + Len(tail)
            /\ Len(log) \in Nat /\ Len(tail) \in Nat
            /\ \A i \in 1 .. Len(log) : all[i] = log[i]
        BY LongerLog
      <3> HIDE DEF all
      <3>2. HeaderSize \in Nat
        BY DEF HeaderSize
      <3>3. \A i \in 1 .. HeaderSize : s.pos + i \in 1 .. Len(log)
        BY <1>1, <1>2, <3>1, <3>2
      <3>4. QED
        BY <1>1, <3>1, <3>3
    <2> HIDE DEF all
    <2>2. QED
      BY <2>1 DEF ReadHeader
  <1>4. TxId(h) \in I => read(all) = read(log)
    <2>1. SUFFICES ASSUME TxId(h) \in I
                   PROVE  read(all) = read(log)
      OBVIOUS
    <2>2. PastRecord(h, s.pos, {LOG_RECORD_TYPE_INSERT, LOG_RECORD_TYPE_UPDATE})
              <= Len(log)
      BY <2>1 DEF Round
    <2>3. CASE Type(h) \in {LOG_RECORD_TYPE_INSERT, LOG_RECORD_TYPE_UPDATE}
      <3>1. body + KeySize + len <= Len(log)
        BY <2>2, <2>3 DEF PastRecord
      <3>2. /\ body + KeySize \in Nat /\ body + KeySize <= Len(log)
            /\ (body + KeySize) + len <= Len(log)
        BY <1>1, <3>1, LongerLog DEF KeySize
      <3> HIDE DEF body, len, h
      <3>3. ReadKey(all, body) = ReadKey(log, body)
        BY <1>1, <3>2, KeyIsStable
      <3>4. ReadValue(all, body + KeySize, len) = ReadValue(log, body + KeySize, len)
        BY <1>1, <3>2, ValueIsStable
      <3>5. QED
        BY <3>3, <3>4
    <2>4. CASE Type(h) = LOG_RECORD_TYPE_DELETE
      <3>1. body + KeySize <= Len(log)
        BY <2>2, <2>4 DEF PastRecord, LOG_RECORD_TYPE_INSERT,
                          LOG_RECORD_TYPE_UPDATE, LOG_RECORD_TYPE_DELETE
      <3> HIDE DEF body, len, h
      <3>2. ReadKey(all, body) = ReadKey(log, body)
        BY <1>1, <3>1, KeyIsStable
      <3>3. QED
        BY <2>4, <3>2 DEF Redo, LOG_RECORD_TYPE_INSERT,
                          LOG_RECORD_TYPE_UPDATE, LOG_RECORD_TYPE_DELETE
    <2>5. CASE Type(h) \notin {LOG_RECORD_TYPE_INSERT, LOG_RECORD_TYPE_UPDATE,
                               LOG_RECORD_TYPE_DELETE}
      BY <2>5 DEF Redo
    <2>6. QED
      BY <2>3, <2>4, <2>5
  <1> HIDE DEF all
  <1>5. Round(all, I, s) = Round(log, I, s)
    BY <1>3, <1>4 DEF Round
  <1>6. QED
    BY <1>5 DEF all

-----------------------------------------------------------------------------
(* The rounds a loop has made when it comes to a state.                     *)

IsTrace(g, k, log, I, s) ==
    /\ g \in [0 .. k -> LoopState]
    /\ g[0] = LoopStart
    /\ g[k] = s
    /\ \A i \in 1 .. k : /\ g[i - 1].pos < Len(log)
                         /\ g[i] = Round(log, I, g[i - 1])
    /\ \A i \in 0 .. k : HeaderSize * i <= g[i].pos /\ g[i].pos <= s.pos

Reaches(log, I, s) == \E k \in Nat : \E g : IsTrace(g, k, log, I, s)

\* The loop starts in a state of the loop.
LEMMA StartIsState == LoopStart \in LoopState
  <1>1. Unread \in Headers
    BY DEF Unread, Headers, Bytes
  <1>2. QED
    BY <1>1 DEF LoopStart, LoopState

\* What a loop reaches is a state of the loop.
LEMMA ReachedIsState ==
    ASSUME NEW log, NEW I, NEW s, Reaches(log, I, s)
    PROVE  s \in LoopState
  <1>1. PICK k \in Nat : \E g : IsTrace(g, k, log, I, s)
    BY DEF Reaches
  <1>2. PICK g : IsTrace(g, k, log, I, s)
    BY <1>1
  <1>3. QED
    BY <1>2 DEF IsTrace

\* A loop reaches its start.
LEMMA ReachesStart ==
    ASSUME NEW log, NEW I
    PROVE  Reaches(log, I, LoopStart)
  <1> DEFINE g == [i \in 0 .. 0 |-> LoopStart]
  <1>1. /\ g \in [0 .. 0 -> LoopState] /\ g[0] = LoopStart
        /\ \A i \in 0 .. 0 : g[i] = LoopStart /\ i = 0
    BY StartIsState
  <1>2. LoopStart.pos = 0 /\ HeaderSize * 0 = 0
    BY DEF LoopStart, HeaderSize
  <1> HIDE DEF g
  <1>3. IsTrace(g, 0, log, I, LoopStart)
    BY <1>1, <1>2 DEF IsTrace
  <1>4. QED
    BY <1>3 DEF Reaches

\* One round more.
LEMMA ReachesRound ==
    ASSUME NEW log \in Seq(Bytes), NEW I, NEW s, Reaches(log, I, s),
           s.pos < Len(log)
    PROVE  Reaches(log, I, Round(log, I, s))
  <1> DEFINE t == Round(log, I, s)
  <1>1. PICK k \in Nat : \E g : IsTrace(g, k, log, I, s)
    BY DEF Reaches
  <1>2. PICK g : IsTrace(g, k, log, I, s)
    BY <1>1
  <1>3. /\ s \in LoopState /\ t \in LoopState /\ t.pos >= s.pos + HeaderSize
        /\ s.pos \in Nat /\ t.pos \in Nat
    BY ReachedIsState, RoundIsState DEF LoopState
  <1> HIDE DEF t
  <1> DEFINE h == [i \in 0 .. k + 1 |-> IF i = k + 1 THEN t ELSE g[i]]
  <1>4. /\ \A i \in 0 .. k : h[i] = g[i] /\ g[i] \in LoopState
        /\ h[k + 1] = t /\ h \in [0 .. k + 1 -> LoopState]
    BY <1>2, <1>3 DEF IsTrace
  <1> HIDE DEF h
  <1>5. h[0] = LoopStart /\ h[k] = s
    BY <1>2, <1>4 DEF IsTrace
  <1>6. \A i \in 1 .. k + 1 : /\ h[i - 1].pos < Len(log)
                              /\ h[i] = Round(log, I, h[i - 1])
    <2>1. ASSUME NEW i \in 1 .. k
          PROVE  h[i - 1].pos < Len(log) /\ h[i] = Round(log, I, h[i - 1])
      BY <1>2, <1>4 DEF IsTrace
    <2>2. /\ h[(k + 1) - 1].pos < Len(log)
          /\ h[k + 1] = Round(log, I, h[(k + 1) - 1])
      BY <1>4, <1>5 DEF t
    <2>3. QED
      BY <2>1, <2>2
  <1>7. \A i \in 0 .. k + 1 : HeaderSize * i <= h[i].pos /\ h[i].pos <= t.pos
    <2>1. ASSUME NEW i \in 0 .. k
          PROVE  HeaderSize * i <= h[i].pos /\ h[i].pos <= t.pos
      <3>1. HeaderSize * i <= g[i].pos /\ g[i].pos <= s.pos /\ g[i].pos \in Nat
        BY <1>2, <1>4 DEF IsTrace, LoopState
      <3>2. QED
        BY <1>3, <1>4, <3>1 DEF HeaderSize
    <2>2. HeaderSize * (k + 1) <= t.pos
      <3>1. HeaderSize * k <= s.pos
        BY <1>5, <1>2 DEF IsTrace
      <3>2. QED
        BY <1>3, <3>1 DEF HeaderSize
    <2>3. QED
      BY <1>3, <1>4, <2>1, <2>2
  <1>8. IsTrace(h, k + 1, log, I, t)
    BY <1>4, <1>5, <1>6, <1>7 DEF IsTrace
  <1>9. QED
    BY <1>8 DEF Reaches, t

\* What was read is read again when there is more in the log.
LEMMA ReachesLonger ==
    ASSUME NEW log \in Seq(Bytes), NEW tail \in Seq(Bytes), NEW I, NEW s,
           Reaches(log, I, s), s.pos <= Len(log)
    PROVE  Reaches(log \o tail, I, s)
  <1> DEFINE all == log \o tail
  <1>1. PICK k \in Nat : \E g : IsTrace(g, k, log, I, s)
    BY DEF Reaches
  <1>2. PICK g : IsTrace(g, k, log, I, s)
    BY <1>1
  <1>3. Len(all) >= Len(log) /\ Len(log) \in Nat /\ Len(all) \in Nat
    BY LongerLog
  <1>4. ASSUME NEW i \in 1 .. k
        PROVE  g[i - 1].pos < Len(all) /\ g[i] = Round(all, I, g[i - 1])
    <2>1. /\ g[i - 1] \in LoopState /\ g[i] \in LoopState /\ s \in LoopState
          /\ g[i - 1].pos < Len(log) /\ g[i] = Round(log, I, g[i - 1])
          /\ g[i].pos <= s.pos
      BY <1>2, ReachedIsState DEF IsTrace
    <2>2. g[i - 1].pos \in Nat /\ g[i].pos \in Nat /\ s.pos \in Nat
      BY <2>1 DEF LoopState
    <2>3. Round(log, I, g[i - 1]).pos <= Len(log)
      BY <2>1, <2>2, <1>3
    <2>4. Round(all, I, g[i - 1]) = Round(log, I, g[i - 1])
      BY <2>1, <2>3, RoundIsStable
    <2>5. QED
      BY <1>3, <2>1, <2>2, <2>4
  <1> HIDE DEF all
  <1>5. IsTrace(g, k, all, I, s)
    BY <1>2, <1>4 DEF IsTrace
  <1>6. QED
    BY <1>5 DEF Reaches, all

-----------------------------------------------------------------------------
(* The two loops of wal.c make these rounds, to the end of the log.         *)

IsLoop(g, log, I) ==
    /\ g \in [0 .. Rounds(log) -> LoopState]
    /\ g[0] = LoopStart
    /\ \A i \in 1 .. Rounds(log) :
          g[i] = IF g[i - 1].pos >= Len(log) THEN g[i - 1]
                 ELSE Round(log, I, g[i - 1])

\* A loop makes finitely many rounds.
LEMMA RoundsIsNat ==
    ASSUME NEW log \in Seq(Bytes)
    PROVE  Rounds(log) \in Nat
  <1>1. Len(log) \in Nat
    OBVIOUS
  <1>2. QED
    BY <1>1 DEF Rounds, HeaderSize

\* A loop makes its rounds.
LEMMA LoopExists ==
    ASSUME NEW log \in Seq(Bytes), NEW I
    PROVE  \E g : IsLoop(g, log, I)
  <1> DEFINE n       == Rounds(log)
             next(s) == IF s.pos >= Len(log) THEN s ELSE Round(log, I, s)
             step    == [i \in 1 .. n |-> [s \in LoopState |-> next(s)]]
  <1>1. n \in Nat
    BY RoundsIsNat
  <1>2. \A s \in LoopState : next(s) \in LoopState
    BY RoundIsState
  <1>3. step \in [1 .. n -> [LoopState -> LoopState]]
    BY <1>2
  <1>4. \A i \in 1 .. n, s \in LoopState : step[i][s] = next(s)
    OBVIOUS
  <1> HIDE DEF step, n, next
  <1>5. PICK g : IsRun(g, n, LoopState, LoopStart, step)
    BY <1>1, <1>3, StartIsState, Iteration
  <1>6. /\ g \in [0 .. n -> LoopState] /\ g[0] = LoopStart
        /\ \A i \in 1 .. n : g[i] = step[i][g[i - 1]]
    BY <1>5 DEF IsRun
  <1>7. \A i \in 1 .. n : g[i] = next(g[i - 1])
    BY <1>1, <1>4, <1>6
  <1>8. IsLoop(g, log, I)
    BY <1>6, <1>7 DEF IsLoop, n, next
  <1>9. QED
    BY <1>8

\* wal_replay makes the calls the loop has collected at its end.
LEMMA ReplayIs ==
    ASSUME NEW log \in Seq(Bytes), NEW I, NEW g, IsLoop(g, log, I)
    PROVE  wal_replay(log, I) = g[Rounds(log)].calls
  <1> DEFINE n       == Rounds(log)
             Part(s) == [pos |-> s.pos, header |-> s.header, calls |-> s.calls]
             start   == [pos |-> 0, header |-> Unread, calls |-> << >>]
             next(s) == ReplayRound(log, I, s)
             Is(f)   == f = [i \in 0 .. n |-> IF i = 0 THEN start
                                              ELSE next(f[i - 1])]
             f == CHOOSE f : Is(f)
             h == [i \in 0 .. n |-> Part(g[i])]
  <1>1. n \in Nat
    BY RoundsIsNat
  <1>2. wal_replay(log, I) = f[n].calls
    BY DEF wal_replay
  <1>3. /\ g[0] = LoopStart
        /\ \A i \in 0 .. n : g[i] \in LoopState
        /\ \A i \in 1 .. n : g[i] = IF g[i - 1].pos >= Len(log) THEN g[i - 1]
                                    ELSE Round(log, I, g[i - 1])
    BY DEF IsLoop
  <1>4. ASSUME NEW s \in LoopState
        PROVE  /\ s.pos >= Len(log) => next(Part(s)) = Part(s)
               /\ s.pos < Len(log) => next(Part(s)) = Part(Round(log, I, s))
    <2>1. s.pos \in Nat /\ Len(log) \in Nat
      BY DEF LoopState
    <2>2. CASE s.pos >= Len(log)
      BY <2>1, <2>2 DEF ReplayRound
    <2>3. CASE s.pos < Len(log)
      <3> DEFINE hd    == ReadHeader(log, s.pos, s.header)
                 body  == s.pos + HeaderSize
                 redo  == Redo(Type(hd), ReadKey(log, body),
                               ReadValue(log, body + KeySize, ValueLen(hd)))
                 long  == PastRecord(hd, s.pos, {LOG_RECORD_TYPE_INSERT,
                                                LOG_RECORD_TYPE_UPDATE})
                 short == PastRecord(hd, s.pos, {LOG_RECORD_TYPE_INSERT})
                 p     == Part(s)
      <3>1. p.pos = s.pos /\ p.header = s.header /\ p.calls = s.calls
        OBVIOUS
      <3> HIDE DEF p
      <3>2. next(p) = IF TxId(hd) \in I
                      THEN [pos |-> long, header |-> hd, calls |-> s.calls \o redo]
                      ELSE [pos |-> short, header |-> hd, calls |-> s.calls]
        BY <2>1, <2>3, <3>1 DEF ReplayRound
      <3>3. /\ Round(log, I, s).pos = IF TxId(hd) \in I THEN long ELSE short
            /\ Round(log, I, s).header = hd
            /\ Round(log, I, s).calls = IF TxId(hd) \in I THEN s.calls \o redo
                                        ELSE s.calls
        BY DEF Round
      <3> HIDE DEF hd, redo, long, short, body
      <3>4. next(p) = Part(Round(log, I, s))
        BY <3>2, <3>3
      <3>5. QED
        BY <2>1, <2>3, <3>4 DEF p
    <2>4. QED
      BY <2>1, <2>2, <2>3
  <1>5. Part(LoopStart) = start
    BY DEF LoopStart
  <1> HIDE DEF start, next, Part
  <1>6. \A i \in 1 .. n : Part(g[i]) = next(Part(g[i - 1]))
    <2>1. SUFFICES ASSUME NEW i \in 1 .. n
                   PROVE  Part(g[i]) = next(Part(g[i - 1]))
      OBVIOUS
    <2>2. g[i - 1] \in LoopState /\ g[i - 1].pos \in Nat /\ Len(log) \in Nat
      BY <1>1, <1>3 DEF LoopState
    <2> HIDE DEF n
    <2>3. QED
      BY <1>3, <1>4, <2>2
  <1> HIDE DEF n
  <1>7. Is(h)
    BY <1>1, <1>3, <1>5, <1>6
  <1>8. h[n] = Part(g[n])
    BY <1>1
  <1> HIDE DEF h
  <1>9. Is(f)
    <2> HIDE DEF Is
    <2>1. QED
      BY <1>7
  <1> HIDE DEF f
  <1>10. SameSteps(f, h, n)
    BY <1>1, <1>7, <1>9 DEF SameSteps
  <1>11. f[n] = h[n]
    BY <1>1, <1>10, RunsAgree DEF Agree
  <1>12. QED
    BY <1>2, <1>8, <1>11 DEF n, Part

\* wal_get_committed_tx_ids has the ids the loop has collected at its end.
LEMMA CommittedIdsAre ==
    ASSUME NEW log \in Seq(Bytes), NEW g, IsLoop(g, log, {})
    PROVE  wal_get_committed_tx_ids(log) = g[Rounds(log)].ids
  <1> DEFINE n       == Rounds(log)
             Part(s) == [pos |-> s.pos, header |-> s.header, ids |-> s.ids]
             start   == [pos |-> 0, header |-> Unread, ids |-> {}]
             next(s) == CommitRound(log, s)
             Is(f)   == f = [i \in 0 .. n |-> IF i = 0 THEN start
                                              ELSE next(f[i - 1])]
             f == CHOOSE f : Is(f)
             h == [i \in 0 .. n |-> Part(g[i])]
  <1>1. n \in Nat
    BY RoundsIsNat
  <1>2. wal_get_committed_tx_ids(log) = f[n].ids
    BY DEF wal_get_committed_tx_ids
  <1>3. /\ g[0] = LoopStart
        /\ \A i \in 0 .. n : g[i] \in LoopState
        /\ \A i \in 1 .. n : g[i] = IF g[i - 1].pos >= Len(log) THEN g[i - 1]
                                    ELSE Round(log, {}, g[i - 1])
    BY DEF IsLoop
  <1>4. ASSUME NEW s \in LoopState
        PROVE  /\ s.pos >= Len(log) => next(Part(s)) = Part(s)
               /\ s.pos < Len(log) => next(Part(s)) = Part(Round(log, {}, s))
    <2>1. s.pos \in Nat /\ Len(log) \in Nat
      BY DEF LoopState
    <2>2. CASE s.pos >= Len(log)
      BY <2>1, <2>2 DEF CommitRound
    <2>3. CASE s.pos < Len(log)
      BY <2>1, <2>3 DEF CommitRound, Round
    <2>4. QED
      BY <2>1, <2>2, <2>3
  <1>5. Part(LoopStart) = start
    BY DEF LoopStart
  <1> HIDE DEF start, next, Part
  <1>6. \A i \in 1 .. n : Part(g[i]) = next(Part(g[i - 1]))
    <2>1. SUFFICES ASSUME NEW i \in 1 .. n
                   PROVE  Part(g[i]) = next(Part(g[i - 1]))
      OBVIOUS
    <2>2. g[i - 1] \in LoopState /\ g[i - 1].pos \in Nat /\ Len(log) \in Nat
      BY <1>1, <1>3 DEF LoopState
    <2> HIDE DEF n
    <2>3. QED
      BY <1>3, <1>4, <2>2
  <1> HIDE DEF n
  <1>7. Is(h)
    BY <1>1, <1>3, <1>5, <1>6
  <1>8. h[n] = Part(g[n])
    BY <1>1
  <1> HIDE DEF h
  <1>9. Is(f)
    <2> HIDE DEF Is
    <2>1. QED
      BY <1>7
  <1> HIDE DEF f
  <1>10. SameSteps(f, h, n)
    BY <1>1, <1>7, <1>9 DEF SameSteps
  <1>11. f[n] = h[n]
    BY <1>1, <1>10, RunsAgree DEF Agree
  <1>12. QED
    BY <1>2, <1>8, <1>11 DEF n, Part

\* Whatever is in the log, a recovery makes calls of btree.c.
LEMMA RecoveryMakesCalls ==
    ASSUME NEW log \in Seq(Bytes)
    PROVE  wal_recover(log) \in Seq(AnyCall)
  <1> DEFINE ids == wal_get_committed_tx_ids(log)
  <1> HIDE DEF ids
  <1>1. PICK g : IsLoop(g, log, ids)
    BY LoopExists
  <1>2. wal_replay(log, ids) = g[Rounds(log)].calls
    BY <1>1, ReplayIs
  <1>3. Rounds(log) \in 0 .. Rounds(log)
    BY RoundsIsNat
  <1>4. g[Rounds(log)] \in LoopState
    BY <1>1, <1>3 DEF IsLoop
  <1>5. QED
    BY <1>2, <1>4 DEF wal_recover, ids, LoopState

\* A state that is reached at the end of the log is the last state of the loop.
LEMMA ReachedAtEnd ==
    ASSUME NEW log \in Seq(Bytes), NEW I, NEW s, Reaches(log, I, s),
           s.pos >= Len(log), NEW r, IsLoop(r, log, I)
    PROVE  r[Rounds(log)] = s
  <1> DEFINE n == Rounds(log)
  <1>1. PICK k \in Nat : \E g : IsTrace(g, k, log, I, s)
    BY DEF Reaches
  <1>2. PICK g : IsTrace(g, k, log, I, s)
    BY <1>1
  <1>3. n \in Nat /\ Len(log) \in Nat
    BY RoundsIsNat
  <1>4. k <= n
    <2>1. CASE k = 0
      BY <1>3, <2>1
    <2>2. CASE k # 0
      <3>1. k \in 1 .. k /\ k - 1 \in 0 .. k
        BY <2>2
      <3>2. /\ g[k - 1] \in LoopState /\ g[k - 1].pos < Len(log)
            /\ HeaderSize * (k - 1) <= g[k - 1].pos
        BY <1>2, <3>1 DEF IsTrace
      <3>3. g[k - 1].pos \in Nat
        BY <3>2 DEF LoopState
      <3>4. 24 * (k - 1) < Len(log)
        BY <1>3, <3>2, <3>3 DEF HeaderSize
      <3>5. QED
        BY <1>3, <3>4 DEF Rounds, HeaderSize
    <2>3. QED
      BY <2>1, <2>2
  <1> HIDE DEF n
  <1> DEFINE h == [i \in 0 .. n |-> IF i < k THEN g[i] ELSE s]
  <1>5. /\ \A i \in 0 .. k : h[i] = g[i]
        /\ \A i \in k .. n : h[i] = s
    BY <1>2, <1>3, <1>4 DEF IsTrace
  <1> HIDE DEF h
  <1>6. /\ r[0] = LoopStart
        /\ \A i \in 1 .. n : r[i] = IF r[i - 1].pos >= Len(log) THEN r[i - 1]
                                    ELSE Round(log, I, r[i - 1])
    BY DEF IsLoop, n
  <1>7. ASSUME NEW i \in 1 .. n, h[i - 1] = r[i - 1]
        PROVE  h[i] = r[i]
    <2>1. CASE i <= k
      <3>1. i \in 1 .. k /\ i \in 0 .. k /\ i - 1 \in 0 .. k
        BY <2>1
      <3>2. /\ g[i - 1].pos < Len(log) /\ g[i] = Round(log, I, g[i - 1])
            /\ g[i - 1] \in LoopState
        BY <1>2, <3>1 DEF IsTrace
      <3>3. g[i - 1].pos \in Nat
        BY <3>2 DEF LoopState
      <3>4. h[i - 1] = g[i - 1] /\ h[i] = g[i]
        BY <1>5, <3>1
      <3>5. ~ (r[i - 1].pos >= Len(log))
        BY <1>3, <1>7, <3>2, <3>3, <3>4
      <3>6. QED
        BY <1>6, <1>7, <3>2, <3>4, <3>5
    <2>2. CASE ~ (i <= k)
      <3>1. i \in k .. n /\ i - 1 \in k .. n
        BY <2>2, <1>3
      <3>2. h[i - 1] = s /\ h[i] = s
        BY <1>5, <3>1
      <3>3. QED
        BY <1>6, <1>7, <3>2
    <2>3. QED
      BY <2>1, <2>2
  <1>8. SameSteps(h, r, n)
    <2>1. h[0] = LoopStart
      BY <1>2, <1>5 DEF IsTrace
    <2>2. QED
      BY <1>6, <1>7, <2>1 DEF SameSteps
  <1>9. Agree(h, r, n)
    BY <1>3, <1>8, RunsAgree
  <1>10. h[n] = r[n] /\ h[n] = s
    BY <1>3, <1>4, <1>5, <1>9 DEF Agree
  <1>11. QED
    BY <1>10 DEF n

\* What a recovery finds out, and does, by rounds that come to the end.
LEMMA RecoveryIs ==
    ASSUME NEW log \in Seq(Bytes), NEW s, NEW t,
           Reaches(log, {}, s), s.pos >= Len(log),
           Reaches(log, s.ids, t), t.pos >= Len(log)
    PROVE  /\ wal_get_committed_tx_ids(log) = s.ids
           /\ wal_recover(log) = t.calls
  <1>1. PICK g : IsLoop(g, log, {})
    BY LoopExists
  <1>2. wal_get_committed_tx_ids(log) = s.ids
    BY <1>1, ReachedAtEnd, CommittedIdsAre
  <1>3. PICK h : IsLoop(h, log, s.ids)
    BY LoopExists
  <1>4. wal_replay(log, s.ids) = t.calls
    BY <1>3, ReachedAtEnd, ReplayIs
  <1>5. QED
    BY <1>2, <1>4 DEF wal_recover

-----------------------------------------------------------------------------
(* What was written is what is read: the fields of a record.                *)

\* The numbers of two bytes.
Words == {n \in Nat : n < 65536}

\* The two bytes of a number.
LEMMA ByteDivision ==
    ASSUME NEW n \in Words
    PROVE  /\ n % 256 \in Bytes /\ n \div 256 \in Bytes
           /\ n = (n % 256) + 256 * (n \div 256)
           /\ n <= 255 => n % 256 = n /\ n \div 256 = 0
  <1>1. n \in Nat /\ n < 65536
    BY DEF Words
  <1>2. n % 256 \in Int /\ 0 <= n % 256 /\ n % 256 <= 255
    BY <1>1, SMT
  <1>3. /\ n \div 256 \in Int /\ 0 <= n \div 256 /\ n \div 256 <= 255
        /\ n = (n % 256) + 256 * (n \div 256)
        /\ n <= 255 => n % 256 = n /\ n \div 256 = 0
    BY <1>1, SMT
  <1>4. QED
    BY <1>2, <1>3, ByteIs

\* A byte is such a number.
LEMMA ByteIsWord == \A n \in Bytes : n \in Words
  <1>1. \A n \in Int : 0 <= n /\ n <= 255 => n \in Nat /\ n < 65536
    BY SMT
  <1>2. QED
    BY <1>1, ByteIs DEF Words

\* x is a string of n bytes.  The i-th byte of x is b.
Bytestring(x, n) == x \in Seq(Bytes) /\ Len(x) = n

At(x, i, b) == i \in Nat /\ 1 <= i /\ i <= Len(x) /\ x[i] = b

\* The bytes of two byte strings, joined.
LEMMA Joined ==
    ASSUME NEW m \in Nat, NEW n \in Nat, NEW x, NEW y,
           Bytestring(x, m), Bytestring(y, n)
    PROVE  /\ Bytestring(x \o y, m + n)
           /\ \A i, b : At(x, i, b) => At(x \o y, i, b)
           /\ \A i, b : At(y, i, b) => At(x \o y, m + i, b)
  <1> DEFINE xy == x \o y
  <1>1. /\ x \in Seq(Bytes) /\ Len(x) = m
        /\ y \in Seq(Bytes) /\ Len(y) = n
    BY DEF Bytestring
  <1>2. /\ xy \in Seq(Bytes) /\ Len(xy) = m + n
        /\ \A i \in 1 .. m : xy[i] = x[i]
        /\ \A i \in 1 .. n : xy[m + i] = y[i]
    BY <1>1, LongerLog
  <1> HIDE DEF xy
  <1>3. Bytestring(xy, m + n)
    BY <1>2 DEF Bytestring
  <1>4. ASSUME NEW i, NEW b, At(x, i, b)
        PROVE  At(xy, i, b)
    BY <1>1, <1>2, <1>4 DEF At
  <1>5. ASSUME NEW i, NEW b, At(y, i, b)
        PROVE  At(xy, m + i, b)
    BY <1>1, <1>2, <1>5 DEF At
  <1>6. QED
    BY <1>3, <1>4, <1>5 DEF xy

\* A number as it is written: two bytes of it, and zeros.
LEMMA LittleEndianIs ==
    ASSUME NEW n \in Words, NEW size \in Nat, size >= 2
    PROVE  LET x == LittleEndian(n, size)
           IN  /\ Bytestring(x, size)
               /\ \E lo \in Bytes, hi \in Bytes :
                     /\ At(x, 1, lo) /\ At(x, 2, hi) /\ n = lo + 256 * hi
                     /\ n \in Bytes => lo = n /\ hi = 0
               /\ \A i \in Nat : 3 <= i /\ i <= size => At(x, i, 0)
  <1> DEFINE lo == n % 256
             hi == n \div 256
             x  == LittleEndian(n, size)
             f  == [i \in 1 .. size |-> IF i = 1 THEN lo
                                        ELSE IF i = 2 THEN hi ELSE 0]
  <1>1. /\ lo \in Bytes /\ hi \in Bytes /\ 0 \in Bytes
        /\ n = lo + 256 * hi /\ (n <= 255 => lo = n /\ hi = 0)
    BY ByteDivision, ByteIs
  <1>2. x = f
    BY DEF LittleEndian
  <1> HIDE DEF x, lo, hi
  <1>3. f \in [1 .. size -> Bytes]
    BY <1>1
  <1>4. Bytestring(f, size) /\ Len(f) = size
    BY <1>3 DEF Bytestring
  <1>5. f[1] = lo /\ f[2] = hi /\ \A i \in Nat : 3 <= i /\ i <= size => f[i] = 0
    OBVIOUS
  <1> HIDE DEF f
  <1>6. At(f, 1, lo) /\ At(f, 2, hi)
    BY <1>4, <1>5 DEF At
  <1>7. \A i \in Nat : 3 <= i /\ i <= size => At(f, i, 0)
    BY <1>4, <1>5 DEF At
  <1>8. n \in Bytes => n <= 255
    BY ByteIs
  <1>9. QED
    BY <1>1, <1>2, <1>4, <1>6, <1>7, <1>8 DEF x

\* A byte written as an int, and a number written as two bytes.
LEMMA FourBytes ==
    ASSUME NEW n \in Bytes
    PROVE  LET x == LittleEndian(n, 4)
           IN  /\ Bytestring(x, 4)
               /\ At(x, 1, n) /\ At(x, 2, 0) /\ At(x, 3, 0) /\ At(x, 4, 0)
  <1> DEFINE x == LittleEndian(n, 4)
  <1>1. n \in Words
    BY ByteIsWord
  <1> DEFINE size == 4
  <1>2. size \in Nat /\ size >= 2 /\ 3 <= size
    OBVIOUS
  <1> HIDE DEF size
  <1>3. /\ Bytestring(LittleEndian(n, size), size)
        /\ At(LittleEndian(n, size), 1, n) /\ At(LittleEndian(n, size), 2, 0)
        /\ \A i \in Nat : 3 <= i /\ i <= size => At(LittleEndian(n, size), i, 0)
    BY <1>1, <1>2, LittleEndianIs
  <1>4. At(LittleEndian(n, size), 3, 0) /\ At(LittleEndian(n, size), size, 0)
    BY <1>2, <1>3
  <1>5. QED
    BY <1>3, <1>4 DEF size

LEMMA KeysAreInts == Int32 \subseteq Int /\ 0 \in Int32 /\ Tombstone \in Int32
  BY SMT DEF Int32, Tombstone

\* Bytes of a word.
LEMMA WordBytes ==
    ASSUME NEW x \in Int, NEW i \in 0 .. 3
    PROVE  ByteOf(x, i) \in Bytes
  <1>1. ASSUME NEW y \in Int
        PROVE  y % 256 \in Bytes
    BY DEF Bytes
  <1>2. ByteOf(x, i) = (x \div <<1, 256, 65536, 16777216>>[i + 1]) % 256
    BY SMT DEF ByteOf
  <1>3. x \div <<1, 256, 65536, 16777216>>[i + 1] \in Int
    <2>1. i = 0 \/ i = 1 \/ i = 2 \/ i = 3
      OBVIOUS
    <2>2. CASE i = 0
      BY <2>2, SMT
    <2>3. CASE i = 1
      BY <2>3, SMT
    <2>4. CASE i = 2
      BY <2>4, SMT
    <2>5. CASE i = 3
      BY <2>5, SMT
    <2>6. QED
      BY <2>1, <2>2, <2>3, <2>4, <2>5
  <1>4. QED
    BY <1>1, <1>2, <1>3

\* What division and remainder are, for these divisors.
LEMMA WordDivision ==
    ASSUME NEW k \in Int32
    PROVE  \E a \in Bytes, b \in Bytes, c \in Bytes, q \in Int :
              /\ -128 <= q /\ q <= 127
              /\ k = a + 256 * b + 65536 * c + 16777216 * q
              /\ k % 256 = a /\ (k \div 256) % 256 = b
              /\ (k \div 65536) % 256 = c
              /\ (k \div 16777216) % 256 = IF q < 0 THEN q + 256 ELSE q
  <1>1. k \in Int /\ -2147483647 - 1 <= k /\ k <= 2147483647
    BY SMT DEF Int32
  <1> DEFINE a == k % 256
             d == k \div 256
             b == d % 256
             e == k \div 65536
             c == e % 256
             q == k \div 16777216
  <1>2. /\ k = 256 * d + a /\ a \in Int /\ d \in Int /\ 0 <= a /\ a <= 255
    BY <1>1, SMT
  <1>3. /\ e \in Int /\ d = 256 * e + b /\ b \in Int /\ 0 <= b /\ b <= 255
    BY <1>1, SMT
  <1>4. /\ q \in Int /\ e = 256 * q + c /\ c \in Int /\ 0 <= c /\ c <= 255
    BY <1>1, SMT
  <1>5. -128 <= q /\ q <= 127
    BY <1>1, SMT
  <1>6. q % 256 = IF q < 0 THEN q + 256 ELSE q
    <2> HIDE DEF q
    <2>1. QED
      BY <1>4, <1>5, SMT
  <1>7. a \in Bytes /\ b \in Bytes /\ c \in Bytes
    BY <1>2, <1>3, <1>4, ByteIs, SMT
  <1> HIDE DEF a, b, c, d, e, q
  <1>8. k = a + 256 * b + 65536 * c + 16777216 * q
    BY <1>2, <1>3, <1>4, SMT
  <1>9. QED
    BY <1>4, <1>5, <1>6, <1>7, <1>8, SMT DEF a, b, c, d, e, q

\* The bytes of a key.
LEMMA KeyBytesAre ==
    ASSUME NEW key \in Int32
    PROVE  LET x == KeyBytes(key)
           IN  /\ Bytestring(x, 4)
               /\ At(x, 1, ByteOf(key, 0)) /\ At(x, 2, ByteOf(key, 1))
               /\ At(x, 3, ByteOf(key, 2)) /\ At(x, 4, ByteOf(key, 3))
  <1> DEFINE f == [i \in 1 .. 4 |-> ByteOf(key, i - 1)]
  <1>1. KeyBytes(key) = f
    BY DEF KeyBytes, KeySize
  <1>2. \A i \in 1 .. 4 : ByteOf(key, i - 1) \in Bytes
    <2>1. key \in Int /\ \A i \in 1 .. 4 : i - 1 \in 0 .. 3
      BY KeysAreInts
    <2>2. QED
      BY <2>1, WordBytes
  <1>3. f \in [1 .. 4 -> Bytes]
    BY <1>2
  <1>4. Bytestring(f, 4) /\ Len(f) = 4
    BY <1>3 DEF Bytestring
  <1>5. /\ f[1] = ByteOf(key, 0) /\ f[2] = ByteOf(key, 1)
        /\ f[3] = ByteOf(key, 2) /\ f[4] = ByteOf(key, 3)
    OBVIOUS
  <1> HIDE DEF f
  <1>6. QED
    BY <1>1, <1>4, <1>5 DEF At

\* Put together again they are the key, negative or not.
LEMMA KeyBytesJoined ==
    ASSUME NEW key \in Int32, NEW b, NEW at,
           b[at + 1] = ByteOf(key, 0), b[at + 2] = ByteOf(key, 1),
           b[at + 3] = ByteOf(key, 2), b[at + 4] = ByteOf(key, 3)
    PROVE  Number(b, at) = key
  <1>1. /\ ByteOf(key, 0) = (key \div 1) % 256
        /\ ByteOf(key, 1) = (key \div 256) % 256
        /\ ByteOf(key, 2) = (key \div 65536) % 256
        /\ ByteOf(key, 3) = (key \div 16777216) % 256
    BY SMT DEF ByteOf
  <1>2. key \div 1 = key
    BY KeysAreInts
  <1>3. PICK x \in Bytes, y \in Bytes, z \in Bytes, q \in Int :
            /\ -128 <= q /\ q <= 127
            /\ key = x + 256 * y + 65536 * z + 16777216 * q
            /\ key % 256 = x /\ (key \div 256) % 256 = y
            /\ (key \div 65536) % 256 = z
            /\ (key \div 16777216) % 256 = IF q < 0 THEN q + 256 ELSE q
    BY WordDivision, SMT
  <1> DEFINE w == IF q < 0 THEN q + 256 ELSE q
  <1>4. /\ b[at + 1] = x /\ b[at + 2] = y /\ b[at + 3] = z /\ b[at + 4] = w
    BY <1>1, <1>2, <1>3, SMT
  <1>5. (IF w < 128 THEN w ELSE w - 256) = q
    BY <1>3, SMT
  <1> HIDE DEF w
  <1>6. QED
    BY <1>3, <1>4, <1>5, SMT DEF Number

LEMMA TwoBytes ==
    ASSUME NEW n \in Words
    PROVE  LET x == LittleEndian(n, 2)
           IN  /\ Bytestring(x, 2)
               /\ \E lo \in Bytes, hi \in Bytes :
                     At(x, 1, lo) /\ At(x, 2, hi) /\ n = lo + 256 * hi
  <1> DEFINE size == 2
  <1>1. size \in Nat /\ size >= 2
    OBVIOUS
  <1> HIDE DEF size
  <1> DEFINE x == LittleEndian(n, size)
  <1>2. /\ Bytestring(x, size)
        /\ \E lo \in Bytes, hi \in Bytes :
              /\ At(x, 1, lo) /\ At(x, 2, hi) /\ n = lo + 256 * hi
              /\ n \in Bytes => lo = n /\ hi = 0
    BY <1>1, LittleEndianIs
  <1> HIDE DEF x
  <1>3. PICK lo \in Bytes, hi \in Bytes :
            At(x, 1, lo) /\ At(x, 2, hi) /\ n = lo + 256 * hi
    BY <1>2
  <1>4. QED
    BY <1>2, <1>3 DEF x, size

Fields(lsn, type, tx_id, len, pad) ==
    /\ lsn \in Bytes /\ type \in 0 .. 4 /\ tx_id \in Bytes
    /\ len \in Nat /\ len <= 256 /\ pad \in Bytes

\* A header has its fields where readers look for them.
IsHeader(h, type, tx_id, len) ==
    /\ Bytestring(h, 24)
    /\ At(h, 9, type) /\ At(h, 10, 0) /\ At(h, 11, 0) /\ At(h, 12, 0)
    /\ At(h, 13, tx_id) /\ At(h, 14, 0) /\ At(h, 15, 0) /\ At(h, 16, 0)
    /\ \E lo \in Bytes, hi \in Bytes :
          At(h, 17, lo) /\ At(h, 18, hi) /\ len = lo + 256 * hi

\* The bytes of a header where its readers look for them.
LEMMA HeaderBytes ==
    ASSUME NEW lsn, NEW type, NEW tx_id, NEW len, NEW pad,
           Fields(lsn, type, tx_id, len, pad)
    PROVE  IsHeader(LogRecordHeader(lsn, type, tx_id, len, pad), type, tx_id, len)
  <1> DEFINE a == LittleEndian(lsn, 8)
             b == LittleEndian(type, 4)
             c == LittleEndian(tx_id, 4)
             d == LittleEndian(len, 2)
             e == [i \in 1 .. 6 |-> pad]
  <1>1. /\ len \in Words /\ lsn \in Words
        /\ type \in Bytes /\ tx_id \in Bytes /\ pad \in Bytes
    <2>1. type \in Bytes
      BY ByteIs DEF Fields
    <2>2. len \in Words
      <3>1. len \in Nat /\ len <= 256
        BY DEF Fields
      <3>2. len < 65536
        BY <3>1, SMT
      <3>3. QED
        BY <3>1, <3>2 DEF Words
    <2>3. QED
      BY <2>1, <2>2, ByteIsWord DEF Fields
  <1>2. Bytestring(a, 8)
    <2>1. 8 \in Nat /\ 8 >= 2
      OBVIOUS
    <2>2. QED
      BY <1>1, <2>1, LittleEndianIs, Zenon
  <1>3. /\ Bytestring(b, 4)
        /\ At(b, 1, type) /\ At(b, 2, 0) /\ At(b, 3, 0) /\ At(b, 4, 0)
    BY <1>1, FourBytes
  <1>4. /\ Bytestring(c, 4)
        /\ At(c, 1, tx_id) /\ At(c, 2, 0) /\ At(c, 3, 0) /\ At(c, 4, 0)
    BY <1>1, FourBytes
  <1>5. /\ Bytestring(d, 2)
        /\ \E lo \in Bytes, hi \in Bytes :
              At(d, 1, lo) /\ At(d, 2, hi) /\ len = lo + 256 * hi
    BY <1>1, TwoBytes
  <1>6. Bytestring(e, 6)
    <2> DEFINE n == 6
               f == [i \in 1 .. n |-> pad]
    <2>1. n \in Nat
      OBVIOUS
    <2> HIDE DEF n
    <2>2. f \in [1 .. n -> Bytes]
      BY <1>1
    <2>3. f \in Seq(Bytes) /\ Len(f) = n
      BY <2>1, <2>2
    <2>4. Bytestring(f, n)
      BY <2>3 DEF Bytestring
    <2>5. QED
      BY <2>4 DEF n
  <1>7. LogRecordHeader(lsn, type, tx_id, len, pad) = (((a \o b) \o c) \o d) \o e
    BY DEF LogRecordHeader
  <1> HIDE DEF a, b, c, d, e
  <1> DEFINE ab   == a \o b
             abc  == ab \o c
             abcd == abc \o d
             h    == abcd \o e
  <1>8. /\ Bytestring(ab, 12)
        /\ At(ab, 9, type) /\ At(ab, 10, 0) /\ At(ab, 11, 0) /\ At(ab, 12, 0)
    <2>1. /\ Bytestring(ab, 8 + 4)
          /\ At(ab, 8 + 1, type) /\ At(ab, 8 + 2, 0)
          /\ At(ab, 8 + 3, 0) /\ At(ab, 8 + 4, 0)
      BY <1>2, <1>3, Joined
    <2>2. QED
      BY <2>1
  <1> HIDE DEF ab
  <1>9. /\ Bytestring(abc, 16)
        /\ At(abc, 9, type) /\ At(abc, 10, 0) /\ At(abc, 11, 0) /\ At(abc, 12, 0)
        /\ At(abc, 13, tx_id) /\ At(abc, 14, 0) /\ At(abc, 15, 0) /\ At(abc, 16, 0)
    <2>1. /\ Bytestring(abc, 12 + 4)
          /\ At(abc, 9, type) /\ At(abc, 10, 0) /\ At(abc, 11, 0) /\ At(abc, 12, 0)
          /\ At(abc, 12 + 1, tx_id) /\ At(abc, 12 + 2, 0)
          /\ At(abc, 12 + 3, 0) /\ At(abc, 12 + 4, 0)
      BY <1>4, <1>8, Joined
    <2>2. QED
      BY <2>1
  <1> HIDE DEF abc
  <1>10. /\ Bytestring(abcd, 18)
         /\ At(abcd, 9, type) /\ At(abcd, 10, 0) /\ At(abcd, 11, 0) /\ At(abcd, 12, 0)
         /\ At(abcd, 13, tx_id) /\ At(abcd, 14, 0) /\ At(abcd, 15, 0) /\ At(abcd, 16, 0)
         /\ \E lo \in Bytes, hi \in Bytes :
               At(abcd, 17, lo) /\ At(abcd, 18, hi) /\ len = lo + 256 * hi
    <2>1. PICK lo \in Bytes, hi \in Bytes :
              At(d, 1, lo) /\ At(d, 2, hi) /\ len = lo + 256 * hi
      BY <1>5
    <2>2. /\ Bytestring(abcd, 16 + 2)
          /\ At(abcd, 9, type) /\ At(abcd, 10, 0) /\ At(abcd, 11, 0) /\ At(abcd, 12, 0)
          /\ At(abcd, 13, tx_id) /\ At(abcd, 14, 0) /\ At(abcd, 15, 0) /\ At(abcd, 16, 0)
          /\ At(abcd, 16 + 1, lo) /\ At(abcd, 16 + 2, hi)
      BY <1>5, <1>9, <2>1, Joined
    <2>3. QED
      BY <2>1, <2>2
  <1> HIDE DEF abcd
  <1>11. IsHeader(h, type, tx_id, len)
    <2>1. PICK lo \in Bytes, hi \in Bytes :
              At(abcd, 17, lo) /\ At(abcd, 18, hi) /\ len = lo + 256 * hi
      BY <1>10
    <2>2. /\ Bytestring(h, 18 + 6)
          /\ At(h, 9, type) /\ At(h, 10, 0) /\ At(h, 11, 0) /\ At(h, 12, 0)
          /\ At(h, 13, tx_id) /\ At(h, 14, 0) /\ At(h, 15, 0) /\ At(h, 16, 0)
          /\ At(h, 17, lo) /\ At(h, 18, hi)
      BY <1>6, <1>10, <2>1, Joined
    <2> HIDE DEF h
    <2>3. QED
      BY <2>1, <2>2 DEF IsHeader
  <1>12. QED
    BY <1>7, <1>11 DEF abcd, abc, ab

\* A string of bytes in the middle of the log.
LEMMA Middle ==
    ASSUME NEW log \in Seq(Bytes), NEW rest \in Seq(Bytes),
           NEW n \in Nat, NEW x, Bytestring(x, n)
    PROVE  LET all == log \o (x \o rest)
           IN  /\ all \in Seq(Bytes) /\ Len(log) \in Nat /\ Len(rest) \in Nat
               /\ Len(all) = Len(log) + n + Len(rest)
               /\ \A i, b : At(x, i, b) => At(all, Len(log) + i, b)
  <1>1. Bytestring(log, Len(log)) /\ Bytestring(rest, Len(rest))
    BY DEF Bytestring
  <1>2. Len(log) \in Nat /\ Len(rest) \in Nat
    OBVIOUS
  <1>3. /\ Bytestring(x \o rest, n + Len(rest))
        /\ \A i, b : At(x, i, b) => At(x \o rest, i, b)
    BY <1>1, <1>2, Joined
  <1> DEFINE more == x \o rest
             k    == n + Len(rest)
  <1>4. k \in Nat /\ Bytestring(more, k)
    BY <1>2, <1>3
  <1> HIDE DEF more
  <1>5. /\ Bytestring(log \o more, Len(log) + k)
        /\ \A i, b : At(more, i, b) => At(log \o more, Len(log) + i, b)
    BY <1>1, <1>2, <1>4, Joined
  <1>6. \A i, b : At(x, i, b) => At(log \o more, Len(log) + i, b)
    BY <1>3, <1>5 DEF more
  <1>7. /\ log \o more \in Seq(Bytes)
        /\ Len(log \o more) = Len(log) + n + Len(rest)
    BY <1>2, <1>5 DEF Bytestring
  <1>8. QED
    BY <1>2, <1>6, <1>7 DEF more

\* The header at the end of what was in the log before.
LEMMA HeaderIsRead ==
    ASSUME NEW log \in Seq(Bytes), NEW rest \in Seq(Bytes), NEW old,
           NEW hd, NEW type \in Int, NEW tx_id \in Int, NEW len,
           IsHeader(hd, type, tx_id, len)
    PROVE  LET h == ReadHeader(log \o (hd \o rest), Len(log), old)
           IN  Type(h) = type /\ TxId(h) = tx_id /\ ValueLen(h) = len
  <1> DEFINE all  == log \o (hd \o rest)
             h    == ReadHeader(all, Len(log), old)
  <1>1. \A i, b : At(hd, i, b) => At(all, Len(log) + i, b)
    <2> DEFINE n == 24
    <2>1. Bytestring(hd, n) /\ n \in Nat
      BY DEF IsHeader
    <2> HIDE DEF n
    <2>2. QED
      BY <2>1, Middle
  <1> HIDE DEF all
  <1>2. \A i, b : At(hd, i, b) /\ i <= 24 => h[i] = b
    <2> DEFINE n == 24
    <2>1. h = [i \in 1 .. n |->
                  IF Len(log) + i <= Len(all) THEN all[Len(log) + i] ELSE old[i]]
      BY DEF ReadHeader, HeaderSize
    <2>2. n \in Nat
      OBVIOUS
    <2> HIDE DEF n, h
    <2>3. ASSUME NEW i, NEW b, At(hd, i, b), i <= n
          PROVE  h[i] = b
      <3>1. At(all, Len(log) + i, b)
        BY <1>1, <2>3
      <3>2. i \in 1 .. n
        BY <2>2, <2>3 DEF At
      <3>3. QED
        BY <2>1, <3>1, <3>2 DEF At
    <2>4. QED
      BY <2>3 DEF n
  <1> HIDE DEF h
  <1>3. PICK lo \in Bytes, hi \in Bytes :
            At(hd, 17, lo) /\ At(hd, 18, hi) /\ len = lo + 256 * hi
    BY DEF IsHeader
  <1>4. /\ h[9] = type /\ h[10] = 0 /\ h[11] = 0 /\ h[12] = 0
        /\ h[13] = tx_id /\ h[14] = 0 /\ h[15] = 0 /\ h[16] = 0
        /\ h[17] = lo /\ h[18] = hi
    BY <1>2, <1>3 DEF IsHeader
  <1>5. Number(h, 8) = type
    BY <1>4 DEF Number
  <1>6. Number(h, 12) = tx_id
    BY <1>4 DEF Number
  <1>7. ValueLen(h) = len
    BY <1>3, <1>4 DEF ValueLen
  <1>8. QED
    BY <1>5, <1>6, <1>7 DEF Type, TxId, h, all

\* The key that was written is the key that is read.
LEMMA KeyIsRead ==
    ASSUME NEW log \in Seq(Bytes), NEW rest \in Seq(Bytes), NEW key \in Int32
    PROVE  ReadKey(log \o (KeyBytes(key) \o rest), Len(log)) = key
  <1> DEFINE k   == KeyBytes(key)
             all == log \o (k \o rest)
  <1>1. /\ Bytestring(k, 4)
        /\ At(k, 1, ByteOf(key, 0)) /\ At(k, 2, ByteOf(key, 1))
        /\ At(k, 3, ByteOf(key, 2)) /\ At(k, 4, ByteOf(key, 3))
    BY KeyBytesAre
  <1> HIDE DEF k
  <1>2. /\ Len(all) = Len(log) + 4 + Len(rest) /\ Len(log) \in Nat
        /\ Len(rest) \in Nat
        /\ At(all, Len(log) + 1, ByteOf(key, 0))
        /\ At(all, Len(log) + 2, ByteOf(key, 1))
        /\ At(all, Len(log) + 3, ByteOf(key, 2))
        /\ At(all, Len(log) + 4, ByteOf(key, 3))
    <2>1. 4 \in Nat
      OBVIOUS
    <2>2. QED
      BY <1>1, <2>1, Middle
  <1> HIDE DEF all
  <1>4. Number(all, Len(log)) = key
    BY <1>2, KeyBytesJoined DEF At
  <1>5. Len(log) + 4 <= Len(all)
    BY <1>2
  <1>6. ReadKey(all, Len(log)) = key
    BY <1>4, <1>5 DEF ReadKey, KeySize
  <1>7. QED
    BY <1>6 DEF all, k, KeySize

\* No text is the beginning of another one: it would have a NUL inside.
LEMMA ValueIsRead ==
    ASSUME NEW log \in Seq(Bytes), NEW v \in Texts, Len(TextBytes(v)) <= 255
    PROVE  ReadValue(log \o TextBytes(v), Len(log), Len(TextBytes(v))) = v
  <1> DEFINE b   == TextBytes(v)
             len == Len(b)
             all == log \o b
  <1>1. /\ b \in Seq(Bytes) /\ len \in Nat /\ 1 <= len /\ ~ (len > 255)
        /\ \A i \in 1 .. len : b[i] = 0 <=> i = len
    <2>1. /\ b \in Seq(Bytes) /\ len \in 1 .. 256
          /\ \A i \in 1 .. len : b[i] = 0 <=> i = len
      BY StringsAssumption
    <2>2. \A n \in 1 .. 256 : n \in Nat /\ 1 <= n
      BY SMT
    <2>3. len \in Nat /\ 1 <= len
      BY <2>1, <2>2, Zenon
    <2> HIDE DEF b
    <2>4. ~ (len > 255)
      BY <2>3 DEF b
    <2>5. QED
      BY <2>1, <2>3, <2>4
  <1> HIDE DEF b
  <1>2. /\ Len(all) = Len(log) + len /\ Len(log) \in Nat
        /\ SubSeq(all, Len(log) + 1, Len(log) + len) = b
    <2>1. Len(all) = Len(log) + len /\ Len(log) \in Nat
      BY <1>1, LongerLog
    <2>2. SubSeq(all, Len(log) + 1, Len(log) + len) = SubSeq(b, 1, len)
      BY <1>1, <2>1, SubSeqOfConcat2
    <2>3. SubSeq(b, 1, len) = b
      BY <1>1, SubSeqFull
    <2>4. QED
      BY <2>1, <2>2, <2>3
  <1> HIDE DEF all
  <1> DEFINE found == \E w \in Texts : IsPrefix(TextBytes(w), b)
             which == CHOOSE w \in Texts : IsPrefix(TextBytes(w), b)
  <1>3. ReadValue(all, Len(log), len) = IF found THEN which ELSE Garbled
    BY <1>1, <1>2 DEF ReadValue
  <1>4. IsPrefix(b, b)
    BY <1>1 DEF IsPrefix
  <1>5. ASSUME NEW w \in Texts, IsPrefix(TextBytes(w), b)
        PROVE  w = v
    <2> DEFINE c == TextBytes(w)
               n == Len(c)
    <2>1. /\ c \in Seq(Bytes) /\ n \in Nat /\ 1 <= n
          /\ \A i \in 1 .. n : c[i] = 0 <=> i = n
      <3>1. /\ c \in Seq(Bytes) /\ n \in 1 .. 256
            /\ \A i \in 1 .. n : c[i] = 0 <=> i = n
        BY StringsAssumption
      <3>2. \A m \in 1 .. 256 : m \in Nat /\ 1 <= m
        BY SMT
      <3>3. QED
        BY <3>1, <3>2, Zenon
    <2>2. n <= len /\ SubSeq(c, 1, n) = SubSeq(b, 1, n)
      BY <1>5 DEF IsPrefix
    <2> HIDE DEF c
    <2>3. c[n] = 0 /\ SubSeq(c, 1, n)[n] = c[n] /\ SubSeq(b, 1, n)[n] = b[n]
      BY <1>1, <2>1, <2>2
    <2>4. n = len
      BY <1>1, <2>1, <2>2, <2>3
    <2>5. SubSeq(c, 1, n) = c /\ SubSeq(b, 1, n) = b
      BY <1>1, <2>1, <2>4, SubSeqFull
    <2>6. c = b
      BY <2>2, <2>5
    <2>7. QED
      BY <2>6, StringsAssumption DEF b, c
  <1>6. found /\ which = v
    <2>1. IsPrefix(TextBytes(v), b)
      BY <1>4 DEF b
    <2>2. QED
      BY <1>5, <2>1
  <1>7. QED
    BY <1>3, <1>6 DEF all, b

-----------------------------------------------------------------------------
(* The log with one record more.                                            *)

\* A reader that knows the transactions in I has read the log, and is at its
\* end or behind it; it has found the ids and made the calls.
AtEnd(log, I, ids, calls) ==
    \E s : Reaches(log, I, s) /\ s.pos = Len(log) /\ s.ids = ids /\ s.calls = calls

Ended(log, I, ids, calls) ==
    \E s : Reaches(log, I, s) /\ s.pos >= Len(log) /\ s.ids = ids /\ s.calls = calls

\* An empty log is read at once.
LEMMA EmptyLogIsRead ==
    ASSUME NEW I
    PROVE  AtEnd(<< >>, I, {}, << >>)
  <1>1. /\ Reaches(<< >>, I, LoopStart) /\ LoopStart.pos = 0
        /\ LoopStart.ids = {} /\ LoopStart.calls = << >>
    BY ReachesStart DEF LoopStart
  <1>2. Len(<< >>) = 0
    OBVIOUS
  <1>3. QED
    BY <1>1, <1>2, Zenon DEF AtEnd

\* Who is at the end has come to the end.
LEMMA AtEndIsEnded ==
    ASSUME NEW log \in Seq(Bytes), NEW I, NEW ids, NEW calls,
           AtEnd(log, I, ids, calls)
    PROVE  Ended(log, I, ids, calls)
  <1>1. PICK s : /\ Reaches(log, I, s) /\ s.pos = Len(log)
                 /\ s.ids = ids /\ s.calls = calls
    BY DEF AtEnd
  <1>2. s.pos >= Len(log)
    BY <1>1
  <1>3. QED
    BY <1>1, <1>2, Zenon DEF Ended

\* What a recovery does with a log that both of its loops come to the end of.
LEMMA RecoveryOf ==
    ASSUME NEW log \in Seq(Bytes), NEW ids, NEW others, NEW none, NEW calls,
           Ended(log, {}, ids, none), Ended(log, ids, others, calls)
    PROVE  wal_recover(log) = calls
  <1>1. PICK s : /\ Reaches(log, {}, s) /\ s.pos >= Len(log)
                 /\ s.ids = ids /\ s.calls = none
    BY DEF Ended
  <1>2. PICK t : /\ Reaches(log, ids, t) /\ t.pos >= Len(log)
                 /\ t.ids = others /\ t.calls = calls
    BY DEF Ended
  <1>3. wal_recover(log) = t.calls
    BY <1>1, <1>2, RecoveryIs
  <1>4. QED
    BY <1>2, <1>3

\* The round that reads the header of a new record.
HeaderIsNew(log, rest, I, s, hd, type, tx_id, len) ==
    LET all  == log \o (hd \o rest)
        t    == Round(all, I, s)
        body == Len(log) + HeaderSize
        with == IF tx_id \in I
                THEN {LOG_RECORD_TYPE_INSERT, LOG_RECORD_TYPE_UPDATE}
                ELSE {LOG_RECORD_TYPE_INSERT}
    IN  /\ all \in Seq(Bytes) /\ Len(all) = body + Len(rest)
        /\ Len(log) \in Nat /\ Len(rest) \in Nat
        /\ Reaches(all, I, s) /\ Reaches(all, I, t)
        /\ t.header = ReadHeader(all, Len(log), s.header)
        /\ t.pos = IF type \in with THEN body + KeySize + len
                   ELSE IF type = LOG_RECORD_TYPE_DELETE THEN body + KeySize
                   ELSE body
        /\ t.ids = IF type = LOG_RECORD_TYPE_COMMIT
                   THEN s.ids \cup {tx_id} ELSE s.ids
        /\ t.calls = IF tx_id \in I
                     THEN s.calls \o Redo(type, ReadKey(all, body),
                                        ReadValue(all, body + KeySize, len))
                     ELSE s.calls

\* The header of the record behind the log is read as it was written.
LEMMA NewHeader ==
    ASSUME NEW log \in Seq(Bytes), NEW rest \in Seq(Bytes), NEW I,
           NEW hd, NEW type \in Int, NEW tx_id \in Int, NEW len,
           IsHeader(hd, type, tx_id, len),
           NEW s, Reaches(log, I, s), s.pos = Len(log)
    PROVE  HeaderIsNew(log, rest, I, s, hd, type, tx_id, len)
  <1> DEFINE more == hd \o rest
             all  == log \o more
             t    == Round(all, I, s)
             h    == ReadHeader(all, Len(log), s.header)
             body == Len(log) + HeaderSize
             with == IF tx_id \in I
                     THEN {LOG_RECORD_TYPE_INSERT, LOG_RECORD_TYPE_UPDATE}
                     ELSE {LOG_RECORD_TYPE_INSERT}
  <1>1. Bytestring(hd, HeaderSize) /\ HeaderSize \in Nat /\ HeaderSize > 0
    BY DEF IsHeader, HeaderSize
  <1>2. /\ all \in Seq(Bytes) /\ Len(all) = Len(log) + HeaderSize + Len(rest)
        /\ Len(log) \in Nat /\ Len(rest) \in Nat
    BY <1>1, Middle
  <1>3. more \in Seq(Bytes)
    BY <1>1, LongerLog DEF Bytestring
  <1>4. Type(h) = type /\ TxId(h) = tx_id /\ ValueLen(h) = len
    BY HeaderIsRead
  <1> HIDE DEF more
  <1>5. Reaches(all, I, s)
    <2>1. s.pos <= Len(log)
      BY <1>2
    <2>2. QED
      BY <1>3, <2>1, ReachesLonger
  <1>6. Reaches(all, I, t)
    <2>1. s.pos < Len(all)
      BY <1>1, <1>2
    <2>2. QED
      BY <1>2, <1>5, <2>1, ReachesRound
  <1> HIDE DEF all
  <1>7. t = [pos    |-> IF tx_id \in I
                        THEN PastRecord(h, Len(log), {LOG_RECORD_TYPE_INSERT,
                                                      LOG_RECORD_TYPE_UPDATE})
                        ELSE PastRecord(h, Len(log), {LOG_RECORD_TYPE_INSERT}),
             header |-> h,
             ids    |-> IF type = LOG_RECORD_TYPE_COMMIT
                        THEN s.ids \cup {tx_id} ELSE s.ids,
             calls  |-> IF tx_id \in I
                        THEN s.calls \o Redo(type, ReadKey(all, body),
                                           ReadValue(all, body + KeySize, len))
                        ELSE s.calls]
    BY <1>4 DEF Round
  <1> HIDE DEF t, h
  <1>8. \A types : PastRecord(h, Len(log), types) =
            IF type \in types THEN body + KeySize + len
            ELSE IF type = LOG_RECORD_TYPE_DELETE THEN body + KeySize
            ELSE body
    BY <1>4 DEF PastRecord
  <1>9. t.pos = IF type \in with THEN body + KeySize + len
                ELSE IF type = LOG_RECORD_TYPE_DELETE THEN body + KeySize
                ELSE body
    BY <1>7, <1>8
  <1>10. /\ t.header = h
         /\ t.ids = IF type = LOG_RECORD_TYPE_COMMIT
                    THEN s.ids \cup {tx_id} ELSE s.ids
         /\ t.calls = IF tx_id \in I
                      THEN s.calls \o Redo(type, ReadKey(all, body),
                                         ReadValue(all, body + KeySize, len))
                      ELSE s.calls
    BY <1>7
  <1>11. Len(all) = body + Len(rest)
    BY <1>1, <1>2
  <1>12. QED
    BY <1>2, <1>5, <1>6, <1>9, <1>10, <1>11 DEF HeaderIsNew, all, t, h, more

\* Shorter than LongerLog, for when only the lengths matter.
LEMMA JoinedLength ==
    ASSUME NEW x \in Seq(Bytes), NEW y \in Seq(Bytes)
    PROVE  /\ x \o y \in Seq(Bytes) /\ Len(x \o y) = Len(x) + Len(y)
           /\ Len(x) \in Nat /\ Len(y) \in Nat
  BY LongerLog

LEMMA JoinedAgain ==
    ASSUME NEW x \in Seq(Bytes), NEW y \in Seq(Bytes), NEW z \in Seq(Bytes)
    PROVE  (x \o y) \o z = x \o (y \o z)
  BY ConcatAssociative

\* The one, two or three parts of a record.
LEMMA FlattenRecord ==
    ASSUME NEW x \in Seq(Bytes), NEW y \in Seq(Bytes), NEW z \in Seq(Bytes)
    PROVE  /\ FlattenSeq(<< x >>) = x \o << >>
           /\ FlattenSeq(<< x, y >>) = x \o y
           /\ FlattenSeq(<< x, y, z >>) = x \o (y \o z)
  <1>1. << >> \in Seq(Seq(Bytes)) /\ << >> \in Seq(Bytes)
    OBVIOUS
  <1>2. /\ << x >> = Append(<< >>, x) /\ << x >> \in Seq(Seq(Bytes))
        /\ << x, y >> = Append(<< x >>, y) /\ << x, y >> \in Seq(Seq(Bytes))
        /\ << x, y, z >> = Append(<< x, y >>, z)
    OBVIOUS
  <1>3. FlattenSeq(<< x >>) = << >> \o x
    BY <1>1, <1>2, FlattenAppend, FlattenEmpty
  <1>4. << >> \o x = x /\ x = x \o << >>
    BY <1>1, ConcatEmptySeq
  <1>5. FlattenSeq(<< x, y >>) = x \o y
    BY <1>2, <1>3, <1>4, FlattenAppend
  <1>6. FlattenSeq(<< x, y, z >>) = (x \o y) \o z
    BY <1>2, <1>5, FlattenAppend
  <1>7. (x \o y) \o z = x \o (y \o z)
    BY JoinedAgain
  <1>8. QED
    BY <1>3, <1>4, <1>5, <1>6, <1>7

\* The byte strings of a record, and what write() makes of them.
IsRecord(hd, k, text, type, tx_id, len) ==
    /\ IsHeader(hd, type, tx_id, len)
    /\ type \in Int /\ tx_id \in Int
    /\ hd \in Seq(Bytes) /\ Len(hd) = HeaderSize
    /\ k \in Seq(Bytes) /\ Len(k) = KeySize
    /\ k \o text \in Seq(Bytes) /\ Len(k \o text) = KeySize + Len(text)
    /\ FlattenSeq(<< hd >>) = hd \o << >>
    /\ FlattenSeq(<< hd, k >>) = hd \o k
    /\ FlattenSeq(<< hd, k, text >>) = hd \o (k \o text)
    /\ HeaderSize \in Nat /\ KeySize \in Nat /\ Len(text) \in Nat

\* The strings of every record have this form.
LEMMA RecordStrings ==
    ASSUME NEW lsn, NEW type, NEW tx_id, NEW len, NEW pad,
           Fields(lsn, type, tx_id, len, pad),
           NEW key \in Int32, NEW text \in Seq(Bytes)
    PROVE  IsRecord(LogRecordHeader(lsn, type, tx_id, len, pad),
                    KeyBytes(key), text, type, tx_id, len)
  <1> DEFINE hd == LogRecordHeader(lsn, type, tx_id, len, pad)
             k  == KeyBytes(key)
  <1>1. IsHeader(hd, type, tx_id, len)
    BY HeaderBytes
  <1>2. type \in Int /\ tx_id \in Int
    BY ByteIs DEF Fields
  <1>3. hd \in Seq(Bytes) /\ Len(hd) = HeaderSize
    BY <1>1, Zenon DEF IsHeader, Bytestring, HeaderSize
  <1>4. k \in Seq(Bytes) /\ Len(k) = KeySize
    BY KeyBytesAre, Zenon DEF KeySize, Bytestring
  <1>5. HeaderSize \in Nat /\ KeySize \in Nat /\ Len(text) \in Nat
    BY DEF HeaderSize, KeySize
  <1> HIDE DEF hd, k
  <1>6. k \o text \in Seq(Bytes) /\ Len(k \o text) = KeySize + Len(text)
    BY <1>4, JoinedLength
  <1>7. /\ FlattenSeq(<< hd >>) = hd \o << >>
        /\ FlattenSeq(<< hd, k >>) = hd \o k
        /\ FlattenSeq(<< hd, k, text >>) = hd \o (k \o text)
    BY <1>3, <1>4, FlattenRecord
  <1>8. QED
    BY <1>1, <1>2, <1>3, <1>4, <1>5, <1>6, <1>7, Zenon DEF IsRecord, hd, k

\* A COMMIT adds its transaction to those that are found; a BEGIN does nothing.
LEMMA ShortRecordIsRead ==
    ASSUME NEW log \in Seq(Bytes), NEW I, NEW ids, NEW calls,
           AtEnd(log, I, ids, calls),
           NEW lsn, NEW type, NEW tx_id, NEW pad,
           Fields(lsn, type, tx_id, 0, pad),
           type = LOG_RECORD_TYPE_COMMIT \/ type = LOG_RECORD_TYPE_BEGIN
    PROVE  LET all == log \o FlattenSeq(<< LogRecordHeader(lsn, type, tx_id, 0, pad) >>)
           IN  /\ all \in Seq(Bytes) /\ Len(all) = Len(log) + HeaderSize
               /\ AtEnd(all, I, IF type = LOG_RECORD_TYPE_COMMIT
                                THEN ids \cup {tx_id} ELSE ids, calls)
  <1> DEFINE hd  == LogRecordHeader(lsn, type, tx_id, 0, pad)
             all == log \o (hd \o << >>)
             body == Len(log) + HeaderSize
  <1>1. PICK s : /\ Reaches(log, I, s) /\ s.pos = Len(log)
                 /\ s.ids = ids /\ s.calls = calls
    BY DEF AtEnd
  <1>2. s.calls \in Seq(AnyCall)
    BY <1>1, ReachedIsState DEF LoopState
  <1>3. << >> \in Seq(Bytes) /\ Len(<< >>) = 0 /\ 0 \in Int32
    BY KeysAreInts
  <1>4. /\ IsHeader(hd, type, tx_id, 0) /\ type \in Int /\ tx_id \in Int
        /\ FlattenSeq(<< hd >>) = hd \o << >>
    <2>1. IsRecord(hd, KeyBytes(0), << >>, type, tx_id, 0)
      BY <1>3, RecordStrings
    <2>2. QED
      BY <2>1, Zenon DEF IsRecord
  <1> DEFINE t == Round(all, I, s)
  <1>5. /\ all \in Seq(Bytes) /\ Len(all) = body + Len(<< >>)
        /\ Len(log) \in Nat
        /\ Reaches(all, I, t)
        /\ t.pos = body
        /\ t.ids = IF type = LOG_RECORD_TYPE_COMMIT
                   THEN s.ids \cup {tx_id} ELSE s.ids
        /\ t.calls = IF tx_id \in I
                     THEN s.calls \o Redo(type, ReadKey(all, body),
                                        ReadValue(all, body + KeySize, 0))
                     ELSE s.calls
    <2> HIDE DEF hd
    <2>1. /\ type # LOG_RECORD_TYPE_INSERT /\ type # LOG_RECORD_TYPE_UPDATE
          /\ type # LOG_RECORD_TYPE_DELETE
      BY DEF LOG_RECORD_TYPE_COMMIT, LOG_RECORD_TYPE_BEGIN, LOG_RECORD_TYPE_INSERT,
             LOG_RECORD_TYPE_UPDATE, LOG_RECORD_TYPE_DELETE
    <2>2. HeaderIsNew(log, << >>, I, s, hd, type, tx_id, 0)
      BY <1>1, <1>3, <1>4, NewHeader
    <2>3. QED
      BY <1>1, <2>1, <2>2 DEF HeaderIsNew
  <1> HIDE DEF t, hd, all
  <1>6. \A key, value : Redo(type, key, value) = << >>
    BY DEF Redo, LOG_RECORD_TYPE_COMMIT, LOG_RECORD_TYPE_BEGIN,
           LOG_RECORD_TYPE_INSERT, LOG_RECORD_TYPE_UPDATE, LOG_RECORD_TYPE_DELETE
  <1>7. t.calls = calls
    BY <1>1, <1>2, <1>5, <1>6, ConcatEmptySeq
  <1>8. Len(all) = body /\ body = Len(log) + HeaderSize
    BY <1>3, <1>5 DEF HeaderSize
  <1> HIDE DEF body
  <1>9. AtEnd(all, I, IF type = LOG_RECORD_TYPE_COMMIT
                      THEN ids \cup {tx_id} ELSE ids, calls)
    BY <1>1, <1>5, <1>7, <1>8 DEF AtEnd
  <1>10. QED
    BY <1>4, <1>5, <1>8, <1>9 DEF all, hd, body

\* The record of a row is read as it was written.  That of an UPDATE is skipped
\* in another way, see below.
LEMMA RowRecordIsRead ==
    ASSUME NEW log \in Seq(Bytes), NEW I, NEW ids, NEW calls,
           AtEnd(log, I, ids, calls),
           NEW lsn, NEW type, NEW tx_id, NEW key \in Int32, NEW value \in Texts,
           NEW pad, Len(TextBytes(value)) <= 255,
           Fields(lsn, type, tx_id, Len(TextBytes(value)), pad),
           \/ type = LOG_RECORD_TYPE_INSERT
           \/ type = LOG_RECORD_TYPE_UPDATE /\ tx_id \in I
    PROVE  LET all == log \o FlattenSeq(RowRecord(lsn, type, tx_id, key, value, pad))
           IN  /\ all \in Seq(Bytes)
               /\ Len(all) = Len(log) + HeaderSize + KeySize + Len(TextBytes(value))
               /\ AtEnd(all, I, ids, IF tx_id \in I
                                     THEN calls \o Redo(type, key, value) ELSE calls)
  <1> DEFINE text == TextBytes(value)
             len  == Len(text)
             k    == KeyBytes(key)
             hd   == LogRecordHeader(lsn, type, tx_id, len, pad)
             rest == k \o text
             all  == log \o (hd \o rest)
             body == Len(log) + HeaderSize
  <1>1. PICK s : /\ Reaches(log, I, s) /\ s.pos = Len(log)
                 /\ s.ids = ids /\ s.calls = calls
    BY DEF AtEnd
  <1>2. text \in Seq(Bytes)
    BY StringsAssumption
  <1>3. /\ IsHeader(hd, type, tx_id, len) /\ type \in Int /\ tx_id \in Int
        /\ hd \in Seq(Bytes) /\ Len(hd) = HeaderSize
        /\ k \in Seq(Bytes) /\ Len(k) = KeySize
        /\ rest \in Seq(Bytes) /\ Len(rest) = KeySize + len
        /\ FlattenSeq(<< hd, k, text >>) = hd \o rest
        /\ HeaderSize \in Nat /\ KeySize \in Nat /\ len \in Nat
    <2>1. IsRecord(hd, k, text, type, tx_id, len)
      BY <1>2, RecordStrings
    <2>2. QED
      BY <2>1, Zenon DEF IsRecord
  <1>4. type # LOG_RECORD_TYPE_COMMIT
    BY DEF LOG_RECORD_TYPE_COMMIT, LOG_RECORD_TYPE_INSERT, LOG_RECORD_TYPE_UPDATE
  <1>5. ReadKey(all, body) = key /\ ReadValue(all, body + KeySize, len) = value
    <2> DEFINE front == log \o hd
               more  == front \o k
    <2> HIDE DEF hd, k
    <2>1. front \in Seq(Bytes) /\ Len(front) = body
      BY <1>3, JoinedLength
    <2>2. more \in Seq(Bytes) /\ Len(more) = body + KeySize
      BY <1>3, <2>1, JoinedLength
    <2>3. all = front \o (k \o text)
      <3>1. k \o text \in Seq(Bytes) /\ hd \in Seq(Bytes)
        BY <1>3
      <3>2. QED
        BY <3>1, JoinedAgain
    <2>4. front \o (k \o text) = more \o text
      <3>1. k \in Seq(Bytes)
        BY <1>3
      <3> HIDE DEF front
      <3>2. QED
        BY <1>2, <2>1, <3>1, JoinedAgain
    <2> HIDE DEF more
    <2>5. ReadKey(front \o (k \o text), Len(front)) = key
      BY <1>2, <2>1, KeyIsRead DEF k
    <2>6. ReadValue(more \o text, Len(more), len) = value
      BY <2>2, ValueIsRead
    <2> HIDE DEF all, front
    <2>7. QED
      BY <2>1, <2>2, <2>3, <2>4, <2>5, <2>6
  <1> DEFINE t == Round(all, I, s)
  <1>6. /\ all \in Seq(Bytes) /\ Len(all) = body + Len(rest)
        /\ Len(log) \in Nat
        /\ Reaches(all, I, t)
        /\ t.pos = body + KeySize + len
        /\ t.ids = s.ids
        /\ t.calls = IF tx_id \in I
                     THEN s.calls \o Redo(type, ReadKey(all, body),
                                        ReadValue(all, body + KeySize, len))
                     ELSE s.calls
    <2> HIDE DEF hd, rest, len
    <2>1. HeaderIsNew(log, rest, I, s, hd, type, tx_id, len)
      BY <1>1, <1>3, NewHeader
    <2>2. QED
      BY <1>1, <1>4, <2>1 DEF HeaderIsNew
  <1> HIDE DEF t, all
  <1>7. /\ t.calls = IF tx_id \in I THEN calls \o Redo(type, key, value) ELSE calls
        /\ t.ids = ids
    BY <1>1, <1>5, <1>6
  <1>8. /\ Len(all) = body + KeySize + len
        /\ Len(all) = Len(log) + HeaderSize + KeySize + len
    <2>1. /\ Len(all) = (Len(log) + HeaderSize) + (KeySize + len)
          /\ Len(log) \in Nat /\ HeaderSize \in Nat /\ KeySize \in Nat
          /\ len \in Nat
      BY <1>3, <1>6, Zenon
    <2> HIDE DEF len
    <2>2. QED
      BY <2>1
  <1>9. AtEnd(all, I, ids, IF tx_id \in I
                           THEN calls \o Redo(type, key, value) ELSE calls)
    <2>1. t.pos = Len(all)
      BY <1>6, <1>8
    <2>2. QED
      BY <1>6, <1>7, <2>1 DEF AtEnd
  <1>10. RowRecord(lsn, type, tx_id, key, value, pad) = << hd, k, text >>
    BY DEF RowRecord
  <1>11. QED
    BY <1>3, <1>6, <1>8, <1>9, <1>10 DEF all

\* A DELETE is read or skipped as it was written.
LEMMA DeleteRecordIsRead ==
    ASSUME NEW log \in Seq(Bytes), NEW I, NEW ids, NEW calls,
           AtEnd(log, I, ids, calls),
           NEW lsn, NEW tx_id, NEW key \in Int32, NEW pad,
           Fields(lsn, LOG_RECORD_TYPE_DELETE, tx_id, 0, pad)
    PROVE  LET all == log \o FlattenSeq(wal_log_delete(lsn, tx_id, key, pad))
           IN  /\ all \in Seq(Bytes)
               /\ Len(all) = Len(log) + HeaderSize + KeySize
               /\ AtEnd(all, I, ids, IF tx_id \in I
                            THEN calls \o Redo(LOG_RECORD_TYPE_DELETE, key, Blank)
                            ELSE calls)
  <1> DEFINE type == LOG_RECORD_TYPE_DELETE
             k    == KeyBytes(key)
             hd   == LogRecordHeader(lsn, type, tx_id, 0, pad)
             all  == log \o (hd \o k)
             body == Len(log) + HeaderSize
  <1>1. PICK s : /\ Reaches(log, I, s) /\ s.pos = Len(log)
                 /\ s.ids = ids /\ s.calls = calls
    BY DEF AtEnd
  <1>2. /\ type # LOG_RECORD_TYPE_COMMIT /\ type # LOG_RECORD_TYPE_INSERT
        /\ type # LOG_RECORD_TYPE_UPDATE
    BY DEF LOG_RECORD_TYPE_COMMIT, LOG_RECORD_TYPE_INSERT, LOG_RECORD_TYPE_UPDATE,
           LOG_RECORD_TYPE_DELETE
  <1>3. \A value : Redo(type, key, value) = Redo(type, key, Blank)
    BY <1>2 DEF Redo
  <1> HIDE DEF type
  <1>4. << >> \in Seq(Bytes)
    OBVIOUS
  <1>5. /\ IsHeader(hd, type, tx_id, 0) /\ type \in Int /\ tx_id \in Int
        /\ hd \in Seq(Bytes) /\ Len(hd) = HeaderSize
        /\ k \in Seq(Bytes) /\ Len(k) = KeySize
        /\ FlattenSeq(<< hd, k >>) = hd \o k
        /\ HeaderSize \in Nat /\ KeySize \in Nat
    <2>1. IsRecord(hd, k, << >>, type, tx_id, 0)
      BY <1>4, RecordStrings DEF type
    <2>2. QED
      BY <2>1, Zenon DEF IsRecord
  <1>6. ReadKey(all, body) = key
    <2> DEFINE front == log \o hd
    <2> HIDE DEF hd
    <2>1. front \in Seq(Bytes) /\ Len(front) = body
      BY <1>5, JoinedLength
    <2>2. all = front \o (k \o << >>)
      <3>1. k \in Seq(Bytes) /\ hd \in Seq(Bytes)
        BY <1>5
      <3> HIDE DEF k
      <3>2. k \o << >> = k
        BY <3>1, ConcatEmptySeq
      <3>3. QED
        BY <3>1, <3>2, JoinedAgain
    <2>3. ReadKey(front \o (k \o << >>), Len(front)) = key
      BY <1>4, <2>1, KeyIsRead
    <2> HIDE DEF all, front, k
    <2>4. QED
      BY <2>1, <2>2, <2>3
  <1> DEFINE t == Round(all, I, s)
  <1>7. /\ all \in Seq(Bytes) /\ Len(all) = body + Len(k)
        /\ Len(log) \in Nat
        /\ Reaches(all, I, t)
        /\ t.pos = body + KeySize
        /\ t.ids = s.ids
        /\ t.calls = IF tx_id \in I
                     THEN s.calls \o Redo(type, ReadKey(all, body),
                                        ReadValue(all, body + KeySize, 0))
                     ELSE s.calls
    <2> HIDE DEF hd, k
    <2>1. type = LOG_RECORD_TYPE_DELETE
      BY DEF type
    <2>2. HeaderIsNew(log, k, I, s, hd, type, tx_id, 0)
      BY <1>1, <1>5, NewHeader
    <2>3. QED
      BY <1>1, <1>2, <2>1, <2>2 DEF HeaderIsNew
  <1> HIDE DEF t, all
  <1>8. /\ t.calls = IF tx_id \in I THEN calls \o Redo(type, key, Blank) ELSE calls
        /\ t.ids = ids
    BY <1>1, <1>3, <1>6, <1>7
  <1>9. /\ Len(all) = body + KeySize
        /\ Len(all) = Len(log) + HeaderSize + KeySize /\ t.pos = Len(all)
    BY <1>5, <1>7
  <1>10. AtEnd(all, I, ids, IF tx_id \in I
                            THEN calls \o Redo(type, key, Blank) ELSE calls)
    BY <1>7, <1>8, <1>9 DEF AtEnd
  <1>11. wal_log_delete(lsn, tx_id, key, pad) = << hd, k >>
    BY DEF wal_log_delete, type
  <1>12. QED
    BY <1>5, <1>7, <1>9, <1>10, <1>11 DEF all, type

-----------------------------------------------------------------------------
(* Contents that are taken for headers, and records that are cut off.       *)

\* Four bytes of a text, read as a number, are no type, and no id that a
\* transaction has.
LEMMA TextIsNoNumber ==
    ASSUME NEW b, NEW at,
           b[at + 1] \in Bytes, b[at + 2] \in Bytes,
           b[at + 3] \in Bytes, b[at + 4] \in Bytes, b[at + 4] # 0
    PROVE  Number(b, at) \notin Bytes
  <1> DEFINE x == b[at + 1]
             y == b[at + 2]
             z == b[at + 3]
             w == b[at + 4]
  <1>1. /\ x \in Int /\ y \in Int /\ z \in Int /\ w \in Int
        /\ 0 <= x /\ 0 <= y /\ 0 <= z /\ 0 < w
        /\ x <= 255 /\ y <= 255 /\ z <= 255 /\ w <= 255
    BY ByteIs
  <1>2. Number(b, at) = x + 256 * y + 65536 * z
                          + 16777216 * (IF w < 128 THEN w ELSE w - 256)
    BY DEF Number
  <1> HIDE DEF x, y, z, w
  <1>3. CASE w < 128
    <2>1. Number(b, at) = x + 256 * y + 65536 * z + 16777216 * w
      BY <1>2, <1>3
    <2>2. Number(b, at) > 255
      BY <1>1, <2>1, SMT
    <2>3. QED
      BY <2>2, ByteIs
  <1>4. CASE ~ (w < 128)
    <2>1. Number(b, at) = x + 256 * y + 65536 * z + 16777216 * (w - 256)
      BY <1>2, <1>4
    <2>2. Number(b, at) < 0
      BY <1>1, <2>1, SMT
    <2>3. QED
      BY <2>2, ByteIs
  <1>5. QED
    BY <1>3, <1>4

\* A round that starts inside a text goes on by the length of a header.
LEMMA TextRound ==
    ASSUME NEW log \in Seq(Bytes), NEW I \in SUBSET Bytes, NEW s \in LoopState,
           s.pos + HeaderSize <= Len(log),
           log[s.pos + 12] # 0, log[s.pos + 16] # 0
    PROVE  LET t == Round(log, I, s)
           IN  t.pos = s.pos + HeaderSize /\ t.ids = s.ids /\ t.calls = s.calls
  <1> DEFINE h == ReadHeader(log, s.pos, s.header)
  <1>1. s.pos \in Nat /\ Len(log) \in Nat
    BY DEF LoopState
  <1>2. \A i \in Nat : 1 <= i /\ i <= 24 =>
            h[i] = log[s.pos + i] /\ h[i] \in Bytes
    <2> DEFINE n == HeaderSize
    <2>1. n \in Nat /\ n = 24
      BY DEF HeaderSize
    <2>2. h = [i \in 1 .. n |->
                  IF s.pos + i <= Len(log) THEN log[s.pos + i] ELSE s.header[i]]
      BY DEF ReadHeader
    <2> HIDE DEF n, h
    <2>3. \A i \in Nat : 1 <= i /\ i <= n =>
              /\ i \in 1 .. n /\ s.pos + i <= Len(log) /\ s.pos + i \in 1 .. Len(log)
      BY <1>1, <2>1 DEF n
    <2>4. \A i \in Nat : 1 <= i /\ i <= n =>
              h[i] = log[s.pos + i] /\ h[i] \in Bytes
      BY <2>2, <2>3
    <2>5. QED
      BY <2>1, <2>4
  <1> HIDE DEF h
  <1>3. /\ h[8 + 1] \in Bytes /\ h[8 + 2] \in Bytes
        /\ h[8 + 3] \in Bytes /\ h[8 + 4] \in Bytes /\ h[8 + 4] # 0
    BY <1>2
  <1>4. /\ h[12 + 1] \in Bytes /\ h[12 + 2] \in Bytes
        /\ h[12 + 3] \in Bytes /\ h[12 + 4] \in Bytes /\ h[12 + 4] # 0
    BY <1>2
  <1>5. Type(h) \notin Bytes /\ TxId(h) \notin Bytes
    BY <1>3, <1>4, TextIsNoNumber DEF Type, TxId
  <1>6. /\ Type(h) # LOG_RECORD_TYPE_INSERT /\ Type(h) # LOG_RECORD_TYPE_DELETE
        /\ Type(h) # LOG_RECORD_TYPE_COMMIT /\ TxId(h) \notin I
    BY <1>5, ByteIs DEF LOG_RECORD_TYPE_INSERT, LOG_RECORD_TYPE_DELETE,
                        LOG_RECORD_TYPE_COMMIT
  <1>7. PastRecord(h, s.pos, {LOG_RECORD_TYPE_INSERT}) = s.pos + HeaderSize
    BY <1>6 DEF PastRecord
  <1>8. Round(log, I, s) =
            [pos |-> s.pos + HeaderSize, header |-> h,
             ids |-> s.ids, calls |-> s.calls]
    BY <1>6, <1>7 DEF Round, h
  <1>9. QED
    BY <1>8

ReadTo(log, I, pos, ids, calls) ==
    \E s : Reaches(log, I, s) /\ s.pos = pos /\ s.ids = ids /\ s.calls = calls

\* A reader that skips the record of an UPDATE is in step again behind it, if
\* its key and contents have the length of some headers.
LEMMA UpdateIsSkipped ==
    ASSUME NEW log \in Seq(Bytes), NEW I \in SUBSET Bytes, NEW ids, NEW calls,
           AtEnd(log, I, ids, calls),
           NEW lsn, NEW tx_id, NEW key \in Int32, NEW value \in Texts, NEW pad,
           Fields(lsn, LOG_RECORD_TYPE_UPDATE, tx_id, Len(TextBytes(value)), pad),
           tx_id \notin I,
           NEW m \in Nat, KeySize + Len(TextBytes(value)) = m * HeaderSize
    PROVE  AtEnd(log \o FlattenSeq(wal_log_update(lsn, tx_id, key, value, pad)),
                 I, ids, calls)
  <1> DEFINE type == LOG_RECORD_TYPE_UPDATE
             text == TextBytes(value)
             len  == Len(text)
             k    == KeyBytes(key)
             hd   == LogRecordHeader(lsn, type, tx_id, len, pad)
             rest == k \o text
             all  == log \o (hd \o rest)
             body == Len(log) + HeaderSize
  <1>1. PICK s : /\ Reaches(log, I, s) /\ s.pos = Len(log)
                 /\ s.ids = ids /\ s.calls = calls
    BY DEF AtEnd
  <1>2. /\ text \in Seq(Bytes) /\ len \in Nat
        /\ \A i \in 1 .. len : text[i] = 0 <=> i = len
    BY StringsAssumption
  <1>3. /\ IsHeader(hd, type, tx_id, len) /\ type \in Int /\ tx_id \in Int
        /\ hd \in Seq(Bytes) /\ Len(hd) = HeaderSize
        /\ k \in Seq(Bytes) /\ Len(k) = KeySize
        /\ rest \in Seq(Bytes) /\ Len(rest) = KeySize + len
        /\ FlattenSeq(<< hd, k, text >>) = hd \o rest
    <2>1. IsRecord(hd, k, text, type, tx_id, len)
      BY <1>2, RecordStrings
    <2>2. QED
      BY <2>1, Zenon DEF IsRecord
  <1>4. HeaderSize = 24 /\ KeySize = 4
    BY DEF HeaderSize, KeySize
  <1>5. /\ all \in Seq(Bytes) /\ Len(all) = body + 24 * m
        /\ body \in Nat /\ ReadTo(all, I, body, ids, calls)
    <2> DEFINE t == Round(all, I, s)
    <2> HIDE DEF hd, rest, len
    <2>1. HeaderIsNew(log, rest, I, s, hd, type, tx_id, len)
      BY <1>1, <1>3, NewHeader
    <2>2. /\ type # LOG_RECORD_TYPE_COMMIT /\ type # LOG_RECORD_TYPE_INSERT
          /\ type # LOG_RECORD_TYPE_DELETE
      BY DEF LOG_RECORD_TYPE_COMMIT, LOG_RECORD_TYPE_INSERT, LOG_RECORD_TYPE_UPDATE,
             LOG_RECORD_TYPE_DELETE
    <2> HIDE DEF type
    <2>3. /\ all \in Seq(Bytes) /\ Len(all) = body + Len(rest) /\ Len(log) \in Nat
          /\ Reaches(all, I, t) /\ t.pos = body /\ t.ids = s.ids /\ t.calls = s.calls
      BY <2>1, <2>2 DEF HeaderIsNew
    <2> HIDE DEF all, t, body
    <2>4. ReadTo(all, I, body, ids, calls)
      BY <1>1, <2>3 DEF ReadTo
    <2>5. Len(rest) = 24 * m
      BY <1>3, <1>4 DEF len
    <2>6. QED
      BY <1>4, <2>3, <2>4, <2>5 DEF body
  <1>6. \A i \in Nat : 5 <= i /\ i < KeySize + len => all[body + i] # 0
    <2>1. SUFFICES ASSUME NEW i \in Nat, 5 <= i, i < 4 + len
                   PROVE  all[body + i] # 0
      BY <1>4
    <2>2. At(text, i - 4, text[i - 4]) /\ text[i - 4] # 0
      BY <1>2, <2>1 DEF At
    <2>3. Bytestring(text, len) /\ Bytestring(k, KeySize) /\ KeySize \in Nat
      <3>1. KeySize \in Nat
        BY <1>4
      <3> HIDE DEF text, len, k
      <3>2. QED
        BY <1>2, <1>3, <3>1, Zenon DEF Bytestring, len
    <2> DEFINE c == text[i - 4]
    <2> HIDE DEF c, text, k, hd
    <2>4. At(rest, KeySize + (i - 4), c)
      BY <1>2, <2>2, <2>3, Joined DEF c
    <2>5. KeySize + (i - 4) = i
      BY <1>4, <2>1
    <2> HIDE DEF rest
    <2>6. At(rest, i, c)
      BY <2>4, <2>5
    <2>7. At(hd \o rest, HeaderSize + i, c)
      <3>1. /\ Bytestring(rest, Len(rest)) /\ Bytestring(hd, HeaderSize)
            /\ HeaderSize \in Nat /\ Len(rest) \in Nat
        BY <1>3, <1>4 DEF Bytestring
      <3>2. QED
        BY <2>6, <3>1, Joined
    <2>8. At(all, Len(log) + (HeaderSize + i), c)
      <3> DEFINE more == hd \o rest
      <3>1. more \in Seq(Bytes) /\ Len(more) \in Nat /\ Len(log) \in Nat
        BY <1>3, JoinedLength
      <3>2. At(more, HeaderSize + i, c)
        BY <2>7
      <3> HIDE DEF more
      <3>3. Bytestring(more, Len(more)) /\ Bytestring(log, Len(log))
        BY <3>1 DEF Bytestring
      <3>4. At(log \o more, Len(log) + (HeaderSize + i), c)
        BY <3>1, <3>2, <3>3, Joined
      <3>5. QED
        BY <3>4 DEF more
    <2> HIDE DEF all
    <2>9. all[Len(log) + (HeaderSize + i)] = c
      BY <2>8 DEF At
    <2>10. Len(log) + (HeaderSize + i) = body + i
      BY <1>4, <2>1
    <2>11. QED
      BY <2>2, <2>9, <2>10 DEF c
  <1> HIDE DEF all, body, len
  <1> DEFINE Js == {j \in Nat : j <= m => ReadTo(all, I, body + 24 * j, ids, calls)}
  <1>7. 0 \in Js
    BY <1>5
  <1>8. ASSUME NEW j \in Js
        PROVE  j + 1 \in Js
    <2>1. j \in Nat
      OBVIOUS
    <2>2. SUFFICES ASSUME j + 1 <= m
                   PROVE  ReadTo(all, I, body + 24 * (j + 1), ids, calls)
      BY <2>1
    <2>3. ReadTo(all, I, body + 24 * j, ids, calls)
      BY <2>1, <2>2
    <2>4. PICK u : /\ Reaches(all, I, u) /\ u.pos = body + 24 * j
                   /\ u.ids = ids /\ u.calls = calls
      BY <2>3 DEF ReadTo
    <2>5. u \in LoopState
      BY <2>4, ReachedIsState
    <2>6. u.pos + 24 <= Len(all) /\ u.pos < Len(all)
      BY <1>5, <2>1, <2>2, <2>4
    <2>7. all[u.pos + 12] # 0 /\ all[u.pos + 16] # 0
      <3>1. /\ 24 * j + 12 \in Nat /\ 5 <= 24 * j + 12 /\ 24 * j + 12 < 24 * m
            /\ 24 * j + 16 \in Nat /\ 5 <= 24 * j + 16 /\ 24 * j + 16 < 24 * m
        BY <2>1, <2>2
      <3>2. KeySize + len = 24 * m
        BY <1>4 DEF len
      <3>3. /\ all[body + (24 * j + 12)] # 0
            /\ all[body + (24 * j + 16)] # 0
        BY <1>6, <3>1, <3>2
      <3>4. /\ body + (24 * j + 12) = u.pos + 12
            /\ body + (24 * j + 16) = u.pos + 16
        BY <1>5, <2>1, <2>4
      <3>5. QED
        BY <3>3, <3>4
    <2> DEFINE v == Round(all, I, u)
    <2>8. Reaches(all, I, v)
      BY <1>5, <2>4, <2>6, ReachesRound
    <2>9. v.pos = u.pos + HeaderSize /\ v.ids = u.ids /\ v.calls = u.calls
      BY <1>4, <1>5, <2>5, <2>6, <2>7, TextRound
    <2> HIDE DEF v
    <2>10. v.pos = body + 24 * (j + 1)
      BY <1>4, <1>5, <2>1, <2>4, <2>9
    <2>11. QED
      BY <2>4, <2>8, <2>9, <2>10 DEF ReadTo
  <1>9. Js \in SUBSET Nat
    OBVIOUS
  <1>10. m \in Js
    <2> HIDE DEF Js
    <2>1. QED
      BY <1>7, <1>8, <1>9, Induction
  <1>11. ReadTo(all, I, Len(all), ids, calls)
    BY <1>5, <1>10
  <1>12. AtEnd(all, I, ids, calls)
    BY <1>11 DEF ReadTo, AtEnd
  <1>13. wal_log_update(lsn, tx_id, key, value, pad) = << hd, k, text >>
    BY DEF wal_log_update, RowRecord, len
  <1>14. QED
    BY <1>3, <1>12, <1>13 DEF all

\* A record that was cut off behind its header or its key does nothing.
LEMMA TornRecordIsSkipped ==
    ASSUME NEW log \in Seq(Bytes), NEW I, NEW ids, NEW calls,
           AtEnd(log, I, ids, calls),
           NEW rest \in Seq(Bytes), Len(rest) <= KeySize,
           NEW hd, NEW type, NEW tx_id \in Int, NEW len \in Nat,
           IsHeader(hd, type, tx_id, len), tx_id \notin I,
           type \in {LOG_RECORD_TYPE_INSERT, LOG_RECORD_TYPE_UPDATE,
                     LOG_RECORD_TYPE_DELETE}
    PROVE  Ended(log \o (hd \o rest), I, ids, calls)
  <1> DEFINE all  == log \o (hd \o rest)
             body == Len(log) + HeaderSize
  <1>1. PICK s : /\ Reaches(log, I, s) /\ s.pos = Len(log)
                 /\ s.ids = ids /\ s.calls = calls
    BY DEF AtEnd
  <1>2. type \in Int /\ type # LOG_RECORD_TYPE_COMMIT
    BY DEF LOG_RECORD_TYPE_COMMIT, LOG_RECORD_TYPE_INSERT, LOG_RECORD_TYPE_UPDATE,
           LOG_RECORD_TYPE_DELETE
  <1>3. HeaderIsNew(log, rest, I, s, hd, type, tx_id, len)
    BY <1>1, <1>2, NewHeader
  <1> DEFINE t == Round(all, I, s)
  <1>4. /\ all \in Seq(Bytes) /\ Len(all) = body + Len(rest)
        /\ Len(log) \in Nat /\ Len(rest) \in Nat
        /\ Reaches(all, I, t)
        /\ t.header = ReadHeader(all, Len(log), s.header)
        /\ t.pos = IF type = LOG_RECORD_TYPE_INSERT THEN body + KeySize + len
                   ELSE IF type = LOG_RECORD_TYPE_DELETE THEN body + KeySize
                   ELSE body
        /\ t.ids = ids /\ t.calls = calls
    BY <1>1, <1>2, <1>3 DEF HeaderIsNew
  <1>5. Type(t.header) = type /\ TxId(t.header) = tx_id
    <2> DEFINE h == ReadHeader(all, Len(log), s.header)
    <2>1. Type(h) = type /\ TxId(h) = tx_id
      BY <1>2, HeaderIsRead
    <2>2. t.header = h
      BY <1>4
    <2> HIDE DEF h, t
    <2>3. QED
      BY <2>1, <2>2
  <1>6. HeaderSize = 24 /\ KeySize = 4
    BY DEF HeaderSize, KeySize
  <1> HIDE DEF all, t
  <1>7. CASE t.pos >= Len(all)
    BY <1>4, <1>7 DEF Ended, all
  <1>8. CASE ~ (t.pos >= Len(all))
    <2>1. t.pos = body /\ type = LOG_RECORD_TYPE_UPDATE
      BY <1>4, <1>6, <1>8
    <2>2. t.pos \in Nat /\ t.pos < Len(all) /\ Len(all) <= t.pos + 4
      BY <1>4, <1>6, <1>8, <2>1
    <2> DEFINE u == Round(all, I, t)
               h == ReadHeader(all, t.pos, t.header)
    <2>3. Reaches(all, I, u)
      BY <1>4, <2>2, ReachesRound
    <2>4. \A i \in Nat : 9 <= i /\ i <= 24 => h[i] = t.header[i]
      <3> DEFINE n == HeaderSize
      <3>1. n \in Nat /\ n = 24
        BY <1>6
      <3>2. h = [i \in 1 .. n |->
                    IF t.pos + i <= Len(all) THEN all[t.pos + i] ELSE t.header[i]]
        BY DEF ReadHeader
      <3> HIDE DEF n, h
      <3>3. \A i \in Nat : 9 <= i /\ i <= n =>
                i \in 1 .. n /\ ~ (t.pos + i <= Len(all))
        BY <1>4, <2>2, <3>1
      <3>4. \A i \in Nat : 9 <= i /\ i <= n => h[i] = t.header[i]
        BY <3>2, <3>3
      <3>5. QED
        BY <3>1, <3>4
    <2> HIDE DEF h
    <2>5. Number(h, 8) = Number(t.header, 8) /\ Number(h, 12) = Number(t.header, 12)
      <3>1. /\ h[9] = t.header[9] /\ h[10] = t.header[10]
            /\ h[11] = t.header[11] /\ h[12] = t.header[12]
            /\ h[13] = t.header[13] /\ h[14] = t.header[14]
            /\ h[15] = t.header[15] /\ h[16] = t.header[16]
        BY <2>4
      <3>2. QED
        BY <3>1 DEF Number
    <2>6. Type(h) = LOG_RECORD_TYPE_UPDATE /\ TxId(h) \notin I
      BY <1>5, <2>1, <2>5 DEF Type, TxId
    <2>7. /\ Type(h) # LOG_RECORD_TYPE_COMMIT /\ Type(h) # LOG_RECORD_TYPE_INSERT
          /\ Type(h) # LOG_RECORD_TYPE_DELETE
      BY <1>2, <2>6 DEF LOG_RECORD_TYPE_COMMIT, LOG_RECORD_TYPE_INSERT,
                        LOG_RECORD_TYPE_UPDATE, LOG_RECORD_TYPE_DELETE
    <2>8. PastRecord(h, t.pos, {LOG_RECORD_TYPE_INSERT}) = t.pos + HeaderSize
      BY <2>7 DEF PastRecord
    <2>9. u = [pos |-> t.pos + HeaderSize, header |-> h,
               ids |-> t.ids, calls |-> t.calls]
      BY <2>6, <2>7, <2>8 DEF Round, h
    <2> HIDE DEF u
    <2>10. u.pos = t.pos + HeaderSize /\ u.ids = ids /\ u.calls = calls
      BY <1>4, <2>9
    <2>11. u.pos >= Len(all)
      BY <1>4, <1>6, <2>2, <2>10
    <2>12. QED
      BY <2>3, <2>10, <2>11 DEF Ended, all
  <1>9. QED
    BY <1>7, <1>8 DEF all

-----------------------------------------------------------------------------
(* The strings of a record, as far as they were written.                    *)

IsRecordStart(bytes, hd) ==
    \E rest \in Seq(Bytes) : Len(rest) <= KeySize /\ bytes = hd \o rest

WritesRecord(record, hd) ==
    /\ Len(record) \in Nat /\ Len(record) >= 1
    /\ \A w \in 1 .. Len(record) : FlattenSeq(SubSeq(record, 1, w)) \in Seq(Bytes)
    /\ \A w \in 1 .. Len(record) :
          w < Len(record) => IsRecordStart(FlattenSeq(SubSeq(record, 1, w)), hd)
    /\ SubSeq(record, 1, Len(record)) = record
    /\ Len(FlattenSeq(record)) >= HeaderSize

\* What has been written of a record of two or three strings.
LEMMA PrefixOfTuple ==
    ASSUME NEW T, NEW x \in T, NEW y \in T, NEW z \in T
    PROVE  /\ SubSeq(<< x, y, z >>, 1, 1) = << x >>
           /\ SubSeq(<< x, y, z >>, 1, 2) = << x, y >>
           /\ SubSeq(<< x, y, z >>, 1, 3) = << x, y, z >>
           /\ SubSeq(<< x, y >>, 1, 1) = << x >>
           /\ SubSeq(<< x, y >>, 1, 2) = << x, y >>
  <1> DEFINE r == << x, y, z >>
             q == << x, y >>
  <1>1. /\ r \in Seq(T) /\ Len(r) = 3 /\ r[1] = x /\ r[2] = y
        /\ q \in Seq(T) /\ Len(q) = 2 /\ q[1] = x /\ q[2] = y
    OBVIOUS
  <1> HIDE DEF r, q
  <1>2. SubSeq(r, 1, 3) = r /\ SubSeq(q, 1, 2) = q
    BY <1>1, SubSeqFull
  <1>3. SubSeq(r, 1, 1) = << x >> /\ SubSeq(q, 1, 1) = << x >>
    <2> DEFINE s == SubSeq(r, 1, 1)
               t == SubSeq(q, 1, 1)
    <2>1. /\ s \in Seq(T) /\ Len(s) = 1 /\ s[1] = r[1]
          /\ t \in Seq(T) /\ Len(t) = 1 /\ t[1] = q[1]
      BY <1>1
    <2> HIDE DEF s, t
    <2>2. s = << x >> /\ t = << x >>
      BY <1>1, <2>1
    <2>3. QED
      BY <2>2 DEF s, t
  <1>4. SubSeq(r, 1, 2) = q
    <2> DEFINE s == SubSeq(r, 1, 2)
    <2>1. s \in Seq(T) /\ Len(s) = 2 /\ s[1] = r[1] /\ s[2] = r[2]
      BY <1>1
    <2> HIDE DEF s
    <2>2. s = << x, y >>
      BY <1>1, <2>1
    <2>3. QED
      BY <2>2 DEF s, q
  <1>5. QED
    BY <1>2, <1>3, <1>4 DEF r, q

\* A record of any form writes its strings, cut off or not.
LEMMA RecordIsWritten ==
    ASSUME NEW hd, NEW k, NEW text \in Seq(Bytes), NEW type, NEW tx_id, NEW len,
           IsRecord(hd, k, text, type, tx_id, len)
    PROVE  /\ WritesRecord(<< hd, k, text >>, hd)
           /\ WritesRecord(<< hd, k >>, hd)
           /\ FlattenSeq(<< hd >>) \in Seq(Bytes)
           /\ Len(FlattenSeq(<< hd >>)) = HeaderSize
  <1>1. /\ hd \in Seq(Bytes) /\ Len(hd) = HeaderSize
        /\ k \in Seq(Bytes) /\ Len(k) = KeySize
        /\ k \o text \in Seq(Bytes) /\ Len(k \o text) = KeySize + Len(text)
        /\ FlattenSeq(<< hd >>) = hd \o << >>
        /\ FlattenSeq(<< hd, k >>) = hd \o k
        /\ FlattenSeq(<< hd, k, text >>) = hd \o (k \o text)
        /\ HeaderSize \in Nat /\ KeySize \in Nat /\ Len(text) \in Nat
    BY Zenon DEF IsRecord
  <1>2. << >> \in Seq(Bytes) /\ Len(<< >>) = 0
    OBVIOUS
  <1> DEFINE kt == k \o text
  <1>3. /\ hd \o << >> \in Seq(Bytes) /\ Len(hd \o << >>) = HeaderSize
        /\ hd \o k \in Seq(Bytes) /\ Len(hd \o k) = HeaderSize + KeySize
        /\ hd \o kt \in Seq(Bytes)
        /\ Len(hd \o kt) = HeaderSize + (KeySize + Len(text))
    <2>1. /\ kt \in Seq(Bytes) /\ Len(kt) = KeySize + Len(text)
      BY <1>1
    <2> HIDE DEF kt
    <2>2. hd \o << >> \in Seq(Bytes) /\ Len(hd \o << >>) = Len(hd) + 0
      BY <1>1, <1>2, JoinedLength
    <2>3. hd \o k \in Seq(Bytes) /\ Len(hd \o k) = Len(hd) + Len(k)
      BY <1>1, JoinedLength
    <2>4. hd \o kt \in Seq(Bytes) /\ Len(hd \o kt) = Len(hd) + Len(kt)
      BY <1>1, <2>1, JoinedLength
    <2>5. QED
      BY <1>1, <2>1, <2>2, <2>3, <2>4
  <1>4. /\ IsRecordStart(hd \o << >>, hd)
        /\ IsRecordStart(hd \o k, hd)
    <2>1. Len(<< >>) <= KeySize /\ Len(k) <= KeySize
      BY <1>1, <1>2
    <2>2. QED
      BY <1>1, <1>2, <2>1, Zenon DEF IsRecordStart
  <1>5. /\ SubSeq(<< hd, k, text >>, 1, 1) = << hd >>
        /\ SubSeq(<< hd, k, text >>, 1, 2) = << hd, k >>
        /\ SubSeq(<< hd, k, text >>, 1, 3) = << hd, k, text >>
        /\ SubSeq(<< hd, k >>, 1, 1) = << hd >>
        /\ SubSeq(<< hd, k >>, 1, 2) = << hd, k >>
    <2> DEFINE T == Seq(Bytes)
    <2>1. hd \in T /\ k \in T /\ text \in T
      BY <1>1
    <2> HIDE DEF T
    <2>2. QED
      BY <2>1, PrefixOfTuple
  <1>6. /\ \A w \in 1 .. 3 : w = 1 \/ w = 2 \/ w = 3
        /\ \A w \in 1 .. 3 : w < 3 => w = 1 \/ w = 2
        /\ \A w \in 1 .. 2 : w = 1 \/ w = 2
        /\ \A w \in 1 .. 2 : w < 2 => w = 1
    OBVIOUS
  <1>7. WritesRecord(<< hd, k, text >>, hd)
    <2> DEFINE r == << hd, k, text >>
    <2>1. Len(r) = 3 /\ 3 \in Nat /\ 3 >= 1
      OBVIOUS
    <2>2. \A w \in 1 .. 3 : FlattenSeq(SubSeq(r, 1, w)) \in Seq(Bytes)
      BY <1>1, <1>3, <1>5, <1>6, Zenon
    <2>3. \A w \in 1 .. 3 : w < 3 => IsRecordStart(FlattenSeq(SubSeq(r, 1, w)), hd)
      BY <1>1, <1>4, <1>5, <1>6, Zenon
    <2>4. Len(FlattenSeq(r)) >= HeaderSize
      <3>1. Len(FlattenSeq(r)) = HeaderSize + (KeySize + Len(text))
        BY <1>1, <1>3, Zenon
      <3> HIDE DEF r
      <3>2. QED
        BY <1>1, <3>1
    <2>5. SubSeq(r, 1, 3) = r
      BY <1>5
    <2> HIDE DEF r
    <2>6. WritesRecord(r, hd)
      BY <2>1, <2>2, <2>3, <2>4, <2>5, Zenon DEF WritesRecord
    <2>7. QED
      BY <2>6 DEF r
  <1>8. WritesRecord(<< hd, k >>, hd)
    <2> DEFINE r == << hd, k >>
    <2>1. Len(r) = 2 /\ 2 \in Nat /\ 2 >= 1
      OBVIOUS
    <2>2. \A w \in 1 .. 2 : FlattenSeq(SubSeq(r, 1, w)) \in Seq(Bytes)
      BY <1>1, <1>3, <1>5, <1>6, Zenon
    <2>3. \A w \in 1 .. 2 : w < 2 => IsRecordStart(FlattenSeq(SubSeq(r, 1, w)), hd)
      BY <1>1, <1>4, <1>5, <1>6, Zenon
    <2>4. Len(FlattenSeq(r)) >= HeaderSize
      <3>1. Len(FlattenSeq(r)) = HeaderSize + KeySize
        BY <1>1, <1>3, Zenon
      <3> HIDE DEF r
      <3>2. QED
        BY <1>1, <3>1
    <2>5. SubSeq(r, 1, 2) = r
      BY <1>5
    <2> HIDE DEF r
    <2>6. WritesRecord(r, hd)
      BY <2>1, <2>2, <2>3, <2>4, <2>5, Zenon DEF WritesRecord
    <2>7. QED
      BY <2>6 DEF r
  <1>9. QED
    BY <1>1, <1>3, <1>7, <1>8

-----------------------------------------------------------------------------
(* The records the callers write.                                           *)

\* A text fits in its buffer.
LEMMA TextIsShort ==
    \A v \in Texts : Len(TextBytes(v)) \in Nat /\ Len(TextBytes(v)) <= 256
  <1>1. \A v \in Texts : Len(TextBytes(v)) \in 1 .. 256
    BY StringsAssumption
  <1>2. \A n \in 1 .. 256 : n \in Nat /\ n <= 256
    BY SMT
  <1>3. QED
    BY <1>1, <1>2, Zenon

\* The fields the callers write.
LEMMA FieldsOfRecord ==
    ASSUME NEW lsn \in Bytes, NEW tx_id \in Bytes, NEW pad \in Bytes,
           NEW type \in 0 .. 4
    PROVE  /\ Fields(lsn, type, tx_id, 0, pad)
           /\ \A v \in Texts : Fields(lsn, type, tx_id, Len(TextBytes(v)), pad)
  <1>1. 0 \in Nat /\ 0 <= 256
    OBVIOUS
  <1>2. \A v \in Texts : Len(TextBytes(v)) \in Nat /\ Len(TextBytes(v)) <= 256
    BY TextIsShort
  <1>3. QED
    BY <1>1, <1>2, Zenon DEF Fields

LEMMA TypesOfRecords ==
    /\ LOG_RECORD_TYPE_INSERT \in 0 .. 4 /\ LOG_RECORD_TYPE_DELETE \in 0 .. 4
    /\ LOG_RECORD_TYPE_UPDATE \in 0 .. 4 /\ LOG_RECORD_TYPE_COMMIT \in 0 .. 4
    /\ LOG_RECORD_TYPE_BEGIN \in 0 .. 4
  BY DEF LOG_RECORD_TYPE_COMMIT, LOG_RECORD_TYPE_INSERT, LOG_RECORD_TYPE_UPDATE,
         LOG_RECORD_TYPE_DELETE, LOG_RECORD_TYPE_BEGIN

\* The records the callers write are records of that form.
LEMMA RowRecordIsWritten ==
    ASSUME NEW lsn \in Bytes, NEW tx_id \in Bytes, NEW pad \in Bytes,
           NEW type \in 0 .. 4, NEW key \in Int32, NEW value \in Texts
    PROVE  LET len == Len(TextBytes(value))
               hd  == LogRecordHeader(lsn, type, tx_id, len, pad)
           IN  /\ IsHeader(hd, type, tx_id, len)
               /\ WritesRecord(RowRecord(lsn, type, tx_id, key, value, pad), hd)
  <1> DEFINE text == TextBytes(value)
             len  == Len(text)
             hd   == LogRecordHeader(lsn, type, tx_id, len, pad)
             k    == KeyBytes(key)
  <1>1. text \in Seq(Bytes)
    BY StringsAssumption
  <1>2. Fields(lsn, type, tx_id, len, pad)
    BY FieldsOfRecord
  <1>3. RowRecord(lsn, type, tx_id, key, value, pad) = << hd, k, text >>
    BY DEF RowRecord
  <1> HIDE DEF text, len
  <1>4. IsRecord(hd, k, text, type, tx_id, len)
    BY <1>1, <1>2, RecordStrings
  <1> HIDE DEF hd, k
  <1>5. WritesRecord(<< hd, k, text >>, hd)
    BY <1>1, <1>4, RecordIsWritten
  <1>6. IsHeader(hd, type, tx_id, len)
    BY <1>4, Zenon DEF IsRecord
  <1>7. QED
    BY <1>3, <1>5, <1>6, Zenon DEF text, len, hd, k

LEMMA DeleteRecordIsWritten ==
    ASSUME NEW lsn \in Bytes, NEW tx_id \in Bytes, NEW pad \in Bytes,
           NEW key \in Int32
    PROVE  LET hd == LogRecordHeader(lsn, LOG_RECORD_TYPE_DELETE, tx_id, 0, pad)
           IN  /\ IsHeader(hd, LOG_RECORD_TYPE_DELETE, tx_id, 0)
               /\ WritesRecord(wal_log_delete(lsn, tx_id, key, pad), hd)
  <1> DEFINE type == LOG_RECORD_TYPE_DELETE
             hd   == LogRecordHeader(lsn, type, tx_id, 0, pad)
             k    == KeyBytes(key)
  <1>1. << >> \in Seq(Bytes)
    OBVIOUS
  <1>2. Fields(lsn, type, tx_id, 0, pad)
    BY TypesOfRecords, FieldsOfRecord
  <1>3. wal_log_delete(lsn, tx_id, key, pad) = << hd, k >>
    BY DEF wal_log_delete
  <1> HIDE DEF type
  <1>4. IsRecord(hd, k, << >>, type, tx_id, 0)
    BY <1>1, <1>2, RecordStrings
  <1> HIDE DEF hd, k
  <1>5. WritesRecord(<< hd, k >>, hd)
    BY <1>1, <1>4, RecordIsWritten
  <1>6. IsHeader(hd, type, tx_id, 0)
    BY <1>4, Zenon DEF IsRecord
  <1>7. QED
    BY <1>3, <1>5, <1>6, Zenon DEF hd, k, type

LEMMA ShortRecordIsWritten ==
    ASSUME NEW lsn \in Bytes, NEW tx_id \in Bytes, NEW pad \in Bytes,
           NEW type \in 0 .. 4
    PROVE  LET record == << LogRecordHeader(lsn, type, tx_id, 0, pad) >>
           IN  FlattenSeq(record) \in Seq(Bytes) /\ Len(FlattenSeq(record)) = HeaderSize
  <1> DEFINE hd == LogRecordHeader(lsn, type, tx_id, 0, pad)
             k  == KeyBytes(0)
  <1>1. << >> \in Seq(Bytes) /\ 0 \in Int32
    BY KeysAreInts
  <1>2. Fields(lsn, type, tx_id, 0, pad)
    BY FieldsOfRecord
  <1>3. IsRecord(hd, k, << >>, type, tx_id, 0)
    BY <1>1, <1>2, RecordStrings
  <1> HIDE DEF hd, k
  <1>4. FlattenSeq(<< hd >>) \in Seq(Bytes) /\ Len(FlattenSeq(<< hd >>)) = HeaderSize
    BY <1>1, <1>3, RecordIsWritten
  <1>5. QED
    BY <1>4 DEF hd

-----------------------------------------------------------------------------
(* The database file that ROLLBACK scans (FileScan).                        *)

LEMMA RemainderIs ==
    ASSUME NEW x \in Int, NEW y \in Nat \ {0}
    PROVE  x % y \in Nat
  OBVIOUS

\* Bytes of the contents of a slot.
LEMMA ValueBytes ==
    ASSUME NEW value, NEW i \in Nat
    PROVE  ByteOfValue(value, i) \in Bytes
  <1> DEFINE text == TextBytes(IF value \in Values THEN value ELSE Garbled)
  <1>1. text \in Seq(Bytes)
    BY PageAssumption
  <1>2. ByteOfValue(value, i) =
            IF value = Empty \/ i >= Len(text) THEN 0 ELSE text[i + 1]
    BY DEF ByteOfValue
  <1> HIDE DEF text
  <1>3. 0 \in Bytes
    BY ByteIs
  <1>4. Len(text) \in Nat /\ \A j \in 1 .. Len(text) : text[j] \in Bytes
    BY <1>1
  <1>5. i < Len(text) => i + 1 \in 1 .. Len(text)
    BY <1>4
  <1>6. QED
    BY <1>2, <1>3, <1>4, <1>5

\* Bytes of a page, whatever leaf it holds.
LEMMA LeafByte ==
    ASSUME NEW C, NEW leaf \in LeafOver(Int, C), NEW i \in Nat
    PROVE  ByteOfLeaf(leaf, i) \in Bytes
  <1>1. leaf.num_keys \in Int /\ leaf.keys \in [1 .. Slots -> Int]
    BY PartsOver
  <1>2. /\ Slots \in Nat /\ ValueSize \in Nat \ {0} /\ 0 \in Bytes
    BY SlotsAssumption, PageAssumption, ByteIs
  <1> DEFINE word  == i \div 4
             texts == 4 * (2 + Slots)
             at    == (i - texts) % ValueSize
             value == leaf.values[(i - texts) \div ValueSize + 1]
  <1>3. ByteOfLeaf(leaf, i) =
            IF word = 0 THEN ByteOf(1, i)
            ELSE IF word = 1 THEN ByteOf(leaf.num_keys, i - 4)
            ELSE IF i < texts THEN ByteOf(leaf.keys[word - 1], i % 4)
            ELSE IF i < texts + Slots * ValueSize THEN ByteOfValue(value, at)
            ELSE 0
    BY DEF ByteOfLeaf
  <1>4. CASE word = 0
    <2>1. i \in 0 .. 3
      BY <1>4
    <2>2. QED
      BY <1>3, <1>4, <2>1, WordBytes
  <1>5. CASE word = 1
    <2>1. i - 4 \in 0 .. 3
      BY <1>5
    <2>2. QED
      BY <1>1, <1>3, <1>5, <2>1, WordBytes
  <1>6. CASE word # 0 /\ word # 1 /\ i < texts
    <2>1. word - 1 \in 1 .. Slots /\ i % 4 \in 0 .. 3
      BY <1>2, <1>6
    <2>2. leaf.keys[word - 1] \in Int
      BY <1>1, <2>1
    <2> HIDE DEF word, texts, at, value
    <2>3. QED
      BY <1>3, <1>6, <2>1, <2>2, WordBytes
  <1>7. CASE word # 0 /\ word # 1 /\ ~ (i < texts)
    <2>1. at \in Nat
      <3>1. i - texts \in Int
        BY <1>2
      <3>2. QED
        BY <1>2, <3>1, RemainderIs
    <2> HIDE DEF word, texts, at, value
    <2>2. QED
      BY <1>2, <1>3, <1>7, <2>1, ValueBytes
  <1>8. QED
    BY <1>4, <1>5, <1>6, <1>7

\* The number of the page a byte is in.
LEMMA PageOfByte ==
    ASSUME NEW size \in Nat \ {0}, NEW n \in Nat, NEW i \in Nat, i < size * n
    PROVE  i \div size \in 0 .. n - 1 /\ i % size \in Nat
  <1> DEFINE q == i \div size
  <1>1. q \in Int /\ i % size \in Nat /\ i = size * q + (i % size)
    OBVIOUS
  <1>2. i % size < size
    OBVIOUS
  <1> HIDE DEF q
  <1>3. size * q <= i
    BY <1>1
  <1>4. q < n
    BY <1>1, <1>3
  <1>5. q >= 0
    BY <1>1, <1>2
  <1>6. QED
    BY <1>1, <1>4, <1>5 DEF q

\* A function on 1 .. n is a sequence.
LEMMA PagesAre ==
    ASSUME NEW T, NEW n \in Nat, NEW f \in [1 .. n -> T]
    PROVE  f \in Seq(T) /\ Len(f) = n /\ DOMAIN f = 1 .. n
  OBVIOUS

\* Leaves one behind the other are that many pages of bytes.
LEMMA LeavesAreBytes ==
    ASSUME NEW C, NEW n \in Nat, NEW leaves \in [1 .. n -> LeafOver(Int, C)],
           Len(leaves) = n
    PROVE  /\ LeavesBytes(leaves) \in Seq(Bytes)
           /\ Len(LeavesBytes(leaves)) = PageSize * n
  <1> DEFINE size  == PageSize * n
             bytes == [m \in 1 .. size |->
                          ByteOfLeaf(leaves[(m - 1) \div PageSize + 1],
                                     (m - 1) % PageSize)]
  <1>1. PageSize \in Nat \ {0} /\ size \in Nat
    <2>1. PageSize \in Nat /\ PageSize % 24 = 4096 % 24
      BY PageAssumption DEF HeaderSize
    <2>2. PageSize # 0
      BY <2>1
    <2>3. QED
      BY <2>1, <2>2
  <1>2. LeavesBytes(leaves) = bytes
    BY DEF LeavesBytes
  <1>3. ASSUME NEW m \in 1 .. size
        PROVE  bytes[m] \in Bytes
    <2>1. m - 1 \in Nat /\ m - 1 < PageSize * n
      BY <1>1
    <2>2. (m - 1) \div PageSize \in 0 .. n - 1 /\ (m - 1) % PageSize \in Nat
      BY <1>1, <2>1, PageOfByte
    <2>3. (m - 1) \div PageSize + 1 \in 1 .. n
      BY <2>2
    <2>4. leaves[(m - 1) \div PageSize + 1] \in LeafOver(Int, C)
      BY <2>3
    <2>5. QED
      BY <2>2, <2>4, LeafByte
  <1> HIDE DEF size
  <1>4. bytes \in [1 .. size -> Bytes]
    BY <1>3
  <1> HIDE DEF bytes
  <1>5. QED
    BY <1>1, <1>2, <1>4, PagesAre DEF size

\* A page without rows.
LEMMA ZeroPageIs ==
    ZeroPage \in LeafOver(Int, Contents) /\ Formatted(ZeroPage) = ZeroPage
  <1> DEFINE ks == [i \in 1 .. Slots |-> 0]
             vs == [i \in 1 .. Slots |-> Empty]
             z  == [num_keys |-> 0, keys |-> ks, values |-> vs]
  <1>1. ks \in [1 .. Slots -> Int] /\ vs \in [1 .. Slots -> Contents]
    BY LeavesOver
  <1>2. ZeroPage = z
    BY DEF ZeroPage
  <1> HIDE DEF ks, vs
  <1>3. 0 \in 0 .. Slots
    BY SlotsAssumption
  <1>4. [z EXCEPT !.num_keys = 0] = z
    OBVIOUS
  <1>5. z \in LeafOver(Int, Contents)
    BY <1>1, <1>3 DEF LeafOver
  <1> HIDE DEF z
  <1>6. QED
    BY <1>2, <1>4, <1>5 DEF Formatted

\* The file is bytes, of three pages when there is one leaf behind the catalog.
LEMMA FileBytes ==
    ASSUME NEW page1 \in CatalogPages, NEW C, NEW n \in Nat,
           NEW leaves \in [1 .. n -> LeafOver(Int, C)], Len(leaves) = n
    PROVE  LET file == FileOf(page1, leaves)
           IN  /\ file \in Seq(Bytes) /\ Len(file) \in Nat
               /\ n = 1 => Len(file) = 3 * PageSize
  <1> DEFINE file  == FileOf(page1, leaves)
             one   == << ZeroPage >>
             first == LeavesBytes(<< Formatted(ZeroPage) >>)
             rest  == LeavesBytes(leaves)
  <1>1. first \in Seq(Bytes) /\ Len(first) = PageSize * 1
    <2>1. one \in [1 .. 1 -> LeafOver(Int, Contents)] /\ Len(one) = 1
      BY ZeroPageIs
    <2>2. first = LeavesBytes(one)
      BY ZeroPageIs
    <2> HIDE DEF one, first
    <2>3. LeavesBytes(one) \in Seq(Bytes) /\ Len(LeavesBytes(one)) = PageSize * 1
      BY <2>1, LeavesAreBytes
    <2>4. QED
      BY <2>2, <2>3
  <1>2. page1 \in Seq(Bytes) /\ Len(page1) = PageSize /\ PageSize \in Nat
    BY PageAssumption
  <1>3. rest \in Seq(Bytes) /\ Len(rest) = PageSize * n
    BY LeavesAreBytes
  <1>4. file = (first \o page1) \o rest
    BY DEF FileOf, UnusedRoot
  <1> HIDE DEF first, rest, file
  <1>5. first \o page1 \in Seq(Bytes) /\ Len(first \o page1) = PageSize + PageSize
    <2>1. Len(first \o page1) = Len(first) + Len(page1) /\ first \o page1 \in Seq(Bytes)
      BY <1>1, <1>2, JoinedLength
    <2>2. Len(first) = PageSize
      BY <1>1, <1>2
    <2>3. QED
      BY <1>2, <2>1, <2>2
  <1>6. /\ file \in Seq(Bytes) /\ Len(file) \in Nat
        /\ Len(file) = Len(first \o page1) + Len(rest)
    BY <1>3, <1>4, <1>5, JoinedLength
  <1>7. n = 1 => Len(file) = 3 * PageSize
    BY <1>2, <1>3, <1>5, <1>6
  <1>8. QED
    BY <1>6, <1>7 DEF file

\* Where the rounds begin, and the headers they read.
LEMMA RoundsAre ==
    ASSUME NEW file \in Seq(Bytes), NEW start \in Nat, NEW old \in Headers,
           NEW pos \in RoundsFrom(file, start)
    PROVE  /\ pos \in Nat /\ pos < Len(file)
           /\ HeaderAt(file, start, old, pos) \in Headers
  <1>1. PICK i \in 0 .. (Len(file) - start - 1) \div HeaderSize :
            pos = start + HeaderSize * i
    BY DEF RoundsFrom
  <1>2. Len(file) \in Nat /\ Unread \in Headers
    BY StartIsState DEF LoopStart, LoopState
  <1>3. pos \in Nat /\ (pos = start \/ pos - HeaderSize \in Nat)
    BY <1>1 DEF HeaderSize
  <1>4. pos < Len(file)
    BY <1>1, <1>2 DEF HeaderSize
  <1>5. pos # start => ReadHeader(file, pos - HeaderSize, Unread) \in Headers
    BY <1>2, <1>3, HeaderRead
  <1>6. HeaderAt(file, start, old, pos) \in Headers
    BY <1>3, <1>5, HeaderRead DEF HeaderAt
  <1>7. QED
    BY <1>3, <1>4, <1>6

\* Whatever bytes are taken for a record, its calls are none, or those of an
\* INSERT, a DELETE or an UPDATE of one row.
LEMMA CallsOfAre ==
    ASSUME NEW file \in Seq(Bytes), NEW header, NEW body \in Nat, NEW tx
    PROVE  LET calls == CallsOf(file, header, body, tx)
           IN  /\ calls \in Seq(AnyCall)
               /\ \E key \in Int, value \in Contents :
                     calls \in {<< >>, << InsertCall(key, value) >>,
                                << DeleteCall(key) >>,
                                << DeleteCall(key), InsertCall(key, value) >>}
  <1> DEFINE key   == ReadKey(file, body)
             value == ReadValue(file, body + KeySize, ValueLen(header))
             calls == CallsOf(file, header, body, tx)
  <1>1. key \in Int /\ value \in Contents
    BY KeyRead, ValueRead
  <1>2. calls = IF TxId(header) # tx THEN << >> ELSE Redo(Type(header), key, value)
    BY DEF CallsOf
  <1> HIDE DEF key, value, calls
  <1>3. Redo(Type(header), key, value) \in
            {<< >>, << InsertCall(key, value) >>, << DeleteCall(key) >>,
             << DeleteCall(key), InsertCall(key, value) >>}
    BY DEF Redo
  <1>4. Redo(Type(header), key, value) \in Seq(AnyCall) /\ << >> \in Seq(AnyCall)
    BY <1>1, RedoIsCalls
  <1>5. QED
    BY <1>1, <1>2, <1>3, <1>4 DEF calls

=============================================================================
