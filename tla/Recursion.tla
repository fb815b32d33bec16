------------------------------ MODULE Recursion -----------------------------
(***************************************************************************)
(* What the proof modules need about natural numbers and about functions   *)
(* that are defined by recursion: induction, and that the loops of the     *)
(* model, written as recursive functions and folds, do compute something.  *)
(* A step of a loop is a function here, of its number and of the state it  *)
(* starts from, so that one lemma serves all of them.                      *)
(***************************************************************************)
EXTENDS Integers, SequencesExt, SequenceTheorems, WellFoundedInduction, TLAPS

\* Min returns the least element of a set of naturals that has one at all; the
\* loops of btree.c that stop at the first slot with some property do the same.
LEMMA MinOfNats ==
    ASSUME NEW S, S \subseteq Nat, S # {}
    PROVE  Min(S) \in S /\ \A y \in S : Min(S) <= y
  <1> DEFINE Less == {p \in Nat \X Nat : p[1] < p[2]}
  <1>1. IsWellFoundedOn(Less, Nat)
    BY NatLessThanWellFounded, Zenon DEF OpToRel
  <1>2. PICK x \in S : \A y \in S : <<y, x>> \notin Less
    BY <1>1, WFMin
  <1>3. \A y \in S : x <= y
    <2>1. SUFFICES ASSUME NEW y \in S, y < x
                   PROVE  FALSE
      OBVIOUS
    <2>2. <<y, x>> \in Less
      BY <2>1
    <2>3. QED
      BY <1>2, <2>2
  <1>4. QED
    BY <1>3 DEF Min

\* A set of naturals with 0 and with the successor of each of its elements has
\* all of them: otherwise the least one that is missing would not be missing.
LEMMA Induction ==
    ASSUME NEW S \in SUBSET Nat, 0 \in S, \A n \in S : n + 1 \in S
    PROVE  S = Nat
  <1> DEFINE Rest == Nat \ S
  <1>1. SUFFICES ASSUME Rest # {}
                 PROVE  FALSE
    OBVIOUS
  <1>2. Rest \subseteq Nat
    OBVIOUS
  <1> HIDE DEF Rest
  <1>3. Min(Rest) \in Rest /\ \A y \in Rest : Min(Rest) <= y
    BY <1>1, <1>2, MinOfNats
  <1>4. Min(Rest) \in Nat /\ Min(Rest) # 0
    BY <1>3 DEF Rest
  <1>5. Min(Rest) - 1 \in S
    BY <1>3, <1>4 DEF Rest
  <1>6. Min(Rest) \in S
    BY <1>4, <1>5
  <1>7. QED
    BY <1>3, <1>6 DEF Rest

-----------------------------------------------------------------------------

\* What is proved to exist or to agree below has a name, so that a fact about it
\* can be used without looking inside.
IsRun(g, n, S, start, step) ==
    /\ g \in [0 .. n -> S]
    /\ g[0] = start
    /\ \A i \in 1 .. n : g[i] = step[i][g[i - 1]]

IsFold(g, n, S, base, step) ==
    /\ g \in [SUBSET (1 .. n) -> S]
    /\ g[{}] = base
    /\ \A t \in SUBSET (1 .. n) :
          t # {} => g[t] = step[Max(t)][g[t \ {Max(t)}]]

IsFlattening(g, n, T, parts) ==
    /\ g \in [0 .. n -> Seq(T)]
    /\ g[0] = << >>
    /\ \A i \in 1 .. n : g[i] = g[i - 1] \o parts[i]

SameSteps(r, q, n) ==
    /\ r[0] = q[0]
    /\ \A i \in 1 .. n : r[i - 1] = q[i - 1] => r[i] = q[i]

Agree(r, q, n) == \A i \in 0 .. n : r[i] = q[i]

\* A loop of n steps has a state after each of them.
LEMMA Iteration ==
    ASSUME NEW n \in Nat, NEW S, NEW start \in S,
           NEW step \in [1 .. n -> [S -> S]]
    PROVE  \E g : IsRun(g, n, S, start, step)
  <1> DEFINE Run(m, g) == /\ g[0] = start
                          /\ \A i \in 1 .. m : g[i] = step[i][g[i - 1]]
             Ms == {m \in Nat : m <= n => \E g \in [0 .. m -> S] : Run(m, g)}
  <1>1. 0 \in Ms
    <2> DEFINE g == [i \in 0 .. 0 |-> start]
    <2>1. g \in [0 .. 0 -> S] /\ Run(0, g)
      OBVIOUS
    <2>2. QED
      BY <2>1
  <1>2. ASSUME NEW m \in Ms
        PROVE  m + 1 \in Ms
    <2>1. m \in Nat /\ (m <= n => \E g \in [0 .. m -> S] : Run(m, g))
      OBVIOUS
    <2>2. ASSUME m + 1 <= n
          PROVE  \E g \in [0 .. m + 1 -> S] : Run(m + 1, g)
      <3>1. m + 1 \in 1 .. n
        BY <2>1, <2>2
      <3>2. PICK g \in [0 .. m -> S] : Run(m, g)
        BY <2>1, <2>2
      <3> DEFINE next == step[m + 1][g[m]]
                 h    == [i \in 0 .. m + 1 |-> IF i = m + 1 THEN next ELSE g[i]]
      <3>3. g[m] \in S
        BY <2>1, <3>2
      <3>4. next \in S
        BY <3>1, <3>3
      <3> HIDE DEF next
      <3>5. h \in [0 .. m + 1 -> S]
        BY <2>1, <3>2, <3>4
      <3>6. h[m + 1] = next /\ \A i \in 0 .. m : h[i] = g[i]
        BY <2>1
      <3> HIDE DEF h
      <3>7. h[0] = start
        BY <2>1, <3>2, <3>6
      <3>8. ASSUME NEW i \in 1 .. m + 1
            PROVE  h[i] = step[i][h[i - 1]]
        <4>1. CASE i = m + 1
          BY <4>1, <2>1, <3>6 DEF next
        <4>2. CASE i \in 1 .. m
          BY <4>2, <2>1, <3>2, <3>6
        <4>3. QED
          BY <2>1, <4>1, <4>2
      <3>9. QED
        BY <3>5, <3>7, <3>8
    <2>3. QED
      BY <2>1, <2>2
  <1> HIDE DEF Run
  <1>3. Ms \in SUBSET Nat
    OBVIOUS
  <1>4. n \in Ms
    <2> HIDE DEF Ms
    <2>1. QED
      BY <1>1, <1>2, <1>3, Induction
  <1>5. \E g \in [0 .. n -> S] : Run(n, g)
    BY <1>4
  <1>6. QED
    BY <1>5 DEF Run, IsRun

\* Max returns the greatest element of a set of naturals that has one.
LEMMA MaxOfNats ==
    ASSUME NEW n \in Nat, NEW S, S \subseteq 1 .. n, S # {}
    PROVE  Max(S) \in S /\ \A y \in S : y <= Max(S)
  <1> DEFINE Bounds == {m \in Nat : \A y \in S : y <= m}
  <1>1. Bounds \subseteq Nat /\ n \in Bounds
    OBVIOUS
  <1> DEFINE x == Min(Bounds)
  <1>2. x \in Bounds /\ \A m \in Bounds : x <= m
    <2> HIDE DEF Bounds
    <2>1. QED
      BY <1>1, MinOfNats
  <1> HIDE DEF x
  <1>3. x \in Nat /\ \A y \in S : y <= x /\ y \in Nat /\ y # 0
    BY <1>2
  <1>4. x \in S
    <2>1. SUFFICES ASSUME x \notin S
                   PROVE  FALSE
      OBVIOUS
    <2>2. PICK y \in S : TRUE
      OBVIOUS
    <2>3. x # 0
      BY <1>3, <2>2
    <2>4. x - 1 \in Bounds
      BY <1>3, <2>1, <2>3
    <2>5. QED
      BY <1>2, <1>3, <2>4
  <1>5. \E z \in S : \A y \in S : z >= y
    BY <1>3, <1>4
  <1>6. Max(S) \in S /\ \A y \in S : Max(S) >= y
    BY <1>5 DEF Max
  <1>7. QED
    BY <1>3, <1>6

\* Taking the greatest number away.
LEMMA MaxOfSuccessor ==
    ASSUME NEW m \in Nat, NEW t \in SUBSET (1 .. m + 1)
    PROVE  /\ m + 1 \in t => Max(t) = m + 1 /\ t \ {m + 1} \in SUBSET (1 .. m)
           /\ m + 1 \notin t => t \in SUBSET (1 .. m)
  <1>1. \A x \in 1 .. m + 1 : x = m + 1 \/ x \in 1 .. m
    OBVIOUS
  <1>2. ASSUME m + 1 \in t
        PROVE  Max(t) = m + 1
    <2>1. t # {} /\ m + 1 \in Nat /\ t \subseteq 1 .. m + 1
      BY <1>2
    <2>2. Max(t) \in t /\ \A y \in t : y <= Max(t)
      BY <2>1, MaxOfNats
    <2>3. Max(t) \in 1 .. m + 1 /\ m + 1 <= Max(t)
      BY <1>2, <2>2
    <2>4. QED
      BY <2>3
  <1>3. QED
    BY <1>1, <1>2

\* The recursion of a fold: over the sets of the positions, last position first.
LEMMA FoldRecursion ==
    ASSUME NEW n \in Nat, NEW S, NEW base \in S,
           NEW step \in [1 .. n -> [S -> S]]
    PROVE  \E g : IsFold(g, n, S, base, step)
  <1> DEFINE Sets(m) == SUBSET (1 .. m)
             Run(m, g) ==
                 /\ g[{}] = base
                 /\ \A t \in Sets(m) :
                       t # {} => g[t] = step[Max(t)][g[t \ {Max(t)}]]
             Runs(m) == m <= n => \E g \in [Sets(m) -> S] : Run(m, g)
             Ms == {m \in Nat : Runs(m)}
  <1>1. Runs(0)
    <2> DEFINE g == [t \in Sets(0) |-> base]
    <2>1. Sets(0) = {{}}
      OBVIOUS
    <2>2. g \in [Sets(0) -> S] /\ Run(0, g)
      BY <2>1
    <2>3. QED
      BY <2>2
  <1>2. ASSUME NEW m \in Nat, Runs(m)
        PROVE  Runs(m + 1)
    <2>1. SUFFICES ASSUME m + 1 <= n
                   PROVE  \E g \in [Sets(m + 1) -> S] : Run(m + 1, g)
      OBVIOUS
    <2>2. m + 1 \in 1 .. n /\ m <= n
      BY <2>1
    <2>3. /\ {} \in Sets(m) /\ {} \in Sets(m + 1)
          /\ \A t \in Sets(m) : t \in Sets(m + 1) /\ m + 1 \notin t
          /\ \A t \in Sets(m + 1) :
                /\ m + 1 \in t => Max(t) = m + 1 /\ t \ {m + 1} \in Sets(m)
                /\ m + 1 \notin t => t \in Sets(m)
          /\ \A t \in Sets(m) : t # {} => t \ {Max(t)} \in Sets(m)
      <3>1. \A t \in Sets(m) : t \in Sets(m + 1) /\ m + 1 \notin t
        OBVIOUS
      <3>2. \A t \in Sets(m + 1) :
                /\ m + 1 \in t => Max(t) = m + 1 /\ t \ {m + 1} \in Sets(m)
                /\ m + 1 \notin t => t \in Sets(m)
        BY MaxOfSuccessor
      <3>3. /\ {} \in Sets(m) /\ {} \in Sets(m + 1)
            /\ \A t \in Sets(m) : t # {} => t \ {Max(t)} \in Sets(m)
        OBVIOUS
      <3>4. QED
        BY <3>1, <3>2, <3>3
    <2> HIDE DEF Sets
    <2>4. PICK g \in [Sets(m) -> S] : Run(m, g)
      BY <1>2, <2>2
    <2> DEFINE last == step[m + 1]
               h    == [t \in Sets(m + 1) |->
                           IF m + 1 \in t THEN last[g[t \ {m + 1}]] ELSE g[t]]
    <2>5. last \in [S -> S]
      BY <2>2
    <2> HIDE DEF last
    <2>6. h \in [Sets(m + 1) -> S]
      BY <2>3, <2>4, <2>5
    <2>7. /\ \A t \in Sets(m) : h[t] = g[t]
          /\ \A t \in Sets(m + 1) : m + 1 \in t => h[t] = last[g[t \ {m + 1}]]
      BY <2>3
    <2> HIDE DEF h
    <2>8. h[{}] = base
      BY <2>3, <2>4, <2>7
    <2>9. ASSUME NEW t \in Sets(m + 1), t # {}
          PROVE  h[t] = step[Max(t)][h[t \ {Max(t)}]]
      <3>1. CASE m + 1 \in t
        BY <2>3, <2>7, <3>1 DEF last
      <3>2. CASE m + 1 \notin t
        BY <2>3, <2>4, <2>7, <2>9, <3>2
      <3>3. QED
        BY <3>1, <3>2
    <2>10. QED
      BY <2>6, <2>8, <2>9
  <1> HIDE DEF Runs
  <1>3. 0 \in Ms /\ Ms \in SUBSET Nat /\ \A m \in Ms : m + 1 \in Ms
    BY <1>1, <1>2
  <1>4. n \in Ms
    <2> HIDE DEF Ms
    <2>1. QED
      BY <1>3, Induction
  <1>5. Runs(n)
    BY <1>4
  <1> HIDE DEF Run, Sets
  <1>6. \E g \in [Sets(n) -> S] : Run(n, g)
    BY <1>5 DEF Runs
  <1>7. QED
    BY <1>6 DEF Run, Sets, IsFold

\* Two runs that start in the same state and take the same steps agree.
LEMMA RunsAgree ==
    ASSUME NEW n \in Nat, NEW r, NEW q, SameSteps(r, q, n)
    PROVE  Agree(r, q, n)
  <1> DEFINE Ms == {m \in Nat : m <= n => r[m] = q[m]}
  <1>1. 0 \in Ms /\ Ms \in SUBSET Nat
    BY DEF SameSteps
  <1>2. ASSUME NEW m \in Ms
        PROVE  m + 1 \in Ms
    <2>1. m \in Nat /\ (m <= n => r[m] = q[m])
      OBVIOUS
    <2>2. m + 1 <= n => m + 1 \in 1 .. n /\ m + 1 - 1 = m
      BY <2>1
    <2>3. m + 1 <= n => r[m + 1] = q[m + 1]
      BY <2>1, <2>2 DEF SameSteps
    <2>4. QED
      BY <2>1, <2>3
  <1>3. Ms = Nat
    <2> HIDE DEF Ms
    <2>1. QED
      BY <1>1, <1>2, Induction
  <1>4. QED
    BY <1>3 DEF Agree

\* Sequences are put behind each other from left to right.
LEMMA FlatteningExists ==
    ASSUME NEW n \in Nat, NEW T, NEW parts, \A i \in 1 .. n : parts[i] \in Seq(T)
    PROVE  \E g : IsFlattening(g, n, T, parts)
  <1>1. \A i \in 1 .. n, x \in Seq(T) : x \o parts[i] \in Seq(T)
    BY ConcatProperties
  <1>2. << >> \in Seq(T)
    OBVIOUS
  <1> DEFINE S    == Seq(T)
             step == [i \in 1 .. n |-> [x \in S |-> x \o parts[i]]]
  <1> HIDE DEF S
  <1>3. step \in [1 .. n -> [S -> S]] /\ << >> \in S
    BY <1>1, <1>2 DEF S
  <1>4. \A i \in 1 .. n, x \in S : step[i][x] = x \o parts[i]
    OBVIOUS
  <1> HIDE DEF step
  <1>5. PICK g : IsRun(g, n, S, << >>, step)
    BY <1>3, Iteration
  <1>6. \A i \in 1 .. n : g[i - 1] \in S /\ g[i] = step[i][g[i - 1]]
    BY <1>5 DEF IsRun
  <1>7. \A i \in 1 .. n : g[i] = g[i - 1] \o parts[i]
    BY <1>4, <1>6
  <1>8. g \in [0 .. n -> S] /\ g[0] = << >>
    BY <1>5 DEF IsRun
  <1>9. QED
    BY <1>7, <1>8 DEF S, IsFlattening

\* That is what FlattenSeq does.
LEMMA FlattenIs ==
    ASSUME NEW T, NEW seqs \in Seq(Seq(T)), NEW g,
           IsFlattening(g, Len(seqs), T, seqs)
    PROVE  FlattenSeq(seqs) = g[Len(seqs)]
  <1> DEFINE n == Len(seqs)
             Cat(x, y) == x \o y
  <1>1. n \in Nat /\ \A i \in 1 .. n : seqs[i] \in Seq(T)
    OBVIOUS
  <1>2. \A i \in 1 .. n : Cat(<< >>, seqs[i]) = seqs[i]
    BY <1>1, ConcatEmptySeq
  <1>3. FlattenSeq(seqs) =
            IF n = 0 THEN seqs
            ELSE LET f[i \in 1 .. n] ==
                         IF i = 1 THEN seqs[i] ELSE Cat(f[i - 1], seqs[i])
                 IN  f[n]
    BY DEF FlattenSeq
  <1>4. n = 0 => seqs = << >>
    BY EmptySeq
  <1>5. g[0] = << >> /\ \A i \in 1 .. n : g[i] = Cat(g[i - 1], seqs[i])
    BY DEF IsFlattening
  <1> HIDE DEF Cat, n
  <1>6. CASE n = 0
    BY <1>3, <1>4, <1>5, <1>6 DEF n
  <1>7. CASE n # 0
    <2> DEFINE Is(f) == f = [i \in 1 .. n |-> IF i = 1 THEN seqs[i]
                                              ELSE Cat(f[i - 1], seqs[i])]
               h == [i \in 1 .. n |-> g[i]]
               f == CHOOSE f : Is(f)
    <2>1. 1 \in 1 .. n /\ 1 - 1 = 0 /\ n \in 1 .. n
      BY <1>1, <1>7
    <2>2. g[1] = seqs[1]
      BY <1>2, <1>5, <2>1
    <2>3. \A i \in 1 .. n : i # 1 => i - 1 \in 1 .. n
      BY <1>1
    <2>4. Is(h)
      BY <1>5, <2>2, <2>3
    <2> HIDE DEF h
    <2>5. Is(f)
      <3> HIDE DEF Is
      <3>1. QED
        BY <2>4
    <2>6. FlattenSeq(seqs) = f[n]
      BY <1>3, <1>7
    <2> HIDE DEF f
    <2>7. /\ f[1] = seqs[1]
          /\ \A i \in 1 .. n : i # 1 => f[i] = Cat(f[i - 1], seqs[i])
      BY <2>1, <2>5
    <2> HIDE DEF Is
    <2> DEFINE r == [i \in 0 .. n |-> IF i = 0 THEN << >> ELSE f[i]]
    <2>8. r[0] = g[0] /\ \A i \in 1 .. n : r[i] = f[i]
      BY <1>1, <1>5
    <2> HIDE DEF r
    <2>9. SameSteps(r, g, n)
      <3>1. ASSUME NEW i \in 1 .. n, r[i - 1] = g[i - 1]
            PROVE  r[i] = g[i]
        <4>1. CASE i = 1
          BY <4>1, <2>2, <2>7, <2>8
        <4>2. CASE i # 1
          BY <4>2, <3>1, <2>3, <2>7, <2>8, <1>5
        <4>3. QED
          BY <4>1, <4>2
      <3>2. QED
        BY <2>8, <3>1 DEF SameSteps
    <2>10. Agree(r, g, n)
      BY <1>1, <2>9, RunsAgree
    <2>11. r[n] = g[n]
      BY <1>1, <2>10 DEF Agree
    <2>12. QED
      BY <2>1, <2>6, <2>8, <2>11 DEF n
  <1>8. QED
    BY <1>6, <1>7

LEMMA FlattenEmpty == FlattenSeq(<< >>) = << >>
  BY DEF FlattenSeq

LEMMA FlattenAppend ==
    ASSUME NEW T, NEW seqs \in Seq(Seq(T)), NEW s \in Seq(T)
    PROVE  /\ FlattenSeq(seqs) \in Seq(T)
           /\ FlattenSeq(Append(seqs, s)) = FlattenSeq(seqs) \o s
  <1> DEFINE all == Append(seqs, s)
             n   == Len(seqs)
  <1>1. n \in Nat /\ \A i \in 1 .. n : seqs[i] \in Seq(T)
    OBVIOUS
  <1>2. /\ all \in Seq(Seq(T)) /\ Len(all) = n + 1
        /\ all[n + 1] = s /\ \A i \in 1 .. n : all[i] = seqs[i]
    BY AppendProperties
  <1> HIDE DEF all
  <1>3. \A i \in 1 .. Len(all) : all[i] \in Seq(T)
    BY <1>2
  <1>4. PICK h : IsFlattening(h, Len(all), T, all)
    BY <1>1, <1>2, <1>3, FlatteningExists
  <1>5. FlattenSeq(all) = h[n + 1]
    BY <1>2, <1>4, FlattenIs
  <1> DEFINE g == [i \in 0 .. n |-> h[i]]
  <1>6. /\ h \in [0 .. n + 1 -> Seq(T)] /\ h[0] = << >>
        /\ \A i \in 1 .. n + 1 : h[i] = h[i - 1] \o all[i]
    BY <1>2, <1>4 DEF IsFlattening
  <1>7. IsFlattening(g, n, T, seqs)
    <2> HIDE DEF n
    <2>1. /\ \A i \in 0 .. n : i \in 0 .. n + 1 /\ g[i] = h[i]
          /\ \A i \in 1 .. n : i \in 1 .. n + 1 /\ i \in 0 .. n /\ i - 1 \in 0 .. n
      BY <1>1
    <2>2. g \in [0 .. n -> Seq(T)] /\ g[0] = << >>
      BY <1>1, <1>6, <2>1
    <2> HIDE DEF g
    <2>3. \A i \in 1 .. n : g[i] = g[i - 1] \o seqs[i]
      BY <1>2, <1>6, <2>1
    <2>4. QED
      BY <2>2, <2>3 DEF IsFlattening
  <1>8. FlattenSeq(seqs) = g[n]
    <2> HIDE DEF g
    <2>1. QED
      BY <1>7, FlattenIs
  <1>9. /\ n \in 0 .. n /\ n + 1 \in 1 .. n + 1 /\ (n + 1) - 1 = n
        /\ n \in 0 .. n + 1
    BY <1>1
  <1> HIDE DEF n
  <1>10. g[n] = h[n] /\ h[n] \in Seq(T) /\ h[n + 1] = h[n] \o s
    BY <1>2, <1>6, <1>9
  <1> HIDE DEF g
  <1>11. QED
    BY <1>5, <1>8, <1>10 DEF all

\* One sequence behind the other.
LEMMA Concatenated ==
    ASSUME NEW T, NEW s \in Seq(T), NEW t \in Seq(T)
    PROVE  /\ s \o t \in Seq(T) /\ Len(s) \in Nat /\ Len(t) \in Nat
           /\ Len(s \o t) = Len(s) + Len(t)
           /\ \A i \in 1 .. Len(s) : (s \o t)[i] = s[i]
           /\ \A i \in 1 .. Len(t) : (s \o t)[Len(s) + i] = t[i]
  OBVIOUS

\* What is in a part is in the whole.
LEMMA FlattenHas ==
    ASSUME NEW T, NEW seqs \in Seq(Seq(T)),
           NEW p \in 1 .. Len(seqs), NEW q \in 1 .. Len(seqs[p])
    PROVE  /\ FlattenSeq(seqs) \in Seq(T)
           /\ \E j \in 1 .. Len(FlattenSeq(seqs)) : FlattenSeq(seqs)[j] = seqs[p][q]
  <1> DEFINE n == Len(seqs)
             x == seqs[p][q]
             Has(s) == \E j \in 1 .. Len(s) : s[j] = x
  <1>1. n \in Nat /\ \A i \in 1 .. n : seqs[i] \in Seq(T)
    OBVIOUS
  <1>2. PICK g : IsFlattening(g, n, T, seqs)
    BY <1>1, FlatteningExists
  <1>3. FlattenSeq(seqs) = g[n]
    BY <1>2, FlattenIs
  <1>4. /\ g \in [0 .. n -> Seq(T)]
        /\ \A i \in 1 .. n : g[i] = g[i - 1] \o seqs[i]
    BY <1>2 DEF IsFlattening
  <1>5. \A s, t \in Seq(T) : Has(s) \/ Has(t) => Has(s \o t)
    <2>1. SUFFICES ASSUME NEW s \in Seq(T), NEW t \in Seq(T)
                   PROVE  Has(s) \/ Has(t) => Has(s \o t)
      OBVIOUS
    <2>2. /\ Len(s) \in Nat /\ Len(t) \in Nat
          /\ Len(s \o t) = Len(s) + Len(t)
          /\ \A i \in 1 .. Len(s) : (s \o t)[i] = s[i]
          /\ \A i \in 1 .. Len(t) : (s \o t)[Len(s) + i] = t[i]
      BY Concatenated
    <2>3. ASSUME NEW j \in 1 .. Len(s), s[j] = x
          PROVE  Has(s \o t)
      <3>1. j \in 1 .. Len(s \o t) /\ (s \o t)[j] = x
        BY <2>2, <2>3
      <3>2. QED
        BY <3>1
    <2>4. ASSUME NEW j \in 1 .. Len(t), t[j] = x
          PROVE  Has(s \o t)
      <3>1. Len(s) + j \in 1 .. Len(s \o t) /\ (s \o t)[Len(s) + j] = x
        BY <2>2, <2>4
      <3>2. QED
        BY <3>1
    <2>5. QED
      BY <2>3, <2>4
  <1>6. Has(seqs[p]) /\ p \in 1 .. n
    OBVIOUS
  <1> HIDE DEF Has, n
  <1> DEFINE Ms == {m \in Nat : p <= m /\ m <= n => Has(g[m])}
  <1>7. 0 \in Ms /\ Ms \in SUBSET Nat
    BY <1>6
  <1>8. ASSUME NEW m \in Ms
        PROVE  m + 1 \in Ms
    <2>1. m \in Nat /\ (p <= m /\ m <= n => Has(g[m]))
      OBVIOUS
    <2>2. ASSUME p <= m + 1, m + 1 <= n
          PROVE  Has(g[m + 1])
      <3>1. m + 1 \in 1 .. n /\ m \in 0 .. n /\ (m + 1) - 1 = m /\ m <= n
        BY <1>1, <2>1, <2>2
      <3>2. g[m + 1] = g[m] \o seqs[m + 1] /\ g[m] \in Seq(T)
            /\ seqs[m + 1] \in Seq(T)
        BY <1>1, <1>4, <3>1
      <3>3. p = m + 1 \/ p <= m
        BY <1>6, <2>1, <2>2
      <3>4. Has(g[m]) \/ Has(seqs[m + 1])
        BY <1>6, <2>1, <3>1, <3>3
      <3>5. QED
        BY <1>5, <3>2, <3>4
    <2>3. QED
      BY <2>1, <2>2
  <1>9. Ms = Nat
    <2> HIDE DEF Ms
    <2>1. QED
      BY <1>7, <1>8, Induction
  <1>10. Has(g[n]) /\ g[n] \in Seq(T)
    <2>1. p \in Nat /\ p <= n /\ n <= n /\ n \in 0 .. n
      BY <1>1, <1>6
    <2>2. \A m \in Nat : p <= m /\ m <= n => Has(g[m])
      BY <1>9
    <2>3. QED
      BY <1>1, <1>4, <2>1, <2>2
  <1>11. QED
    BY <1>3, <1>10 DEF Has

=============================================================================
