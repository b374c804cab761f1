------------------------ MODULE PatchElfEdits_proofs ------------------------
(***************************************************************************)
(* Proofs about the edits of patchelf: on a file as a linker makes it each *)
(* of them ends with error(), or leaves a dynamic section and strings that *)
(* agree, in sections of that file.                                        *)
(***************************************************************************)
EXTENDS PatchElf_proofs

-----------------------------------------------------------------------------
(* Induction up to a number, and the steps of a fold over a sequence.      *)

LEMMA UpTo ==
    ASSUME NEW n \in Nat, NEW T, 0 \in T, \A k \in 1 .. n : k - 1 \in T => k \in T
    PROVE  \A k \in 0 .. n : k \in T
<1> DEFINE Bad == {k \in 0 .. n : k \notin T}
<1> SUFFICES ASSUME Bad # {} PROVE FALSE
  OBVIOUS
<1>1. Min(Bad) \in Bad /\ \A y \in Bad : Min(Bad) <= y
  <2>1. Bad \subseteq Nat
    OBVIOUS
  <2> HIDE DEF Bad
  <2> QED
    BY <2>1, LeastNat
<1> DEFINE m == Min(Bad)
<1> HIDE DEF m
<1>2. m \in 0 .. n /\ m \notin T /\ \A y \in Bad : m <= y
  BY <1>1 DEF m
<1>3. m # 0 /\ m \in 1 .. n
  BY <1>2
<1>4. m - 1 \notin T
  BY <1>2, <1>3
<1>5. m - 1 \in Bad
  BY <1>3, <1>4
<1> QED
  BY <1>2, <1>3, <1>5

\* The indices up to k without the greatest of them.
PrefixAt(n, k) ==
    /\ Indices(k) \in SUBSET Indices(n) /\ Indices(k) # {}
    /\ Max(Indices(k)) = k /\ Indices(k) \ {k} = Indices(k - 1)

LEMMA PrefixIndices ==
    ASSUME NEW n \in Nat
    PROVE  Indices(0) = {} /\ \A k \in 1 .. n : PrefixAt(n, k)
<1>1. Indices(0) = {}
  BY DEF Indices
<1>2. ASSUME NEW k \in 1 .. n
      PROVE  PrefixAt(n, k)
  <2>1. Indices(k) \in SUBSET Indices(n) /\ Indices(k) # {}
        /\ Indices(k) \ {k} = Indices(k - 1)
    BY DEF Indices
  <2>2. Max(Indices(k)) \in Indices(k) /\ \A y \in Indices(k) : y <= Max(Indices(k))
    <3>1. IsFiniteSet(Indices(k)) /\ Ints(Indices(k))
      BY FS_Interval DEF Indices, Ints
    <3> QED
      BY <2>1, <3>1, GreatestInt
  <2>3. Max(Indices(k)) = k
    <3>1. k \in Indices(k) /\ \A y \in Indices(k) : y <= k /\ y \in Int
      BY DEF Indices
    <3> QED
      BY <2>2, <3>1
  <2> QED
    BY <2>1, <2>3 DEF PrefixAt
<1> QED
  BY <1>1, <1>2

\* st goes through the values of a fold of Step over a sequence of length n.
Chain(st, n, base, Step, A) ==
    /\ st \in [0 .. n -> A] /\ st[0] = base
    /\ \A k \in 1 .. n : st[k] = Step[k][st[k - 1]]

\* h is such a fold, as long as it stays in A.
LeftRuns(h, n, base, Step, A) ==
    /\ h[{}] = base
    /\ \A t \in SUBSET Indices(n) :
           t # {} /\ h[t \ {Max(t)}] \in A => h[t] = Step[Max(t)][h[t \ {Max(t)}]]

LEMMA ChainOf ==
    ASSUME NEW n \in Nat, NEW A, NEW base \in A, NEW Step,
           \A i \in Indices(n) : \A a \in A : Step[i][a] \in A,
           NEW h, LeftRuns(h, n, base, Step, A)
    PROVE  \E st : Chain(st, n, base, Step, A) /\ st[n] = h[Indices(n)]
<1> DEFINE st == [k \in 0 .. n |-> h[Indices(k)]]
<1>1. Indices(0) = {} /\ \A k \in 1 .. n : PrefixAt(n, k)
  BY PrefixIndices
<1>2. st[0] = base
  <2>1. 0 \in 0 .. n
    OBVIOUS
  <2> QED
    BY <1>1, <2>1 DEF LeftRuns
<1>3. ASSUME NEW k \in 1 .. n, st[k - 1] \in A PROVE st[k] = Step[k][st[k - 1]]
  <2>1. k \in 0 .. n /\ k - 1 \in 0 .. n
    OBVIOUS
  <2>2. st[k] = h[Indices(k)] /\ st[k - 1] = h[Indices(k - 1)]
    BY <2>1
  <2> HIDE DEF st
  <2>3. h[Indices(k)] = Step[k][h[Indices(k - 1)]]
    BY <1>1, <1>3, <2>2 DEF LeftRuns, PrefixAt
  <2> QED
    BY <2>2, <2>3
<1>4. \A k \in 0 .. n : st[k] \in A
  <2> DEFINE T == {k \in 0 .. n : st[k] \in A}
  <2> HIDE DEF st
  <2>1. 0 \in T
    BY <1>2
  <2>2. ASSUME NEW k \in 1 .. n, k - 1 \in T PROVE k \in T
    <3>1. st[k - 1] \in A /\ k \in Indices(n) /\ k \in 0 .. n
      BY <2>2 DEF Indices
    <3> QED
      BY <1>3, <3>1
  <2> HIDE DEF T
  <2>3. \A k \in 0 .. n : k \in T
    BY <2>1, <2>2, UpTo
  <2> QED
    BY <2>3 DEF T
<1>5. st \in [0 .. n -> A] /\ st[n] = h[Indices(n)]
  BY <1>4
<1>6. \A k \in 1 .. n : st[k] = Step[k][st[k - 1]]
  <2>1. \A k \in 1 .. n : k - 1 \in 0 .. n
    OBVIOUS
  <2> HIDE DEF st
  <2> QED
    BY <1>3, <1>4, <2>1
<1> HIDE DEF st
<1> QED
  BY <1>2, <1>5, <1>6 DEF Chain

-----------------------------------------------------------------------------
(* What is read where something was written.                               *)

LEMMA EvaluatedIs ==
    ASSUME NEW n \in Nat, NEW f \in [1 .. n -> Cell]
    PROVE  Evaluated(f) = f
<1>1. f \in Seq(Cell)
  OBVIOUS
<1> QED
  BY <1>1, SubSeqFull DEF Evaluated

LEMMA OverwriteAt ==
    ASSUME NEW f \in Seq(Cell), NEW o \in Int, NEW s \in Seq(Cell), NEW a \in Int
    PROVE  At(Overwrite(f, o, s), a) =
               IF a \in 0 .. Len(f) - 1 /\ a - o \in 0 .. Len(s) - 1
               THEN s[a - o + 1] ELSE At(f, a)
<1> DEFINE g == [i \in DOMAIN f |-> IF i - o \in DOMAIN s THEN s[i - o] ELSE f[i]]
<1>0. DOMAIN f = 1 .. Len(f) /\ DOMAIN s = 1 .. Len(s) /\ Len(f) \in Nat /\ Len(s) \in Nat
  OBVIOUS
<1>1. g \in [1 .. Len(f) -> Cell]
  <2>1. (\A i \in 1 .. Len(f) : f[i] \in Cell) /\ \A i \in DOMAIN s : s[i] \in Cell
    OBVIOUS
  <2> HIDE DEF Cell
  <2> QED
    BY <1>0, <2>1
<1>2. Overwrite(f, o, s) = g /\ Len(Overwrite(f, o, s)) = Len(f)
  <2> HIDE DEF g
  <2>1. Evaluated(g) = g
    BY <1>0, <1>1, EvaluatedIs
  <2> QED
    BY <2>1, OverwriteTypes DEF Overwrite, g
<1>3. CASE a \in 0 .. Len(f) - 1
  <2>1. At(Overwrite(f, o, s), a) = g[a + 1] /\ At(f, a) = f[a + 1] /\ a + 1 \in DOMAIN f
    <3> HIDE DEF g
    <3> QED
      BY <1>0, <1>2, <1>3 DEF At
  <2>2. g[a + 1] = IF a + 1 - o \in DOMAIN s THEN s[a + 1 - o] ELSE f[a + 1]
    BY <2>1
  <2>3. a + 1 - o = a - o + 1 /\ (a + 1 - o \in DOMAIN s <=> a - o \in 0 .. Len(s) - 1)
    BY <1>0
  <2> HIDE DEF g
  <2> QED
    BY <1>3, <2>1, <2>2, <2>3
<1>4. CASE a \notin 0 .. Len(f) - 1
  BY <1>2, <1>4 DEF At
<1> QED
  BY <1>3, <1>4

LEMMA FillAt ==
    ASSUME NEW f \in Seq(Cell), NEW o \in Int, NEW n \in Int, NEW x \in Cell, NEW a \in Int
    PROVE  At(Fill(f, o, n, x), a) =
               IF a \in 0 .. Len(f) - 1 /\ a - o \in 0 .. n - 1 THEN x ELSE At(f, a)
<1> DEFINE g == [i \in DOMAIN f |-> IF i - o \in 1 .. n THEN x ELSE f[i]]
<1>0. DOMAIN f = 1 .. Len(f) /\ Len(f) \in Nat
  OBVIOUS
<1>1. g \in [1 .. Len(f) -> Cell]
  <2>1. \A i \in 1 .. Len(f) : f[i] \in Cell
    OBVIOUS
  <2> HIDE DEF Cell
  <2> QED
    BY <1>0, <2>1
<1>2. Fill(f, o, n, x) = g /\ Len(Fill(f, o, n, x)) = Len(f)
  <2> HIDE DEF g
  <2>1. Evaluated(g) = g
    BY <1>0, <1>1, EvaluatedIs
  <2> QED
    BY <2>1, FillTypes DEF Fill, g
<1>3. CASE a \in 0 .. Len(f) - 1
  <2>1. At(Fill(f, o, n, x), a) = g[a + 1] /\ At(f, a) = f[a + 1] /\ a + 1 \in DOMAIN f
    <3> HIDE DEF g
    <3> QED
      BY <1>0, <1>2, <1>3 DEF At
  <2>2. g[a + 1] = IF a + 1 - o \in 1 .. n THEN x ELSE f[a + 1]
    BY <2>1
  <2>3. a + 1 - o \in 1 .. n <=> a - o \in 0 .. n - 1
    OBVIOUS
  <2> HIDE DEF g
  <2> QED
    BY <1>3, <2>1, <2>2, <2>3
<1>4. CASE a \notin 0 .. Len(f) - 1
  BY <1>2, <1>4 DEF At
<1> QED
  BY <1>3, <1>4

LEMMA SliceAt ==
    ASSUME NEW f \in Seq(Cell), NEW o \in Int, NEW n \in Nat, NEW a \in Int
    PROVE  At(Slice(f, o, n), a) = IF a \in 0 .. n - 1 THEN At(f, o + a) ELSE Nothing
<1>1. Len(Slice(f, o, n)) = n
  BY SliceTypes
<1>2. a \in 0 .. n - 1 => a + 1 \in 1 .. n /\ o + (a + 1) - 1 = o + a
  OBVIOUS
<1> QED
  BY <1>1, <1>2 DEF At, Slice

LEMMA ConcatAt ==
    ASSUME NEW f \in Seq(Cell), NEW g \in Seq(Cell), NEW a \in Int
    PROVE  At(f \o g, a) = IF a < Len(f) THEN At(f, a) ELSE At(g, a - Len(f))
<1>1. /\ Len(f \o g) = Len(f) + Len(g) /\ Len(f) \in Nat /\ Len(g) \in Nat
      /\ \A i \in 1 .. Len(f) : (f \o g)[i] = f[i]
      /\ \A i \in Len(f) + 1 .. Len(f) + Len(g) : (f \o g)[i] = g[i - Len(f)]
  BY ConcatProperties
<1>2. CASE a < Len(f)
  <2>1. a \in 0 .. Len(f) - 1 => a + 1 \in 1 .. Len(f) /\ a \in 0 .. Len(f) + Len(g) - 1
    BY <1>1
  <2>2. a \in 0 .. Len(f) + Len(g) - 1 => a \in 0 .. Len(f) - 1
    BY <1>1, <1>2
  <2> QED
    BY <1>1, <1>2, <2>1, <2>2 DEF At
<1>3. CASE ~(a < Len(f))
  <2>1. a - Len(f) \in 0 .. Len(g) - 1 => /\ a + 1 \in Len(f) + 1 .. Len(f) + Len(g)
                                          /\ a \in 0 .. Len(f) + Len(g) - 1
                                          /\ a + 1 - Len(f) = a - Len(f) + 1
    BY <1>1
  <2>2. a \in 0 .. Len(f) + Len(g) - 1 => a - Len(f) \in 0 .. Len(g) - 1
    BY <1>1, <1>3
  <2> QED
    BY <1>1, <1>3, <2>1, <2>2 DEF At
<1> QED
  BY <1>2, <1>3

\* The cells of f from o on are those of g from p on, n of them.
Agree(f, o, g, p, n) == \A i \in 0 .. n - 1 : At(f, o + i) = At(g, p + i)

\* A structure is read from as many cells as it takes.
LEMMA StructFrom ==
    ASSUME NEW f, NEW o \in Int, NEW g, NEW p \in Int, NEW kind,
           Agree(f, o, g, p, Word)
    PROVE  StructAt(f, o, kind) = StructAt(g, p, kind)
<1>1. Word \in Nat \ {0}
  BY ElfAssumption
<1>2. At(f, o) = At(g, p)
  <2>1. 0 \in 0 .. Word - 1 /\ o + 0 = o /\ p + 0 = p
    BY <1>1
  <2> QED
    BY <2>1 DEF Agree
<1>3. \A i \in 1 .. Word - 1 : At(f, o + i) = At(g, p + i)
  <2>1. \A i \in 1 .. Word - 1 : i \in 0 .. Word - 1
    BY <1>1
  <2> QED
    BY <2>1 DEF Agree
<1>4. \A i \in 0 .. Word - 1 : At(f, o + i) = At(g, p + i)
  BY DEF Agree
<1>5. (At(f, o).c = kind /\ \A i \in 1 .. Word - 1 : At(f, o + i) = Pad)
      <=> (At(g, p).c = kind /\ \A i \in 1 .. Word - 1 : At(g, p + i) = Pad)
  BY <1>2, <1>3
<1>6. (\A i \in 0 .. Word - 1 : At(f, o + i) = Zero)
      <=> (\A i \in 0 .. Word - 1 : At(g, p + i) = Zero)
  BY <1>4
<1> QED
  BY <1>2, <1>5, <1>6, Zenon DEF StructAt, StructBy

LEMMA StructCells ==
    ASSUME NEW r \in Cell
    PROVE  /\ Struct(r) \in Seq(Cell) /\ Len(Struct(r)) = Word
           /\ At(Struct(r), 0) = r /\ \A i \in 1 .. Word - 1 : At(Struct(r), i) = Pad
<1>1. Word \in Nat \ {0}
  BY ElfAssumption
<1>2. Struct(r) \in Seq(Cell) /\ Len(Struct(r)) = Word
  <2>1. Struct(r) \in Seq(Cell)
    BY StructTypes
  <2> QED
    BY <1>1, <2>1 DEF Struct
<1>3. \A i \in 1 .. Word : Struct(r)[i] = IF i = 1 THEN r ELSE Pad
  BY DEF Struct
<1>4. ASSUME NEW i \in 0 .. Word - 1
      PROVE  At(Struct(r), i) = IF i = 0 THEN r ELSE Pad
  <2>1. i \in 0 .. Len(Struct(r)) - 1 /\ i + 1 \in 1 .. Word /\ (i + 1 = 1 <=> i = 0)
    BY <1>1, <1>2
  <2> QED
    BY <1>3, <2>1 DEF At
<1>5. 0 \in 0 .. Word - 1 /\ \A i \in 1 .. Word - 1 : i \in 0 .. Word - 1 /\ i # 0
  BY <1>1
<1> QED
  BY <1>2, <1>4, <1>5

\* A structure that was written is read.
LEMMA StructRead ==
    ASSUME NEW f, NEW o \in Int, NEW r \in Cell, Agree(f, o, Struct(r), 0, Word)
    PROVE  StructAt(f, o, r.c) = r
<1>1. StructAt(f, o, r.c) = StructAt(Struct(r), 0, r.c)
  BY StructFrom
<1>2. \A i \in 1 .. Word - 1 : At(Struct(r), 0 + i) = Pad
  BY StructCells, ElfAssumption
<1> QED
  BY <1>1, <1>2, StructCells DEF StructAt, StructBy

LEMMA FlattenCells ==
    ASSUME NEW r \in Seq(Cell)
    PROVE  LET F == FlattenSeq([k \in DOMAIN r |-> Struct(r[k])])
           IN  /\ F \in Seq(Cell) /\ Len(F) = Len(r) * Word
               /\ \A k \in DOMAIN r : Agree(F, (k - 1) * Word, Struct(r[k]), 0, Word)
<1> DEFINE n == Len(r)
           s == [k \in DOMAIN r |-> Struct(r[k])]
           F == FlattenSeq(s)
<1>1. Word \in Nat \ {0} /\ n \in Nat /\ DOMAIN r = 1 .. n
  BY ElfAssumption
<1>2. \A k \in 1 .. n : /\ s[k] = Struct(r[k])
                        /\ Struct(r[k]) \in Seq(Cell) /\ Len(Struct(r[k])) = Word
  BY <1>1, StructCells
<1>3. s \in Seq(Seq(Cell)) /\ Len(s) = n
  <2> HIDE DEF n
  <2> QED
    BY <1>1, <1>2
<1> HIDE DEF s, n
<1>4. PICK h : Flattens(h, s) /\ F = IF n = 0 THEN s ELSE h[n]
  BY <1>3, FlattenForm
<1>5. /\ h \in [1 .. n -> Seq(Cell)]
      /\ \A i \in 1 .. n : h[i] = IF i = 1 THEN Struct(r[i]) ELSE h[i - 1] \o Struct(r[i])
  BY <1>2, <1>3, <1>4 DEF Flattens
<1> DEFINE Good(i) == /\ Len(h[i]) = i * Word
                      /\ \A k \in 1 .. i : Agree(h[i], (k - 1) * Word, Struct(r[k]), 0, Word)
           T == {i \in 0 .. n : i = 0 \/ Good(i)}
<1>6. ASSUME NEW i \in 1 .. n, i - 1 \in T PROVE Good(i)
  <2>1. CASE i = 1
    <3>1. h[i] = Struct(r[1]) /\ Len(h[i]) = 1 * Word
      BY <1>1, <1>2, <1>5, <2>1
    <3>2. Agree(Struct(r[1]), (1 - 1) * Word, Struct(r[1]), 0, Word)
      <4>1. (1 - 1) * Word = 0
        BY <1>1
      <4> QED
        BY <4>1 DEF Agree
    <3>3. \A k \in 1 .. i : k = 1
      BY <2>1
    <3> QED
      BY <2>1, <3>1, <3>2, <3>3
  <2>2. CASE i # 1
    <3> DEFINE f == h[i - 1]
               g == Struct(r[i])
    <3>1. i - 1 \in 1 .. n /\ f \in Seq(Cell) /\ h[i] = f \o g
          /\ g \in Seq(Cell) /\ Len(g) = Word
      BY <1>1, <1>2, <1>5, <2>2
    <3>2. Len(f) = (i - 1) * Word
          /\ \A k \in 1 .. i - 1 : Agree(f, (k - 1) * Word, Struct(r[k]), 0, Word)
      BY <1>6, <2>2
    <3> HIDE DEF f, g
    <3>3. Len(h[i]) = i * Word
      <4>1. Len(f \o g) = Len(f) + Len(g)
        BY <3>1, ConcatProperties
      <4>2. (i - 1) * Word + Word = i * Word
        BY <1>1
      <4> QED
        BY <3>1, <3>2, <4>1, <4>2
    <3>4. ASSUME NEW k \in 1 .. i PROVE Agree(h[i], (k - 1) * Word, Struct(r[k]), 0, Word)
      <4> SUFFICES ASSUME NEW j \in 0 .. Word - 1
                   PROVE  At(h[i], (k - 1) * Word + j) = At(Struct(r[k]), 0 + j)
        BY DEF Agree
      <4> DEFINE a == (k - 1) * Word + j
      <4>1. a \in Int
        BY <1>1
      <4>2. At(h[i], a) = IF a < Len(f) THEN At(f, a) ELSE At(g, a - Len(f))
        <5> HIDE DEF a
        <5> QED
          BY <3>1, <4>1, ConcatAt
      <4>3. CASE k = i
        <5>1. ~(a < Len(f)) /\ a - Len(f) = 0 + j
          BY <1>1, <3>2, <4>3
        <5> QED
          BY <4>2, <4>3, <5>1 DEF g
      <4>4. CASE k # i
        <5>1. k \in 1 .. i - 1 /\ k - 1 <= i - 2
          BY <4>4
        <5>2. (k - 1) * Word <= (i - 2) * Word /\ (i - 1) * Word = (i - 2) * Word + Word
          <6> DEFINE x == k - 1
                     y == i - 2
          <6>1. x \in Nat /\ y \in Nat /\ x <= y /\ i - 1 = y + 1
            BY <5>1, <2>2
          <6> HIDE DEF x, y
          <6>2. x * Word <= y * Word /\ (y + 1) * Word = y * Word + Word
            BY <1>1, <6>1
          <6> QED
            BY <6>1, <6>2 DEF x, y
        <5>3. (k - 1) * Word \in Int /\ (i - 2) * Word \in Int
          BY <1>1
        <5>4. a < Len(f)
          BY <1>1, <3>2, <5>2, <5>3
        <5>5. At(f, (k - 1) * Word + j) = At(Struct(r[k]), 0 + j)
          BY <3>2, <5>1 DEF Agree
        <5> QED
          BY <4>2, <5>4, <5>5
      <4> QED
        BY <4>3, <4>4
    <3> QED
      BY <3>3, <3>4
  <2> QED
    BY <2>1, <2>2
<1>7. \A i \in 0 .. n : i \in T
  <2>1. 0 \in T
    BY <1>1
  <2>2. \A i \in 1 .. n : i - 1 \in T => i \in T
    <3> SUFFICES ASSUME NEW i \in 1 .. n, i - 1 \in T PROVE i \in T
      OBVIOUS
    <3>1. Good(i)
      <4> HIDE DEF Good, T
      <4> QED
        BY <1>6
    <3> QED
      BY <3>1
  <2> HIDE DEF T
  <2> QED
    BY <1>1, <2>1, <2>2, UpTo
<1>8. CASE n = 0
  <2>1. F = s /\ s = <<>>
    BY <1>3, <1>4, <1>8
  <2>2. F \in Seq(Cell) /\ Len(F) = n * Word
    BY <1>1, <1>8, <2>1
  <2> QED
    BY <1>1, <1>8, <2>2 DEF s
<1>9. CASE n # 0
  <2>1. Good(n) /\ F = h[n] /\ n \in 1 .. n
    BY <1>1, <1>4, <1>7, <1>9
  <2>2. F \in Seq(Cell)
    BY <1>5, <2>1
  <2> QED
    BY <1>1, <2>1, <2>2 DEF n, s
<1> QED
  BY <1>8, <1>9

\* Sequences of the same cells.
LEMMA SameCells ==
    ASSUME NEW f \in Seq(Cell), NEW g \in Seq(Cell), Len(f) = Len(g),
           \A a \in 0 .. Len(f) - 1 : At(f, a) = At(g, a)
    PROVE  f = g
<1>1. ASSUME NEW i \in 1 .. Len(f) PROVE f[i] = g[i]
  <2>1. i - 1 \in 0 .. Len(f) - 1 /\ (i - 1) + 1 = i
    OBVIOUS
  <2>2. At(f, i - 1) = f[i] /\ At(g, i - 1) = g[i]
    BY <2>1 DEF At
  <2> QED
    BY <2>1, <2>2
<1>2. /\ f = [i \in 1 .. Len(f) |-> f[i]] /\ g = [i \in 1 .. Len(f) |-> g[i]]
  OBVIOUS
<1> QED
  BY <1>1, <1>2

\* What is written in a section of the file is written in the section.
LEMMA SliceOverwrite ==
    ASSUME NEW f \in Seq(Cell), NEW o \in Nat, NEW n \in Nat, o + n <= Len(f),
           NEW k \in Int, NEW s \in Seq(Cell)
    PROVE  Slice(Overwrite(f, o + k, s), o, n) = Overwrite(Slice(f, o, n), k, s)
<1> DEFINE w == Overwrite(f, o + k, s)
           d == Slice(f, o, n)
<1>1. /\ w \in Seq(Cell) /\ Len(w) = Len(f) /\ d \in Seq(Cell) /\ Len(d) = n
      /\ Slice(w, o, n) \in Seq(Cell) /\ Len(Slice(w, o, n)) = n
      /\ Overwrite(d, k, s) \in Seq(Cell) /\ Len(Overwrite(d, k, s)) = n
  BY OverwriteTypes, SliceTypes
<1>2. ASSUME NEW a \in 0 .. n - 1
      PROVE  At(Slice(w, o, n), a) = At(Overwrite(d, k, s), a)
  <2>1. At(Slice(w, o, n), a) = At(w, o + a)
    BY <1>1, SliceAt
  <2>2. At(w, o + a) = IF o + a \in 0 .. Len(f) - 1 /\ (o + a) - (o + k) \in 0 .. Len(s) - 1
                       THEN s[(o + a) - (o + k) + 1] ELSE At(f, o + a)
    BY OverwriteAt
  <2>3. At(Overwrite(d, k, s), a) = IF a \in 0 .. Len(d) - 1 /\ a - k \in 0 .. Len(s) - 1
                                    THEN s[a - k + 1] ELSE At(d, a)
    BY <1>1, OverwriteAt
  <2>4. At(d, a) = At(f, o + a)
    BY SliceAt
  <2>5. o + a \in 0 .. Len(f) - 1 /\ (o + a) - (o + k) = a - k /\ a \in 0 .. Len(d) - 1
    BY <1>1
  <2> QED
    BY <2>1, <2>2, <2>3, <2>4, <2>5
<1> HIDE DEF w, d
<1> QED
  BY <1>1, <1>2, SameCells DEF w, d

LEMMA SliceFill ==
    ASSUME NEW f \in Seq(Cell), NEW o \in Nat, NEW n \in Nat, o + n <= Len(f),
           NEW k \in Int, NEW m \in Int, NEW x \in Cell
    PROVE  Slice(Fill(f, o + k, m, x), o, n) = Fill(Slice(f, o, n), k, m, x)
<1> DEFINE w == Fill(f, o + k, m, x)
           d == Slice(f, o, n)
<1>1. /\ w \in Seq(Cell) /\ Len(w) = Len(f) /\ d \in Seq(Cell) /\ Len(d) = n
      /\ Slice(w, o, n) \in Seq(Cell) /\ Len(Slice(w, o, n)) = n
      /\ Fill(d, k, m, x) \in Seq(Cell) /\ Len(Fill(d, k, m, x)) = n
  BY FillTypes, SliceTypes
<1>2. ASSUME NEW a \in 0 .. n - 1
      PROVE  At(Slice(w, o, n), a) = At(Fill(d, k, m, x), a)
  <2>1. At(Slice(w, o, n), a) = At(w, o + a)
    BY <1>1, SliceAt
  <2>2. At(w, o + a) = IF o + a \in 0 .. Len(f) - 1 /\ (o + a) - (o + k) \in 0 .. m - 1
                       THEN x ELSE At(f, o + a)
    BY FillAt
  <2>3. At(Fill(d, k, m, x), a) = IF a \in 0 .. Len(d) - 1 /\ a - k \in 0 .. m - 1
                                  THEN x ELSE At(d, a)
    BY <1>1, FillAt
  <2>4. At(d, a) = At(f, o + a)
    BY SliceAt
  <2>5. o + a \in 0 .. Len(f) - 1 /\ (o + a) - (o + k) = a - k /\ a \in 0 .. Len(d) - 1
    BY <1>1
  <2> QED
    BY <2>1, <2>2, <2>3, <2>4, <2>5
<1> HIDE DEF w, d
<1> QED
  BY <1>1, <1>2, SameCells DEF w, d

\* A section whose cells agree.
LEMMA SliceAgree ==
    ASSUME NEW f \in Seq(Cell), NEW g \in Seq(Cell), NEW o \in Int, NEW p \in Int,
           NEW n \in Nat, Agree(f, o, g, p, n)
    PROVE  Slice(f, o, n) = Slice(g, p, n)
<1>1. /\ Slice(f, o, n) \in Seq(Cell) /\ Len(Slice(f, o, n)) = n
      /\ Slice(g, p, n) \in Seq(Cell) /\ Len(Slice(g, p, n)) = n
  BY SliceTypes
<1>2. ASSUME NEW a \in 0 .. n - 1 PROVE At(Slice(f, o, n), a) = At(Slice(g, p, n), a)
  <2>1. At(Slice(f, o, n), a) = At(f, o + a) /\ At(Slice(g, p, n), a) = At(g, p + a)
    BY SliceAt
  <2> QED
    BY <2>1 DEF Agree
<1> QED
  BY <1>1, <1>2, SameCells

-----------------------------------------------------------------------------
(* Dynamic sections.                                                       *)

\* The k-th entry in the cells of a dynamic section.
EntryIn(cells, k) == StructAt(cells, (k - 1) * Word, "dyn")

LEMMA ListsIs ==
    ASSUME NEW D, NEW E
    PROVE  Lists(D, E) <=> /\ Word * (Len(E) + 1) <= Len(D)
                           /\ \A k \in DOMAIN E : E[k] = EntryIn(D, k)
                                                  /\ EntryIn(D, k).d_tag # "DT_NULL"
                           /\ EntryIn(D, Len(E) + 1).d_tag = "DT_NULL"
BY DEF Lists, EntryIn

\* The k-th of several structures is where it is.
LEMMA InTable ==
    ASSUME NEW n \in Nat, NEW k \in 1 .. n
    PROVE  /\ (k - 1) * Word \in Nat /\ (k - 1) * Word + Word <= n * Word
           /\ n * Word \in Nat
<1>1. Word \in Nat \ {0}
  BY ElfAssumption
<1> DEFINE x == k - 1
           y == n - k
<1>2. x \in Nat /\ y \in Nat /\ n = x + y + 1
  OBVIOUS
<1> HIDE DEF x, y
<1>3. x * Word \in Nat /\ y * Word \in Nat /\ (x + y + 1) * Word = x * Word + y * Word + Word
  BY <1>1, <1>2
<1> QED
  BY <1>1, <1>2, <1>3 DEF x

\* The entries of a dynamic section are read in the file.
LEMMA EntriesRead ==
    ASSUME NEW D \in Seq(Cell), NEW E \in Seq(Elf_Dyn), Lists(D, E),
           NEW f \in Seq(Cell), NEW o \in Int, Agree(f, o, D, 0, Len(D)), Len(D) <= Len(f)
    PROVE  EntriesAt(f, o) = E
<1> DEFINE n == Len(E)
           entry(k) == StructAt(f, o + k * Word, "dyn")
           ends == {k \in 0 .. Len(f) \div Word : entry(k).d_tag = "DT_NULL"}
<1>1. Word \in Nat \ {0} /\ n \in Nat /\ Len(f) \in Nat /\ Len(D) \in Nat /\ DOMAIN E = 1 .. n
  BY ElfAssumption
<1>2. EntriesAt(f, o) = IF ends = {} THEN <<>> ELSE [i \in 1 .. Min(ends) |-> entry(i - 1)]
  BY DEF EntriesAt, EntriesBy, StructAt
<1>3. ASSUME NEW k \in 0 .. n PROVE entry(k) = EntryIn(D, k + 1)
  <2>1. (n + 1) * Word <= Len(D)
    <3>1. Word * (n + 1) = (n + 1) * Word
      BY <1>1
    <3> QED
      BY <3>1, ListsIs
  <2>2. k + 1 \in 1 .. n + 1 /\ n + 1 \in Nat /\ (k + 1) - 1 = k
    BY <1>1
  <2>3. k * Word \in Nat /\ k * Word + Word <= (n + 1) * Word /\ (n + 1) * Word \in Nat
    BY <2>2, InTable
  <2>4. Agree(f, o + k * Word, D, k * Word, Word)
    <3> SUFFICES ASSUME NEW j \in 0 .. Word - 1
                 PROVE  At(f, o + k * Word + j) = At(D, k * Word + j)
      BY DEF Agree
    <3> DEFINE b == k * Word + j
    <3>1. b \in 0 .. Len(D) - 1 /\ o + k * Word + j = o + b /\ 0 + b = b
      BY <1>1, <2>1, <2>3, SMTT(30)
    <3> HIDE DEF b
    <3>2. At(f, o + b) = At(D, 0 + b)
      BY <3>1 DEF Agree
    <3> QED
      BY <3>1, <3>2 DEF b
  <2>5. o + k * Word \in Int /\ k * Word \in Int
    BY <2>3
  <2>6. StructAt(f, o + k * Word, "dyn") = StructAt(D, k * Word, "dyn")
    BY <2>4, <2>5, StructFrom
  <2> QED
    BY <2>2, <2>6 DEF EntryIn
<1> HIDE DEF entry
<1>4. n \in ends
  <2>1. n <= Len(f) \div Word
    <3>1. Word * (n + 1) <= Len(f)
      BY <1>1, ListsIs
    <3> DEFINE q == Len(f) \div Word
    <3>2. q \in Int /\ Len(f) < (q + 1) * Word
      BY <1>1
    <3> HIDE DEF q
    <3>3. CASE q + 1 <= n
      <4>1. (q + 1) * Word <= n * Word
        BY <1>1, <3>2, <3>3
      <4>2. Word * (n + 1) = n * Word + Word /\ n * Word \in Int /\ (q + 1) * Word \in Int
        BY <1>1, <3>2
      <4>3. n * Word + Word <= Len(f)
        BY <3>1, <4>2
      <4> DEFINE a == n * Word
                 b == (q + 1) * Word
      <4>4. a \in Int /\ b \in Int /\ Len(f) < b /\ b <= a /\ a + Word <= Len(f)
        BY <3>2, <4>1, <4>2, <4>3
      <4> HIDE DEF a, b
      <4> QED
        BY <1>1, <4>4
    <3> QED
      BY <1>1, <3>2, <3>3 DEF q
  <2>2. Len(f) \div Word \in Int
    BY <1>1
  <2>3. n \in 0 .. Len(f) \div Word /\ n \in 0 .. n
    BY <1>1, <2>1, <2>2
  <2>4. entry(n).d_tag = "DT_NULL"
    BY <1>3, <2>3, ListsIs
  <2> QED
    BY <2>3, <2>4
<1>5. \A k \in ends : n <= k /\ k \in Nat
  <2> SUFFICES ASSUME NEW k \in ends, ~(n <= k) PROVE FALSE
    BY <1>1
  <2>1. k \in 0 .. n /\ k + 1 \in DOMAIN E /\ entry(k).d_tag = "DT_NULL"
    BY <1>1
  <2> QED
    BY <1>3, <2>1, ListsIs
<1>6. Min(ends) = n
  <2>1. ends \subseteq Nat
    BY <1>5
  <2> HIDE DEF ends
  <2>2. Min(ends) \in ends /\ \A y \in ends : Min(ends) <= y
    BY <1>4, <2>1, LeastNat
  <2> QED
    BY <1>1, <1>4, <1>5, <2>2
<1>7. EntriesAt(f, o) = [i \in 1 .. n |-> entry(i - 1)]
  <2>1. ends # {}
    BY <1>4
  <2> HIDE DEF ends
  <2> QED
    BY <1>2, <1>6, <2>1
<1>8. \A i \in 1 .. n : entry(i - 1) = E[i]
  <2> SUFFICES ASSUME NEW i \in 1 .. n PROVE entry(i - 1) = E[i]
    OBVIOUS
  <2>1. i - 1 \in 0 .. n /\ (i - 1) + 1 = i
    BY <1>1
  <2> QED
    BY <1>1, <1>3, <2>1, ListsIs
<1>9. E = [i \in 1 .. n |-> E[i]]
  BY <1>1
<1> QED
  BY <1>7, <1>8, <1>9

-----------------------------------------------------------------------------
(* Cells that agree.                                                       *)

LEMMA AgreeTrans ==
    ASSUME NEW f, NEW o, NEW g, NEW p, NEW h, NEW q, NEW n,
           Agree(f, o, g, p, n), Agree(g, p, h, q, n)
    PROVE  Agree(f, o, h, q, n) /\ Agree(g, p, f, o, n)
BY DEF Agree

LEMMA AgreePart ==
    ASSUME NEW f, NEW o \in Int, NEW g, NEW p \in Int, NEW n \in Int, Agree(f, o, g, p, n),
           NEW j \in Nat, NEW m \in Int, j + m <= n
    PROVE  Agree(f, o + j, g, p + j, m)
<1> SUFFICES ASSUME NEW i \in 0 .. m - 1 PROVE At(f, o + j + i) = At(g, p + j + i)
  BY DEF Agree
<1> DEFINE b == j + i
<1>1. b \in 0 .. n - 1 /\ o + j + i = o + b /\ p + j + i = p + b
  OBVIOUS
<1> HIDE DEF b
<1> QED
  BY <1>1 DEF Agree

\* What is beside the cells that are written stays.
LEMMA OverwriteBeside ==
    ASSUME NEW f \in Seq(Cell), NEW o \in Int, NEW s \in Seq(Cell), NEW p \in Int, NEW n \in Int,
           p + n <= o \/ o + Len(s) <= p
    PROVE  Agree(Overwrite(f, o, s), p, f, p, n)
<1> SUFFICES ASSUME NEW i \in 0 .. n - 1 PROVE At(Overwrite(f, o, s), p + i) = At(f, p + i)
  BY DEF Agree
<1> DEFINE a == p + i
<1>1. a \in Int /\ a - o \notin 0 .. Len(s) - 1
  OBVIOUS
<1> HIDE DEF a
<1>2. At(Overwrite(f, o, s), a) = At(f, a)
  BY <1>1, OverwriteAt
<1> QED
  BY <1>2 DEF a

\* And what is written is there.
LEMMA OverwriteHolds ==
    ASSUME NEW f \in Seq(Cell), NEW o \in Nat, NEW s \in Seq(Cell), o + Len(s) <= Len(f)
    PROVE  Agree(Overwrite(f, o, s), o, s, 0, Len(s))
<1> SUFFICES ASSUME NEW i \in 0 .. Len(s) - 1 PROVE At(Overwrite(f, o, s), o + i) = At(s, 0 + i)
  BY DEF Agree
<1> DEFINE a == o + i
<1>1. a \in 0 .. Len(f) - 1 /\ a - o = i /\ a \in Int
  OBVIOUS
<1> HIDE DEF a
<1>2. At(Overwrite(f, o, s), a) = s[i + 1]
  BY <1>1, OverwriteAt
<1>3. At(s, 0 + i) = s[i + 1]
  BY DEF At
<1> QED
  BY <1>2, <1>3 DEF a

LEMMA FillBeside ==
    ASSUME NEW f \in Seq(Cell), NEW o \in Int, NEW m \in Int, NEW x \in Cell,
           NEW p \in Int, NEW n \in Int, p + n <= o \/ o + m <= p
    PROVE  Agree(Fill(f, o, m, x), p, f, p, n)
<1> SUFFICES ASSUME NEW i \in 0 .. n - 1 PROVE At(Fill(f, o, m, x), p + i) = At(f, p + i)
  BY DEF Agree
<1> DEFINE a == p + i
<1>1. a \in Int /\ a - o \notin 0 .. m - 1
  OBVIOUS
<1> HIDE DEF a
<1>2. At(Fill(f, o, m, x), a) = At(f, a)
  BY <1>1, FillAt
<1> QED
  BY <1>2 DEF a

LEMMA ConcatHolds ==
    ASSUME NEW f \in Seq(Cell), NEW g \in Seq(Cell)
    PROVE  /\ f \o g \in Seq(Cell) /\ Len(f \o g) = Len(f) + Len(g)
           /\ Agree(f \o g, 0, f, 0, Len(f)) /\ Agree(f \o g, Len(f), g, 0, Len(g))
<1>1. f \o g \in Seq(Cell) /\ Len(f \o g) = Len(f) + Len(g) /\ Len(f) \in Nat
  BY ConcatProperties
<1>2. \A a \in Int : At(f \o g, a) = IF a < Len(f) THEN At(f, a) ELSE At(g, a - Len(f))
  BY ConcatAt
<1>3. Agree(f \o g, 0, f, 0, Len(f))
  <2>1. \A i \in 0 .. Len(f) - 1 : 0 + i \in Int /\ 0 + i < Len(f)
    BY <1>1
  <2> QED
    BY <1>2, <2>1 DEF Agree
<1>4. Agree(f \o g, Len(f), g, 0, Len(g))
  <2>1. \A i \in 0 .. Len(g) - 1 : /\ Len(f) + i \in Int /\ ~(Len(f) + i < Len(f))
                                   /\ Len(f) + i - Len(f) = 0 + i
    BY <1>1
  <2> QED
    BY <1>2, <2>1 DEF Agree
<1> QED
  BY <1>1, <1>3, <1>4

LEMMA ZerosAt ==
    ASSUME NEW n \in Nat, NEW a \in 0 .. n - 1
    PROVE  At(Zeros(n), a) = Zero
<1>1. Len(Zeros(n)) = n
  BY ZerosTypes
<1> QED
  BY <1>1 DEF At, Zeros

\* A section that is made longer begins as it was, and goes on with zeros.
LEMMA ResizeHolds ==
    ASSUME NEW s \in Seq(Cell), NEW n \in Nat, Len(s) <= n
    PROVE  /\ Agree(Resize(s, n), 0, s, 0, Len(s))
           /\ \A a \in Len(s) .. n - 1 : At(Resize(s, n), a) = Zero
<1>1. CASE n <= Len(s)
  <2>1. Resize(s, n) = s
    BY <1>1 DEF Resize
  <2> QED
    BY <1>1, <2>1 DEF Agree
<1>2. CASE ~(n <= Len(s))
  <2> DEFINE z == Zeros(n - Len(s))
  <2>1. z \in Seq(Cell) /\ Len(z) = n - Len(s) /\ Resize(s, n) = s \o z
    <3>1. n - Len(s) \in Nat
      BY <1>2
    <3>2. z \in Seq(Cell) /\ Len(z) = n - Len(s)
      BY <3>1, ZerosTypes
    <3> QED
      BY <1>2, <3>2 DEF Resize
  <2>2. \A a \in 0 .. n - Len(s) - 1 : At(z, a) = Zero
    BY <1>2, ZerosAt
  <2> HIDE DEF z
  <2>3. Agree(s \o z, 0, s, 0, Len(s)) /\ Agree(s \o z, Len(s), z, 0, Len(z))
    BY <2>1, ConcatHolds
  <2>4. ASSUME NEW a \in Len(s) .. n - 1 PROVE At(s \o z, a) = Zero
    <3>1. a - Len(s) \in 0 .. Len(z) - 1 /\ Len(s) + (a - Len(s)) = a
          /\ 0 + (a - Len(s)) = a - Len(s)
      BY <2>1
    <3>2. At(s \o z, Len(s) + (a - Len(s))) = At(z, 0 + (a - Len(s)))
      BY <2>3, <3>1 DEF Agree
    <3> QED
      BY <2>1, <2>2, <3>1, <3>2
  <2> QED
    BY <2>1, <2>3, <2>4
<1> QED
  BY <1>1, <1>2

\* An entry is the same where the cells agree.
LEMMA SameEntry ==
    ASSUME NEW D, NEW F, NEW k \in Int, NEW j \in Int,
           Agree(D, (k - 1) * Word, F, (j - 1) * Word, Word)
    PROVE  EntryIn(D, k) = EntryIn(F, j)
<1>1. (k - 1) * Word \in Int /\ (j - 1) * Word \in Int
  BY ElfAssumption
<1> QED
  BY <1>1, StructFrom DEF EntryIn

LEMMA EntryWritten ==
    ASSUME NEW D, NEW k \in Int, NEW d \in Elf_Dyn,
           Agree(D, (k - 1) * Word, Struct(d), 0, Word)
    PROVE  EntryIn(D, k) = d
<1>1. (k - 1) * Word \in Int /\ d \in Cell /\ d.c = "dyn"
  BY ElfAssumption, CellTypes DEF Elf_Dyn
<1> QED
  BY <1>1, StructRead DEF EntryIn

\* Where there are zeros there is a DT_NULL.
LEMMA EntryNull ==
    ASSUME NEW D, NEW k \in Int, \A i \in 0 .. Word - 1 : At(D, (k - 1) * Word + i) = Zero
    PROVE  EntryIn(D, k).d_tag = "DT_NULL"
<1> DEFINE o == (k - 1) * Word
<1>1. Word \in Nat \ {0} /\ o \in Int
  BY ElfAssumption
<1>2. At(D, o) = Zero
  <2>1. 0 \in 0 .. Word - 1 /\ o + 0 = o
    BY <1>1
  <2> QED
    BY <2>1
<1>3. Zero.c # "dyn" /\ Null("dyn").d_tag = "DT_NULL"
  BY DEF Zero, Char, Null
<1> HIDE DEF o
<1>4. StructAt(D, o, "dyn") = Null("dyn")
  BY <1>2, <1>3 DEF StructAt, StructBy, o
<1> QED
  BY <1>3, <1>4 DEF EntryIn, o

\* Of different structures in a table one ends before the other begins.
LEMMA TableApart ==
    ASSUME NEW k \in Nat, NEW i \in Nat, k # i
    PROVE  /\ (k - 1) * Word \in Int /\ (i - 1) * Word \in Int
           /\ (k - 1) * Word + Word <= (i - 1) * Word \/ (i - 1) * Word + Word <= (k - 1) * Word
<1> SUFFICES ASSUME NEW x \in Nat, NEW y \in Nat, x < y
             PROVE  /\ (x - 1) * Word \in Int /\ (y - 1) * Word \in Int
                    /\ (x - 1) * Word + Word <= (y - 1) * Word
  <2>1. k < i \/ i < k
    OBVIOUS
  <2> QED
    BY <2>1
<1> DEFINE d == y - x - 1
<1>1. d \in Nat /\ y - 1 = (x - 1) + d + 1 /\ Word \in Nat \ {0} /\ x - 1 \in Int
  BY ElfAssumption
<1> DEFINE v == x - 1
<1> HIDE DEF d
<1>2. v \in Int /\ y - 1 = v + d + 1
  BY <1>1
<1> HIDE DEF v
<1>3. (v + d + 1) * Word = v * Word + d * Word + Word /\ v * Word \in Int /\ d * Word \in Nat
  BY <1>1, <1>2
<1> QED
  BY <1>1, <1>2, <1>3 DEF v

LEMMA ListsFields ==
    ASSUME NEW D \in Seq(Cell), NEW E \in Seq(Elf_Dyn), Lists(D, E)
    PROVE  /\ (Len(E) + 1) * Word <= Len(D) /\ (Len(E) + 1) * Word \in Nat
           /\ (Len(E) + 1) * Word = Len(E) * Word + Word /\ Len(E) * Word \in Nat
           /\ Word * (Len(E) + 1) = (Len(E) + 1) * Word
           /\ \A k \in 1 .. Len(E) : E[k] = EntryIn(D, k) /\ E[k].d_tag # "DT_NULL"
           /\ EntryIn(D, Len(E) + 1).d_tag = "DT_NULL"
<1>1. Word \in Nat \ {0} /\ Len(E) \in Nat /\ DOMAIN E = 1 .. Len(E)
  BY ElfAssumption
<1>2. /\ Word * (Len(E) + 1) = (Len(E) + 1) * Word /\ (Len(E) + 1) * Word \in Nat
      /\ (Len(E) + 1) * Word = Len(E) * Word + Word /\ Len(E) * Word \in Nat
  BY <1>1
<1> QED
  BY <1>1, <1>2, ListsIs

\* One entry is set.
LEMMA ListsSet ==
    ASSUME NEW D \in Seq(Cell), NEW E \in Seq(Elf_Dyn), Lists(D, E),
           NEW i \in DOMAIN E, NEW d \in Elf_Dyn, d.d_tag # "DT_NULL"
    PROVE  Lists(Overwrite(D, (i - 1) * Word, Struct(d)), [E EXCEPT ![i] = d])
<1> DEFINE w == Overwrite(D, (i - 1) * Word, Struct(d))
           G == [E EXCEPT ![i] = d]
           n == Len(E)
<1>1. /\ Word \in Nat \ {0} /\ n \in Nat /\ DOMAIN E = 1 .. n /\ Len(D) \in Nat
      /\ DOMAIN G = 1 .. n /\ Len(G) = n
  BY ElfAssumption
<1>2. /\ (n + 1) * Word <= Len(D) /\ (n + 1) * Word = n * Word + Word /\ n * Word \in Nat
      /\ Word * (n + 1) = (n + 1) * Word
      /\ \A k \in 1 .. n : E[k] = EntryIn(D, k) /\ E[k].d_tag # "DT_NULL"
      /\ EntryIn(D, n + 1).d_tag = "DT_NULL"
  BY ListsFields
<1>3. (i - 1) * Word \in Nat /\ (i - 1) * Word + Word <= n * Word
  BY <1>1, InTable
<1>4. Struct(d) \in Seq(Cell) /\ Len(Struct(d)) = Word /\ d \in Cell
  BY CellTypes, StructCells
<1>5. Len(w) = Len(D)
  <2> HIDE DEF n
  <2> QED
    BY <1>3, <1>4, OverwriteTypes
<1>6. EntryIn(w, i) = d
  <2>1. Agree(w, (i - 1) * Word, Struct(d), 0, Word)
    <3>1. (i - 1) * Word + Len(Struct(d)) <= Len(D)
      BY <1>1, <1>2, <1>3, <1>4
    <3> QED
      BY <1>3, <1>4, <3>1, OverwriteHolds
  <2> HIDE DEF w
  <2> QED
    BY <1>1, <2>1, EntryWritten
<1>7. ASSUME NEW k \in 1 .. n + 1, k # i PROVE EntryIn(w, k) = EntryIn(D, k)
  <2>1. k \in Nat /\ i \in Nat
    BY <1>1
  <2>2. /\ (k - 1) * Word \in Int
        /\ (k - 1) * Word + Word <= (i - 1) * Word \/ (i - 1) * Word + Word <= (k - 1) * Word
    BY <1>7, <2>1, TableApart
  <2>3. Agree(w, (k - 1) * Word, D, (k - 1) * Word, Word)
    BY <1>1, <1>3, <1>4, <2>2, OverwriteBeside, SMTT(40)
  <2> HIDE DEF w
  <2> QED
    BY <2>1, <2>3, SameEntry
<1>8. \A k \in 1 .. n : G[k] = IF k = i THEN d ELSE E[k]
  BY <1>1
<1> HIDE DEF w, G
<1>9. \A k \in 1 .. n : G[k] = EntryIn(w, k) /\ EntryIn(w, k).d_tag # "DT_NULL"
  <2> SUFFICES ASSUME NEW k \in 1 .. n
               PROVE  G[k] = EntryIn(w, k) /\ EntryIn(w, k).d_tag # "DT_NULL"
    OBVIOUS
  <2>1. k \in 1 .. n + 1
    BY <1>1
  <2> QED
    BY <1>2, <1>6, <1>7, <1>8, <2>1
<1>10. EntryIn(w, n + 1).d_tag = "DT_NULL"
  <2>1. n + 1 \in 1 .. n + 1 /\ n + 1 # i
    BY <1>1
  <2> QED
    BY <1>2, <1>7, <2>1
<1> QED
  BY <1>1, <1>2, <1>5, <1>9, <1>10, ListsIs DEF w, G

\* The cells of a table, in a larger sequence.
LEMMA TableIn ==
    ASSUME NEW r \in Seq(Cell), NEW f \in Seq(Cell), NEW o \in Nat,
           NEW F, F = FlattenSeq([k \in DOMAIN r |-> Struct(r[k])]),
           Agree(f, o, F, 0, Len(F)), NEW k \in DOMAIN r
    PROVE  Agree(f, o + (k - 1) * Word, Struct(r[k]), 0, Word)
<1> DEFINE n == Len(r)
<1>1. n \in Nat /\ DOMAIN r = 1 .. n
  OBVIOUS
<1>2. /\ F \in Seq(Cell) /\ Len(F) = n * Word
      /\ \A j \in 1 .. n : Agree(F, (j - 1) * Word, Struct(r[j]), 0, Word)
  BY <1>1, FlattenCells
<1> HIDE DEF n
<1>3. /\ (k - 1) * Word \in Nat /\ (k - 1) * Word + Word <= n * Word /\ n * Word \in Nat
  BY <1>1, InTable
<1>4. Word \in Int
  BY ElfAssumption
<1> DEFINE j == (k - 1) * Word
<1>5. Agree(F, j, Struct(r[k]), 0, Word)
  BY <1>1, <1>2
<1>6. j \in Nat /\ j + Word <= Len(F) /\ Len(F) \in Nat /\ Agree(f, o, F, 0, Len(F)) /\ 0 + j = j
  BY <1>2, <1>3
<1> HIDE DEF j
<1>7. Agree(f, o + j, F, 0 + j, Word)
  <2>1. \A i \in 0 .. Word - 1 : j + i \in 0 .. Len(F) - 1 /\ o + j + i = o + (j + i)
                                 /\ 0 + j + i = 0 + (j + i)
    BY <1>4, <1>6
  <2> QED
    BY <1>6, <2>1 DEF Agree
<1>8. Agree(f, o + j, Struct(r[k]), 0, Word)
  BY <1>5, <1>6, <1>7, AgreeTrans
<1> QED
  BY <1>8 DEF j

LEMMA DynCells ==
    ASSUME NEW r \in Seq(Elf_Dyn)
    PROVE  r \in Seq(Cell) /\ \A k \in DOMAIN r : r[k] \in Elf_Dyn /\ r[k] \in Cell
<1>1. \A x \in Elf_Dyn : x \in Cell
  BY CellTypes
<1> HIDE DEF Cell, Elf_Dyn
<1> QED
  BY <1>1

\* The kept entries are moved together, and what they leave is zeroed.
LEMMA ListsCompact ==
    ASSUME NEW D \in Seq(Cell), NEW E \in Seq(Elf_Dyn), Lists(D, E),
           NEW kept \in Seq(Elf_Dyn), Len(kept) <= Len(E),
           \A k \in DOMAIN kept : kept[k].d_tag # "DT_NULL"
    PROVE  LET s == FlattenSeq([i \in DOMAIN kept |-> Struct(kept[i])])
                        \o Zeros((Len(E) - Len(kept)) * Word)
           IN  s \in Seq(Cell) /\ Len(s) = Len(E) * Word /\ Lists(Overwrite(D, 0, s), kept)
<1> DEFINE F == FlattenSeq([i \in DOMAIN kept |-> Struct(kept[i])])
           gone == Len(E) - Len(kept)
           Z == Zeros(gone * Word)
           s == F \o Z
           w == Overwrite(D, 0, s)
           n == Len(E)
           m == Len(kept)
<1>1. /\ Word \in Nat \ {0} /\ n \in Nat /\ m \in Nat /\ m <= n /\ Len(D) \in Nat
      /\ DOMAIN kept = 1 .. m /\ gone \in Nat /\ n = m + gone
  BY ElfAssumption
<1>2. kept \in Seq(Cell) /\ \A k \in DOMAIN kept : kept[k] \in Elf_Dyn
  BY DynCells
<1>3. F \in Seq(Cell) /\ Len(F) = m * Word
  BY <1>2, FlattenCells
<1>4. /\ (n + 1) * Word <= Len(D) /\ (n + 1) * Word = n * Word + Word /\ n * Word \in Nat
      /\ EntryIn(D, n + 1).d_tag = "DT_NULL"
  BY ListsFields
<1> HIDE DEF gone, m, n, F
<1>5. gone * Word \in Nat /\ n * Word = m * Word + gone * Word /\ m * Word \in Nat
  BY <1>1
<1>6. Z \in Seq(Cell) /\ Len(Z) = gone * Word
      /\ \A a \in 0 .. gone * Word - 1 : At(Z, a) = Zero
  <2> DEFINE q == gone * Word
  <2>1. q \in Nat
    BY <1>5
  <2> HIDE DEF q
  <2>2. Zeros(q) \in Seq(Cell) /\ Len(Zeros(q)) = q /\ \A a \in 0 .. q - 1 : At(Zeros(q), a) = Zero
    BY <2>1, ZerosTypes, ZerosAt
  <2> QED
    BY <2>2 DEF q
<1> HIDE DEF Z
<1>7. /\ s \in Seq(Cell) /\ Len(s) = n * Word
      /\ Agree(s, 0, F, 0, Len(F)) /\ Agree(s, m * Word, Z, 0, Len(Z))
  <2>1. /\ s \in Seq(Cell) /\ Len(s) = Len(F) + Len(Z)
        /\ Agree(s, 0, F, 0, Len(F)) /\ Agree(s, Len(F), Z, 0, Len(Z))
    BY <1>3, <1>6, ConcatHolds
  <2> HIDE DEF s
  <2> QED
    BY <1>3, <1>5, <1>6, <2>1
<1> HIDE DEF s
<1>8. Len(w) = Len(D) /\ Agree(w, 0, s, 0, Len(s))
  <2>1. 0 + Len(s) <= Len(D) /\ 0 \in Nat /\ 0 \in Int
    BY <1>1, <1>4, <1>7
  <2> QED
    BY <1>7, <2>1, OverwriteTypes, OverwriteHolds
<1>9. ASSUME NEW k \in DOMAIN kept PROVE EntryIn(w, k) = kept[k]
  <2>1. Agree(w, 0, F, 0, Len(F))
    <3>1. Len(F) <= Len(s) /\ Len(F) \in Nat /\ Len(s) \in Nat
      BY <1>3, <1>5, <1>7
    <3>2. Agree(w, 0, s, 0, Len(F))
      BY <1>8, <3>1 DEF Agree
    <3> QED
      BY <1>7, <3>2, AgreeTrans
  <2>2. F = FlattenSeq([i \in DOMAIN kept |-> Struct(kept[i])])
    BY DEF F
  <2>3. w \in Seq(Cell)
    BY <1>7, OverwriteTypes
  <2>4. Agree(w, 0 + (k - 1) * Word, Struct(kept[k]), 0, Word)
    BY <1>2, <2>1, <2>2, <2>3, TableIn
  <2>5. 0 + (k - 1) * Word = (k - 1) * Word /\ k \in Int
    BY <1>1
  <2>6. Agree(w, (k - 1) * Word, Struct(kept[k]), 0, Word)
    BY <2>4, <2>5
  <2> HIDE DEF w
  <2> QED
    BY <1>2, <2>5, <2>6, EntryWritten
<1>10. EntryIn(w, m + 1).d_tag = "DT_NULL"
  <2>0. (m + 1) - 1 = m /\ m + 1 \in Int /\ (n + 1) - 1 = n /\ n + 1 \in Int
    BY <1>1
  <2>1. CASE gone = 0
    <3>1. m = n
      BY <1>1, <2>1
    <3>2. Agree(w, n * Word, D, n * Word, Word)
      <4>1. 0 + Len(s) <= n * Word
        BY <1>4, <1>7
      <4> QED
        BY <1>1, <1>4, <1>7, <4>1, OverwriteBeside
    <3> HIDE DEF w
    <3>3. EntryIn(w, n + 1) = EntryIn(D, n + 1)
      BY <2>0, <3>2, SameEntry
    <3> QED
      BY <1>4, <3>1, <3>3
  <2>2. CASE gone # 0
    <3>1. Word <= gone * Word
      <4> DEFINE p == gone - 1
      <4>1. p \in Nat /\ gone = p + 1
        BY <1>1, <2>2
      <4> HIDE DEF p
      <4>2. (p + 1) * Word = p * Word + Word /\ p * Word \in Nat
        BY <1>1, <4>1
      <4> QED
        BY <1>1, <4>1, <4>2
    <3>2. ASSUME NEW i \in 0 .. Word - 1 PROVE At(w, m * Word + i) = Zero
      <4>1. i \in 0 .. gone * Word - 1 /\ i \in 0 .. Len(Z) - 1 /\ 0 + i = i
            /\ m * Word + i \in 0 .. Len(s) - 1 /\ 0 + (m * Word + i) = m * Word + i
        <5> DEFINE a == m * Word
                   b == gone * Word
                   c == n * Word
        <5>1. a \in Nat /\ b \in Nat /\ c = a + b /\ Len(Z) = b /\ Len(s) = c /\ Word <= b
          BY <1>5, <1>6, <1>7, <3>1
        <5> HIDE DEF a, b, c
        <5>2. i \in 0 .. b - 1 /\ i \in 0 .. Len(Z) - 1 /\ 0 + i = i
              /\ a + i \in 0 .. Len(s) - 1 /\ 0 + (a + i) = a + i
          BY <1>1, <5>1
        <5> QED
          BY <5>2 DEF a, b
      <4>2. At(s, m * Word + i) = At(Z, 0 + i)
        BY <1>7, <4>1 DEF Agree
      <4>3. At(w, 0 + (m * Word + i)) = At(s, 0 + (m * Word + i))
        BY <1>8, <4>1 DEF Agree
      <4> QED
        BY <1>6, <4>1, <4>2, <4>3
    <3> HIDE DEF w
    <3> QED
      BY <2>0, <3>2, EntryNull
  <2> QED
    BY <2>1, <2>2
<1>11. Word * (m + 1) <= Len(w)
  <2>1. Word * (m + 1) = m * Word + Word
    BY <1>1
  <2> DEFINE a == m * Word
             b == gone * Word
             c == n * Word
  <2>2. a \in Nat /\ b \in Nat /\ c = a + b /\ (n + 1) * Word = c + Word
        /\ (n + 1) * Word <= Len(D) /\ Word * (m + 1) = a + Word
    BY <1>4, <1>5, <2>1
  <2> HIDE DEF a, b, c
  <2>3. a + Word <= Len(D)
    BY <1>1, <2>2
  <2> QED
    BY <1>8, <2>2, <2>3
<1> HIDE DEF w
<1>12. Lists(w, kept)
  BY <1>9, <1>10, <1>11, ListsIs DEF m
<1> QED
  BY <1>7, <1>12 DEF w, s, F, Z, gone, n, m

LEMMA BeginningHolds ==
    ASSUME NEW f \in Seq(Cell), NEW m \in 0 .. Len(f)
    PROVE  /\ SubSeq(f, 1, m) \in Seq(Cell) /\ Len(SubSeq(f, 1, m)) = m
           /\ Agree(SubSeq(f, 1, m), 0, f, 0, m)
<1>1. /\ SubSeq(f, 1, m) \in Seq(Cell) /\ Len(SubSeq(f, 1, m)) = m
      /\ \A i \in 1 .. m : SubSeq(f, 1, m)[i] = f[i]
  <2>1. m \in Nat /\ Len(f) \in Nat
    OBVIOUS
  <2> QED
    BY <2>1, SubSeqProperties
<1>2. ASSUME NEW i \in 0 .. m - 1 PROVE At(SubSeq(f, 1, m), 0 + i) = At(f, 0 + i)
  <2>1. i + 1 \in 1 .. m /\ i \in 0 .. Len(f) - 1 /\ 0 + i = i
    OBVIOUS
  <2> QED
    BY <1>1, <2>1 DEF At
<1> QED
  BY <1>1, <1>2 DEF Agree

\* New entries on top of the others, which are shifted by as much.
LEMMA ListsAdd ==
    ASSUME NEW D \in Seq(Cell), NEW E \in Seq(Elf_Dyn), Lists(D, E),
           NEW new \in Seq(Elf_Dyn), \A k \in DOMAIN new : new[k].d_tag # "DT_NULL"
    PROVE  LET room == Len(new) * Word
               R == Resize(D, Len(D) + room)
               shifted == SubSeq(R, 1, Word * (Len(E) + 1))
               top == FlattenSeq([i \in DOMAIN new |-> Struct(new[i])])
           IN  /\ EntriesAt(R, 0) = E
               /\ shifted \in Seq(Cell) /\ room + Len(shifted) <= Len(R)
               /\ top \in Seq(Cell) /\ Len(top) = room /\ room \in Nat
               /\ Lists(Overwrite(Overwrite(R, room, shifted), 0, top), new \o E)
<1> DEFINE n == Len(E)
           m == Len(new)
           room == m * Word
           R == Resize(D, Len(D) + room)
           size == Word * (n + 1)
           shifted == SubSeq(R, 1, size)
           top == FlattenSeq([i \in DOMAIN new |-> Struct(new[i])])
           v == Overwrite(R, room, shifted)
           w == Overwrite(v, 0, top)
           G == new \o E
<1>1. /\ Word \in Nat \ {0} /\ n \in Nat /\ m \in Nat /\ Len(D) \in Nat
      /\ DOMAIN new = 1 .. m /\ DOMAIN E = 1 .. n /\ room \in Nat
  BY ElfAssumption
<1>2. /\ size \in Nat /\ size <= Len(D) /\ size = (n + 1) * Word
      /\ \A k \in 1 .. n : E[k] = EntryIn(D, k) /\ E[k].d_tag # "DT_NULL"
      /\ EntryIn(D, n + 1).d_tag = "DT_NULL"
  BY ListsFields
<1>3. new \in Seq(Cell) /\ \A k \in DOMAIN new : new[k] \in Elf_Dyn
  BY DynCells
<1>4. top \in Seq(Cell) /\ Len(top) = room
  BY <1>3, FlattenCells
<1> HIDE DEF room, size, top, n, m
<1>5. R \in Seq(Cell) /\ Len(R) = Len(D) + room /\ Agree(R, 0, D, 0, Len(D))
  <2>1. Len(D) + room \in Nat /\ Len(D) <= Len(D) + room
    BY <1>1
  <2> QED
    BY <2>1, ResizeTypes, ResizeHolds
<1> HIDE DEF R
<1>6. EntriesAt(R, 0) = E
  BY <1>1, <1>5, EntriesRead
<1>7. shifted \in Seq(Cell) /\ Len(shifted) = size /\ Agree(shifted, 0, R, 0, size)
  <2>1. size \in 0 .. Len(R)
    BY <1>1, <1>2, <1>5
  <2> HIDE DEF size
  <2> QED
    BY <1>5, <2>1, BeginningHolds
<1> HIDE DEF shifted
<1>8. v \in Seq(Cell) /\ Len(v) = Len(R) /\ Agree(v, room, shifted, 0, size)
  <2>1. room + Len(shifted) <= Len(R)
    BY <1>1, <1>2, <1>5, <1>7
  <2> QED
    BY <1>1, <1>5, <1>7, <2>1, OverwriteTypes, OverwriteHolds
<1> HIDE DEF v
<1>9. /\ w \in Seq(Cell) /\ Len(w) = Len(R) /\ Agree(w, 0, top, 0, Len(top))
      /\ Agree(w, room, v, room, size)
  <2>1. 0 + Len(top) <= Len(v) /\ 0 + Len(top) <= room /\ 0 \in Nat /\ 0 \in Int
    BY <1>1, <1>4, <1>5, <1>8
  <2>2. room \in Int /\ size \in Int
    BY <1>1, <1>2
  <2> QED
    BY <1>4, <1>8, <2>1, <2>2, OverwriteTypes, OverwriteHolds, OverwriteBeside
<1> HIDE DEF w
<1>10. ASSUME NEW k \in 1 .. m PROVE EntryIn(w, k) = new[k]
  <2>1. top = FlattenSeq([i \in DOMAIN new |-> Struct(new[i])])
    BY DEF top
  <2>2. Agree(w, 0 + (k - 1) * Word, Struct(new[k]), 0, Word)
    BY <1>1, <1>3, <1>9, <2>1, TableIn
  <2>3. 0 + (k - 1) * Word = (k - 1) * Word /\ k \in Int
    BY <1>1
  <2>4. Agree(w, (k - 1) * Word, Struct(new[k]), 0, Word)
    BY <2>2, <2>3
  <2> QED
    BY <1>1, <1>3, <2>3, <2>4, EntryWritten
<1>11. ASSUME NEW j \in 1 .. n + 1 PROVE EntryIn(w, m + j) = EntryIn(D, j)
  <2> DEFINE p == (j - 1) * Word
  <2>1. p \in Nat /\ p + Word <= size
    <3>1. n + 1 \in Nat
      BY <1>1
    <3> QED
      BY <1>2, <3>1, InTable
  <2>2. ((m + j) - 1) * Word = room + p
    <3> DEFINE x == j - 1
    <3>1. x \in Nat /\ (m + j) - 1 = m + x
      BY <1>1
    <3> HIDE DEF x
    <3>2. (m + x) * Word = m * Word + x * Word
      BY <1>1, <3>1
    <3> QED
      BY <3>1, <3>2 DEF x, room
  <2> HIDE DEF p
  <2>3. Agree(w, room + p, D, p, Word)
    <3> SUFFICES ASSUME NEW i \in 0 .. Word - 1
                 PROVE  At(w, room + p + i) = At(D, p + i)
      BY DEF Agree
    <3> DEFINE q == p + i
    <3>1. q \in 0 .. size - 1 /\ q \in 0 .. Len(D) - 1 /\ room + p + i = room + q /\ 0 + q = q
      BY <1>1, <1>2, <2>1
    <3> HIDE DEF q
    <3>2. At(w, room + q) = At(v, room + q)
      BY <1>9, <3>1 DEF Agree
    <3>3. At(v, room + q) = At(shifted, 0 + q) /\ At(shifted, 0 + q) = At(R, 0 + q)
      BY <1>7, <1>8, <3>1 DEF Agree
    <3>4. At(R, 0 + q) = At(D, 0 + q)
      BY <1>5, <3>1 DEF Agree
    <3> QED
      BY <3>1, <3>2, <3>3, <3>4 DEF q
  <2>4. Agree(w, ((m + j) - 1) * Word, D, (j - 1) * Word, Word)
    BY <2>2, <2>3 DEF p
  <2>5. m + j \in Int /\ j \in Int
    BY <1>1
  <2> QED
    BY <2>4, <2>5, SameEntry
<1>12. /\ G \in Seq(Elf_Dyn) /\ Len(G) = m + n
       /\ \A k \in 1 .. m : G[k] = new[k]
       /\ \A k \in m + 1 .. m + n : G[k] = E[k - m]
  BY ConcatProperties DEF m, n
<1> HIDE DEF G
<1>13. ASSUME NEW k \in 1 .. m + n
       PROVE  G[k] = EntryIn(w, k) /\ EntryIn(w, k).d_tag # "DT_NULL"
  <2>1. CASE k \in 1 .. m
    BY <1>1, <1>10, <1>12, <2>1
  <2>2. CASE k \notin 1 .. m
    <3> DEFINE j == k - m
    <3>1. j \in 1 .. n /\ j \in 1 .. n + 1 /\ k = m + j /\ k \in m + 1 .. m + n
      BY <1>1, <2>2
    <3> HIDE DEF j
    <3>2. G[k] = E[j]
      BY <1>12, <3>1 DEF j
    <3> QED
      BY <1>2, <1>11, <3>1, <3>2
  <2> QED
    BY <2>1, <2>2
<1>14. EntryIn(w, (m + n) + 1).d_tag = "DT_NULL"
  <2>1. n + 1 \in 1 .. n + 1 /\ m + (n + 1) = (m + n) + 1
    BY <1>1
  <2> QED
    BY <1>2, <1>11, <2>1
<1>15. Word * ((m + n) + 1) <= Len(w)
  <2>1. Word * ((m + n) + 1) = m * Word + Word * (n + 1)
    BY <1>1
  <2>2. Word * ((m + n) + 1) = room + size
    BY <2>1 DEF room, size
  <2> QED
    BY <1>1, <1>2, <1>5, <1>8, <1>9, <2>2
<1>16. Lists(w, G)
  <2>1. Len(G) \in Nat /\ DOMAIN G = 1 .. m + n
    BY <1>12
  <2> QED
    BY <1>12, <1>13, <1>14, <1>15, <2>1, ListsIs
<1>17. room + Len(shifted) <= Len(R)
  BY <1>1, <1>2, <1>5, <1>7
<1> QED
  BY <1>1, <1>4, <1>6, <1>7, <1>16, <1>17 DEF w, v, top, shifted, size, R, room, G, n, m

-----------------------------------------------------------------------------
(* What the methods make of an object.                                     *)

\* Only the contents, the replaced sections, and whether there is a change or a
\* failure, are different.
SameFrame(e, g) ==
    /\ g.hdr = e.hdr /\ g.phdrs = e.phdrs /\ g.shdrs = e.shdrs
    /\ g.old = e.old /\ g.oldSize = e.oldSize /\ g.isExec = e.isExec
    /\ g.page = e.page /\ g.max = e.max /\ Len(g.contents) = Len(e.contents)

\* The cells of the file that the methods may write.
Editable(e) ==
    {a \in Int : \E n \in {".dynamic", ".dynstr"} :
                     /\ findSection3(e, n) # 0
                     /\ a \in Section(e, n).sh_offset
                              .. Section(e, n).sh_offset + Section(e, n).sh_size - 1}

Untouched(e, g) ==
    \A a \in Int : a \notin Editable(e) => At(g.contents, a) = At(e.contents, a)

\* The replaced sections are ones that may be and that there are.
KnownSections(e, g) ==
    /\ DOMAIN g.rep \in SUBSET Replaceable
    /\ \A n \in DOMAIN g.rep : findSection3(e, n) # 0

\* The other fields of an updated object.
LEMMA OtherFields ==
    ASSUME NEW e \in Object, NEW v
    PROVE  /\ LET x == [e EXCEPT !.contents = v]
              IN  /\ x.old = e.old /\ x.oldSize = e.oldSize /\ x.isExec = e.isExec
                  /\ x.page = e.page /\ x.max = e.max /\ x.err = e.err
                  /\ x.changed = e.changed /\ x.ties = e.ties
           /\ LET x == [e EXCEPT !.rep = v]
              IN  /\ x.old = e.old /\ x.oldSize = e.oldSize /\ x.isExec = e.isExec
                  /\ x.page = e.page /\ x.max = e.max /\ x.err = e.err
                  /\ x.changed = e.changed /\ x.ties = e.ties
           /\ LET x == [e EXCEPT !.shdrs = v]
              IN  /\ x.old = e.old /\ x.oldSize = e.oldSize /\ x.isExec = e.isExec
                  /\ x.page = e.page /\ x.max = e.max /\ x.err = e.err
                  /\ x.changed = e.changed /\ x.ties = e.ties
           /\ LET x == [e EXCEPT !.phdrs = v]
              IN  /\ x.old = e.old /\ x.oldSize = e.oldSize /\ x.isExec = e.isExec
                  /\ x.page = e.page /\ x.max = e.max /\ x.err = e.err
                  /\ x.changed = e.changed /\ x.ties = e.ties
           /\ LET x == [e EXCEPT !.hdr = v]
              IN  /\ x.old = e.old /\ x.oldSize = e.oldSize /\ x.isExec = e.isExec
                  /\ x.page = e.page /\ x.max = e.max /\ x.err = e.err
                  /\ x.changed = e.changed /\ x.ties = e.ties
           /\ LET x == [e EXCEPT !.changed = v]
              IN  /\ x.old = e.old /\ x.oldSize = e.oldSize /\ x.isExec = e.isExec
                  /\ x.page = e.page /\ x.max = e.max /\ x.err = e.err /\ x.ties = e.ties
                  /\ x.hdr = e.hdr /\ x.phdrs = e.phdrs /\ x.shdrs = e.shdrs
                  /\ x.rep = e.rep /\ x.contents = e.contents
           /\ LET x == [e EXCEPT !.ties = v]
              IN  /\ x.old = e.old /\ x.oldSize = e.oldSize /\ x.isExec = e.isExec
                  /\ x.page = e.page /\ x.max = e.max /\ x.err = e.err
                  /\ x.hdr = e.hdr /\ x.phdrs = e.phdrs /\ x.shdrs = e.shdrs
                  /\ x.rep = e.rep /\ x.contents = e.contents /\ x.changed = e.changed
           /\ LET x == [e EXCEPT !.err = v]
              IN  /\ x.old = e.old /\ x.oldSize = e.oldSize /\ x.isExec = e.isExec
                  /\ x.page = e.page /\ x.max = e.max /\ x.err = v /\ x.ties = e.ties
                  /\ x.hdr = e.hdr /\ x.phdrs = e.phdrs /\ x.shdrs = e.shdrs
                  /\ x.rep = e.rep /\ x.contents = e.contents /\ x.changed = e.changed
<1> HIDE DEF Headers, Strings
<1>1. e \in Elf_Object
  BY DEF Object
<1> QED
  BY <1>1 DEF Elf_Object

LEMMA FrameOf ==
    ASSUME NEW e \in Object
    PROVE  /\ \A f \in Seq(Cell) : Len(f) = Len(e.contents)
                                       => SameFrame(e, [e EXCEPT !.contents = f])
           /\ \A v : /\ SameFrame(e, [e EXCEPT !.rep = v])
                     /\ SameFrame(e, [e EXCEPT !.changed = v])
                     /\ SameFrame(e, [e EXCEPT !.err = v])
                     /\ SameFrame(e, [e EXCEPT !.ties = v])
           /\ SameFrame(e, e)
<1>1. \A f \in Seq(Cell) : Len(f) = Len(e.contents) => SameFrame(e, [e EXCEPT !.contents = f])
  BY ObjectKeeps, OtherFields DEF SameFrame
<1>2. \A v : SameFrame(e, [e EXCEPT !.rep = v])
  BY ObjectKeeps, OtherFields DEF SameFrame
<1>3. \A v : /\ SameFrame(e, [e EXCEPT !.changed = v]) /\ SameFrame(e, [e EXCEPT !.err = v])
             /\ SameFrame(e, [e EXCEPT !.ties = v])
  BY OtherFields DEF SameFrame
<1> QED
  BY <1>1, <1>2, <1>3 DEF SameFrame

LEMMA FrameTrans ==
    ASSUME NEW e, NEW g, NEW h, SameFrame(e, g), SameFrame(g, h)
    PROVE  SameFrame(e, h)
BY DEF SameFrame

\* Sections are found by the headers only.
LEMMA FoundAlike ==
    ASSUME NEW e, NEW g, g.hdr = e.hdr, g.shdrs = e.shdrs
    PROVE  \A n : findSection3(g, n) = findSection3(e, n) /\ Section(g, n) = Section(e, n)
BY DEF findSection3, Section

LEMMA FoundIs ==
    ASSUME NEW e \in Object, NEW name
    PROVE  /\ findSection3(e, name) # 0 =>
                  /\ findSection3(e, name) \in 1 .. e.hdr.e_shnum - 1
                  /\ e.shdrs[findSection3(e, name)].sh_name = name
           /\ \A i \in 1 .. e.hdr.e_shnum - 1 :
                  e.shdrs[i].sh_name = name => findSection3(e, name) # 0
<1> DEFINE found == {i \in 1 .. e.hdr.e_shnum - 1 : e.shdrs[i].sh_name = name}
<1>1. findSection3(e, name) = IF found = {} THEN 0 ELSE Min(found)
  BY DEF findSection3
<1>2. found \subseteq Nat /\ \A i \in found : i # 0
  <2>1. e.hdr.e_shnum \in Nat
    BY ObjectFields
  <2> QED
    BY <2>1
<1>3. found # {} => Min(found) \in found
  <2> HIDE DEF found
  <2> QED
    BY <1>2, LeastNat
<1> QED
  BY <1>1, <1>2, <1>3

\* What LaidOut says of a section that is in the file.
LEMMA SectionInFile ==
    ASSUME NEW e \in Object, LaidOut(e), NEW i \in 1 .. e.hdr.e_shnum - 1,
           e.shdrs[i].sh_type # "SHT_NOBITS", e.shdrs[i].sh_size > 0
    PROVE  /\ e.shdrs[i].sh_offset >= Word
           /\ e.shdrs[i].sh_offset + e.shdrs[i].sh_size <= Len(e.contents)
           /\ \A j \in 1 .. e.hdr.e_shnum - 1 :
                  j # i /\ e.shdrs[j].sh_type # "SHT_NOBITS" /\ e.shdrs[j].sh_size > 0 =>
                      \/ e.shdrs[i].sh_offset + e.shdrs[i].sh_size <= e.shdrs[j].sh_offset
                      \/ e.shdrs[j].sh_offset + e.shdrs[j].sh_size <= e.shdrs[i].sh_offset
<1> DEFINE S == e.shdrs
           numbers == 1 .. e.hdr.e_shnum - 1
           stored == {k \in numbers : S[k].sh_type # "SHT_NOBITS" /\ S[k].sh_size > 0}
           X == Extents(e.hdr, S)
<1>1. DOMAIN X = -2 .. 0 \cup stored
  BY DEF Extents
<1>2. \A k \in stored : X[k] = [from |-> S[k].sh_offset, to |-> S[k].sh_offset + S[k].sh_size]
  <2> SUFFICES ASSUME NEW k \in stored
               PROVE  X[k] = [from |-> S[k].sh_offset, to |-> S[k].sh_offset + S[k].sh_size]
    OBVIOUS
  <2>0. e.hdr.e_shnum \in Nat
    BY ObjectFields
  <2>1. k # -2 /\ k # -1 /\ k # 0
    BY <2>0
  <2> QED
    BY <2>1 DEF Extents
<1>3. Apart(X, Len(e.contents)) /\ S[i].sh_offset >= Word
  BY DEF LaidOut
<1>4. i \in stored
  OBVIOUS
<1> HIDE DEF X
<1>5. \A k, j \in stored :
          /\ S[k].sh_offset + S[k].sh_size <= Len(e.contents)
          /\ k # j => \/ S[k].sh_offset + S[k].sh_size <= S[j].sh_offset
                      \/ S[j].sh_offset + S[j].sh_size <= S[k].sh_offset
  <2>1. \A k \in stored : /\ k \in DOMAIN X /\ X[k].from = S[k].sh_offset
                           /\ X[k].to = S[k].sh_offset + S[k].sh_size
    <3> HIDE DEF stored, S
    <3> SUFFICES ASSUME NEW k \in stored
                 PROVE  /\ k \in DOMAIN X /\ X[k].from = S[k].sh_offset
                        /\ X[k].to = S[k].sh_offset + S[k].sh_size
      OBVIOUS
    <3>1. X[k] = [from |-> S[k].sh_offset, to |-> S[k].sh_offset + S[k].sh_size]
      BY <1>2
    <3> QED
      BY <1>1, <3>1
  <2> HIDE DEF stored, S
  <2> QED
    BY <1>3, <2>1 DEF Apart
<1> QED
  BY <1>3, <1>4, <1>5

\* An object with a dynamic section and strings.
Base(e) ==
    /\ e \in Object /\ LaidOut(e)
    /\ findSection3(e, ".dynamic") # 0 /\ findSection3(e, ".dynstr") # 0
    /\ Section(e, ".dynamic").sh_size > 0 /\ Section(e, ".dynstr").sh_size > 0

LEMMA BaseFields ==
    ASSUME NEW e, Base(e)
    PROVE  LET d == Section(e, ".dynamic")
               s == Section(e, ".dynstr")
           IN  /\ d.sh_offset \in Nat /\ d.sh_size \in Nat /\ d.sh_offset >= Word
               /\ s.sh_offset \in Nat /\ s.sh_size \in Nat /\ s.sh_offset >= Word
               /\ d.sh_offset + d.sh_size <= Len(e.contents)
               /\ s.sh_offset + s.sh_size <= Len(e.contents)
               /\ \/ d.sh_offset + d.sh_size <= s.sh_offset
                  \/ s.sh_offset + s.sh_size <= d.sh_offset
<1> DEFINE i == findSection3(e, ".dynamic")
           j == findSection3(e, ".dynstr")
           d == Section(e, ".dynamic")
           s == Section(e, ".dynstr")
<1>1. e \in Object /\ LaidOut(e) /\ i # 0 /\ j # 0
  BY DEF Base
<1>2. /\ i \in 1 .. e.hdr.e_shnum - 1 /\ e.shdrs[i].sh_name = ".dynamic"
      /\ j \in 1 .. e.hdr.e_shnum - 1 /\ e.shdrs[j].sh_name = ".dynstr"
  BY <1>1, FoundIs
<1>3. i # j
  BY <1>2
<1>4. d = e.shdrs[i] /\ s = e.shdrs[j] /\ d.sh_size > 0 /\ s.sh_size > 0
  BY DEF Section, Base
<1>5. d \in Elf_Shdr /\ s \in Elf_Shdr
  BY <1>1, FindSectionTypes
<1> HIDE DEF i, j, d, s
<1>6. e.shdrs[i].sh_type # "SHT_NOBITS" /\ e.shdrs[j].sh_type # "SHT_NOBITS"
  BY <1>1, <1>2 DEF LaidOut, Replaceable
<1>7. /\ d.sh_offset \in Nat /\ d.sh_size \in Nat /\ s.sh_offset \in Nat /\ s.sh_size \in Nat
  BY <1>5, SectionFields
<1>8. /\ d.sh_offset >= Word /\ d.sh_offset + d.sh_size <= Len(e.contents)
      /\ \/ d.sh_offset + d.sh_size <= s.sh_offset
         \/ s.sh_offset + s.sh_size <= d.sh_offset
  BY <1>1, <1>2, <1>3, <1>4, <1>6, SectionInFile
<1>9. s.sh_offset >= Word /\ s.sh_offset + s.sh_size <= Len(e.contents)
  BY <1>1, <1>2, <1>4, <1>6, SectionInFile
<1> QED
  BY <1>7, <1>8, <1>9 DEF d, s

\* The strings of a dynamic section are in T.
StringsIn(E, T, addr) ==
    /\ Len(T) > 0 /\ T[Len(T)] = Zero
    /\ \A k \in DOMAIN E :
           /\ E[k].d_tag \in {"DT_SONAME", "DT_RPATH", "DT_RUNPATH"} => E[k].d_val < Len(T)
           /\ E[k].d_tag = "DT_STRTAB" => E[k].d_val = addr

LEMMA ConsistentBy ==
    ASSUME NEW D \in Seq(Cell), NEW E \in Seq(Elf_Dyn), Lists(D, E), NEW T, NEW addr
    PROVE  Consistent(D, T, addr) <=> StringsIn(E, T, addr)
<1>1. EntriesAt(D, 0) = E
  BY EntriesRead DEF Agree
<1>2. ToSet(E) = {E[k] : k \in DOMAIN E}
  BY DEF ToSet
<1> QED
  BY <1>1, <1>2 DEF Consistent, StringsIn

\* The methods have made g of e: E are the entries of .dynamic now, and T the
\* cells of .dynstr.
State(e, g, E, T) ==
    /\ g \in Object /\ g.err = ""
    /\ SameFrame(e, g) /\ Untouched(e, g) /\ KnownSections(e, g)
    /\ E \in Seq(Elf_Dyn) /\ T \in Seq(Cell)
    /\ Lists(Held(g, ".dynamic"), E) /\ Held(g, ".dynstr") = T

\* What is in a section that was not replaced.
LEMMA HeldInFile ==
    ASSUME NEW e, Base(e), NEW g, g \in Object, SameFrame(e, g),
           NEW n \in {".dynamic", ".dynstr"}, n \notin DOMAIN g.rep
    PROVE  LET s == Section(e, n)
           IN  /\ Held(g, n) = Slice(g.contents, s.sh_offset, s.sh_size)
               /\ Held(g, n) \in Seq(Cell) /\ Len(Held(g, n)) = s.sh_size
<1>1. Section(g, n) = Section(e, n)
  BY FoundAlike DEF SameFrame
<1>2. Section(e, n).sh_offset \in Nat /\ Section(e, n).sh_size \in Nat /\ g.contents \in Seq(Cell)
  BY BaseFields, ObjectFields
<1> QED
  BY <1>1, <1>2, SliceTypes DEF Held

LEMMA HeldTypes ==
    ASSUME NEW g \in Object, NEW n \in SectionName
    PROVE  Held(g, n) \in Seq(Cell)
<1>1. Section(g, n).sh_offset \in Nat /\ Section(g, n).sh_size \in Nat /\ g.contents \in Seq(Cell)
  BY FindSectionTypes, SectionFields, ObjectFields
<1>2. Slice(g.contents, Section(g, n).sh_offset, Section(g, n).sh_size) \in Seq(Cell)
  BY <1>1, SliceTypes
<1>3. n \in DOMAIN g.rep => g.rep[n] \in Seq(Cell)
  BY ObjectFields, StringsFields
<1> QED
  BY <1>2, <1>3 DEF Held

LEMMA ContentsUpdate ==
    ASSUME NEW g \in Object, NEW f \in Seq(Cell), Len(f) = Len(g.contents)
    PROVE  LET x == [g EXCEPT !.contents = f]
           IN  /\ x \in Object /\ SameFrame(g, x) /\ x.err = g.err
               /\ x.rep = g.rep /\ x.contents = f
<1>1. [g EXCEPT !.contents = f] \in Object
  BY ObjectUpdates
<1>2. SameFrame(g, [g EXCEPT !.contents = f])
  BY FrameOf
<1>3. LET x == [g EXCEPT !.contents = f]
      IN  x.err = g.err /\ x.rep = g.rep /\ x.contents = f
  BY OtherFields, ObjectKeeps
<1> QED
  BY <1>1, <1>2, <1>3

\* The contents are written, in the two sections only.
LEMMA WrittenIn ==
    ASSUME NEW e, NEW g, NEW E, NEW T, State(e, g, E, T),
           NEW f \in Seq(Cell), Len(f) = Len(g.contents),
           \A a \in Int : a \notin Editable(e) => At(f, a) = At(g.contents, a),
           NEW E2 \in Seq(Elf_Dyn), NEW T2 \in Seq(Cell),
           Lists(Held([g EXCEPT !.contents = f], ".dynamic"), E2),
           Held([g EXCEPT !.contents = f], ".dynstr") = T2
    PROVE  State(e, [g EXCEPT !.contents = f], E2, T2) /\ [g EXCEPT !.contents = f].rep = g.rep
<1> DEFINE x == [g EXCEPT !.contents = f]
<1>1. g \in Object /\ g.err = "" /\ SameFrame(e, g) /\ Untouched(e, g) /\ KnownSections(e, g)
  BY DEF State
<1>2. x \in Object /\ SameFrame(g, x) /\ x.err = "" /\ x.rep = g.rep /\ x.contents = f
  BY <1>1, ContentsUpdate
<1> HIDE DEF x
<1>3. SameFrame(e, x)
  BY <1>1, <1>2, FrameTrans
<1>4. Untouched(e, x)
  BY <1>1, <1>2 DEF Untouched
<1>5. KnownSections(e, x)
  BY <1>1, <1>2 DEF KnownSections
<1>6. Lists(Held(x, ".dynamic"), E2) /\ Held(x, ".dynstr") = T2
  BY DEF x
<1>7. State(e, x, E2, T2)
  BY <1>2, <1>3, <1>4, <1>5, <1>6 DEF State
<1> QED
  BY <1>2, <1>7 DEF x

\* What a method writes in .dynamic.
LEMMA DynamicWritten ==
    ASSUME NEW e, Base(e), NEW g, NEW E, NEW T, State(e, g, E, T),
           ".dynamic" \notin DOMAIN g.rep,
           NEW k \in Nat, NEW s \in Seq(Cell), k + Len(s) <= Section(e, ".dynamic").sh_size,
           NEW E2 \in Seq(Elf_Dyn), Lists(Overwrite(Held(g, ".dynamic"), k, s), E2)
    PROVE  LET x == [g EXCEPT !.contents =
                         Overwrite(@, Section(g, ".dynamic").sh_offset + k, s)]
           IN  State(e, x, E2, T) /\ x.rep = g.rep
<1> DEFINE o == Section(e, ".dynamic").sh_offset
           n == Section(e, ".dynamic").sh_size
           so == Section(e, ".dynstr").sh_offset
           sn == Section(e, ".dynstr").sh_size
           f == Overwrite(g.contents, o + k, s)
           x == [g EXCEPT !.contents = f]
<1>1. /\ g \in Object /\ SameFrame(e, g) /\ T \in Seq(Cell) /\ Held(g, ".dynstr") = T
      /\ g.contents \in Seq(Cell) /\ Len(g.contents) = Len(e.contents)
      /\ \A m : Section(g, m) = Section(e, m)
  <2>1. g \in Object /\ SameFrame(e, g) /\ T \in Seq(Cell) /\ Held(g, ".dynstr") = T
    BY DEF State
  <2>2. g.contents \in Seq(Cell) /\ Len(g.contents) = Len(e.contents)
    BY <2>1, ObjectFields DEF SameFrame
  <2>3. \A m : Section(g, m) = Section(e, m)
    BY <2>1, FoundAlike DEF SameFrame
  <2> QED
    BY <2>1, <2>2, <2>3
<1>2. /\ o \in Nat /\ n \in Nat /\ so \in Nat /\ sn \in Nat /\ o + n <= Len(e.contents)
      /\ o + n <= so \/ so + sn <= o
  BY BaseFields
<1>3. findSection3(e, ".dynamic") # 0
  BY DEF Base
<1>0. Len(s) \in Nat
  OBVIOUS
<1> HIDE DEF o, n, so, sn
<1>4. f \in Seq(Cell) /\ Len(f) = Len(g.contents)
  BY <1>1, <1>2, OverwriteTypes
<1>5. \A a \in Int : a \notin Editable(e) => At(f, a) = At(g.contents, a)
  <2> SUFFICES ASSUME NEW a \in Int, a \notin Editable(e) PROVE At(f, a) = At(g.contents, a)
    OBVIOUS
  <2>1. a \notin o .. o + n - 1
    BY <1>3 DEF Editable, o, n
  <2>2. a - (o + k) \notin 0 .. Len(s) - 1
    BY <1>0, <1>2, <2>1, SMTT(30) DEF n
  <2>3. o + k \in Int
    BY <1>2
  <2> QED
    BY <1>1, <2>2, <2>3, OverwriteAt
<1>6. x \in Object /\ SameFrame(e, x) /\ x.rep = g.rep /\ x.contents = f
  <2>1. x \in Object /\ SameFrame(g, x) /\ x.rep = g.rep /\ x.contents = f
    BY <1>1, <1>4, ContentsUpdate
  <2> HIDE DEF x
  <2> QED
    BY <1>1, <2>1, FrameTrans
<1>7. Held(x, ".dynamic") = Overwrite(Held(g, ".dynamic"), k, s)
  <2>1. Held(g, ".dynamic") = Slice(g.contents, o, n)
    BY <1>1, HeldInFile DEF o, n
  <2>2. Held(x, ".dynamic") = Slice(f, o, n)
    <3> HIDE DEF x, f
    <3> QED
      BY <1>6, HeldInFile DEF o, n
  <2>3. o + n <= Len(g.contents) /\ k \in Int
    BY <1>1, <1>2
  <2> QED
    BY <1>1, <1>2, <2>1, <2>2, <2>3, SliceOverwrite
<1>8. Held(x, ".dynstr") = T
  <2>1. CASE ".dynstr" \in DOMAIN g.rep
    <3> HIDE DEF x
    <3> QED
      BY <1>1, <1>6, <2>1 DEF Held
  <2>2. CASE ".dynstr" \notin DOMAIN g.rep
    <3>1. Held(g, ".dynstr") = Slice(g.contents, so, sn)
      BY <1>1, <2>2, HeldInFile DEF so, sn
    <3>2. Held(x, ".dynstr") = Slice(f, so, sn)
      <4> HIDE DEF x, f
      <4> QED
        BY <1>6, <2>2, HeldInFile DEF so, sn
    <3>3. Agree(f, so, g.contents, so, sn)
      <4>1. so + sn <= o + k \/ o + k + Len(s) <= so
        BY <1>0, <1>2 DEF n
      <4>2. o + k \in Int
        BY <1>2
      <4> QED
        BY <1>1, <1>2, <4>1, <4>2, OverwriteBeside
    <3> HIDE DEF f, x
    <3> QED
      BY <1>1, <1>2, <1>4, <3>1, <3>2, <3>3, SliceAgree
  <2> QED
    BY <2>1, <2>2
<1>9. State(e, x, E2, T) /\ x.rep = g.rep
  <2>1. Lists(Held(x, ".dynamic"), E2)
    BY <1>7
  <2> HIDE DEF f
  <2> QED
    BY <1>1, <1>4, <1>5, <1>8, <2>1, WrittenIn
<1>10. x = [g EXCEPT !.contents = Overwrite(@, Section(g, ".dynamic").sh_offset + k, s)]
  BY <1>1 DEF o
<1> QED
  BY <1>9, <1>10

\* What a method writes in .dynstr.
LEMMA StringsWritten ==
    ASSUME NEW e, Base(e), NEW g, NEW E, NEW T, State(e, g, E, T),
           ".dynstr" \notin DOMAIN g.rep,
           NEW f \in Seq(Cell), Len(f) = Len(g.contents),
           \A a \in Int : a \notin Section(e, ".dynstr").sh_offset
                                   .. Section(e, ".dynstr").sh_offset
                                          + Section(e, ".dynstr").sh_size - 1
                              => At(f, a) = At(g.contents, a)
    PROVE  LET x == [g EXCEPT !.contents = f]
               s == Section(e, ".dynstr")
           IN  /\ State(e, x, E, Slice(f, s.sh_offset, s.sh_size)) /\ x.rep = g.rep
               /\ T = Slice(g.contents, s.sh_offset, s.sh_size) /\ Len(T) = s.sh_size
<1> DEFINE o == Section(e, ".dynamic").sh_offset
           n == Section(e, ".dynamic").sh_size
           so == Section(e, ".dynstr").sh_offset
           sn == Section(e, ".dynstr").sh_size
           x == [g EXCEPT !.contents = f]
<1>1. /\ g \in Object /\ SameFrame(e, g) /\ T \in Seq(Cell) /\ Held(g, ".dynstr") = T
      /\ E \in Seq(Elf_Dyn) /\ Lists(Held(g, ".dynamic"), E)
  BY DEF State
<1>2. g.contents \in Seq(Cell) /\ Len(g.contents) = Len(e.contents)
  BY <1>1, ObjectFields DEF SameFrame
<1>3. /\ o \in Nat /\ n \in Nat /\ so \in Nat /\ sn \in Nat
      /\ o + n <= so \/ so + sn <= o
  BY BaseFields
<1>4. findSection3(e, ".dynstr") # 0
  BY DEF Base
<1>5. \A a \in Int : a \notin Editable(e) => At(f, a) = At(g.contents, a)
  BY <1>4 DEF Editable
<1>6. T = Slice(g.contents, so, sn) /\ Len(T) = sn
  BY <1>1, HeldInFile
<1> HIDE DEF o, n, so, sn
<1>7. x \in Object /\ SameFrame(e, x) /\ x.rep = g.rep /\ x.contents = f
  <2>1. x \in Object /\ SameFrame(g, x) /\ x.rep = g.rep /\ x.contents = f
    BY <1>1, ContentsUpdate
  <2> HIDE DEF x
  <2> QED
    BY <1>1, <2>1, FrameTrans
<1> HIDE DEF x
<1>8. Held(x, ".dynstr") = Slice(f, so, sn) /\ Slice(f, so, sn) \in Seq(Cell)
  <2>1. Held(x, ".dynstr") = Slice(f, so, sn)
    BY <1>7, HeldInFile DEF so, sn
  <2> QED
    BY <1>3, <2>1, SliceTypes
<1>9. Held(x, ".dynamic") = Held(g, ".dynamic")
  <2>1. CASE ".dynamic" \in DOMAIN g.rep
    BY <1>7, <2>1 DEF Held
  <2>2. CASE ".dynamic" \notin DOMAIN g.rep
    <3>1. Held(g, ".dynamic") = Slice(g.contents, o, n)
      BY <1>1, <2>2, HeldInFile DEF o, n
    <3>2. Held(x, ".dynamic") = Slice(f, o, n)
      BY <1>7, <2>2, HeldInFile DEF o, n
    <3>3. Agree(f, o, g.contents, o, n)
      <4>1. \A i \in 0 .. n - 1 : o + i \in Int /\ o + i \notin so .. so + sn - 1
        BY <1>3
      <4> QED
        BY <4>1 DEF Agree, so, sn
    <3> QED
      BY <1>2, <1>3, <3>1, <3>2, <3>3, SliceAgree
  <2> QED
    BY <2>1, <2>2
<1>10. State(e, x, E, Slice(f, so, sn))
  BY <1>1, <1>5, <1>8, <1>9, WrittenIn DEF x
<1> QED
  BY <1>6, <1>7, <1>10 DEF x, so, sn

\* An entry is set.
LEMMA SetEntryMakes ==
    ASSUME NEW e, Base(e), NEW g, NEW E, NEW T, State(e, g, E, T),
           ".dynamic" \notin DOMAIN g.rep,
           NEW i \in DOMAIN E, NEW d \in Elf_Dyn, d.d_tag # "DT_NULL"
    PROVE  State(e, SetEntry(g, i, d), [E EXCEPT ![i] = d], T) /\ SetEntry(g, i, d).rep = g.rep
<1> DEFINE D == Held(g, ".dynamic")
           n == Section(e, ".dynamic").sh_size
           k == (i - 1) * Word
<1>1. g \in Object /\ SameFrame(e, g) /\ E \in Seq(Elf_Dyn) /\ Lists(D, E)
  BY DEF State
<1>2. D \in Seq(Cell) /\ Len(D) = n
  BY <1>1, HeldInFile
<1> HIDE DEF D
<1>3. Lists(Overwrite(D, k, Struct(d)), [E EXCEPT ![i] = d])
  BY <1>1, <1>2, ListsSet
<1>4. Struct(d) \in Seq(Cell) /\ Len(Struct(d)) = Word
  BY CellTypes, StructCells
<1>5. k \in Nat /\ k + Word <= n
  <2> DEFINE m == Len(E)
  <2>1. m \in Nat /\ i \in 1 .. m
    BY <1>1
  <2>2. (m + 1) * Word <= Len(D) /\ (m + 1) * Word = m * Word + Word
    BY <1>1, <1>2, ListsFields
  <2> HIDE DEF m
  <2>3. k \in Nat /\ k + Word <= m * Word /\ m * Word \in Nat
    BY <2>1, InTable
  <2> HIDE DEF k, n
  <2> QED
    BY <1>2, <2>2, <2>3, ElfAssumption
<1>6. [E EXCEPT ![i] = d] \in Seq(Elf_Dyn)
  BY <1>1
<1> DEFINE G == [E EXCEPT ![i] = d]
<1> HIDE DEF k, n, G
<1>7. LET x == [g EXCEPT !.contents =
                    Overwrite(@, Section(g, ".dynamic").sh_offset + k, Struct(d))]
      IN  State(e, x, G, T) /\ x.rep = g.rep
  <2>1. Lists(Overwrite(Held(g, ".dynamic"), k, Struct(d)), G) /\ G \in Seq(Elf_Dyn)
    BY <1>3, <1>6 DEF D, G
  <2>2. k + Len(Struct(d)) <= Section(e, ".dynamic").sh_size
    BY <1>4, <1>5 DEF n
  <2> QED
    BY <1>4, <1>5, <2>1, <2>2, DynamicWritten
<1> QED
  BY <1>7 DEF SetEntry, G, k

\* A string that begins in .dynstr ends there.
LEMMA StringEnds ==
    ASSUME NEW e, Base(e), NEW g, NEW E, NEW T, State(e, g, E, T),
           ".dynstr" \notin DOMAIN g.rep, T[Len(T)] = Zero,
           NEW val \in Nat, val < Len(T)
    PROVE  Str(g, val) \in Seq(Character) /\ val + Len(Str(g, val)) < Len(T)
<1> DEFINE so == Section(e, ".dynstr").sh_offset
           sn == Section(e, ".dynstr").sh_size
           f == g.contents
           p == so + val
           ends == {k \in 0 .. Len(f) : At(f, p + k) = Zero}
           m == sn - 1 - val
<1>1. g \in Object /\ SameFrame(e, g) /\ T \in Seq(Cell) /\ Held(g, ".dynstr") = T
  BY DEF State
<1>2. f \in Seq(Cell) /\ Len(f) = Len(e.contents) /\ Section(g, ".dynstr") = Section(e, ".dynstr")
  <2>1. Section(g, ".dynstr") = Section(e, ".dynstr")
    BY <1>1, FoundAlike DEF SameFrame
  <2>2. f \in Seq(Cell) /\ Len(f) = Len(e.contents)
    BY <1>1, ObjectFields DEF SameFrame
  <2> QED
    BY <2>1, <2>2
<1>3. so \in Nat /\ sn \in Nat /\ so + sn <= Len(e.contents)
  BY BaseFields
<1>4. T = Slice(f, so, sn) /\ Len(T) = sn
  BY <1>1, HeldInFile
<1>5. Str(g, val) = StringAt(f, p)
  BY <1>2 DEF Str
<1>6. Str(g, val) \in Seq(Character)
  BY <1>1, StrTypes
<1> HIDE DEF so, sn, f
<1>7. m \in ends
  <2>1. m \in 0 .. Len(f) /\ p + m = so + (sn - 1) /\ sn - 1 \in 0 .. sn - 1 /\ sn \in Nat \ {0}
    BY <1>2, <1>3, <1>4
  <2>2. At(T, sn - 1) = At(f, so + (sn - 1))
    BY <1>2, <1>3, <1>4, <2>1, SliceAt
  <2>3. At(T, sn - 1) = T[sn]
    <3>1. (sn - 1) + 1 = sn
      BY <1>3
    <3> QED
      BY <1>4, <2>1, <3>1 DEF At
  <2> QED
    BY <1>4, <2>1, <2>2, <2>3
<1>8. StringAt(f, p) = [i \in 1 .. Min(ends) |-> Letter(At(f, p + i - 1))]
  <2>1. ends # {}
    BY <1>7
  <2> QED
    BY <2>1 DEF StringAt, StringBy
<1>9. Min(ends) \in ends /\ Min(ends) <= m
  <2>1. ends \subseteq Nat
    BY <1>2
  <2> HIDE DEF ends
  <2> QED
    BY <1>7, <2>1, LeastNat
<1>10. Len(Str(g, val)) = Min(ends) /\ Min(ends) \in Nat
  <2>1. Min(ends) \in Nat
    BY <1>2, <1>9
  <2> HIDE DEF ends
  <2> QED
    BY <1>5, <1>8, <2>1
<1> HIDE DEF ends
<1> QED
  BY <1>3, <1>4, <1>6, <1>9, <1>10

\* A string is made void.
LEMMA WipeStringMakes ==
    ASSUME NEW e, Base(e), NEW g, NEW E, NEW T, State(e, g, E, T),
           ".dynstr" \notin DOMAIN g.rep, T[Len(T)] = Zero,
           NEW val \in Nat, val < Len(T)
    PROVE  \E T2 \in Seq(Cell) :
               /\ State(e, WipeString(g, val), E, T2) /\ WipeString(g, val).rep = g.rep
               /\ Len(T2) = Len(T) /\ T2[Len(T2)] = Zero
<1> DEFINE s == Section(e, ".dynstr")
           m == Len(Str(g, val))
           f == Fill(g.contents, s.sh_offset + val, m, XX)
           T2 == Slice(f, s.sh_offset, s.sh_size)
<1>1. /\ g \in Object /\ Section(g, ".dynstr") = s /\ g.contents \in Seq(Cell)
      /\ Len(g.contents) = Len(e.contents) /\ T \in Seq(Cell)
  <2>1. g \in Object /\ SameFrame(e, g) /\ T \in Seq(Cell)
    BY DEF State
  <2>2. Section(g, ".dynstr") = s
    BY <2>1, FoundAlike DEF SameFrame
  <2>3. g.contents \in Seq(Cell) /\ Len(g.contents) = Len(e.contents)
    BY <2>1, ObjectFields DEF SameFrame
  <2> QED
    BY <2>1, <2>2, <2>3
<1>2. s.sh_offset \in Nat /\ s.sh_size \in Nat /\ s.sh_offset + s.sh_size <= Len(e.contents)
  BY BaseFields
<1>3. m \in Nat /\ val + m < Len(T)
  <2>1. Str(g, val) \in Seq(Character) /\ val + m < Len(T)
    BY StringEnds
  <2> QED
    BY <2>1
<1>4. XX \in Cell
  BY CellTypes
<1> HIDE DEF s, m
<1>5. f \in Seq(Cell) /\ Len(f) = Len(g.contents)
  BY <1>1, <1>2, <1>3, <1>4, FillTypes
<1>6. Len(T) = s.sh_size /\ T = Slice(g.contents, s.sh_offset, s.sh_size)
  <2>1. ".dynstr" \notin DOMAIN g.rep /\ SameFrame(e, g) /\ Held(g, ".dynstr") = T
    BY DEF State
  <2> QED
    BY <1>1, <2>1, HeldInFile DEF s
<1>7. \A a \in Int : a \notin s.sh_offset .. s.sh_offset + s.sh_size - 1
                         => At(f, a) = At(g.contents, a)
  <2> SUFFICES ASSUME NEW a \in Int, a \notin s.sh_offset .. s.sh_offset + s.sh_size - 1
               PROVE  At(f, a) = At(g.contents, a)
    OBVIOUS
  <2>1. a - (s.sh_offset + val) \notin 0 .. m - 1 /\ s.sh_offset + val \in Int
    <3> DEFINE o == s.sh_offset
               z == s.sh_size
    <3>1. o \in Nat /\ z \in Nat /\ m \in Nat /\ val + m < z /\ a \notin o .. o + z - 1
      BY <1>2, <1>3, <1>6
    <3> HIDE DEF o, z
    <3>2. a - (o + val) \notin 0 .. m - 1 /\ o + val \in Int
      BY ONLY <3>1, a \in Int, val \in Nat
    <3> QED
      BY <3>2 DEF o
  <2> QED
    BY <1>1, <1>3, <1>4, <2>1, FillAt
<1>8. T2 = Fill(T, val, m, XX)
  <2>1. s.sh_offset + s.sh_size <= Len(g.contents)
    BY <1>1, <1>2
  <2> QED
    BY <1>1, <1>2, <1>3, <1>4, <1>6, <2>1, SliceFill
<1>9. T2 \in Seq(Cell) /\ Len(T2) = Len(T)
  BY <1>1, <1>3, <1>4, <1>8, FillTypes
<1>10. T2[Len(T2)] = Zero
  <2> DEFINE b == Len(T) - 1
  <2>1. b \in 0 .. Len(T) - 1 /\ b - val \notin 0 .. m - 1 /\ b + 1 = Len(T)
    BY <1>1, <1>3
  <2>2. At(Fill(T, val, m, XX), b) = At(T, b)
    BY <1>1, <1>3, <1>4, <2>1, FillAt
  <2>3. At(T, b) = T[Len(T)] /\ At(T2, b) = T2[Len(T)]
    <3> HIDE DEF b, T2
    <3> QED
      BY <1>9, <2>1 DEF At
  <2> QED
    BY <1>8, <1>9, <2>2, <2>3
<1>11. LET x == [g EXCEPT !.contents = f] IN State(e, x, E, T2) /\ x.rep = g.rep
  <2> HIDE DEF f
  <2> QED
    BY <1>5, <1>7, StringsWritten DEF s
<1>12. WipeString(g, val) = [g EXCEPT !.contents = f]
  BY <1>1 DEF WipeString, m
<1> QED
  BY <1>9, <1>10, <1>11, <1>12

\* A string is put in the place of a longer one.
LEMMA StringWritten ==
    ASSUME NEW e, Base(e), NEW g, NEW E, NEW T, State(e, g, E, T),
           ".dynstr" \notin DOMAIN g.rep, T[Len(T)] = Zero,
           NEW val \in Nat, NEW new \in Seq(Character), val + Len(new) + 1 <= Len(T)
    PROVE  LET x == [g EXCEPT !.contents =
                         Overwrite(@, Section(e, ".dynstr").sh_offset + val, CString(new))]
           IN  \E T2 \in Seq(Cell) : /\ State(e, x, E, T2) /\ x.rep = g.rep
                                     /\ Len(T2) = Len(T) /\ T2[Len(T2)] = Zero
<1> DEFINE s == Section(e, ".dynstr")
           c == CString(new)
           f == Overwrite(g.contents, s.sh_offset + val, c)
           T2 == Slice(f, s.sh_offset, s.sh_size)
<1>1. /\ g \in Object /\ g.contents \in Seq(Cell)
      /\ Len(g.contents) = Len(e.contents) /\ T \in Seq(Cell)
  <2>1. g \in Object /\ SameFrame(e, g) /\ T \in Seq(Cell)
    BY DEF State
  <2>2. g.contents \in Seq(Cell) /\ Len(g.contents) = Len(e.contents)
    BY <2>1, ObjectFields DEF SameFrame
  <2> QED
    BY <2>1, <2>2
<1>2. s.sh_offset \in Nat /\ s.sh_size \in Nat /\ s.sh_offset + s.sh_size <= Len(e.contents)
  BY BaseFields
<1>3. c \in Seq(Cell) /\ Len(c) = Len(new) + 1 /\ c[Len(c)] = Zero
  <2>1. Chars(new) \in Seq(Cell) /\ Len(Chars(new)) = Len(new)
    <3>1. \A i \in DOMAIN new : Char(new[i]) \in Cell
      BY CellTypes
    <3> HIDE DEF Cell
    <3> QED
      BY <3>1 DEF Chars
  <2>2. c \in Seq(Cell)
    BY CStringTypes
  <2> HIDE DEF Cell
  <2> QED
    BY <2>1, <2>2, CellTypes DEF CString
<1> HIDE DEF s, c
<1>4. val + Len(c) <= Len(T) /\ Len(c) \in Nat
  BY <1>3
<1>5. f \in Seq(Cell) /\ Len(f) = Len(g.contents)
  <2>1. s.sh_offset + val \in Int
    BY <1>2
  <2> QED
    BY <1>1, <1>3, <2>1, OverwriteTypes
<1>6. Len(T) = s.sh_size /\ T = Slice(g.contents, s.sh_offset, s.sh_size)
  <2>1. ".dynstr" \notin DOMAIN g.rep /\ SameFrame(e, g) /\ Held(g, ".dynstr") = T
    BY DEF State
  <2> QED
    BY <1>1, <2>1, HeldInFile DEF s
<1>7. \A a \in Int : a \notin s.sh_offset .. s.sh_offset + s.sh_size - 1
                         => At(f, a) = At(g.contents, a)
  <2> SUFFICES ASSUME NEW a \in Int, a \notin s.sh_offset .. s.sh_offset + s.sh_size - 1
               PROVE  At(f, a) = At(g.contents, a)
    OBVIOUS
  <2>1. a - (s.sh_offset + val) \notin 0 .. Len(c) - 1 /\ s.sh_offset + val \in Int
    <3> DEFINE so == s.sh_offset
               sn == s.sh_size
               m == Len(c)
    <3>1. so \in Nat /\ sn \in Nat /\ m \in Nat /\ val + m <= sn /\ a \notin so .. so + sn - 1
      BY <1>2, <1>4, <1>6
    <3> HIDE DEF so, sn, m
    <3>2. a - (so + val) \notin 0 .. m - 1 /\ so + val \in Int
      BY <3>1
    <3> QED
      BY <3>2 DEF so, m
  <2> QED
    BY <1>1, <1>3, <2>1, OverwriteAt, SMTT(30)
<1>8. T2 = Overwrite(T, val, c)
  <2>1. s.sh_offset + s.sh_size <= Len(g.contents)
    BY <1>1, <1>2
  <2> QED
    BY <1>1, <1>2, <1>3, <1>6, <2>1, SliceOverwrite
<1>9. T2 \in Seq(Cell) /\ Len(T2) = Len(T)
  BY <1>1, <1>3, <1>8, OverwriteTypes
<1>10. T2[Len(T2)] = Zero
  <2> DEFINE b == Len(T) - 1
  <2>1. b \in 0 .. Len(T) - 1 /\ b + 1 = Len(T)
    BY <1>1, <1>4
  <2>2. At(Overwrite(T, val, c), b) = IF b - val \in 0 .. Len(c) - 1 THEN c[b - val + 1]
                                      ELSE At(T, b)
    BY <1>1, <1>3, <2>1, OverwriteAt, SMTT(30)
  <2>3. At(T, b) = T[Len(T)] /\ At(T2, b) = T2[Len(T)]
    <3> HIDE DEF b, T2
    <3> QED
      BY <1>9, <2>1 DEF At
  <2>4. b - val \in 0 .. Len(c) - 1 => b - val + 1 = Len(c)
    BY <1>1, <1>4
  <2> QED
    BY <1>3, <1>8, <1>9, <2>2, <2>3, <2>4
<1>11. LET x == [g EXCEPT !.contents = f] IN State(e, x, E, T2) /\ x.rep = g.rep
  <2> HIDE DEF f
  <2> QED
    BY <1>5, <1>7, StringsWritten DEF s
<1> QED
  BY <1>9, <1>10, <1>11 DEF s, c

\* What g has in common with the object e that it was made of.
KeptAs(e, g) ==
    g \in Object /\ g.err = "" /\ SameFrame(e, g) /\ Untouched(e, g) /\ KnownSections(e, g)

LEMMA StateIs ==
    ASSUME NEW e, NEW g, NEW E, NEW T
    PROVE  State(e, g, E, T) <=> /\ KeptAs(e, g) /\ E \in Seq(Elf_Dyn) /\ T \in Seq(Cell)
                                 /\ Lists(Held(g, ".dynamic"), E) /\ Held(g, ".dynstr") = T
BY DEF State, KeptAs

LEMMA NewRep ==
    ASSUME NEW e, NEW g, KeptAs(e, g), NEW r \in Strings,
           DOMAIN r \in SUBSET Replaceable, \A n \in DOMAIN r : findSection3(e, n) # 0
    PROVE  LET x == [g EXCEPT !.rep = r]
           IN  KeptAs(e, x) /\ x.rep = r /\ x.contents = g.contents
<1> DEFINE x == [g EXCEPT !.rep = r]
<1>1. g \in Object /\ g.err = "" /\ SameFrame(e, g) /\ Untouched(e, g)
  BY DEF KeptAs
<1>2. x \in Object
  BY <1>1, ObjectUpdates
<1>3. SameFrame(g, x) /\ x.err = "" /\ x.rep = r /\ x.contents = g.contents
  <2>1. SameFrame(g, x)
    BY <1>1, FrameOf
  <2>2. x.err = g.err
    BY <1>1, OtherFields, ZenonT(60)
  <2>3. x.rep = r /\ x.contents = g.contents
    BY <1>1, ObjectKeeps, ZenonT(60)
  <2> QED
    BY <1>1, <2>1, <2>2, <2>3
<1> HIDE DEF x
<1>4. SameFrame(e, x) /\ Untouched(e, x) /\ KnownSections(e, x)
  BY <1>1, <1>3, FrameTrans DEF Untouched, KnownSections
<1> QED
  BY <1>2, <1>3, <1>4 DEF KeptAs, x

\* A section is replaced.
LEMMA ReplaceMakes ==
    ASSUME NEW e \in Object, NEW g, KeptAs(e, g), NEW name \in Replaceable,
           findSection3(e, name) # 0, NEW size \in Nat
    PROVE  LET x == replaceSection(g, name, size)
           IN  /\ KeptAs(e, x) /\ x.contents = g.contents
               /\ DOMAIN x.rep = DOMAIN g.rep \cup {name}
               /\ x.rep[name] = Resize(Held(g, name), size)
               /\ x.rep[name] \in Seq(Cell) /\ Len(x.rep[name]) = size
               /\ \A n \in DOMAIN g.rep : n # name => x.rep[n] = g.rep[n]
<1> DEFINE w == Resize(Held(g, name), size)
           r == [n \in DOMAIN g.rep \cup {name} |-> IF n = name THEN w ELSE g.rep[n]]
<1>1. g \in Object /\ g.err = "" /\ SameFrame(e, g) /\ KnownSections(e, g)
  BY DEF KeptAs
<1>2. name \in SectionName
  BY NamesTypes DEF Replaceable
<1>3. w \in Seq(Cell) /\ Len(w) = size
  BY <1>1, <1>2, HeldTypes, ResizeTypes
<1>4. findSection3(g, name) # 0
  BY <1>1, FoundAlike DEF SameFrame
<1>5. Find(g, {name}) = g
  BY <1>4 DEF Find
<1>6. replaceSection(g, name, size) = [g EXCEPT !.rep = r]
  BY <1>5 DEF replaceSection, Held
<1> HIDE DEF w
<1>7. r \in Strings
  BY <1>1, <1>2, <1>3, ObjectFields, StringsUpdate
<1>8. /\ DOMAIN r = DOMAIN g.rep \cup {name} /\ r[name] = w
      /\ \A n \in DOMAIN g.rep : n # name => r[n] = g.rep[n]
  OBVIOUS
<1> HIDE DEF r
<1>9. DOMAIN r \in SUBSET Replaceable /\ \A n \in DOMAIN r : findSection3(e, n) # 0
  BY <1>1, <1>8 DEF KnownSections
<1>10. LET x == [g EXCEPT !.rep = r]
       IN  KeptAs(e, x) /\ x.rep = r /\ x.contents = g.contents
  BY <1>7, <1>9, NewRep
<1> QED
  BY <1>3, <1>6, <1>8, <1>10 DEF w

\* And written.
LEMMA SubstrMakes ==
    ASSUME NEW e, NEW g, KeptAs(e, g), NEW name \in DOMAIN g.rep,
           NEW pos \in Nat, NEW t \in Seq(Cell), pos + Len(t) <= Len(g.rep[name])
    PROVE  LET x == setSubstr(g, name, pos, t)
           IN  /\ KeptAs(e, x) /\ x.contents = g.contents
               /\ DOMAIN x.rep = DOMAIN g.rep
               /\ x.rep[name] = Overwrite(g.rep[name], pos, t)
               /\ x.rep[name] \in Seq(Cell) /\ Len(x.rep[name]) = Len(g.rep[name])
               /\ \A n \in DOMAIN g.rep : n # name => x.rep[n] = g.rep[n]
<1> DEFINE w == Overwrite(g.rep[name], pos, t)
           r == [g.rep EXCEPT ![name] = w]
<1>1. g \in Object /\ g.err = "" /\ KnownSections(e, g)
  BY DEF KeptAs
<1>2. g.rep \in Strings /\ name \in SectionName /\ g.rep[name] \in Seq(Cell)
  BY <1>1, ObjectFields, StringsFields
<1>3. w \in Seq(Cell) /\ Len(w) = Len(g.rep[name])
  BY <1>2, OverwriteTypes
<1>4. Require(g, pos + Len(t) <= Len(g.rep[name])) = g
  BY DEF Require
<1>5. setSubstr(g, name, pos, t) = [g EXCEPT !.rep = r]
  <2>1. setSubstr(g, name, pos, t) = [g EXCEPT !.rep[name] = Overwrite(@, pos, t)]
    BY <1>4 DEF setSubstr
  <2> QED
    BY <2>1
<1> HIDE DEF w
<1>6. r \in Strings
  BY <1>2, <1>3, StringsUpdate
<1>7. /\ DOMAIN r = DOMAIN g.rep /\ r[name] = w
      /\ \A n \in DOMAIN g.rep : n # name => r[n] = g.rep[n]
  BY <1>2, StringsFields
<1> HIDE DEF r
<1>8. DOMAIN r \in SUBSET Replaceable /\ \A n \in DOMAIN r : findSection3(e, n) # 0
  BY <1>1, <1>7 DEF KnownSections
<1>9. LET x == [g EXCEPT !.rep = r]
      IN  KeptAs(e, x) /\ x.rep = r /\ x.contents = g.contents
  BY <1>6, <1>8, NewRep
<1> QED
  BY <1>3, <1>5, <1>7, <1>9 DEF w

LEMMA CStringIs ==
    ASSUME NEW s \in Seq(Character)
    PROVE  CString(s) \in Seq(Cell) /\ Len(CString(s)) = Len(s) + 1
           /\ CString(s)[Len(s) + 1] = Zero
<1>1. Chars(s) \in Seq(Cell) /\ Len(Chars(s)) = Len(s)
  <2>1. \A i \in DOMAIN s : Char(s[i]) \in Cell
    BY CellTypes
  <2> HIDE DEF Cell
  <2> QED
    BY <2>1 DEF Chars
<1>2. CString(s) \in Seq(Cell)
  BY CStringTypes
<1> HIDE DEF Cell
<1> QED
  BY <1>1, <1>2, CellTypes DEF CString

\* The last cell of what was written at the end.
LEMMA LastWritten ==
    ASSUME NEW f \in Seq(Cell), NEW pos \in Nat, NEW t \in Seq(Cell), Len(t) > 0,
           pos + Len(t) = Len(f)
    PROVE  Overwrite(f, pos, t)[Len(f)] = t[Len(t)]
<1> DEFINE b == Len(f) - 1
           w == Overwrite(f, pos, t)
<1>1. w \in Seq(Cell) /\ Len(w) = Len(f)
  BY OverwriteTypes
<1>2. b \in 0 .. Len(f) - 1 /\ b + 1 = Len(f) /\ b - pos \in 0 .. Len(t) - 1
      /\ b - pos + 1 = Len(t) /\ b \in Int
  OBVIOUS
<1> HIDE DEF b
<1>3. At(w, b) = t[b - pos + 1]
  BY <1>2, OverwriteAt
<1> HIDE DEF w
<1>4. At(w, b) = w[Len(f)]
  BY <1>1, <1>2 DEF At
<1> QED
  BY <1>2, <1>3, <1>4 DEF w

\* A string is added.
LEMMA AddStringMakes ==
    ASSUME NEW e, Base(e), NEW g, NEW E, NEW T, State(e, g, E, T),
           NEW added \in Nat, NEW s \in Seq(Character)
    PROVE  \E T2 \in Seq(Cell) :
               /\ State(e, AddString(g, added, s), E, T2)
               /\ DOMAIN AddString(g, added, s).rep = DOMAIN g.rep \cup {".dynstr"}
               /\ Len(T2) = Section(e, ".dynstr").sh_size + added + Len(s) + 1
               /\ T2[Len(T2)] = Zero
<1> DEFINE n == Section(e, ".dynstr").sh_size
           at == n + added
           size == at + Len(s) + 1
           c == CString(s)
           g2 == replaceSection(g, ".dynstr", size)
           x == setSubstr(g2, ".dynstr", at, c)
           F == g2.rep[".dynstr"]
           T2 == Overwrite(F, at, c)
<1>1. e \in Object /\ KeptAs(e, g) /\ E \in Seq(Elf_Dyn) /\ Lists(Held(g, ".dynamic"), E)
      /\ findSection3(e, ".dynstr") # 0 /\ ".dynstr" \in Replaceable
  BY StateIs DEF Base, Replaceable
<1>2. StrSize(g) = n
  BY <1>1, FoundAlike DEF StrSize, KeptAs, SameFrame
<1>3. n \in Nat
  BY BaseFields
<1>4. x = AddString(g, added, s)
  BY <1>2 DEF AddString
<1>5. c \in Seq(Cell) /\ Len(c) = Len(s) + 1 /\ c[Len(c)] = Zero
  BY CStringIs
<1> HIDE DEF c
<1>6. at \in Nat /\ at + Len(c) = size /\ Len(c) > 0 /\ size \in Nat
      /\ size = n + added + Len(s) + 1
  <2>1. Len(s) \in Nat
    OBVIOUS
  <2> DEFINE m == Len(s)
  <2> HIDE DEF n, m
  <2> QED
    BY <1>3, <1>5, <2>1 DEF n, m
<1> HIDE DEF n, at, size
<1>7. /\ KeptAs(e, g2) /\ g2.contents = g.contents
      /\ DOMAIN g2.rep = DOMAIN g.rep \cup {".dynstr"}
      /\ F \in Seq(Cell) /\ Len(F) = size
      /\ \A m \in DOMAIN g.rep : m # ".dynstr" => g2.rep[m] = g.rep[m]
  BY <1>1, <1>6, ReplaceMakes, SMTT(40)
<1>8. ".dynstr" \in DOMAIN g2.rep /\ at + Len(c) <= Len(g2.rep[".dynstr"])
  BY <1>6, <1>7
<1> HIDE DEF g2
<1>9. /\ KeptAs(e, x) /\ x.contents = g2.contents /\ DOMAIN x.rep = DOMAIN g2.rep
      /\ x.rep[".dynstr"] = T2 /\ T2 \in Seq(Cell) /\ Len(T2) = size
      /\ \A m \in DOMAIN g2.rep : m # ".dynstr" => x.rep[m] = g2.rep[m]
  <2>1. /\ KeptAs(e, x) /\ x.contents = g2.contents /\ DOMAIN x.rep = DOMAIN g2.rep
        /\ x.rep[".dynstr"] = T2
        /\ \A m \in DOMAIN g2.rep : m # ".dynstr" => x.rep[m] = g2.rep[m]
    BY <1>5, <1>6, <1>7, <1>8, SubstrMakes
  <2>2. T2 \in Seq(Cell) /\ Len(T2) = Len(F)
    BY <1>5, <1>6, <1>7, OverwriteTypes
  <2> QED
    BY <1>7, <2>1, <2>2
<1>10. T2[Len(T2)] = Zero
  <2>1. T2[Len(F)] = c[Len(c)]
    <3>1. at + Len(c) = Len(F) /\ F \in Seq(Cell) /\ at \in Nat /\ Len(c) > 0 /\ c \in Seq(Cell)
      BY <1>5, <1>6, <1>7
    <3> HIDE DEF F
    <3>2. Overwrite(F, at, c)[Len(F)] = c[Len(c)]
      BY ONLY <3>1, LastWritten
    <3> QED
      BY <3>2
  <2> QED
    BY <1>5, <1>7, <1>9, <2>1
<1> HIDE DEF x, F, T2
<1>11. Held(x, ".dynstr") = T2 /\ Held(x, ".dynamic") = Held(g, ".dynamic")
  <2>1. Held(x, ".dynstr") = T2
    BY <1>7, <1>9 DEF Held
  <2>2. Section(x, ".dynamic") = Section(g, ".dynamic")
    BY <1>1, <1>9, FoundAlike, ZenonT(60) DEF KeptAs, SameFrame
  <2> QED
    BY <1>7, <1>9, <2>1, <2>2 DEF Held
<1>12. State(e, x, E, T2)
  BY <1>1, <1>9, <1>11, StateIs
<1>13. Len(T2) = n + added + Len(s) + 1 /\ DOMAIN x.rep = DOMAIN g.rep \cup {".dynstr"}
  BY <1>6, <1>7, <1>9
<1> QED
  BY <1>4, <1>9, <1>10, <1>12, <1>13 DEF n

\* The dynamic section holds F now, and the rest is as it was.
LEMMA DynamicReplaced ==
    ASSUME NEW e, NEW g, NEW E, NEW T, State(e, g, E, T),
           NEW x, KeptAs(e, x), x.contents = g.contents,
           DOMAIN x.rep = DOMAIN g.rep \cup {".dynamic"},
           \A n \in DOMAIN g.rep : n # ".dynamic" => x.rep[n] = g.rep[n],
           NEW E2 \in Seq(Elf_Dyn), Lists(x.rep[".dynamic"], E2)
    PROVE  State(e, x, E2, T)
<1>1. KeptAs(e, g) /\ T \in Seq(Cell) /\ Held(g, ".dynstr") = T
  BY StateIs
<1>2. Section(x, ".dynstr") = Section(g, ".dynstr")
  <2>1. x.hdr = g.hdr /\ x.shdrs = g.shdrs
    BY <1>1 DEF KeptAs, SameFrame
  <2> QED
    BY <2>1, FoundAlike
<1>3. Held(x, ".dynstr") = T
  <2>1. ".dynstr" \in DOMAIN x.rep <=> ".dynstr" \in DOMAIN g.rep
    OBVIOUS
  <2>2. ".dynstr" \in DOMAIN g.rep => x.rep[".dynstr"] = g.rep[".dynstr"]
    OBVIOUS
  <2> QED
    BY <1>1, <1>2, <2>1, <2>2 DEF Held
<1>4. Held(x, ".dynamic") = x.rep[".dynamic"]
  BY DEF Held
<1> QED
  BY <1>1, <1>3, <1>4, StateIs

\* New entries are put on top of the others.
LEMMA AddEntriesMakes ==
    ASSUME NEW e, Base(e), NEW g, NEW E, NEW T, State(e, g, E, T),
           ".dynamic" \notin DOMAIN g.rep,
           NEW new \in Seq(Elf_Dyn), \A k \in DOMAIN new : new[k].d_tag # "DT_NULL"
    PROVE  State(e, AddEntries(g, new), new \o E, T)
<1> DEFINE D == Held(g, ".dynamic")
           room == Len(new) * Word
           size == Section(e, ".dynamic").sh_size + room
           R == Resize(D, Len(D) + room)
           shifted == SubSeq(R, 1, Word * (Len(E) + 1))
           top == FlattenSeq([i \in DOMAIN new |-> Struct(new[i])])
           g1 == replaceSection(g, ".dynamic", size)
           g2 == setSubstr(g1, ".dynamic", room, shifted)
           x == setSubstr(g2, ".dynamic", 0, top)
           F == Overwrite(Overwrite(R, room, shifted), 0, top)
<1>1. /\ KeptAs(e, g) /\ E \in Seq(Elf_Dyn) /\ Lists(D, E) /\ g \in Object /\ SameFrame(e, g)
      /\ e \in Object /\ findSection3(e, ".dynamic") # 0 /\ ".dynamic" \in Replaceable
  <2>1. KeptAs(e, g) /\ E \in Seq(Elf_Dyn) /\ Lists(D, E)
    BY StateIs
  <2> QED
    BY <2>1 DEF KeptAs, Base, Replaceable
<1>2. D \in Seq(Cell) /\ Len(D) = Section(e, ".dynamic").sh_size
  BY <1>1, HeldInFile
<1> HIDE DEF D
<1>3. /\ EntriesAt(R, 0) = E
      /\ shifted \in Seq(Cell) /\ room + Len(shifted) <= Len(R)
      /\ top \in Seq(Cell) /\ Len(top) = room /\ room \in Nat
      /\ Lists(F, new \o E)
  BY <1>1, <1>2, ListsAdd
<1>4. size = Len(D) + room /\ size \in Nat
  <2>1. Len(D) \in Nat
    BY <1>2
  <2> HIDE DEF room
  <2> QED
    BY <1>2, <1>3, <2>1
<1>5. Section(g, ".dynamic").sh_size = Section(e, ".dynamic").sh_size
  BY <1>1, FoundAlike DEF SameFrame
<1> HIDE DEF room, size, shifted, top
<1>6. /\ KeptAs(e, g1) /\ g1.contents = g.contents
      /\ DOMAIN g1.rep = DOMAIN g.rep \cup {".dynamic"}
      /\ g1.rep[".dynamic"] = R
      /\ R \in Seq(Cell) /\ Len(R) = size
      /\ \A n \in DOMAIN g.rep : n # ".dynamic" => g1.rep[n] = g.rep[n]
  <2> HIDE DEF g1
  <2>1. /\ KeptAs(e, g1) /\ g1.contents = g.contents
        /\ DOMAIN g1.rep = DOMAIN g.rep \cup {".dynamic"}
        /\ g1.rep[".dynamic"] = Resize(Held(g, ".dynamic"), size)
        /\ g1.rep[".dynamic"] \in Seq(Cell) /\ Len(g1.rep[".dynamic"]) = size
        /\ \A n \in DOMAIN g.rep : n # ".dynamic" => g1.rep[n] = g.rep[n]
    BY <1>1, <1>4, ReplaceMakes DEF g1
  <2>2. g1.rep[".dynamic"] = R
    BY <1>4, <2>1 DEF D
  <2> HIDE DEF R
  <2> QED
    BY <2>1, <2>2
<1>7. AddEntries(g, new) = x
  <2>1. g1.err = ""
    BY <1>6 DEF KeptAs
  <2>2. replaceSection(g, ".dynamic", Section(g, ".dynamic").sh_size + Len(new) * Word) = g1
    BY <1>5 DEF size, room
  <2>3. SubSeq(g1.rep[".dynamic"], 1, Word * (Len(EntriesAt(g1.rep[".dynamic"], 0)) + 1))
            = shifted
    BY <1>3, <1>6 DEF shifted
  <2> HIDE DEF g1
  <2> QED
    BY <2>1, <2>2, <2>3 DEF AddEntries, room, top
<1> HIDE DEF g1, R
<1>8. /\ KeptAs(e, g2) /\ g2.contents = g1.contents /\ DOMAIN g2.rep = DOMAIN g1.rep
      /\ g2.rep[".dynamic"] = Overwrite(R, room, shifted)
      /\ g2.rep[".dynamic"] \in Seq(Cell) /\ Len(g2.rep[".dynamic"]) = size
      /\ \A n \in DOMAIN g1.rep : n # ".dynamic" => g2.rep[n] = g1.rep[n]
  <2>1. ".dynamic" \in DOMAIN g1.rep /\ room + Len(shifted) <= Len(g1.rep[".dynamic"])
    BY <1>3, <1>6
  <2> QED
    BY <1>3, <1>6, <2>1, SubstrMakes
<1> HIDE DEF g2
<1>9. /\ KeptAs(e, x) /\ x.contents = g2.contents /\ DOMAIN x.rep = DOMAIN g2.rep
      /\ x.rep[".dynamic"] = F
      /\ \A n \in DOMAIN g2.rep : n # ".dynamic" => x.rep[n] = g2.rep[n]
  <2>1. ".dynamic" \in DOMAIN g2.rep /\ 0 + Len(top) <= Len(g2.rep[".dynamic"]) /\ 0 \in Nat
    <3>1. room <= size
      <4>1. Len(D) \in Nat
        BY <1>2
      <4> QED
        BY <1>3, <1>4, <4>1
    <3> QED
      BY <1>3, <1>6, <1>8, <3>1
  <2>2. /\ KeptAs(e, x) /\ x.contents = g2.contents /\ DOMAIN x.rep = DOMAIN g2.rep
        /\ x.rep[".dynamic"] = Overwrite(g2.rep[".dynamic"], 0, top)
        /\ \A n \in DOMAIN g2.rep : n # ".dynamic" => x.rep[n] = g2.rep[n]
    BY <1>3, <1>8, <2>1, SubstrMakes
  <2> QED
    BY <1>8, <2>2
<1> HIDE DEF x, F
<1>10. x.contents = g.contents /\ DOMAIN x.rep = DOMAIN g.rep \cup {".dynamic"}
       /\ \A n \in DOMAIN g.rep : n # ".dynamic" => x.rep[n] = g.rep[n]
  BY <1>6, <1>8, <1>9
<1>11. new \o E \in Seq(Elf_Dyn)
  <2>1. E \in Seq(Elf_Dyn)
    BY <1>1
  <2> QED
    BY <2>1, ConcatProperties
<1>12. State(e, x, new \o E, T)
  BY <1>3, <1>9, <1>10, <1>11, DynamicReplaced
<1> QED
  BY <1>7, <1>12

\* What is read in the file is what .dynamic holds.
LEMMA EntriesNow ==
    ASSUME NEW e, Base(e), NEW g, NEW E, NEW T, State(e, g, E, T),
           ".dynamic" \notin DOMAIN g.rep
    PROVE  Entries(g) = E /\ Section(g, ".dynamic") = Section(e, ".dynamic")
<1> DEFINE D == Held(g, ".dynamic")
           s == Section(e, ".dynamic")
<1>1. g \in Object /\ SameFrame(e, g) /\ E \in Seq(Elf_Dyn) /\ Lists(D, E)
  BY DEF State
<1>2. D = Slice(g.contents, s.sh_offset, s.sh_size) /\ D \in Seq(Cell) /\ Len(D) = s.sh_size
  BY <1>1, HeldInFile
<1>3. s.sh_offset \in Nat /\ s.sh_size \in Nat /\ s.sh_offset + s.sh_size <= Len(e.contents)
  BY BaseFields
<1>4. Section(g, ".dynamic") = s
  BY <1>1, FoundAlike DEF SameFrame
<1>5. g.contents \in Seq(Cell) /\ Len(g.contents) = Len(e.contents)
  BY <1>1, ObjectFields DEF SameFrame
<1> HIDE DEF D, s
<1>6. Agree(g.contents, s.sh_offset, D, 0, Len(D))
  <2> SUFFICES ASSUME NEW i \in 0 .. Len(D) - 1
               PROVE  At(g.contents, s.sh_offset + i) = At(D, 0 + i)
    BY DEF Agree
  <2>1. i \in 0 .. s.sh_size - 1 /\ 0 + i = i /\ i \in Int
    BY <1>2, <1>3
  <2> QED
    BY <1>2, <1>3, <1>5, <2>1, SliceAt
<1>7. Len(D) <= Len(g.contents) /\ s.sh_offset \in Int
  <2>1. Len(g.contents) \in Nat
    BY <1>5
  <2> QED
    BY <1>2, <1>3, <1>5, <2>1
<1>8. EntriesAt(g.contents, s.sh_offset) = E
  BY <1>1, <1>2, <1>5, <1>6, <1>7, EntriesRead
<1> QED
  BY <1>4, <1>8 DEF Entries, s

\* Whether there is a change.
LEMMA ChangedMakes ==
    ASSUME NEW e, NEW g, NEW E, NEW T, State(e, g, E, T), NEW b \in BOOLEAN
    PROVE  State(e, [g EXCEPT !.changed = b], E, T) /\ [g EXCEPT !.changed = b].rep = g.rep
<1> DEFINE x == [g EXCEPT !.changed = b]
<1>1. /\ g \in Object /\ g.err = "" /\ SameFrame(e, g) /\ Untouched(e, g)
      /\ KnownSections(e, g) /\ E \in Seq(Elf_Dyn) /\ T \in Seq(Cell)
      /\ Lists(Held(g, ".dynamic"), E) /\ Held(g, ".dynstr") = T
  BY DEF State
<1>2. x \in Object
  BY <1>1, ObjectUpdates
<1>3. SameFrame(g, x)
  BY <1>1, FrameOf
<1>4. x.err = g.err /\ x.rep = g.rep /\ x.contents = g.contents
      /\ x.hdr = g.hdr /\ x.shdrs = g.shdrs
  <2>1. x.err = g.err
    BY <1>1 DEF Object, Elf_Object
  <2>2. x.rep = g.rep /\ x.contents = g.contents
    BY <1>1 DEF Object, Elf_Object
  <2>3. x.hdr = g.hdr /\ x.shdrs = g.shdrs
    BY <1>1 DEF Object, Elf_Object
  <2> QED
    BY <2>1, <2>2, <2>3
<1> HIDE DEF x
<1>5. SameFrame(e, x) /\ Untouched(e, x) /\ KnownSections(e, x)
  BY <1>1, <1>3, <1>4, FrameTrans DEF Untouched, KnownSections
<1>6. \A n : Held(x, n) = Held(g, n)
  <2>1. \A n : Section(x, n) = Section(g, n)
    BY <1>4, FoundAlike
  <2> QED
    BY <1>4, <2>1 DEF Held
<1>7. State(e, x, E, T)
  <2>1. Held(x, ".dynamic") = Held(g, ".dynamic") /\ Held(x, ".dynstr") = T
    BY <1>1, <1>6
  <2> QED
    BY <1>1, <1>2, <1>4, <1>5, <2>1 DEF State
<1> QED
  BY <1>4, <1>7 DEF x

\* Entries that were kept.
KeptOf(kept, q) ==
    /\ kept \in Seq(Elf_Dyn) /\ Len(kept) <= Len(q)
    /\ \A k \in DOMAIN kept : \E i \in DOMAIN q : kept[k] = q[i]

LEMMA KeptChain ==
    ASSUME NEW q \in Seq(Elf_Dyn), NEW K,
           NEW h, LeftRuns(h, Len(q), <<>>,
                           [i \in Indices(Len(q)) |->
                                [a \in Seq(Elf_Dyn) |-> IF i \in K THEN Append(a, q[i]) ELSE a]],
                           Seq(Elf_Dyn))
    PROVE  KeptOf(h[Indices(Len(q))], q)
<1> DEFINE n == Len(q)
           A == Seq(Elf_Dyn)
           Step == [i \in Indices(n) |-> [a \in A |-> IF i \in K THEN Append(a, q[i]) ELSE a]]
<1>1. n \in Nat /\ DOMAIN q = 1 .. n
  BY LenProperties
<1>2. ASSUME NEW i \in Indices(n), NEW a \in A
      PROVE  /\ Step[i][a] = IF i \in K THEN Append(a, q[i]) ELSE a
             /\ Append(a, q[i]) \in A /\ Step[i][a] \in A
             /\ Len(Append(a, q[i])) = Len(a) + 1 /\ Append(a, q[i])[Len(a) + 1] = q[i]
             /\ \A k \in 1 .. Len(a) : Append(a, q[i])[k] = a[k]
  <2>1. Step[i][a] = IF i \in K THEN Append(a, q[i]) ELSE a
    OBVIOUS
  <2>2. q[i] \in Elf_Dyn
    BY <1>1 DEF Indices
  <2>3. /\ Append(a, q[i]) \in A
        /\ Len(Append(a, q[i])) = Len(a) + 1 /\ Append(a, q[i])[Len(a) + 1] = q[i]
        /\ \A k \in 1 .. Len(a) : Append(a, q[i])[k] = a[k]
    BY <2>2, AppendProperties
  <2>4. Step[i][a] \in A
    <3> HIDE DEF Step, A
    <3> QED
      BY <2>1, <2>3
  <2> HIDE DEF Step, A
  <2> QED
    BY <2>1, <2>3, <2>4
<1>3. <<>> \in A
  OBVIOUS
<1> HIDE DEF n, A, Step
<1>4. LeftRuns(h, n, <<>>, Step, A)
  BY DEF n, A, Step
<1>5. PICK st : Chain(st, n, <<>>, Step, A) /\ st[n] = h[Indices(n)]
  <2>1. \A i \in Indices(n) : \A a \in A : Step[i][a] \in A
    BY <1>2
  <2> QED
    BY <1>1, <1>3, <1>4, <2>1, ChainOf, ZenonT(60)
<1> DEFINE Good(k) == /\ st[k] \in Seq(Elf_Dyn) /\ Len(st[k]) <= k
                      /\ \A j \in 1 .. Len(st[k]) : \E i \in DOMAIN q : st[k][j] = q[i]
           T == {k \in 0 .. n : Good(k)}
<1>6. 0 \in T
  <2>1. st[0] = <<>>
    BY <1>5 DEF Chain
  <2>2. Len(st[0]) = 0 /\ st[0] \in Seq(Elf_Dyn)
    BY <2>1
  <2> QED
    BY <1>1, <2>2
<1>7. ASSUME NEW k \in 1 .. n, k - 1 \in T PROVE k \in T
  <2> DEFINE a == st[k - 1]
             b == st[k]
  <2>1. a \in A /\ b = Step[k][a] /\ k \in Indices(n) /\ k - 1 \in 0 .. n
    BY <1>1, <1>5 DEF Chain, Indices
  <2>2. Good(k - 1)
    BY <1>7
  <2>3. Len(a) \in Nat /\ Len(a) <= k - 1
        /\ \A j \in 1 .. Len(a) : \E i \in DOMAIN q : a[j] = q[i]
    BY <2>2
  <2> HIDE DEF a, b
  <2>4. b \in Seq(Elf_Dyn) /\ Len(b) <= k /\ \A j \in 1 .. Len(b) : \E i \in DOMAIN q : b[j] = q[i]
    <3>1. CASE k \in K
      <4> DEFINE c == Append(a, q[k])
      <4>1. b = c /\ c \in A /\ Len(c) = Len(a) + 1 /\ c[Len(a) + 1] = q[k]
            /\ \A j \in 1 .. Len(a) : c[j] = a[j]
        BY <1>2, <2>1, <3>1
      <4> HIDE DEF c
      <4>2. Len(b) <= k
        BY <2>3, <4>1
      <4>3. ASSUME NEW j \in 1 .. Len(b) PROVE \E i \in DOMAIN q : b[j] = q[i]
        <5>1. j = Len(a) + 1 \/ j \in 1 .. Len(a)
          BY <2>3, <4>1
        <5>2. k \in DOMAIN q
          BY <1>1
        <5> QED
          BY <2>3, <4>1, <5>1, <5>2
      <4> QED
        BY <4>1, <4>2, <4>3 DEF A
    <3>2. CASE k \notin K
      <4>1. b = a
        BY <1>2, <2>1, <3>2
      <4> QED
        BY <2>1, <2>3, <4>1 DEF A
    <3> QED
      BY <3>1, <3>2
  <2> QED
    BY <2>4 DEF b
<1> HIDE DEF T
<1>8. \A k \in 0 .. n : k \in T
  BY <1>1, <1>6, <1>7, UpTo
<1>9. Good(n)
  BY <1>1, <1>8 DEF T
<1> DEFINE r == st[n]
<1>10. r \in Seq(Elf_Dyn) /\ Len(r) <= n /\ \A j \in 1 .. Len(r) : \E i \in DOMAIN q : r[j] = q[i]
  BY <1>9
<1> HIDE DEF r
<1>11. KeptOf(r, q)
  BY <1>10 DEF KeptOf, n
<1> QED
  BY <1>5, <1>11 DEF n, r

\* The entries that removeRPath keeps.
LEMMA PathsRemoved ==
    ASSUME NEW e, NEW entries \in Seq(Elf_Dyn)
    PROVE  KeptOf(Selected(entries, LAMBDA d : d.d_tag \notin {"DT_RPATH", "DT_RUNPATH"}), entries)
<1> DEFINE q == entries
           n == Len(q)
           A == Seq(Elf_Dyn)
           base == <<>>
           keep(d) == d.d_tag \notin {"DT_RPATH", "DT_RUNPATH"}
           K == {i \in Indices(n) : keep(q[i])}
           op(a, i) == IF keep(q[i]) THEN Append(a, q[i]) ELSE a
<1>1. n \in Nat /\ DOMAIN q = Indices(n)
  BY LenProperties DEF Indices
<1>2. base \in A
  OBVIOUS
<1>3. \A i \in Indices(n) : \A a \in A : op(a, i) \in A
  <2> SUFFICES ASSUME NEW i \in Indices(n), NEW a \in A PROVE op(a, i) \in A
    OBVIOUS
  <2>1. q[i] \in Elf_Dyn
    BY <1>1
  <2>2. Append(a, q[i]) \in A
    BY <2>1, AppendProperties
  <2> HIDE DEF keep, A
  <2> QED
    BY <2>2
<1> DEFINE Step == [i \in Indices(n) |-> [a \in A |-> op(a, i)]]
           StepK == [i \in Indices(n) |-> [a \in A |-> IF i \in K THEN Append(a, q[i]) ELSE a]]
           body(h) == [t \in SUBSET DOMAIN q |->
                           IF t = {} THEN base ELSE op(h[t \ {Max(t)}], Max(t))]
           h == CHOOSE h : h = body(h)
<1>9. \A i \in Indices(n) : \A a \in A : StepK[i][a] = op(a, i)
  <2> HIDE DEF n, A, keep
  <2> QED
    OBVIOUS
<1> HIDE DEF n, A, base, op, q
<1>4. PICK g : /\ LeftFolds(g, n, base, Step)
               /\ \A t \in SUBSET Indices(n) : g[t] \in A
  <2>1. \A i \in Indices(n) : \A a \in A : Step[i][a] \in A
    BY <1>3
  <2> HIDE DEF Step
  <2> QED
    BY <1>1, <1>2, <2>1, LeftFold
<1>5. \A t \in SUBSET Indices(n) : t # {} => Max(t) \in Indices(n)
  BY <1>1, LastIn
<1>6. h = body(h)
  <2>1. g = body(g)
    BY <1>1, <1>4, <1>5 DEF LeftFolds
  <2> HIDE DEF body
  <2> QED
    BY <2>1
<1>7. LeftRuns(h, n, base, StepK, A)
  <2> HIDE DEF h, StepK
  <2> QED
    BY <1>1, <1>5, <1>6, <1>9 DEF LeftRuns
<1>8. Selected(entries, keep) = h[DOMAIN q]
  BY DEF Selected, FoldLeft, MapThenFoldSet, q, base, op
<1>10. KeptOf(h[Indices(n)], q)
  <2> HIDE DEF h, K
  <2>1. q \in Seq(Elf_Dyn)
    BY DEF q
  <2> QED
    BY <1>7, <2>1, KeptChain DEF n, A, base
<1> HIDE DEF h
<1> QED
  BY <1>1, <1>8, <1>10 DEF q

\* What Compact leaves, given the entries that it keeps.
LEMMA CompactMakes ==
    ASSUME NEW e, Base(e), NEW g, NEW E, NEW T, State(e, g, E, T),
           ".dynamic" \notin DOMAIN g.rep, NEW kept, KeptOf(kept, E)
    PROVE  LET gone == Len(Entries(g)) - Len(kept)
               x == [g EXCEPT
                        !.contents = Overwrite(@, Section(g, ".dynamic").sh_offset,
                                         FlattenSeq([i \in DOMAIN kept |-> Struct(kept[i])])
                                             \o Zeros(gone * Word)),
                        !.changed = @ \/ gone > 0]
           IN  State(e, x, kept, T) /\ x.rep = g.rep
<1> DEFINE gone == Len(Entries(g)) - Len(kept)
           D == Held(g, ".dynamic")
           o == Section(g, ".dynamic").sh_offset
           s == FlattenSeq([i \in DOMAIN kept |-> Struct(kept[i])]) \o Zeros(gone * Word)
           x == [g EXCEPT !.contents = Overwrite(@, o + 0, s)]
           y == [g EXCEPT !.contents = Overwrite(@, o, s)]
           b == g.changed \/ gone > 0
<1>1. g \in Object /\ SameFrame(e, g) /\ E \in Seq(Elf_Dyn) /\ Lists(D, E)
  BY DEF State
<1>2. D \in Seq(Cell) /\ Len(D) = Section(e, ".dynamic").sh_size
  BY <1>1, HeldInFile
<1>3. kept \in Seq(Elf_Dyn) /\ Len(kept) <= Len(E)
      /\ \A k \in DOMAIN kept : kept[k].d_tag # "DT_NULL"
  <2>1. \A i \in DOMAIN E : E[i].d_tag # "DT_NULL"
    <3>1. \A i \in 1 .. Len(E) : E[i].d_tag # "DT_NULL"
      BY <1>1, <1>2, ListsFields
    <3> QED
      BY <1>1, <3>1
  <2> QED
    BY <2>1 DEF KeptOf
<1>4. Entries(g) = E
  BY EntriesNow
<1> HIDE DEF D
<1>5. s \in Seq(Cell) /\ Len(s) = Len(E) * Word /\ Lists(Overwrite(D, 0, s), kept)
  BY <1>1, <1>2, <1>3, <1>4, ListsCompact
<1>6. 0 + Len(s) <= Section(e, ".dynamic").sh_size /\ 0 \in Nat
  <2> DEFINE m == Len(E) * Word
             l == (Len(E) + 1) * Word
  <2>1. l <= Len(D) /\ l = m + Word /\ m \in Nat /\ l \in Nat
    BY <1>1, <1>2, ListsFields
  <2>2. Len(s) = m /\ Len(D) \in Nat
    BY <1>2, <1>5
  <2> HIDE DEF m, l
  <2> QED
    BY <1>2, <2>1, <2>2, ElfAssumption
<1> HIDE DEF s
<1>7. State(e, x, kept, T) /\ x.rep = g.rep
  <2>1. s \in Seq(Cell) /\ kept \in Seq(Elf_Dyn) /\ Lists(Overwrite(Held(g, ".dynamic"), 0, s), kept)
    BY <1>3, <1>5 DEF D
  <2> HIDE DEF gone
  <2> DEFINE k == 0
  <2>2. /\ k \in Nat /\ k + Len(s) <= Section(e, ".dynamic").sh_size
        /\ Lists(Overwrite(Held(g, ".dynamic"), k, s), kept)
    BY <1>6, <2>1
  <2>3. LET z == [g EXCEPT !.contents = Overwrite(@, Section(g, ".dynamic").sh_offset + k, s)]
        IN  State(e, z, kept, T) /\ z.rep = g.rep
    <3> HIDE DEF k
    <3> QED
      BY <2>1, <2>2, DynamicWritten
  <2> QED
    BY <2>3
<1>8. x = y
  <2>1. o \in Int
    BY <1>1, FindSectionTypes, SectionFields
  <2>2. o + 0 = o
    BY <2>1
  <2> HIDE DEF o
  <2> QED
    BY <2>2
<1>9. b \in BOOLEAN
  OBVIOUS
<1>10. y.changed = g.changed
  BY <1>1, OtherFields
<1> HIDE DEF x, b
<1>11. State(e, [y EXCEPT !.changed = b], kept, T) /\ [y EXCEPT !.changed = b].rep = g.rep
  <2> HIDE DEF y
  <2> QED
    BY <1>7, <1>8, <1>9, ChangedMakes
<1>12. [g EXCEPT !.contents = Overwrite(@, o, s), !.changed = b] = [y EXCEPT !.changed = b]
  OBVIOUS
<1> HIDE DEF y
<1> QED
  BY <1>11, <1>12 DEF gone, o, s, b

\* What an entry says of the strings in T.
EntryOk(d, T, addr) ==
    /\ d.d_tag \in {"DT_SONAME", "DT_RPATH", "DT_RUNPATH"} => d.d_val < Len(T)
    /\ d.d_tag = "DT_STRTAB" => d.d_val = addr

LEMMA StringsKept ==
    ASSUME NEW E, NEW T, NEW addr, StringsIn(E, T, addr)
    PROVE  /\ Len(T) > 0 /\ T[Len(T)] = Zero /\ \A k \in DOMAIN E : EntryOk(E[k], T, addr)
           /\ \A T2 \in Seq(Cell) : T \in Seq(Cell) /\ Len(T2) >= Len(T) /\ T2[Len(T2)] = Zero
                  /\ E \in Seq(Elf_Dyn) => StringsIn(E, T2, addr)
           /\ \A i \in DOMAIN E : \A d : EntryOk(d, T, addr)
                                             => StringsIn([E EXCEPT ![i] = d], T, addr)
           /\ \A kept : KeptOf(kept, E) => StringsIn(kept, T, addr)
<1>1. /\ Len(T) > 0 /\ T[Len(T)] = Zero /\ \A k \in DOMAIN E : EntryOk(E[k], T, addr)
  BY DEF StringsIn, EntryOk
<1>2. ASSUME NEW T2 \in Seq(Cell), T \in Seq(Cell), Len(T2) >= Len(T), T2[Len(T2)] = Zero,
             E \in Seq(Elf_Dyn)
      PROVE  StringsIn(E, T2, addr)
  <2>1. Len(T) \in Nat /\ Len(T2) \in Nat
    BY <1>2
  <2>2. \A k \in DOMAIN E : E[k].d_val \in Nat
    <3>1. \A k \in DOMAIN E : E[k] \in Elf_Dyn
      BY <1>2
    <3> QED
      BY <3>1, DynUpdates
  <2>3. Len(T2) > 0
    BY <1>1, <1>2, <2>1
  <2>4. ASSUME NEW k \in DOMAIN E
        PROVE  /\ E[k].d_tag \in {"DT_SONAME", "DT_RPATH", "DT_RUNPATH"} => E[k].d_val < Len(T2)
               /\ E[k].d_tag = "DT_STRTAB" => E[k].d_val = addr
    BY <1>1, <1>2, <2>1, <2>2 DEF EntryOk
  <2> QED
    BY <1>2, <2>3, <2>4 DEF StringsIn
<1>3. ASSUME NEW i \in DOMAIN E, NEW d, EntryOk(d, T, addr)
      PROVE  StringsIn([E EXCEPT ![i] = d], T, addr)
  <2> DEFINE G == [E EXCEPT ![i] = d]
  <2>1. \A k \in DOMAIN G : EntryOk(G[k], T, addr)
    BY <1>1, <1>3
  <2> HIDE DEF G
  <2>2. StringsIn(G, T, addr)
    BY <1>1, <2>1 DEF StringsIn, EntryOk
  <2> QED
    BY <2>2 DEF G
<1>4. ASSUME NEW kept, KeptOf(kept, E) PROVE StringsIn(kept, T, addr)
  <2>1. \A k \in DOMAIN kept : EntryOk(kept[k], T, addr)
    BY <1>1, <1>4 DEF KeptOf
  <2> QED
    BY <1>1, <2>1 DEF StringsIn, EntryOk
<1> QED
  BY <1>1, <1>2, <1>3, <1>4

LEMMA StringsAdd ==
    ASSUME NEW E \in Seq(Elf_Dyn), NEW T, NEW addr, StringsIn(E, T, addr),
           NEW new \in Seq(Elf_Dyn), \A k \in DOMAIN new : EntryOk(new[k], T, addr)
    PROVE  StringsIn(new \o E, T, addr)
<1> DEFINE G == new \o E
<1>1. /\ Len(G) = Len(new) + Len(E) /\ Len(new) \in Nat /\ Len(E) \in Nat
      /\ \A i \in 1 .. Len(new) : G[i] = new[i]
      /\ \A i \in Len(new) + 1 .. Len(new) + Len(E) : G[i] = E[i - Len(new)]
      /\ G \in Seq(Elf_Dyn)
  BY ConcatProperties
<1>2. DOMAIN G = 1 .. Len(new) + Len(E) /\ DOMAIN E = 1 .. Len(E) /\ DOMAIN new = 1 .. Len(new)
  BY <1>1
<1> HIDE DEF G
<1>3. ASSUME NEW k \in DOMAIN G PROVE EntryOk(G[k], T, addr)
  <2>1. CASE k \in 1 .. Len(new)
    BY <1>1, <1>2, <2>1
  <2>2. CASE k \notin 1 .. Len(new)
    <3>1. k \in Len(new) + 1 .. Len(new) + Len(E) /\ k - Len(new) \in DOMAIN E
      BY <1>1, <1>2, <2>2
    <3> QED
      BY <1>1, <3>1, StringsKept
  <2> QED
    BY <2>1, <2>2
<1>4. StringsIn(G, T, addr)
  BY <1>3, StringsKept DEF StringsIn, EntryOk
<1> QED
  BY <1>4 DEF G

\* The state of an object whose dynamic section is consistent.
Good(e, g, E, T) ==
    State(e, g, E, T) /\ StringsIn(E, T, Section(e, ".dynstr").sh_addr)

LEMMA GoodFields ==
    ASSUME NEW e, Base(e), NEW g, NEW E, NEW T, Good(e, g, E, T)
    PROVE  /\ State(e, g, E, T) /\ E \in Seq(Elf_Dyn) /\ T \in Seq(Cell) /\ g \in Object
           /\ T[Len(T)] = Zero /\ Len(T) > 0 /\ Len(T) \in Nat
           /\ \A k \in DOMAIN E : /\ EntryOk(E[k], T, Section(e, ".dynstr").sh_addr)
                                  /\ E[k] \in Elf_Dyn /\ E[k].d_val \in Nat
                                  /\ E[k].d_tag # "DT_NULL"
           /\ ".dynstr" \notin DOMAIN g.rep => Len(T) = Section(e, ".dynstr").sh_size
<1>1. /\ State(e, g, E, T) /\ g \in Object /\ SameFrame(e, g) /\ E \in Seq(Elf_Dyn)
      /\ T \in Seq(Cell) /\ Lists(Held(g, ".dynamic"), E) /\ Held(g, ".dynstr") = T
  BY DEF Good, State
<1>2. T[Len(T)] = Zero /\ Len(T) > 0 /\ \A k \in DOMAIN E : EntryOk(E[k], T, Section(e, ".dynstr").sh_addr)
  BY StringsKept DEF Good
<1>3. ".dynstr" \notin DOMAIN g.rep => Len(T) = Section(e, ".dynstr").sh_size
  BY <1>1, HeldInFile
<1>4. \A k \in DOMAIN E : E[k] \in Elf_Dyn /\ E[k].d_val \in Nat
  <2>1. \A k \in DOMAIN E : E[k] \in Elf_Dyn
    BY <1>1
  <2> QED
    BY <2>1, DynUpdates
<1>5. \A k \in DOMAIN E : E[k].d_tag # "DT_NULL"
  <2>1. Held(g, ".dynamic") \in Seq(Cell)
    <3>1. ".dynamic" \in SectionName
      BY NamesTypes
    <3> QED
      BY <1>1, <3>1, HeldTypes
  <2>2. \A k \in 1 .. Len(E) : E[k].d_tag # "DT_NULL"
    BY <1>1, <2>1, ListsFields
  <2>3. DOMAIN E = 1 .. Len(E)
    BY <1>1
  <2> QED
    BY <2>2, <2>3
<1>6. Len(T) \in Nat
  BY <1>1
<1> QED
  BY <1>1, <1>2, <1>3, <1>4, <1>5, <1>6

LEMMA GoodWipe ==
    ASSUME NEW e, Base(e), NEW g, NEW E, NEW T, Good(e, g, E, T),
           ".dynstr" \notin DOMAIN g.rep, NEW i \in DOMAIN E,
           E[i].d_tag \in {"DT_SONAME", "DT_RPATH", "DT_RUNPATH"}
    PROVE  \E T2 : /\ Good(e, WipeString(g, E[i].d_val), E, T2) /\ Len(T2) = Len(T)
                   /\ WipeString(g, E[i].d_val).rep = g.rep
<1> DEFINE val == E[i].d_val
           addr == Section(e, ".dynstr").sh_addr
<1>1. State(e, g, E, T) /\ T[Len(T)] = Zero /\ val \in Nat /\ val < Len(T)
      /\ E \in Seq(Elf_Dyn) /\ T \in Seq(Cell)
  BY GoodFields DEF EntryOk
<1> HIDE DEF val
<1>2. PICK T2 \in Seq(Cell) :
          /\ State(e, WipeString(g, val), E, T2) /\ WipeString(g, val).rep = g.rep
          /\ Len(T2) = Len(T) /\ T2[Len(T2)] = Zero
  BY <1>1, WipeStringMakes
<1>3. StringsIn(E, T2, addr)
  <2>1. StringsIn(E, T, addr)
    BY DEF Good
  <2>2. Len(T2) >= Len(T)
    BY <1>1, <1>2
  <2> QED
    BY <1>1, <1>2, <2>1, <2>2, StringsKept
<1> QED
  BY <1>2, <1>3 DEF Good, val

LEMMA GoodAddString ==
    ASSUME NEW e, Base(e), NEW g, NEW E, NEW T, Good(e, g, E, T),
           NEW added \in Nat, NEW s \in Seq(Character),
           Len(T) <= Section(e, ".dynstr").sh_size + added
    PROVE  \E T2 : /\ Good(e, AddString(g, added, s), E, T2)
                   /\ DOMAIN AddString(g, added, s).rep = DOMAIN g.rep \cup {".dynstr"}
                   /\ Len(T2) = Section(e, ".dynstr").sh_size + added + Len(s) + 1
<1> DEFINE addr == Section(e, ".dynstr").sh_addr
           n == Section(e, ".dynstr").sh_size
<1>1. State(e, g, E, T) /\ E \in Seq(Elf_Dyn) /\ T \in Seq(Cell)
  BY GoodFields
<1>2. PICK T2 \in Seq(Cell) :
               /\ State(e, AddString(g, added, s), E, T2)
               /\ DOMAIN AddString(g, added, s).rep = DOMAIN g.rep \cup {".dynstr"}
               /\ Len(T2) = n + added + Len(s) + 1
               /\ T2[Len(T2)] = Zero
  BY <1>1, AddStringMakes
<1>3. StringsIn(E, T2, addr)
  <2>1. StringsIn(E, T, addr)
    BY DEF Good
  <2>2. Len(T2) >= Len(T)
    <3>1. n \in Nat /\ Len(s) \in Nat /\ Len(T) \in Nat /\ Len(T2) \in Nat
      <4>1. n \in Nat
        BY BaseFields
      <4> QED
        BY <1>1, <1>2, <4>1
    <3> DEFINE m == Len(s)
    <3> HIDE DEF n, m
    <3> QED
      BY <1>2, <3>1 DEF n, m
  <2> QED
    BY <1>1, <1>2, <2>1, <2>2, StringsKept
<1> QED
  BY <1>2, <1>3 DEF Good

LEMMA GoodSet ==
    ASSUME NEW e, Base(e), NEW g, NEW E, NEW T, Good(e, g, E, T),
           ".dynamic" \notin DOMAIN g.rep, NEW i \in DOMAIN E, NEW d \in Elf_Dyn,
           d.d_tag # "DT_NULL", EntryOk(d, T, Section(e, ".dynstr").sh_addr)
    PROVE  /\ Good(e, SetEntry(g, i, d), [E EXCEPT ![i] = d], T)
           /\ SetEntry(g, i, d).rep = g.rep
<1>1. State(e, g, E, T) /\ StringsIn(E, T, Section(e, ".dynstr").sh_addr)
  BY DEF Good
<1>2. State(e, SetEntry(g, i, d), [E EXCEPT ![i] = d], T) /\ SetEntry(g, i, d).rep = g.rep
  BY <1>1, SetEntryMakes
<1>3. StringsIn([E EXCEPT ![i] = d], T, Section(e, ".dynstr").sh_addr)
  BY <1>1, StringsKept
<1> QED
  BY <1>2, <1>3 DEF Good

LEMMA GoodAdd ==
    ASSUME NEW e, Base(e), NEW g, NEW E, NEW T, Good(e, g, E, T),
           ".dynamic" \notin DOMAIN g.rep, NEW new \in Seq(Elf_Dyn),
           \A k \in DOMAIN new : /\ new[k].d_tag # "DT_NULL"
                                 /\ EntryOk(new[k], T, Section(e, ".dynstr").sh_addr)
    PROVE  Good(e, AddEntries(g, new), new \o E, T)
<1>1. State(e, g, E, T) /\ StringsIn(E, T, Section(e, ".dynstr").sh_addr) /\ E \in Seq(Elf_Dyn)
  BY GoodFields DEF Good
<1>2. State(e, AddEntries(g, new), new \o E, T)
  BY <1>1, AddEntriesMakes
<1>3. StringsIn(new \o E, T, Section(e, ".dynstr").sh_addr)
  BY <1>1, StringsAdd
<1> QED
  BY <1>2, <1>3 DEF Good

LEMMA GoodChanged ==
    ASSUME NEW e, NEW g, NEW E, NEW T, Good(e, g, E, T)
    PROVE  Good(e, [g EXCEPT !.changed = TRUE], E, T)
<1>1. State(e, g, E, T)
  BY DEF Good
<1>2. State(e, [g EXCEPT !.changed = TRUE], E, T)
  BY <1>1, ChangedMakes
<1> QED
  BY <1>2 DEF Good

LEMMA NoneReplaced ==
    ASSUME NEW r, r = <<>>
    PROVE  DOMAIN r = {}
<1>1. DOMAIN <<>> = {}
  OBVIOUS
<1> QED
  BY <1>1, Zenon

\* An object as parse() makes it of a file as a linker makes it, but that the
\* interpreter may have been replaced and that entries may have been removed.
Ready(e) ==
    /\ e \in Object /\ e.err = "" /\ KnownSections(e, e) /\ LaidOut(e)
    /\ ".dynamic" \notin DOMAIN e.rep /\ ".dynstr" \notin DOMAIN e.rep
    /\ findSection3(e, ".dynamic") # 0 =>
           /\ findSection3(e, ".dynstr") # 0
           /\ Consistent(Held(e, ".dynamic"), Held(e, ".dynstr"), Section(e, ".dynstr").sh_addr)

LEMMA ReadyState ==
    ASSUME NEW e, Ready(e), findSection3(e, ".dynamic") # 0
    PROVE  /\ Base(e) /\ ".dynamic" \notin DOMAIN e.rep /\ ".dynstr" \notin DOMAIN e.rep
           /\ \E E, T : Good(e, e, E, T) /\ Entries(e) = E
<1> DEFINE D == Held(e, ".dynamic")
           T == Held(e, ".dynstr")
           addr == Section(e, ".dynstr").sh_addr
<1>1. /\ e \in Object /\ e.err = "" /\ KnownSections(e, e) /\ LaidOut(e)
      /\ findSection3(e, ".dynstr") # 0 /\ Consistent(D, T, addr)
      /\ ".dynamic" \notin DOMAIN e.rep /\ ".dynstr" \notin DOMAIN e.rep
  BY DEF Ready
<1>2. D \in Seq(Cell) /\ T \in Seq(Cell)
  <2>1. ".dynamic" \in SectionName /\ ".dynstr" \in SectionName
    BY NamesTypes
  <2> QED
    BY <1>1, <2>1, HeldTypes
<1>3. Len(D) = Section(e, ".dynamic").sh_size /\ Len(T) = Section(e, ".dynstr").sh_size
  <2>1. ASSUME NEW n, n \notin DOMAIN e.rep PROVE Len(Held(e, n)) = Section(e, n).sh_size
    <3>1. Held(e, n) = Slice(e.contents, Section(e, n).sh_offset, Section(e, n).sh_size)
      BY <2>1 DEF Held
    <3>2. Section(e, n) \in Elf_Shdr
      BY <1>1, FindSectionTypes
    <3>3. Section(e, n).sh_offset \in Nat /\ Section(e, n).sh_size \in Nat /\ e.contents \in Seq(Cell)
      BY <1>1, <3>2, SectionFields, ObjectFields
    <3> QED
      BY <3>1, <3>3, SliceTypes
  <2> QED
    BY <1>1, <2>1
<1> HIDE DEF D, T, addr
<1>4. PICK E : Lists(D, E) /\ E = EntriesAt(D, 0)
  BY <1>1 DEF Consistent
<1>5. E \in Seq(Elf_Dyn)
  BY <1>2, <1>4, EntriesAtTypes
<1>6. StringsIn(E, T, addr)
  BY <1>1, <1>2, <1>4, <1>5, ConsistentBy
<1>7. Len(D) > 0 /\ Len(T) > 0
  <2>1. (Len(E) + 1) * Word <= Len(D) /\ (Len(E) + 1) * Word = Len(E) * Word + Word
        /\ Len(E) * Word \in Nat /\ Word \in Nat \ {0} /\ Len(D) \in Nat
    <3>1. Len(D) \in Nat /\ Word \in Nat \ {0}
      BY <1>2, ElfAssumption
    <3>2. (Len(E) + 1) * Word <= Len(D) /\ (Len(E) + 1) * Word = Len(E) * Word + Word
          /\ Len(E) * Word \in Nat
      BY <1>2, <1>4, <1>5, ListsFields
    <3> QED
      BY <3>1, <3>2
  <2> DEFINE m == Len(E) * Word
             l == (Len(E) + 1) * Word
  <2>2. l <= Len(D) /\ l = m + Word /\ m \in Nat
    BY <2>1
  <2> HIDE DEF m, l
  <2> QED
    BY <1>6, <2>1, <2>2 DEF StringsIn
<1>8. Base(e)
  BY <1>1, <1>3, <1>7 DEF Base
<1>9. SameFrame(e, e) /\ Untouched(e, e) /\ KnownSections(e, e)
  <2>1. SameFrame(e, e)
    BY <1>1, FrameOf
  <2> QED
    BY <1>1, <2>1 DEF Untouched
<1>10. State(e, e, E, T)
  BY <1>1, <1>2, <1>4, <1>5, <1>9 DEF State, D, T
<1>11. Entries(e) = E
  <2>1. ".dynamic" \notin DOMAIN e.rep
    BY <1>1
  <2> QED
    BY <1>8, <1>10, <2>1, EntriesNow
<1>12. Good(e, e, E, T)
  BY <1>6, <1>10 DEF Good, addr
<1> QED
  BY <1>1, <1>8, <1>11, <1>12

\* What a method leaves of an object as parse() makes it: an object as it can be
\* laid out anew, or an error that the program reports.
Outcome(e, g) ==
    /\ g.err \in {"", "error"}
    /\ g.err = "" =>
           /\ KeptAs(e, g)
           /\ findSection3(e, ".dynamic") # 0 =>
                  Consistent(Held(g, ".dynamic"), Held(g, ".dynstr"),
                             Section(e, ".dynstr").sh_addr)

LEMMA GoodOutcome ==
    ASSUME NEW e, NEW g, NEW E, NEW T, Good(e, g, E, T)
    PROVE  Outcome(e, g)
<1>1. /\ g \in Object /\ g.err = "" /\ KeptAs(e, g) /\ E \in Seq(Elf_Dyn)
      /\ Lists(Held(g, ".dynamic"), E) /\ Held(g, ".dynstr") = T
      /\ StringsIn(E, T, Section(e, ".dynstr").sh_addr)
  BY DEF Good, State, KeptAs
<1>2. Held(g, ".dynamic") \in Seq(Cell)
  <2>1. ".dynamic" \in SectionName
    BY NamesTypes
  <2> QED
    BY <1>1, <2>1, HeldTypes
<1>3. Consistent(Held(g, ".dynamic"), T, Section(e, ".dynstr").sh_addr)
  BY <1>1, <1>2, ConsistentBy
<1> QED
  BY <1>1, <1>3 DEF Outcome

LEMMA SameOutcome ==
    ASSUME NEW e, Ready(e)
    PROVE  Outcome(e, e) /\ KeptAs(e, e)
<1>1. e \in Object /\ e.err = "" /\ KnownSections(e, e)
  BY DEF Ready
<1>2. KeptAs(e, e)
  BY <1>1, FrameOf DEF KeptAs, Untouched
<1> QED
  BY <1>1, <1>2 DEF Outcome, Ready

LEMMA FailedOutcome ==
    ASSUME NEW e, NEW g \in Object, g.err = ""
    PROVE  Fail(g, "error").err = "error" /\ Outcome(e, Fail(g, "error"))
<1>1. Fail(g, "error").err = "error"
  BY DEF Fail, Object, Elf_Object
<1> QED
  BY <1>1 DEF Outcome

LEMMA FindIs ==
    ASSUME NEW e \in Object, e.err = "", NEW names
    PROVE  /\ (\A n \in names : findSection3(e, n) # 0) => Find(e, names) = e
           /\ ~(\A n \in names : findSection3(e, n) # 0) =>
                  Find(e, names) = Fail(e, "error") /\ Find(e, names).err = "error"
<1>1. Fail(e, "error").err = "error"
  BY FailedOutcome
<1> QED
  BY <1>1 DEF Find

LEMMA LastWithIs ==
    ASSUME NEW E \in Seq(Elf_Dyn), NEW tag
    PROVE  LastWith(E, tag) # 0 => /\ LastWith(E, tag) \in DOMAIN E
                                   /\ E[LastWith(E, tag)].d_tag = tag
<1> DEFINE S == {0} \cup {i \in DOMAIN E : E[i].d_tag = tag}
<1>1. DOMAIN E = 1 .. Len(E) /\ Len(E) \in Nat
  OBVIOUS
<1>2. IsFiniteSet(S) /\ Ints(S) /\ S # {}
  <2>1. S \subseteq 0 .. Len(E)
    BY <1>1
  <2>2. IsFiniteSet(0 .. Len(E))
    BY <1>1, FS_Interval
  <2>3. IsFiniteSet(S)
    BY <2>1, <2>2, FS_Subset
  <2>4. Ints(S)
    BY <1>1 DEF Ints
  <2> QED
    BY <2>3, <2>4
<1>3. Max(S) \in S
  <2> HIDE DEF S
  <2> QED
    BY <1>2, GreatestInt
<1> QED
  BY <1>3 DEF LastWith

\* The check of DT_STRTAB passes, or a section is missing.
LEMMA CheckStrTabMakes ==
    ASSUME NEW e, Ready(e)
    PROVE  /\ Outcome(e, CheckStrTab(e))
           /\ CheckStrTab(e).err = "" => CheckStrTab(e) = e /\ findSection3(e, ".dynamic") # 0
<1> DEFINE i == LastWith(Entries(e), "DT_STRTAB")
           found == Find(e, {".dynamic", ".dynstr"})
           addr == Section(e, ".dynstr").sh_addr
<1>1. e \in Object /\ e.err = ""
  BY DEF Ready
<1>2. CASE found.err # ""
  <2>1. CheckStrTab(e) = found
    BY <1>2 DEF CheckStrTab
  <2>2. found.err = "error"
    BY <1>1, <1>2, FindIs
  <2> QED
    BY <2>1, <2>2 DEF Outcome
<1>3. CASE found.err = ""
  <2>1. findSection3(e, ".dynamic") # 0
    BY <1>1, <1>3, FindIs
  <2>2. PICK E, T : Good(e, e, E, T) /\ Entries(e) = E
    BY <2>1, ReadyState
  <2>3. Base(e)
    BY <2>1, ReadyState
  <2>4. E \in Seq(Elf_Dyn) /\ \A k \in DOMAIN E : EntryOk(E[k], T, addr)
    BY <2>2, <2>3, GoodFields
  <2>5. i # 0 => Entries(e)[i].d_val = addr
    BY <2>2, <2>4, LastWithIs DEF EntryOk
  <2>6. CheckStrTab(e) = IF i = 0 \/ Entries(e)[i].d_val = 0 THEN Fail(e, "error")
                         ELSE Require(e, Entries(e)[i].d_val = addr)
    <3> HIDE DEF i
    <3> QED
      BY <1>3 DEF CheckStrTab, i
  <2>7. CheckStrTab(e) = e \/ CheckStrTab(e) = Fail(e, "error")
    <3> HIDE DEF i, addr
    <3> QED
      BY <2>5, <2>6 DEF Require
  <2> QED
    BY <1>1, <2>1, <2>7, SameOutcome, FailedOutcome
<1> QED
  BY <1>2, <1>3

\* Of an object that is kept, what it holds is the same when it is marked as changed.
LEMMA KeptChanged ==
    ASSUME NEW e, NEW g, KeptAs(e, g)
    PROVE  LET x == [g EXCEPT !.changed = TRUE]
           IN  KeptAs(e, x) /\ \A n : Held(x, n) = Held(g, n)
<1> DEFINE x == [g EXCEPT !.changed = TRUE]
<1>1. g \in Object /\ g.err = "" /\ SameFrame(e, g) /\ Untouched(e, g) /\ KnownSections(e, g)
  BY DEF KeptAs
<1>2. x \in Object
  BY <1>1, ChangedTypes
<1>3. SameFrame(g, x)
  BY <1>1, FrameOf
<1>4. x.err = g.err /\ x.rep = g.rep /\ x.contents = g.contents
      /\ x.hdr = g.hdr /\ x.shdrs = g.shdrs
  BY <1>1 DEF Object, Elf_Object
<1> HIDE DEF x
<1>5. SameFrame(e, x) /\ Untouched(e, x) /\ KnownSections(e, x)
  BY <1>1, <1>3, <1>4, FrameTrans DEF Untouched, KnownSections
<1>6. \A n : Held(x, n) = Held(g, n)
  <2>1. \A n : Section(x, n) = Section(g, n)
    BY <1>4, FoundAlike
  <2> QED
    BY <1>4, <2>1 DEF Held
<1> QED
  BY <1>1, <1>2, <1>4, <1>5, <1>6 DEF KeptAs, x

\* What is kept of what was kept.
LEMMA KeptTrans ==
    ASSUME NEW b, NEW e, KeptAs(b, e), NEW g, KeptAs(e, g)
    PROVE  KeptAs(b, g)
<1>1. /\ e \in Object /\ g \in Object /\ g.err = "" /\ SameFrame(b, e) /\ SameFrame(e, g)
      /\ Untouched(b, e) /\ Untouched(e, g) /\ KnownSections(e, g)
  BY DEF KeptAs
<1>2. SameFrame(b, g)
  BY <1>1, FrameTrans
<1>3. \A n : findSection3(e, n) = findSection3(b, n) /\ Section(e, n) = Section(b, n)
  BY <1>1, FoundAlike DEF SameFrame
<1>4. Editable(e) = Editable(b)
  BY <1>3 DEF Editable
<1>5. Untouched(b, g)
  BY <1>1, <1>4 DEF Untouched
<1>6. KnownSections(b, g)
  BY <1>1, <1>3 DEF KnownSections
<1> QED
  BY <1>1, <1>2, <1>5, <1>6 DEF KeptAs

\* An object that is kept, and whose strings and entries are in their places, is
\* ready for the next method.
LEMMA ReadyAgain ==
    ASSUME NEW e, Ready(e), NEW g, Outcome(e, g), g.err = "",
           ".dynamic" \notin DOMAIN g.rep, ".dynstr" \notin DOMAIN g.rep
    PROVE  Ready(g)
<1>1. g \in Object /\ SameFrame(e, g) /\ KnownSections(e, g)
  BY DEF Outcome, KeptAs
<1>2. \A n : findSection3(g, n) = findSection3(e, n) /\ Section(g, n) = Section(e, n)
  BY <1>1, FoundAlike DEF SameFrame
<1>3. KnownSections(g, g)
  BY <1>1, <1>2 DEF KnownSections
<1>4. LaidOut(g)
  <2>1. LaidOut(e) /\ g.hdr = e.hdr /\ g.shdrs = e.shdrs /\ Len(g.contents) = Len(e.contents)
    BY <1>1 DEF Ready, SameFrame
  <2> QED
    BY <2>1 DEF LaidOut, Foreign
<1>5. findSection3(e, ".dynamic") # 0 =>
          /\ findSection3(e, ".dynstr") # 0
          /\ Consistent(Held(g, ".dynamic"), Held(g, ".dynstr"), Section(e, ".dynstr").sh_addr)
  BY DEF Ready, Outcome
<1> QED
  BY <1>1, <1>2, <1>3, <1>4, <1>5 DEF Ready

\* The methods, one by one: setInterpreter, which looks at nothing that the
\* others change.
LEMMA SetInterpreterKeeps ==
    ASSUME NEW e, KeptAs(e, e), NEW new \in Seq(Character)
    PROVE  LET y == setInterpreter(e, new)
           IN  /\ y.err \in {"", "error"}
               /\ y.err = "" => /\ KeptAs(e, y) /\ DOMAIN y.rep = DOMAIN e.rep \cup {".interp"}
                               /\ \A n : n # ".interp" => Held(y, n) = Held(e, n)
<1> DEFINE c == CString(new)
           g == replaceSection(e, ".interp", Len(new) + 1)
           x == setSubstr(g, ".interp", 0, c)
           y == [x EXCEPT !.changed = TRUE]
<1>1. e \in Object /\ e.err = "" /\ ".interp" \in Replaceable
  BY DEF KeptAs, Replaceable
<1>2. Len(new) + 1 \in Nat
  OBVIOUS
<1>3. CASE findSection3(e, ".interp") = 0
  <2>1. Find(e, {".interp"}) = Fail(e, "error") /\ Fail(e, "error").err = "error"
    BY <1>1, <1>3, FindIs
  <2>2. Fail(e, "error") \in Object
    BY <1>1, FailTypes
  <2> DEFINE z == Fail(e, "error")
  <2> HIDE DEF z
  <2>3. g.err = Find(e, {".interp"}).err
    <3>1. Find(e, {".interp"}) = z
      BY <2>1 DEF z
    <3>2. z \in Object
      BY <2>2 DEF z
    <3>3. \A r : [z EXCEPT !.rep = r].err = z.err
      BY <3>2 DEF Object, Elf_Object
    <3> HIDE DEF z
    <3> QED
      BY <3>1, <3>3 DEF replaceSection
  <2>4. g.err = "error"
    BY <2>1, <2>3
  <2>5. setInterpreter(e, new) = g
    BY <2>4 DEF setInterpreter
  <2> QED
    BY <2>4, <2>5
<1>4. CASE findSection3(e, ".interp") # 0
  <2>d. e \in Object /\ KeptAs(e, e) /\ ".interp" \in Replaceable
    BY <1>1
  <2>a. \A size \in Nat :
            LET a == replaceSection(e, ".interp", size)
            IN  /\ KeptAs(e, a) /\ DOMAIN a.rep = DOMAIN e.rep \cup {".interp"}
                /\ a.contents = e.contents /\ Len(a.rep[".interp"]) = size
                /\ \A n \in DOMAIN e.rep : n # ".interp" => a.rep[n] = e.rep[n]
    BY <1>4, <2>d, ReplaceMakes
  <2>1. /\ KeptAs(e, g) /\ DOMAIN g.rep = DOMAIN e.rep \cup {".interp"}
        /\ g.contents = e.contents /\ Len(g.rep[".interp"]) = Len(new) + 1
        /\ \A n \in DOMAIN e.rep : n # ".interp" => g.rep[n] = e.rep[n]
    BY <1>2, <2>a
  <2>2. c \in Seq(Cell) /\ Len(c) = Len(new) + 1
    BY CStringIs
  <2>3. g.err = ""
    BY <2>1 DEF KeptAs
  <2>4. setInterpreter(e, new) = y
    <3> HIDE DEF g
    <3> QED
      BY <2>3 DEF setInterpreter, g
  <2> HIDE DEF g, c
  <2>5. 0 + Len(c) <= Len(g.rep[".interp"]) /\ ".interp" \in DOMAIN g.rep /\ 0 \in Nat
    BY <1>2, <2>1, <2>2
  <2>6. KeptAs(e, x) /\ DOMAIN x.rep = DOMAIN g.rep /\ x.contents = g.contents
    BY <2>1, <2>2, <2>5, SubstrMakes
  <2> HIDE DEF x
  <2>7. KeptAs(e, y) /\ \A n : Held(y, n) = Held(x, n)
    BY <2>6, KeptChanged
  <2>8. \A n : n # ".interp" => Held(x, n) = Held(e, n)
    <3> SUFFICES ASSUME NEW n, n # ".interp" PROVE Held(x, n) = Held(e, n)
      OBVIOUS
    <3>1. Section(x, n) = Section(e, n)
      BY <2>6, FoundAlike DEF KeptAs, SameFrame
    <3>2. n \in DOMAIN x.rep <=> n \in DOMAIN e.rep
      BY <2>1, <2>6
    <3>3. n \in DOMAIN e.rep => x.rep[n] = e.rep[n]
      <4>1. n \in DOMAIN e.rep => g.rep[n] = e.rep[n]
        BY <2>1
      <4>2. n \in DOMAIN g.rep => x.rep[n] = g.rep[n]
        BY <2>1, <2>2, <2>5, SubstrMakes DEF x
      <4> QED
        BY <2>1, <4>1, <4>2
    <3>4. x.contents = e.contents
      BY <2>1, <2>6
    <3> QED
      BY <3>1, <3>2, <3>3, <3>4 DEF Held
  <2>9. DOMAIN y.rep = DOMAIN e.rep \cup {".interp"}
    <3>1. y.rep = x.rep
      BY <2>6 DEF KeptAs, Object, Elf_Object
    <3> QED
      BY <2>1, <2>6, <3>1
  <2> HIDE DEF y
  <2>10. y.err = ""
    BY <2>7 DEF KeptAs
  <2> QED
    BY <2>4, <2>7, <2>8, <2>9, <2>10
<1> QED
  BY <1>3, <1>4

LEMMA SetInterpreterMakes ==
    ASSUME NEW e, Ready(e), NEW new \in Seq(Character)
    PROVE  LET y == setInterpreter(e, new)
           IN  Outcome(e, y) /\ (y.err = "" => Ready(y))
<1> DEFINE y == setInterpreter(e, new)
<1>1. /\ y.err \in {"", "error"}
      /\ y.err = "" => /\ KeptAs(e, y) /\ DOMAIN y.rep = DOMAIN e.rep \cup {".interp"}
                      /\ \A n : n # ".interp" => Held(y, n) = Held(e, n)
  BY SameOutcome, SetInterpreterKeeps
<1> HIDE DEF y
<1>2. Outcome(e, y)
  <2>1. y.err = "" => Held(y, ".dynamic") = Held(e, ".dynamic")
                      /\ Held(y, ".dynstr") = Held(e, ".dynstr")
    BY ONLY <1>1, ".dynamic" # ".interp", ".dynstr" # ".interp"
  <2>2. findSection3(e, ".dynamic") # 0 =>
            Consistent(Held(e, ".dynamic"), Held(e, ".dynstr"), Section(e, ".dynstr").sh_addr)
    BY DEF Ready
  <2> QED
    BY ONLY <1>1, <2>1, <2>2 DEF Outcome
<1>3. y.err = "" => ".dynamic" \notin DOMAIN y.rep /\ ".dynstr" \notin DOMAIN y.rep
  <2> DEFINE D == DOMAIN e.rep
             F == DOMAIN y.rep
  <2>1. ".dynamic" \notin D /\ ".dynstr" \notin D
    BY DEF Ready
  <2>2. y.err = "" => F = D \cup {".interp"}
    BY <1>1
  <2> HIDE DEF D, F
  <2>3. \A n : n \notin D /\ n # ".interp" => n \notin D \cup {".interp"}
    OBVIOUS
  <2>4. ".dynamic" \notin D \cup {".interp"} /\ ".dynstr" \notin D \cup {".interp"}
    BY <2>1, <2>3
  <2>5. y.err = "" => ".dynamic" \notin F /\ ".dynstr" \notin F
    BY ONLY <2>2, <2>4
  <2> QED
    BY <2>5 DEF F
<1>4. y.err = "" => Ready(y)
  BY <1>2, <1>3, ReadyAgain
<1> QED
  BY <1>2, <1>4 DEF y

\* modifySoname.
LEMMA ModifySonameMakes ==
    ASSUME NEW e, Ready(e), NEW new \in Seq(Character)
    PROVE  Outcome(e, modifySoname(e, new))
<1> DEFINE checked == CheckStrTab(e)
           i == LastWith(Entries(e), "DT_SONAME")
           wiped == IF i = 0 THEN e ELSE WipeString(e, Entries(e)[i].d_val)
           named == AddString(wiped, 0, new)
           d == Dyn("DT_SONAME", StrSize(e))
           pointed == IF i # 0 THEN SetEntry(named, i, d) ELSE AddEntries(named, <<d>>)
           n == Section(e, ".dynstr").sh_size
           addr == Section(e, ".dynstr").sh_addr
<1>1. \/ modifySoname(e, new) = e
      \/ modifySoname(e, new) = checked
      \/ checked.err = "" /\ modifySoname(e, new) = [pointed EXCEPT !.changed = TRUE]
  <2> HIDE DEF checked, pointed
  <2> QED
    BY DEF modifySoname, checked, pointed
<1>2. Outcome(e, e) /\ Outcome(e, checked)
  BY SameOutcome, CheckStrTabMakes
<1>3. ASSUME checked.err = "" PROVE Outcome(e, [pointed EXCEPT !.changed = TRUE])
  <2>1. findSection3(e, ".dynamic") # 0
    BY <1>3, CheckStrTabMakes
  <2>2. Base(e)
    BY <2>1, ReadyState
  <2>3. PICK E, T : Good(e, e, E, T) /\ Entries(e) = E
    BY <2>1, ReadyState
  <2>4. /\ ".dynamic" \notin DOMAIN e.rep /\ ".dynstr" \notin DOMAIN e.rep
        /\ StrSize(e) = n /\ E \in Seq(Elf_Dyn) /\ Len(T) = n /\ n \in Nat
    <3>1. ".dynamic" \notin DOMAIN e.rep /\ ".dynstr" \notin DOMAIN e.rep
      BY DEF Ready
    <3> QED
      BY <2>2, <2>3, <3>1, GoodFields DEF StrSize
  <2>5. i # 0 => i \in DOMAIN E /\ E[i].d_tag = "DT_SONAME"
    BY <2>3, <2>4, LastWithIs
  <2> HIDE DEF i
  <2>6. PICK T1 : Good(e, wiped, E, T1) /\ Len(T1) = n /\ wiped.rep = e.rep
    <3>1. CASE i = 0
      BY <2>3, <2>4, <3>1
    <3>2. CASE i # 0
      <4>1. ".dynstr" \notin DOMAIN e.rep /\ E[i].d_tag \in {"DT_SONAME", "DT_RPATH", "DT_RUNPATH"}
        BY <2>4, <2>5, <3>2
      <4> QED
        BY <2>2, <2>3, <2>4, <2>5, <3>2, <4>1, GoodWipe
    <3> QED
      BY <3>1, <3>2
  <2> HIDE DEF wiped
  <2>7. PICK T2 : /\ Good(e, named, E, T2) /\ ".dynamic" \notin DOMAIN named.rep
                  /\ Len(T2) = n + 0 + Len(new) + 1
    <3>5. Good(e, wiped, E, T1)
      BY <2>6
    <3>1. \A k \in Nat : Len(T1) <= n + k =>
              \E T2 : /\ Good(e, AddString(wiped, k, new), E, T2)
                      /\ DOMAIN AddString(wiped, k, new).rep = DOMAIN wiped.rep \cup {".dynstr"}
                      /\ Len(T2) = n + k + Len(new) + 1
      BY <2>2, <3>5, GoodAddString
    <3>4. Len(T1) <= n + 0 /\ 0 \in Nat
      BY <2>4, <2>6
    <3>2. \E T2 : /\ Good(e, named, E, T2) /\ DOMAIN named.rep = DOMAIN wiped.rep \cup {".dynstr"}
                  /\ Len(T2) = n + 0 + Len(new) + 1
      BY <3>1, <3>4
    <3>3. ".dynamic" \notin DOMAIN wiped.rep
      BY <2>4, <2>6
    <3> QED
      BY <3>2, <3>3
  <2> HIDE DEF named
  <2>8. d \in Elf_Dyn /\ d.d_tag = "DT_SONAME" /\ EntryOk(d, T2, addr)
    <3>1. d \in Elf_Dyn
      BY <2>4, TagTypes
    <3>2. Len(new) \in Nat
      OBVIOUS
    <3>3. n < Len(T2)
      BY <2>4, <2>7, <3>2
    <3>4. d.d_tag = "DT_SONAME" /\ d.d_val = n
      BY <2>4 DEF Dyn
    <3> HIDE DEF d, n
    <3> QED
      BY <3>1, <3>3, <3>4 DEF EntryOk
  <2> HIDE DEF d
  <2>9. \E E2 : Good(e, pointed, E2, T2)
    <3>1. CASE i # 0
      BY <2>2, <2>5, <2>7, <2>8, <3>1, GoodSet
    <3>2. CASE i = 0
      <4>1. <<d>> \in Seq(Elf_Dyn) /\ \A k \in DOMAIN <<d>> : <<d>>[k] = d
        BY <2>8
      <4>2. ".dynamic" \notin DOMAIN named.rep
        BY <2>7
      <4> DEFINE N == <<d>>
      <4>3. N \in Seq(Elf_Dyn) /\ \A k \in DOMAIN N : N[k].d_tag # "DT_NULL" /\ EntryOk(N[k], T2, addr)
        BY <2>8, <4>1
      <4> HIDE DEF N
      <4>4. Good(e, AddEntries(named, N), N \o E, T2)
        BY <2>2, <2>7, <4>2, <4>3, GoodAdd
      <4> QED
        BY <3>2, <4>4 DEF N
    <3> QED
      BY <3>1, <3>2
  <2> HIDE DEF pointed
  <2> QED
    BY <2>9, GoodChanged, GoodOutcome
<1> HIDE DEF checked, pointed
<1> QED
  BY <1>1, <1>2, <1>3

\* An entry is what is at its place.
LEMMA EntryNow ==
    ASSUME NEW e, Base(e), NEW g, NEW E, NEW T, State(e, g, E, T),
           ".dynamic" \notin DOMAIN g.rep, NEW i \in DOMAIN E
    PROVE  EntryAt(g, i) = E[i]
<1> DEFINE f == g.contents
           o == Section(g, ".dynamic").sh_offset
           entry(k) == StructAt(f, o + k * Word, "dyn")
           ends == {k \in 0 .. Len(f) \div Word : entry(k).d_tag = "DT_NULL"}
<1>1. Entries(g) = E
  BY EntriesNow
<1>2. EntriesAt(f, o) = IF ends = {} THEN <<>> ELSE [k \in 1 .. Min(ends) |-> entry(k - 1)]
  BY DEF EntriesAt, EntriesBy, StructAt
<1>3. E = EntriesAt(f, o)
  BY <1>1 DEF Entries
<1>4. ends # {} => E[i] = entry(i - 1)
  <2>1. ends # {} => E = [k \in 1 .. Min(ends) |-> entry(k - 1)]
    BY <1>2, <1>3
  <2> HIDE DEF ends, entry
  <2> QED
    BY <2>1
<1>5. ends # {}
  <2>1. ends = {} => E = <<>>
    BY <1>2, <1>3
  <2> HIDE DEF ends
  <2> QED
    BY <2>1, NoneReplaced
<1>6. EntryAt(g, i) = entry(i - 1)
  BY DEF EntryAt
<1> HIDE DEF ends, entry
<1> QED
  BY <1>4, <1>5, <1>6

\* removeRPath.
LEMMA RemoveRPathMakes ==
    ASSUME NEW e, Ready(e), findSection3(e, ".dynamic") # 0
    PROVE  Outcome(e, removeRPath(e)) /\ Ready(removeRPath(e))
<1> DEFINE kept == Selected(Entries(e), LAMBDA d : d.d_tag \notin {"DT_RPATH", "DT_RUNPATH"})
           gone == Len(Entries(e)) - Len(kept)
           x == [e EXCEPT
                    !.contents = Overwrite(@, Section(e, ".dynamic").sh_offset,
                                     FlattenSeq([i \in DOMAIN kept |-> Struct(kept[i])])
                                         \o Zeros(gone * Word)),
                    !.changed = @ \/ gone > 0]
<1>1. Base(e) /\ ".dynamic" \notin DOMAIN e.rep /\ ".dynstr" \notin DOMAIN e.rep
  BY ReadyState
<1>2. PICK E, T : Good(e, e, E, T) /\ Entries(e) = E
  BY ReadyState
<1>3. E \in Seq(Elf_Dyn) /\ State(e, e, E, T) /\ StringsIn(E, T, Section(e, ".dynstr").sh_addr)
  BY <1>1, <1>2, GoodFields DEF Good
<1>4. KeptOf(kept, E)
  BY <1>2, <1>3, PathsRemoved
<1>5. removeRPath(e) = e \/ removeRPath(e) = x
  BY DEF removeRPath, Compact
<1> HIDE DEF kept
<1>6. State(e, x, kept, T)
  <2>1. ".dynamic" \notin DOMAIN e.rep
    BY <1>1
  <2> QED
    BY <1>1, <1>3, <1>4, <2>1, CompactMakes
<1>7. StringsIn(kept, T, Section(e, ".dynstr").sh_addr)
  BY <1>3, <1>4, StringsKept
<1>8. x.rep = e.rep /\ e.err = "" /\ x.err = e.err
  BY DEF Ready, Object, Elf_Object
<1> HIDE DEF x
<1>9. Outcome(e, x)
  <2>1. Good(e, x, kept, T)
    BY <1>6, <1>7 DEF Good
  <2> QED
    BY <2>1, GoodOutcome
<1>10. Ready(x)
  BY <1>1, <1>8, <1>9, ReadyAgain
<1> QED
  BY <1>5, <1>9, <1>10, SameOutcome

\* The tag of the entry is made DT_RUNPATH or void.
LEMMA ConvertMakes ==
    ASSUME NEW e, Base(e), NEW g, NEW E, NEW T, Good(e, g, E, T), NEW force,
           ".dynamic" \notin DOMAIN g.rep
    PROVE  \E E2 : /\ Good(e, ConvertTag(g, force), E2, T) /\ DOMAIN E2 = DOMAIN E
                   /\ ConvertTag(g, force).rep = g.rep
                   /\ \A k \in DOMAIN E :
                          E2[k].d_tag \in {E[k].d_tag, "DT_RUNPATH", "DT_IGNORE"}
<1> DEFINE r == LastWith(E, "DT_RPATH")
           run == LastWith(E, "DT_RUNPATH")
           d1 == [E[r] EXCEPT !.d_tag = "DT_RUNPATH"]
           d2 == [E[run] EXCEPT !.d_tag = "DT_IGNORE"]
           addr == Section(e, ".dynstr").sh_addr
<1>1. State(e, g, E, T) /\ E \in Seq(Elf_Dyn)
      /\ \A k \in DOMAIN E : EntryOk(E[k], T, addr) /\ E[k] \in Elf_Dyn
  BY GoodFields
<1>2. Entries(g) = E
  BY <1>1, EntriesNow
<1>3. ~Foreign(g)
  <2>1. SameFrame(e, g)
    BY <1>1 DEF State
  <2>2. ~Foreign(e)
    BY DEF Base, LaidOut
  <2> QED
    BY <2>1, <2>2 DEF SameFrame, Foreign
<1>4. /\ r # 0 => r \in DOMAIN E /\ E[r].d_tag = "DT_RPATH"
      /\ run # 0 => run \in DOMAIN E /\ E[run].d_tag = "DT_RUNPATH"
  BY <1>1, LastWithIs
<1>5. \/ ConvertTag(g, force) = g
      \/ r # 0 /\ ConvertTag(g, force) = SetEntry(g, r, d1)
      \/ run # 0 /\ ConvertTag(g, force) = SetEntry(g, run, d2)
  <2> HIDE DEF r, run
  <2> QED
    BY <1>2, <1>3 DEF ConvertTag, r, run
<1> HIDE DEF r, run
<1>6. /\ r # 0 => d1 \in Elf_Dyn /\ d1.d_tag = "DT_RUNPATH" /\ EntryOk(d1, T, addr)
      /\ run # 0 => d2 \in Elf_Dyn /\ d2.d_tag = "DT_IGNORE" /\ EntryOk(d2, T, addr)
  <2>1. "DT_RUNPATH" \in DynTag /\ "DT_IGNORE" \in DynTag
    BY DEF DynTag
  <2>2. \A d \in Elf_Dyn : \A t \in DynTag :
            LET z == [d EXCEPT !.d_tag = t]
            IN  z \in Elf_Dyn /\ z.d_tag = t /\ z.d_val = d.d_val
    BY DEF Elf_Dyn
  <2>3. /\ r # 0 => d1 \in Elf_Dyn /\ d1.d_tag = "DT_RUNPATH" /\ d1.d_val = E[r].d_val
        /\ run # 0 => d2 \in Elf_Dyn /\ d2.d_tag = "DT_IGNORE" /\ d2.d_val = E[run].d_val
    BY <1>1, <1>4, <2>1, <2>2
  <2> HIDE DEF d1, d2
  <2> QED
    BY <1>1, <1>4, <2>3 DEF EntryOk
<1> HIDE DEF d1, d2
<1>7. CASE ConvertTag(g, force) = g
  BY <1>7
<1>8. CASE r # 0 /\ ConvertTag(g, force) = SetEntry(g, r, d1)
  <2>1. /\ Good(e, SetEntry(g, r, d1), [E EXCEPT ![r] = d1], T)
        /\ SetEntry(g, r, d1).rep = g.rep
    <3>1. r \in DOMAIN E /\ d1 \in Elf_Dyn /\ d1.d_tag # "DT_NULL" /\ EntryOk(d1, T, addr)
      BY <1>4, <1>6, <1>8
    <3> QED
      BY <3>1, GoodSet
  <2>2. LET E2 == [E EXCEPT ![r] = d1]
        IN  /\ DOMAIN E2 = DOMAIN E
            /\ \A k \in DOMAIN E : E2[k].d_tag \in {E[k].d_tag, "DT_RUNPATH", "DT_IGNORE"}
    BY <1>6, <1>8
  <2> QED
    BY <1>8, <2>1, <2>2
<1>9. CASE run # 0 /\ ConvertTag(g, force) = SetEntry(g, run, d2)
  <2>1. /\ Good(e, SetEntry(g, run, d2), [E EXCEPT ![run] = d2], T)
        /\ SetEntry(g, run, d2).rep = g.rep
    <3>1. run \in DOMAIN E /\ d2 \in Elf_Dyn /\ d2.d_tag # "DT_NULL" /\ EntryOk(d2, T, addr)
      BY <1>4, <1>6, <1>9
    <3> QED
      BY <3>1, GoodSet
  <2>2. LET E2 == [E EXCEPT ![run] = d2]
        IN  /\ DOMAIN E2 = DOMAIN E
            /\ \A k \in DOMAIN E : E2[k].d_tag \in {E[k].d_tag, "DT_RUNPATH", "DT_IGNORE"}
    BY <1>6, <1>9
  <2> QED
    BY <1>9, <2>1, <2>2
<1> QED
  BY <1>5, <1>7, <1>8, <1>9

\* The entries of the search path are made to point to another string.
LEMMA RepointMakes ==
    ASSUME NEW e, Base(e), NEW g, NEW E, NEW T, Good(e, g, E, T),
           ".dynamic" \notin DOMAIN g.rep, NEW found \in Seq(Elf_Dyn),
           DOMAIN found = DOMAIN E, NEW val \in Nat, val < Len(T),
           \A t \in {"DT_RPATH", "DT_RUNPATH"} : \A k \in DOMAIN found :
               found[k].d_tag = t => E[k].d_tag # "DT_STRTAB"
    PROVE  \E E2 : Good(e, Repoint(g, found, val), E2, T)
<1> DEFINE S == {LastWith(found, "DT_RPATH"), LastWith(found, "DT_RUNPATH")} \ {0}
           A == {y \in Object : \E E2 : /\ Good(e, y, E2, T) /\ DOMAIN E2 = DOMAIN E
                                        /\ ".dynamic" \notin DOMAIN y.rep
                                        /\ \A k \in S : E2[k].d_tag # "DT_STRTAB"}
           base == g
           op(x, a) == SetEntry(a, x, [EntryAt(a, x) EXCEPT !.d_val = val])
<1>1. IsFiniteSet(S)
  <2> DEFINE r == LastWith(found, "DT_RPATH")
             run == LastWith(found, "DT_RUNPATH")
  <2> HIDE DEF r, run
  <2>1. IsFiniteSet({r} \cup {run})
    BY FS_Singleton, FS_AddElement
  <2>2. {r, run} \ {0} \subseteq {r} \cup {run}
    OBVIOUS
  <2>3. IsFiniteSet({r, run} \ {0})
    BY <2>1, <2>2, FS_Subset
  <2> QED
    BY <2>3 DEF r, run
<1>a. \A k \in S : k \in DOMAIN E /\ E[k].d_tag # "DT_STRTAB"
  <2> DEFINE r == LastWith(found, "DT_RPATH")
             run == LastWith(found, "DT_RUNPATH")
  <2>1. /\ r # 0 => r \in DOMAIN found /\ found[r].d_tag = "DT_RPATH"
        /\ run # 0 => run \in DOMAIN found /\ found[run].d_tag = "DT_RUNPATH"
    BY LastWithIs
  <2> HIDE DEF r, run
  <2>2. \A k \in {r, run} \ {0} : k \in DOMAIN E /\ E[k].d_tag # "DT_STRTAB"
    BY <2>1
  <2> QED
    BY <2>2 DEF r, run
<1> HIDE DEF S
<1>2. base \in A
  <2>1. g \in Object
    BY GoodFields
  <2> QED
    BY <1>a, <2>1
<1>3. \A x \in S : \A a \in A : op(x, a) \in A
  <2> SUFFICES ASSUME NEW x \in S, NEW a \in A PROVE op(x, a) \in A
    OBVIOUS
  <2>1. PICK E2 : /\ Good(e, a, E2, T) /\ DOMAIN E2 = DOMAIN E
                  /\ ".dynamic" \notin DOMAIN a.rep
                  /\ \A k \in S : E2[k].d_tag # "DT_STRTAB"
    OBVIOUS
  <2> DEFINE d == [E2[x] EXCEPT !.d_val = val]
             y == SetEntry(a, x, d)
  <2>2. x \in DOMAIN E2 /\ E2[x].d_tag # "DT_STRTAB"
    BY <1>a, <2>1
  <2>3. E2[x] \in Elf_Dyn /\ E2[x].d_tag # "DT_NULL" /\ State(e, a, E2, T)
    BY <2>1, <2>2, GoodFields
  <2>4. EntryAt(a, x) = E2[x]
    BY <2>1, <2>2, <2>3, EntryNow
  <2>5. d \in Elf_Dyn /\ d.d_val = val /\ d.d_tag = E2[x].d_tag
    BY <2>3 DEF Elf_Dyn
  <2> HIDE DEF d
  <2>6. EntryOk(d, T, Section(e, ".dynstr").sh_addr) /\ d.d_tag # "DT_NULL"
    BY <2>2, <2>3, <2>5 DEF EntryOk
  <2>7. Good(e, y, [E2 EXCEPT ![x] = d], T) /\ y.rep = a.rep
    <3>1. Good(e, a, E2, T) /\ ".dynamic" \notin DOMAIN a.rep
      BY <2>1
    <3>2. x \in DOMAIN E2 /\ d \in Elf_Dyn /\ d.d_tag # "DT_NULL"
      BY <2>2, <2>5, <2>6
    <3>3. EntryOk(d, T, Section(e, ".dynstr").sh_addr)
      BY <2>6
    <3> HIDE DEF A
    <3> QED
      BY <3>1, <3>2, <3>3, GoodSet
  <2>8. op(x, a) = y
    BY <2>4 DEF d
  <2> HIDE DEF y
  <2> DEFINE E3 == [E2 EXCEPT ![x] = d]
  <2>9. DOMAIN E3 = DOMAIN E /\ \A k \in S : E3[k].d_tag # "DT_STRTAB"
    BY <1>a, <2>1, <2>2, <2>5
  <2> HIDE DEF E3
  <2>10. y \in Object /\ Good(e, y, E3, T)
    <3>1. Good(e, y, E3, T)
      BY <2>7 DEF E3
    <3> QED
      BY <3>1, GoodFields
  <2>11. ".dynamic" \notin DOMAIN y.rep
    BY <2>1, <2>7
  <2>12. y \in A
    BY <2>9, <2>10, <2>11
  <2> HIDE DEF A
  <2> QED
    BY <2>8, <2>12
<1> DEFINE Step == [x \in S |-> [a \in A |-> op(x, a)]]
           c(t) == CHOOSE x \in t : TRUE
           body(h) == [t \in SUBSET S |->
                           IF t = {} THEN base ELSE op(c(t), h[t \ {c(t)}])]
           h == CHOOSE h : h = body(h)
<1> HIDE DEF A, base, op
<1>4. PICK q : /\ SetFolds(q, S, base, Step)
               /\ \A t \in SUBSET S : q[t] \in A
  <2>1. \A x \in S : \A a \in A : Step[x][a] \in A
    BY <1>3
  <2> HIDE DEF Step
  <2> QED
    BY <1>1, <1>2, <2>1, SetFold
<1>5. \A t \in SUBSET S : t # {} => c(t) \in t /\ c(t) \in S
  OBVIOUS
<1>6. h = body(h)
  <2>1. q = body(q)
    BY <1>4, <1>5 DEF SetFolds
  <2> HIDE DEF body
  <2> QED
    BY <2>1
<1>7. h[S] \in A
  <2> HIDE DEF h
  <2>1. \A t \in SUBSET S : t # {} /\ h[t \ {c(t)}] \in A => h[t] \in A
    <3> SUFFICES ASSUME NEW t \in SUBSET S, t # {}, h[t \ {c(t)}] \in A PROVE h[t] \in A
      OBVIOUS
    <3>1. c(t) \in S
      BY <1>5
    <3>2. h[t] = op(c(t), h[t \ {c(t)}])
      BY <1>6
    <3> HIDE DEF c
    <3> QED
      BY <1>3, <3>1, <3>2
  <2>2. h[{}] \in A
    BY <1>2, <1>6
  <2>3. SetStays(h, S, A)
    BY <2>1, <2>2 DEF SetStays
  <2> QED
    BY <1>1, <2>3, SetFoldIn
<1>8. Repoint(g, found, val) = h[S]
  BY DEF Repoint, FoldSet, MapThenFoldSet, S, base, op, c
<1> HIDE DEF h
<1>9. Repoint(g, found, val) \in A
  BY <1>7, <1>8
<1> QED
  BY <1>9 DEF A

\* The first string that is added.
LEMMA GoodAddFirst ==
    ASSUME NEW e, Base(e), NEW g, NEW E, NEW T, Good(e, g, E, T),
           NEW s \in Seq(Character), Len(T) <= Section(e, ".dynstr").sh_size
    PROVE  LET x == AddString(g, 0, s)
           IN  \E T2 : /\ Good(e, x, E, T2) /\ DOMAIN x.rep = DOMAIN g.rep \cup {".dynstr"}
                       /\ Len(T2) = Section(e, ".dynstr").sh_size + 0 + Len(s) + 1
<1> DEFINE n == Section(e, ".dynstr").sh_size
<1>1. \A k \in Nat : Len(T) <= n + k =>
          \E T2 : /\ Good(e, AddString(g, k, s), E, T2)
                  /\ DOMAIN AddString(g, k, s).rep = DOMAIN g.rep \cup {".dynstr"}
                  /\ Len(T2) = n + k + Len(s) + 1
  BY GoodAddString
<1>2. n \in Nat /\ Len(T) \in Nat
  BY GoodFields, BaseFields
<1>3. Len(T) <= n + 0 /\ 0 \in Nat
  BY <1>2
<1> QED
  BY <1>1, <1>3

\* The new path goes to the place of the old one, or behind the strings.
LEMMA SetPathInMakes ==
    ASSUME NEW e, Ready(e), findSection3(e, ".dynamic") # 0, NEW E, NEW T,
           Good(e, e, E, T), Entries(e) = E,
           NEW w, NEW E1, NEW T1, Good(e, w, E1, T1), w.rep = e.rep,
           DOMAIN E1 = DOMAIN E,
           \A k \in DOMAIN E : E1[k].d_tag \in {E[k].d_tag, "DT_RUNPATH", "DT_IGNORE"},
           NEW new \in Seq(Character), NEW force
    PROVE  \E E2, T2 : Good(e, SetPathIn(w, e, new, force), E2, T2)
<1> DEFINE old == PathEntry(e)
           grown == AddString(w, 0, new)
           n == Section(e, ".dynstr").sh_size
           d == Dyn(IF force THEN "DT_RPATH" ELSE "DT_RUNPATH", StrSize(e))
           val == E[old].d_val
           addr == Section(e, ".dynstr").sh_addr
           x == [w EXCEPT !.contents =
                    Overwrite(@, Section(e, ".dynstr").sh_offset + val, CString(new))]
           fits == Len(new) <= Len(SearchPath(e))
<1>1. /\ Base(e) /\ ".dynamic" \notin DOMAIN e.rep /\ ".dynstr" \notin DOMAIN e.rep
      /\ ".dynamic" \notin DOMAIN w.rep /\ ".dynstr" \notin DOMAIN w.rep
  BY ReadyState
<1>2. E \in Seq(Elf_Dyn) /\ State(e, e, E, T) /\ Len(T) = n /\ n \in Nat /\ T[Len(T)] = Zero
      /\ \A k \in DOMAIN E : EntryOk(E[k], T, addr) /\ E[k].d_val \in Nat
  <2>1. ".dynstr" \notin DOMAIN e.rep
    BY <1>1
  <2> QED
    BY <1>1, <2>1, GoodFields
<1>3. E1 \in Seq(Elf_Dyn) /\ State(e, w, E1, T1) /\ T1 \in Seq(Cell) /\ Len(T1) = n
      /\ T1[Len(T1)] = Zero /\ StringsIn(E1, T1, addr)
  <2>1. ".dynstr" \notin DOMAIN w.rep
    BY <1>1
  <2> QED
    BY <1>1, <2>1, GoodFields DEF Good
<1>4. old # 0 => old \in DOMAIN E /\ E[old].d_tag \in {"DT_RPATH", "DT_RUNPATH"}
  BY <1>2, LastWithIs DEF PathEntry
<1>5. /\ old # 0 /\ fits => SetPathIn(w, e, new, force) = x
      /\ old # 0 /\ ~fits => SetPathIn(w, e, new, force) = Repoint(grown, E, StrSize(e))
      /\ old = 0 => SetPathIn(w, e, new, force) = AddEntries(grown, <<d>>)
  <2> HIDE DEF fits, old, grown, d
  <2> QED
    BY DEF SetPathIn, fits, old, grown, d
<1>6. old # 0 => SearchPath(e) = Str(e, val)
  BY DEF SearchPath
<1> HIDE DEF old
<1>7. old # 0 => val \in Nat /\ val < n
  <2>1. old # 0 => EntryOk(E[old], T, addr) /\ E[old].d_val \in Nat
    BY <1>2, <1>4
  <2> QED
    BY <1>2, <1>4, <2>1 DEF EntryOk
<1> HIDE DEF val
<1>8. CASE old # 0 /\ fits
  <2>1. Str(e, val) \in Seq(Character) /\ val + Len(Str(e, val)) < n
    <3>1. val \in Nat /\ val < Len(T) /\ ".dynstr" \notin DOMAIN e.rep
      BY <1>1, <1>2, <1>7, <1>8
    <3>2. Str(e, val) \in Seq(Character) /\ val + Len(Str(e, val)) < Len(T)
      BY <1>1, <1>2, <3>1, StringEnds
    <3> QED
      BY <1>2, <3>2
  <2>2. val + Len(new) + 1 <= Len(T1)
    <3>1. Len(Str(e, val)) \in Nat /\ Len(new) \in Nat /\ Len(new) <= Len(Str(e, val))
      BY <1>6, <1>8, <2>1
    <3> QED
      BY <1>2, <1>3, <1>7, <1>8, <2>1, <3>1
  <2>3. PICK T2 \in Seq(Cell) : State(e, x, E1, T2) /\ Len(T2) = Len(T1) /\ T2[Len(T2)] = Zero
    <3>1. ".dynstr" \notin DOMAIN w.rep /\ val \in Nat
      BY <1>1, <1>7, <1>8
    <3> QED
      BY <1>1, <1>3, <2>2, <3>1, StringWritten, SMTT(30)
  <2>4. StringsIn(E1, T2, addr)
    <3>1. Len(T2) >= Len(T1)
      BY <1>2, <1>3, <2>3
    <3> QED
      BY <1>3, <2>3, <3>1, StringsKept
  <2> HIDE DEF x
  <2>5. Good(e, x, E1, T2)
    BY <2>3, <2>4 DEF Good
  <2> QED
    BY <1>5, <1>8, <2>5
<1>9. PICK T3 : /\ Good(e, grown, E1, T3) /\ ".dynamic" \notin DOMAIN grown.rep
                /\ Len(T3) = n + 0 + Len(new) + 1
  <2>1. Len(T1) <= n
    BY <1>2, <1>3
  <2>3. \E T3 : /\ Good(e, grown, E1, T3) /\ DOMAIN grown.rep = DOMAIN w.rep \cup {".dynstr"}
                /\ Len(T3) = n + 0 + Len(new) + 1
    BY <1>1, <2>1, GoodAddFirst
  <2> QED
    BY <1>1, <2>3
<1> HIDE DEF grown
<1>10. ".dynamic" \notin DOMAIN grown.rep /\ StrSize(e) = n /\ n < Len(T3)
  <2>1. Len(new) \in Nat
    OBVIOUS
  <2> QED
    BY <1>2, <1>9, <2>1 DEF StrSize
<1>11. CASE old # 0 /\ ~fits
  <2>1. \A t \in {"DT_RPATH", "DT_RUNPATH"} : \A k \in DOMAIN E :
            E[k].d_tag = t => E1[k].d_tag # "DT_STRTAB"
    OBVIOUS
  <2>2. \E E2 : Good(e, Repoint(grown, E, n), E2, T3)
    BY <1>1, <1>2, <1>9, <1>10, <2>1, RepointMakes
  <2> QED
    BY <1>5, <1>10, <1>11, <2>2
<1>12. CASE old = 0
  <2>1. d \in Elf_Dyn /\ d.d_tag # "DT_NULL" /\ EntryOk(d, T3, addr)
    <3>1. d \in Elf_Dyn
      BY <1>2, <1>10, TagTypes
    <3>2. d.d_tag \in {"DT_RPATH", "DT_RUNPATH"} /\ d.d_val = n
      BY <1>10 DEF Dyn
    <3> HIDE DEF d, n
    <3> QED
      BY <1>10, <3>1, <3>2 DEF EntryOk
  <2> HIDE DEF d
  <2> DEFINE N == <<d>>
  <2>2. N \in Seq(Elf_Dyn) /\ \A k \in DOMAIN N : N[k].d_tag # "DT_NULL" /\ EntryOk(N[k], T3, addr)
    BY <2>1
  <2> HIDE DEF N
  <2>3. Good(e, AddEntries(grown, N), N \o E1, T3)
    BY <1>1, <1>9, <1>10, <2>2, GoodAdd
  <2> QED
    BY <1>5, <1>12, <2>3 DEF N
<1> HIDE DEF fits
<1> QED
  BY <1>8, <1>11, <1>12

LEMMA SetPathMakes ==
    ASSUME NEW e, Ready(e), findSection3(e, ".dynamic") # 0,
           NEW new \in Seq(Character), NEW force
    PROVE  \E E2, T2 : Good(e, SetPath(e, new, force), E2, T2)
<1> DEFINE old == PathEntry(e)
           wiped == IF old = 0 THEN e ELSE WipeString(e, Entries(e)[old].d_val)
           w == ConvertTag(wiped, force)
<1>1. Base(e) /\ ".dynamic" \notin DOMAIN e.rep /\ ".dynstr" \notin DOMAIN e.rep
  BY ReadyState
<1>2. PICK E, T : Good(e, e, E, T) /\ Entries(e) = E
  BY ReadyState
<1>3. E \in Seq(Elf_Dyn)
  BY <1>1, <1>2, GoodFields
<1>4. old # 0 => old \in DOMAIN E /\ E[old].d_tag \in {"DT_RPATH", "DT_RUNPATH"}
  BY <1>2, <1>3, LastWithIs DEF PathEntry
<1>5. SetPath(e, new, force) = SetPathIn(w, e, new, force)
  BY DEF SetPath
<1> HIDE DEF old
<1>6. PICK T1 : Good(e, wiped, E, T1) /\ wiped.rep = e.rep
  <2>1. CASE old = 0
    BY <1>2, <2>1
  <2>2. CASE old # 0
    <3>1. ".dynstr" \notin DOMAIN e.rep /\ old \in DOMAIN E
          /\ E[old].d_tag \in {"DT_SONAME", "DT_RPATH", "DT_RUNPATH"}
      BY <1>1, <1>4, <2>2
    <3> QED
      BY <1>1, <1>2, <2>2, <3>1, GoodWipe
  <2> QED
    BY <2>1, <2>2
<1> HIDE DEF wiped
<1>7. PICK E1 : /\ Good(e, w, E1, T1) /\ DOMAIN E1 = DOMAIN E /\ w.rep = wiped.rep
                /\ \A k \in DOMAIN E :
                       E1[k].d_tag \in {E[k].d_tag, "DT_RUNPATH", "DT_IGNORE"}
  <2>1. ".dynamic" \notin DOMAIN wiped.rep
    BY <1>1, <1>6
  <2> QED
    BY <1>1, <1>6, <2>1, ConvertMakes
<1>8. w.rep = e.rep
  BY <1>6, <1>7
<1> HIDE DEF w
<1>9. \E E2, T2 : Good(e, SetPathIn(w, e, new, force), E2, T2)
  BY <1>2, <1>7, <1>8, SetPathInMakes
<1> QED
  BY <1>5, <1>9

\* modifyRPath.
LEMMA ModifyRPathMakes ==
    ASSUME NEW e, Ready(e), NEW op, NEW path \in Seq(Character), NEW force
    PROVE  LET g == modifyRPath(e, op, path, force)
           IN  Outcome(e, g) /\ (op = "rpRemove" /\ g.err = "" => Ready(g))
<1> DEFINE checked == CheckStrTab(e)
           shrunk == ShrunkPath(SearchPath(e), NeededLibs(e))
           new == IF op = "rpShrink" THEN shrunk ELSE path
           x == SetPath(e, new, force)
<1>1. \/ modifyRPath(e, op, path, force) = checked
      \/ checked.err = "" /\ modifyRPath(e, op, path, force) = removeRPath(e)
      \/ modifyRPath(e, op, path, force) = e
      \/ /\ checked.err = "" /\ (op = "rpShrink" => SearchPath(e) # None)
         /\ modifyRPath(e, op, path, force) = [x EXCEPT !.changed = TRUE]
  <2> HIDE DEF checked, x, new
  <2> QED
    BY DEF modifyRPath, checked, x, new
<1>2. Outcome(e, e) /\ Outcome(e, checked)
      /\ (checked.err = "" => findSection3(e, ".dynamic") # 0)
  BY SameOutcome, CheckStrTabMakes
<1>3. checked.err = "" => Outcome(e, removeRPath(e))
  BY <1>2, RemoveRPathMakes
<1>4. ASSUME checked.err = "", op = "rpShrink" => SearchPath(e) # None
      PROVE  Outcome(e, [x EXCEPT !.changed = TRUE])
  <2>1. new \in Seq(Character)
    <3>1. e \in Object
      BY DEF Ready
    <3>2. op = "rpShrink" => shrunk \in Seq(Character)
      BY <1>4, <3>1, SearchPathTypes, ShrunkPathTypes
    <3> HIDE DEF shrunk
    <3> QED
      BY <3>2
  <2> HIDE DEF new
  <2>2. PICK E2, T2 : Good(e, x, E2, T2)
    BY <1>2, <1>4, <2>1, SetPathMakes
  <2> HIDE DEF x
  <2> QED
    BY <2>2, GoodChanged, GoodOutcome
<1>5. op = "rpRemove" => modifyRPath(e, op, path, force) \in {checked, removeRPath(e)}
  <2> HIDE DEF checked, x, new
  <2> QED
    BY DEF modifyRPath, checked
<1>6. checked.err = "" => Ready(checked) /\ Ready(removeRPath(e))
  BY <1>2, CheckStrTabMakes, RemoveRPathMakes
<1>7. checked.err # "" => modifyRPath(e, op, path, force) = checked
  <2> HIDE DEF checked
  <2> QED
    BY DEF modifyRPath, checked
<1> HIDE DEF checked, x
<1>8. Outcome(e, modifyRPath(e, op, path, force))
  BY <1>1, <1>2, <1>3, <1>4
<1> QED
  BY <1>5, <1>6, <1>7, <1>8

\* removeNeeded.
LEMMA RemoveNeededMakes ==
    ASSUME NEW e, Ready(e), NEW libs
    PROVE  LET g == removeNeeded(e, libs)
           IN  Outcome(e, g) /\ (g.err = "" => Ready(g))
<1> DEFINE kept == Selected(Entries(e),
                       LAMBDA d : d.d_tag = "DT_NEEDED" => Str(e, d.d_val) \notin libs)
           gone == Len(Entries(e)) - Len(kept)
           x == [e EXCEPT
                    !.contents = Overwrite(@, Section(e, ".dynamic").sh_offset,
                                     FlattenSeq([i \in DOMAIN kept |-> Struct(kept[i])])
                                         \o Zeros(gone * Word)),
                    !.changed = @ \/ gone > 0]
           found == Find(e, {".dynamic", ".dynstr"})
<1>0. e \in Object /\ e.err = ""
  BY DEF Ready
<1>1. \/ removeNeeded(e, libs) = e \/ removeNeeded(e, libs) = Fail(e, "error")
      \/ found.err = "" /\ removeNeeded(e, libs) = x
  BY DEF removeNeeded, Compact
<1>2. ASSUME found.err = "" PROVE Outcome(e, x) /\ Ready(x)
  <2>1. findSection3(e, ".dynamic") # 0
    BY <1>0, <1>2, FindIs
  <2>2. Base(e) /\ ".dynamic" \notin DOMAIN e.rep /\ ".dynstr" \notin DOMAIN e.rep
    BY <2>1, ReadyState
  <2>3. PICK E, T : Good(e, e, E, T) /\ Entries(e) = E
    BY <2>1, ReadyState
  <2>4. E \in Seq(Elf_Dyn) /\ State(e, e, E, T) /\ StringsIn(E, T, Section(e, ".dynstr").sh_addr)
    BY <2>2, <2>3, GoodFields DEF Good
  <2>5. KeptOf(kept, E)
    <3>1. Entries(e) \in Seq(Elf_Dyn)
      BY <2>3, <2>4
    <3>2. KeptOf(kept, Entries(e))
      <4> DEFINE q == Entries(e)
                 n == Len(q)
                 A == Seq(Elf_Dyn)
                 base == <<>>
                 keep(d) == d.d_tag = "DT_NEEDED" => Str(e, d.d_val) \notin libs
                 K == {i \in Indices(n) : keep(q[i])}
                 op(a, i) == IF keep(q[i]) THEN Append(a, q[i]) ELSE a
      <4>1. n \in Nat /\ DOMAIN q = Indices(n)
        BY <3>1, LenProperties DEF Indices
      <4>2. base \in A
        OBVIOUS
      <4>3. \A i \in Indices(n) : \A a \in A : op(a, i) \in A
        <5> SUFFICES ASSUME NEW i \in Indices(n), NEW a \in A PROVE op(a, i) \in A
          OBVIOUS
        <5>1. q[i] \in Elf_Dyn
          BY <3>1, <4>1
        <5>2. Append(a, q[i]) \in A
          BY <5>1, AppendProperties
        <5> HIDE DEF keep, A
        <5> QED
          BY <5>2
      <4> DEFINE Step == [i \in Indices(n) |-> [a \in A |-> op(a, i)]]
                 StepK == [i \in Indices(n) |-> [a \in A |-> IF i \in K THEN Append(a, q[i]) ELSE a]]
                 body(h) == [t \in SUBSET DOMAIN q |->
                                 IF t = {} THEN base ELSE op(h[t \ {Max(t)}], Max(t))]
                 h == CHOOSE h : h = body(h)
      <4>9. \A i \in Indices(n) : \A a \in A : StepK[i][a] = op(a, i)
        <5> HIDE DEF n, A, keep
        <5> QED
          OBVIOUS
      <4> HIDE DEF n, A, base, op, q
      <4>4. PICK g : /\ LeftFolds(g, n, base, Step)
                     /\ \A t \in SUBSET Indices(n) : g[t] \in A
        <5>1. \A i \in Indices(n) : \A a \in A : Step[i][a] \in A
          BY <4>3
        <5> HIDE DEF Step
        <5> QED
          BY <4>1, <4>2, <5>1, LeftFold
      <4>5. \A t \in SUBSET Indices(n) : t # {} => Max(t) \in Indices(n)
        BY <4>1, LastIn
      <4>6. h = body(h)
        <5>1. g = body(g)
          BY <4>1, <4>4, <4>5 DEF LeftFolds
        <5> HIDE DEF body
        <5> QED
          BY <5>1
      <4>7. LeftRuns(h, n, base, StepK, A)
        <5> HIDE DEF h, StepK
        <5> QED
          BY <4>1, <4>5, <4>6, <4>9 DEF LeftRuns
      <4>8. Selected(Entries(e), keep) = h[DOMAIN q]
        BY DEF Selected, FoldLeft, MapThenFoldSet, q, base, op
      <4>10. KeptOf(h[Indices(n)], q)
        <5> HIDE DEF h, K
        <5>1. q \in Seq(Elf_Dyn)
          BY <3>1 DEF q
        <5> QED
          BY <4>7, <5>1, KeptChain DEF n, A, base
      <4> HIDE DEF h
      <4> QED
        BY <4>1, <4>8, <4>10 DEF q
    <3> HIDE DEF kept
    <3> QED
      BY <2>3, <3>2
  <2> HIDE DEF kept
  <2>6. State(e, x, kept, T)
    <3>1. ".dynamic" \notin DOMAIN e.rep
      BY <2>2
    <3> QED
      BY <2>2, <2>4, <2>5, <3>1, CompactMakes
  <2>7. StringsIn(kept, T, Section(e, ".dynstr").sh_addr)
    BY <2>4, <2>5, StringsKept
  <2>8. x.rep = e.rep /\ x.err = ""
    BY <1>0 DEF Object, Elf_Object
  <2> HIDE DEF x
  <2>9. Outcome(e, x)
    <3>1. Good(e, x, kept, T)
      BY <2>6, <2>7 DEF Good
    <3> QED
      BY <3>1, GoodOutcome
  <2>10. Ready(x)
    BY <2>2, <2>8, <2>9, ReadyAgain
  <2> QED
    BY <2>9, <2>10
<1> HIDE DEF x, found
<1>3. /\ Outcome(e, e) /\ Outcome(e, Fail(e, "error"))
      /\ Fail(e, "error").err = "error"
  BY <1>0, SameOutcome, FailedOutcome
<1> QED
  BY <1>1, <1>2, <1>3

\* noDefaultLib.
LEMMA NoDefaultLibMakes ==
    ASSUME NEW e, Ready(e)
    PROVE  Outcome(e, noDefaultLib(e))
<1> DEFINE entries == Entries(e)
           found == {i \in DOMAIN entries : entries[i].d_tag = "DT_FLAGS_1"}
           i == Min(found)
           flag == Raw(e, NoDefLib)
           d == Dyn("DT_FLAGS_1", flag)
           d2 == [entries[i] EXCEPT !.d_val = @ + flag]
           x == AddEntries(e, <<d>>)
           y == SetEntry(e, i, d2)
           addr == Section(e, ".dynstr").sh_addr
<1>0. e \in Object /\ e.err = ""
  BY DEF Ready
<1>1. \/ noDefaultLib(e) = e \/ noDefaultLib(e) = Fail(e, "error")
      \/ findSection3(e, ".dynamic") # 0 /\ noDefaultLib(e) = [x EXCEPT !.changed = TRUE]
      \/ /\ findSection3(e, ".dynamic") # 0 /\ found # {}
         /\ noDefaultLib(e) = [y EXCEPT !.changed = TRUE]
  BY DEF noDefaultLib
<1> HIDE DEF x, y
<1>2. ASSUME findSection3(e, ".dynamic") # 0
      PROVE  /\ Outcome(e, [x EXCEPT !.changed = TRUE])
             /\ found # {} => Outcome(e, [y EXCEPT !.changed = TRUE])
  <2>2. Base(e) /\ ".dynamic" \notin DOMAIN e.rep /\ ".dynstr" \notin DOMAIN e.rep
    BY <1>2, ReadyState
  <2>3. PICK E, T : Good(e, e, E, T) /\ Entries(e) = E
    BY <1>2, ReadyState
  <2>4. E \in Seq(Elf_Dyn) /\ ".dynamic" \notin DOMAIN e.rep
        /\ \A k \in DOMAIN E : E[k] \in Elf_Dyn /\ E[k].d_val \in Nat
    BY <2>2, <2>3, GoodFields
  <2>5. flag \in Nat
    <3>1. NoDefLib \in Nat
      BY DEF NoDefLib
    <3> QED
      BY <3>1, RawTypes
  <2> HIDE DEF flag
  <2>6. d \in Elf_Dyn /\ d.d_tag = "DT_FLAGS_1" /\ EntryOk(d, T, addr)
    <3>1. d \in Elf_Dyn /\ d.d_tag = "DT_FLAGS_1"
      BY <2>5, TagTypes DEF Dyn
    <3> HIDE DEF d
    <3> QED
      BY <3>1 DEF EntryOk
  <2> HIDE DEF d
  <2>7. Outcome(e, [x EXCEPT !.changed = TRUE])
    <3> DEFINE N == <<d>>
    <3>1. N \in Seq(Elf_Dyn) /\ \A k \in DOMAIN N : N[k].d_tag # "DT_NULL" /\ EntryOk(N[k], T, addr)
      BY <2>6
    <3> HIDE DEF N
    <3>2. Good(e, AddEntries(e, N), N \o E, T)
      BY <2>2, <2>3, <2>4, <3>1, GoodAdd
    <3>3. x = AddEntries(e, N)
      BY DEF x, N
    <3>4. Good(e, x, N \o E, T)
      BY <3>2, <3>3
    <3> QED
      BY <3>4, GoodChanged, GoodOutcome
  <2>8. ASSUME found # {} PROVE Outcome(e, [y EXCEPT !.changed = TRUE])
    <3>1. i \in DOMAIN E /\ E[i].d_tag = "DT_FLAGS_1"
      <4>1. found \subseteq Nat
        BY <2>3, <2>4
      <4>2. i \in found
        <5> HIDE DEF found
        <5> QED
          BY <2>8, <4>1, LeastNat
      <4> HIDE DEF i
      <4> QED
        BY <2>3, <4>2
    <3> HIDE DEF i
    <3>2. d2 \in Elf_Dyn /\ d2.d_tag = "DT_FLAGS_1"
      <4>1. \A z \in Elf_Dyn : \A v \in Nat :
                [z EXCEPT !.d_val = v] \in Elf_Dyn /\ [z EXCEPT !.d_val = v].d_tag = z.d_tag
        BY DEF Elf_Dyn
      <4>2. E[i] \in Elf_Dyn /\ E[i].d_val + flag \in Nat
        BY <2>4, <2>5, <3>1
      <4> QED
        BY <2>3, <3>1, <4>1, <4>2
    <3> HIDE DEF d2
    <3>3. EntryOk(d2, T, addr) /\ d2.d_tag # "DT_NULL"
      BY <3>2 DEF EntryOk
    <3>4. Good(e, SetEntry(e, i, d2), [E EXCEPT ![i] = d2], T)
      BY <2>2, <2>3, <2>4, <3>1, <3>2, <3>3, GoodSet
    <3>5. y = SetEntry(e, i, d2)
      BY DEF y, d2, i
    <3>6. Good(e, y, [E EXCEPT ![i] = d2], T)
      BY <3>4, <3>5
    <3> QED
      BY <3>6, GoodChanged, GoodOutcome
  <2> QED
    BY <2>7, <2>8
<1> HIDE DEF found
<1> QED
  BY <1>0, <1>1, <1>2, SameOutcome, FailedOutcome

\* One name is replaced: the invariant of the loop over the entries.
Replacing(e, E, r) ==
    /\ r \in [e: Object, added: Nat]
    /\ \E E2, T2 : /\ Good(e, r.e, E2, T2) /\ DOMAIN E2 = DOMAIN E
                   /\ Len(T2) <= Section(e, ".dynstr").sh_size + r.added
    /\ ".dynamic" \notin DOMAIN r.e.rep

LEMMA ReplaceOne ==
    ASSUME NEW e, Base(e), NEW E, NEW r, Replacing(e, E, r), NEW i \in DOMAIN E,
           NEW s \in Seq(Character), NEW val \in Nat
    PROVE  Replacing(e, E,
               [e |-> [SetEntry(AddString(r.e, r.added, s), i, Dyn("DT_NEEDED", val))
                          EXCEPT !.changed = TRUE],
                added |-> r.added + Len(s) + 1])
<1> DEFINE n == Section(e, ".dynstr").sh_size
           d == Dyn("DT_NEEDED", val)
           x == AddString(r.e, r.added, s)
           y == SetEntry(x, i, d)
           z == [y EXCEPT !.changed = TRUE]
           more == r.added + Len(s) + 1
           addr == Section(e, ".dynstr").sh_addr
<1>1. r.e \in Object /\ r.added \in Nat /\ ".dynamic" \notin DOMAIN r.e.rep
  BY DEF Replacing
<1>2. PICK E2, T2 : Good(e, r.e, E2, T2) /\ DOMAIN E2 = DOMAIN E /\ Len(T2) <= n + r.added
  BY DEF Replacing
<1>3. PICK T3 : /\ Good(e, x, E2, T3) /\ DOMAIN x.rep = DOMAIN r.e.rep \cup {".dynstr"}
                /\ Len(T3) = n + r.added + Len(s) + 1
  <2> DEFINE g == r.e
             k == r.added
  <2>1. Good(e, g, E2, T2) /\ Len(T2) <= n + k
    BY <1>2
  <2>2. k \in Nat
    BY <1>1
  <2> HIDE DEF g, k
  <2>3. \E T3 : /\ Good(e, AddString(g, k, s), E2, T3)
                /\ DOMAIN AddString(g, k, s).rep = DOMAIN g.rep \cup {".dynstr"}
                /\ Len(T3) = n + k + Len(s) + 1
    BY <2>1, <2>2, GoodAddString
  <2> QED
    BY <2>3 DEF g, k
<1>4. ".dynamic" \notin DOMAIN x.rep
  BY <1>1, <1>3
<1>5. d \in Elf_Dyn /\ d.d_tag = "DT_NEEDED"
  BY TagTypes DEF Dyn
<1> HIDE DEF d, x
<1>6. d.d_tag # "DT_NULL" /\ EntryOk(d, T3, addr)
  BY <1>5 DEF EntryOk
<1>7. Good(e, y, [E2 EXCEPT ![i] = d], T3) /\ y.rep = x.rep
  <2>1. i \in DOMAIN E2
    BY <1>2
  <2> QED
    BY <1>3, <1>4, <1>5, <1>6, <2>1, GoodSet
<1> HIDE DEF y
<1>8. z \in Object /\ z.rep = y.rep
  <2>1. y \in Object
    BY <1>7, GoodFields
  <2>2. z \in Object
    BY <2>1, ChangedTypes
  <2>3. z.rep = y.rep
    BY <2>1 DEF Object, Elf_Object
  <2> QED
    BY <2>2, <2>3
<1>9. Good(e, z, [E2 EXCEPT ![i] = d], T3)
  BY <1>7, GoodChanged
<1> HIDE DEF z
<1>10. more \in Nat /\ Len(T3) <= n + more
  <2>1. n \in Nat /\ Len(s) \in Nat
    BY BaseFields, LenProperties
  <2> DEFINE l == Len(s)
  <2> HIDE DEF n, l
  <2> QED
    BY <1>1, <1>3, <2>1 DEF l
<1>11. DOMAIN [E2 EXCEPT ![i] = d] = DOMAIN E
  BY <1>2
<1>12. ".dynamic" \notin DOMAIN z.rep
  BY <1>4, <1>7, <1>8
<1> HIDE DEF more
<1> DEFINE q == [e |-> z, added |-> more]
<1>13. q \in [e: Object, added: Nat] /\ q.e = z /\ q.added = more
  BY <1>8, <1>10
<1> HIDE DEF q
<1>14. Replacing(e, E, q)
  <2> DEFINE E3 == [E2 EXCEPT ![i] = d]
  <2>1. Good(e, z, E3, T3) /\ DOMAIN E3 = DOMAIN E
    BY <1>9, <1>11
  <2> HIDE DEF E3
  <2>2. \E E4, T4 : /\ Good(e, q.e, E4, T4) /\ DOMAIN E4 = DOMAIN E
                    /\ Len(T4) <= n + q.added
    BY <1>10, <1>13, <2>1
  <2> QED
    BY <1>12, <1>13, <2>2 DEF Replacing
<1> QED
  BY <1>14 DEF q, z, more, y, x, d

\* replaceNeeded.
LEMMA ReplaceNeededMakes ==
    ASSUME NEW e, Ready(e), NEW D, NEW libs \in [D -> Seq(Character)]
    PROVE  Outcome(e, replaceNeeded(e, libs))
<1> DEFINE entries == Entries(e)
           q == [i \in DOMAIN entries |-> i]
           n == Len(entries)
           A == {r \in [e: Object, added: Nat] : Replacing(e, entries, r)}
           base == [e |-> e, added |-> 0]
           step(acc, i) ==
               LET d == entries[i]
                   name == Str(e, d.d_val)
                   val == Raw(e, Raw(e, StrSize(e)) + acc.added)
               IN  IF d.d_tag # "DT_NEEDED" \/ name \notin DOMAIN libs THEN acc
                   ELSE [e |-> [SetEntry(AddString(acc.e, acc.added, libs[name]), i,
                                         Dyn("DT_NEEDED", val)) EXCEPT !.changed = TRUE],
                         added |-> acc.added + Len(libs[name]) + 1]
           op(a, i) == step(a, q[i])
           all == FoldLeftDomain(step, [e |-> e, added |-> 0], Entries(e))
           found == Find(e, {".dynamic", ".dynstr"})
<1>a. e \in Object /\ e.err = ""
  BY DEF Ready
<1>b. \/ replaceNeeded(e, libs) = e \/ replaceNeeded(e, libs) = Fail(e, "error")
      \/ found.err = "" /\ replaceNeeded(e, libs) = all.e
  <2> HIDE DEF found, all
  <2> QED
    BY DEF replaceNeeded, all, found
<1>g. e \in Object
  BY DEF Ready
<1>f. Raw(e, StrSize(e)) \in Nat
  <2>1. e \in Object /\ 0 \in Int
    BY <1>g
  <2>2. StrSize(e) \in Nat
    BY <2>1, StrTypes
  <2> QED
    BY <2>2, RawTypes
<1>s. SUFFICES ASSUME found.err = "" PROVE Outcome(e, all.e)
  <2> HIDE DEF all, found
  <2> QED
    BY <1>a, <1>b, SameOutcome, FailedOutcome
<1>c. findSection3(e, ".dynamic") # 0
  BY <1>a, <1>s, FindIs
<1>d. Base(e) /\ ".dynamic" \notin DOMAIN e.rep /\ ".dynstr" \notin DOMAIN e.rep
  BY <1>c, ReadyState
<1>e. PICK T : Good(e, e, entries, T)
  BY <1>c, ReadyState
<1> HIDE DEF found
<1>1. n \in Nat /\ DOMAIN q = Indices(n) /\ entries \in Seq(Elf_Dyn)
  BY <1>a, EntriesTypes, LenProperties DEF Indices
<1>2. base \in A
  <2>1. ".dynstr" \notin DOMAIN e.rep /\ ".dynamic" \notin DOMAIN e.rep
    BY <1>d
  <2>2. Len(T) = Section(e, ".dynstr").sh_size /\ Len(T) \in Nat
    BY <1>d, <1>e, <2>1, GoodFields
  <2>3. base.e = e /\ base.added = 0 /\ base \in [e: Object, added: Nat]
    BY <1>a
  <2> HIDE DEF base
  <2>4. Len(T) <= Section(e, ".dynstr").sh_size + base.added
    <3> DEFINE m == Section(e, ".dynstr").sh_size
               l == Len(T)
               b == base.added
    <3>1. l = m /\ l \in Nat /\ b = 0
      BY <2>2, <2>3
    <3> HIDE DEF m, l, b
    <3>2. l <= m + b
      BY <3>1
    <3> QED
      BY <3>2 DEF m, l, b
  <2>5. Replacing(e, entries, base)
    BY <1>e, <2>1, <2>3, <2>4 DEF Replacing
  <2> QED
    BY <2>3, <2>5
<1>3. \A i \in Indices(n) : \A a \in A : op(a, i) \in A
  <2> SUFFICES ASSUME NEW i \in Indices(n), NEW a \in A PROVE op(a, i) \in A
    OBVIOUS
  <2> DEFINE name == Str(e, entries[i].d_val)
             val == Raw(e, Raw(e, StrSize(e)) + a.added)
             d == Dyn("DT_NEEDED", val)
             s == libs[name]
             z == [SetEntry(AddString(a.e, a.added, s), i, d) EXCEPT !.changed = TRUE]
             more == a.added + Len(s) + 1
             other == entries[i].d_tag # "DT_NEEDED" \/ name \notin DOMAIN libs
             y == [e |-> z, added |-> more]
  <2>0. i \in DOMAIN entries
    BY <1>1
  <2>1. op(a, i) = IF other THEN a ELSE [e |-> z, added |-> more]
    <3>1. q[i] = i
      BY <1>1
    <3> HIDE DEF q, entries
    <3> QED
      BY <3>1 DEF op, step
  <2>2. a.e \in Object /\ a.added \in Nat /\ Replacing(e, entries, a)
    OBVIOUS
  <2> HIDE DEF name, q, entries, op
  <2>3. CASE name \in DOMAIN libs
    <3>1. s \in Seq(Character)
      BY <2>3
    <3>4. val \in Nat
      <4>2. Raw(e, StrSize(e)) \in Nat
        BY <1>f
      <4>3. Raw(e, StrSize(e)) + a.added \in Nat
        BY <2>2, <4>2
      <4> QED
        BY <4>3, RawTypes
    <3> HIDE DEF val, s, A
    <3>5. Replacing(e, entries, y)
      BY <1>d, <2>0, <2>2, <3>1, <3>4, ReplaceOne
    <3> HIDE DEF y
    <3>6. y \in [e: Object, added: Nat]
      BY <3>5 DEF Replacing
    <3>9. y \in A
      BY <3>5, <3>6 DEF A
    <3> HIDE DEF other
    <3> QED
      BY <2>1, <3>9 DEF y
  <2>4. CASE name \notin DOMAIN libs
    <3> HIDE DEF z, more, A
    <3> QED
      BY <2>1, <2>4
  <2> QED
    BY <2>3, <2>4
<1> DEFINE Step == [i \in Indices(n) |-> [a \in A |-> op(a, i)]]
           body(h) == [t \in SUBSET DOMAIN q |->
                           IF t = {} THEN base ELSE op(h[t \ {Max(t)}], Max(t))]
           h == CHOOSE h : h = body(h)
<1> HIDE DEF n, A, base, op, q
<1>4. PICK g : /\ LeftFolds(g, n, base, Step)
               /\ \A t \in SUBSET Indices(n) : g[t] \in A
  <2>1. \A i \in Indices(n) : \A a \in A : Step[i][a] \in A
    BY <1>3
  <2> HIDE DEF Step
  <2> QED
    BY <1>1, <1>2, <2>1, LeftFold
<1>5. \A t \in SUBSET Indices(n) : t # {} => Max(t) \in Indices(n)
  BY <1>1, LastIn
<1>6. h = body(h)
  <2>1. g = body(g)
    BY <1>1, <1>4, <1>5 DEF LeftFolds
  <2> HIDE DEF body
  <2> QED
    BY <2>1
<1>7. h[DOMAIN q] \in A
  <2> HIDE DEF h
  <2>1. LeftStays(h, n, A)
    BY <1>1, <1>3, <1>2, <1>5, <1>6 DEF LeftStays
  <2> QED
    BY <1>1, <2>1, LeftFoldIn
<1>8. all = h[DOMAIN q]
  BY DEF FoldLeftDomain, FoldLeft, MapThenFoldSet, q, base, op
<1> HIDE DEF all, h
<1>9. Replacing(e, entries, all)
  BY <1>7, <1>8 DEF A
<1> HIDE DEF entries
<1>10. \E E2, T2 : Good(e, all.e, E2, T2)
  BY <1>9 DEF Replacing
<1> QED
  BY <1>10, GoodOutcome

-----------------------------------------------------------------------------
(* --add-needed.                                                           *)

\* How long strings are with their NULs, one after the other.
SumStep(q) == [i \in Indices(Len(q)) |-> [a \in Nat |-> a + Len(q[i]) + 1]]

LEMMA PosChain ==
    ASSUME NEW libs \in Seq(Seq(Character))
    PROVE  \E st : /\ Chain(st, Len(libs), 0, SumStep(libs), Nat)
                   /\ st[Len(libs)] = FoldLeft(LAMBDA sum, s : sum + Len(s) + 1, 0, libs)
<1> DEFINE q == libs
           n == Len(q)
           A == Nat
           base == 0
           op(a, i) == a + Len(q[i]) + 1
<1>1. n \in Nat /\ DOMAIN q = Indices(n)
  BY LenProperties DEF Indices
<1>2. base \in A
  OBVIOUS
<1>3. \A i \in Indices(n) : \A a \in A : op(a, i) \in A
  <2> SUFFICES ASSUME NEW i \in Indices(n), NEW a \in A PROVE op(a, i) \in A
    OBVIOUS
  <2>1. q[i] \in Seq(Character)
    BY <1>1
  <2>2. Len(q[i]) \in Nat
    BY <2>1, LenProperties
  <2> HIDE DEF q
  <2> QED
    BY <2>2
<1> DEFINE Step == [i \in Indices(n) |-> [a \in A |-> op(a, i)]]
           body(h) == [t \in SUBSET DOMAIN q |->
                           IF t = {} THEN base ELSE op(h[t \ {Max(t)}], Max(t))]
           h == CHOOSE h : h = body(h)
<1>0. Step = SumStep(libs)
  BY DEF SumStep
<1> HIDE DEF n, A, base, op, q
<1>4. PICK g : /\ LeftFolds(g, n, base, Step)
               /\ \A t \in SUBSET Indices(n) : g[t] \in A
  <2>1. \A i \in Indices(n) : \A a \in A : Step[i][a] \in A
    BY <1>3
  <2> HIDE DEF Step
  <2> QED
    BY <1>1, <1>2, <2>1, LeftFold
<1>5. \A t \in SUBSET Indices(n) : t # {} => Max(t) \in Indices(n)
  BY <1>1, LastIn
<1>6. h = body(h)
  <2>1. g = body(g)
    BY <1>1, <1>4, <1>5 DEF LeftFolds
  <2> HIDE DEF body
  <2> QED
    BY <2>1
<1>7. LeftRuns(h, n, base, Step, A)
  <2> HIDE DEF h
  <2> QED
    BY <1>1, <1>3, <1>5, <1>6 DEF LeftRuns
<1> DEFINE add(sum, s) == sum + Len(s) + 1
<1>8. FoldLeft(add, 0, libs) = h[DOMAIN q]
  BY DEF FoldLeft, MapThenFoldSet, q, base, op
<1>9. \E st : Chain(st, n, base, Step, A) /\ st[n] = h[Indices(n)]
  <2>1. \A i \in Indices(n) : \A a \in A : Step[i][a] \in A
    BY <1>3
  <2>2. n \in Nat
    BY <1>1
  <2>3. \A z, w : LeftRuns(z, n, base, w, A) /\ (\A i \in Indices(n) : \A a \in A : w[i][a] \in A)
            => \E st : Chain(st, n, base, w, A) /\ st[n] = z[Indices(n)]
    BY <1>2, <2>2, ChainOf, ZenonT(60)
  <2> HIDE DEF Step, h, body
  <2> QED
    BY <1>7, <2>1, <2>3
<1>10. PICK st : Chain(st, n, base, Step, A) /\ st[n] = h[Indices(n)]
  BY <1>9
<1> HIDE DEF h, Step
<1>11. Chain(st, Len(libs), 0, SumStep(libs), Nat)
  BY <1>0, <1>10 DEF n, base, A, q
<1>12. st[Len(libs)] = FoldLeft(add, 0, libs)
  BY <1>1, <1>8, <1>10 DEF n, q
<1> QED
  BY <1>11, <1>12

\* The place of a string is behind those before it.
Pos(libs, i) == FoldLeft(LAMBDA sum, s : sum + Len(s) + 1, 0, SubSeq(libs, 1, i - 1))

LEMMA PosIs ==
    ASSUME NEW libs \in Seq(Seq(Character)), NEW st, Chain(st, Len(libs), 0, SumStep(libs), Nat)
    PROVE  \A i \in 1 .. Len(libs) + 1 : Pos(libs, i) = st[i - 1]
<1> DEFINE n == Len(libs)
<1>1. n \in Nat /\ DOMAIN libs = 1 .. n
  BY LenProperties
<1> SUFFICES ASSUME NEW i \in 1 .. n + 1 PROVE Pos(libs, i) = st[i - 1]
  OBVIOUS
<1> DEFINE s == SubSeq(libs, 1, i - 1)
           m == i - 1
<1>2. m \in 0 .. n /\ m \in Nat
  BY <1>1
<1>3. s \in Seq(Seq(Character)) /\ Len(s) = m /\ \A k \in 1 .. m : s[k] = libs[k]
  BY <1>1, <1>2
<1>4. Pos(libs, i) = FoldLeft(LAMBDA sum, t : sum + Len(t) + 1, 0, s)
  BY DEF Pos
<1> HIDE DEF s, m, n
<1>5. PICK st2 : /\ Chain(st2, Len(s), 0, SumStep(s), Nat)
                 /\ st2[Len(s)] = FoldLeft(LAMBDA sum, t : sum + Len(t) + 1, 0, s)
  BY <1>3, PosChain
<1>a. Chain(st2, Len(s), 0, SumStep(s), Nat)
  BY <1>5
<1>6. \A k \in 0 .. m : st2[k] = st[k]
  <2> DEFINE T == {k \in 0 .. m : st2[k] = st[k]}
  <2>1. st2[0] = 0 /\ st[0] = 0
    <3>1. st2[0] = 0
      BY <1>a DEF Chain
    <3>2. st[0] = 0
      BY DEF Chain
    <3> QED
      BY <3>1, <3>2
  <2>2. ASSUME NEW k \in 1 .. m PROVE st2[k] = SumStep(s)[k][st2[k - 1]] /\ st2[k - 1] \in Nat
    <3>1. Chain(st2, m, 0, SumStep(s), Nat)
      BY <1>3, <1>a
    <3>2. k \in 1 .. m /\ k - 1 \in 0 .. m
      BY <1>2
    <3>3. \A w : Chain(st2, m, 0, w, Nat) =>
              st2[k] = w[k][st2[k - 1]] /\ st2[k - 1] \in Nat
      BY ONLY <3>2 DEF Chain
    <3> QED
      BY <3>1, <3>3
  <2>3. ASSUME NEW k \in 1 .. m PROVE st[k] = SumStep(libs)[k][st[k - 1]]
    BY <1>1, <1>2 DEF Chain, n
  <2>4. ASSUME NEW k \in 1 .. m, NEW a \in Nat PROVE SumStep(s)[k][a] = SumStep(libs)[k][a]
    <3>1. k \in Indices(m) /\ k \in Indices(n)
      BY <1>1, <1>2 DEF Indices
    <3>2. SumStep(s)[k][a] = a + Len(s[k]) + 1
      BY <1>3, <3>1 DEF SumStep
    <3>3. SumStep(libs)[k][a] = a + Len(libs[k]) + 1
      BY <3>1 DEF SumStep, n
    <3> QED
      BY <1>3, <3>2, <3>3
  <2>5. 0 \in T
    BY <1>2, <2>1
  <2>6. ASSUME NEW k \in 1 .. m, k - 1 \in T PROVE k \in T
    <3>1. st2[k - 1] = st[k - 1]
      BY <2>6
    <3>2. st2[k] = st[k]
      BY <2>2, <2>3, <2>4, <3>1
    <3>3. k \in 0 .. m
      OBVIOUS
    <3> QED
      BY <3>2, <3>3
  <2> HIDE DEF T
  <2>7. \A k \in 0 .. m : k \in T
    BY <1>2, <2>5, <2>6, UpTo
  <2> QED
    BY <2>7 DEF T
<1>7. st2[m] = st[m]
  BY <1>2, <1>6
<1> QED
  BY <1>3, <1>4, <1>5, <1>7 DEF m

\* Each string ends before the next one begins.
LEMMA PosApart ==
    ASSUME NEW libs \in Seq(Seq(Character))
    PROVE  /\ \A i \in 1 .. Len(libs) + 1 : Pos(libs, i) \in Nat
           /\ \A i \in 1 .. Len(libs) :
                  Pos(libs, i) + Len(libs[i]) + 1 <= Pos(libs, Len(libs) + 1)
<1> DEFINE n == Len(libs)
<1>1. n \in Nat /\ DOMAIN libs = 1 .. n
  BY LenProperties
<1>2. PICK st : Chain(st, Len(libs), 0, SumStep(libs), Nat)
  BY PosChain
<1>3. \A i \in 1 .. n + 1 : Pos(libs, i) = st[i - 1]
  BY <1>2, PosIs
<1>4. \A k \in 0 .. n : st[k] \in Nat
  BY <1>2 DEF Chain
<1>5. ASSUME NEW k \in 1 .. n PROVE st[k] = st[k - 1] + Len(libs[k]) + 1 /\ Len(libs[k]) \in Nat
  <2>1. k \in Indices(n) /\ k - 1 \in 0 .. n
    BY <1>1 DEF Indices
  <2>2. st[k] = SumStep(libs)[k][st[k - 1]] /\ st[k - 1] \in Nat
    BY <1>2, <1>4, <2>1 DEF Chain
  <2>3. SumStep(libs)[k][st[k - 1]] = st[k - 1] + Len(libs[k]) + 1
    BY <2>1, <2>2 DEF SumStep
  <2>4. libs[k] \in Seq(Character)
    BY <1>1
  <2> QED
    BY <2>2, <2>3, <2>4
<1> HIDE DEF n
<1>6. \A k \in 0 .. n : \A i \in 0 .. k : st[i] <= st[k]
  <2> DEFINE T == {k \in 0 .. n : \A i \in 0 .. k : st[i] <= st[k]}
  <2>1. 0 \in T
    <3>1. st[0] \in Nat /\ \A i \in 0 .. 0 : i = 0
      BY <1>1, <1>4
    <3>2. \A i \in 0 .. 0 : st[i] <= st[0]
      BY <3>1
    <3>3. 0 \in 0 .. n
      BY <1>1
    <3> QED
      BY <3>2, <3>3
  <2>2. ASSUME NEW k \in 1 .. n, k - 1 \in T PROVE k \in T
    <3>1. k \in 0 .. n /\ k - 1 \in 0 .. n
      BY <1>1
    <3>2. st[k - 1] \in Nat /\ st[k] \in Nat /\ st[k - 1] <= st[k]
      <4>1. st[k - 1] \in Nat /\ st[k] \in Nat
        BY <1>4, <3>1
      <4> QED
        BY <1>5, <4>1
    <3>3. ASSUME NEW i \in 0 .. k PROVE st[i] <= st[k]
      <4>1. CASE i = k
        BY <3>2, <4>1
      <4>2. CASE i # k
        <5>1. i \in 0 .. k - 1 /\ i \in 0 .. n
          BY <1>1, <4>2
        <5>2. st[i] <= st[k - 1]
          BY <2>2, <5>1
        <5>3. st[i] \in Nat
          BY <1>4, <5>1
        <5> QED
          BY <3>2, <5>2, <5>3
      <4> QED
        BY <4>1, <4>2
    <3> QED
      BY <3>1, <3>3
  <2> HIDE DEF T
  <2>3. \A k \in 0 .. n : k \in T
    BY <1>1, <2>1, <2>2, UpTo
  <2> QED
    BY <2>3 DEF T
<1>7. ASSUME NEW i \in 1 .. n PROVE Pos(libs, i) + Len(libs[i]) + 1 <= Pos(libs, n + 1)
  <2>1. i \in 1 .. n + 1 /\ n + 1 \in 1 .. n + 1 /\ i \in 0 .. n /\ n \in 0 .. n
    BY <1>1
  <2>2. Pos(libs, i) = st[i - 1] /\ Pos(libs, n + 1) = st[n + 1 - 1]
    BY <1>3, <2>1
  <2>3. n + 1 - 1 = n
    BY <1>1
  <2>4. st[i] <= st[n]
    BY <1>6, <2>1
  <2> QED
    BY <1>5, <2>2, <2>3, <2>4
<1>8. \A i \in 1 .. n + 1 : Pos(libs, i) \in Nat
  <2> TAKE i \in 1 .. n + 1
  <2>1. i - 1 \in 0 .. n
    BY <1>1
  <2> QED
    BY <1>3, <1>4, <2>1
<1> QED
  BY <1>7, <1>8 DEF n

\* The strings behind .dynstr while they are filled in.
Adding(e, size, y) ==
    /\ KeptAs(e, y) /\ ".dynstr" \in DOMAIN y.rep /\ ".dynamic" \notin DOMAIN y.rep
    /\ y.contents = e.contents
    /\ y.rep[".dynstr"] \in Seq(Cell) /\ Len(y.rep[".dynstr"]) = size
    /\ y.rep[".dynstr"][size] = Zero

LEMMA AddingOne ==
    ASSUME NEW e, NEW size \in Nat, NEW y, Adding(e, size, y),
           NEW pos \in Nat, NEW s \in Seq(Character), pos + Len(s) + 1 < size
    PROVE  Adding(e, size, setSubstr(y, ".dynstr", pos, CString(s)))
<1> DEFINE t == CString(s)
           f == y.rep[".dynstr"]
           w == Overwrite(f, pos, t)
           x == setSubstr(y, ".dynstr", pos, t)
<1>1. KeptAs(e, y) /\ ".dynstr" \in DOMAIN y.rep /\ f \in Seq(Cell) /\ Len(f) = size
      /\ f[size] = Zero /\ ".dynamic" \notin DOMAIN y.rep /\ y.contents = e.contents
  BY DEF Adding
<1>2. t \in Seq(Cell) /\ Len(t) = Len(s) + 1 /\ Len(t) \in Nat /\ pos + Len(t) < size
  <2>1. Len(s) \in Nat
    OBVIOUS
  <2>2. t \in Seq(Cell) /\ Len(t) = Len(s) + 1
    BY CStringIs
  <2> DEFINE l == Len(s)
             m == Len(t)
  <2>3. m = l + 1 /\ l \in Nat /\ pos + l + 1 < size
    BY <2>1, <2>2
  <2> HIDE DEF l, m
  <2>4. m \in Nat /\ pos + m < size
    BY <2>3
  <2> QED
    BY <2>2, <2>4 DEF m
<1> HIDE DEF t
<1>3. /\ KeptAs(e, x) /\ x.contents = y.contents /\ DOMAIN x.rep = DOMAIN y.rep
      /\ x.rep[".dynstr"] = w
  <2>1. pos + Len(t) <= Len(y.rep[".dynstr"])
    BY <1>1, <1>2
  <2> HIDE DEF f
  <2>2. KeptAs(e, y) /\ ".dynstr" \in DOMAIN y.rep /\ pos \in Nat /\ t \in Seq(Cell)
    BY <1>1, <1>2
  <2> QED
    BY ONLY <2>1, <2>2, SubstrMakes DEF x, w, f
<1>4. w \in Seq(Cell) /\ Len(w) = Len(f)
  <2>1. f \in Seq(Cell) /\ t \in Seq(Cell) /\ pos \in Int
    BY <1>1, <1>2
  <2> HIDE DEF f
  <2> QED
    BY <2>1, OverwriteTypes
<1>5. w[size] = f[size]
  <2> DEFINE b == size - 1
  <2>1. b \in 0 .. Len(f) - 1 /\ b + 1 = size /\ b - pos \notin 0 .. Len(t) - 1 /\ b \in Int
    BY <1>1, <1>2
  <2> HIDE DEF b
  <2>2. At(w, b) = At(f, b)
    <3> HIDE DEF w
    <3>1. At(w, b) = IF b \in 0 .. Len(f) - 1 /\ b - pos \in 0 .. Len(t) - 1
                     THEN t[b - pos + 1] ELSE At(f, b)
      BY <1>1, <1>2, <2>1, OverwriteAt DEF w
    <3> QED
      BY <2>1, <3>1
  <2> HIDE DEF w, f
  <2> QED
    BY <1>4, <2>1, <2>2 DEF At
<1> HIDE DEF w, f, x
<1>6. Adding(e, size, x)
  BY <1>1, <1>3, <1>4, <1>5 DEF Adding
<1> QED
  BY <1>6 DEF x, t

LEMMA AddingBegins ==
    ASSUME NEW e, Base(e), KeptAs(e, e), ".dynamic" \notin DOMAIN e.rep,
           ".dynstr" \notin DOMAIN e.rep, NEW size \in Nat,
           size > Section(e, ".dynstr").sh_size
    PROVE  Adding(e, size, replaceSection(e, ".dynstr", size))
<1> DEFINE x == replaceSection(e, ".dynstr", size)
           T == Held(e, ".dynstr")
           n == Section(e, ".dynstr").sh_size
           R == Resize(T, size)
<1>1. e \in Object /\ findSection3(e, ".dynstr") # 0 /\ ".dynstr" \in Replaceable
  BY DEF Base, Replaceable
<1>2. /\ KeptAs(e, x) /\ x.contents = e.contents
      /\ ".dynstr" \in DOMAIN x.rep /\ ".dynamic" \notin DOMAIN x.rep
      /\ x.rep[".dynstr"] = R /\ R \in Seq(Cell) /\ Len(R) = size
  <2>a. KeptAs(e, x)
    BY <1>1, ReplaceMakes
  <2>b. x.contents = e.contents
    BY <1>1, ReplaceMakes
  <2>1. \A g : KeptAs(e, g) => DOMAIN replaceSection(g, ".dynstr", size).rep
                                    = DOMAIN g.rep \cup {".dynstr"}
    BY <1>1, ReplaceMakes
  <2>2. DOMAIN x.rep = DOMAIN e.rep \cup {".dynstr"}
    BY <2>1
  <2>3. x.rep[".dynstr"] = R
    BY <1>1, ReplaceMakes
  <2>4. x.rep[".dynstr"] \in Seq(Cell) /\ Len(x.rep[".dynstr"]) = size
    BY <1>1, ReplaceMakes
  <2> HIDE DEF x, R
  <2> QED
    BY <2>a, <2>b, <2>2, <2>3, <2>4
<1>3. T \in Seq(Cell) /\ Len(T) = n /\ n \in Nat
  <2>1. SameFrame(e, e) /\ ".dynstr" \notin DOMAIN e.rep
    BY <1>1, FrameOf
  <2> QED
    BY <1>1, <2>1, HeldInFile, BaseFields
<1> HIDE DEF T, n
<1>4. R[size] = Zero
  <2> DEFINE k == size - n
             z == Zeros(k)
  <2>1. k \in Nat /\ ~(size <= Len(T)) /\ k > 0
    BY <1>3 DEF n
  <2>2. R = T \o z
    BY <1>3, <2>1 DEF Resize
  <2>3. Len(z) = k /\ z \in Seq(Cell) /\ z[k] = Zero
    <3>1. Len(z) = k /\ z \in Seq(Cell)
      BY <2>1, ZerosTypes
    <3>2. k \in 1 .. k
      BY <2>1
    <3> QED
      BY <3>1, <3>2 DEF Zeros
  <2> HIDE DEF z
  <2>4. size \in Len(T) + 1 .. Len(T) + Len(z) /\ size - Len(T) = k
    BY <1>3, <2>1, <2>3
  <2>5. \A i \in Len(T) + 1 .. Len(T) + Len(z) : (T \o z)[i] = z[i - Len(T)]
    BY <1>3, <2>3, ConcatProperties
  <2> QED
    BY <2>2, <2>3, <2>4, <2>5
<1> HIDE DEF R, x
<1>5. Adding(e, size, x)
  BY <1>2, <1>4 DEF Adding
<1> QED
  BY <1>5 DEF x

LEMMA AddingEnds ==
    ASSUME NEW e, Base(e), NEW E, NEW T, Good(e, e, E, T),
           ".dynamic" \notin DOMAIN e.rep, ".dynstr" \notin DOMAIN e.rep,
           NEW size \in Nat, size > Section(e, ".dynstr").sh_size,
           NEW y, Adding(e, size, y)
    PROVE  Good(e, y, E, y.rep[".dynstr"])
<1> DEFINE T2 == y.rep[".dynstr"]
           n == Section(e, ".dynstr").sh_size
<1>1. /\ KeptAs(e, y) /\ y.contents = e.contents
      /\ ".dynstr" \in DOMAIN y.rep /\ ".dynamic" \notin DOMAIN y.rep
      /\ T2 \in Seq(Cell) /\ Len(T2) = size /\ T2[size] = Zero
  BY DEF Adding
<1>2. /\ State(e, e, E, T) /\ StringsIn(E, T, Section(e, ".dynstr").sh_addr)
      /\ E \in Seq(Elf_Dyn) /\ T \in Seq(Cell) /\ Len(T) = n /\ n \in Nat
  <2>1. ".dynstr" \notin DOMAIN e.rep
    OBVIOUS
  <2> QED
    BY <2>1, GoodFields DEF Good
<1> HIDE DEF T2
<1>3. Held(y, ".dynstr") = T2
  BY <1>1 DEF Held, T2
<1>4. Held(y, ".dynamic") = Held(e, ".dynamic")
  <2>1. Section(y, ".dynamic") = Section(e, ".dynamic")
    BY <1>1, FoundAlike DEF KeptAs, SameFrame
  <2>2. ".dynamic" \notin DOMAIN y.rep /\ ".dynamic" \notin DOMAIN e.rep
    BY <1>1
  <2> QED
    BY <1>1, <2>1, <2>2 DEF Held
<1>5. Lists(Held(e, ".dynamic"), E)
  BY <1>2 DEF State
<1>6. State(e, y, E, T2)
  BY <1>1, <1>2, <1>3, <1>4, <1>5, StateIs
<1>7. StringsIn(E, T2, Section(e, ".dynstr").sh_addr)
  <2>1. Len(T2) >= Len(T) /\ T2[Len(T2)] = Zero
    BY <1>1, <1>2
  <2> QED
    BY <1>1, <1>2, <2>1, StringsKept
<1> QED
  BY <1>6, <1>7 DEF Good, T2

\* addNeeded.
LEMMA AddNeededMakes ==
    ASSUME NEW e, Ready(e), NEW libs \in Seq(Seq(Character))
    PROVE  Outcome(e, addNeeded(e, libs))
<1> DEFINE length == Pos(libs, Len(libs) + 1)
           size == StrSize(e) + length + 1
           grown == replaceSection(e, ".dynstr", size)
           named == FoldLeftDomain(LAMBDA acc, i : setSubstr(acc, ".dynstr",
                                                             StrSize(e) + Pos(libs, i),
                                                             CString(libs[i])),
                                   grown, libs)
           new == [i \in DOMAIN libs |-> Dyn("DT_NEEDED", StrSize(e) + Pos(libs, i))]
           x == AddEntries(named, new)
           found == Find(e, {".dynamic", ".dynstr"})
<1>a. e \in Object /\ e.err = ""
  BY DEF Ready
<1>b. \/ addNeeded(e, libs) = e \/ addNeeded(e, libs) = Fail(e, "error")
      \/ found.err = "" /\ addNeeded(e, libs) = [x EXCEPT !.changed = TRUE]
  BY DEF addNeeded, Pos
<1>s. SUFFICES ASSUME found.err = "" PROVE Outcome(e, [x EXCEPT !.changed = TRUE])
  <2> HIDE DEF x, found
  <2> QED
    BY <1>a, <1>b, SameOutcome, FailedOutcome
<1>c. findSection3(e, ".dynamic") # 0
  BY <1>a, <1>s, FindIs
<1>d. /\ Base(e) /\ KeptAs(e, e)
      /\ ".dynamic" \notin DOMAIN e.rep /\ ".dynstr" \notin DOMAIN e.rep
  BY <1>c, ReadyState, SameOutcome
<1>e. PICK E, T : Good(e, e, E, T)
  BY <1>c, ReadyState
<1> HIDE DEF found
<1>1. /\ StrSize(e) \in Nat /\ Len(libs) \in Nat /\ DOMAIN libs = 1 .. Len(libs)
      /\ StrSize(e) = Section(e, ".dynstr").sh_size
  <2>1. Section(e, ".dynstr").sh_size \in Nat
    BY <1>d, BaseFields
  <2> QED
    BY <2>1, LenProperties DEF StrSize
<1>2. /\ \A i \in 1 .. Len(libs) + 1 : Pos(libs, i) \in Nat
      /\ \A i \in 1 .. Len(libs) : Pos(libs, i) + Len(libs[i]) + 1 <= length
  BY PosApart
<1>3. length \in Nat /\ size \in Nat /\ size > Section(e, ".dynstr").sh_size
  <2>1. length \in Nat
    BY <1>1, <1>2
  <2> HIDE DEF length
  <2> QED
    BY <1>1, <2>1
<1>4. ASSUME NEW i \in 1 .. Len(libs)
      PROVE  LET pos == StrSize(e) + Pos(libs, i)
             IN  /\ pos \in Nat /\ libs[i] \in Seq(Character)
                 /\ pos + Len(libs[i]) + 1 < size
  <2>1. Pos(libs, i) \in Nat /\ Pos(libs, i) + Len(libs[i]) + 1 <= length
    BY <1>1, <1>2
  <2>2. libs[i] \in Seq(Character)
    BY <1>1
  <2>3. Len(libs[i]) \in Nat
    BY <2>2, LenProperties
  <2> DEFINE p == Pos(libs, i)
             l == Len(libs[i])
  <2> HIDE DEF p, l, length
  <2>4. p \in Nat /\ l \in Nat /\ p + l + 1 <= length
    BY <2>1, <2>3 DEF p, l
  <2>5. StrSize(e) + p \in Nat /\ StrSize(e) + p + l + 1 < size
    <3>1. StrSize(e) \in Nat /\ length \in Nat /\ size = StrSize(e) + length + 1
      BY <1>1, <1>3
    <3>2. \A a, b, c, d \in Nat : b + c + 1 <= d =>
              a + b \in Nat /\ a + b + c + 1 < a + d + 1
      OBVIOUS
    <3> HIDE DEF size
    <3> QED
      BY ONLY <2>4, <3>1, <3>2
  <2> QED
    BY <2>2, <2>5 DEF p, l
<1> HIDE DEF size, length
<1>5. Adding(e, size, grown) /\ grown \in Object
  <2>1. Adding(e, size, grown)
    BY <1>3, <1>d, AddingBegins
  <2> QED
    BY <2>1 DEF Adding, KeptAs
<1> HIDE DEF grown
<1> DEFINE q == [i \in DOMAIN libs |-> i]
           n == Len(libs)
           A == {y \in Object : Adding(e, size, y)}
           base == grown
           op(a, i) == setSubstr(a, ".dynstr", StrSize(e) + Pos(libs, q[i]), CString(libs[q[i]]))
<1>11. n \in Nat /\ DOMAIN q = Indices(n)
  BY <1>1 DEF Indices
<1>12. base \in A
  BY <1>5
<1>13. \A i \in Indices(n) : \A a \in A : op(a, i) \in A
  <2> SUFFICES ASSUME NEW i \in Indices(n), NEW a \in A PROVE op(a, i) \in A
    OBVIOUS
  <2> DEFINE pos == StrSize(e) + Pos(libs, i)
             s == libs[i]
             y == setSubstr(a, ".dynstr", pos, CString(s))
  <2>1. q[i] = i /\ i \in 1 .. Len(libs)
    BY <1>1, <1>11
  <2>2. s \in Seq(Character) /\ pos \in Nat /\ pos + Len(s) + 1 < size
    BY <1>4, <2>1
  <2>3. Adding(e, size, a)
    OBVIOUS
  <2>4. op(a, i) = y
    BY <2>1
  <2> HIDE DEF pos, s, q, op, A
  <2>5. Adding(e, size, y)
    BY <1>3, <2>2, <2>3, AddingOne
  <2> HIDE DEF y
  <2>6. y \in A
    BY <2>5 DEF A, Adding, KeptAs
  <2> QED
    BY <2>4, <2>6
<1> DEFINE Step == [i \in Indices(n) |-> [a \in A |-> op(a, i)]]
           body(h) == [t \in SUBSET DOMAIN q |->
                           IF t = {} THEN base ELSE op(h[t \ {Max(t)}], Max(t))]
           h == CHOOSE h : h = body(h)
<1> HIDE DEF n, A, base, op, q
<1>14. PICK g : /\ LeftFolds(g, n, base, Step)
                /\ \A t \in SUBSET Indices(n) : g[t] \in A
  <2>1. \A i \in Indices(n) : \A a \in A : Step[i][a] \in A
    BY <1>13
  <2> HIDE DEF Step
  <2> QED
    BY <1>11, <1>12, <2>1, LeftFold
<1>15. \A t \in SUBSET Indices(n) : t # {} => Max(t) \in Indices(n)
  BY <1>11, LastIn
<1>16. h = body(h)
  <2>1. g = body(g)
    BY <1>11, <1>14, <1>15 DEF LeftFolds
  <2> HIDE DEF body
  <2> QED
    BY <2>1
<1>17. h[DOMAIN q] \in A
  <2> HIDE DEF h
  <2>1. LeftStays(h, n, A)
    BY <1>11, <1>13, <1>12, <1>15, <1>16 DEF LeftStays
  <2> QED
    BY <1>11, <2>1, LeftFoldIn
<1>18. named = h[DOMAIN q]
  BY DEF FoldLeftDomain, FoldLeft, MapThenFoldSet, q, base, op
<1>19. Adding(e, size, named)
  BY <1>17, <1>18 DEF A
<1> HIDE DEF q, A, base, op, h, n, named
<1>20. Good(e, named, E, named.rep[".dynstr"]) /\ ".dynamic" \notin DOMAIN named.rep
  <2>1. Good(e, named, E, named.rep[".dynstr"])
    BY <1>3, <1>19, <1>d, <1>e, AddingEnds
  <2>2. ".dynamic" \notin DOMAIN named.rep
    BY <1>19 DEF Adding
  <2> QED
    BY <2>1, <2>2
<1> DEFINE T2 == named.rep[".dynstr"]
<1>21. new \in Seq(Elf_Dyn) /\ \A k \in DOMAIN new : new[k].d_tag = "DT_NEEDED"
  <2> DEFINE v(i) == StrSize(e) + Pos(libs, i)
  <2>1. \A i \in DOMAIN libs : v(i) \in Nat
    BY <1>1, <1>2
  <2>2. \A i \in DOMAIN libs : Dyn("DT_NEEDED", v(i)) \in Elf_Dyn
                               /\ Dyn("DT_NEEDED", v(i)).d_tag = "DT_NEEDED"
    <3> HIDE DEF v
    <3>1. \A i \in DOMAIN libs : Dyn("DT_NEEDED", v(i)) \in Elf_Dyn
      BY <2>1, TagTypes
    <3>2. \A i \in DOMAIN libs : Dyn("DT_NEEDED", v(i)).d_tag = "DT_NEEDED"
      BY DEF Dyn
    <3> QED
      BY <3>1, <3>2
  <2>3. new = [i \in DOMAIN libs |-> Dyn("DT_NEEDED", v(i))]
    OBVIOUS
  <2> HIDE DEF v, new
  <2> QED
    BY <1>1, <2>2, <2>3
<1> HIDE DEF new, T2
<1>22. \A k \in DOMAIN new : /\ new[k].d_tag # "DT_NULL"
                             /\ EntryOk(new[k], T2, Section(e, ".dynstr").sh_addr)
  BY <1>21 DEF EntryOk
<1>23. Good(e, x, new \o E, T2)
  <2>1. Good(e, named, E, T2) /\ ".dynamic" \notin DOMAIN named.rep
    BY <1>20 DEF T2
  <2> QED
    BY <1>21, <1>22, <1>d, <2>1, GoodAdd
<1> HIDE DEF x
<1> QED
  BY <1>23, GoodChanged, GoodOutcome

=============================================================================
