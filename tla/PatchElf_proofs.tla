--------------------------- MODULE PatchElf_proofs ---------------------------
(***************************************************************************)
(* Proofs about patchelf: whatever file it is given, however corrupt, the  *)
(* headers it works with are counted in the file header and no offset,     *)
(* address or size in them is negative.  And of a table as a linker makes  *)
(* it, sorting the section headers breaks no reference between sections.   *)
(*                                                                         *)
(* Every operation of ElfFile and ElfDynamic is shown to map an object to  *)
(* an object (set Object), bottom up: cells and structures read at any     *)
(* offset, copies in `rep', the layout of libraries and of programs, the   *)
(* options; at the end come the actions of PatchElf.                       *)
(***************************************************************************)
EXTENDS PatchElf, FiniteSetTheorems, FunctionTheorems, SequenceTheorems,
        WellFoundedInduction, TLAPS

-----------------------------------------------------------------------------
(* Finite sets: their smallest and greatest elements, and folds over them. *)
(* Induction is the choice of a least counterexample.                      *)

LEMMA LeastSet ==
    ASSUME NEW S, IsFiniteSet(S), NEW T, T \subseteq SUBSET S, T # {}
    PROVE  \E s \in T : \A t \in T : ~(t \subseteq s /\ t # s)
<1>1. FiniteSubsetsOf(S) = SUBSET S
  BY FS_Subset DEF FiniteSubsetsOf
<1>2. IsWellFoundedOn(StrictSubsetOrdering(S), SUBSET S)
  BY <1>1, FS_StrictSubsetOrderingWellFounded
<1>3. PICK s \in T : \A t \in T : ~(<<t, s>> \in StrictSubsetOrdering(S))
  <2> DEFINE R == StrictSubsetOrdering(S)
             D == SUBSET S
  <2>1. IsWellFoundedOn(R, D) /\ T \subseteq D
    BY <1>2
  <2> HIDE DEF R, D
  <2>2. \E s \in T : \A t \in T : ~(<<t, s>> \in R)
    BY <2>1, WFMin
  <2> QED
    BY <2>2 DEF R
<1>4. \A t \in T : t \subseteq s /\ t # s => <<t, s>> \in StrictSubsetOrdering(S)
  BY DEF StrictSubsetOrdering
<1>5. ASSUME NEW t \in T, t \subseteq s, t # s PROVE FALSE
  BY <1>3, <1>4, <1>5
<1> QED
  BY <1>5, Zenon

LEMMA LeastNat ==
    ASSUME NEW T, T \subseteq Nat, T # {}
    PROVE  Min(T) \in T /\ \A y \in T : Min(T) <= y
<1>1. PICK x \in T : \A y \in T : ~(<<y, x>> \in OpToRel(<, Nat))
  BY NatLessThanWellFounded, WFMin
<1>2. \A y \in T : ~(y < x)
  BY <1>1 DEF OpToRel
<1>3. \A y \in T : x =< y
  BY <1>2
<1> QED
  BY <1>3 DEF Min

\* R[x] is what is not above x.
LEMMA GreatestBy ==
    ASSUME NEW X, IsFiniteSet(X), X # {}, NEW R,
           \A x, y \in X : x \in R[y] \/ y \in R[x],
           \A x, y, z \in X : x \in R[y] /\ y \in R[z] => x \in R[z]
    PROVE  \E x \in X : \A y \in X : y \in R[x]
<1> DEFINE Bad == {s \in SUBSET X : s # {} /\ ~\E x \in s : \A y \in s : y \in R[x]}
<1> SUFFICES ASSUME Bad # {} PROVE FALSE
  OBVIOUS
<1>1. Bad \subseteq SUBSET X
  OBVIOUS
<1>2. PICK s \in Bad : \A t \in Bad : ~(t \subseteq s /\ t # s)
  <2> HIDE DEF Bad
  <2> QED
    BY <1>1, LeastSet
<1>3. PICK z \in s : TRUE
  BY <1>2
<1>4. s \ {z} \notin Bad /\ s \ {z} \in SUBSET X
  <2>1. s \ {z} \subseteq s /\ s \ {z} # s
    BY <1>3
  <2>2. s \in SUBSET X
    BY <1>2
  <2> HIDE DEF Bad
  <2> QED
    BY <1>2, <2>1, <2>2
<1>5. z \in R[z] /\ s \subseteq X
  BY <1>2, <1>3
<1>a. s \ {z} # {}
  BY <1>2, <1>3, <1>5
<1>6. PICK x \in s \ {z} : \A y \in s \ {z} : y \in R[x]
  BY <1>4, <1>a
<1>7. CASE z \in R[x]
  BY <1>2, <1>6, <1>7
<1>8. CASE x \in R[z]
  <2>1. \A y \in s : y \in R[z]
    BY <1>2, <1>6, <1>8
  <2> QED
    BY <1>2, <1>3, <2>1
<1> QED
  BY <1>2, <1>6, <1>7, <1>8

\* (A name for X \subseteq Int, which the provers take for the type of X.)
Ints(X) == X \subseteq Int

LEMMA GreatestInt ==
    ASSUME NEW X, IsFiniteSet(X), Ints(X), X # {}
    PROVE  Max(X) \in X /\ \A y \in X : y <= Max(X)
<1> DEFINE R == [x \in X |-> {y \in X : y <= x}]
<1>1. \A x, y \in X : x \in R[y] \/ y \in R[x]
  BY DEF Ints
<1>2. \A x, y, z \in X : x \in R[y] /\ y \in R[z] => x \in R[z]
  BY DEF Ints
<1>3. PICK x \in X : \A y \in X : y \in R[x]
  <2> HIDE DEF R
  <2> QED
    BY <1>1, <1>2, GreatestBy
<1>4. \A y \in X : x >= y
  BY <1>3 DEF Ints
<1> QED
  BY <1>4 DEF Max

\* g is the fold over the subsets of s: pick takes an element of a set, and
\* Step adds it to the fold over the rest.
FoldsOn(g, s, base, pick, Step) ==
    g = [t \in SUBSET s |-> IF t = {} THEN base ELSE Step[pick[t]][g[t \ {pick[t]}]]]

LEMMA FoldsAgree ==
    ASSUME NEW base, NEW pick, NEW Step, NEW s, NEW r, NEW g, NEW h,
           IsFiniteSet(s), FoldsOn(g, s, base, pick, Step), FoldsOn(h, r, base, pick, Step),
           \A t \in SUBSET s : t # {} => pick[t] \in t,
           NEW u, u \subseteq s, u \subseteq r
    PROVE  g[u] = h[u]
<1> DEFINE Bad == {t \in SUBSET s : t \subseteq r /\ g[t] # h[t]}
<1> SUFFICES ASSUME Bad # {} PROVE FALSE
  OBVIOUS
<1>0. Bad \subseteq SUBSET s
  OBVIOUS
<1>1. PICK t \in Bad : \A v \in Bad : ~(v \subseteq t /\ v # t)
  <2> HIDE DEF Bad
  <2> QED
    BY <1>0, LeastSet
<1>2. /\ g[t] = IF t = {} THEN base ELSE Step[pick[t]][g[t \ {pick[t]}]]
      /\ h[t] = IF t = {} THEN base ELSE Step[pick[t]][h[t \ {pick[t]}]]
  BY <1>1 DEF FoldsOn
<1>3. t # {} /\ pick[t] \in t
  BY <1>1, <1>2
<1>4. t \ {pick[t]} \notin Bad
  BY <1>1, <1>3
<1> QED
  BY <1>1, <1>2, <1>3, <1>4

LEMMA FoldExists ==
    ASSUME NEW base, NEW pick, NEW Step, NEW S, IsFiniteSet(S),
           \A t \in SUBSET S : t # {} => pick[t] \in t
    PROVE  \E g : FoldsOn(g, S, base, pick, Step)
<1> DEFINE Bad == {s \in SUBSET S : ~\E g : FoldsOn(g, s, base, pick, Step)}
<1> SUFFICES ASSUME Bad # {} PROVE FALSE
  OBVIOUS
<1>0. Bad \subseteq SUBSET S
  OBVIOUS
<1>1. PICK s \in Bad : \A t \in Bad : ~(t \subseteq s /\ t # s)
  <2> HIDE DEF Bad
  <2> QED
    BY <1>0, LeastSet
<1> DEFINE G(t) == CHOOSE g : FoldsOn(g, t, base, pick, Step)
           rest(t) == t \ {pick[t]}
           g == [t \in SUBSET s |->
                    IF t = {} THEN base ELSE Step[pick[t]][G(rest(t))[rest(t)]]]
<1>2. \A t \in SUBSET s : t # s => FoldsOn(G(t), t, base, pick, Step)
  BY <1>1
<1>3. \A t \in SUBSET s : t # {} => /\ pick[t] \in t /\ IsFiniteSet(t)
                                    /\ rest(t) \in SUBSET t /\ rest(t) # t
  BY <1>1, FS_Subset
<1>4. ASSUME NEW t \in SUBSET s, t # s PROVE G(t)[t] = g[t]
  <2>1. G(t)[t] = IF t = {} THEN base ELSE Step[pick[t]][G(t)[rest(t)]]
    <3>1. FoldsOn(G(t), t, base, pick, Step) /\ t \in SUBSET t
      BY <1>2, <1>4
    <3> HIDE DEF G, g
    <3> QED
      BY <3>1 DEF FoldsOn
  <2>2. CASE t = {}
    BY <2>1, <2>2
  <2>3. CASE t # {}
    <3>1. FoldsOn(G(t), t, base, pick, Step)
          /\ FoldsOn(G(rest(t)), rest(t), base, pick, Step)
      BY <1>2, <1>3, <1>4, <2>3
    <3>2. \A v \in SUBSET t : v # {} => pick[v] \in v
      BY <1>3
    <3> HIDE DEF G
    <3>3. G(t)[rest(t)] = G(rest(t))[rest(t)]
      BY <1>3, <2>3, <3>1, <3>2, FoldsAgree
    <3> QED
      BY <2>1, <2>3, <3>3
  <2> QED
    BY <2>2, <2>3
<1>5. \A t \in SUBSET s : t # {} => G(rest(t))[rest(t)] = g[rest(t)]
  <2> SUFFICES ASSUME NEW t \in SUBSET s, t # {}
               PROVE  G(rest(t))[rest(t)] = g[rest(t)]
    OBVIOUS
  <2>1. rest(t) \in SUBSET s /\ rest(t) # s
    BY <1>3
  <2> HIDE DEF rest, G, g
  <2> QED
    BY <1>4, <2>1
<1>6. FoldsOn(g, s, base, pick, Step)
  <2> HIDE DEF G
  <2> DEFINE v(t) == IF t = {} THEN base ELSE Step[pick[t]][G(rest(t))[rest(t)]]
             w(t) == IF t = {} THEN base ELSE Step[pick[t]][g[rest(t)]]
  <2>1. g = [t \in SUBSET s |-> w(t)]
    <3>1. g = [t \in SUBSET s |-> v(t)]
      OBVIOUS
    <3>2. \A t \in SUBSET s : v(t) = w(t)
      <4> HIDE DEF g, rest
      <4> QED
        BY <1>5
    <3> HIDE DEF g, v, w
    <3> QED
      BY <3>1, <3>2
  <2> HIDE DEF g
  <2> QED
    BY <2>1 DEF FoldsOn
<1> QED
  BY <1>1, <1>6

\* pick takes an element of every set but the empty one; a fold h that picks
\* with it is in A for the empty set, and stays in A.
Picks(pick, S) == \A t \in SUBSET S : t # {} => pick[t] \in t

Stays(h, S, pick, A) ==
    h[{}] \in A /\ \A t \in SUBSET S : t # {} /\ h[t \ {pick[t]}] \in A => h[t] \in A

LEMMA FoldIn ==
    ASSUME NEW S, IsFiniteSet(S), NEW pick, Picks(pick, S),
           NEW A, NEW h, Stays(h, S, pick, A)
    PROVE  h[S] \in A
<1> USE DEF Picks, Stays
<1> DEFINE Bad == {t \in SUBSET S : h[t] \notin A}
<1> SUFFICES ASSUME Bad # {} PROVE FALSE
  OBVIOUS
<1>0. Bad \subseteq SUBSET S
  OBVIOUS
<1>1. PICK t \in Bad : \A v \in Bad : ~(v \subseteq t /\ v # t)
  <2> HIDE DEF Bad
  <2> QED
    BY <1>0, LeastSet
<1>2. t # {} /\ pick[t] \in t
  BY <1>1
<1>3. t \ {pick[t]} \notin Bad
  BY <1>1, <1>2
<1> QED
  BY <1>1, <1>2, <1>3

\* A fold with steps that stay in a set is there, with values in that set.
LEMMA FoldGives ==
    ASSUME NEW S, IsFiniteSet(S), NEW pick, Picks(pick, S),
           NEW A, NEW base \in A, NEW Step, \A x \in S : \A a \in A : Step[x][a] \in A
    PROVE  \E g : /\ FoldsOn(g, S, base, pick, Step)
                  /\ \A t \in SUBSET S : g[t] \in A
<1>1. PICK g : FoldsOn(g, S, base, pick, Step)
  BY FoldExists DEF Picks
<1>2. ASSUME NEW u \in SUBSET S PROVE g[u] \in A
  <2>1. IsFiniteSet(u)
    BY FS_Subset
  <2>2. \A t \in SUBSET u : g[t] = IF t = {} THEN base ELSE Step[pick[t]][g[t \ {pick[t]}]]
    BY <1>1 DEF FoldsOn
  <2>3. Picks(pick, u)
    BY DEF Picks
  <2>4. \A t \in SUBSET u : t # {} => pick[t] \in S
    BY DEF Picks
  <2>5. Stays(g, u, pick, A)
    <3>1. g[{}] \in A
      BY <2>2
    <3>2. ASSUME NEW t \in SUBSET u, t # {}, g[t \ {pick[t]}] \in A PROVE g[t] \in A
      <4>1. pick[t] \in S
        BY <2>4, <3>2
      <4>2. Step[pick[t]][g[t \ {pick[t]}]] \in A
        BY <3>2, <4>1
      <4>3. g[t] = Step[pick[t]][g[t \ {pick[t]}]]
        BY <2>2, <3>2
      <4> QED
        BY <4>2, <4>3
    <3> QED
      BY <3>1, <3>2 DEF Stays
  <2> QED
    BY <2>1, <2>3, <2>5, FoldIn
<1> QED
  BY <1>1, <1>2

\* (A name again, for the indices of a sequence of length n.)
Indices(n) == 1 .. n

\* FoldLeft takes the greatest of a set of indices, FoldSet any element.
LEMMA LastIn ==
    ASSUME NEW n \in Nat
    PROVE  /\ IsFiniteSet(Indices(n))
           /\ \A t \in SUBSET Indices(n) : t # {} => Max(t) \in t
<1>1. IsFiniteSet(Indices(n))
  BY FS_Interval DEF Indices
<1>2. ASSUME NEW t \in SUBSET Indices(n), t # {} PROVE Max(t) \in t
  <2>1. IsFiniteSet(t)
    BY <1>1, FS_Subset
  <2>2. Ints(t)
    BY DEF Ints, Indices
  <2> QED
    BY <1>2, <2>1, <2>2, GreatestInt
<1> QED
  BY <1>1, <1>2

\* g is the fold of Step over the indices of a sequence of length n, and so is h
\* of Step over the elements of S.
LeftFolds(g, n, base, Step) ==
    g = [t \in SUBSET Indices(n) |->
             IF t = {} THEN base ELSE Step[Max(t)][g[t \ {Max(t)}]]]

\* A fold h that is in A for the empty set, and stays in A.
LeftStays(h, n, A) ==
    /\ h[{}] \in A
    /\ \A t \in SUBSET Indices(n) : t # {} /\ h[t \ {Max(t)}] \in A => h[t] \in A

SetFolds(g, S, base, Step) ==
    g = [t \in SUBSET S |->
             IF t = {} THEN base
             ELSE Step[CHOOSE x \in t : TRUE][g[t \ {CHOOSE x \in t : TRUE}]]]

SetStays(h, S, A) ==
    /\ h[{}] \in A
    /\ \A t \in SUBSET S :
           t # {} /\ h[t \ {CHOOSE x \in t : TRUE}] \in A => h[t] \in A

LEMMA LeftFold ==
    ASSUME NEW n \in Nat, NEW A, NEW base \in A, NEW Step,
           \A i \in Indices(n) : \A a \in A : Step[i][a] \in A
    PROVE  \E g : /\ LeftFolds(g, n, base, Step)
                  /\ \A t \in SUBSET Indices(n) : g[t] \in A
<1> DEFINE S == Indices(n)
           pick == [t \in SUBSET S |-> Max(t)]
<1>1. IsFiniteSet(S) /\ Picks(pick, S)
  BY LastIn DEF Picks
<1>2. PICK g : FoldsOn(g, S, base, pick, Step) /\ \A t \in SUBSET S : g[t] \in A
  <2> HIDE DEF pick
  <2> QED
    BY <1>1, FoldGives
<1>3. LeftFolds(g, n, base, Step)
  BY <1>2 DEF FoldsOn, LeftFolds
<1> QED
  BY <1>2, <1>3

LEMMA LeftFoldIn ==
    ASSUME NEW n \in Nat, NEW A, NEW h, LeftStays(h, n, A)
    PROVE  h[Indices(n)] \in A
<1> DEFINE S == Indices(n)
           pick == [t \in SUBSET S |-> Max(t)]
<1>1. IsFiniteSet(S) /\ Picks(pick, S)
  BY LastIn DEF Picks
<1>2. Stays(h, S, pick, A)
  BY DEF Stays, LeftStays
<1> HIDE DEF pick
<1> QED
  BY <1>1, <1>2, FoldIn

LEMMA SetFold ==
    ASSUME NEW S, IsFiniteSet(S), NEW A, NEW base \in A, NEW Step,
           \A x \in S : \A a \in A : Step[x][a] \in A
    PROVE  \E g : /\ SetFolds(g, S, base, Step)
                  /\ \A t \in SUBSET S : g[t] \in A
<1> DEFINE pick == [t \in SUBSET S |-> CHOOSE x \in t : TRUE]
<1>1. Picks(pick, S)
  BY DEF Picks
<1>2. PICK g : FoldsOn(g, S, base, pick, Step) /\ \A t \in SUBSET S : g[t] \in A
  <2> HIDE DEF pick
  <2> QED
    BY <1>1, FoldGives
<1>3. SetFolds(g, S, base, Step)
  BY <1>2 DEF FoldsOn, SetFolds
<1> QED
  BY <1>2, <1>3

LEMMA SetFoldIn ==
    ASSUME NEW S, IsFiniteSet(S), NEW A, NEW h, SetStays(h, S, A)
    PROVE  h[S] \in A
<1> DEFINE pick == [t \in SUBSET S |-> CHOOSE x \in t : TRUE]
<1>1. IsFiniteSet(S) /\ Picks(pick, S)
  BY DEF Picks
<1>2. Stays(h, S, pick, A)
  BY DEF Stays, SetStays
<1> HIDE DEF pick
<1> QED
  BY <1>1, <1>2, FoldIn

\* Tagged keeps entries of the sequence it is given.
LEMMA TaggedTypes ==
    ASSUME NEW d \in Seq(Elf_Dyn), NEW tag
    PROVE  Tagged(d, tag) \in Seq(Elf_Dyn)
<1> DEFINE n == Len(d)
           A == Seq(Elf_Dyn)
           Step == [i \in Indices(n) |->
                       [a \in A |-> IF d[i].d_tag = tag THEN Append(a, d[i]) ELSE a]]
           body(h) == [t \in SUBSET Indices(n) |->
                           IF t = {} THEN <<>>
                           ELSE IF d[Max(t)].d_tag = tag
                                THEN Append(h[t \ {Max(t)}], d[Max(t)])
                                ELSE h[t \ {Max(t)}]]
           h == CHOOSE h : h = body(h)
<1>1. DOMAIN d = Indices(n) /\ n \in Nat /\ <<>> \in A
  BY DEF Indices
<1>2. \A i \in Indices(n) : \A a \in A : Step[i][a] \in A
  BY DEF Indices
<1>3. PICK g : /\ LeftFolds(g, n, <<>>, Step)
               /\ \A t \in SUBSET Indices(n) : g[t] \in A
  <2> HIDE DEF n, A, Step
  <2> QED
    BY <1>1, <1>2, LeftFold
<1>4. \A t \in SUBSET Indices(n) : t # {} => Max(t) \in Indices(n)
  BY <1>1, LastIn
<1>5. g = body(g)
  <2> HIDE DEF n, A
  <2> QED
    BY <1>3, <1>4 DEF LeftFolds
<1>6. h = body(h)
  <2> HIDE DEF body
  <2> QED
    BY <1>5
<1>7. LeftStays(h, n, A)
  <2>1. \A i \in Indices(n) : \A a \in A : Append(a, d[i]) \in A
    BY DEF Indices
  <2> HIDE DEF n, A, h
  <2>2. h[{}] \in A
    BY <1>1, <1>6
  <2>3. ASSUME NEW t \in SUBSET Indices(n), t # {}, h[t \ {Max(t)}] \in A
        PROVE  h[t] \in A
    <3>1. h[t] = IF d[Max(t)].d_tag = tag
                 THEN Append(h[t \ {Max(t)}], d[Max(t)])
                 ELSE h[t \ {Max(t)}]
      BY <1>6, <2>3
    <3> QED
      BY <1>4, <2>1, <2>3, <3>1
  <2> QED
    BY <2>2, <2>3 DEF LeftStays
<1>8. h[Indices(n)] \in A
  <2> HIDE DEF n, A, h
  <2>1. n \in Nat
    BY <1>1
  <2> QED
    BY <1>7, <2>1, LeftFoldIn
<1> QED
  BY <1>1, <1>8 DEF Tagged, Selected, FoldLeft, MapThenFoldSet

-----------------------------------------------------------------------------
(* Cells, and sequences of them.                                           *)

LEMMA CellTypes ==
    /\ Zero \in Cell /\ Pad \in Cell /\ Nothing \in Cell /\ XX \in Cell
    /\ Elf_Ehdr \subseteq Cell /\ Elf_Phdr \subseteq Cell /\ Elf_Shdr \subseteq Cell
    /\ Elf_Dyn \subseteq Cell /\ Elf_Sym \subseteq Cell
    /\ \A x \in Character : Char(x) \in Cell
<1>1. \A x \in {"X", "0", "pad", "nothing"} : x \in Character
  BY DEF Character
<1>2. \A x \in Character : Char(x) \in Cell
  BY DEF Cell
<1>3. Zero \in Cell /\ Pad \in Cell /\ Nothing \in Cell /\ XX \in Cell
  BY <1>1, <1>2 DEF Zero, Pad, Nothing, XX
<1> QED
  BY <1>2, <1>3 DEF Cell

\* A cell is what its kind says: a structure, unless it is a character.
LEMMA CellKind ==
    ASSUME NEW x \in Cell
    PROVE  /\ x.c = "phdr" => x \in Elf_Phdr
           /\ x.c = "shdr" => x \in Elf_Shdr
           /\ x.c = "dyn" => x \in Elf_Dyn
           /\ x.c = "sym" => x \in Elf_Sym
           /\ x.c = "ehdr" => x \in Elf_Ehdr
           /\ x.c \notin StructKind => x.c \in Character
<1>1. /\ x \in Elf_Ehdr => x.c = "ehdr"
      /\ x \in Elf_Phdr => x.c = "phdr"
      /\ x \in Elf_Shdr => x.c = "shdr"
      /\ x \in Elf_Dyn => x.c = "dyn"
      /\ x \in Elf_Sym => x.c = "sym"
  BY DEF Elf_Ehdr, Elf_Phdr, Elf_Shdr, Elf_Dyn, Elf_Sym
<1>2. \A k \in StructKind : k \notin Character
  BY ElfAssumption DEF StructKind, Character
<1>3. x \in {Char(y) : y \in Character} => x.c \in Character
  BY DEF Char
<1> QED
  BY <1>1, <1>2, <1>3 DEF Cell, StructKind

LEMMA LetterTypes ==
    ASSUME NEW x \in Cell
    PROVE  Letter(x) \in Character
BY CellKind DEF Letter, Character

LEMMA AtTypes ==
    ASSUME NEW f \in Seq(Cell), NEW o \in Int
    PROVE  At(f, o) \in Cell
<1>1. \A i \in 1 .. Len(f) : f[i] \in Cell
  OBVIOUS
<1>2. o \in 0 .. Len(f) - 1 => o + 1 \in 1 .. Len(f)
  OBVIOUS
<1> HIDE DEF Cell
<1> QED
  BY <1>1, <1>2, CellTypes DEF At

LEMMA SliceTypes ==
    ASSUME NEW f \in Seq(Cell), NEW o \in Int, NEW n \in Nat
    PROVE  Slice(f, o, n) \in Seq(Cell) /\ Len(Slice(f, o, n)) = n
<1>1. \A i \in 1 .. n : At(f, o + i - 1) \in Cell
  BY AtTypes
<1> QED
  BY <1>1 DEF Slice

LEMMA EvaluatedTypes ==
    ASSUME NEW n \in Nat, NEW f \in [1 .. n -> Cell]
    PROVE  Evaluated(f) \in Seq(Cell) /\ Len(Evaluated(f)) = n
<1>1. f \in Seq(Cell) /\ Len(f) = n
  OBVIOUS
<1>2. SubSeq(f, 1, Len(f)) = f
  BY <1>1, SubSeqFull
<1> QED
  BY <1>1, <1>2 DEF Evaluated

LEMMA OverwriteTypes ==
    ASSUME NEW f \in Seq(Cell), NEW o \in Int, NEW s \in Seq(Cell)
    PROVE  Overwrite(f, o, s) \in Seq(Cell) /\ Len(Overwrite(f, o, s)) = Len(f)
<1> DEFINE g == [i \in DOMAIN f |-> IF i - o \in DOMAIN s THEN s[i - o] ELSE f[i]]
<1>1. \A i \in 1 .. Len(f) : f[i] \in Cell
  OBVIOUS
<1>2. \A i \in DOMAIN s : s[i] \in Cell
  OBVIOUS
<1>3. g \in [1 .. Len(f) -> Cell] /\ Len(f) \in Nat
  BY <1>1, <1>2
<1> HIDE DEF g
<1>4. Evaluated(g) \in Seq(Cell) /\ Len(Evaluated(g)) = Len(f)
  BY <1>3, EvaluatedTypes
<1> QED
  BY <1>4 DEF Overwrite, g

LEMMA FillTypes ==
    ASSUME NEW f \in Seq(Cell), NEW o \in Int, NEW n \in Int, NEW x \in Cell
    PROVE  Fill(f, o, n, x) \in Seq(Cell) /\ Len(Fill(f, o, n, x)) = Len(f)
<1> DEFINE g == [i \in DOMAIN f |-> IF i - o \in 1 .. n THEN x ELSE f[i]]
<1>1. g \in [1 .. Len(f) -> Cell] /\ Len(f) \in Nat
  OBVIOUS
<1> HIDE DEF g
<1>2. Evaluated(g) \in Seq(Cell) /\ Len(Evaluated(g)) = Len(f)
  BY <1>1, EvaluatedTypes
<1> QED
  BY <1>2 DEF Fill, g

LEMMA ZerosTypes ==
    ASSUME NEW n \in Int
    PROVE  Zeros(n) \in Seq(Cell) /\ (n \in Nat => Len(Zeros(n)) = n)
<1>1. CASE n \in Nat
  BY <1>1, CellTypes DEF Zeros
<1>2. CASE n \notin Nat
  <2>1. 1 .. n = 1 .. 0
    BY <1>2
  <2>2. [i \in 1 .. 0 |-> Zero] \in Seq(Cell)
    BY CellTypes
  <2> QED
    BY <1>2, <2>1, <2>2 DEF Zeros
<1> QED
  BY <1>1, <1>2

LEMMA CStringTypes ==
    ASSUME NEW s \in Seq(Character)
    PROVE  CString(s) \in Seq(Cell)
<1>1. Chars(s) \in Seq(Cell)
  <2>1. \A i \in 1 .. Len(s) : Char(s[i]) \in Cell
    BY CellTypes
  <2> QED
    BY <2>1 DEF Chars
<1> QED
  BY <1>1, CellTypes DEF CString

LEMMA StructTypes ==
    ASSUME NEW r \in Cell
    PROVE  Struct(r) \in Seq(Cell)
<1>1. \A i \in 1 .. Word : (IF i = 1 THEN r ELSE Pad) \in Cell
  BY CellTypes
<1> HIDE DEF Cell
<1> QED
  BY <1>1, ElfAssumption DEF Struct

LEMMA NullTypes ==
    /\ Null("phdr") \in Elf_Phdr /\ Destroyed("phdr") \in Elf_Phdr
    /\ Null("shdr") \in Elf_Shdr /\ Destroyed("shdr") \in Elf_Shdr
    /\ Null("dyn") \in Elf_Dyn /\ Destroyed("dyn") \in Elf_Dyn
    /\ Null("sym") \in Elf_Sym /\ Destroyed("sym") \in Elf_Sym
<1>1. Null("phdr") \in Elf_Phdr
  BY DEF Null, Elf_Phdr, SegmentType
<1>2. Null("shdr") \in Elf_Shdr
  BY DEF Null, Elf_Shdr, SectionName, SectionType
<1>3. Null("dyn") \in Elf_Dyn
  BY DEF Null, Elf_Dyn, DynTag
<1>4. Null("sym") \in Elf_Sym
  BY DEF Null, Elf_Sym
<1>5. [Null("dyn") EXCEPT !.d_tag = "DT_other"] \in Elf_Dyn
  BY <1>3 DEF Elf_Dyn, DynTag
<1> QED
  BY <1>1, <1>2, <1>3, <1>4, <1>5 DEF Destroyed

LEMMA StructAtTypes ==
    ASSUME NEW f \in Seq(Cell), NEW o \in Int
    PROVE  /\ StructAt(f, o, "phdr") \in Elf_Phdr
           /\ StructAt(f, o, "shdr") \in Elf_Shdr
           /\ StructAt(f, o, "dyn") \in Elf_Dyn
           /\ StructAt(f, o, "sym") \in Elf_Sym
<1> DEFINE x == At(f, o)
<1>1. x \in Cell
  BY AtTypes
<1>2. ASSUME NEW kind
      PROVE  \/ StructAt(f, o, kind) \in {Null(kind), Destroyed(kind)}
             \/ x.c = kind /\ StructAt(f, o, kind) = x
  BY DEF StructAt, StructBy
<1>3. /\ \/ StructAt(f, o, "phdr") \in {Null("phdr"), Destroyed("phdr")}
         \/ x.c = "phdr" /\ StructAt(f, o, "phdr") = x
      /\ \/ StructAt(f, o, "shdr") \in {Null("shdr"), Destroyed("shdr")}
         \/ x.c = "shdr" /\ StructAt(f, o, "shdr") = x
      /\ \/ StructAt(f, o, "dyn") \in {Null("dyn"), Destroyed("dyn")}
         \/ x.c = "dyn" /\ StructAt(f, o, "dyn") = x
      /\ \/ StructAt(f, o, "sym") \in {Null("sym"), Destroyed("sym")}
         \/ x.c = "sym" /\ StructAt(f, o, "sym") = x
  BY <1>2
<1>4. /\ x.c = "phdr" => x \in Elf_Phdr
      /\ x.c = "shdr" => x \in Elf_Shdr
      /\ x.c = "dyn" => x \in Elf_Dyn
      /\ x.c = "sym" => x \in Elf_Sym
  BY <1>1, CellKind
<1> HIDE DEF x
<1> QED
  BY <1>3, <1>4, NullTypes

LEMMA StringAtTypes ==
    ASSUME NEW f \in Seq(Cell), NEW o \in Int
    PROVE  StringAt(f, o) \in Seq(Character)
<1> DEFINE ends == {k \in 0 .. Len(f) : At(f, o + k) = Zero}
<1>1. StringAt(f, o) = IF ends = {} THEN <<"nothing">>
                       ELSE [i \in 1 .. Min(ends) |-> Letter(At(f, o + i - 1))]
  BY DEF StringAt, StringBy
<1>2. <<"nothing">> \in Seq(Character)
  BY DEF Character
<1>3. ends # {} => Min(ends) \in Nat
  <2>1. ends \subseteq Nat
    OBVIOUS
  <2> HIDE DEF ends
  <2> QED
    BY <2>1, LeastNat
<1> DEFINE letter(i) == Letter(At(f, o + i - 1))
<1>4. \A i \in Nat : letter(i) \in Character
  BY AtTypes, LetterTypes
<1>5. ASSUME NEW n \in Nat PROVE [i \in 1 .. n |-> letter(i)] \in Seq(Character)
  <2> HIDE DEF letter
  <2>1. \A i \in 1 .. n : letter(i) \in Character
    BY <1>4
  <2> QED
    BY <2>1
<1> HIDE DEF ends, Character
<1> QED
  BY <1>1, <1>2, <1>3, <1>5

LEMMA NoneTypes == <<"nothing">> \in Seq(Character)
BY DEF Character

\* What ends the entries is in the file, as a whole.
LEMMA EntriesAtTypes ==
    ASSUME NEW f \in Seq(Cell), NEW o \in Int
    PROVE  /\ EntriesAt(f, o) \in Seq(Elf_Dyn)
           /\ o = 0 /\ Word <= Len(f) => Word * (Len(EntriesAt(f, o)) + 1) <= Len(f)
<1> DEFINE entry(k) == StructAt(f, o + k * Word, "dyn")
           ends == {k \in 0 .. Len(f) \div Word : entry(k).d_tag = "DT_NULL"}
<1>0. Word \in Nat \ {0} /\ Len(f) \in Nat
  BY ElfAssumption
<1>1. EntriesAt(f, o) = IF ends = {} THEN <<>> ELSE [i \in 1 .. Min(ends) |-> entry(i - 1)]
  BY DEF EntriesAt, EntriesBy, StructAt
<1>2. ends # {} => Min(ends) \in Nat /\ Min(ends) \in ends
  <2>1. ends \subseteq Nat
    OBVIOUS
  <2> HIDE DEF ends
  <2> QED
    BY <2>1, LeastNat
<1>3. ASSUME NEW k \in Nat PROVE entry(k) \in Elf_Dyn
  <2>1. o + k * Word \in Int
    BY <1>0
  <2> QED
    BY <2>1, StructAtTypes
<1>4. ASSUME NEW n \in Nat PROVE [i \in 1 .. n |-> entry(i - 1)] \in Seq(Elf_Dyn)
  <2>1. \A i \in 1 .. n : entry(i - 1) \in Elf_Dyn
    BY <1>3
  <2> HIDE DEF entry
  <2> QED
    BY <2>1
<1>5. EntriesAt(f, o) \in Seq(Elf_Dyn)
  <2>1. <<>> \in Seq(Elf_Dyn)
    OBVIOUS
  <2> HIDE DEF ends, entry
  <2> QED
    BY <1>1, <1>2, <1>4, <2>1
<1>6. ASSUME NEW k \in Nat, entry(k).d_tag = "DT_NULL", o = 0
      PROVE  Word * (k + 1) <= Len(f)
  <2> DEFINE p == k * Word
  <2>1. p \in Nat /\ o + p = p /\ Word * (k + 1) = p + Word
    BY <1>0, <1>6
  <2>2. Destroyed("dyn").d_tag # "DT_NULL"
    BY DEF Destroyed, Null
  <2>3. \/ At(f, p).c = "dyn" /\ \A i \in 1 .. Word - 1 : At(f, p + i) = Pad
        \/ \A i \in 0 .. Word - 1 : At(f, p + i) = Zero
    BY <1>6, <2>1, <2>2 DEF StructAt, StructBy
  <2>4. Nothing # Pad /\ Nothing # Zero /\ Nothing.c # "dyn"
    BY DEF Nothing, Pad, Zero, Char
  <2> HIDE DEF p
  <2>5. At(f, p + (Word - 1)) # Nothing
    <3>1. CASE Word = 1
      <4>1. p + (Word - 1) = p /\ 0 \in 0 .. Word - 1 /\ p + 0 = p
        BY <2>1, <3>1
      <4> QED
        BY <2>3, <2>4, <4>1
    <3>2. CASE Word # 1
      <4>1. Word - 1 \in 1 .. Word - 1 /\ Word - 1 \in 0 .. Word - 1
        BY <1>0, <3>2
      <4> QED
        BY <2>3, <2>4, <4>1
    <3> QED
      BY <3>1, <3>2
  <2>6. p + (Word - 1) \in 0 .. Len(f) - 1
    BY <2>5 DEF At
  <2> QED
    BY <1>0, <2>1, <2>6
<1>7. ASSUME o = 0, Word <= Len(f) PROVE Word * (Len(EntriesAt(f, o)) + 1) <= Len(f)
  <2>1. CASE ends = {}
    <3>1. Len(EntriesAt(f, o)) = 0
      BY <1>1, <2>1
    <3> QED
      BY <1>0, <1>7, <3>1
  <2>2. CASE ends # {}
    <3>1. Min(ends) \in Nat /\ entry(Min(ends)).d_tag = "DT_NULL"
      BY <1>2, <2>2
    <3>2. Len(EntriesAt(f, o)) = Min(ends)
      <4> HIDE DEF ends, entry
      <4> QED
        BY <1>1, <2>2, <3>1
    <3> HIDE DEF ends, entry
    <3> QED
      BY <1>6, <1>7, <3>1, <3>2
  <2> QED
    BY <2>1, <2>2
<1> QED
  BY <1>5, <1>7

\* h puts the sequences of s together, one after the other.
Flattens(h, s) ==
    /\ h \in [1 .. Len(s) -> Seq(Cell)]
    /\ \A i \in 1 .. Len(s) : h[i] = IF i = 1 THEN s[i] ELSE h[i - 1] \o s[i]

LEMMA FlattenForm ==
    ASSUME NEW s \in Seq(Seq(Cell))
    PROVE  \E h : Flattens(h, s) /\ FlattenSeq(s) = IF Len(s) = 0 THEN s ELSE h[Len(s)]
<1> DEFINE n == Len(s)
           A == Seq(Cell)
           Step == [i \in Indices(n) |-> [a \in A |-> IF i = 1 THEN s[i] ELSE a \o s[i]]]
           body(h) == [i \in 1 .. n |-> IF i = 1 THEN s[i] ELSE h[i - 1] \o s[i]]
           h == CHOOSE h : h = body(h)
<1>1. n \in Nat /\ <<>> \in A
  OBVIOUS
<1>2. \A i \in 1 .. n : s[i] \in A
  OBVIOUS
<1>3. \A a, b \in A : a \o b \in A
  BY ConcatProperties
<1>4. \A i \in Indices(n) : \A a \in A : Step[i][a] \in A
  <2> HIDE DEF n, A
  <2> QED
    BY <1>2, <1>3 DEF Indices
<1>5. PICK g : /\ LeftFolds(g, n, <<>>, Step)
               /\ \A t \in SUBSET Indices(n) : g[t] \in A
  <2> HIDE DEF n, A, Step
  <2> QED
    BY <1>1, <1>4, LeftFold
<1> DEFINE flat == [i \in 1 .. n |-> g[1 .. i]]
<1>6. ASSUME NEW i \in 1 .. n PROVE flat[i] = body(flat)[i]
  <2>a. i \in Nat /\ 1 <= i /\ i <= n
    BY <1>1
  <2>1. 1 .. i \in SUBSET Indices(n) /\ 1 .. i # {} /\ (1 .. i) \ {i} = 1 .. i - 1
        /\ i \in Indices(n)
    <3>1. (1 .. i) \ {i} = 1 .. i - 1
      BY <2>a
    <3>2. 1 .. i \in SUBSET (1 .. n) /\ 1 .. i # {}
      <4> HIDE DEF n
      <4>1. \A j \in 1 .. i : j \in 1 .. n
        BY <1>1, <2>a
      <4>2. 1 \in 1 .. i
        BY <2>a
      <4> QED
        BY <4>1, <4>2
    <3> QED
      BY <3>1, <3>2 DEF Indices
  <2>2. Max(1 .. i) = i
    <3> HIDE DEF n
    <3>1. i \in 1 .. i /\ \A y \in 1 .. i : i >= y
      BY <2>1, <2>a
    <3>2. Max(1 .. i) \in 1 .. i /\ \A y \in 1 .. i : Max(1 .. i) >= y
      BY <3>1 DEF Max
    <3> QED
      BY <3>1, <3>2
  <2>3. g[1 .. i] = Step[i][g[1 .. i - 1]]
    <3> DEFINE T == 1 .. i
               R == 1 .. i - 1
    <3>1. T \in SUBSET Indices(n) /\ T # {} /\ T \ {i} = R /\ Max(T) = i
      BY <2>1, <2>2
    <3> HIDE DEF n, Step, A, T, R
    <3>2. g[T] = Step[i][g[R]]
      BY <1>5, <3>1 DEF LeftFolds
    <3> QED
      BY <3>2 DEF T, R
  <2>4. g[1 .. i - 1] \in A
    BY <1>5, <2>1
  <2>5. flat[i] = IF i = 1 THEN s[i] ELSE g[1 .. i - 1] \o s[i]
    <3>1. flat[i] = g[1 .. i]
      BY Zenon
    <3>2. Step[i][g[1 .. i - 1]] = IF i = 1 THEN s[i] ELSE g[1 .. i - 1] \o s[i]
      <4> HIDE DEF n, A
      <4> QED
        BY <2>1, <2>4
    <3> QED
      BY <2>3, <3>1, <3>2
  <2>6. i # 1 => flat[i - 1] = g[1 .. i - 1]
    BY <1>1
  <2> HIDE DEF flat
  <2> QED
    BY <2>5, <2>6
<1>7. flat = body(flat)
  <2>1. /\ flat = [i \in 1 .. n |-> flat[i]]
        /\ body(flat) = [i \in 1 .. n |-> body(flat)[i]]
    OBVIOUS
  <2> HIDE DEF body, flat
  <2> QED
    BY <1>6, <2>1
<1>8. h = body(h)
  <2> HIDE DEF body, flat
  <2> QED
    BY <1>7
<1> DEFINE Bad == {i \in 1 .. n : h[i] \notin A}
<1>9. Bad = {}
  <2> SUFFICES ASSUME Bad # {} PROVE FALSE
    BY Zenon
  <2>1. PICK i \in Bad : \A j \in Bad : i <= j
    <3>1. Bad \subseteq Nat
      <4> HIDE DEF h, A, n
      <4> QED
        OBVIOUS
    <3> HIDE DEF Bad
    <3> QED
      BY <3>1, LeastNat
  <2> HIDE DEF h, A
  <2>2. h[i] = IF i = 1 THEN s[i] ELSE h[i - 1] \o s[i]
    BY <1>8, <2>1
  <2>3. i # 1 => i - 1 \in 1 .. n /\ ~(i <= i - 1)
    BY <1>1, <2>1
  <2>4. i # 1 => h[i - 1] \in A
    BY <2>1, <2>3
  <2> QED
    BY <1>2, <1>3, <2>1, <2>2, <2>4
<1>10. Flattens(h, s)
  <2>1. h = [i \in 1 .. n |-> IF i = 1 THEN s[i] ELSE h[i - 1] \o s[i]]
    BY <1>8
  <2>2. \A i \in 1 .. n : h[i] \in Seq(Cell)
    <3> HIDE DEF h
    <3> QED
      BY <1>9
  <2> HIDE DEF h
  <2> QED
    BY <2>1, <2>2 DEF Flattens
<1>11. FlattenSeq(s) = IF Len(s) = 0 THEN s ELSE h[Len(s)]
  BY DEF FlattenSeq
<1> HIDE DEF h
<1> QED
  BY <1>10, <1>11

LEMMA FlattenTypes ==
    ASSUME NEW s \in Seq(Seq(Cell))
    PROVE  FlattenSeq(s) \in Seq(Cell)
<1>1. PICK h : Flattens(h, s) /\ FlattenSeq(s) = IF Len(s) = 0 THEN s ELSE h[Len(s)]
  BY FlattenForm
<1>2. Len(s) # 0 => h[Len(s)] \in Seq(Cell)
  <2>1. Len(s) # 0 => Len(s) \in 1 .. Len(s)
    OBVIOUS
  <2> QED
    BY <1>1, <2>1 DEF Flattens
<1>3. Len(s) = 0 => s \in Seq(Cell)
  OBVIOUS
<1> QED
  BY <1>1, <1>2, <1>3

\* The structures of a sequence of cells, one after the other.
LEMMA FlattenStructTypes ==
    ASSUME NEW s \in Seq(Cell)
    PROVE  FlattenSeq([i \in DOMAIN s |-> Struct(s[i])]) \in Seq(Cell)
<1>1. \A i \in 1 .. Len(s) : Struct(s[i]) \in Seq(Cell)
  BY StructTypes
<1>2. [i \in DOMAIN s |-> Struct(s[i])] \in Seq(Seq(Cell))
  BY <1>1
<1> QED
  BY <1>2, FlattenTypes

-----------------------------------------------------------------------------
(* Numbers.                                                                *)

LEMMA DivTypes ==
    ASSUME NEW a \in Int, NEW b \in Nat \ {0}
    PROVE  a % b \in Nat /\ a \div b \in Int /\ (a \in Nat => a \div b \in Nat)
OBVIOUS

LEMMA RoundUpTypes ==
    ASSUME NEW n \in Int, NEW m \in Nat \ {0}
    PROVE  roundUp(n, m) \in Nat
<1>1. UIntRange \in Nat \ {0}
  BY ElfFileAssumption
<1> DEFINE a == (n - 1) % UIntRange
           b == a \div m
<1>2. a \in Nat
  BY <1>1, DivTypes
<1>3. b \in Nat
  <2> HIDE DEF a
  <2> QED
    BY <1>2, DivTypes
<1>4. (b + 1) * m \in Int
  <2> HIDE DEF b
  <2> QED
    BY <1>3
<1>5. ((b + 1) * m) % UIntRange \in Nat
  <2> HIDE DEF b
  <2> QED
    BY <1>1, <1>4, DivTypes
<1> QED
  BY <1>5 DEF roundUp

LEMMA SwappedTypes ==
    ASSUME NEW n \in Nat
    PROVE  Swapped(n) \in Nat
BY DEF Swapped

-----------------------------------------------------------------------------
(* Objects.                                                                *)

Strings == UNION {[N -> Seq(Cell)] : N \in SUBSET SectionName}

Headers == UNION {[0 .. n - 1 -> Elf_Shdr] : n \in Nat \ {0}}

Elf_Object ==
    [contents: Seq(Cell), hdr: Elf_Ehdr, phdrs: Seq(Elf_Phdr), shdrs: Headers,
     rep: Strings, changed: BOOLEAN, isExec: BOOLEAN, old: Seq(SectionName),
     oldSize: Nat, page: Nat \ {0}, max: Nat, ties: {"kept", "swapped"},
     err: {"", "error", "abort", "undefined"}]

\* The objects a run works with.
Object ==
    {e \in Elf_Object : /\ e.hdr.e_shnum \in Nat \ {0}
                        /\ e.shdrs \in [0 .. e.hdr.e_shnum - 1 -> Elf_Shdr]
                        /\ Len(e.phdrs) = e.hdr.e_phnum}

LEMMA ObjectFields ==
    ASSUME NEW e \in Object
    PROVE  /\ e.contents \in Seq(Cell) /\ e.hdr \in Elf_Ehdr /\ e.phdrs \in Seq(Elf_Phdr)
           /\ e.hdr.e_shnum \in Nat \ {0}
           /\ e.shdrs \in [0 .. e.hdr.e_shnum - 1 -> Elf_Shdr]
           /\ Len(e.phdrs) = e.hdr.e_phnum /\ e.rep \in Strings
           /\ e.changed \in BOOLEAN /\ e.isExec \in BOOLEAN /\ e.old \in Seq(SectionName)
           /\ e.oldSize \in Nat /\ e.page \in Nat \ {0} /\ e.max \in Nat
           /\ e.ties \in {"kept", "swapped"}
           /\ e.err \in {"", "error", "abort", "undefined"}
<1> HIDE DEF Headers, Strings
<1>1. e \in Elf_Object
  BY DEF Object
<1> QED
  BY <1>1 DEF Object, Elf_Object

LEMMA HeaderFields ==
    ASSUME NEW h \in Elf_Ehdr
    PROVE  /\ h.e_entry \in Nat /\ h.e_phoff \in Nat /\ h.e_phnum \in Nat
           /\ h.e_shoff \in Nat /\ h.e_shnum \in Nat /\ h.e_shstrndx \in Nat
BY DEF Elf_Ehdr

LEMMA StringsFields ==
    ASSUME NEW r \in Strings
    PROVE  /\ DOMAIN r \subseteq SectionName
           /\ \A n \in DOMAIN r : r[n] \in Seq(Cell)
           /\ r = [n \in DOMAIN r |-> r[n]]
<1>1. PICK N \in SUBSET SectionName : r \in [N -> Seq(Cell)]
  BY DEF Strings
<1> QED
  BY <1>1

\* What may be put in the place of a field.
LEMMA ObjectUpdates ==
    ASSUME NEW e \in Object
    PROVE  /\ \A f \in Seq(Cell) : [e EXCEPT !.contents = f] \in Object
           /\ \A p \in Seq(Elf_Phdr) :
                  Len(p) = Len(e.phdrs) => [e EXCEPT !.phdrs = p] \in Object
           /\ \A s \in [0 .. e.hdr.e_shnum - 1 -> Elf_Shdr] : [e EXCEPT !.shdrs = s] \in Object
           /\ \A r \in Strings : [e EXCEPT !.rep = r] \in Object
           /\ \A x \in {"", "error", "abort", "undefined"} : [e EXCEPT !.err = x] \in Object
           /\ \A t \in {"kept", "swapped"} : [e EXCEPT !.ties = t] \in Object
           /\ \A b \in BOOLEAN : [e EXCEPT !.changed = b] \in Object
           /\ \A h \in Elf_Ehdr : h.e_shnum = e.hdr.e_shnum /\ h.e_phnum = e.hdr.e_phnum
                                      => [e EXCEPT !.hdr = h] \in Object
<1> HIDE DEF Headers, Strings
<1>0. e \in Elf_Object /\ e.hdr.e_shnum \in Nat \ {0}
      /\ e.shdrs \in [0 .. e.hdr.e_shnum - 1 -> Elf_Shdr] /\ Len(e.phdrs) = e.hdr.e_phnum
  BY DEF Object
<1>1. \A f \in Seq(Cell) : [e EXCEPT !.contents = f] \in Object
  BY <1>0 DEF Object, Elf_Object
<1>2. ASSUME NEW p \in Seq(Elf_Phdr), Len(p) = Len(e.phdrs)
      PROVE  [e EXCEPT !.phdrs = p] \in Object
  BY <1>0, <1>2 DEF Object, Elf_Object
<1>3. ASSUME NEW s \in [0 .. e.hdr.e_shnum - 1 -> Elf_Shdr]
      PROVE  [e EXCEPT !.shdrs = s] \in Object
  <2>1. s \in Headers
    BY <1>0 DEF Headers
  <2> QED
    BY <1>0, <2>1 DEF Object, Elf_Object
<1>4. \A r \in Strings : [e EXCEPT !.rep = r] \in Object
  BY <1>0 DEF Object, Elf_Object
<1>5. \A x \in {"", "error", "abort", "undefined"} : [e EXCEPT !.err = x] \in Object
  BY <1>0 DEF Object, Elf_Object
<1>6. \A t \in {"kept", "swapped"} : [e EXCEPT !.ties = t] \in Object
  BY <1>0 DEF Object, Elf_Object
<1>7. \A b \in BOOLEAN : [e EXCEPT !.changed = b] \in Object
  BY <1>0 DEF Object, Elf_Object
<1>8. \A h \in Elf_Ehdr : h.e_shnum = e.hdr.e_shnum /\ h.e_phnum = e.hdr.e_phnum
                              => [e EXCEPT !.hdr = h] \in Object
  BY <1>0 DEF Object, Elf_Object
<1> QED
  BY <1>1, <1>2, <1>3, <1>4, <1>5, <1>6, <1>7, <1>8

LEMMA FailTypes ==
    ASSUME NEW e \in Object, NEW how \in {"error", "abort", "undefined"}
    PROVE  Fail(e, how) \in Object
BY ObjectFields, ObjectUpdates DEF Fail

LEMMA RequireTypes ==
    ASSUME NEW e \in Object, NEW cond
    PROVE  Require(e, cond) \in Object
BY FailTypes DEF Require

\* Ending with an error changes nothing else.
LEMMA FailKeeps ==
    ASSUME NEW e \in Object, NEW how
    PROVE  /\ Fail(e, how).contents = e.contents /\ Fail(e, how).rep = e.rep
           /\ Fail(e, how).hdr = e.hdr /\ Fail(e, how).shdrs = e.shdrs
           /\ Fail(e, how).phdrs = e.phdrs
BY DEF Fail, Object, Elf_Object

LEMMA GrowTypes ==
    ASSUME NEW e \in Object, NEW n \in Int
    PROVE  /\ growFile(e, n) \in Object
           /\ growFile(e, n).hdr = e.hdr /\ growFile(e, n).phdrs = e.phdrs
           /\ growFile(e, n).shdrs = e.shdrs /\ growFile(e, n).rep = e.rep
<1>1. e.contents \in Seq(Cell) /\ Len(e.contents) \in Nat
  <2>1. e.contents \in Seq(Cell)
    BY ObjectFields
  <2> QED
    BY <2>1, LenProperties
<1>2. Zeros(n - Len(e.contents)) \in Seq(Cell)
  BY <1>1, ZerosTypes
<1>3. e.contents \o Zeros(n - Len(e.contents)) \in Seq(Cell)
  BY <1>1, <1>2, ConcatProperties
<1>4. [e EXCEPT !.contents = e.contents \o Zeros(n - Len(e.contents))] \in Object
  BY <1>3, ObjectUpdates
<1>5. \A f : /\ [e EXCEPT !.contents = f].hdr = e.hdr
             /\ [e EXCEPT !.contents = f].phdrs = e.phdrs
             /\ [e EXCEPT !.contents = f].shdrs = e.shdrs
             /\ [e EXCEPT !.contents = f].rep = e.rep
  BY DEF Object, Elf_Object
<1> QED
  BY <1>4, <1>5, FailTypes, FailKeeps DEF growFile

LEMMA FindSectionTypes ==
    ASSUME NEW e \in Object, NEW name
    PROVE  /\ findSection3(e, name) \in 0 .. e.hdr.e_shnum - 1
           /\ Section(e, name) \in Elf_Shdr
<1> DEFINE found == {i \in 1 .. e.hdr.e_shnum - 1 : e.shdrs[i].sh_name = name}
<1>1. e.hdr.e_shnum \in Nat \ {0} /\ e.shdrs \in [0 .. e.hdr.e_shnum - 1 -> Elf_Shdr]
  BY ObjectFields
<1>2. found # {} => Min(found) \in found
  <2>1. found \subseteq Nat
    BY <1>1
  <2> HIDE DEF found
  <2> QED
    BY <2>1, LeastNat
<1>3. findSection3(e, name) \in 0 .. e.hdr.e_shnum - 1
  <2>1. findSection3(e, name) = IF found = {} THEN 0 ELSE Min(found)
    BY DEF findSection3
  <2>2. found \subseteq 0 .. e.hdr.e_shnum - 1 /\ 0 \in 0 .. e.hdr.e_shnum - 1
    BY <1>1
  <2> HIDE DEF found
  <2> QED
    BY <1>2, <2>1, <2>2
<1> QED
  BY <1>1, <1>3 DEF Section

LEMMA SectionFields ==
    ASSUME NEW s \in Elf_Shdr
    PROVE  /\ s.sh_addr \in Nat /\ s.sh_offset \in Nat /\ s.sh_size \in Nat
           /\ s.sh_link \in Nat /\ s.sh_info \in Nat /\ s.sh_name \in SectionName
BY DEF Elf_Shdr

LEMMA FindTypes ==
    ASSUME NEW e \in Object, NEW names
    PROVE  /\ Find(e, names) \in Object
           /\ Find(e, names).rep = e.rep /\ Find(e, names).hdr = e.hdr
           /\ Find(e, names).shdrs = e.shdrs /\ Find(e, names).phdrs = e.phdrs
           /\ Find(e, names).contents = e.contents
BY FailTypes, FailKeeps DEF Find

LEMMA ResizeTypes ==
    ASSUME NEW s \in Seq(Cell), NEW n \in Nat
    PROVE  Resize(s, n) \in Seq(Cell) /\ Len(Resize(s, n)) = n
<1> HIDE DEF Cell
<1>1. CASE n <= Len(s)
  <2>1. \A i \in 1 .. n : s[i] \in Cell
    BY <1>1
  <2>2. SubSeq(s, 1, n) \in Seq(Cell) /\ Len(SubSeq(s, 1, n)) = n
    BY <2>1, SubSeqProperties
  <2> QED
    BY <1>1, <2>2 DEF Resize
<1>2. CASE ~(n <= Len(s))
  <2>1. n - Len(s) \in Nat
    BY <1>2
  <2>2. Zeros(n - Len(s)) \in Seq(Cell) /\ Len(Zeros(n - Len(s))) = n - Len(s)
    BY <2>1, ZerosTypes
  <2>3. s \o Zeros(n - Len(s)) \in Seq(Cell) /\ Len(s \o Zeros(n - Len(s))) = Len(s) + (n - Len(s))
    BY <2>2, ConcatProperties
  <2> QED
    BY <1>2, <2>3 DEF Resize
<1> QED
  BY <1>1, <1>2

\* Two sections more in rep, or new contents of one.
LEMMA StringsUpdate ==
    ASSUME NEW r \in Strings, NEW name \in SectionName, NEW s \in Seq(Cell)
    PROVE  /\ [n \in DOMAIN r \cup {name} |-> IF n = name THEN s ELSE r[n]] \in Strings
           /\ [r EXCEPT ![name] = s] \in Strings
<1>1. DOMAIN r \subseteq SectionName /\ \A n \in DOMAIN r : r[n] \in Seq(Cell)
  BY StringsFields
<1>2. [n \in DOMAIN r \cup {name} |-> IF n = name THEN s ELSE r[n]]
          \in [DOMAIN r \cup {name} -> Seq(Cell)]
  BY <1>1
<1>3. [r EXCEPT ![name] = s] \in [DOMAIN r -> Seq(Cell)]
  BY <1>1
<1>4. \A N \in SUBSET SectionName : \A f \in [N -> Seq(Cell)] : f \in Strings
  BY DEF Strings
<1> QED
  BY <1>1, <1>2, <1>3, <1>4

LEMMA ReplaceSectionTypes ==
    ASSUME NEW e \in Object, NEW name \in SectionName, NEW size \in Nat
    PROVE  LET g == replaceSection(e, name, size)
           IN  /\ g \in Object
               /\ DOMAIN g.rep = DOMAIN e.rep \cup {name}
               /\ g.rep[name] \in Seq(Cell) /\ Len(g.rep[name]) = size
               /\ g.contents = e.contents /\ g.hdr = e.hdr
               /\ g.shdrs = e.shdrs /\ g.phdrs = e.phdrs
<1> DEFINE s == Section(e, name)
           was == IF name \in DOMAIN e.rep THEN e.rep[name]
                  ELSE Slice(e.contents, s.sh_offset, s.sh_size)
           x == Find(e, {name})
           r == [n \in DOMAIN x.rep \cup {name} |->
                     IF n = name THEN Resize(was, size) ELSE x.rep[n]]
           g == [x EXCEPT !.rep = r]
<1>1. e.contents \in Seq(Cell) /\ e.rep \in Strings
  BY ObjectFields
<1>2. was \in Seq(Cell)
  <2>1. s.sh_offset \in Nat /\ s.sh_size \in Nat
    BY FindSectionTypes, SectionFields
  <2>2. Slice(e.contents, s.sh_offset, s.sh_size) \in Seq(Cell)
    <3> HIDE DEF s
    <3> QED
      BY <1>1, <2>1, SliceTypes
  <2>3. name \in DOMAIN e.rep => e.rep[name] \in Seq(Cell)
    BY <1>1, StringsFields
  <2> QED
    BY <2>2, <2>3
<1>3. Resize(was, size) \in Seq(Cell) /\ Len(Resize(was, size)) = size
  <2> HIDE DEF was
  <2> QED
    BY <1>2, ResizeTypes
<1>4. x \in Object /\ x.rep = e.rep /\ x.hdr = e.hdr /\ x.shdrs = e.shdrs
      /\ x.phdrs = e.phdrs /\ x.contents = e.contents
  BY FindTypes
<1>5. r \in Strings
  <2> HIDE DEF was, x
  <2> QED
    BY <1>1, <1>3, <1>4, StringsUpdate
<1>6. replaceSection(e, name, size) = g
  BY DEF replaceSection
<1>7. DOMAIN r = DOMAIN e.rep \cup {name} /\ r[name] = Resize(was, size)
  <2> HIDE DEF was, x
  <2> QED
    BY <1>4
<1>8. g \in Object
  <2> HIDE DEF x, r
  <2> QED
    BY <1>4, <1>5, ObjectUpdates
<1>9. g.rep = r /\ g.hdr = x.hdr /\ g.shdrs = x.shdrs /\ g.phdrs = x.phdrs
      /\ g.contents = x.contents
  <2> HIDE DEF x, r
  <2> QED
    BY <1>4 DEF Object, Elf_Object
<1> HIDE DEF g, x, r, was
<1> QED
  BY <1>3, <1>4, <1>6, <1>7, <1>8, <1>9

LEMMA SetSubstrTypes ==
    ASSUME NEW e \in Object, NEW name \in DOMAIN e.rep, NEW pos \in Int,
           NEW t \in Seq(Cell)
    PROVE  LET g == setSubstr(e, name, pos, t)
           IN  /\ g \in Object /\ DOMAIN g.rep = DOMAIN e.rep
               /\ g.contents = e.contents /\ g.hdr = e.hdr
               /\ g.shdrs = e.shdrs /\ g.phdrs = e.phdrs
<1> DEFINE x == Require(e, pos + Len(t) <= Len(e.rep[name]))
           r == [x.rep EXCEPT ![name] = Overwrite(x.rep[name], pos, t)]
           g == [x EXCEPT !.rep = r]
<1>1. x \in Object /\ x.rep = e.rep /\ x.hdr = e.hdr /\ x.shdrs = e.shdrs
      /\ x.phdrs = e.phdrs /\ x.contents = e.contents
  BY RequireTypes, FailKeeps DEF Require
<1>2. e.rep \in Strings
  BY ObjectFields
<1>3. name \in SectionName /\ e.rep[name] \in Seq(Cell)
  BY <1>2, StringsFields
<1>4. Overwrite(e.rep[name], pos, t) \in Seq(Cell)
  BY <1>3, OverwriteTypes
<1>5. r \in Strings /\ DOMAIN r = DOMAIN e.rep
  <2> HIDE DEF x
  <2> QED
    BY <1>1, <1>2, <1>3, <1>4, StringsUpdate
<1>6. setSubstr(e, name, pos, t) = g
  <2> HIDE DEF x
  <2> QED
    BY DEF setSubstr, x
<1>7. g \in Object /\ g.rep = r
      /\ g.hdr = x.hdr /\ g.shdrs = x.shdrs /\ g.phdrs = x.phdrs /\ g.contents = x.contents
  <2> HIDE DEF x, r
  <2>1. [x EXCEPT !.rep = r] \in Object
    BY <1>1, <1>5, ObjectUpdates
  <2> QED
    BY <1>1, <2>1 DEF Object, Elf_Object
<1> HIDE DEF g, x, r
<1> QED
  BY <1>1, <1>5, <1>6, <1>7

-----------------------------------------------------------------------------
(* Sorting.                                                                *)

\* B[i] is what goes before i: the order is strict and total.
Orders(B, D) ==
    /\ B \in [D -> SUBSET D]
    /\ \A i \in D : i \notin B[i]
    /\ \A i, j \in D : i # j => i \in B[j] \/ j \in B[i]
    /\ \A i, j, k \in D : i \in B[j] /\ j \in B[k] => i \in B[k]

\* The indices of a table of length n that begins at first.
Run(first, n) == first .. first + n - 1

\* The place of an entry in the sorted table: after all that go before it.
Places(D, first, B) == [i \in D |-> first + Cardinality(B[i])]

\* Counting what goes before an index gives every place in the table once,
\* and keeps the order.
LEMMA PlacesInOrder ==
    ASSUME NEW first \in Int, NEW n \in Nat, NEW D, D = Run(first, n),
           NEW B, Orders(B, D)
    PROVE  /\ Places(D, first, B) \in Bijection(D, D)
           /\ \A i, j \in D : i \in B[j] => Places(D, first, B)[i] < Places(D, first, B)[j]
<1> USE DEF Run
<1>1. IsFiniteSet(D) /\ Cardinality(D) = n
  BY FS_Interval
<1> DEFINE place == Places(D, first, B)
<1>2. ASSUME NEW i \in D
      PROVE  /\ IsFiniteSet(B[i]) /\ Cardinality(B[i]) \in Nat
             /\ Cardinality(B[i]) < n
             /\ place[i] = first + Cardinality(B[i])
  <2>1. B[i] \in SUBSET D /\ B[i] # D
    BY DEF Orders
  <2>2. IsFiniteSet(B[i]) /\ Cardinality(B[i]) <= n /\ Cardinality(B[i]) # n
    BY <1>1, <2>1, FS_Subset
  <2> QED
    BY <2>2, FS_CardinalityType DEF Places
<1>3. place \in [D -> D]
  <2>1. \A i \in D : first + Cardinality(B[i]) \in D
    BY <1>2
  <2> QED
    BY <2>1 DEF Places
<1>4. ASSUME NEW i \in D, NEW j \in D, i \in B[j]
      PROVE  place[i] < place[j]
  <2>1. B[i] \in SUBSET B[j] /\ B[i] # B[j]
    BY <1>4 DEF Orders
  <2>2. Cardinality(B[i]) <= Cardinality(B[j]) /\ Cardinality(B[i]) # Cardinality(B[j])
    BY <1>2, <2>1, FS_Subset
  <2> QED
    BY <1>2, <2>2
<1>5. \A i, j \in D : place[i] = place[j] => i = j
  <2> SUFFICES ASSUME NEW i \in D, NEW j \in D, i # j PROVE place[i] # place[j]
    OBVIOUS
  <2>1. i \in B[j] \/ j \in B[i]
    BY DEF Orders
  <2>2. place[i] \in Int /\ place[j] \in Int
    BY <1>3
  <2> QED
    BY <1>4, <2>1, <2>2
<1>6. place \in Bijection(D, D)
  <2> HIDE DEF place, Run
  <2>1. place \in Injection(D, D)
    BY <1>3, <1>5 DEF Injection, IsInjective
  <2>2. place \in Surjection(D, D)
    BY <1>1, <2>1, FS_Injection
  <2> QED
    BY <2>1, <2>2 DEF Bijection
<1> QED
  BY <1>4, <1>6

\* The order by a number, and by position where that is equal.
LEMMA RankOrders ==
    ASSUME NEW D, Ints(D), NEW rank \in [D -> Int], NEW up \in BOOLEAN
    PROVE  Orders([i \in D |-> {j \in D : \/ rank[j] < rank[i]
                                          \/ rank[j] = rank[i]
                                             /\ (IF up THEN j < i ELSE i < j)}], D)
<1> DEFINE b(j, i) == \/ rank[j] < rank[i]
                      \/ rank[j] = rank[i] /\ (IF up THEN j < i ELSE i < j)
           B == [i \in D |-> {j \in D : b(j, i)}]
<1>1. \A i \in D : ~b(i, i)
  BY DEF Ints
<1>2. \A i, j \in D : i # j => b(i, j) \/ b(j, i)
  BY DEF Ints
<1>3. \A i, j, k \in D : b(i, j) /\ b(j, k) => b(i, k)
  BY DEF Ints
<1>4. \A i, j \in D : j \in B[i] <=> b(j, i)
  <2> HIDE DEF b
  <2> QED
    OBVIOUS
<1>5. B \in [D -> SUBSET D]
  <2> HIDE DEF b
  <2> QED
    OBVIOUS
<1>6. Orders(B, D)
  <2> HIDE DEF b, B
  <2> QED
    BY <1>1, <1>2, <1>3, <1>4, <1>5 DEF Orders
<1> QED
  BY <1>6

\* A table in the order of B.
Permuted(table, first, B) ==
    [k \in DOMAIN table |->
        table[CHOOSE i \in DOMAIN table : Places(DOMAIN table, first, B)[i] = k]]

\* u is table with every entry moved to its place.
InPlace(table, place, u) == \A i \in DOMAIN place : u[place[i]] = table[i]

\* Every entry is at its place.
LEMMA PermutedPlaces ==
    ASSUME NEW first \in Int, NEW n \in Nat, NEW D, D = Run(first, n),
           NEW B, Orders(B, D), NEW table, DOMAIN table = D
    PROVE  InPlace(table, Places(D, first, B), Permuted(table, first, B))
<1> DEFINE place == Places(D, first, B)
           at(k) == CHOOSE i \in D : place[i] = k
<1>1. /\ place \in [D -> D] /\ \A k \in D : \E i \in D : place[i] = k
      /\ \A i, j \in D : place[i] = place[j] => i = j
  BY PlacesInOrder, Fun_BijectionProperties
<1>2. Permuted(table, first, B) = [k \in D |-> table[at(k)]]
  BY DEF Permuted
<1> HIDE DEF place
<1>3. \A k \in D : at(k) \in D /\ place[at(k)] = k
  BY <1>1
<1>4. \A i \in D : at(place[i]) = i
  BY <1>1, <1>3
<1> HIDE DEF at
<1> QED
  BY <1>1, <1>2, <1>4 DEF place, InPlace

\* Nothing else is in the table.
LEMMA PermutedTypes ==
    ASSUME NEW first \in Int, NEW n \in Nat, NEW D, D = Run(first, n),
           NEW B, Orders(B, D), NEW T, NEW table \in [D -> T]
    PROVE  Permuted(table, first, B) \in [D -> T]
<1> DEFINE place == Places(D, first, B)
<1>1. \A k \in D : \E i \in D : place[i] = k
  BY PlacesInOrder, Fun_BijectionProperties
<1>2. Permuted(table, first, B) = [k \in D |-> table[CHOOSE i \in D : place[i] = k]]
  BY DEF Permuted
<1> HIDE DEF place
<1> QED
  BY <1>1, <1>2

LEMMA SortPhdrsTypes ==
    ASSUME NEW e \in Object
    PROVE  /\ sortPhdrs(e) \in Object
           /\ sortPhdrs(e).hdr = e.hdr /\ sortPhdrs(e).contents = e.contents
           /\ sortPhdrs(e).shdrs = e.shdrs /\ sortPhdrs(e).rep = e.rep
<1> DEFINE n == Len(e.phdrs)
           D == 1 .. n
           rank == [i \in D |-> IF e.phdrs[i].p_type = "PT_PHDR" /\ ~Foreign(e) THEN -1
                                ELSE e.phdrs[i].p_paddr]
           up == e.ties = "kept"
           B == [i \in D |-> {j \in D : \/ rank[j] < rank[i]
                                        \/ rank[j] = rank[i]
                                           /\ (IF up THEN j < i ELSE i < j)}]
           table == Permuted(e.phdrs, 1, B)
<1>1. e.phdrs \in [D -> Elf_Phdr] /\ n \in Nat /\ DOMAIN e.phdrs = D
  <2>1. e.phdrs \in Seq(Elf_Phdr)
    BY ObjectFields
  <2> QED
    BY <2>1, LenProperties
<1>2. rank \in [D -> Int]
  <2>1. \A p \in Elf_Phdr : p.p_paddr \in Nat
    BY DEF Elf_Phdr
  <2> HIDE DEF D
  <2> QED
    BY <1>1, <2>1
<1>3. Orders(B, D)
  <2>1. Ints(D) /\ up \in BOOLEAN
    BY DEF Ints
  <2> HIDE DEF D, rank, up
  <2> QED
    BY <1>2, <2>1, RankOrders
<1>4. table \in [D -> Elf_Phdr]
  <2>1. D = Run(1, n)
    BY <1>1 DEF Run
  <2> HIDE DEF D, n, B
  <2> QED
    BY <1>1, <1>3, <2>1, PermutedTypes
<1>5. table \in Seq(Elf_Phdr) /\ Len(table) = Len(e.phdrs)
  <2> HIDE DEF table
  <2> QED
    BY <1>1, <1>4
<1>6. sortPhdrs(e) = [e EXCEPT !.phdrs = table]
  <2> DEFINE first(p) == p.p_type = "PT_PHDR" /\ ~Foreign(e)
             by(i) == IF first(e.phdrs[i]) THEN -1 ELSE e.phdrs[i].p_paddr
             before(i, j) == \/ by(i) < by(j)
                             \/ by(i) = by(j) /\ TieBefore(e, i, j)
             goes(j, i) == \/ rank[j] < rank[i]
                           \/ rank[j] = rank[i] /\ (IF up THEN j < i ELSE i < j)
             pl == [i \in D |-> 1 + Cardinality({j \in D : before(j, i)})]
             pb == [i \in D |-> 1 + Cardinality(B[i])]
  <2>1. \A i \in D : {j \in D : before(j, i)} = B[i]
    <3>1. \A i \in D : rank[i] = by(i)
      OBVIOUS
    <3>2. \A i, j \in D : before(j, i) <=> goes(j, i)
      <4>1. \A i, j \in D : TieBefore(e, j, i) <=> (IF up THEN j < i ELSE i < j)
        BY DEF TieBefore
      <4> HIDE DEF D, rank, by, up
      <4> QED
        BY <1>2, <3>1, <4>1
    <3>3. \A i, j \in D : j \in B[i] <=> goes(j, i)
      <4> HIDE DEF D, rank, up
      <4> QED
        OBVIOUS
    <3>4. \A i \in D : B[i] \subseteq D
      <4> HIDE DEF D, rank, up
      <4> QED
        OBVIOUS
    <3>5. \A i, j \in D : before(j, i) <=> j \in B[i]
      <4> HIDE DEF D, rank, up, before, B, goes
      <4> QED
        BY <3>2, <3>3
    <3> HIDE DEF D, rank, up, before, B
    <3> QED
      BY <3>4, <3>5
  <2>2. pl = pb
    <3> HIDE DEF D, B, before
    <3> QED
      BY <2>1
  <2>3. sortPhdrs(e) = [e EXCEPT !.phdrs = Sorted(e.phdrs, 1, before)]
    BY DEF sortPhdrs
  <2>4. Sorted(e.phdrs, 1, before)
            = [k \in D |-> e.phdrs[CHOOSE i \in D : pl[i] = k]]
    <3> HIDE DEF D, before
    <3> QED
      BY <1>1 DEF Sorted
  <2>5. table = [k \in D |-> e.phdrs[CHOOSE i \in D : pb[i] = k]]
    <3> HIDE DEF D, B
    <3> QED
      BY <1>1 DEF Permuted, Places
  <2>6. Sorted(e.phdrs, 1, before) = table
    <3> HIDE DEF D, B, before, pl, pb, table
    <3> QED
      BY <2>2, <2>4, <2>5
  <2> HIDE DEF before, table
  <2> QED
    BY <2>3, <2>6
<1>7. [e EXCEPT !.phdrs = table] \in Object
  <2> HIDE DEF table
  <2> QED
    BY <1>5, ObjectUpdates
<1>8. \A p : /\ [e EXCEPT !.phdrs = p].hdr = e.hdr
             /\ [e EXCEPT !.phdrs = p].contents = e.contents
             /\ [e EXCEPT !.phdrs = p].shdrs = e.shdrs
             /\ [e EXCEPT !.phdrs = p].rep = e.rep
  BY DEF Object, Elf_Object
<1> HIDE DEF table
<1> QED
  BY <1>6, <1>7, <1>8

\* What goes before a section when the section headers are sorted.
OffsetOrder(e) ==
    [i \in DOMAIN e.shdrs |->
        {j \in DOMAIN e.shdrs :
            \/ e.shdrs[j].sh_offset < e.shdrs[i].sh_offset
            \/ e.shdrs[j].sh_offset = e.shdrs[i].sh_offset
                   /\ (IF e.ties = "kept" THEN j < i ELSE i < j)}]

\* The section headers in the order of their offsets, as sortShdrs takes them
\* before it translates the indices in them.
ByOffset(e) == Permuted(e.shdrs, 0, OffsetOrder(e))

\* Where sortShdrs finds the section that index i meant.
NewIndex(e, i) == findSection3([e EXCEPT !.shdrs = ByOffset(e)], e.shdrs[i].sh_name)

\* A section header with its indices translated.
Relinked(e, x) ==
    [x EXCEPT !.sh_link = IF @ # 0 THEN NewIndex(e, @) ELSE 0,
              !.sh_info = IF @ # 0 /\ x.sh_type \in {"SHT_REL", "SHT_RELA"}
                          THEN NewIndex(e, @) ELSE @]

LEMMA OffsetOrders ==
    ASSUME NEW e \in Object
    PROVE  Orders(OffsetOrder(e), DOMAIN e.shdrs)
<1> DEFINE D == DOMAIN e.shdrs
           rank == [i \in D |-> e.shdrs[i].sh_offset]
           up == e.ties = "kept"
           B == [i \in D |-> {j \in D : \/ rank[j] < rank[i]
                                        \/ rank[j] = rank[i]
                                           /\ (IF up THEN j < i ELSE i < j)}]
<1>1. e.shdrs \in [D -> Elf_Shdr] /\ Ints(D)
  <2>1. e.shdrs \in [0 .. e.hdr.e_shnum - 1 -> Elf_Shdr]
    BY ObjectFields
  <2>2. D = 0 .. e.hdr.e_shnum - 1
    BY <2>1
  <2> HIDE DEF D
  <2> QED
    BY <2>1, <2>2 DEF Ints
<1>2. rank \in [D -> Int] /\ up \in BOOLEAN
  <2> HIDE DEF D
  <2> QED
    BY <1>1, SectionFields
<1>3. Orders(B, D)
  <2> HIDE DEF D, rank, up
  <2> QED
    BY <1>1, <1>2, RankOrders
<1>4. B = OffsetOrder(e)
  <2>1. \A i \in D : rank[i] = e.shdrs[i].sh_offset
    OBVIOUS
  <2> HIDE DEF rank
  <2> QED
    BY <2>1 DEF OffsetOrder
<1> HIDE DEF B
<1> QED
  BY <1>3, <1>4

\* Every section header is at its place in the sorted table.
LEMMA ByOffsetPlaces ==
    ASSUME NEW e \in Object
    PROVE  LET D == 0 .. e.hdr.e_shnum - 1
               place == Places(D, 0, OffsetOrder(e))
           IN  /\ ByOffset(e) \in [D -> Elf_Shdr] /\ place \in Bijection(D, D)
               /\ \A i \in D : ByOffset(e)[place[i]] = e.shdrs[i]
               /\ \A i, j \in D : e.shdrs[i].sh_offset < e.shdrs[j].sh_offset
                                      => place[i] < place[j]
<1> DEFINE n == e.hdr.e_shnum
           D == 0 .. n - 1
           B == OffsetOrder(e)
<1>1. n \in Nat /\ D = Run(0, n) /\ e.shdrs \in [D -> Elf_Shdr] /\ DOMAIN e.shdrs = D
  <2>1. n \in Nat /\ e.shdrs \in [D -> Elf_Shdr]
    BY ObjectFields
  <2> QED
    BY <2>1 DEF Run
<1>2. Orders(B, D)
  BY <1>1, OffsetOrders
<1>3. ByOffset(e) = Permuted(e.shdrs, 0, B)
  BY DEF ByOffset
<1>4. \A i, j \in D : e.shdrs[i].sh_offset < e.shdrs[j].sh_offset => i \in B[j]
  BY <1>1 DEF OffsetOrder
<1> HIDE DEF n, D, B
<1>5. /\ Permuted(e.shdrs, 0, B) \in [D -> Elf_Shdr]
      /\ \A i \in D : Permuted(e.shdrs, 0, B)[Places(D, 0, B)[i]] = e.shdrs[i]
  <2>1. Permuted(e.shdrs, 0, B) \in [D -> Elf_Shdr]
    BY <1>1, <1>2, PermutedTypes
  <2>2. InPlace(e.shdrs, Places(D, 0, B), Permuted(e.shdrs, 0, B))
    BY <1>1, <1>2, PermutedPlaces
  <2> QED
    BY <2>1, <2>2 DEF InPlace, Places
<1>6. /\ Places(D, 0, B) \in Bijection(D, D)
      /\ \A i, j \in D : i \in B[j] => Places(D, 0, B)[i] < Places(D, 0, B)[j]
  BY <1>1, <1>2, PlacesInOrder
<1> QED
  BY <1>3, <1>4, <1>5, <1>6 DEF n, D, B

\* sortShdrs in terms of the sorted table.
LEMMA SortShdrsForm ==
    ASSUME NEW e \in Object
    PROVE  sortShdrs(e) =
               [e EXCEPT !.shdrs = [i \in DOMAIN ByOffset(e) |->
                                       IF i = 0 THEN ByOffset(e)[0]
                                       ELSE Relinked(e, ByOffset(e)[i])],
                         !.hdr = [e.hdr EXCEPT !.e_shstrndx = NewIndex(e, @)]]
<1> DEFINE D == DOMAIN e.shdrs
           before(i, j) == \/ e.shdrs[i].sh_offset < e.shdrs[j].sh_offset
                           \/ e.shdrs[i].sh_offset = e.shdrs[j].sh_offset
                              /\ TieBefore(e, i, j)
           B == OffsetOrder(e)
           pl == [i \in D |-> 0 + Cardinality({j \in D : before(j, i)})]
           pb == [i \in D |-> 0 + Cardinality(B[i])]
           s == [e EXCEPT !.shdrs = ByOffset(e)]
           isRel(x) == x.sh_type \in {"SHT_REL", "SHT_RELA"}
           to(z, i) == findSection3(z, e.shdrs[i].sh_name)
           linked(z, x) ==
               [x EXCEPT !.sh_link = IF @ # 0 THEN to(z, @) ELSE 0,
                         !.sh_info = IF @ # 0 /\ isRel(x) THEN to(z, @) ELSE @]
           f(z) == [z EXCEPT
                       !.shdrs = [i \in DOMAIN @ |-> IF i = 0 THEN @[0] ELSE linked(z, @[i])],
                       !.hdr.e_shstrndx = to(z, e.hdr.e_shstrndx)]
<1>1. Sorted(e.shdrs, 0, before) = ByOffset(e)
  <2>1. \A i \in D : {j \in D : before(j, i)} = B[i]
    BY DEF TieBefore, OffsetOrder
  <2>2. pl = pb
    <3> HIDE DEF D, B, before
    <3> QED
      BY <2>1
  <2>3. Sorted(e.shdrs, 0, before) = [k \in D |-> e.shdrs[CHOOSE i \in D : pl[i] = k]]
    <3> HIDE DEF before
    <3> QED
      BY DEF Sorted
  <2>4. ByOffset(e) = [k \in D |-> e.shdrs[CHOOSE i \in D : pb[i] = k]]
    <3> HIDE DEF B
    <3> QED
      BY DEF ByOffset, Permuted, Places, B
  <2> HIDE DEF D, B, before, pl, pb
  <2> QED
    BY <2>2, <2>3, <2>4
<1>2. sortShdrs(e) = f([e EXCEPT !.shdrs = Sorted(e.shdrs, 0, before)])
  BY Zenon DEF sortShdrs
<1>3. \A i : to(s, i) = NewIndex(e, i)
  BY DEF NewIndex
<1>4. \A x : linked(s, x) = Relinked(e, x)
  BY Zenon DEF Relinked, NewIndex
<1>5. s.shdrs = ByOffset(e) /\ s.hdr = e.hdr
  BY DEF Object, Elf_Object
<1>6. f(s) = [s EXCEPT !.shdrs = [i \in DOMAIN ByOffset(e) |->
                                     IF i = 0 THEN ByOffset(e)[0]
                                     ELSE Relinked(e, ByOffset(e)[i])],
                       !.hdr = [e.hdr EXCEPT !.e_shstrndx = NewIndex(e, @)]]
  <2> HIDE DEF s, to, linked
  <2> QED
    BY <1>3, <1>4, <1>5
<1>7. \A t, h : [s EXCEPT !.shdrs = t, !.hdr = h] = [e EXCEPT !.shdrs = t, !.hdr = h]
  BY DEF Object, Elf_Object
<1> HIDE DEF f, before, s
<1> QED
  BY <1>1, <1>2, <1>5, <1>6, <1>7 DEF s

LEMMA SortShdrsTypes ==
    ASSUME NEW e \in Object
    PROVE  /\ sortShdrs(e) \in Object
           /\ sortShdrs(e).contents = e.contents /\ sortShdrs(e).phdrs = e.phdrs
           /\ sortShdrs(e).rep = e.rep
<1> DEFINE D == 0 .. e.hdr.e_shnum - 1
           t == [i \in DOMAIN ByOffset(e) |-> IF i = 0 THEN ByOffset(e)[0]
                                              ELSE Relinked(e, ByOffset(e)[i])]
           h == [e.hdr EXCEPT !.e_shstrndx = NewIndex(e, @)]
           x == [e EXCEPT !.shdrs = t]
<1>1. ByOffset(e) \in [D -> Elf_Shdr] /\ e.hdr.e_shnum \in Nat \ {0} /\ e.hdr \in Elf_Ehdr
  BY ByOffsetPlaces, ObjectFields
<1>2. \A i : NewIndex(e, i) \in Nat
  <2> DEFINE s == [e EXCEPT !.shdrs = ByOffset(e)]
  <2>1. s \in Object
    BY <1>1, ObjectUpdates
  <2>2. s.hdr.e_shnum \in Nat \ {0}
    BY <2>1, ObjectFields
  <2> HIDE DEF s
  <2>3. \A m : findSection3(s, m) \in Nat
    BY <2>1, <2>2, FindSectionTypes
  <2> QED
    BY <2>3 DEF NewIndex, s
<1>3. \A y \in Elf_Shdr : Relinked(e, y) \in Elf_Shdr
  BY <1>2 DEF Relinked, Elf_Shdr
<1>4. t \in [D -> Elf_Shdr]
  BY <1>1, <1>3
<1>5. h \in Elf_Ehdr /\ h.e_shnum = e.hdr.e_shnum /\ h.e_phnum = e.hdr.e_phnum
  BY <1>1, <1>2 DEF Elf_Ehdr
<1> HIDE DEF t, h
<1>6. x \in Object /\ x.hdr = e.hdr /\ x.contents = e.contents /\ x.phdrs = e.phdrs
      /\ x.rep = e.rep
  <2>1. x \in Object
    BY <1>4, ObjectUpdates
  <2> QED
    BY <2>1 DEF Object, Elf_Object
<1>7. sortShdrs(e) = [x EXCEPT !.hdr = h]
  BY SortShdrsForm DEF t, h, Object, Elf_Object, x
<1> HIDE DEF x
<1>8. [x EXCEPT !.hdr = h] \in Object
  BY <1>5, <1>6, ObjectUpdates
<1>9. /\ [x EXCEPT !.hdr = h].contents = x.contents
      /\ [x EXCEPT !.hdr = h].phdrs = x.phdrs
      /\ [x EXCEPT !.hdr = h].rep = x.rep
  BY <1>6 DEF Object, Elf_Object
<1> QED
  BY <1>6, <1>7, <1>8, <1>9

\* Section headers as a linker makes them: sections have names of their own,
\* entry 0 comes first, and an index is one of the table.
WellLinked(e) ==
    LET D == DOMAIN e.shdrs
    IN  /\ \A i, j \in D : e.shdrs[i].sh_name = e.shdrs[j].sh_name => i = j
        /\ \A i \in D \ {0} :
               /\ e.shdrs[0].sh_offset < e.shdrs[i].sh_offset
               /\ e.shdrs[i].sh_link \in D
               /\ e.shdrs[i].sh_type \in {"SHT_REL", "SHT_RELA"} => e.shdrs[i].sh_info \in D
        /\ e.hdr.e_shstrndx \in D

\* A section header after section i has become section p[i].
Renumbered(x, p) ==
    [x EXCEPT !.sh_link = p[@],
              !.sh_info = IF x.sh_type \in {"SHT_REL", "SHT_RELA"} THEN p[@] ELSE @]

\* Of a table with names of their own, sortShdrs finds every section again.
LEMMA NewIndexIsPlace ==
    ASSUME NEW e \in Object, WellLinked(e)
    PROVE  LET p == Places(DOMAIN e.shdrs, 0, OffsetOrder(e))
           IN  p[0] = 0 /\ \A i \in DOMAIN e.shdrs : NewIndex(e, i) = p[i]
<1> DEFINE D == 0 .. e.hdr.e_shnum - 1
           p == Places(D, 0, OffsetOrder(e))
           t == ByOffset(e)
           name(i) == e.shdrs[i].sh_name
           found(i) == {k \in 1 .. e.hdr.e_shnum - 1 : t[k].sh_name = name(i)}
<1>1. DOMAIN e.shdrs = D /\ e.hdr.e_shnum \in Nat \ {0} /\ 0 \in D
  <2>1. e.shdrs \in [D -> Elf_Shdr] /\ e.hdr.e_shnum \in Nat \ {0}
    BY ObjectFields
  <2> QED
    BY <2>1
<1>2. \A i, j \in D : e.shdrs[i].sh_offset < e.shdrs[j].sh_offset => p[i] < p[j]
  BY ByOffsetPlaces
<1>3. \A i \in D : t[p[i]] = e.shdrs[i]
  BY ByOffsetPlaces
<1>4. /\ p \in [D -> D] /\ \A i, j \in D : p[i] = p[j] => i = j
      /\ \A k \in D : \E i \in D : p[i] = k
  <2>1. p \in Bijection(D, D)
    BY ByOffsetPlaces
  <2> HIDE DEF p, D
  <2> QED
    BY <2>1, Fun_BijectionProperties
<1>5. \A i \in D \ {0} : e.shdrs[0].sh_offset < e.shdrs[i].sh_offset
  BY <1>1 DEF WellLinked
<1>6. \A i, j \in D : name(i) = name(j) => i = j
  BY <1>1 DEF WellLinked
<1> HIDE DEF p, t, name
<1>7. p[0] = 0
  <2>1. PICK i \in D : p[i] = 0
    BY <1>1, <1>4
  <2>2. i # 0 => p[0] < 0
    BY <1>1, <1>2, <1>5, <2>1
  <2>3. p[0] \in D
    BY <1>1, <1>4, Zenon
  <2> QED
    BY <2>1, <2>2, <2>3
<1>8. ASSUME NEW i \in D, NEW k \in D
      PROVE  k \in found(i) <=> k = p[i] /\ i # 0
  <2>1. PICK j \in D : p[j] = k
    BY <1>4
  <2>2. t[k].sh_name = name(j)
    BY <1>3, <2>1 DEF name
  <2>3. t[k].sh_name = name(i) <=> k = p[i]
    BY <1>4, <1>6, <2>1, <2>2
  <2>4. p[i] = 0 <=> i = 0
    BY <1>1, <1>4, <1>7
  <2> QED
    BY <1>1, <2>3, <2>4
<1>9. ASSUME NEW i \in D
      PROVE  NewIndex(e, i) = p[i]
  <2> DEFINE s == [e EXCEPT !.shdrs = t]
  <2>1. s.shdrs = t /\ s.hdr = e.hdr
    BY DEF Object, Elf_Object
  <2>2. NewIndex(e, i) = findSection3(s, name(i))
    BY DEF NewIndex, t, name
  <2> HIDE DEF s
  <2>3. NewIndex(e, i) = IF found(i) = {} THEN 0 ELSE Min(found(i))
    BY <2>1, <2>2 DEF findSection3
  <2>4. found(i) \subseteq D
    BY <1>1
  <2>5. p[i] \in D /\ found(i) = IF i = 0 THEN {} ELSE {p[i]}
    <3>1. p[i] \in D
      BY <1>4
    <3> HIDE DEF found, D
    <3> QED
      BY <1>8, <2>4, <3>1
  <2>6. Min({p[i]}) = p[i]
    <3>1. {p[i]} \subseteq Nat /\ {p[i]} # {}
      BY <1>1, <2>5
    <3> QED
      BY <3>1, LeastNat
  <2> HIDE DEF found, D
  <2> QED
    BY <1>7, <2>3, <2>5, <2>6
<1> QED
  BY <1>1, <1>7, <1>9 DEF p

\* Sorting the section headers keeps every reference from one section to
\* another, and that to the section of the names: each section gets a number
\* of its own, entry 0 stays, and where a section is named by its number the
\* new number is put, while sh_info of a section that is no relocation section
\* is left alone (sortShdrs, which goes by way of the names).
THEOREM SortingKeepsReferences ==
    ASSUME NEW e \in Object, WellLinked(e)
    PROVE  LET D == DOMAIN e.shdrs
               f == sortShdrs(e)
           IN  \E p \in Bijection(D, D) :
                   /\ p[0] = 0
                   /\ f.shdrs[0] = e.shdrs[0]
                   /\ \A i \in D \ {0} : f.shdrs[p[i]] = Renumbered(e.shdrs[i], p)
                   /\ f.hdr = [e.hdr EXCEPT !.e_shstrndx = p[@]]
                   /\ \A i, j \in D :
                          e.shdrs[i].sh_offset < e.shdrs[j].sh_offset => p[i] < p[j]
<1> DEFINE D == 0 .. e.hdr.e_shnum - 1
           p == Places(D, 0, OffsetOrder(e))
           t == ByOffset(e)
           f == sortShdrs(e)
<1>1. DOMAIN e.shdrs = D /\ e.hdr.e_shnum \in Nat \ {0} /\ 0 \in D
      /\ e.shdrs \in [D -> Elf_Shdr] /\ e.hdr \in Elf_Ehdr
  <2>1. e.shdrs \in [D -> Elf_Shdr] /\ e.hdr.e_shnum \in Nat \ {0} /\ e.hdr \in Elf_Ehdr
    BY ObjectFields
  <2> QED
    BY <2>1
<1>2. /\ t \in [D -> Elf_Shdr] /\ p \in Bijection(D, D)
      /\ \A i \in D : t[p[i]] = e.shdrs[i]
      /\ \A i, j \in D : e.shdrs[i].sh_offset < e.shdrs[j].sh_offset => p[i] < p[j]
  BY ByOffsetPlaces
<1>3. p \in [D -> D] /\ \A i, j \in D : p[i] = p[j] => i = j
  <2> HIDE DEF p, D
  <2> QED
    BY <1>2, Fun_BijectionProperties
<1>4. p[0] = 0 /\ \A i \in D : NewIndex(e, i) = p[i]
  BY <1>1, NewIndexIsPlace
<1>5. /\ f.shdrs = [i \in DOMAIN t |-> IF i = 0 THEN t[0] ELSE Relinked(e, t[i])]
      /\ f.hdr = [e.hdr EXCEPT !.e_shstrndx = NewIndex(e, @)]
  BY SortShdrsForm DEF Object, Elf_Object
<1>6. /\ e.hdr.e_shstrndx \in D
      /\ \A i \in D \ {0} :
             /\ e.shdrs[i].sh_link \in D
             /\ e.shdrs[i].sh_type \in {"SHT_REL", "SHT_RELA"} => e.shdrs[i].sh_info \in D
  BY <1>1 DEF WellLinked
<1> HIDE DEF p, t, f
<1>7. f.hdr = [e.hdr EXCEPT !.e_shstrndx = p[@]]
  BY <1>4, <1>5, <1>6
<1>8. f.shdrs[0] = e.shdrs[0]
  BY <1>1, <1>2, <1>4, <1>5
<1>9. ASSUME NEW i \in D \ {0}
      PROVE  f.shdrs[p[i]] = Renumbered(e.shdrs[i], p)
  <2> DEFINE x == e.shdrs[i]
             rel == x.sh_type \in {"SHT_REL", "SHT_RELA"}
  <2>1. p[i] \in D /\ p[i] # 0 /\ t[p[i]] = x
    BY <1>1, <1>2, <1>3, <1>4
  <2>2. f.shdrs[p[i]] = Relinked(e, x)
    BY <1>2, <1>5, <2>1
  <2>3. x \in Elf_Shdr /\ x.sh_link \in D /\ (rel => x.sh_info \in D)
    BY <1>1, <1>6
  <2>4. (IF x.sh_link # 0 THEN NewIndex(e, x.sh_link) ELSE 0) = p[x.sh_link]
    BY <1>4, <2>3
  <2>5. (IF x.sh_info # 0 /\ rel THEN NewIndex(e, x.sh_info) ELSE x.sh_info)
            = IF rel THEN p[x.sh_info] ELSE x.sh_info
    BY <1>4, <2>3
  <2> HIDE DEF x
  <2>6. Relinked(e, x) = Renumbered(x, p)
    BY <2>3, <2>4, <2>5 DEF Relinked, Renumbered, Elf_Shdr
  <2> QED
    BY <2>2, <2>6 DEF x
<1> HIDE DEF D
<1> QED
  BY <1>1, <1>2, <1>4, <1>7, <1>8, <1>9 DEF f

-----------------------------------------------------------------------------
(* Placing the replaced sections.                                          *)

LEMMA WriteShdrsTypes ==
    ASSUME NEW e \in Object
    PROVE  /\ writeShdrs(e) \in Object
           /\ writeShdrs(e).hdr = e.hdr /\ writeShdrs(e).phdrs = e.phdrs
           /\ writeShdrs(e).shdrs = e.shdrs /\ writeShdrs(e).rep = e.rep
<1> DEFINE n == e.hdr.e_shnum - 1
           A == Seq(Cell)
           base == e.contents
           q == [i \in 1 .. e.hdr.e_shnum - 1 |-> i]
           op(a, i) == Overwrite(a, e.hdr.e_shoff + q[i] * Word, Struct(e.shdrs[q[i]]))
<1>1. /\ e.hdr.e_shnum \in Nat \ {0} /\ e.hdr.e_shoff \in Nat
      /\ e.shdrs \in [0 .. e.hdr.e_shnum - 1 -> Elf_Shdr]
  BY ObjectFields, HeaderFields
<1>2. n \in Nat /\ DOMAIN q = Indices(n)
  BY <1>1 DEF Indices
<1>3. base \in A
  BY ObjectFields
<1>4. \A i \in Indices(n) : \A a \in A : op(a, i) \in A
  <2> SUFFICES ASSUME NEW i \in Indices(n), NEW a \in A PROVE op(a, i) \in A
    OBVIOUS
  <2>1. q[i] = i /\ i \in 0 .. e.hdr.e_shnum - 1 /\ i \in Nat
    BY <1>1 DEF Indices
  <2>2. e.shdrs[i] \in Cell
    BY <1>1, <2>1, CellTypes
  <2>3. Struct(e.shdrs[i]) \in Seq(Cell)
    BY <2>2, StructTypes
  <2>4. e.hdr.e_shoff + i * Word \in Int
    BY <1>1, <2>1, ElfAssumption
  <2> QED
    BY <2>1, <2>3, <2>4, OverwriteTypes
<1> DEFINE Step == [i \in Indices(n) |-> [a \in A |-> op(a, i)]]
           body(h) == [t \in SUBSET DOMAIN q |->
                           IF t = {} THEN base ELSE op(h[t \ {Max(t)}], Max(t))]
           h == CHOOSE h : h = body(h)
<1> HIDE DEF n, A, base, op, q
<1>5. PICK g : /\ LeftFolds(g, n, base, Step)
               /\ \A t \in SUBSET Indices(n) : g[t] \in A
  <2>1. \A i \in Indices(n) : \A a \in A : Step[i][a] \in A
    BY <1>4
  <2> HIDE DEF Step
  <2> QED
    BY <1>2, <1>3, <2>1, LeftFold
<1>6. \A t \in SUBSET Indices(n) : t # {} => Max(t) \in Indices(n)
  BY <1>2, LastIn
<1>7. h = body(h)
  <2>1. g = body(g)
    BY <1>2, <1>5, <1>6 DEF LeftFolds
  <2> HIDE DEF body
  <2> QED
    BY <2>1
<1>8. h[DOMAIN q] \in A
  <2> HIDE DEF h
  <2>1. LeftStays(h, n, A)
    BY <1>2, <1>4, <1>3, <1>6, <1>7 DEF LeftStays
  <2> QED
    BY <1>2, <2>1, LeftFoldIn
<1>9. h[DOMAIN q] \in Seq(Cell)
  BY <1>8 DEF A
<1>10. writeShdrs(e) = [e EXCEPT !.contents = h[DOMAIN q]]
  BY DEF writeShdrs, FoldLeft, MapThenFoldSet, q, base, op
<1>11. \A f : /\ [e EXCEPT !.contents = f].hdr = e.hdr
              /\ [e EXCEPT !.contents = f].phdrs = e.phdrs
              /\ [e EXCEPT !.contents = f].shdrs = e.shdrs
              /\ [e EXCEPT !.contents = f].rep = e.rep
  BY DEF Object, Elf_Object
<1> HIDE DEF h
<1> QED
  BY <1>9, <1>10, <1>11, ObjectUpdates

LEMMA ReplacedTypes ==
    ASSUME NEW e
    PROVE  Replaced(e) \in Seq(DOMAIN e.rep)
<1> DEFINE n == 13
           A == Seq(DOMAIN e.rep)
           base == <<>>
           q == SectionNames
           op(a, i) == IF q[i] \in DOMAIN e.rep THEN Append(a, q[i]) ELSE a
<1>1. n \in Nat /\ DOMAIN q = Indices(n)
  BY DEF SectionNames, Indices
<1>2. base \in A
  OBVIOUS
<1>3. \A i \in Indices(n) : \A a \in A : op(a, i) \in A
  <2> DEFINE D == DOMAIN e.rep
  <2> HIDE DEF D, q
  <2>1. \A x \in D : \A a \in Seq(D) : Append(a, x) \in Seq(D)
    BY AppendProperties
  <2> QED
    BY <2>1 DEF D
<1> DEFINE Step == [i \in Indices(n) |-> [a \in A |-> op(a, i)]]
           body(h) == [t \in SUBSET DOMAIN q |->
                           IF t = {} THEN base ELSE op(h[t \ {Max(t)}], Max(t))]
           h == CHOOSE h : h = body(h)
<1> HIDE DEF n, A, base, op, q
<1>4. PICK g : /\ LeftFolds(g, n, base, Step)
               /\ \A t \in SUBSET Indices(n) : g[t] \in A
  <2>1. \A i \in Indices(n) : \A a \in A : Step[i][a] \in A
    BY <1>3
  <2> HIDE DEF Step
  <2> QED
    BY <1>1, <1>2, <2>1, LeftFold
<1>5. \A t \in SUBSET Indices(n) : t # {} => Max(t) \in Indices(n)
  BY <1>1, LastIn
<1>6. h = body(h)
  <2>1. g = body(g)
    BY <1>1, <1>4, <1>5 DEF LeftFolds
  <2> HIDE DEF body
  <2> QED
    BY <2>1
<1>7. h[DOMAIN q] \in A
  <2> HIDE DEF h
  <2>1. LeftStays(h, n, A)
    BY <1>1, <1>3, <1>2, <1>5, <1>6 DEF LeftStays
  <2> QED
    BY <1>1, <2>1, LeftFoldIn
<1>8. Replaced(e) = h[DOMAIN q]
  BY DEF Replaced, Selected, FoldLeft, MapThenFoldSet, q, base, op
<1> QED
  BY <1>7, <1>8 DEF A

LEMMA RepFields ==
    ASSUME NEW e \in Object, NEW i \in DOMAIN Replaced(e)
    PROVE  /\ Replaced(e)[i] \in DOMAIN e.rep /\ Replaced(e)[i] \in SectionName
           /\ e.rep[Replaced(e)[i]] \in Seq(Cell)
<1>1. Replaced(e)[i] \in DOMAIN e.rep
  BY ReplacedTypes
<1>2. e.rep \in Strings
  BY ObjectFields
<1> QED
  BY <1>1, <1>2, StringsFields

LEMMA ReplacedSpaceTypes ==
    ASSUME NEW e \in Object
    PROVE  ReplacedSpace(e) \in Nat
<1> DEFINE q == Replaced(e)
           n == Len(q)
           A == Nat
           base == 0
           op(a, i) == a + roundUp(Len(e.rep[q[i]]), Word)
<1>1. n \in Nat /\ DOMAIN q = Indices(n)
  BY ReplacedTypes DEF Indices
<1>2. base \in A
  OBVIOUS
<1>3. \A i \in Indices(n) : \A a \in A : op(a, i) \in A
  <2> SUFFICES ASSUME NEW i \in Indices(n), NEW a \in A PROVE op(a, i) \in A
    OBVIOUS
  <2>1. e.rep[q[i]] \in Seq(Cell)
    BY <1>1, RepFields
  <2>2. Len(e.rep[q[i]]) \in Int
    BY <2>1, LenProperties
  <2>3. roundUp(Len(e.rep[q[i]]), Word) \in Nat
    BY <2>2, RoundUpTypes, ElfAssumption
  <2> HIDE DEF q
  <2> QED
    BY <2>3
<1> DEFINE Step == [i \in Indices(n) |-> [a \in A |-> op(a, i)]]
           body(h) == [t \in SUBSET DOMAIN q |->
                           IF t = {} THEN base ELSE op(h[t \ {Max(t)}], Max(t))]
           h == CHOOSE h : h = body(h)
<1> HIDE DEF n, A, base, op, q
<1>4. PICK g : /\ LeftFolds(g, n, base, Step)
               /\ \A t \in SUBSET Indices(n) : g[t] \in A
  <2>1. \A i \in Indices(n) : \A a \in A : Step[i][a] \in A
    BY <1>3
  <2> HIDE DEF Step
  <2> QED
    BY <1>1, <1>2, <2>1, LeftFold
<1>5. \A t \in SUBSET Indices(n) : t # {} => Max(t) \in Indices(n)
  BY <1>1, LastIn
<1>6. h = body(h)
  <2>1. g = body(g)
    BY <1>1, <1>4, <1>5 DEF LeftFolds
  <2> HIDE DEF body
  <2> QED
    BY <2>1
<1>7. h[DOMAIN q] \in A
  <2> HIDE DEF h
  <2>1. LeftStays(h, n, A)
    BY <1>1, <1>3, <1>2, <1>5, <1>6 DEF LeftStays
  <2> QED
    BY <1>1, <2>1, LeftFoldIn
<1>8. ReplacedSpace(e) = h[DOMAIN q]
  BY DEF ReplacedSpace, FoldLeft, MapThenFoldSet, q, base, op
<1> QED
  BY <1>7, <1>8 DEF A

\* What an update of a field leaves alone.
LEMMA ObjectKeeps ==
    ASSUME NEW e \in Object, NEW v
    PROVE  /\ LET x == [e EXCEPT !.contents = v]
              IN  /\ x.contents = v
                  /\ x.hdr = e.hdr /\ x.phdrs = e.phdrs /\ x.shdrs = e.shdrs /\ x.rep = e.rep
           /\ LET x == [e EXCEPT !.shdrs = v]
              IN  /\ x.shdrs = v /\ x.contents = e.contents
                  /\ x.hdr = e.hdr /\ x.phdrs = e.phdrs /\ x.rep = e.rep
           /\ LET x == [e EXCEPT !.phdrs = v]
              IN  /\ x.phdrs = v /\ x.contents = e.contents
                  /\ x.hdr = e.hdr /\ x.shdrs = e.shdrs /\ x.rep = e.rep
           /\ LET x == [e EXCEPT !.hdr = v]
              IN  /\ x.hdr = v /\ x.contents = e.contents
                  /\ x.phdrs = e.phdrs /\ x.shdrs = e.shdrs /\ x.rep = e.rep
           /\ LET x == [e EXCEPT !.rep = v]
              IN  /\ x.rep = v /\ x.contents = e.contents
                  /\ x.hdr = e.hdr /\ x.phdrs = e.phdrs /\ x.shdrs = e.shdrs
BY DEF Object, Elf_Object

\* A header of a segment, or a section, moved to another place.
LEMMA PhdrUpdates ==
    ASSUME NEW p \in Elf_Phdr, NEW o \in Nat, NEW a \in Nat, NEW s \in Nat
    PROVE  [p EXCEPT !.p_offset = o, !.p_vaddr = a, !.p_paddr = a,
                     !.p_filesz = s, !.p_memsz = s] \in Elf_Phdr
BY DEF Elf_Phdr

LEMMA ShdrUpdates ==
    ASSUME NEW h \in Elf_Shdr, NEW o \in Nat, NEW a \in Nat, NEW s \in Nat
    PROVE  [h EXCEPT !.sh_offset = o, !.sh_addr = a, !.sh_size = s] \in Elf_Shdr
BY DEF Elf_Shdr

LEMMA PlaceTypes ==
    ASSUME NEW e \in Object, NEW name \in DOMAIN e.rep, NEW curOff \in Nat, NEW addr \in Nat
    PROVE  Place(e, name, curOff, addr) \in Object
           /\ Place(e, name, curOff, addr).rep = e.rep
<1> DEFINE i == findSection3(e, name)
           size == Len(e.rep[name])
           follow(p) ==
               IF name \in DOMAIN SegmentOf /\ p.p_type = SegmentOf[name]
               THEN [p EXCEPT !.p_offset = curOff, !.p_vaddr = addr,
                              !.p_paddr = addr, !.p_filesz = size, !.p_memsz = size]
               ELSE p
           x == Find(e, {name})
           f == Overwrite(x.contents, curOff, e.rep[name])
           s == [x.shdrs EXCEPT ![i] = [x.shdrs[i] EXCEPT !.sh_offset = curOff,
                                                          !.sh_addr = addr,
                                                          !.sh_size = size]]
           p == [j \in DOMAIN x.phdrs |-> follow(x.phdrs[j])]
<1>1. x \in Object /\ x.rep = e.rep /\ x.hdr = e.hdr /\ x.shdrs = e.shdrs
      /\ x.phdrs = e.phdrs /\ x.contents = e.contents
  BY FindTypes
<1>2. /\ e.rep[name] \in Seq(Cell) /\ size \in Nat
      /\ e.hdr.e_shnum \in Nat \ {0} /\ e.shdrs \in [0 .. e.hdr.e_shnum - 1 -> Elf_Shdr]
      /\ e.contents \in Seq(Cell) /\ e.phdrs \in Seq(Elf_Phdr)
  <2>1. /\ e.rep \in Strings /\ e.hdr.e_shnum \in Nat \ {0}
        /\ e.shdrs \in [0 .. e.hdr.e_shnum - 1 -> Elf_Shdr]
        /\ e.contents \in Seq(Cell) /\ e.phdrs \in Seq(Elf_Phdr)
    BY ObjectFields
  <2>2. e.rep[name] \in Seq(Cell)
    BY <2>1, StringsFields
  <2> QED
    BY <2>1, <2>2, LenProperties
<1>3. f \in Seq(Cell)
  <2> HIDE DEF x
  <2> QED
    BY <1>1, <1>2, OverwriteTypes
<1>4. s \in [0 .. e.hdr.e_shnum - 1 -> Elf_Shdr]
  <2>1. i \in 0 .. e.hdr.e_shnum - 1
    BY FindSectionTypes
  <2>2. x.shdrs[i] \in Elf_Shdr
    <3> HIDE DEF x, i
    <3> QED
      BY <1>1, <1>2, <2>1
  <2>3. [x.shdrs[i] EXCEPT !.sh_offset = curOff, !.sh_addr = addr, !.sh_size = size] \in Elf_Shdr
    <3> HIDE DEF x, i, size
    <3> QED
      BY <1>2, <2>2, ShdrUpdates
  <2> HIDE DEF x, i, size
  <2> QED
    BY <1>1, <1>2, <2>1, <2>3
<1>5. p \in Seq(Elf_Phdr) /\ Len(p) = Len(x.phdrs)
  <2>1. \A y \in Elf_Phdr : follow(y) \in Elf_Phdr
    <3> HIDE DEF size
    <3> QED
      BY <1>2, PhdrUpdates
  <2> HIDE DEF x, follow
  <2> QED
    BY <1>1, <1>2, <2>1
<1> DEFINE y == [x EXCEPT !.contents = f, !.shdrs = s, !.phdrs = p]
<1>6. Place(e, name, curOff, addr) = y
  <2> HIDE DEF x, i, size
  <2> QED
    BY DEF Place, x, i, size
<1>7. y \in Object /\ y.rep = x.rep
  <2> HIDE DEF x, f, s, p
  <2> DEFINE z == [x EXCEPT !.contents = f]
             w == [z EXCEPT !.shdrs = s]
  <2>a. z \in Object
    BY <1>1, <1>3, ObjectUpdates
  <2>1. z.hdr = x.hdr /\ z.phdrs = x.phdrs /\ z.rep = x.rep
    BY <1>1, ObjectKeeps
  <2>b. s \in [0 .. z.hdr.e_shnum - 1 -> Elf_Shdr]
    BY <1>1, <1>4, <2>1
  <2>c. w \in Object
    <3> HIDE DEF z
    <3> QED
      BY <2>a, <2>b, ObjectUpdates
  <2>2. w.phdrs = z.phdrs /\ w.rep = z.rep
    <3> HIDE DEF z
    <3> QED
      BY <2>a, ObjectKeeps
  <2>d. Len(p) = Len(w.phdrs)
    <3> HIDE DEF w, z
    <3> QED
      BY <1>5, <2>1, <2>2
  <2>e. [w EXCEPT !.phdrs = p] \in Object
    <3> HIDE DEF w, z
    <3> QED
      BY <1>5, <2>c, <2>d, ObjectUpdates
  <2>3. [w EXCEPT !.phdrs = p].rep = w.rep
    <3> HIDE DEF w, z
    <3> QED
      BY <2>c, ObjectKeeps
  <2>f. [w EXCEPT !.phdrs = p].rep = x.rep
    <3> HIDE DEF w, z
    <3> QED
      BY <2>1, <2>2, <2>3
  <2> QED
    BY <2>e, <2>f
<1> HIDE DEF x, y
<1> QED
  BY <1>1, <1>6, <1>7

\* What is left of the file when the sections to be replaced are wiped.
LEMMA WipedTypes ==
    ASSUME NEW e \in Object
    PROVE  FoldLeft(LAMBDA f, n : Fill(f, Section(e, n).sh_offset,
                                       Section(e, n).sh_size, XX),
                    e.contents, Replaced(e)) \in Seq(Cell)
<1> DEFINE q == Replaced(e)
           n == Len(q)
           A == Seq(Cell)
           base == e.contents
           op(a, i) == Fill(a, Section(e, q[i]).sh_offset, Section(e, q[i]).sh_size, XX)
<1>1. n \in Nat /\ DOMAIN q = Indices(n)
  BY ReplacedTypes DEF Indices
<1>2. base \in A
  BY ObjectFields
<1>3. \A i \in Indices(n) : \A a \in A : op(a, i) \in A
  <2> SUFFICES ASSUME NEW i \in Indices(n), NEW a \in A PROVE op(a, i) \in A
    OBVIOUS
  <2>1. Section(e, q[i]) \in Elf_Shdr
    BY FindSectionTypes
  <2>2. Section(e, q[i]).sh_offset \in Nat /\ Section(e, q[i]).sh_size \in Nat
    BY <2>1, SectionFields
  <2> HIDE DEF q
  <2> QED
    BY <2>2, FillTypes, CellTypes
<1> DEFINE Step == [i \in Indices(n) |-> [a \in A |-> op(a, i)]]
           body(h) == [t \in SUBSET DOMAIN q |->
                           IF t = {} THEN base ELSE op(h[t \ {Max(t)}], Max(t))]
           h == CHOOSE h : h = body(h)
<1> HIDE DEF n, A, base, op, q
<1>4. PICK g : /\ LeftFolds(g, n, base, Step)
               /\ \A t \in SUBSET Indices(n) : g[t] \in A
  <2>1. \A i \in Indices(n) : \A a \in A : Step[i][a] \in A
    BY <1>3
  <2> HIDE DEF Step
  <2> QED
    BY <1>1, <1>2, <2>1, LeftFold
<1>5. \A t \in SUBSET Indices(n) : t # {} => Max(t) \in Indices(n)
  BY <1>1, LastIn
<1>6. h = body(h)
  <2>1. g = body(g)
    BY <1>1, <1>4, <1>5 DEF LeftFolds
  <2> HIDE DEF body
  <2> QED
    BY <2>1
<1>7. h[DOMAIN q] \in A
  <2> HIDE DEF h
  <2>1. LeftStays(h, n, A)
    BY <1>1, <1>3, <1>2, <1>5, <1>6 DEF LeftStays
  <2> QED
    BY <1>1, <2>1, LeftFoldIn
<1> DEFINE lop(f, x) == Fill(f, Section(e, x).sh_offset, Section(e, x).sh_size, XX)
<1>8. FoldLeft(lop, e.contents, Replaced(e)) = h[DOMAIN q]
  BY DEF FoldLeft, MapThenFoldSet, q, base, op
<1> QED
  BY <1>7, <1>8 DEF A

\* The sections are put in the file one after the other.
LEMMA PlacedTypes ==
    ASSUME NEW e \in Object, NEW w \in Object, w.rep = e.rep, NEW curOff \in Nat,
           NEW startAddr \in Nat, NEW startOffset \in Nat, startOffset <= curOff
    PROVE  LET next(at, n) ==
                   [e   |-> Place(at.e, n, at.cur, startAddr + (at.cur - startOffset)),
                    cur |-> at.cur + roundUp(Len(e.rep[n]), Word)]
           IN  FoldLeft(next, [e |-> w, cur |-> curOff], Replaced(e))
                   \in [e: Object, cur: Nat]
<1> DEFINE q == Replaced(e)
           n == Len(q)
           A == {x \in [e: Object, cur: Nat] : x.cur >= startOffset /\ x.e.rep = e.rep}
           base == [e |-> w, cur |-> curOff]
           op(a, i) ==
               [e   |-> Place(a.e, q[i], a.cur, startAddr + (a.cur - startOffset)),
                cur |-> a.cur + roundUp(Len(e.rep[q[i]]), Word)]
<1>1. n \in Nat /\ DOMAIN q = Indices(n)
  BY ReplacedTypes DEF Indices
<1>2. base \in A
  OBVIOUS
<1>3. \A i \in Indices(n) : \A a \in A : op(a, i) \in A
  <2> SUFFICES ASSUME NEW i \in Indices(n), NEW a \in A PROVE op(a, i) \in A
    OBVIOUS
  <2> DEFINE name == q[i]
             addr == startAddr + (a.cur - startOffset)
             x == Place(a.e, name, a.cur, addr)
             c == a.cur + roundUp(Len(e.rep[name]), Word)
  <2>1. a.e \in Object /\ a.cur \in Nat /\ a.cur >= startOffset /\ a.e.rep = e.rep
    OBVIOUS
  <2>2. name \in DOMAIN e.rep /\ e.rep[name] \in Seq(Cell)
    BY <1>1, RepFields
  <2>3. addr \in Nat
    BY <2>1
  <2>4. x \in Object /\ x.rep = a.e.rep
    <3>1. name \in DOMAIN a.e.rep
      BY <2>1, <2>2
    <3> HIDE DEF name, addr
    <3> QED
      BY <2>1, <2>3, <3>1, PlaceTypes
  <2>5. c \in Nat /\ c >= startOffset
    <3>1. Len(e.rep[name]) \in Int
      BY <2>2, LenProperties
    <3>2. roundUp(Len(e.rep[name]), Word) \in Nat
      BY <3>1, RoundUpTypes, ElfAssumption
    <3> HIDE DEF name
    <3> QED
      BY <2>1, <3>2
  <2>6. op(a, i) = [e |-> x, cur |-> c]
    OBVIOUS
  <2> HIDE DEF x, c, op
  <2>7. [e |-> x, cur |-> c] \in A
    BY <2>1, <2>4, <2>5
  <2> QED
    BY <2>6, <2>7
<1> DEFINE Step == [i \in Indices(n) |-> [a \in A |-> op(a, i)]]
           body(h) == [t \in SUBSET DOMAIN q |->
                           IF t = {} THEN base ELSE op(h[t \ {Max(t)}], Max(t))]
           h == CHOOSE h : h = body(h)
<1> HIDE DEF n, A, base, op, q
<1>4. PICK g : /\ LeftFolds(g, n, base, Step)
               /\ \A t \in SUBSET Indices(n) : g[t] \in A
  <2>1. \A i \in Indices(n) : \A a \in A : Step[i][a] \in A
    BY <1>3
  <2> HIDE DEF Step
  <2> QED
    BY <1>1, <1>2, <2>1, LeftFold
<1>5. \A t \in SUBSET Indices(n) : t # {} => Max(t) \in Indices(n)
  BY <1>1, LastIn
<1>6. h = body(h)
  <2>1. g = body(g)
    BY <1>1, <1>4, <1>5 DEF LeftFolds
  <2> HIDE DEF body
  <2> QED
    BY <2>1
<1>7. h[DOMAIN q] \in A
  <2> HIDE DEF h
  <2>1. LeftStays(h, n, A)
    BY <1>1, <1>3, <1>2, <1>5, <1>6 DEF LeftStays
  <2> QED
    BY <1>1, <2>1, LeftFoldIn
<1> DEFINE next(at, x) ==
               [e   |-> Place(at.e, x, at.cur, startAddr + (at.cur - startOffset)),
                cur |-> at.cur + roundUp(Len(e.rep[x]), Word)]
<1>8. FoldLeft(next, [e |-> w, cur |-> curOff], Replaced(e)) = h[DOMAIN q]
  BY DEF FoldLeft, MapThenFoldSet, q, base, op
<1>9. h[DOMAIN q] \in [e: Object, cur: Nat]
  <2> HIDE DEF h
  <2> QED
    BY <1>7 DEF A
<1> QED
  BY <1>8, <1>9

LEMMA WriteReplacedTypes ==
    ASSUME NEW e \in Object, NEW curOff \in Nat,
           NEW startAddr \in Nat, NEW startOffset \in Nat, startOffset <= curOff
    PROVE  LET done == writeReplacedSections(e, curOff, startAddr, startOffset)
           IN  done.e \in Object /\ done.cur \in Nat
<1> DEFINE f == FoldLeft(LAMBDA g, n : Fill(g, Section(e, n).sh_offset,
                                            Section(e, n).sh_size, XX),
                         e.contents, Replaced(e))
           w == [e EXCEPT !.contents = f]
           next(at, n) ==
               [e   |-> Place(at.e, n, at.cur, startAddr + (at.cur - startOffset)),
                cur |-> at.cur + roundUp(Len(e.rep[n]), Word)]
           d == FoldLeft(next, [e |-> w, cur |-> curOff], Replaced(e))
<1>1. w \in Object /\ w.rep = e.rep
  <2>1. f \in Seq(Cell)
    BY WipedTypes
  <2> HIDE DEF f
  <2>2. w \in Object
    BY <2>1, ObjectUpdates
  <2>3. w.rep = e.rep
    BY ObjectKeeps
  <2> QED
    BY <2>2, <2>3
<1>2. d \in [e: Object, cur: Nat]
  <2> HIDE DEF w
  <2> QED
    BY <1>1, PlacedTypes
<1>3. writeReplacedSections(e, curOff, startAddr, startOffset) = [d EXCEPT !.e.rep = <<>>]
  BY DEF writeReplacedSections
<1>4. <<>> \in Strings
  <2>1. <<>> \in [{} -> Seq(Cell)]
    OBVIOUS
  <2> QED
    BY <2>1 DEF Strings
<1> DEFINE x == d.e
<1>5. [x EXCEPT !.rep = <<>>] \in Object
  <2>1. x \in Object
    <3> HIDE DEF d
    <3> QED
      BY <1>2
  <2> HIDE DEF x
  <2> QED
    BY <1>4, <2>1, ObjectUpdates
<1>6. [d EXCEPT !.e.rep = <<>>].e = [x EXCEPT !.rep = <<>>]
      /\ [d EXCEPT !.e.rep = <<>>].cur = d.cur /\ d.cur \in Nat
  <2> HIDE DEF d
  <2> QED
    BY <1>2
<1> HIDE DEF d, x
<1> QED
  BY <1>3, <1>5, <1>6

-----------------------------------------------------------------------------
(* Bringing everything that refers to a section up to date.                *)

\* A dynamic entry, or a symbol, with another value.
LEMMA DynUpdates ==
    ASSUME NEW d \in Elf_Dyn
    PROVE  /\ \A v \in Nat : [d EXCEPT !.d_val = v] \in Elf_Dyn
           /\ \A t \in DynTag : [d EXCEPT !.d_tag = t] \in Elf_Dyn
           /\ d.d_val \in Nat /\ d.d_tag \in DynTag
BY DEF Elf_Dyn

LEMMA SymUpdates ==
    ASSUME NEW s \in Elf_Sym
    PROVE  /\ \A x, v \in Nat : [s EXCEPT !.st_shndx = x, !.st_value = v] \in Elf_Sym
           /\ s.st_shndx \in Nat /\ s.st_value \in Nat
BY DEF Elf_Sym

\* What is written into the file of an object leaves an object.
LEMMA OverwrittenTypes ==
    ASSUME NEW e \in Object, NEW o \in Int, NEW s \in Seq(Cell)
    PROVE  [e EXCEPT !.contents = Overwrite(@, o, s)] \in Object
<1> DEFINE f == Overwrite(e.contents, o, s)
<1>1. e.contents \in Seq(Cell)
  BY ObjectFields
<1>2. f \in Seq(Cell)
  BY <1>1, OverwriteTypes
<1> HIDE DEF f
<1>3. [e EXCEPT !.contents = f] \in Object
  BY <1>2, ObjectUpdates
<1> QED
  BY <1>3 DEF f

LEMMA RewriteDynamicTypes ==
    ASSUME NEW e \in Object
    PROVE  rewriteDynamic(e) \in Object
<1> DEFINE at == Section(e, ".dynamic").sh_offset
           entries == EntriesAt(e.contents, at)
           target(d) == SelectSeq(PointsTo[d.d_tag],
                                  LAMBDA n : findSection3(e, n) # 0)
           fixed(d) ==
               IF d.d_tag \notin DOMAIN PointsTo \/ target(d) = <<>> THEN d
               ELSE LET s == Section(e, target(d)[1])
                    IN  [d EXCEPT !.d_val = IF d.d_tag = "DT_STRSZ" THEN s.sh_size
                                            ELSE s.sh_addr]
           required == {d \in ToSet(entries) :
                            d.d_tag \in DOMAIN PointsTo \ MayBeMissing}
           missing == \E d \in required : target(d) = <<>>
           s == [k \in DOMAIN entries |-> fixed(entries[k])]
           f == FlattenSeq([k \in DOMAIN entries |-> Struct(fixed(entries[k]))])
<1>1. at \in Nat
  <2>1. Section(e, ".dynamic") \in Elf_Shdr
    BY FindSectionTypes
  <2> QED
    BY <2>1, SectionFields
<1>2. entries \in Seq(Elf_Dyn)
  <2>1. e.contents \in Seq(Cell)
    BY ObjectFields
  <2> HIDE DEF at
  <2> QED
    BY <1>1, <2>1, EntriesAtTypes
<1>3. ASSUME NEW d \in Elf_Dyn PROVE fixed(d) \in Elf_Dyn
  <2> DEFINE t == Section(e, target(d)[1])
             v == IF d.d_tag = "DT_STRSZ" THEN t.sh_size ELSE t.sh_addr
  <2>1. t \in Elf_Shdr
    <3> HIDE DEF target
    <3> QED
      BY FindSectionTypes
  <2>2. v \in Nat
    <3> HIDE DEF t
    <3> QED
      BY <2>1, SectionFields
  <2>3. [d EXCEPT !.d_val = v] \in Elf_Dyn
    <3> HIDE DEF v
    <3> QED
      BY <2>2, DynUpdates
  <2> DEFINE skip == d.d_tag \notin DOMAIN PointsTo \/ target(d) = <<>>
  <2>5. fixed(d) = IF skip THEN d ELSE [d EXCEPT !.d_val = v]
    <3> HIDE DEF target
    <3> QED
      OBVIOUS
  <2>4. fixed(d) = d \/ fixed(d) = [d EXCEPT !.d_val = v]
    <3> HIDE DEF skip, fixed, v
    <3> QED
      BY <2>5
  <2> HIDE DEF fixed, v
  <2> QED
    BY <2>3, <2>4
<1>4. f \in Seq(Cell)
  <2> HIDE DEF entries, fixed
  <2>1. s \in Seq(Elf_Dyn)
    BY <1>2, <1>3
  <2>2. s \in Seq(Cell)
    <3> HIDE DEF s
    <3> QED
      BY <2>1, CellTypes
  <2>3. [k \in DOMAIN entries |-> Struct(fixed(entries[k]))]
            = [k \in DOMAIN s |-> Struct(s[k])]
    OBVIOUS
  <2> HIDE DEF s
  <2> QED
    BY <2>2, <2>3, FlattenStructTypes
<1>5. [e EXCEPT !.contents = Overwrite(@, at, f)] \in Object
  <2> HIDE DEF at, f
  <2> QED
    BY <1>1, <1>4, OverwrittenTypes
<1>6. Fail(e, "error") \in Object
  BY FailTypes
<1>7. rewriteDynamic(e) = IF findSection3(e, ".dynamic") = 0 THEN e
                          ELSE IF missing THEN Fail(e, "error")
                          ELSE [e EXCEPT !.contents = Overwrite(@, at, f)]
  BY DEF rewriteDynamic
<1> HIDE DEF f, missing, at
<1> QED
  BY <1>5, <1>6, <1>7

LEMMA RewriteSymbolTypes ==
    ASSUME NEW e \in Object, NEW o \in Nat
    PROVE  rewriteSymbol(e, o) \in Object
<1> DEFINE sym == StructAt(e.contents, o, "sym")
           idx == sym.st_shndx
           new == findSection3(e, e.old[idx])
           value == IF sym.st_type = "STT_SECTION" THEN e.shdrs[new].sh_addr
                    ELSE sym.st_value
           t == [sym EXCEPT !.st_shndx = new, !.st_value = value]
<1>1. sym \in Elf_Sym
  <2>1. e.contents \in Seq(Cell)
    BY ObjectFields
  <2> QED
    BY <2>1, StructAtTypes
<1>2. new \in 0 .. e.hdr.e_shnum - 1
  <2> HIDE DEF idx
  <2> QED
    BY FindSectionTypes
<1>3. e.hdr.e_shnum \in Nat \ {0} /\ e.shdrs \in [0 .. e.hdr.e_shnum - 1 -> Elf_Shdr]
  BY ObjectFields
<1>4. new \in Nat /\ value \in Nat
  <2>1. e.shdrs[new].sh_addr \in Nat
    <3>1. e.shdrs[new] \in Elf_Shdr
      <4> HIDE DEF new
      <4> QED
        BY <1>2, <1>3
    <3> HIDE DEF new
    <3> QED
      BY <3>1, SectionFields
  <2>2. sym.st_value \in Nat
    <3> HIDE DEF sym
    <3> QED
      BY <1>1, SymUpdates
  <2> HIDE DEF new, sym
  <2> QED
    BY <1>2, <1>3, <2>1, <2>2
<1>5. t \in Cell
  <2>1. t \in Elf_Sym
    <3> HIDE DEF sym, new, value
    <3> QED
      BY <1>1, <1>4, SymUpdates
  <2> HIDE DEF t
  <2> QED
    BY <2>1, CellTypes
<1>6. Struct(t) \in Seq(Cell)
  <2> HIDE DEF t
  <2> QED
    BY <1>5, StructTypes
<1>7. [e EXCEPT !.contents = Overwrite(@, o, Struct(t))] \in Object
  <2> HIDE DEF t
  <2> QED
    BY <1>6, OverwrittenTypes
<1>8. rewriteSymbol(e, o) = IF idx \notin 1 .. LoReserve - 1 \/ idx >= e.oldSize THEN e
                            ELSE IF idx \notin DOMAIN e.old \/ e.old[idx] = ""
                            THEN Fail(e, "abort")
                            ELSE [e EXCEPT !.contents = Overwrite(@, o, Struct(t))]
  BY DEF rewriteSymbol
<1>9. Fail(e, "abort") \in Object
  BY FailTypes
<1> HIDE DEF t, idx
<1> QED
  BY <1>7, <1>8, <1>9

LEMMA ImageFinite ==
    ASSUME NEW S, IsFiniteSet(S), NEW f, DOMAIN f = S
    PROVE  IsFiniteSet({f[x] : x \in S})
<1> DEFINE T == {f[x] : x \in S}
           g == [x \in S |-> f[x]]
<1>1. g \in Surjection(S, T)
  BY DEF Surjection
<1> HIDE DEF T, g
<1>2. IsFiniteSet(T)
  BY <1>1, FS_Surjection
<1> QED
  BY <1>2 DEF T

\* The offsets of symbols: a finite set, however large the tables.
LEMMA OffsetsFinite ==
    ASSUME NEW e \in Object
    PROVE  LET tables == {i \in 1 .. e.hdr.e_shnum - 1 :
                              e.shdrs[i].sh_type \in {"SHT_SYMTAB", "SHT_DYNSYM"}}
               offsets == UNION {{e.shdrs[i].sh_offset + k * Word :
                                      k \in 0 .. e.shdrs[i].sh_size \div Word - 1} :
                                 i \in tables}
           IN  IsFiniteSet(offsets) /\ offsets \subseteq Nat
<1> DEFINE tables == {i \in 1 .. e.hdr.e_shnum - 1 :
                          e.shdrs[i].sh_type \in {"SHT_SYMTAB", "SHT_DYNSYM"}}
           ks(i) == 0 .. e.shdrs[i].sh_size \div Word - 1
           of(i) == {e.shdrs[i].sh_offset + k * Word : k \in ks(i)}
           all == {of(i) : i \in tables}
<1>1. /\ e.hdr.e_shnum \in Nat \ {0}
      /\ e.shdrs \in [0 .. e.hdr.e_shnum - 1 -> Elf_Shdr]
  BY ObjectFields
<1>2. IsFiniteSet(tables) /\ tables \subseteq 0 .. e.hdr.e_shnum - 1
  <2>1. IsFiniteSet(1 .. e.hdr.e_shnum - 1)
    BY <1>1, FS_Interval
  <2>2. tables \subseteq 1 .. e.hdr.e_shnum - 1
    OBVIOUS
  <2>3. IsFiniteSet(tables)
    <3> HIDE DEF tables
    <3> QED
      BY <2>1, <2>2, FS_Subset
  <2> HIDE DEF tables
  <2> QED
    BY <1>1, <2>2, <2>3
<1>3. \A i \in tables : e.shdrs[i].sh_offset \in Nat /\ e.shdrs[i].sh_size \div Word \in Nat
  <2> SUFFICES ASSUME NEW i \in tables
               PROVE  e.shdrs[i].sh_offset \in Nat /\ e.shdrs[i].sh_size \div Word \in Nat
    OBVIOUS
  <2> HIDE DEF tables
  <2>1. e.shdrs[i] \in Elf_Shdr
    BY <1>1, <1>2
  <2>2. e.shdrs[i].sh_offset \in Nat /\ e.shdrs[i].sh_size \in Nat
    BY <2>1, SectionFields
  <2> QED
    BY <2>2, DivTypes, ElfAssumption
<1>4. \A i \in tables : of(i) \subseteq Nat
  <2> SUFFICES ASSUME NEW i \in tables, NEW k \in ks(i)
               PROVE  e.shdrs[i].sh_offset + k * Word \in Nat
    OBVIOUS
  <2>1. k \in Nat
    BY <1>3
  <2> HIDE DEF tables, ks
  <2> QED
    BY <1>3, <2>1, ElfAssumption
<1>5. \A i \in tables : IsFiniteSet(of(i))
  <2> SUFFICES ASSUME NEW i \in tables PROVE IsFiniteSet(of(i))
    OBVIOUS
  <2> DEFINE f == [k \in ks(i) |-> e.shdrs[i].sh_offset + k * Word]
  <2>1. IsFiniteSet(ks(i))
    <3> DEFINE n == e.shdrs[i].sh_size \div Word - 1
    <3>1. n \in Int
      BY <1>3
    <3> HIDE DEF n
    <3>2. IsFiniteSet(0 .. n)
      BY <3>1, FS_Interval
    <3> QED
      BY <3>2 DEF n
  <2>2. DOMAIN f = ks(i) /\ of(i) = {f[k] : k \in ks(i)}
    <3> HIDE DEF ks
    <3> QED
      OBVIOUS
  <2> HIDE DEF of, ks, f
  <2> QED
    BY <2>1, <2>2, ImageFinite
<1>6. IsFiniteSet(all)
  <2> DEFINE f == [i \in tables |-> of(i)]
  <2>1. DOMAIN f = tables /\ all = {f[i] : i \in tables}
    <3> HIDE DEF of, tables
    <3> QED
      OBVIOUS
  <2> HIDE DEF all, tables, f
  <2> QED
    BY <1>2, <2>1, ImageFinite
<1>7. IsFiniteSet(UNION all)
  <2>1. \A t \in all : IsFiniteSet(t)
    <3> HIDE DEF of, tables
    <3> QED
      BY <1>5
  <2> HIDE DEF all
  <2> QED
    BY <1>6, <2>1, FS_UNION
<1>8. UNION all \subseteq Nat
  <2> HIDE DEF of, tables
  <2> QED
    BY <1>4
<1> QED
  BY <1>7, <1>8

LEMMA RewriteSymbolsTypes ==
    ASSUME NEW e \in Object
    PROVE  rewriteSymbols(e) \in Object
<1> DEFINE tables == {i \in 1 .. e.hdr.e_shnum - 1 :
                          e.shdrs[i].sh_type \in {"SHT_SYMTAB", "SHT_DYNSYM"}}
           S == UNION {{e.shdrs[i].sh_offset + k * Word :
                            k \in 0 .. e.shdrs[i].sh_size \div Word - 1} :
                       i \in tables}
           A == Object
           base == e
           op(x, a) == rewriteSymbol(a, x)
<1>1. IsFiniteSet(S) /\ S \subseteq Nat
  BY OffsetsFinite
<1>2. base \in A
  OBVIOUS
<1>3. \A x \in S : \A a \in A : op(x, a) \in A
  <2> HIDE DEF S
  <2> QED
    BY <1>1, RewriteSymbolTypes
<1> DEFINE Step == [x \in S |-> [a \in A |-> op(x, a)]]
           c(t) == CHOOSE x \in t : TRUE
           body(h) == [t \in SUBSET S |->
                           IF t = {} THEN base ELSE op(c(t), h[t \ {c(t)}])]
           h == CHOOSE h : h = body(h)
<1> HIDE DEF S, A, base, op
<1>4. PICK g : /\ SetFolds(g, S, base, Step)
               /\ \A t \in SUBSET S : g[t] \in A
  <2>1. \A x \in S : \A a \in A : Step[x][a] \in A
    BY <1>3
  <2> HIDE DEF Step
  <2> QED
    BY <1>1, <1>2, <2>1, SetFold
<1>5. \A t \in SUBSET S : t # {} => c(t) \in t /\ c(t) \in S
  OBVIOUS
<1>6. h = body(h)
  <2>1. g = body(g)
    BY <1>4, <1>5 DEF SetFolds
  <2> HIDE DEF body
  <2> QED
    BY <2>1
<1>7. h[S] \in A
  <2> HIDE DEF h
  <2>1. \A t \in SUBSET S : t # {} /\ h[t \ {c(t)}] \in A => h[t] \in A
    <3> HIDE DEF c
    <3> QED
      BY <1>3, <1>5, <1>6
  <2>2. h[{}] \in A
    BY <1>2, <1>6
  <2>3. SetStays(h, S, A)
    BY <2>1, <2>2 DEF SetStays
  <2> QED
    BY <1>1, <2>3, SetFoldIn
<1>8. rewriteSymbols(e) = h[S]
  BY DEF rewriteSymbols, FoldSet, MapThenFoldSet, S, base, op, c
<1> QED
  BY <1>7, <1>8 DEF A

LEMMA RewritePhdrSegmentTypes ==
    ASSUME NEW e \in Object, NEW a \in Nat
    PROVE  /\ rewritePhdrSegment(e, a) \in Object
           /\ rewritePhdrSegment(e, a).hdr = e.hdr
<1> DEFINE size == Len(e.phdrs) * Word
           self(j) == /\ e.phdrs[j].p_type = "PT_PHDR"
                      /\ \A i \in 1 .. j - 1 : e.phdrs[i].p_type # "PT_PHDR"
           moved(p) == [p EXCEPT !.p_offset = e.hdr.e_phoff,
                                 !.p_vaddr = a, !.p_paddr = a,
                                 !.p_filesz = size, !.p_memsz = size]
           t == [j \in DOMAIN e.phdrs |-> IF self(j) THEN moved(e.phdrs[j])
                                          ELSE e.phdrs[j]]
<1>1. e.phdrs \in Seq(Elf_Phdr) /\ size \in Nat /\ e.hdr.e_phoff \in Nat
  <2>1. e.phdrs \in Seq(Elf_Phdr) /\ e.hdr \in Elf_Ehdr
    BY ObjectFields
  <2> QED
    BY <2>1, HeaderFields, LenProperties, ElfAssumption
<1>2. \A p \in Elf_Phdr : moved(p) \in Elf_Phdr
  <2> HIDE DEF size
  <2> QED
    BY <1>1, PhdrUpdates
<1>3. t \in Seq(Elf_Phdr) /\ Len(t) = Len(e.phdrs)
  <2> HIDE DEF self, moved
  <2> QED
    BY <1>1, <1>2
<1>4. rewritePhdrSegment(e, a) = [e EXCEPT !.phdrs = t]
  BY DEF rewritePhdrSegment
<1> HIDE DEF t
<1>5. [e EXCEPT !.phdrs = t] \in Object
  BY <1>3, ObjectUpdates
<1>6. [e EXCEPT !.phdrs = t].hdr = e.hdr
  BY ObjectKeeps
<1> QED
  BY <1>4, <1>5, <1>6

LEMMA RewriteHeadersTypes ==
    ASSUME NEW e \in Object, NEW a \in Nat
    PROVE  rewriteHeaders(e, a) \in Object
<1> DEFINE s == sortPhdrs(rewritePhdrSegment(e, a))
           f == FlattenSeq([j \in DOMAIN s.phdrs |-> Struct(s.phdrs[j])])
           w == [s EXCEPT !.contents = Overwrite(@, e.hdr.e_phoff, f)]
<1>1. s \in Object
  BY RewritePhdrSegmentTypes, SortPhdrsTypes
<1>2. f \in Seq(Cell)
  <2> HIDE DEF s
  <2>1. s.phdrs \in Seq(Elf_Phdr)
    BY <1>1, ObjectFields
  <2>2. s.phdrs \in Seq(Cell)
    BY <2>1, CellTypes
  <2> QED
    BY <2>2, FlattenStructTypes
<1>3. e.hdr.e_phoff \in Nat
  BY ObjectFields, HeaderFields
<1>4. w \in Object
  <2> HIDE DEF s, f
  <2> QED
    BY <1>1, <1>2, <1>3, OverwrittenTypes
<1>5. rewriteHeaders(e, a) = rewriteSymbols(rewriteDynamic(writeShdrs(sortShdrs(w))))
  BY DEF rewriteHeaders
<1> HIDE DEF w
<1>6. writeShdrs(sortShdrs(w)) \in Object
  BY <1>4, SortShdrsTypes, WriteShdrsTypes
<1> QED
  BY <1>5, <1>6, RewriteDynamicTypes, RewriteSymbolsTypes

-----------------------------------------------------------------------------
(* Libraries.                                                              *)

LEMMA HeaderUpdates ==
    ASSUME NEW h \in Elf_Ehdr, NEW v \in Nat
    PROVE  /\ [h EXCEPT !.e_phoff = v] \in Elf_Ehdr
           /\ [h EXCEPT !.e_shoff = v] \in Elf_Ehdr
           /\ [h EXCEPT !.e_phnum = v] \in Elf_Ehdr
           /\ [h EXCEPT !.e_phnum = v].e_shnum = h.e_shnum
           /\ [h EXCEPT !.e_phnum = v].e_phnum = v
           /\ [h EXCEPT !.e_phoff = v].e_shnum = h.e_shnum
           /\ [h EXCEPT !.e_phoff = v].e_phnum = h.e_phnum
           /\ [h EXCEPT !.e_shoff = v].e_shnum = h.e_shnum
           /\ [h EXCEPT !.e_shoff = v].e_phnum = h.e_phnum
BY DEF Elf_Ehdr

LEMMA MovedTableTypes ==
    ASSUME NEW e \in Object, NEW v \in Nat
    PROVE  /\ [e EXCEPT !.hdr.e_phoff = v] \in Object
           /\ [e EXCEPT !.hdr.e_shoff = v] \in Object
<1> DEFINE p == [e.hdr EXCEPT !.e_phoff = v]
           s == [e.hdr EXCEPT !.e_shoff = v]
<1>1. e.hdr \in Elf_Ehdr
  BY ObjectFields
<1>2. p \in Elf_Ehdr /\ p.e_shnum = e.hdr.e_shnum /\ p.e_phnum = e.hdr.e_phnum
  BY <1>1, HeaderUpdates
<1>3. s \in Elf_Ehdr /\ s.e_shnum = e.hdr.e_shnum /\ s.e_phnum = e.hdr.e_phnum
  BY <1>1, HeaderUpdates
<1> HIDE DEF p, s
<1>4. [e EXCEPT !.hdr = p] \in Object
  BY <1>2, ObjectUpdates
<1>5. [e EXCEPT !.hdr = s] \in Object
  BY <1>3, ObjectUpdates
<1> QED
  BY <1>4, <1>5 DEF p, s

LEMMA NewLoadTypes ==
    ASSUME NEW o \in Nat, NEW a \in Nat, NEW s \in Nat, NEW page \in Nat
    PROVE  NewLoad(o, a, s, page) \in Elf_Phdr
BY DEF NewLoad, Elf_Phdr, SegmentType

LEMMA AddPhdrTypes ==
    ASSUME NEW e \in Object, NEW p \in Elf_Phdr
    PROVE  AddPhdr(e, p) \in Object
<1> DEFINE t == Append(e.phdrs, p)
           h == [e.hdr EXCEPT !.e_phnum = e.hdr.e_phnum + 1]
<1>1. /\ e.hdr \in Elf_Ehdr /\ e.phdrs \in Seq(Elf_Phdr)
      /\ Len(e.phdrs) = e.hdr.e_phnum
      /\ e.hdr.e_shnum \in Nat \ {0} /\ e.shdrs \in [0 .. e.hdr.e_shnum - 1 -> Elf_Shdr]
  BY ObjectFields
<1>2. t \in Seq(Elf_Phdr) /\ Len(t) = e.hdr.e_phnum + 1
  BY <1>1, AppendProperties
<1>3. h \in Elf_Ehdr /\ h.e_shnum = e.hdr.e_shnum /\ h.e_phnum = e.hdr.e_phnum + 1
  <2>1. e.hdr.e_phnum \in Nat
    BY <1>1, HeaderFields
  <2>2. e.hdr.e_phnum + 1 \in Nat
    BY <2>1
  <2> QED
    BY <1>1, <2>2, HeaderUpdates
<1> HIDE DEF t, h
<1>4. [e EXCEPT !.phdrs = t, !.hdr = h] \in Object
  BY <1>1, <1>2, <1>3 DEF Object, Elf_Object
<1>5. AddPhdr(e, p) = [e EXCEPT !.phdrs = t, !.hdr = h]
  BY DEF AddPhdr, t, h, Object, Elf_Object
<1> QED
  BY <1>4, <1>5

\* Where the last segment of a file ends.
LEMMA LastPageTypes ==
    ASSUME NEW e \in Object
    PROVE  Max({0} \cup {roundUp(p.p_vaddr + p.p_memsz, e.page) :
                             p \in ToSet(e.phdrs)}) \in Nat
<1> DEFINE P == ToSet(e.phdrs)
           end == [p \in P |-> roundUp(p.p_vaddr + p.p_memsz, e.page)]
           X == {0} \cup {end[p] : p \in P}
<1>1. e.phdrs \in Seq(Elf_Phdr) /\ e.page \in Nat \ {0}
  BY ObjectFields
<1>2. IsFiniteSet(P)
  <2>1. IsFiniteSet(DOMAIN e.phdrs)
    BY <1>1, FS_Interval, LenProperties
  <2>2. P = {e.phdrs[i] : i \in DOMAIN e.phdrs}
    BY DEF ToSet
  <2> QED
    BY <2>1, <2>2, ImageFinite
<1>3. \A p \in P : end[p] \in Nat
  <2> SUFFICES ASSUME NEW p \in P PROVE roundUp(p.p_vaddr + p.p_memsz, e.page) \in Nat
    OBVIOUS
  <2>1. p \in Elf_Phdr
    BY <1>1 DEF ToSet
  <2>2. p.p_vaddr + p.p_memsz \in Int
    BY <2>1 DEF Elf_Phdr
  <2> QED
    BY <1>1, <2>2, RoundUpTypes
<1>4. IsFiniteSet(X)
  <2>1. IsFiniteSet({end[p] : p \in P})
    <3>1. DOMAIN end = P
      OBVIOUS
    <3> HIDE DEF P, end
    <3> QED
      BY <1>2, <3>1, ImageFinite
  <2> HIDE DEF P, end
  <2>2. IsFiniteSet({end[p] : p \in P} \cup {0})
    BY <2>1, FS_AddElement
  <2>3. X = {end[p] : p \in P} \cup {0}
    OBVIOUS
  <2> QED
    BY <2>2, <2>3
<1>5. X \subseteq Nat /\ X # {}
  <2> HIDE DEF P, end
  <2> QED
    BY <1>3
<1>6. {0} \cup {roundUp(p.p_vaddr + p.p_memsz, e.page) : p \in P} = X
  <2> HIDE DEF P
  <2> QED
    OBVIOUS
<1>7. Max(X) \in X
  <2> HIDE DEF X
  <2>1. Ints(X)
    BY <1>5 DEF Ints
  <2> QED
    BY <1>4, <1>5, <2>1, GreatestInt
<1> HIDE DEF X
<1> QED
  BY <1>5, <1>6, <1>7 DEF P

LEMMA LibraryTypes ==
    ASSUME NEW e \in Object
    PROVE  rewriteSectionsLibrary(e) \in Object
<1> DEFINE lastPage == Max({0} \cup {roundUp(p.p_vaddr + p.p_memsz, e.page) :
                                         p \in ToSet(e.phdrs)})
           needed == (Len(e.phdrs) + 1) * Word + ReplacedSpace(e)
           end == roundUp(Len(e.contents), e.page)
           hole == IF e.isExec /\ end < lastPage THEN lastPage - end ELSE 0
           startOffset == end + hole
           startPage == IF e.isExec THEN startOffset ELSE lastPage
           grown == growFile(growFile(e, end + needed), end + needed + hole)
           load == NewLoad(startOffset, startPage, needed, e.page)
           added == AddPhdr(grown, load)
           curOff == startOffset + Len(added.phdrs) * Word
           placed == writeReplacedSections(added, curOff, startPage, startOffset)
           first == Require(placed.e, hole % e.page = 0)
           checked == Require(first, placed.cur = startOffset + needed)
           moved == [checked EXCEPT !.hdr.e_phoff = startOffset]
<1>1. lastPage \in Nat
  BY LastPageTypes
<1> HIDE DEF lastPage
<1>2. needed \in Nat /\ end \in Nat /\ e.page \in Nat \ {0}
  <2>1. /\ e.page \in Nat \ {0} /\ e.phdrs \in Seq(Elf_Phdr)
        /\ e.contents \in Seq(Cell)
    BY ObjectFields
  <2>2. Len(e.phdrs) \in Nat /\ Len(e.contents) \in Int
    BY <2>1, LenProperties
  <2>3. (Len(e.phdrs) + 1) * Word \in Nat
    BY <2>2, ElfAssumption
  <2>4. end \in Nat
    BY <2>1, <2>2, RoundUpTypes
  <2> QED
    BY <2>1, <2>3, <2>4, ReplacedSpaceTypes
<1> HIDE DEF needed, end
<1>3. hole \in Nat
  BY <1>1, <1>2
<1> HIDE DEF hole
<1>4. startOffset \in Nat
  BY <1>2, <1>3
<1> HIDE DEF startOffset
<1>5. startPage \in Nat
  BY <1>1, <1>4
<1> HIDE DEF startPage
<1>6. grown \in Object
  <2>1. growFile(e, end + needed) \in Object
    BY <1>2, GrowTypes
  <2> QED
    BY <1>2, <1>3, <2>1, GrowTypes
<1> HIDE DEF grown
<1>7. load \in Elf_Phdr
  BY <1>2, <1>4, <1>5, NewLoadTypes
<1> HIDE DEF load
<1>8. added \in Object
  BY <1>6, <1>7, AddPhdrTypes
<1> HIDE DEF added
<1>9. curOff \in Nat /\ startOffset <= curOff
  <2>1. added.phdrs \in Seq(Elf_Phdr)
    BY <1>8, ObjectFields
  <2>2. Len(added.phdrs) * Word \in Nat
    BY <2>1, LenProperties, ElfAssumption
  <2> QED
    BY <1>4, <2>2
<1> HIDE DEF curOff
<1>10. placed.e \in Object
  BY <1>4, <1>5, <1>8, <1>9, WriteReplacedTypes
<1> HIDE DEF placed
<1>11. first \in Object
  BY <1>10, RequireTypes
<1> HIDE DEF first
<1>12. checked \in Object
  BY <1>11, RequireTypes
<1> HIDE DEF checked
<1>13. moved \in Object
  BY <1>4, <1>12, MovedTableTypes
<1> HIDE DEF moved
<1>14. rewriteHeaders(moved, startPage) \in Object
  BY <1>5, <1>13, RewriteHeadersTypes
<1>15. rewriteSectionsLibrary(e) = rewriteHeaders(moved, startPage)
  BY DEF rewriteSectionsLibrary, moved, checked, first, placed, curOff, added, load,
         grown, startPage, startOffset, hole, end, needed, lastPage
<1> QED
  BY <1>14, <1>15

-----------------------------------------------------------------------------
(* Executables.                                                            *)

LEMMA ShiftFileTypes ==
    ASSUME NEW e \in Object, NEW extra \in Nat, NEW startPage \in Nat
    PROVE  shiftFile(e, extra, startPage) \in Object
<1> DEFINE shift == extra * e.page
           moved(p) ==
               LET q == [p EXCEPT !.p_offset = @ + shift]
               IN  IF q.p_align # 0 /\ (q.p_vaddr - q.p_offset) % q.p_align # 0
                   THEN [q EXCEPT !.p_align = e.page] ELSE q
           behind(s) == [s EXCEPT !.sh_offset = @ + shift]
           g == growFile(e, Len(e.contents) + shift)
           f == Struct(e.hdr) \o Zeros(shift - Word) \o e.contents
           a == [g EXCEPT !.contents = f]
           b == [a EXCEPT !.hdr.e_phoff = Word]
           off == b.hdr.e_shoff + shift
           c == [b EXCEPT !.hdr.e_shoff = off]
           s == [i \in DOMAIN c.shdrs |-> IF i = 0 THEN c.shdrs[0] ELSE behind(c.shdrs[i])]
           d == [c EXCEPT !.shdrs = s]
           p == [j \in DOMAIN d.phdrs |-> moved(d.phdrs[j])]
           x == [d EXCEPT !.phdrs = p]
           load == NewLoad(0, startPage, shift, e.page)
<1>1. /\ e.page \in Nat \ {0} /\ e.contents \in Seq(Cell) /\ e.hdr \in Elf_Ehdr
      /\ Len(e.contents) \in Nat
  <2>1. e.page \in Nat \ {0} /\ e.contents \in Seq(Cell) /\ e.hdr \in Elf_Ehdr
    BY ObjectFields
  <2> QED
    BY <2>1, LenProperties
<1>2. shift \in Nat
  BY <1>1
<1> HIDE DEF shift
<1>3. g \in Object
  <2>1. Len(e.contents) + shift \in Int
    BY <1>1, <1>2
  <2> QED
    BY <2>1, GrowTypes
<1> HIDE DEF g
<1>4. f \in Seq(Cell)
  <2>1. Struct(e.hdr) \in Seq(Cell)
    BY <1>1, CellTypes, StructTypes
  <2>2. Zeros(shift - Word) \in Seq(Cell)
    BY <1>2, ElfAssumption, ZerosTypes
  <2> QED
    BY <1>1, <2>1, <2>2, ConcatProperties
<1> HIDE DEF f
<1>5. a \in Object
  BY <1>3, <1>4, ObjectUpdates
<1>a. a.hdr = g.hdr /\ a.shdrs = g.shdrs /\ a.phdrs = g.phdrs
  BY <1>3, ObjectKeeps
<1> HIDE DEF a
<1>6. b \in Object
  BY <1>5, ElfAssumption, MovedTableTypes
<1>b. b.hdr.e_shoff = a.hdr.e_shoff /\ b.shdrs = a.shdrs /\ b.phdrs = a.phdrs
  <2>1. a.hdr \in Elf_Ehdr
    BY <1>5, ObjectFields
  <2> QED
    BY <1>5, <2>1 DEF Object, Elf_Object, Elf_Ehdr
<1> HIDE DEF b
<1>7. off \in Nat
  <2>1. b.hdr \in Elf_Ehdr
    BY <1>6, ObjectFields
  <2>2. b.hdr.e_shoff \in Nat
    BY <2>1, HeaderFields
  <2> QED
    BY <1>2, <2>2
<1> HIDE DEF off
<1>8. c \in Object
  BY <1>6, <1>7, MovedTableTypes
<1>c. c.shdrs = b.shdrs /\ c.phdrs = b.phdrs
  BY <1>6 DEF Object, Elf_Object
<1> HIDE DEF c
<1>9. s \in [0 .. c.hdr.e_shnum - 1 -> Elf_Shdr]
  <2>1. \A y \in Elf_Shdr : behind(y) \in Elf_Shdr
    BY <1>2 DEF Elf_Shdr
  <2>2. c.hdr.e_shnum \in Nat \ {0} /\ c.shdrs \in [0 .. c.hdr.e_shnum - 1 -> Elf_Shdr]
    BY <1>8, ObjectFields
  <2> HIDE DEF behind
  <2> QED
    BY <2>1, <2>2
<1> HIDE DEF s
<1>10. d \in Object
  BY <1>8, <1>9, ObjectUpdates
<1>d. d.phdrs = c.phdrs
  BY <1>8, ObjectKeeps
<1> HIDE DEF d
<1>11. p \in Seq(Elf_Phdr) /\ Len(p) = Len(d.phdrs)
  <2>1. \A y \in Elf_Phdr : moved(y) \in Elf_Phdr
    <3> SUFFICES ASSUME NEW y \in Elf_Phdr PROVE moved(y) \in Elf_Phdr
      OBVIOUS
    <3> DEFINE q == [y EXCEPT !.p_offset = @ + shift]
    <3>1. q \in Elf_Phdr
      BY <1>2 DEF Elf_Phdr
    <3>2. [q EXCEPT !.p_align = e.page] \in Elf_Phdr
      <4> HIDE DEF q
      <4> QED
        BY <1>1, <3>1 DEF Elf_Phdr
    <3> DEFINE skewed == q.p_align # 0 /\ (q.p_vaddr - q.p_offset) % q.p_align # 0
    <3>3. moved(y) = IF skewed THEN [q EXCEPT !.p_align = e.page] ELSE q
      OBVIOUS
    <3> HIDE DEF moved, skewed, q
    <3> QED
      BY <3>1, <3>2, <3>3
  <2>2. d.phdrs \in Seq(Elf_Phdr)
    BY <1>10, ObjectFields
  <2> HIDE DEF moved
  <2> QED
    BY <2>1, <2>2
<1> HIDE DEF p
<1>12. x \in Object
  BY <1>10, <1>11, ObjectUpdates
<1> HIDE DEF x
<1>13. load \in Elf_Phdr
  BY <1>1, <1>2, NewLoadTypes
<1> HIDE DEF load
<1>14. AddPhdr(x, load) \in Object
  BY <1>12, <1>13, AddPhdrTypes
<1>15. shiftFile(e, extra, startPage) = IF g.err # "" THEN g ELSE AddPhdr(x, load)
  <2> DEFINE off0 == g.hdr.e_shoff + shift
             s0 == [i \in DOMAIN g.shdrs |-> IF i = 0 THEN g.shdrs[0] ELSE behind(g.shdrs[i])]
             p0 == [j \in DOMAIN g.phdrs |-> moved(g.phdrs[j])]
             y == [g EXCEPT !.contents = f, !.hdr.e_phoff = Word, !.hdr.e_shoff = off0,
                            !.shdrs = s0, !.phdrs = p0]
  <2>1. shiftFile(e, extra, startPage) = IF g.err # "" THEN g ELSE AddPhdr(y, load)
    BY DEF shiftFile, load, f, g, shift
  <2>2. off0 = off
    BY <1>a, <1>b DEF off
  <2>3. s0 = s
    <3> HIDE DEF behind
    <3> QED
      BY <1>a, <1>b, <1>c DEF s
  <2>4. p0 = p
    <3> HIDE DEF moved
    <3> QED
      BY <1>a, <1>b, <1>c, <1>d DEF p
  <2> HIDE DEF off0, s0, p0, moved, behind
  <2>5. y = x
    BY <2>2, <2>3, <2>4 DEF x, d, c, b, a
  <2> HIDE DEF y
  <2> QED
    BY <2>1, <2>5
<1> QED
  BY <1>3, <1>14, <1>15

LEMMA FirstReservedTypes ==
    ASSUME NEW e, NEW last \in Nat
    PROVE  FirstReserved(e, last) \in 1 .. last + 1
<1> DEFINE stays(i) == \/ /\ e.shdrs[i].sh_type = "SHT_PROGBITS"
                          /\ e.shdrs[i].sh_name # ".interp"
                       \/ i > 1 /\ e.shdrs[i - 1].sh_name = ".dynstr"
           X == {last + 1} \cup {i \in 1 .. last : stays(i)}
<1>1. X \subseteq 1 .. last + 1 /\ X # {}
  <2> HIDE DEF stays
  <2> QED
    OBVIOUS
<1>2. FirstReserved(e, last) = Min(X)
  BY DEF FirstReserved
<1> HIDE DEF X
<1>3. X \subseteq Nat
  BY <1>1
<1>4. Min(X) \in X
  BY <1>1, <1>3, LeastNat
<1> QED
  BY <1>1, <1>2, <1>4

LEMMA MoveShdrsTypes ==
    ASSUME NEW e \in Object, NEW startOffset \in Nat
    PROVE  moveShdrs(e, startOffset) \in Object
<1> DEFINE size == e.hdr.e_shoff + e.hdr.e_shnum * Word
           g == growFile(e, Len(e.contents) + size)
           x == [g EXCEPT !.hdr.e_shoff = Len(e.contents)]
<1>1. Len(e.contents) \in Nat /\ size \in Nat
  <2>1. e.contents \in Seq(Cell) /\ e.hdr \in Elf_Ehdr
    BY ObjectFields
  <2>2. e.hdr.e_shoff \in Nat /\ e.hdr.e_shnum \in Nat
    BY <2>1, HeaderFields
  <2>3. \A m \in Nat : m * Word \in Nat
    BY ElfAssumption
  <2>4. e.hdr.e_shnum * Word \in Nat
    BY <2>2, <2>3
  <2>5. Len(e.contents) \in Nat
    BY <2>1, LenProperties
  <2> DEFINE m == e.hdr.e_shnum * Word
  <2>6. m \in Nat
    BY <2>4
  <2> HIDE DEF m
  <2>7. e.hdr.e_shoff + m \in Nat
    BY <2>2, <2>6
  <2> QED
    BY <2>5, <2>7 DEF m
<1> HIDE DEF size
<1>2. g \in Object
  BY <1>1, GrowTypes
<1> HIDE DEF g
<1>3. x \in Object
  BY <1>1, <1>2, MovedTableTypes
<1>4. moveShdrs(e, startOffset) = IF e.hdr.e_shoff >= startOffset THEN e
                                  ELSE writeShdrs(sortShdrs(x))
  BY DEF moveShdrs, g, size
<1> HIDE DEF x
<1>5. writeShdrs(sortShdrs(x)) \in Object
  BY <1>3, SortShdrsTypes, WriteShdrsTypes
<1> QED
  BY <1>4, <1>5

LEMMA GatheredTypes ==
    ASSUME NEW e \in Object, NEW reserved \in 1 .. e.hdr.e_shnum - 1
    PROVE  Gathered(e, reserved) \in Object
<1> DEFINE S == {i \in 1 .. reserved - 1 : e.shdrs[i].sh_name \notin DOMAIN e.rep}
           A == Object
           base == e
           op(x, a) == replaceSection(a, e.shdrs[x].sh_name, e.shdrs[x].sh_size)
<1>1. /\ e.hdr.e_shnum \in Nat \ {0}
      /\ e.shdrs \in [0 .. e.hdr.e_shnum - 1 -> Elf_Shdr]
  BY ObjectFields
<1>2. base \in A
  OBVIOUS
<1>3. IsFiniteSet(S) /\ S \subseteq 0 .. e.hdr.e_shnum - 1
  <2>1. IsFiniteSet(1 .. reserved - 1)
    BY <1>1, FS_Interval
  <2>2. S \subseteq 1 .. reserved - 1
    OBVIOUS
  <2> HIDE DEF S
  <2>3. IsFiniteSet(S)
    BY <2>1, <2>2, FS_Subset
  <2> QED
    BY <1>1, <2>2, <2>3
<1>4. \A x \in S : \A a \in A : op(x, a) \in A
  <2> SUFFICES ASSUME NEW x \in S, NEW a \in A PROVE op(x, a) \in A
    OBVIOUS
  <2> HIDE DEF S
  <2>1. e.shdrs[x] \in Elf_Shdr
    BY <1>1, <1>3
  <2>2. e.shdrs[x].sh_name \in SectionName /\ e.shdrs[x].sh_size \in Nat
    BY <2>1, SectionFields
  <2> QED
    BY <2>2, ReplaceSectionTypes
<1> DEFINE Step == [x \in S |-> [a \in A |-> op(x, a)]]
           c(t) == CHOOSE x \in t : TRUE
           body(h) == [t \in SUBSET S |->
                           IF t = {} THEN base ELSE op(c(t), h[t \ {c(t)}])]
           h == CHOOSE h : h = body(h)
<1> HIDE DEF S, A, base, op
<1>5. PICK g : /\ SetFolds(g, S, base, Step)
               /\ \A t \in SUBSET S : g[t] \in A
  <2>1. \A x \in S : \A a \in A : Step[x][a] \in A
    BY <1>4
  <2> HIDE DEF Step
  <2> QED
    BY <1>3, <1>2, <2>1, SetFold
<1>6. \A t \in SUBSET S : t # {} => c(t) \in t /\ c(t) \in S
  OBVIOUS
<1>7. h = body(h)
  <2>1. g = body(g)
    BY <1>5, <1>6 DEF SetFolds
  <2> HIDE DEF body
  <2> QED
    BY <2>1
<1>8. h[S] \in A
  <2> HIDE DEF h
  <2>1. \A t \in SUBSET S : t # {} /\ h[t \ {c(t)}] \in A => h[t] \in A
    <3> HIDE DEF c
    <3> QED
      BY <1>4, <1>6, <1>7
  <2>2. h[{}] \in A
    BY <1>2, <1>7
  <2>3. SetStays(h, S, A)
    BY <2>1, <2>2 DEF SetStays
  <2> QED
    BY <1>3, <2>3, SetFoldIn
<1>9. Gathered(e, reserved) = h[S]
  BY DEF Gathered, FoldSet, MapThenFoldSet, S, base, op, c
<1> QED
  BY <1>8, <1>9 DEF A

LEMMA PlaceInFrontTypes ==
    ASSUME NEW e \in Object, NEW needed \in Nat, NEW startOffset \in Nat, NEW firstPage \in Nat
    PROVE  PlaceInFront(e, needed, startOffset, firstPage) \in Object
<1> DEFINE curOff == Word + Len(e.phdrs) * Word
           f == Fill(e.contents, curOff, startOffset - curOff, Zero)
           cleared == [e EXCEPT !.contents = f]
           placed == writeReplacedSections(cleared, curOff, firstPage, 0)
           x == Require(placed.e, placed.cur = needed)
           a == firstPage + placed.e.hdr.e_phoff
<1>1. curOff \in Nat /\ e.contents \in Seq(Cell)
  <2>1. e.phdrs \in Seq(Elf_Phdr) /\ e.contents \in Seq(Cell)
    BY ObjectFields
  <2> QED
    BY <2>1, LenProperties, ElfAssumption
<1> HIDE DEF curOff
<1>2. f \in Seq(Cell)
  BY <1>1, FillTypes, CellTypes
<1> HIDE DEF f
<1>3. cleared \in Object
  BY <1>2, ObjectUpdates
<1> HIDE DEF cleared
<1>4. placed.e \in Object
  BY <1>1, <1>3, WriteReplacedTypes
<1> HIDE DEF placed
<1>5. x \in Object
  BY <1>4, RequireTypes
<1>6. a \in Nat
  <2>1. placed.e.hdr \in Elf_Ehdr
    BY <1>4, ObjectFields
  <2>2. placed.e.hdr.e_phoff \in Nat
    BY <2>1, HeaderFields
  <2> QED
    BY <2>2
<1>7. PlaceInFront(e, needed, startOffset, firstPage)
          = IF e.err # "" THEN e ELSE rewriteHeaders(x, a)
  BY DEF PlaceInFront, placed, cleared, f, curOff
<1> HIDE DEF x, a
<1> QED
  BY <1>5, <1>6, <1>7, RewriteHeadersTypes

LEMMA MakeRoomTypes ==
    ASSUME NEW e \in Object, NEW offset \in Nat, NEW addr \in Nat
    PROVE  MakeRoom(e, offset, addr) \in Object
<1> DEFINE space == Word + Len(e.phdrs) * Word + ReplacedSpace(e)
           shifts == space > offset
           needed == IF shifts THEN space + Word ELSE space
           pages == roundUp(needed - offset, e.page) \div e.page
           grow == IF shifts THEN pages * e.page ELSE 0
           firstPage == addr - offset - grow
           x == IF shifts THEN shiftFile(e, pages, firstPage) ELSE e
           room == offset + grow
<1>1. space \in Nat /\ e.page \in Nat \ {0} /\ Word \in Nat
  <2>1. e.phdrs \in Seq(Elf_Phdr) /\ e.page \in Nat \ {0}
    BY ObjectFields
  <2>2. Len(e.phdrs) \in Nat
    BY <2>1, LenProperties
  <2> QED
    BY <2>1, <2>2, ElfAssumption, ReplacedSpaceTypes
<1> HIDE DEF space
<1>2. needed \in Nat
  BY <1>1
<1> HIDE DEF shifts, needed
<1>3. pages \in Nat
  <2>1. roundUp(needed - offset, e.page) \in Nat
    BY <1>1, <1>2, RoundUpTypes
  <2> QED
    BY <1>1, <2>1, DivTypes
<1> HIDE DEF pages
<1>4. grow \in Nat
  BY <1>1, <1>3
<1> HIDE DEF grow
<1>5. room \in Nat
  BY <1>4
<1>6. MakeRoom(e, offset, addr)
          = IF grow > addr - offset THEN Fail(e, "error")
            ELSE PlaceInFront(x, needed, room, firstPage)
  BY DEF MakeRoom, grow, pages, needed, shifts, space
<1>7. CASE grow > addr - offset
  <2>1. Fail(e, "error") \in Object
    BY FailTypes
  <2> HIDE DEF x, room, firstPage
  <2> QED
    BY <1>6, <1>7, <2>1
<1>8. CASE ~(grow > addr - offset)
  <2>1. firstPage \in Nat
    BY <1>4, <1>8
  <2> HIDE DEF firstPage, room
  <2>2. x \in Object
    BY <1>3, <2>1, ShiftFileTypes
  <2> HIDE DEF x
  <2> QED
    BY <1>2, <1>5, <1>6, <1>8, <2>1, <2>2, PlaceInFrontTypes
<1> QED
  BY <1>7, <1>8

LEMMA RewriteSortedTypes ==
    ASSUME NEW e \in Object
    PROVE  RewriteSorted(e) \in Object
<1> DEFINE X == {0} \cup {i \in 1 .. e.hdr.e_shnum - 1 :
                             e.shdrs[i].sh_name \in DOMAIN e.rep}
           last == Max(X)
           reserved == FirstReserved(e, last)
           offset == e.shdrs[reserved].sh_offset
           addr == e.shdrs[reserved].sh_addr
           odd == last = 0 \/ last + 1 >= e.hdr.e_shnum \/ addr % e.page # offset % e.page
           x == moveShdrs(Gathered(e, reserved), offset)
<1>1. /\ e.hdr.e_shnum \in Nat \ {0}
      /\ e.shdrs \in [0 .. e.hdr.e_shnum - 1 -> Elf_Shdr]
  BY ObjectFields
<1>2. last \in 0 .. e.hdr.e_shnum - 1
  <2>1. X \subseteq 0 .. e.hdr.e_shnum - 1 /\ X # {}
    BY <1>1
  <2> HIDE DEF X
  <2>2. IsFiniteSet(0 .. e.hdr.e_shnum - 1)
    BY <1>1, FS_Interval
  <2>3. IsFiniteSet(X)
    BY <2>1, <2>2, FS_Subset
  <2>4. Ints(X)
    BY <2>1 DEF Ints
  <2>5. Max(X) \in X
    BY <2>1, <2>3, <2>4, GreatestInt
  <2> QED
    BY <2>1, <2>5
<1> HIDE DEF last
<1>3. reserved \in 1 .. last + 1
  BY <1>2, FirstReservedTypes
<1> HIDE DEF reserved
<1>4. RewriteSorted(e) = IF odd THEN Fail(e, "abort")
                         ELSE IF addr < offset THEN Fail(e, "undefined")
                         ELSE MakeRoom(x, offset, addr)
  BY DEF RewriteSorted, reserved, last
<1>5. Fail(e, "abort") \in Object /\ Fail(e, "undefined") \in Object
  BY FailTypes
<1>6. CASE ~odd
  <2>1. reserved \in 1 .. e.hdr.e_shnum - 1
    BY <1>1, <1>2, <1>3, <1>6
  <2>2. e.shdrs[reserved] \in Elf_Shdr
    BY <1>1, <2>1
  <2>3. offset \in Nat /\ addr \in Nat
    BY <2>2, SectionFields
  <2> HIDE DEF offset, addr
  <2>4. Gathered(e, reserved) \in Object
    BY <2>1, GatheredTypes
  <2>5. x \in Object
    BY <2>3, <2>4, MoveShdrsTypes
  <2> HIDE DEF odd, x
  <2>6. MakeRoom(x, offset, addr) \in Object
    BY <2>3, <2>5, MakeRoomTypes
  <2> QED
    BY <1>4, <1>5, <2>6
<1>7. CASE odd
  <2> HIDE DEF odd, x, offset, addr
  <2> QED
    BY <1>4, <1>5, <1>7
<1> QED
  BY <1>6, <1>7

LEMMA RewriteSectionsTypes ==
    ASSUME NEW e \in Object
    PROVE  rewriteSections(e) \in Object
<1>1. rewriteSectionsLibrary(e) \in Object
  BY LibraryTypes
<1>2. rewriteSectionsExecutable(e) \in Object
  BY SortShdrsTypes, RewriteSortedTypes DEF rewriteSectionsExecutable
<1> QED
  BY <1>1, <1>2 DEF rewriteSections

LEMMA ImageTypes ==
    ASSUME NEW e \in Object
    PROVE  Image(e) \in Seq(Cell) /\ Len(Image(e)) = Len(e.contents)
<1>1. e.contents \in Seq(Cell) /\ e.hdr \in Cell
  BY ObjectFields, CellTypes
<1>2. Struct(e.hdr) \in Seq(Cell)
  BY <1>1, StructTypes
<1> QED
  BY <1>1, <1>2, OverwriteTypes DEF Image

-----------------------------------------------------------------------------
(* The dynamic section and its strings.                                    *)

LEMMA NamesTypes == {".dynamic", ".dynstr", ".interp"} \subseteq SectionName
<1>1. SectionNames[3] = ".dynamic" /\ SectionNames[4] = ".dynstr" /\ SectionNames[8] = ".interp"
      /\ {3, 4, 8} \subseteq DOMAIN SectionNames
  BY DEF SectionNames
<1> QED
  BY <1>1 DEF SectionName, ToSet

LEMMA TagTypes ==
    ASSUME NEW t \in {"DT_NEEDED", "DT_SONAME", "DT_RPATH", "DT_RUNPATH", "DT_FLAGS_1",
                      "DT_IGNORE", "DT_other"},
           NEW v \in Nat
    PROVE  t \in DynTag /\ Dyn(t, v) \in Elf_Dyn
BY DEF DynTag, Dyn, Elf_Dyn

LEMMA EntriesTypes ==
    ASSUME NEW e \in Object
    PROVE  Entries(e) \in Seq(Elf_Dyn)
<1>1. Section(e, ".dynamic").sh_offset \in Nat /\ e.contents \in Seq(Cell)
  BY FindSectionTypes, SectionFields, ObjectFields
<1> QED
  BY <1>1, EntriesAtTypes DEF Entries

LEMMA EntryFields ==
    ASSUME NEW e \in Object, NEW i \in DOMAIN Entries(e)
    PROVE  /\ Entries(e)[i] \in Elf_Dyn /\ Entries(e)[i].d_val \in Nat /\ i \in Nat
<1>1. Entries(e)[i] \in Elf_Dyn /\ i \in Nat
  BY EntriesTypes
<1> QED
  BY <1>1, DynUpdates

LEMMA EntryAtTypes ==
    ASSUME NEW e \in Object, NEW i \in Int
    PROVE  EntryAt(e, i) \in Elf_Dyn
<1>1. Section(e, ".dynamic").sh_offset \in Nat /\ e.contents \in Seq(Cell)
  BY FindSectionTypes, SectionFields, ObjectFields
<1>2. Section(e, ".dynamic").sh_offset + (i - 1) * Word \in Int
  BY <1>1, ElfAssumption
<1> QED
  BY <1>1, <1>2, StructAtTypes DEF EntryAt

LEMMA StrTypes ==
    ASSUME NEW e \in Object, NEW val \in Int
    PROVE  Str(e, val) \in Seq(Character) /\ StrSize(e) \in Nat
<1>1. /\ Section(e, ".dynstr").sh_offset \in Nat /\ e.contents \in Seq(Cell)
      /\ Section(e, ".dynstr").sh_size \in Nat
  BY FindSectionTypes, SectionFields, ObjectFields
<1>2. Section(e, ".dynstr").sh_offset + val \in Int
  BY <1>1
<1> QED
  BY <1>1, <1>2, StringAtTypes DEF Str, StrSize

LEMMA LastWithTypes ==
    ASSUME NEW entries \in Seq(Elf_Dyn), NEW tag
    PROVE  LastWith(entries, tag) \in {0} \cup DOMAIN entries
<1> DEFINE Y == {i \in DOMAIN entries : entries[i].d_tag = tag}
           X == {0} \cup Y
<1>1. IsFiniteSet(DOMAIN entries) /\ DOMAIN entries \subseteq Int
  BY FS_Interval, LenProperties
<1>2. IsFiniteSet(Y) /\ Y \subseteq DOMAIN entries
  <2>1. Y \subseteq DOMAIN entries
    OBVIOUS
  <2> HIDE DEF Y
  <2> QED
    BY <1>1, <2>1, FS_Subset
<1>3. IsFiniteSet(X)
  <2> HIDE DEF Y
  <2>1. IsFiniteSet(Y \cup {0}) /\ X = Y \cup {0}
    BY <1>2, FS_AddElement
  <2> QED
    BY <2>1
<1>4. Max(X) \in X
  <2>1. Ints(X) /\ X # {}
    BY <1>1, <1>2 DEF Ints
  <2> HIDE DEF X
  <2> QED
    BY <1>3, <2>1, GreatestInt
<1>5. LastWith(entries, tag) = Max(X)
  BY DEF LastWith
<1> HIDE DEF Y
<1> QED
  BY <1>2, <1>4, <1>5

LEMMA SetEntryTypes ==
    ASSUME NEW e \in Object, NEW i \in Int, NEW d \in Elf_Dyn
    PROVE  SetEntry(e, i, d) \in Object
<1> DEFINE o == Section(e, ".dynamic").sh_offset + (i - 1) * Word
           s == Struct(d)
<1>1. Section(e, ".dynamic").sh_offset \in Nat
  BY FindSectionTypes, SectionFields
<1>2. o \in Int
  BY <1>1, ElfAssumption
<1>3. s \in Seq(Cell)
  BY CellTypes, StructTypes
<1>4. SetEntry(e, i, d) = [e EXCEPT !.contents = Overwrite(@, o, s)]
  BY DEF SetEntry
<1> HIDE DEF o, s
<1> QED
  BY <1>2, <1>3, <1>4, OverwrittenTypes

LEMMA WipeStringTypes ==
    ASSUME NEW e \in Object, NEW val \in Int
    PROVE  WipeString(e, val) \in Object
<1> DEFINE f == Fill(e.contents, Section(e, ".dynstr").sh_offset + val, Len(Str(e, val)), XX)
<1>1. Section(e, ".dynstr").sh_offset \in Nat /\ e.contents \in Seq(Cell)
  BY FindSectionTypes, SectionFields, ObjectFields
<1>2. Section(e, ".dynstr").sh_offset + val \in Int /\ Len(Str(e, val)) \in Int
  <2>1. Str(e, val) \in Seq(Character)
    BY StrTypes
  <2> QED
    BY <1>1, <2>1, LenProperties
<1>3. f \in Seq(Cell)
  BY <1>1, <1>2, FillTypes, CellTypes
<1>4. WipeString(e, val) = [e EXCEPT !.contents = f]
  BY DEF WipeString
<1> HIDE DEF f
<1>5. [e EXCEPT !.contents = f] \in Object
  BY <1>3, ObjectUpdates
<1> QED
  BY <1>4, <1>5

LEMMA ChangedTypes ==
    ASSUME NEW e \in Object
    PROVE  [e EXCEPT !.changed = TRUE] \in Object
BY ObjectUpdates

LEMMA AddStringTypes ==
    ASSUME NEW e \in Object, NEW added \in Nat, NEW s \in Seq(Character)
    PROVE  AddString(e, added, s) \in Object
<1> DEFINE at == StrSize(e) + added
           size == at + Len(s) + 1
           g == replaceSection(e, ".dynstr", size)
           t == CString(s)
<1>1. at \in Nat /\ size \in Nat
  <2>1. StrSize(e) \in Nat
    BY StrTypes
  <2>2. Len(s) \in Nat
    BY LenProperties
  <2> QED
    BY <2>1, <2>2
<1>2. t \in Seq(Cell)
  BY CStringTypes
<1> HIDE DEF at, size, t
<1>3. g \in Object /\ ".dynstr" \in DOMAIN g.rep
  <2>1. ".dynstr" \in SectionName
    BY NamesTypes
  <2>2. g \in Object
    BY <1>1, <2>1, ReplaceSectionTypes
  <2>3. DOMAIN g.rep = DOMAIN e.rep \cup {".dynstr"}
    BY <1>1, <2>1, ReplaceSectionTypes
  <2> QED
    BY <2>2, <2>3
<1> HIDE DEF g
<1>4. setSubstr(g, ".dynstr", at, t) \in Object
  BY <1>1, <1>2, <1>3, SetSubstrTypes
<1> QED
  BY <1>4 DEF AddString, g, t, size, at

LEMMA AddEntriesTypes ==
    ASSUME NEW e \in Object, NEW new \in Seq(Elf_Dyn), new # <<>>
    PROVE  AddEntries(e, new) \in Object
<1> DEFINE room == Len(new) * Word
           size == Section(e, ".dynamic").sh_size + room
           g == replaceSection(e, ".dynamic", size)
           dyn == g.rep[".dynamic"]
           nulls == Len(EntriesAt(dyn, 0))
           t == SubSeq(dyn, 1, Word * (nulls + 1))
           shifted == setSubstr(g, ".dynamic", room, t)
           s == FlattenSeq([i \in DOMAIN new |-> Struct(new[i])])
<1>1. room \in Nat /\ room >= Word
  <2>1. Len(new) \in Nat /\ Len(new) >= 1
    BY LenProperties, EmptySeq
  <2> QED
    BY <2>1, ElfAssumption
<1>2. size \in Nat /\ size >= Word
  <2>1. Section(e, ".dynamic").sh_size \in Nat
    BY FindSectionTypes, SectionFields
  <2> QED
    BY <1>1, <2>1, ElfAssumption
<1> HIDE DEF room, size
<1>3. /\ g \in Object /\ ".dynamic" \in DOMAIN g.rep
      /\ dyn \in Seq(Cell) /\ Len(dyn) = size
  <2>1. ".dynamic" \in SectionName
    BY NamesTypes
  <2>2. g \in Object
    BY <1>2, <2>1, ReplaceSectionTypes
  <2>3. DOMAIN g.rep = DOMAIN e.rep \cup {".dynamic"}
    BY <1>2, <2>1, ReplaceSectionTypes
  <2>4. dyn \in Seq(Cell)
    BY <1>2, <2>1, ReplaceSectionTypes
  <2>5. Len(dyn) = size
    BY <1>2, <2>1, ReplaceSectionTypes
  <2> QED
    BY <2>2, <2>3, <2>4, <2>5
<1> HIDE DEF g
<1>4. nulls \in Nat /\ Word * (nulls + 1) <= Len(dyn)
  <2> HIDE DEF dyn
  <2>1. EntriesAt(dyn, 0) \in Seq(Elf_Dyn)
    BY <1>3, EntriesAtTypes
  <2>2. Word * (Len(EntriesAt(dyn, 0)) + 1) <= Len(dyn)
    BY <1>2, <1>3, EntriesAtTypes
  <2> QED
    BY <2>1, <2>2, LenProperties
<1>5. t \in Seq(Cell)
  <2> HIDE DEF dyn, nulls
  <2>1. Word * (nulls + 1) \in Nat
    BY <1>4, ElfAssumption
  <2> DEFINE k == Word * (nulls + 1)
  <2> HIDE DEF k
  <2>2. k \in Nat /\ k <= Len(dyn)
    BY <1>4, <2>1 DEF k
  <2>3. SubSeq(dyn, 1, k) \in Seq(Cell)
    BY <1>3, <2>2
  <2> QED
    BY <2>3 DEF k
<1>6. shifted \in Object /\ DOMAIN shifted.rep = DOMAIN g.rep
  <2> HIDE DEF t
  <2> QED
    BY <1>1, <1>3, <1>5, SetSubstrTypes
<1>7. s \in Seq(Cell)
  <2>1. new \in Seq(Cell)
    BY CellTypes
  <2> QED
    BY <2>1, FlattenStructTypes
<1> HIDE DEF shifted, s
<1>8. setSubstr(shifted, ".dynamic", 0, s) \in Object
  BY <1>3, <1>6, <1>7, SetSubstrTypes
<1>9. AddEntries(e, new) = IF g.err # "" THEN g ELSE setSubstr(shifted, ".dynamic", 0, s)
  BY DEF AddEntries, s, shifted, g, size, room
<1> QED
  BY <1>3, <1>8, <1>9

LEMMA CheckStrTabTypes ==
    ASSUME NEW e \in Object
    PROVE  CheckStrTab(e) \in Object
<1>1. Find(e, {".dynamic", ".dynstr"}) \in Object
  BY FindTypes
<1>2. Fail(e, "error") \in Object
  BY FailTypes
<1>3. \A c : Require(e, c) \in Object
  BY RequireTypes
<1> QED
  BY <1>1, <1>2, <1>3 DEF CheckStrTab

-----------------------------------------------------------------------------
(* The interpreter and the soname.                                         *)

LEMMA SetInterpreterTypes ==
    ASSUME NEW e \in Object, NEW new \in Seq(Character)
    PROVE  setInterpreter(e, new) \in Object
<1> DEFINE size == Len(new) + 1
           g == replaceSection(e, ".interp", size)
           t == CString(new)
           x == setSubstr(g, ".interp", 0, t)
<1>1. size \in Nat
  BY LenProperties
<1>2. t \in Seq(Cell)
  BY CStringTypes
<1> HIDE DEF size, t
<1>3. g \in Object /\ ".interp" \in DOMAIN g.rep
  <2>1. ".interp" \in SectionName
    BY NamesTypes
  <2>2. g \in Object
    BY <1>1, <2>1, ReplaceSectionTypes
  <2>3. DOMAIN g.rep = DOMAIN e.rep \cup {".interp"}
    BY <1>1, <2>1, ReplaceSectionTypes
  <2> QED
    BY <2>2, <2>3
<1> HIDE DEF g
<1>4. x \in Object
  BY <1>2, <1>3, SetSubstrTypes
<1> HIDE DEF x
<1>5. [x EXCEPT !.changed = TRUE] \in Object
  BY <1>4, ChangedTypes
<1>6. setInterpreter(e, new) = IF g.err # "" THEN g ELSE [x EXCEPT !.changed = TRUE]
  BY DEF setInterpreter, x, g, t, size
<1> QED
  BY <1>3, <1>5, <1>6

\* The object after the entry of a tag, if it is there, is set or a new one put
\* on top.
LEMMA ModifySonameTypes ==
    ASSUME NEW e \in Object, NEW new \in Seq(Character)
    PROVE  modifySoname(e, new) \in Object
<1> DEFINE checked == CheckStrTab(e)
           i == LastWith(Entries(e), "DT_SONAME")
           wiped == IF i = 0 THEN e ELSE WipeString(e, Entries(e)[i].d_val)
           named == AddString(wiped, 0, new)
           d == Dyn("DT_SONAME", StrSize(e))
           pointed == IF i # 0 THEN SetEntry(named, i, d) ELSE AddEntries(named, <<d>>)
<1>1. checked \in Object
  BY CheckStrTabTypes
<1>2. i \in {0} \cup DOMAIN Entries(e)
  BY EntriesTypes, LastWithTypes
<1> HIDE DEF i
<1>3. wiped \in Object /\ i \in Int
  <2>1. CASE i = 0
    BY <2>1
  <2>2. CASE i # 0
    <3>1. Entries(e)[i].d_val \in Nat /\ i \in Nat
      BY <1>2, <2>2, EntryFields
    <3>2. WipeString(e, Entries(e)[i].d_val) \in Object
      BY <3>1, WipeStringTypes
    <3> QED
      BY <2>2, <3>1, <3>2
  <2> QED
    BY <2>1, <2>2
<1> HIDE DEF wiped
<1>4. named \in Object
  BY <1>3, AddStringTypes
<1> HIDE DEF named
<1>5. d \in Elf_Dyn
  BY StrTypes, TagTypes
<1> HIDE DEF d
<1>6. pointed \in Object
  <2>1. SetEntry(named, i, d) \in Object
    BY <1>3, <1>4, <1>5, SetEntryTypes
  <2>2. AddEntries(named, <<d>>) \in Object
    <3>1. <<d>> \in Seq(Elf_Dyn) /\ <<d>> # <<>>
      BY <1>5
    <3> QED
      BY <1>4, <3>1, AddEntriesTypes
  <2> QED
    BY <2>1, <2>2
<1> HIDE DEF pointed
<1>7. [pointed EXCEPT !.changed = TRUE] \in Object
  BY <1>6, ChangedTypes
<1>8. modifySoname(e, new) = IF e.hdr.e_type # "ET_DYN" THEN e
                             ELSE IF checked.err # "" \/ OrEmpty(Soname(e)) = new THEN checked
                             ELSE [pointed EXCEPT !.changed = TRUE]
  BY DEF modifySoname, pointed, d, named, wiped, i
<1> HIDE DEF checked
<1> QED
  BY <1>1, <1>7, <1>8

-----------------------------------------------------------------------------
(* The search path.                                                        *)

\* The directories of a path.
LEMMA DirectoriesTypes ==
    ASSUME NEW path \in Seq(Character)
    PROVE  Directories(path) \in Seq(Seq(Character))
<1> DEFINE q == path
           n == Len(q)
           A == [dirs: Seq(Seq(Character)), dir: Seq(Character)]
           base == [dirs |-> <<>>, dir |-> <<>>]
           step(acc, ch) ==
               IF ch = ":" THEN [dirs |-> Append(acc.dirs, acc.dir), dir |-> <<>>]
               ELSE [acc EXCEPT !.dir = Append(@, ch)]
           op(a, i) == step(a, q[i])
<1>1. n \in Nat /\ DOMAIN q = Indices(n)
  BY LenProperties DEF Indices
<1>2. base \in A
  OBVIOUS
<1>3. \A i \in Indices(n) : \A a \in A : op(a, i) \in A
  <2> SUFFICES ASSUME NEW i \in Indices(n), NEW a \in A PROVE op(a, i) \in A
    OBVIOUS
  <2>1. q[i] \in Character
    BY <1>1
  <2>2. a.dirs \in Seq(Seq(Character)) /\ a.dir \in Seq(Character)
    OBVIOUS
  <2>3. Append(a.dirs, a.dir) \in Seq(Seq(Character)) /\ Append(a.dir, q[i]) \in Seq(Character)
    BY <2>1, <2>2, AppendProperties
  <2>4. <<>> \in Seq(Character)
    OBVIOUS
  <2> HIDE DEF q
  <2> DEFINE x == Append(a.dirs, a.dir)
             y == Append(a.dir, q[i])
  <2> HIDE DEF x, y
  <2>5. [dirs |-> x, dir |-> <<>>] \in A
    BY <2>3, <2>4 DEF x
  <2>6. [a EXCEPT !.dir = y] \in A
    BY <2>3 DEF y
  <2>7. op(a, i) = IF q[i] = ":" THEN [dirs |-> x, dir |-> <<>>] ELSE [a EXCEPT !.dir = y]
    BY DEF x, y
  <2> HIDE DEF op, A
  <2> QED
    BY <2>5, <2>6, <2>7
<1> DEFINE Step == [i \in Indices(n) |-> [a \in A |-> op(a, i)]]
           body(h) == [t \in SUBSET DOMAIN q |->
                           IF t = {} THEN base ELSE op(h[t \ {Max(t)}], Max(t))]
           h == CHOOSE h : h = body(h)
<1> HIDE DEF n, A, base, op, q
<1>4. PICK g : /\ LeftFolds(g, n, base, Step)
               /\ \A t \in SUBSET Indices(n) : g[t] \in A
  <2>1. \A i \in Indices(n) : \A a \in A : Step[i][a] \in A
    BY <1>3
  <2> HIDE DEF Step
  <2> QED
    BY <1>1, <1>2, <2>1, LeftFold
<1>5. \A t \in SUBSET Indices(n) : t # {} => Max(t) \in Indices(n)
  BY <1>1, LastIn
<1>6. h = body(h)
  <2>1. g = body(g)
    BY <1>1, <1>4, <1>5 DEF LeftFolds
  <2> HIDE DEF body
  <2> QED
    BY <2>1
<1>7. h[DOMAIN q] \in A
  <2> HIDE DEF h
  <2>1. LeftStays(h, n, A)
    BY <1>1, <1>3, <1>2, <1>5, <1>6 DEF LeftStays
  <2> QED
    BY <1>1, <2>1, LeftFoldIn
<1> DEFINE split == FoldLeft(step, [dirs |-> <<>>, dir |-> <<>>], path)
<1>8. split = h[DOMAIN q]
  BY DEF FoldLeft, MapThenFoldSet, q, base, op
<1> HIDE DEF split
<1>9. split.dirs \in Seq(Seq(Character)) /\ split.dir \in Seq(Character)
  BY <1>7, <1>8 DEF A
<1>10. Append(split.dirs, split.dir) \in Seq(Seq(Character))
  BY <1>9, AppendProperties
<1>11. Directories(path) = IF split.dir = <<>> THEN split.dirs
                           ELSE Append(split.dirs, split.dir)
  BY DEF Directories, split
<1> QED
  BY <1>9, <1>10, <1>11

LEMMA ConcatTypes ==
    ASSUME NEW path \in Seq(Character), NEW dir \in Seq(Character)
    PROVE  concatToRPath(path, dir) \in Seq(Character)
<1>1. ":" \in Character
  BY DEF Character
<1>2. Append(path, ":") \in Seq(Character)
  BY <1>1, AppendProperties
<1>3. (Append(path, ":") \o dir) \in Seq(Character) /\ (<<>> \o dir) \in Seq(Character)
  BY <1>2, ConcatProperties, EmptySeq
<1> QED
  BY <1>3 DEF concatToRPath

LEMMA ShrunkPathTypes ==
    ASSUME NEW path \in Seq(Character), NEW needed
    PROVE  ShrunkPath(path, needed) \in Seq(Character)
<1> DEFINE q == Directories(path)
           n == Len(q)
           A == [found: SUBSET DOMAIN needed, path: Seq(Character)]
           base == [found |-> {}, path |-> <<>>]
           step(acc, dir) ==
               LET new == {j \in DOMAIN needed \ acc.found :
                               <<dir, needed[j]>> \in Provides}
               IN  IF dir = <<>> \/ dir[1] \notin Absolute
                   THEN [acc EXCEPT !.path = concatToRPath(@, dir)]
                   ELSE IF new = {} THEN acc
                   ELSE [found |-> acc.found \cup new,
                         path |-> concatToRPath(acc.path, dir)]
           op(a, i) == step(a, q[i])
<1>1. n \in Nat /\ DOMAIN q = Indices(n)
  BY DirectoriesTypes, LenProperties DEF Indices
<1>2. base \in A
  OBVIOUS
<1>3. \A i \in Indices(n) : \A a \in A : op(a, i) \in A
  <2> SUFFICES ASSUME NEW i \in Indices(n), NEW a \in A PROVE op(a, i) \in A
    OBVIOUS
  <2>1. q[i] \in Seq(Character)
    BY <1>1, DirectoriesTypes
  <2> DEFINE y == concatToRPath(a.path, q[i])
             new == {j \in DOMAIN needed \ a.found : <<q[i], needed[j]>> \in Provides}
             z == a.found \cup new
             keeps == q[i] = <<>> \/ q[i][1] \notin Absolute
  <2>2. y \in Seq(Character)
    <3>1. a.path \in Seq(Character)
      OBVIOUS
    <3> HIDE DEF q
    <3> QED
      BY <2>1, <3>1, ConcatTypes
  <2>3. z \in SUBSET DOMAIN needed
    <3> HIDE DEF q
    <3> QED
      OBVIOUS
  <2>4. op(a, i) = IF keeps THEN [a EXCEPT !.path = y]
                   ELSE IF new = {} THEN a ELSE [found |-> z, path |-> y]
    <3> HIDE DEF q
    <3> QED
      BY DEF op, step
  <2> HIDE DEF y, z, keeps, q, new, op
  <2>5. [a EXCEPT !.path = y] \in A /\ [found |-> z, path |-> y] \in A
    BY <2>2, <2>3
  <2> HIDE DEF A
  <2> QED
    BY <2>4, <2>5
<1> DEFINE Step == [i \in Indices(n) |-> [a \in A |-> op(a, i)]]
           body(h) == [t \in SUBSET DOMAIN q |->
                           IF t = {} THEN base ELSE op(h[t \ {Max(t)}], Max(t))]
           h == CHOOSE h : h = body(h)
<1> HIDE DEF n, A, base, op, q
<1>4. PICK g : /\ LeftFolds(g, n, base, Step)
               /\ \A t \in SUBSET Indices(n) : g[t] \in A
  <2>1. \A i \in Indices(n) : \A a \in A : Step[i][a] \in A
    BY <1>3
  <2> HIDE DEF Step
  <2> QED
    BY <1>1, <1>2, <2>1, LeftFold
<1>5. \A t \in SUBSET Indices(n) : t # {} => Max(t) \in Indices(n)
  BY <1>1, LastIn
<1>6. h = body(h)
  <2>1. g = body(g)
    BY <1>1, <1>4, <1>5 DEF LeftFolds
  <2> HIDE DEF body
  <2> QED
    BY <2>1
<1>7. h[DOMAIN q] \in A
  <2> HIDE DEF h
  <2>1. LeftStays(h, n, A)
    BY <1>1, <1>3, <1>2, <1>5, <1>6 DEF LeftStays
  <2> QED
    BY <1>1, <2>1, LeftFoldIn
<1> DEFINE all == FoldLeft(step, [found |-> {}, path |-> <<>>], Directories(path))
<1>8. all = h[DOMAIN q]
  BY DEF FoldLeft, MapThenFoldSet, q, base, op
<1> HIDE DEF all
<1>9. all.path \in Seq(Character)
  BY <1>7, <1>8 DEF A
<1> QED
  BY <1>9 DEF ShrunkPath, all

LEMMA PathEntryTypes ==
    ASSUME NEW e \in Object
    PROVE  PathEntry(e) \in {0} \cup DOMAIN Entries(e)
BY EntriesTypes, LastWithTypes DEF PathEntry

LEMMA SearchPathTypes ==
    ASSUME NEW e \in Object, SearchPath(e) # None
    PROVE  SearchPath(e) \in Seq(Character)
<1>1. PathEntry(e) # 0 /\ PathEntry(e) \in DOMAIN Entries(e)
  BY PathEntryTypes DEF SearchPath
<1>2. Entries(e)[PathEntry(e)].d_val \in Int
  BY <1>1, EntryFields
<1>3. Str(e, Entries(e)[PathEntry(e)].d_val) \in Seq(Character)
  BY <1>2, StrTypes
<1> QED
  BY <1>1, <1>3 DEF SearchPath

\* The entries that removeRPath keeps, and those that removeNeeded keeps.
LEMMA PathsRemovedTypes ==
    ASSUME NEW e, NEW entries \in Seq(Elf_Dyn)
    PROVE  Selected(entries, LAMBDA d : d.d_tag \notin {"DT_RPATH", "DT_RUNPATH"}) \in Seq(Elf_Dyn)
<1> DEFINE q == entries
           n == Len(q)
           A == Seq(Elf_Dyn)
           base == <<>>
           keep(d) == d.d_tag \notin {"DT_RPATH", "DT_RUNPATH"}
           op(a, i) == IF keep(q[i]) THEN Append(a, q[i]) ELSE a
<1>1. n \in Nat /\ DOMAIN q = Indices(n)
  BY LenProperties DEF Indices
<1>2. base \in A
  OBVIOUS
<1>3. \A i \in Indices(n) : \A a \in A : op(a, i) \in A
  <2> SUFFICES ASSUME NEW i \in Indices(n), NEW a \in A PROVE op(a, i) \in A
    OBVIOUS
  <2>1. q[i] \in Elf_Dyn
    BY <1>1
  <2>2. Append(a, q[i]) \in A
    BY <2>1, AppendProperties
  <2> HIDE DEF keep, A
  <2> QED
    BY <2>2
<1> DEFINE Step == [i \in Indices(n) |-> [a \in A |-> op(a, i)]]
           body(h) == [t \in SUBSET DOMAIN q |->
                           IF t = {} THEN base ELSE op(h[t \ {Max(t)}], Max(t))]
           h == CHOOSE h : h = body(h)
<1> HIDE DEF n, A, base, op, q
<1>4. PICK g : /\ LeftFolds(g, n, base, Step)
               /\ \A t \in SUBSET Indices(n) : g[t] \in A
  <2>1. \A i \in Indices(n) : \A a \in A : Step[i][a] \in A
    BY <1>3
  <2> HIDE DEF Step
  <2> QED
    BY <1>1, <1>2, <2>1, LeftFold
<1>5. \A t \in SUBSET Indices(n) : t # {} => Max(t) \in Indices(n)
  BY <1>1, LastIn
<1>6. h = body(h)
  <2>1. g = body(g)
    BY <1>1, <1>4, <1>5 DEF LeftFolds
  <2> HIDE DEF body
  <2> QED
    BY <2>1
<1>7. h[DOMAIN q] \in A
  <2> HIDE DEF h
  <2>1. LeftStays(h, n, A)
    BY <1>1, <1>3, <1>2, <1>5, <1>6 DEF LeftStays
  <2> QED
    BY <1>1, <2>1, LeftFoldIn
<1>8. Selected(entries, keep) = h[DOMAIN q]
  BY DEF Selected, FoldLeft, MapThenFoldSet, q, base, op
<1> QED
  BY <1>7, <1>8 DEF A

\* What Compact makes of an object, given the entries that it keeps.
LEMMA CompactedTypes ==
    ASSUME NEW e \in Object, NEW kept \in Seq(Elf_Dyn)
    PROVE  LET gone == Len(Entries(e)) - Len(kept)
           IN  [e EXCEPT
                   !.contents = Overwrite(@, Section(e, ".dynamic").sh_offset,
                                    FlattenSeq([i \in DOMAIN kept |-> Struct(kept[i])])
                                        \o Zeros(gone * Word)),
                   !.changed = @ \/ gone > 0] \in Object
<1> DEFINE gone == Len(Entries(e)) - Len(kept)
           o == Section(e, ".dynamic").sh_offset
           s == FlattenSeq([i \in DOMAIN kept |-> Struct(kept[i])]) \o Zeros(gone * Word)
           x == [e EXCEPT !.contents = Overwrite(@, o, s)]
           c == e.changed \/ gone > 0
<1>1. gone \in Int
  BY EntriesTypes, LenProperties
<1>2. o \in Int
  BY FindSectionTypes, SectionFields
<1> HIDE DEF gone, o
<1>3. s \in Seq(Cell)
  <2>1. kept \in Seq(Cell)
    BY CellTypes
  <2>2. FlattenSeq([i \in DOMAIN kept |-> Struct(kept[i])]) \in Seq(Cell)
    BY <2>1, FlattenStructTypes
  <2>3. gone * Word \in Int
    BY <1>1, ElfAssumption
  <2>4. Zeros(gone * Word) \in Seq(Cell)
    BY <2>3, ZerosTypes
  <2> QED
    BY <2>2, <2>4, ConcatProperties
<1> HIDE DEF s
<1>4. x \in Object
  BY <1>2, <1>3, OverwrittenTypes
<1>5. c \in BOOLEAN
  BY ObjectFields
<1>6. [e EXCEPT !.contents = Overwrite(@, o, s), !.changed = c] = [x EXCEPT !.changed = c]
  OBVIOUS
<1> HIDE DEF x, c
<1>7. [x EXCEPT !.changed = c] \in Object
  BY <1>4, <1>5, ObjectUpdates
<1> QED
  BY <1>6, <1>7 DEF gone, o, s, c

LEMMA RemoveRPathTypes ==
    ASSUME NEW e \in Object
    PROVE  removeRPath(e) \in Object
<1> DEFINE keep(d) == d.d_tag \notin {"DT_RPATH", "DT_RUNPATH"}
           kept == Selected(Entries(e), keep)
<1>1. kept \in Seq(Elf_Dyn)
  BY EntriesTypes, PathsRemovedTypes
<1>2. Compact(e, keep) \in Object
  <2> DEFINE gone == Len(Entries(e)) - Len(kept)
             x == [e EXCEPT
                      !.contents = Overwrite(@, Section(e, ".dynamic").sh_offset,
                                       FlattenSeq([i \in DOMAIN kept |-> Struct(kept[i])])
                                           \o Zeros(gone * Word)),
                      !.changed = @ \/ gone > 0]
  <2>1. x \in Object
    <3> HIDE DEF kept
    <3> QED
      BY <1>1, CompactedTypes
  <2>2. Compact(e, keep) = x
    BY DEF Compact
  <2> QED
    BY <2>1, <2>2
<1>3. removeRPath(e) = IF SearchPath(e) = None THEN e ELSE Compact(e, keep)
  BY DEF removeRPath
<1> QED
  BY <1>2, <1>3

LEMMA ConvertTagTypes ==
    ASSUME NEW e \in Object, NEW force
    PROVE  ConvertTag(e, force) \in Object
<1> DEFINE r == LastWith(Entries(e), "DT_RPATH")
           run == LastWith(Entries(e), "DT_RUNPATH")
           tag(t) == IF Foreign(e) THEN "DT_other" ELSE t
           a == tag("DT_RUNPATH")
           b == tag("DT_IGNORE")
<1>1. r \in {0} \cup DOMAIN Entries(e) /\ run \in {0} \cup DOMAIN Entries(e)
  BY EntriesTypes, LastWithTypes
<1>2. a \in DynTag /\ b \in DynTag
  BY DEF DynTag
<1>3. ASSUME NEW i \in DOMAIN Entries(e), NEW t \in DynTag
      PROVE  SetEntry(e, i, [Entries(e)[i] EXCEPT !.d_tag = t]) \in Object
  <2>1. Entries(e)[i] \in Elf_Dyn /\ i \in Int
    BY EntryFields
  <2>2. [Entries(e)[i] EXCEPT !.d_tag = t] \in Elf_Dyn
    BY <2>1, DynUpdates
  <2> QED
    BY <2>1, <2>2, SetEntryTypes
<1>4. ConvertTag(e, force)
          = IF ~force /\ r # 0 /\ run = 0
            THEN SetEntry(e, r, [Entries(e)[r] EXCEPT !.d_tag = a])
            ELSE IF force /\ r # 0 /\ run # 0
                 THEN SetEntry(e, run, [Entries(e)[run] EXCEPT !.d_tag = b])
                 ELSE e
  BY DEF ConvertTag
<1> HIDE DEF r, run, a, b
<1>5. r # 0 => SetEntry(e, r, [Entries(e)[r] EXCEPT !.d_tag = a]) \in Object
  BY <1>1, <1>2, <1>3
<1>6. run # 0 => SetEntry(e, run, [Entries(e)[run] EXCEPT !.d_tag = b]) \in Object
  BY <1>1, <1>2, <1>3
<1> QED
  BY <1>4, <1>5, <1>6

LEMMA RepointTypes ==
    ASSUME NEW e \in Object, NEW found \in Seq(Elf_Dyn), NEW val \in Nat
    PROVE  Repoint(e, found, val) \in Object
<1> DEFINE S == {LastWith(found, "DT_RPATH"), LastWith(found, "DT_RUNPATH")} \ {0}
           A == Object
           base == e
           op(x, a) == SetEntry(a, x, [EntryAt(a, x) EXCEPT !.d_val = val])
<1>1. IsFiniteSet(S)
  <2> DEFINE r == LastWith(found, "DT_RPATH")
             run == LastWith(found, "DT_RUNPATH")
  <2> HIDE DEF r, run
  <2>1. IsFiniteSet({r} \cup {run})
    BY FS_Singleton, FS_AddElement
  <2>2. {r, run} \ {0} \subseteq {r} \cup {run}
    OBVIOUS
  <2>3. IsFiniteSet({r, run} \ {0})
    BY <2>1, <2>2, FS_Subset
  <2> QED
    BY <2>3 DEF r, run
<1>2. base \in A
  OBVIOUS
<1>3. \A x \in S : \A a \in A : op(x, a) \in A
  <2> SUFFICES ASSUME NEW x \in S, NEW a \in A PROVE op(x, a) \in A
    OBVIOUS
  <2>1. x \in Int
    <3>1. \A tag : LastWith(found, tag) \in {0} \cup DOMAIN found
      BY LastWithTypes
    <3>2. DOMAIN found \subseteq Int
      BY LenProperties
    <3> QED
      BY <3>1, <3>2
  <2> HIDE DEF S
  <2>2. EntryAt(a, x) \in Elf_Dyn
    BY <2>1, EntryAtTypes
  <2>3. [EntryAt(a, x) EXCEPT !.d_val = val] \in Elf_Dyn
    BY <2>2, DynUpdates
  <2> QED
    BY <2>1, <2>3, SetEntryTypes
<1> DEFINE Step == [x \in S |-> [a \in A |-> op(x, a)]]
           c(t) == CHOOSE x \in t : TRUE
           body(h) == [t \in SUBSET S |->
                           IF t = {} THEN base ELSE op(c(t), h[t \ {c(t)}])]
           h == CHOOSE h : h = body(h)
<1> HIDE DEF S, A, base, op
<1>4. PICK g : /\ SetFolds(g, S, base, Step)
               /\ \A t \in SUBSET S : g[t] \in A
  <2>1. \A x \in S : \A a \in A : Step[x][a] \in A
    BY <1>3
  <2> HIDE DEF Step
  <2> QED
    BY <1>1, <1>2, <2>1, SetFold
<1>5. \A t \in SUBSET S : t # {} => c(t) \in t /\ c(t) \in S
  OBVIOUS
<1>6. h = body(h)
  <2>1. g = body(g)
    BY <1>4, <1>5 DEF SetFolds
  <2> HIDE DEF body
  <2> QED
    BY <2>1
<1>7. h[S] \in A
  <2> HIDE DEF h
  <2>1. \A t \in SUBSET S : t # {} /\ h[t \ {c(t)}] \in A => h[t] \in A
    <3> HIDE DEF c
    <3> QED
      BY <1>3, <1>5, <1>6
  <2>2. h[{}] \in A
    BY <1>2, <1>6
  <2>3. SetStays(h, S, A)
    BY <2>1, <2>2 DEF SetStays
  <2> QED
    BY <1>1, <2>3, SetFoldIn
<1>8. Repoint(e, found, val) = h[S]
  BY DEF Repoint, FoldSet, MapThenFoldSet, S, base, op, c
<1> QED
  BY <1>7, <1>8 DEF A

LEMMA SetPathInTypes ==
    ASSUME NEW w \in Object, NEW e \in Object, NEW new \in Seq(Character), NEW force
    PROVE  SetPathIn(w, e, new, force) \in Object
<1> DEFINE old == PathEntry(e)
           grown == AddString(w, 0, new)
           o == Section(e, ".dynstr").sh_offset + Entries(e)[old].d_val
           s == CString(new)
           d == Dyn(IF force THEN "DT_RPATH" ELSE "DT_RUNPATH", StrSize(e))
           fits == Len(new) <= Len(SearchPath(e))
<1>1. old \in {0} \cup DOMAIN Entries(e)
  BY PathEntryTypes
<1>2. grown \in Object
  BY AddStringTypes
<1>3. s \in Seq(Cell)
  BY CStringTypes
<1>4. StrSize(e) \in Nat
  BY StrTypes
<1>5. d \in Elf_Dyn
  BY <1>4, TagTypes
<1>6. old # 0 => o \in Int
  <2> HIDE DEF old
  <2>1. Section(e, ".dynstr").sh_offset \in Nat
    BY FindSectionTypes, SectionFields
  <2> QED
    BY <1>1, <2>1, EntryFields
<1>7. SetPathIn(w, e, new, force)
          = IF old # 0 /\ fits THEN [w EXCEPT !.contents = Overwrite(@, o, s)]
            ELSE IF old # 0 THEN Repoint(grown, Entries(e), StrSize(e))
            ELSE AddEntries(grown, <<d>>)
  BY DEF SetPathIn
<1> HIDE DEF old, grown, o, s, d, fits
<1>8. old # 0 => [w EXCEPT !.contents = Overwrite(@, o, s)] \in Object
  BY <1>3, <1>6, OverwrittenTypes
<1>9. Repoint(grown, Entries(e), StrSize(e)) \in Object
  BY <1>2, <1>4, EntriesTypes, RepointTypes
<1>10. AddEntries(grown, <<d>>) \in Object
  <2>1. <<d>> \in Seq(Elf_Dyn) /\ <<d>> # <<>>
    BY <1>5
  <2> QED
    BY <1>2, <2>1, AddEntriesTypes
<1> QED
  BY <1>7, <1>8, <1>9, <1>10

LEMMA SetPathTypes ==
    ASSUME NEW e \in Object, NEW new \in Seq(Character), NEW force
    PROVE  SetPath(e, new, force) \in Object
<1> DEFINE old == PathEntry(e)
           x == IF old = 0 THEN e ELSE WipeString(e, Entries(e)[old].d_val)
           w == ConvertTag(x, force)
<1>1. old \in {0} \cup DOMAIN Entries(e)
  BY PathEntryTypes
<1>2. x \in Object
  <2> HIDE DEF old
  <2>1. CASE old = 0
    BY <2>1
  <2>2. CASE old # 0
    <3>1. Entries(e)[old].d_val \in Int
      BY <1>1, <2>2, EntryFields
    <3>2. WipeString(e, Entries(e)[old].d_val) \in Object
      BY <3>1, WipeStringTypes
    <3> QED
      BY <2>2, <3>2
  <2> QED
    BY <2>1, <2>2
<1> HIDE DEF x
<1>3. w \in Object
  BY <1>2, ConvertTagTypes
<1>4. SetPath(e, new, force) = SetPathIn(w, e, new, force)
  BY DEF SetPath, x
<1> HIDE DEF w
<1> QED
  BY <1>3, <1>4, SetPathInTypes

LEMMA ModifyRPathTypes ==
    ASSUME NEW e \in Object, NEW op, NEW path \in Seq(Character), NEW force
    PROVE  modifyRPath(e, op, path, force) \in Object
<1> DEFINE checked == CheckStrTab(e)
           new == IF op = "rpShrink" THEN ShrunkPath(SearchPath(e), NeededLibs(e))
                  ELSE path
<1>1. checked \in Object
  BY CheckStrTabTypes
<1>2. removeRPath(e) \in Object
  BY RemoveRPathTypes
<1>3. ~(op = "rpShrink" /\ SearchPath(e) = None) => new \in Seq(Character)
  <2>1. CASE op = "rpShrink" /\ SearchPath(e) # None
    <3>1. SearchPath(e) \in Seq(Character)
      BY <2>1, SearchPathTypes
    <3> QED
      BY <2>1, <3>1, ShrunkPathTypes
  <2>2. CASE op # "rpShrink"
    BY <2>2
  <2> QED
    BY <2>1, <2>2
<1>4. modifyRPath(e, op, path, force)
          = IF checked.err # "" THEN checked
            ELSE IF op = "rpRemove" THEN removeRPath(e)
            ELSE IF op = "rpShrink" /\ SearchPath(e) = None THEN e
            ELSE IF SamePath(e, new) THEN e
            ELSE [SetPath(e, new, force) EXCEPT !.changed = TRUE]
  BY DEF modifyRPath
<1> HIDE DEF checked, new
<1>5. ~(op = "rpShrink" /\ SearchPath(e) = None)
          => [SetPath(e, new, force) EXCEPT !.changed = TRUE] \in Object
  BY <1>3, SetPathTypes, ChangedTypes
<1> QED
  BY <1>1, <1>2, <1>4, <1>5

-----------------------------------------------------------------------------
(* Needed libraries.                                                       *)

LEMMA RemoveNeededTypes ==
    ASSUME NEW e \in Object, NEW libs
    PROVE  removeNeeded(e, libs) \in Object
<1> DEFINE keep(d) == d.d_tag = "DT_NEEDED" => Str(e, d.d_val) \notin libs
           kept == Selected(Entries(e), keep)
<1> DEFINE q == Entries(e)
           n == Len(q)
           A == Seq(Elf_Dyn)
           base == <<>>
           op(a, i) == IF keep(q[i]) THEN Append(a, q[i]) ELSE a
<1>1. n \in Nat /\ DOMAIN q = Indices(n) /\ q \in Seq(Elf_Dyn)
  BY EntriesTypes, LenProperties DEF Indices
<1>2. base \in A
  OBVIOUS
<1>3. \A i \in Indices(n) : \A a \in A : op(a, i) \in A
  <2> SUFFICES ASSUME NEW i \in Indices(n), NEW a \in A PROVE op(a, i) \in A
    OBVIOUS
  <2> HIDE DEF q, keep
  <2>1. q[i] \in Elf_Dyn
    BY <1>1
  <2>2. Append(a, q[i]) \in A
    BY <2>1, AppendProperties
  <2> HIDE DEF A
  <2> QED
    BY <2>2
<1> DEFINE Step == [i \in Indices(n) |-> [a \in A |-> op(a, i)]]
           body(h) == [t \in SUBSET DOMAIN q |->
                           IF t = {} THEN base ELSE op(h[t \ {Max(t)}], Max(t))]
           h == CHOOSE h : h = body(h)
<1> HIDE DEF n, A, base, op, q
<1>4. PICK g : /\ LeftFolds(g, n, base, Step)
               /\ \A t \in SUBSET Indices(n) : g[t] \in A
  <2>1. \A i \in Indices(n) : \A a \in A : Step[i][a] \in A
    BY <1>3
  <2> HIDE DEF Step
  <2> QED
    BY <1>1, <1>2, <2>1, LeftFold
<1>5. \A t \in SUBSET Indices(n) : t # {} => Max(t) \in Indices(n)
  BY <1>1, LastIn
<1>6. h = body(h)
  <2>1. g = body(g)
    BY <1>1, <1>4, <1>5 DEF LeftFolds
  <2> HIDE DEF body
  <2> QED
    BY <2>1
<1>7. h[DOMAIN q] \in A
  <2> HIDE DEF h
  <2>1. LeftStays(h, n, A)
    BY <1>1, <1>3, <1>2, <1>5, <1>6 DEF LeftStays
  <2> QED
    BY <1>1, <2>1, LeftFoldIn
<1>8. kept = h[DOMAIN q]
  BY DEF kept, Selected, FoldLeft, MapThenFoldSet, q, base, op
<1>9. kept \in Seq(Elf_Dyn)
  BY <1>7, <1>8 DEF A
<1> HIDE DEF q, A, base, op, h
<1>10. Compact(e, keep) \in Object
  <2> DEFINE gone == Len(Entries(e)) - Len(kept)
             x == [e EXCEPT
                      !.contents = Overwrite(@, Section(e, ".dynamic").sh_offset,
                                       FlattenSeq([i \in DOMAIN kept |-> Struct(kept[i])])
                                           \o Zeros(gone * Word)),
                      !.changed = @ \/ gone > 0]
  <2>1. x \in Object
    <3> HIDE DEF kept
    <3> QED
      BY <1>9, CompactedTypes
  <2>2. Compact(e, keep) = x
    BY DEF Compact, kept
  <2> QED
    BY <2>1, <2>2
<1>11. removeNeeded(e, libs) = IF libs = {} THEN e
                              ELSE IF Find(e, {".dynamic", ".dynstr"}).err # ""
                                   THEN Fail(e, "error")
                                   ELSE Compact(e, keep)
  BY DEF removeNeeded
<1>12. Fail(e, "error") \in Object
  BY FailTypes
<1> QED
  BY <1>10, <1>11, <1>12

LEMMA RawTypes ==
    ASSUME NEW e, NEW n \in Nat
    PROVE  Raw(e, n) \in Nat
BY SwappedTypes DEF Raw

LEMMA ReplaceNeededTypes ==
    ASSUME NEW e \in Object, NEW D, NEW libs \in [D -> Seq(Character)]
    PROVE  replaceNeeded(e, libs) \in Object
<1> DEFINE entries == Entries(e)
           q == [i \in DOMAIN entries |-> i]
           n == Len(entries)
           A == [e: Object, added: Nat]
           base == [e |-> e, added |-> 0]
           step(acc, i) ==
               LET d == entries[i]
                   name == Str(e, d.d_val)
                   val == Raw(e, Raw(e, StrSize(e)) + acc.added)
               IN  IF d.d_tag # "DT_NEEDED" \/ name \notin DOMAIN libs THEN acc
                   ELSE [e |-> [SetEntry(AddString(acc.e, acc.added, libs[name]), i,
                                         Dyn("DT_NEEDED", val)) EXCEPT !.changed = TRUE],
                         added |-> acc.added + Len(libs[name]) + 1]
           op(a, i) == step(a, q[i])
<1>1. n \in Nat /\ DOMAIN q = Indices(n)
  BY EntriesTypes, LenProperties DEF Indices
<1>2. base \in A
  OBVIOUS
<1>3. \A i \in Indices(n) : \A a \in A : op(a, i) \in A
  <2> SUFFICES ASSUME NEW i \in Indices(n), NEW a \in A PROVE op(a, i) \in A
    OBVIOUS
  <2> DEFINE name == Str(e, entries[i].d_val)
             val == Raw(e, Raw(e, StrSize(e)) + a.added)
             d == Dyn("DT_NEEDED", val)
             x == AddString(a.e, a.added, libs[name])
             y == SetEntry(x, i, d)
             z == [y EXCEPT !.changed = TRUE]
             more == a.added + Len(libs[name]) + 1
             other == entries[i].d_tag # "DT_NEEDED" \/ name \notin DOMAIN libs
  <2>1. op(a, i) = IF other THEN a ELSE [e |-> z, added |-> more]
    <3>1. q[i] = i
      BY <1>1
    <3> HIDE DEF q, entries
    <3> QED
      BY <3>1 DEF op, step
  <2>2. a.e \in Object /\ a.added \in Nat
    OBVIOUS
  <2> HIDE DEF name, q, entries, op
  <2>3. CASE name \in DOMAIN libs
    <3>1. libs[name] \in Seq(Character)
      BY <2>3
    <3>2. Len(libs[name]) \in Nat
      BY <3>1, LenProperties
    <3>3. more \in Nat
      BY <2>2, <3>2
    <3>4. val \in Nat
      <4>1. StrSize(e) \in Nat
        BY StrTypes
      <4>2. Raw(e, StrSize(e)) \in Nat
        BY <4>1, RawTypes
      <4>3. Raw(e, StrSize(e)) + a.added \in Nat
        BY <2>2, <4>2
      <4> QED
        BY <4>3, RawTypes
    <3>5. d \in Elf_Dyn
      <4> HIDE DEF val
      <4> QED
        BY <3>4, TagTypes
    <3> HIDE DEF d
    <3>6. x \in Object
      BY <2>2, <3>1, AddStringTypes
    <3> HIDE DEF x
    <3>7. y \in Object
      <4>1. i \in Int
        BY DEF Indices
      <4> QED
        BY <3>5, <3>6, <4>1, SetEntryTypes
    <3> HIDE DEF y
    <3>8. z \in Object
      BY <3>7, ChangedTypes
    <3> HIDE DEF z, more
    <3>9. [e |-> z, added |-> more] \in A
      BY <3>3, <3>8
    <3> HIDE DEF A, other
    <3> QED
      BY <2>1, <3>9
  <2>4. CASE name \notin DOMAIN libs
    <3> HIDE DEF z, more, A
    <3> QED
      BY <2>1, <2>4
  <2> QED
    BY <2>3, <2>4
<1> DEFINE Step == [i \in Indices(n) |-> [a \in A |-> op(a, i)]]
           body(h) == [t \in SUBSET DOMAIN q |->
                           IF t = {} THEN base ELSE op(h[t \ {Max(t)}], Max(t))]
           h == CHOOSE h : h = body(h)
<1> HIDE DEF n, A, base, op, q
<1>4. PICK g : /\ LeftFolds(g, n, base, Step)
               /\ \A t \in SUBSET Indices(n) : g[t] \in A
  <2>1. \A i \in Indices(n) : \A a \in A : Step[i][a] \in A
    BY <1>3
  <2> HIDE DEF Step
  <2> QED
    BY <1>1, <1>2, <2>1, LeftFold
<1>5. \A t \in SUBSET Indices(n) : t # {} => Max(t) \in Indices(n)
  BY <1>1, LastIn
<1>6. h = body(h)
  <2>1. g = body(g)
    BY <1>1, <1>4, <1>5 DEF LeftFolds
  <2> HIDE DEF body
  <2> QED
    BY <2>1
<1>7. h[DOMAIN q] \in A
  <2> HIDE DEF h
  <2>1. LeftStays(h, n, A)
    BY <1>1, <1>3, <1>2, <1>5, <1>6 DEF LeftStays
  <2> QED
    BY <1>1, <2>1, LeftFoldIn
<1> DEFINE all == FoldLeftDomain(step, [e |-> e, added |-> 0], Entries(e))
<1>8. all = h[DOMAIN q]
  BY DEF FoldLeftDomain, FoldLeft, MapThenFoldSet, q, base, op
<1> HIDE DEF all
<1>9. all.e \in Object
  BY <1>7, <1>8 DEF A
<1>10. replaceNeeded(e, libs) = IF libs = <<>> THEN e
                                ELSE IF Find(e, {".dynamic", ".dynstr"}).err # ""
                                     THEN Fail(e, "error")
                                     ELSE all.e
  BY DEF replaceNeeded, all
<1>11. Fail(e, "error") \in Object
  BY FailTypes
<1> QED
  BY <1>9, <1>10, <1>11

\* The length of the first libraries in .dynstr.
LEMMA PosTypes ==
    ASSUME NEW libs \in Seq(Seq(Character))
    PROVE  FoldLeft(LAMBDA sum, s : sum + Len(s) + 1, 0, libs) \in Nat
<1> DEFINE q == libs
           n == Len(q)
           A == Nat
           base == 0
           op(a, i) == a + Len(q[i]) + 1
<1>1. n \in Nat /\ DOMAIN q = Indices(n)
  BY LenProperties DEF Indices
<1>2. base \in A
  OBVIOUS
<1>3. \A i \in Indices(n) : \A a \in A : op(a, i) \in A
  <2> SUFFICES ASSUME NEW i \in Indices(n), NEW a \in A PROVE op(a, i) \in A
    OBVIOUS
  <2>1. q[i] \in Seq(Character)
    BY <1>1
  <2>2. Len(q[i]) \in Nat
    BY <2>1, LenProperties
  <2> HIDE DEF q
  <2> QED
    BY <2>2
<1> DEFINE Step == [i \in Indices(n) |-> [a \in A |-> op(a, i)]]
           body(h) == [t \in SUBSET DOMAIN q |->
                           IF t = {} THEN base ELSE op(h[t \ {Max(t)}], Max(t))]
           h == CHOOSE h : h = body(h)
<1> HIDE DEF n, A, base, op, q
<1>4. PICK g : /\ LeftFolds(g, n, base, Step)
               /\ \A t \in SUBSET Indices(n) : g[t] \in A
  <2>1. \A i \in Indices(n) : \A a \in A : Step[i][a] \in A
    BY <1>3
  <2> HIDE DEF Step
  <2> QED
    BY <1>1, <1>2, <2>1, LeftFold
<1>5. \A t \in SUBSET Indices(n) : t # {} => Max(t) \in Indices(n)
  BY <1>1, LastIn
<1>6. h = body(h)
  <2>1. g = body(g)
    BY <1>1, <1>4, <1>5 DEF LeftFolds
  <2> HIDE DEF body
  <2> QED
    BY <2>1
<1>7. h[DOMAIN q] \in A
  <2> HIDE DEF h
  <2>1. LeftStays(h, n, A)
    BY <1>1, <1>3, <1>2, <1>5, <1>6 DEF LeftStays
  <2> QED
    BY <1>1, <2>1, LeftFoldIn
<1> DEFINE add(sum, s) == sum + Len(s) + 1
<1>8. FoldLeft(add, 0, libs) = h[DOMAIN q]
  BY DEF FoldLeft, MapThenFoldSet, q, base, op
<1> QED
  BY <1>7, <1>8 DEF A

LEMMA AddNeededTypes ==
    ASSUME NEW e \in Object, NEW libs \in Seq(Seq(Character))
    PROVE  addNeeded(e, libs) \in Object
<1> DEFINE pos(i) == FoldLeft(LAMBDA sum, s : sum + Len(s) + 1, 0, SubSeq(libs, 1, i - 1))
           length == pos(Len(libs) + 1)
           size == StrSize(e) + length + 1
           grown == replaceSection(e, ".dynstr", size)
           named == FoldLeftDomain(LAMBDA acc, i : setSubstr(acc, ".dynstr",
                                                             StrSize(e) + pos(i),
                                                             CString(libs[i])),
                                   grown, libs)
           new == [i \in DOMAIN libs |-> Dyn("DT_NEEDED", StrSize(e) + pos(i))]
           x == AddEntries(named, new)
<1>1. \A i \in 1 .. Len(libs) + 1 : pos(i) \in Nat
  <2> SUFFICES ASSUME NEW i \in 1 .. Len(libs) + 1 PROVE pos(i) \in Nat
    OBVIOUS
  <2> DEFINE s == SubSeq(libs, 1, i - 1)
  <2>1. s \in Seq(Seq(Character))
    <3>1. Len(libs) \in Nat
      BY LenProperties
    <3>2. i - 1 \in 0 .. Len(libs)
      BY <3>1
    <3> QED
      BY <3>2
  <2> HIDE DEF s
  <2>2. FoldLeft(LAMBDA sum, t : sum + Len(t) + 1, 0, s) \in Nat
    BY <2>1, PosTypes
  <2> QED
    BY <2>2 DEF s
<1> HIDE DEF pos
<1>2. StrSize(e) \in Nat /\ Len(libs) \in Nat /\ DOMAIN libs = 1 .. Len(libs)
  BY StrTypes, LenProperties
<1>3. size \in Nat
  BY <1>1, <1>2
<1> HIDE DEF size, length
<1>4. grown \in Object /\ ".dynstr" \in DOMAIN grown.rep
  <2>1. ".dynstr" \in SectionName
    BY NamesTypes
  <2>2. grown \in Object
    BY <1>3, <2>1, ReplaceSectionTypes
  <2>3. DOMAIN grown.rep = DOMAIN e.rep \cup {".dynstr"}
    BY <1>3, <2>1, ReplaceSectionTypes
  <2> QED
    BY <2>2, <2>3
<1> HIDE DEF grown
<1>7. new \in Seq(Elf_Dyn) /\ (libs # <<>> => new # <<>>)
  <2> DEFINE v(i) == StrSize(e) + pos(i)
  <2>1. \A i \in DOMAIN libs : v(i) \in Nat
    BY <1>1, <1>2
  <2>2. \A i \in DOMAIN libs : Dyn("DT_NEEDED", v(i)) \in Elf_Dyn
    <3> HIDE DEF v
    <3> QED
      BY <2>1, TagTypes
  <2>3. new = [i \in DOMAIN libs |-> Dyn("DT_NEEDED", v(i))]
    OBVIOUS
  <2> HIDE DEF v, new
  <2>4. new \in Seq(Elf_Dyn) /\ DOMAIN new = DOMAIN libs
    BY <1>2, <2>2, <2>3
  <2>5. libs # <<>> => new # <<>>
    BY <2>4, EmptySeq
  <2> QED
    BY <2>4, <2>5
<1> DEFINE q == [i \in DOMAIN libs |-> i]
           n == Len(libs)
           A == {y \in Object : ".dynstr" \in DOMAIN y.rep}
           base == grown
           op(a, i) == setSubstr(a, ".dynstr", StrSize(e) + pos(q[i]), CString(libs[q[i]]))
<1>11. n \in Nat /\ DOMAIN q = Indices(n)
  BY <1>2 DEF Indices
<1>12. base \in A
  BY <1>4
<1>13. \A i \in Indices(n) : \A a \in A : op(a, i) \in A
  <2> SUFFICES ASSUME NEW i \in Indices(n), NEW a \in A PROVE op(a, i) \in A
    OBVIOUS
  <2> DEFINE z == StrSize(e) + pos(i)
             t == CString(libs[i])
             y == setSubstr(a, ".dynstr", z, t)
  <2>1. q[i] = i /\ i \in 1 .. Len(libs)
    BY <1>2, <1>11
  <2>2. libs[i] \in Seq(Character) /\ z \in Int
    BY <1>1, <1>2, <2>1
  <2>3. t \in Seq(Cell)
    BY <2>2, CStringTypes
  <2>4. a \in Object /\ ".dynstr" \in DOMAIN a.rep
    OBVIOUS
  <2>5. op(a, i) = y
    BY <2>1
  <2> HIDE DEF z, t, q, op
  <2>6. y \in Object
    BY <2>2, <2>3, <2>4, SetSubstrTypes
  <2>7. DOMAIN y.rep = DOMAIN a.rep
    BY <2>2, <2>3, <2>4, SetSubstrTypes
  <2> HIDE DEF y
  <2>8. y \in A
    BY <2>4, <2>6, <2>7
  <2> QED
    BY <2>5, <2>8
<1> DEFINE Step == [i \in Indices(n) |-> [a \in A |-> op(a, i)]]
           body(h) == [t \in SUBSET DOMAIN q |->
                           IF t = {} THEN base ELSE op(h[t \ {Max(t)}], Max(t))]
           h == CHOOSE h : h = body(h)
<1> HIDE DEF n, A, base, op, q
<1>14. PICK g : /\ LeftFolds(g, n, base, Step)
               /\ \A t \in SUBSET Indices(n) : g[t] \in A
  <2>1. \A i \in Indices(n) : \A a \in A : Step[i][a] \in A
    BY <1>13
  <2> HIDE DEF Step
  <2> QED
    BY <1>11, <1>12, <2>1, LeftFold
<1>15. \A t \in SUBSET Indices(n) : t # {} => Max(t) \in Indices(n)
  BY <1>11, LastIn
<1>16. h = body(h)
  <2>1. g = body(g)
    BY <1>11, <1>14, <1>15 DEF LeftFolds
  <2> HIDE DEF body
  <2> QED
    BY <2>1
<1>17. h[DOMAIN q] \in A
  <2> HIDE DEF h
  <2>1. LeftStays(h, n, A)
    BY <1>11, <1>13, <1>12, <1>15, <1>16 DEF LeftStays
  <2> QED
    BY <1>11, <2>1, LeftFoldIn
<1>18. named = h[DOMAIN q]
  BY DEF FoldLeftDomain, FoldLeft, MapThenFoldSet, q, base, op
<1>8. named \in Object
  BY <1>17, <1>18 DEF A
<1> HIDE DEF q, A, base, op, h, n
<1> HIDE DEF named, new
<1>9. libs # <<>> => [x EXCEPT !.changed = TRUE] \in Object
  BY <1>7, <1>8, AddEntriesTypes, ChangedTypes
<1>19. addNeeded(e, libs) = IF libs = <<>> THEN e
                            ELSE IF Find(e, {".dynamic", ".dynstr"}).err # ""
                                 THEN Fail(e, "error")
                                 ELSE [x EXCEPT !.changed = TRUE]
  BY DEF addNeeded, new, named, grown, size, length, pos
<1>20. Fail(e, "error") \in Object
  BY FailTypes
<1> HIDE DEF x
<1> QED
  BY <1>9, <1>19, <1>20

LEMMA NoDefaultLibTypes ==
    ASSUME NEW e \in Object
    PROVE  noDefaultLib(e) \in Object
<1> DEFINE entries == Entries(e)
           found == {i \in DOMAIN entries : entries[i].d_tag = "DT_FLAGS_1"}
           i == Min(found)
           flag == Raw(e, NoDefLib)
           d == Dyn("DT_FLAGS_1", flag)
           c == [entries[i] EXCEPT !.d_val = entries[i].d_val + flag]
           x == AddEntries(e, <<d>>)
           y == SetEntry(e, i, c)
<1>1. flag \in Nat
  BY RawTypes DEF NoDefLib
<1>2. [x EXCEPT !.changed = TRUE] \in Object
  <2>1. d \in Elf_Dyn
    <3> HIDE DEF flag
    <3> QED
      BY <1>1, TagTypes
  <2>2. <<d>> \in Seq(Elf_Dyn) /\ <<d>> # <<>>
    BY <2>1
  <2> HIDE DEF d
  <2>3. x \in Object
    BY <2>2, AddEntriesTypes
  <2> HIDE DEF x
  <2> QED
    BY <2>3, ChangedTypes
<1>3. found # {} => [y EXCEPT !.changed = TRUE] \in Object
  <2> SUFFICES ASSUME found # {} PROVE [y EXCEPT !.changed = TRUE] \in Object
    OBVIOUS
  <2>1. found \subseteq Nat /\ found \subseteq DOMAIN entries
    BY EntriesTypes
  <2>2. i \in DOMAIN entries
    <3> HIDE DEF found
    <3> QED
      BY <2>1, LeastNat
  <2> HIDE DEF i
  <2>3. entries[i] \in Elf_Dyn /\ entries[i].d_val \in Nat /\ i \in Nat
    BY <2>2, EntryFields
  <2> HIDE DEF entries, flag
  <2>4. c \in Elf_Dyn
    <3>1. entries[i].d_val + flag \in Nat
      BY <1>1, <2>3
    <3> QED
      BY <2>3, <3>1, DynUpdates
  <2> HIDE DEF c
  <2>5. y \in Object
    BY <2>3, <2>4, SetEntryTypes
  <2> HIDE DEF y
  <2> QED
    BY <2>5, ChangedTypes
<1>4. noDefaultLib(e) = IF findSection3(e, ".dynamic") = 0 THEN Fail(e, "error")
                        ELSE IF found = {} THEN [x EXCEPT !.changed = TRUE]
                        ELSE IF HasBit(entries[i].d_val, flag) THEN e
                        ELSE [y EXCEPT !.changed = TRUE]
  BY DEF noDefaultLib
<1>5. Fail(e, "error") \in Object
  BY FailTypes
<1> HIDE DEF x, y, found, flag, entries
<1> QED
  BY <1>2, <1>3, <1>4, <1>5

-----------------------------------------------------------------------------
(* Runs.                                                                   *)

\* The object that parse makes of a file whose header is one.
LEMMA ParsedTypes ==
    ASSUME NEW file \in Seq(Cell), NEW page \in Nat \ {0}, NEW oldSize \in Nat,
           NEW isExec \in BOOLEAN,
           file[1] \in Elf_Ehdr, file[1].e_shnum # 0
    PROVE  [contents |-> file, hdr |-> file[1],
            phdrs |-> Phdrs(file, file[1]), shdrs |-> Shdrs(file, file[1]),
            rep |-> <<>>, changed |-> FALSE, isExec |-> isExec,
            old |-> [i \in 1 .. file[1].e_shnum - 1 |-> Shdrs(file, file[1])[i].sh_name],
            oldSize |-> oldSize, page |-> page, max |-> Len(file) + MaxGrowth,
            ties |-> "kept", err |-> ""] \in Object
<1> DEFINE h == file[1]
           P == Phdrs(file, h)
           S == Shdrs(file, h)
           old == [i \in 1 .. h.e_shnum - 1 |-> S[i].sh_name]
           max == Len(file) + MaxGrowth
           rep == <<>>
<1>1. /\ h.e_phoff \in Nat /\ h.e_phnum \in Nat /\ h.e_shoff \in Nat
      /\ h.e_shnum \in Nat \ {0}
  BY HeaderFields
<1>2. P \in Seq(Elf_Phdr) /\ Len(P) = h.e_phnum
  <2> DEFINE o(i) == h.e_phoff + (i - 1) * Word
             p(i) == StructAt(file, o(i), "phdr")
  <2>1. \A i \in 1 .. h.e_phnum : o(i) \in Int
    BY <1>1, ElfAssumption
  <2> HIDE DEF h, o
  <2>2. \A i \in 1 .. h.e_phnum : p(i) \in Elf_Phdr
    BY <2>1, StructAtTypes
  <2>3. P = [i \in 1 .. h.e_phnum |-> p(i)]
    BY DEF Phdrs, o
  <2> HIDE DEF p, P
  <2> QED
    BY <1>1, <2>2, <2>3
<1>3. S \in [0 .. h.e_shnum - 1 -> Elf_Shdr]
  <2> DEFINE o(i) == h.e_shoff + i * Word
             s(i) == StructAt(file, o(i), "shdr")
  <2>1. \A i \in 0 .. h.e_shnum - 1 : o(i) \in Int
    BY <1>1, ElfAssumption
  <2> HIDE DEF h, o
  <2>2. \A i \in 0 .. h.e_shnum - 1 : s(i) \in Elf_Shdr
    BY <2>1, StructAtTypes
  <2>3. S = [i \in 0 .. h.e_shnum - 1 |-> s(i)]
    BY DEF Shdrs, o
  <2> HIDE DEF s, S
  <2> QED
    BY <1>1, <2>2, <2>3
<1>4. h \in Elf_Ehdr
  OBVIOUS
<1> HIDE DEF h, P, S
<1>5. old \in Seq(SectionName)
  <2>1. \A i \in 1 .. h.e_shnum - 1 : S[i].sh_name \in SectionName
    <3> SUFFICES ASSUME NEW i \in 1 .. h.e_shnum - 1 PROVE S[i].sh_name \in SectionName
      OBVIOUS
    <3>1. S[i] \in Elf_Shdr
      BY <1>1, <1>3
    <3> QED
      BY <3>1 DEF Elf_Shdr
  <2>2. h.e_shnum - 1 \in Nat
    BY <1>1
  <2> QED
    BY <2>1, <2>2
<1>6. max \in Nat
  BY LenProperties, ElfFileAssumption
<1>7. rep \in Strings
  <2>1. rep \in [{} -> Seq(Cell)]
    OBVIOUS
  <2> QED
    BY <2>1 DEF Strings
<1>8. S \in Headers
  BY <1>1, <1>3 DEF Headers
<1> DEFINE e == [contents |-> file, hdr |-> h, phdrs |-> P, shdrs |-> S, rep |-> rep,
                 changed |-> FALSE, isExec |-> isExec, old |-> old, oldSize |-> oldSize,
                 page |-> page, max |-> max, ties |-> "kept", err |-> ""]
<1> HIDE DEF old, max, rep, Headers, Strings
<1>9. e \in Elf_Object
  BY <1>2, <1>4, <1>5, <1>6, <1>7, <1>8 DEF Elf_Object
<1>10. e.hdr = h /\ e.shdrs = S /\ e.phdrs = P
  OBVIOUS
<1> HIDE DEF e
<1>11. e \in Object
  BY <1>1, <1>2, <1>3, <1>9, <1>10 DEF Object
<1> QED
  BY <1>11 DEF e, h, P, S, old, max, rep

LEMMA ParseTypes ==
    ASSUME NEW file \in Seq(Cell), NEW page \in Nat \ {0}
    PROVE  /\ parse(file, page).err \in {"", "error", "abort", "undefined"}
           /\ parse(file, page).err = "" => parse(file, page) \in Object
<1> DEFINE h == file[1]
           exec == \E p \in ToSet(Phdrs(file, h)) : p.p_type = "PT_INTERP"
           size == IF h.ei_data # "ELFDATA2LSB" THEN Swapped(h.e_shnum) ELSE h.e_shnum
           e == [contents |-> file, hdr |-> h,
                 phdrs |-> Phdrs(file, h), shdrs |-> Shdrs(file, h),
                 rep |-> <<>>, changed |-> FALSE, isExec |-> exec,
                 old |-> [i \in 1 .. h.e_shnum - 1 |-> Shdrs(file, h)[i].sh_name],
                 oldSize |-> size, page |-> page, max |-> Len(file) + MaxGrowth,
                 ties |-> "kept", err |-> ""]
           short == Len(file) < Word \/ h.c # "ehdr"
           bad == \/ h.e_type \notin {"ET_EXEC", "ET_DYN"}
                  \/ h.e_phoff + h.e_phnum * Word > Len(file)
                  \/ h.e_shoff + h.e_shnum * Word > Len(file)
           failed == [NoElf EXCEPT !.err = "error"]
<1>1. parse(file, page) =
          IF short THEN failed
          ELSE IF bad THEN failed
          ELSE IF h.e_shstrndx >= h.e_shnum THEN Fail(e, "abort")
          ELSE IF e.oldSize < h.e_shnum THEN Fail(e, "undefined") ELSE e
  BY Zenon DEF parse
<1>2. failed.err = "error"
  BY DEF NoElf
<1>3. e.err = "" /\ Fail(e, "abort").err = "abort" /\ Fail(e, "undefined").err = "undefined"
  <2>1. e.err = "" /\ \A x : [e EXCEPT !.err = x].err = x
    OBVIOUS
  <2> HIDE DEF e
  <2> QED
    BY <2>1 DEF Fail
<1>4. ASSUME ~short, ~(h.e_shstrndx >= h.e_shnum) PROVE e \in Object
  <2>1. h \in Cell
    BY <1>4, LenProperties, ElfAssumption
  <2> HIDE DEF h
  <2>2. h \in Elf_Ehdr
    BY <1>4, <2>1, CellKind
  <2>3. h.e_shnum \in Nat /\ h.e_shnum # 0
    BY <1>4, <2>2, HeaderFields
  <2>4. size \in Nat
    BY <2>3, SwappedTypes
  <2>5. exec \in BOOLEAN
    OBVIOUS
  <2> HIDE DEF exec, size, e
  <2> QED
    BY <2>2, <2>3, <2>4, <2>5, ParsedTypes DEF h, e
<1> HIDE DEF e, failed, short, bad, h
<1> QED
  BY <1>1, <1>2, <1>3, <1>4

LEMMA InOrderTypes ==
    ASSUME NEW T, NEW libs \in SUBSET T, IsFiniteSet(libs)
    PROVE  InOrder(libs) \in Seq(T)
<1> DEFINE n == Cardinality(libs)
<1>1. n \in Nat /\ ExistsBijection(1 .. n, libs)
  BY FS_CardinalityType
<1>2. PICK f \in [1 .. n -> libs] : IsInjective(f)
  <2>1. PICK f : f \in Bijection(1 .. n, libs)
    BY <1>1 DEF ExistsBijection
  <2> QED
    BY <2>1 DEF Bijection, Injection, IsInjective
<1>3. InOrder(libs) \in [1 .. n -> libs]
  BY <1>2 DEF InOrder, SetToSeq
<1> QED
  BY <1>1, <1>3

\* The options of a run.
OptionSet ==
    [interp: Seq(Character), soname: Seq(Character) \cup {None}, path: DOMAIN Priority,
     rpath: Seq(Character), force: BOOLEAN, print: SUBSET {"interp", "soname", "rpath", "needed"},
     remove: SUBSET Seq(Character),
     replace: UNION {[D -> Seq(Character)] : D \in SUBSET Seq(Character)},
     add: {libs \in SUBSET Seq(Character) : IsFiniteSet(libs)},
     noDefaultLib: BOOLEAN, page: Nat \ {0}, given: Nat]

LEMMA NoOptionsTypes == NoOptions \in OptionSet /\ NoOptions.given = 0
<1>1. <<>> \in UNION {[D -> Seq(Character)] : D \in SUBSET Seq(Character)}
  <2>1. <<>> \in [{} -> Seq(Character)]
    OBVIOUS
  <2> QED
    BY <2>1
<1>2. {} \in {libs \in SUBSET Seq(Character) : IsFiniteSet(libs)}
  BY FS_EmptySet
<1>3. "none" \in DOMAIN Priority
  BY DEF Priority
<1>4. <<>> \in Seq(Character) /\ PageSize \in Nat \ {0}
  BY PatchElfAssumption
<1> QED
  BY <1>1, <1>2, <1>3, <1>4 DEF NoOptions, OptionSet

\* What may be put in the place of an option.
LEMMA OptionUpdates ==
    ASSUME NEW o \in OptionSet
    PROVE  /\ \A s \in Seq(Character) :
                  /\ [o EXCEPT !.interp = s] \in OptionSet
                  /\ [o EXCEPT !.soname = s] \in OptionSet
                  /\ [o EXCEPT !.rpath = s] \in OptionSet
                  /\ [o EXCEPT !.remove = @ \cup {s}] \in OptionSet
                  /\ [o EXCEPT !.add = @ \cup {s}] \in OptionSet
           /\ \A p \in DOMAIN Priority : [o EXCEPT !.path = p] \in OptionSet
           /\ \A x \in {"interp", "soname", "rpath", "needed"} :
                  [o EXCEPT !.print = @ \cup {x}] \in OptionSet
           /\ \A r \in UNION {[D -> Seq(Character)] : D \in SUBSET Seq(Character)} :
                  [o EXCEPT !.replace = r] \in OptionSet
           /\ \A n \in Nat \ {0} : [o EXCEPT !.page = n] \in OptionSet
           /\ \A n \in Nat : [o EXCEPT !.given = n] \in OptionSet
           /\ [o EXCEPT !.force = TRUE] \in OptionSet
           /\ [o EXCEPT !.noDefaultLib = TRUE] \in OptionSet
<1> DEFINE T == Seq(Character)
           R == UNION {[D -> T] : D \in SUBSET T}
           F == {libs \in SUBSET T : IsFiniteSet(libs)}
           P == DOMAIN Priority
           N == T \cup {None}
<1>1. OptionSet = [interp: T, soname: N, path: P, rpath: T, force: BOOLEAN,
                   print: SUBSET {"interp", "soname", "rpath", "needed"},
                   remove: SUBSET T, replace: R, add: F, noDefaultLib: BOOLEAN,
                   page: Nat \ {0}, given: Nat]
  BY DEF OptionSet
<1>2. \A libs \in F : \A s \in T : libs \cup {s} \in F
  BY FS_AddElement
<1>3. \A s \in T : s \in N
  OBVIOUS
<1> HIDE DEF T, R, F, P, N
<1>4. \A s \in T : /\ [o EXCEPT !.interp = s] \in OptionSet
                   /\ [o EXCEPT !.soname = s] \in OptionSet
                   /\ [o EXCEPT !.rpath = s] \in OptionSet
  BY <1>1, <1>3
<1>5. \A s \in T : [o EXCEPT !.remove = @ \cup {s}] \in OptionSet
  BY <1>1
<1>6. \A s \in T : [o EXCEPT !.add = @ \cup {s}] \in OptionSet
  <2> SUFFICES ASSUME NEW s \in T PROVE [o EXCEPT !.add = @ \cup {s}] \in OptionSet
    OBVIOUS
  <2>1. o.add \cup {s} \in F
    BY <1>1, <1>2
  <2> QED
    BY <1>1, <2>1
<1>7. \A p \in P : [o EXCEPT !.path = p] \in OptionSet
  BY <1>1
<1>8. \A x \in {"interp", "soname", "rpath", "needed"} :
          [o EXCEPT !.print = @ \cup {x}] \in OptionSet
  BY <1>1
<1>9. \A r \in R : [o EXCEPT !.replace = r] \in OptionSet
  BY <1>1
<1>10. /\ \A n \in Nat \ {0} : [o EXCEPT !.page = n] \in OptionSet
       /\ \A n \in Nat : [o EXCEPT !.given = n] \in OptionSet
       /\ [o EXCEPT !.force = TRUE] \in OptionSet
       /\ [o EXCEPT !.noDefaultLib = TRUE] \in OptionSet
  BY <1>1
<1> QED
  BY <1>4, <1>5, <1>6, <1>7, <1>8, <1>9, <1>10 DEF T, R, P

LEMMA OptionFields ==
    ASSUME NEW o \in OptionSet
    PROVE  /\ o.interp \in Seq(Character) /\ o.rpath \in Seq(Character)
           /\ o.soname # None => o.soname \in Seq(Character)
           /\ o.path \in DOMAIN Priority /\ o.given \in Nat /\ o.page \in Nat \ {0}
           /\ o.add \in SUBSET Seq(Character) /\ IsFiniteSet(o.add)
           /\ \E D \in SUBSET Seq(Character) : o.replace \in [D -> Seq(Character)]
<1>1. o.replace \in UNION {[D -> Seq(Character)] : D \in SUBSET Seq(Character)}
  BY DEF OptionSet
<1>2. \E D \in SUBSET Seq(Character) : o.replace \in [D -> Seq(Character)]
  BY <1>1
<1> QED
  BY <1>2 DEF OptionSet

LEMMA StrongerTypes ==
    ASSUME NEW p \in DOMAIN Priority, NEW q \in DOMAIN Priority
    PROVE  Stronger(p, q) \in DOMAIN Priority
BY DEF Stronger

LEMMA GivenTypes ==
    ASSUME opt \in OptionSet, NEW a \in [o: Options, v: Seq(Character), w: Seq(Character)]
    PROVE  Given(a) \in OptionSet /\ Given(a).given = opt.given + 1
<1> DEFINE o == [opt EXCEPT !.given = @ + 1]
           interp == [o EXCEPT !.interp = a.v]
           page == [o EXCEPT !.page = OtherPageSize]
           print == [o EXCEPT !.print = @ \cup {Prints[a.o]}]
           soname == [o EXCEPT !.soname = a.v]
           remove == [o EXCEPT !.path = Stronger("rpRemove", @)]
           shrink == [o EXCEPT !.path = Stronger("rpShrink", @)]
           set == [o EXCEPT !.path = Stronger("rpSet", @), !.rpath = a.v]
           force == [o EXCEPT !.force = TRUE]
           add == [o EXCEPT !.add = @ \cup {a.v}]
           rem == [o EXCEPT !.remove = @ \cup {a.v}]
           rep == [o EXCEPT !.replace = [n \in DOMAIN @ \cup {a.v} |-> IF n = a.v THEN a.w ELSE @[n]]]
           lib == [o EXCEPT !.noDefaultLib = TRUE]
<1>1. o \in OptionSet /\ o.given = opt.given + 1
  <2>1. opt.given + 1 \in Nat
    BY OptionFields
  <2>2. [opt EXCEPT !.given = opt.given + 1] \in OptionSet
    BY <2>1, OptionUpdates
  <2>3. o.given = opt.given + 1
    BY DEF OptionSet
  <2> QED
    BY <2>2, <2>3
<1>2. a.o \in Options /\ a.v \in Seq(Character) /\ a.w \in Seq(Character)
  OBVIOUS
<1> DEFINE R == UNION {[D -> Seq(Character)] : D \in SUBSET Seq(Character)}
           changed == [n \in DOMAIN o.replace \cup {a.v} |->
                           IF n = a.v THEN a.w ELSE o.replace[n]]
<1>3. changed \in R
  <2> HIDE DEF o
  <2>1. PICK D \in SUBSET Seq(Character) : o.replace \in [D -> Seq(Character)]
    BY <1>1, OptionFields
  <2>2. D \cup {a.v} \in SUBSET Seq(Character)
    BY <1>2
  <2>3. changed \in [D \cup {a.v} -> Seq(Character)]
    BY <1>2, <2>1
  <2> QED
    BY <2>2, <2>3
<1>4. Given(a) = CASE a.o = "set-interpreter" -> interp
                   [] a.o = "page-size" -> page
                   [] a.o \in DOMAIN Prints -> print
                   [] a.o = "set-soname" -> soname
                   [] a.o = "remove-rpath" -> remove
                   [] a.o = "shrink-rpath" -> shrink
                   [] a.o = "set-rpath" -> set
                   [] a.o = "force-rpath" -> force
                   [] a.o = "add-needed" -> add
                   [] a.o = "remove-needed" -> rem
                   [] a.o = "replace-needed" -> rep
                   [] a.o = "no-default-lib" -> lib
  BY Zenon DEF Given
<1> HIDE DEF changed, R, o
<1>5. /\ interp.given = o.given /\ page.given = o.given /\ print.given = o.given
      /\ soname.given = o.given /\ remove.given = o.given /\ shrink.given = o.given
      /\ set.given = o.given /\ force.given = o.given /\ add.given = o.given
      /\ rem.given = o.given /\ rep.given = o.given /\ lib.given = o.given
  BY <1>1 DEF OptionSet
<1>6. interp \in OptionSet /\ soname \in OptionSet /\ rem \in OptionSet /\ add \in OptionSet
  BY <1>1, <1>2, OptionUpdates
<1>7. page \in OptionSet /\ force \in OptionSet /\ lib \in OptionSet
  BY <1>1, OptionUpdates, PatchElfAssumption
<1>8. remove \in OptionSet /\ shrink \in OptionSet /\ set \in OptionSet
  <2>1. \A p \in {"rpRemove", "rpShrink", "rpSet"} : Stronger(p, o.path) \in DOMAIN Priority
    BY <1>1, OptionFields, StrongerTypes DEF Priority
  <2>2. \A p \in {"rpRemove", "rpShrink", "rpSet"} :
            [o EXCEPT !.path = Stronger(p, o.path)] \in OptionSet
    BY <1>1, <2>1, OptionUpdates
  <2> DEFINE y == [o EXCEPT !.path = Stronger("rpSet", o.path)]
  <2>3. set = [y EXCEPT !.rpath = a.v]
    BY <1>1 DEF OptionSet
  <2>4. y \in OptionSet
    BY <2>2
  <2> HIDE DEF y
  <2>5. set \in OptionSet
    BY <1>2, <2>3, <2>4, OptionUpdates
  <2> QED
    BY <2>2, <2>5
<1>9. a.o \in DOMAIN Prints => print \in OptionSet
  <2>1. a.o \in PrintOptions => Prints[a.o] \in {"interp", "soname", "rpath", "needed"}
    BY DEF Prints, PrintOptions
  <2>2. DOMAIN Prints = PrintOptions
    BY DEF Prints
  <2> QED
    BY <1>1, <2>1, <2>2, OptionUpdates
<1>10. rep \in OptionSet
  <2>1. rep = [o EXCEPT !.replace = changed]
    BY DEF changed
  <2> QED
    BY <1>1, <1>3, <2>1, OptionUpdates DEF R
<1>11. DOMAIN Prints = {"print-interpreter", "print-soname", "print-rpath", "print-needed"}
  BY DEF Prints, PrintOptions
<1> HIDE DEF interp, page, print, soname, remove, shrink, set, force, add, rem, rep, lib
<1> QED
  BY <1>1, <1>2, <1>4, <1>5, <1>6, <1>7, <1>8, <1>9, <1>10, <1>11 DEF Options, PrintOptions

\* A run goes from one part of patchElf2 to another that is asked for.
LEMMA StepNames ==
    ToSet(Steps) = {"printInterpreter", "printSoname", "setSoname", "setInterpreter",
                    "printRPath", "modifyRPath", "printNeeded", "removeNeeded",
                    "replaceNeeded", "addNeeded", "noDefaultLib"}
BY DEF ToSet, Steps

LEMMA FromTypes ==
    ASSUME NEW k \in Nat \ {0}
    PROVE  /\ From(k) \in ToSet(Steps) \cup {"rewrite"}
           /\ From(k) = "setSoname" => opt.soname # None
<1> DEFINE asked == {j \in k .. Len(Steps) : AskedFor(Steps[j])}
           i == Min(asked)
<1>1. From(k) = IF asked = {} THEN "rewrite" ELSE Steps[i]
  BY DEF From
<1>2. Len(Steps) = 11 /\ DOMAIN Steps = 1 .. 11
  BY DEF Steps
<1>3. ASSUME asked # {} PROVE i \in DOMAIN Steps /\ AskedFor(Steps[i])
  <2>1. asked \subseteq Nat
    BY <1>2
  <2>2. i \in asked
    <3> HIDE DEF asked
    <3> QED
      BY <1>3, <2>1, LeastNat
  <2> QED
    BY <1>2, <2>2
<1>4. ASSUME asked # {} PROVE Steps[i] \in ToSet(Steps)
  <2> HIDE DEF i
  <2> QED
    BY <1>3, <1>4 DEF ToSet
<1>5. AskedFor("setSoname") => opt.soname # None
  BY DEF AskedFor
<1> HIDE DEF asked, i
<1> QED
  BY <1>1, <1>3, <1>4, <1>5

LEMMA AfterTypes ==
    ASSUME NEW step \in ToSet(Steps)
    PROVE  /\ After(step) \in ToSet(Steps) \cup {"rewrite"}
           /\ After(step) = "setSoname" => opt.soname # None
<1> DEFINE k == CHOOSE k \in DOMAIN Steps : Steps[k] = step
<1>1. k \in DOMAIN Steps
  BY DEF ToSet
<1>2. DOMAIN Steps = 1 .. 11
  BY DEF Steps
<1> HIDE DEF k
<1>3. 1 + k \in Nat \ {0}
  BY <1>1, <1>2
<1> QED
  BY <1>3, FromTypes DEF After, k

\* While a run works on the file it has an object.
Working == ToSet(Steps) \cup {"rewrite", "write"}

\* The inductive invariant: beside the types, the file consists of cells,
\* main has no object, and a soname is only set if there is one to set.
Inv ==
    /\ TypeOK
    /\ case \in DOMAIN Cases
    /\ disk \in Seq(Cell)
    /\ opt \in OptionSet
    /\ pc = "main" => elf = NoElf
    /\ pc \in Working => elf \in Object
    /\ pc = "setSoname" => opt.soname # None

\* What the type invariant says of an object.
LEMMA WorkingObject ==
    ASSUME NEW e \in Object
    PROVE  /\ e.hdr \in Elf_Ehdr
           /\ \A i \in DOMAIN e.shdrs : e.shdrs[i] \in Elf_Shdr
           /\ \A i \in DOMAIN e.phdrs : e.phdrs[i] \in Elf_Phdr
           /\ e.hdr.e_shnum = Cardinality(DOMAIN e.shdrs)
           /\ e.hdr.e_phnum = Len(e.phdrs)
           /\ e.err \in {"", "error", "abort", "undefined"}
<1> DEFINE n == e.hdr.e_shnum
           S == e.shdrs
           P == e.phdrs
<1>1. n \in Nat \ {0} /\ S \in [0 .. n - 1 -> Elf_Shdr] /\ P \in Seq(Elf_Phdr)
  BY ObjectFields
<1>2. /\ e.hdr \in Elf_Ehdr /\ e.hdr.e_phnum = Len(e.phdrs)
      /\ e.err \in {"", "error", "abort", "undefined"}
  BY ObjectFields
<1> HIDE DEF n, S, P
<1>3. Cardinality(0 .. n - 1) = n
  <2>1. 0 \in Int /\ n - 1 \in Int /\ ~(0 > n - 1) /\ n - 1 - 0 + 1 = n
    BY <1>1
  <2> QED
    BY <2>1, FS_Interval
<1>4. DOMAIN S = 0 .. n - 1 /\ \A i \in DOMAIN S : S[i] \in Elf_Shdr
  BY <1>1
<1>5. \A i \in DOMAIN P : P[i] \in Elf_Phdr
  BY <1>1
<1> QED
  BY <1>2, <1>3, <1>4, <1>5 DEF n, S, P

\* The values of pc that are not parts of patchElf2.
LEMMA Phases ==
    /\ "main" \notin Working /\ "failed" \notin Working /\ "done" \notin Working
    /\ "torn" \notin Working
    /\ "rewrite" \in Working /\ "write" \in Working
    /\ "rewrite" \notin ToSet(Steps) /\ "write" \notin ToSet(Steps)
BY StepNames DEF Working

LEMMA InitInv == Init => Inv
<1> SUFFICES ASSUME Init PROVE Inv
  OBVIOUS
<1>1. case \in DOMAIN Cases /\ disk \in Seq(Cell)
  BY PatchElfAssumption DEF Init
<1>2. opt \in OptionSet /\ opt.given = 0
  BY NoOptionsTypes DEF Init
<1>3. pc = "main" /\ elf = NoElf /\ runs = 1
  BY DEF Init
<1>4. opt.path \in DOMAIN Priority
  BY <1>2, OptionFields
<1>5. Cases[case].most \in Nat /\ MaxRuns \in Nat \ {0}
  BY <1>1, PatchElfAssumption
<1>6. elf.err = ""
  BY <1>3 DEF NoElf
<1>7. runs \in 1 .. MaxRuns /\ opt.given \in 0 .. Cases[case].most
  BY <1>2, <1>3, <1>5
<1>8. TypeOK
  BY <1>3, <1>4, <1>6, <1>7, Phases DEF TypeOK, Working
<1> QED
  BY <1>1, <1>2, <1>3, <1>8, Phases DEF Inv

\* A step after which a run goes on with an object, or has failed.
LEMMA GoesOn ==
    ASSUME Inv, elf'.err \in {"", "error", "abort", "undefined"},
           elf'.err = "" => elf' \in Object,
           pc' \in Working \cup {"failed"},
           pc' = "failed" <=> elf'.err # "",
           pc' = "setSoname" => opt.soname # None,
           case' = case, disk' = disk, opt' = opt, runs' = runs
    PROVE  Inv'
<1>1. /\ runs' \in 1 .. MaxRuns /\ opt'.given \in 0 .. Cases[case'].most
      /\ opt'.path \in DOMAIN Priority
  BY DEF Inv, TypeOK
<1>2. pc' \in Working => elf' \in Object
  BY Phases
<1>3. pc' # "main"
  BY Phases
<1>4. pc' \in Working => /\ elf'.hdr \in Elf_Ehdr
                         /\ \A i \in DOMAIN elf'.shdrs : elf'.shdrs[i] \in Elf_Shdr
                         /\ \A i \in DOMAIN elf'.phdrs : elf'.phdrs[i] \in Elf_Phdr
                         /\ elf'.hdr.e_shnum = Cardinality(DOMAIN elf'.shdrs)
                         /\ elf'.hdr.e_phnum = Len(elf'.phdrs)
  BY <1>2, WorkingObject
<1>5. TypeOK'
  BY <1>1, <1>3, <1>4 DEF TypeOK, Working
<1>6. pc' = "setSoname" => opt'.soname # None
  OBVIOUS
<1> QED
  BY <1>2, <1>3, <1>5, <1>6 DEF Inv

\* A part of patchElf2 that leaves an object.
LEMMA DoInv ==
    ASSUME Inv, NEW step \in ToSet(Steps), NEW e \in Object, Do(step, e)
    PROVE  Inv'
<1>1. After(step) \in Working /\ (After(step) = "setSoname" => opt.soname # None)
  BY AfterTypes DEF Working
<1>2. elf' = e /\ e.err \in {"", "error", "abort", "undefined"}
  BY ObjectFields DEF Do
<1>3. pc' = (IF e.err # "" THEN "failed" ELSE After(step))
  BY DEF Do
<1>4. case' = case /\ disk' = disk /\ opt' = opt /\ runs' = runs
  BY DEF Do
<1> QED
  BY <1>1, <1>2, <1>3, <1>4, GoesOn, Phases

LEMMA PrintedInv ==
    ASSUME Inv, NEW step \in ToSet(Steps), NEW what, NEW e \in Object, NEW lines,
           Printed(step, what, e, lines)
    PROVE  Inv'
<1>1. After(step) \in Working /\ (After(step) = "setSoname" => opt.soname # None)
  BY AfterTypes DEF Working
<1>2. elf' = e /\ e.err \in {"", "error", "abort", "undefined"}
  BY ObjectFields DEF Printed
<1>3. pc' = (IF e.err # "" THEN "failed" ELSE After(step))
  BY DEF Printed
<1>4. case' = case /\ disk' = disk /\ opt' = opt /\ runs' = runs
  BY DEF Printed
<1> QED
  BY <1>1, <1>2, <1>3, <1>4, GoesOn, Phases

LEMMA ArgumentInv == Inv /\ Argument => Inv'
<1> SUFFICES ASSUME Inv, Argument PROVE Inv'
  OBVIOUS
<1>1. PICK a \in Cases[case].args : opt' = Given(a)
  BY DEF Argument
<1>2. a \in [o: Options, v: Seq(Character), w: Seq(Character)] /\ Cases[case].most \in Nat
  BY PatchElfAssumption DEF Inv
<1>3. opt' \in OptionSet /\ opt'.given = opt.given + 1
  BY <1>1, <1>2, GivenTypes DEF Inv
<1>4. opt'.path \in DOMAIN Priority
  BY <1>3 DEF OptionSet
<1>5. opt'.given \in 0 .. Cases[case].most
  <2>1. opt.given < Cases[case].most /\ opt.given \in 0 .. Cases[case].most
    BY DEF Argument, Inv, TypeOK
  <2>2. opt'.given = opt.given + 1
    BY <1>3
  <2> QED
    BY <1>2, <2>1, <2>2
<1>6. pc' = "main" /\ pc = "main" /\ UNCHANGED <<case, disk, elf, runs>>
  BY DEF Argument
<1>7. TypeOK'
  BY <1>4, <1>5, <1>6, Phases DEF Inv, TypeOK, Working
<1> QED
  BY <1>3, <1>6, <1>7, Phases DEF Inv

LEMMA BadUsageInv == Inv /\ BadUsage => Inv'
<1> SUFFICES ASSUME Inv, BadUsage PROVE Inv'
  OBVIOUS
<1>1. pc = "main" /\ pc' = "failed" /\ UNCHANGED <<case, disk, opt, elf, runs>>
  BY DEF BadUsage
<1>2. elf = NoElf
  BY <1>1 DEF Inv
<1>3. TypeOK'
  BY <1>1, <1>2, Phases DEF Inv, TypeOK, Working
<1> QED
  BY <1>1, <1>3, Phases DEF Inv

LEMMA ReadFileInv == Inv /\ ReadFile => Inv'
<1> SUFFICES ASSUME Inv, ReadFile PROVE Inv'
  OBVIOUS
<1> DEFINE e == parse(disk, opt.page)
<1>1. disk \in Seq(Cell) /\ opt.page \in Nat \ {0}
  BY OptionFields DEF Inv
<1>2. e.err \in {"", "error", "abort", "undefined"} /\ (e.err = "" => e \in Object)
  BY <1>1, ParseTypes
<1>3. elf' = e /\ pc' = (IF e.err # "" THEN "failed" ELSE From(1))
      /\ case' = case /\ disk' = disk /\ opt' = opt /\ runs' = runs
  BY DEF ReadFile
<1>4. From(1) \in Working /\ (From(1) = "setSoname" => opt.soname # None)
  BY FromTypes DEF Working
<1> HIDE DEF e
<1> QED
  BY <1>2, <1>3, <1>4, GoesOn, Phases

LEMMA RewriteInv == Inv /\ Rewrite => Inv'
<1> SUFFICES ASSUME Inv, Rewrite PROVE Inv'
  OBVIOUS
<1>1. PICK ties \in {"kept", "swapped"} :
          elf' = IF elf.changed THEN rewriteSections([elf EXCEPT !.ties = ties]) ELSE elf
  BY DEF Rewrite
<1> DEFINE e == IF elf.changed THEN rewriteSections([elf EXCEPT !.ties = ties]) ELSE elf
<1>2. elf \in Object
  BY Phases DEF Inv, Rewrite
<1>3. e \in Object
  BY <1>2, ObjectUpdates, RewriteSectionsTypes
<1> HIDE DEF e
<1>4. elf' = e
  BY <1>1 DEF e
<1>5. e.err \in {"", "error", "abort", "undefined"}
  BY <1>3, ObjectFields
<1>6. CASE elf.changed
  <2>1. pc' = IF e.err # "" THEN "failed" ELSE "write"
    BY <1>4, <1>6 DEF Rewrite
  <2>2. case' = case /\ disk' = disk /\ opt' = opt /\ runs' = runs
    BY DEF Rewrite
  <2>3. "write" # "setSoname"
    OBVIOUS
  <2> QED
    BY <1>3, <1>4, <1>5, <2>1, <2>2, <2>3, GoesOn, Phases
<1>7. CASE ~elf.changed
  <2>1. pc' = IF e.err # "" THEN "failed" ELSE "done"
    BY <1>4, <1>7 DEF Rewrite
  <2>2. UNCHANGED <<case, disk, opt, runs>>
    BY DEF Rewrite
  <2>3. pc' \in {"failed", "done"} /\ pc' \notin Working /\ (pc' = "failed" => elf'.err # "")
    BY <1>4, <2>1, Phases
  <2>4. TypeOK'
    BY <1>4, <1>5, <2>2, <2>3 DEF Inv, TypeOK, Working
  <2> QED
    BY <2>2, <2>3, <2>4 DEF Inv
<1> QED
  BY <1>6, <1>7

LEMMA WriteFileInv == Inv /\ WriteFile => Inv'
<1> SUFFICES ASSUME Inv, WriteFile PROVE Inv'
  OBVIOUS
<1>1. pc = "write" /\ pc' = "done" /\ disk' = Image(elf) /\ UNCHANGED <<case, opt, elf, runs>>
  BY DEF WriteFile
<1>2. elf \in Object
  BY <1>1, Phases DEF Inv
<1>3. disk' \in Seq(Cell)
  BY <1>1, <1>2, ImageTypes
<1>4. TypeOK'
  BY <1>1, Phases DEF Inv, TypeOK, Working
<1> QED
  BY <1>1, <1>3, <1>4, Phases DEF Inv

LEMMA WriteFileFailsInv == Inv /\ WriteFileFails => Inv'
<1> SUFFICES ASSUME Inv, WriteFileFails PROVE Inv'
  OBVIOUS
<1>1. pc = "write" /\ pc' = "torn" /\ UNCHANGED <<case, opt, elf, runs>>
  BY DEF WriteFileFails
<1>2. elf \in Object
  BY <1>1, Phases DEF Inv
<1> DEFINE file == Image(elf)
<1>3. PICK n \in {0, Len(disk)} : disk' = SubSeq(file, 1, n)
  BY DEF WriteFileFails
<1>4. file \in Seq(Cell) /\ Len(file) = Len(elf.contents)
  BY <1>2, ImageTypes
<1> HIDE DEF file
<1>5. n \in Nat
  BY LenProperties DEF Inv
<1>6. Len(disk') = n
  BY <1>3, <1>4, <1>5
<1>7. n < Len(file)
  BY <1>4, <1>6 DEF WriteFileFails
<1>8. disk' \in Seq(Cell)
  BY <1>3, <1>4, <1>5, <1>7
<1>9. TypeOK'
  BY <1>1, Phases DEF Inv, TypeOK, Working
<1> QED
  BY <1>1, <1>8, <1>9, Phases DEF Inv

LEMMA RunAgainInv == Inv /\ RunAgain => Inv'
<1> SUFFICES ASSUME Inv, RunAgain PROVE Inv'
  OBVIOUS
<1>1. /\ runs < MaxRuns /\ runs' = runs + 1 /\ pc' = "main" /\ opt' = NoOptions
      /\ elf' = NoElf /\ UNCHANGED <<case, disk>>
  BY DEF RunAgain
<1>2. opt' \in OptionSet /\ opt'.given = 0
  BY <1>1, NoOptionsTypes
<1>3. opt'.path \in DOMAIN Priority
  BY <1>2 DEF OptionSet
<1>4. Cases[case].most \in Nat /\ MaxRuns \in Nat
  BY PatchElfAssumption DEF Inv
<1>5. runs' \in 1 .. MaxRuns /\ opt'.given \in 0 .. Cases[case'].most
  <2>1. runs \in 1 .. MaxRuns
    BY DEF Inv, TypeOK
  <2>2. runs' = runs + 1 /\ runs < MaxRuns /\ case' = case /\ opt'.given = 0
    BY <1>1, <1>2
  <2> QED
    BY <1>4, <2>1, <2>2
<1>6. elf'.err = ""
  BY <1>1 DEF NoElf
<1>7. TypeOK'
  BY <1>1, <1>3, <1>5, <1>6, Phases DEF TypeOK, Working
<1> QED
  BY <1>1, <1>2, <1>7, Phases DEF Inv

\* The parts of patchElf2.
LEMMA PartsInv ==
    ASSUME Inv, \/ PrintInterpreter \/ PrintSoname \/ SetSoname \/ SetInterpreter
                \/ PrintRPath \/ ModifyRPath \/ PrintNeeded
                \/ RemoveNeeded \/ ReplaceNeeded \/ AddNeeded \/ NoDefaultLib
    PROVE  Inv'
<1>1. \A step \in ToSet(Steps) : pc = step => elf \in Object
  BY DEF Inv, Working
<1>2. opt \in OptionSet
  BY DEF Inv
<1>3. CASE PrintInterpreter
  <2>1. elf \in Object /\ "printInterpreter" \in ToSet(Steps)
    BY <1>1, <1>3, StepNames DEF PrintInterpreter, Printed
  <2>2. Find(elf, {".interp"}) \in Object
    BY <2>1, FindTypes
  <2> QED
    BY <1>3, <2>1, <2>2, PrintedInv DEF PrintInterpreter
<1>4. CASE PrintSoname
  <2>1. elf \in Object /\ "printSoname" \in ToSet(Steps)
    BY <1>1, <1>4, StepNames DEF PrintSoname, Printed
  <2> DEFINE e == IF elf.hdr.e_type = "ET_DYN" THEN CheckStrTab(elf) ELSE elf
  <2>2. e \in Object
    BY <2>1, CheckStrTabTypes
  <2> QED
    BY <1>4, <2>1, <2>2, PrintedInv DEF PrintSoname
<1>5. CASE SetSoname
  <2>1. elf \in Object /\ "setSoname" \in ToSet(Steps) /\ pc = "setSoname"
    BY <1>1, <1>5, StepNames DEF SetSoname, Do
  <2>2. opt.soname \in Seq(Character)
    BY <1>2, <2>1, OptionFields DEF Inv
  <2>3. modifySoname(elf, opt.soname) \in Object
    BY <2>1, <2>2, ModifySonameTypes
  <2> QED
    BY <1>5, <2>1, <2>3, DoInv DEF SetSoname
<1>6. CASE SetInterpreter
  <2>1. elf \in Object /\ "setInterpreter" \in ToSet(Steps)
    BY <1>1, <1>6, StepNames DEF SetInterpreter, Do
  <2>2. setInterpreter(elf, opt.interp) \in Object
    BY <1>2, <2>1, OptionFields, SetInterpreterTypes
  <2> QED
    BY <1>6, <2>1, <2>2, DoInv DEF SetInterpreter
<1>7. CASE PrintRPath
  <2>1. elf \in Object /\ "printRPath" \in ToSet(Steps)
    BY <1>1, <1>7, StepNames DEF PrintRPath, Printed
  <2>2. CheckStrTab(elf) \in Object
    BY <2>1, CheckStrTabTypes
  <2> QED
    BY <1>7, <2>1, <2>2, PrintedInv DEF PrintRPath
<1>8. CASE ModifyRPath
  <2>1. elf \in Object /\ "modifyRPath" \in ToSet(Steps)
    BY <1>1, <1>8, StepNames DEF ModifyRPath, Do
  <2>2. modifyRPath(elf, opt.path, opt.rpath, opt.force) \in Object
    BY <1>2, <2>1, OptionFields, ModifyRPathTypes
  <2> QED
    BY <1>8, <2>1, <2>2, DoInv DEF ModifyRPath
<1>9. CASE PrintNeeded
  <2>1. elf \in Object /\ "printNeeded" \in ToSet(Steps)
    BY <1>1, <1>9, StepNames DEF PrintNeeded, Printed
  <2>2. Find(elf, {".dynamic", ".dynstr"}) \in Object
    BY <2>1, FindTypes
  <2> QED
    BY <1>9, <2>1, <2>2, PrintedInv DEF PrintNeeded
<1>10. CASE RemoveNeeded
  <2>1. elf \in Object /\ "removeNeeded" \in ToSet(Steps)
    BY <1>1, <1>10, StepNames DEF RemoveNeeded, Do
  <2>2. removeNeeded(elf, opt.remove) \in Object
    BY <2>1, RemoveNeededTypes
  <2> QED
    BY <1>10, <2>1, <2>2, DoInv DEF RemoveNeeded
<1>11. CASE ReplaceNeeded
  <2>1. elf \in Object /\ "replaceNeeded" \in ToSet(Steps)
    BY <1>1, <1>11, StepNames DEF ReplaceNeeded, Do
  <2>2. PICK D \in SUBSET Seq(Character) : opt.replace \in [D -> Seq(Character)]
    BY <1>2, OptionFields
  <2>3. replaceNeeded(elf, opt.replace) \in Object
    BY <2>1, <2>2, ReplaceNeededTypes
  <2> QED
    BY <1>11, <2>1, <2>3, DoInv DEF ReplaceNeeded
<1>12. CASE AddNeeded
  <2>1. elf \in Object /\ "addNeeded" \in ToSet(Steps)
    BY <1>1, <1>12, StepNames DEF AddNeeded, Do
  <2>2. InOrder(opt.add) \in Seq(Seq(Character))
    BY <1>2, OptionFields, InOrderTypes
  <2>3. addNeeded(elf, InOrder(opt.add)) \in Object
    BY <2>1, <2>2, AddNeededTypes
  <2> QED
    BY <1>12, <2>1, <2>3, DoInv DEF AddNeeded
<1>13. CASE NoDefaultLib
  <2>1. elf \in Object /\ "noDefaultLib" \in ToSet(Steps)
    BY <1>1, <1>13, StepNames DEF NoDefaultLib, Do
  <2>2. noDefaultLib(elf) \in Object
    BY <2>1, NoDefaultLibTypes
  <2> QED
    BY <1>13, <2>1, <2>2, DoInv DEF NoDefaultLib
<1> QED
  BY <1>3, <1>4, <1>5, <1>6, <1>7, <1>8, <1>9, <1>10, <1>11, <1>12, <1>13

LEMMA StutterInv == Inv /\ UNCHANGED vars => Inv'
<1> SUFFICES ASSUME Inv, UNCHANGED vars PROVE Inv'
  OBVIOUS
<1>1. UNCHANGED <<case, disk, pc, opt, elf, runs>>
  BY DEF vars
<1>2. TypeOK'
  BY <1>1 DEF Inv, TypeOK
<1> QED
  BY <1>1, <1>2 DEF Inv

LEMMA InvKept == Inv /\ [Next]_vars => Inv'
BY ArgumentInv, BadUsageInv, ReadFileInv, PartsInv, RewriteInv, WriteFileInv,
   WriteFileFailsInv, RunAgainInv, StutterInv DEF Next

\* Whatever the file that patchelf is given, however corrupt, and whatever
\* the options: in every state in which a run works on the file, the headers
\* that it has are headers, with no offset, address, size or index below
\* zero, as many as the file header says (parse, rewriteSections, AddPhdr,
\* sortShdrs and the modify methods), and after a failure the run knows why.
THEOREM PatchElfTypeCorrect == Spec => []TypeOK
<1>1. Init => Inv
  BY InitInv
<1>2. Inv /\ [Next]_vars => Inv'
  BY InvKept
<1>3. Inv => TypeOK
  BY DEF Inv
<1> QED
  BY <1>1, <1>2, <1>3, PTL DEF Spec

=============================================================================
