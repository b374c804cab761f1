------------------------ MODULE PatchElfLayout_proofs ------------------------
(***************************************************************************)
(* Proofs about laying the file out again: the space that is counted for   *)
(* the replaced sections is the space that they take, and no assertion of  *)
(* patchelf fails.                                                         *)
(***************************************************************************)
EXTENDS PatchElfEdits_proofs

-----------------------------------------------------------------------------
(* Laying the file out again ends no run but with an error().              *)

\* The numbers that sections had in the file have names.
OldNames(e) == \A i \in 1 .. e.oldSize - 1 : i \in DOMAIN e.old /\ e.old[i] # ""

\* An object with which no assertion has failed, and in which every old number
\* of a section has its name.
Sane(e) ==
    /\ e \in Object
    /\ e.err \in {"", "error"}
    /\ OldNames(e)

\* The two objects tell alike how the run ended and what the sections were.
Alike(e, x) == x.err = e.err /\ x.old = e.old /\ x.oldSize = e.oldSize

LEMMA SaneBy ==
    ASSUME NEW e, NEW x \in Object, Sane(e), Alike(e, x)
    PROVE  Sane(x)
BY DEF Sane, OldNames, Alike

LEMMA AlikeTrans ==
    ASSUME NEW e, NEW x, NEW y, Alike(e, x), Alike(x, y)
    PROVE  Alike(e, y)
BY DEF Alike

\* What an update of a field leaves alone.
LEMMA AlikeUpdates ==
    ASSUME NEW e \in Object, NEW v
    PROVE  /\ Alike(e, [e EXCEPT !.contents = v]) /\ Alike(e, [e EXCEPT !.shdrs = v])
           /\ Alike(e, [e EXCEPT !.phdrs = v]) /\ Alike(e, [e EXCEPT !.hdr = v])
           /\ Alike(e, [e EXCEPT !.rep = v]) /\ Alike(e, [e EXCEPT !.ties = v])
BY DEF Object, Elf_Object, Alike

LEMMA SaneUpdates ==
    ASSUME NEW e, Sane(e)
    PROVE  /\ \A f \in Seq(Cell) : Sane([e EXCEPT !.contents = f])
           /\ \A p \in Seq(Elf_Phdr) :
                  Len(p) = Len(e.phdrs) => Sane([e EXCEPT !.phdrs = p])
           /\ \A s \in [0 .. e.hdr.e_shnum - 1 -> Elf_Shdr] : Sane([e EXCEPT !.shdrs = s])
           /\ \A r \in Strings : Sane([e EXCEPT !.rep = r])
           /\ \A t \in {"kept", "swapped"} : Sane([e EXCEPT !.ties = t])
           /\ \A h \in Elf_Ehdr : h.e_shnum = e.hdr.e_shnum /\ h.e_phnum = e.hdr.e_phnum
                                      => Sane([e EXCEPT !.hdr = h])
<1>1. e \in Object
  BY DEF Sane
<1> QED
  BY <1>1, ObjectUpdates, AlikeUpdates, SaneBy

\* error() is how a run may end.
LEMMA SaneFail ==
    ASSUME NEW e, Sane(e)
    PROVE  Sane(Fail(e, "error")) /\ Fail(e, "error").err # ""
<1>1. e \in Object /\ Fail(e, "error") \in Object /\ e.err \in {"", "error"}
  BY FailTypes DEF Sane
<1>2. Fail(e, "error").err \in {"", "error"} /\ Fail(e, "error").err # ""
      /\ Fail(e, "error").old = e.old /\ Fail(e, "error").oldSize = e.oldSize
  BY <1>1 DEF Fail, Object, Elf_Object
<1> QED
  BY <1>1, <1>2 DEF Sane, OldNames

LEMMA SaneFind ==
    ASSUME NEW e, NEW names, Sane(e)
    PROVE  Sane(Find(e, names))
BY SaneFail DEF Find

LEMMA SaneGrow ==
    ASSUME NEW e, NEW n \in Int, Sane(e)
    PROVE  Sane(growFile(e, n)) /\ (e.err # "" => growFile(e, n).err # "")
<1>1. e \in Object /\ growFile(e, n) \in Object
  BY GrowTypes DEF Sane
<1>2. CASE n > e.max
  BY <1>2, SaneFail DEF growFile
<1>3. CASE n <= Len(e.contents)
  BY <1>2, <1>3, SaneFail DEF growFile
<1>4. CASE ~(n > e.max) /\ ~(n <= Len(e.contents))
  <2>1. growFile(e, n) = [e EXCEPT !.contents = e.contents \o Zeros(n - Len(e.contents))]
    BY <1>4 DEF growFile
  <2>2. Alike(e, growFile(e, n))
    BY <1>1, <2>1, AlikeUpdates
  <2> QED
    BY <1>1, <2>2, SaneBy DEF Alike
<1> QED
  BY <1>2, <1>3, <1>4

LEMMA SaneAddPhdr ==
    ASSUME NEW e, NEW p \in Elf_Phdr, Sane(e)
    PROVE  /\ Sane(AddPhdr(e, p)) /\ AddPhdr(e, p).rep = e.rep
           /\ Len(AddPhdr(e, p).phdrs) = Len(e.phdrs) + 1
           /\ AddPhdr(e, p).err = e.err
<1>1. e \in Object /\ AddPhdr(e, p) \in Object /\ e.phdrs \in Seq(Elf_Phdr)
  BY AddPhdrTypes, ObjectFields DEF Sane
<1>2. /\ Alike(e, AddPhdr(e, p)) /\ AddPhdr(e, p).rep = e.rep
      /\ AddPhdr(e, p).phdrs = Append(e.phdrs, p)
  BY <1>1 DEF AddPhdr, Object, Elf_Object, Alike
<1>3. Len(Append(e.phdrs, p)) = Len(e.phdrs) + 1
  BY <1>1
<1> QED
  BY <1>1, <1>2, <1>3, SaneBy DEF Alike

LEMMA SaneSortPhdrs ==
    ASSUME NEW e, Sane(e)
    PROVE  Sane(sortPhdrs(e))
<1>1. e \in Object /\ sortPhdrs(e) \in Object
  BY SortPhdrsTypes DEF Sane
<1>2. Alike(e, sortPhdrs(e))
  BY <1>1, AlikeUpdates DEF sortPhdrs
<1> QED
  BY <1>1, <1>2, SaneBy

LEMMA SanePhdrSegment ==
    ASSUME NEW e, Sane(e), NEW a \in Nat
    PROVE  Sane(rewritePhdrSegment(e, a))
<1>1. e \in Object /\ rewritePhdrSegment(e, a) \in Object
  BY RewritePhdrSegmentTypes DEF Sane
<1>2. Alike(e, rewritePhdrSegment(e, a))
  BY <1>1, AlikeUpdates DEF rewritePhdrSegment
<1> QED
  BY <1>1, <1>2, SaneBy

\* Sorting the sections leaves their number, the page and the header's type.
LEMMA SaneSortShdrs ==
    ASSUME NEW e, Sane(e)
    PROVE  /\ Sane(sortShdrs(e))
           /\ sortShdrs(e).page = e.page /\ sortShdrs(e).err = e.err
           /\ sortShdrs(e).hdr.e_shnum = e.hdr.e_shnum
<1>1. e \in Object /\ sortShdrs(e) \in Object
  BY SortShdrsTypes DEF Sane
<1> DEFINE S == [i \in DOMAIN ByOffset(e) |->
                    IF i = 0 THEN ByOffset(e)[0] ELSE Relinked(e, ByOffset(e)[i])]
           h == [e.hdr EXCEPT !.e_shstrndx = NewIndex(e, @)]
<1>2. sortShdrs(e) = [e EXCEPT !.shdrs = S, !.hdr = h]
  BY <1>1, SortShdrsForm
<1>3. h.e_shnum = e.hdr.e_shnum
  <2>1. e.hdr \in Elf_Ehdr
    BY <1>1, ObjectFields
  <2> QED
    BY <2>1 DEF Elf_Ehdr
<1> HIDE DEF S, h
<1>4. Alike(e, sortShdrs(e)) /\ sortShdrs(e).page = e.page /\ sortShdrs(e).hdr = h
  BY <1>1, <1>2 DEF Object, Elf_Object, Alike
<1> QED
  BY <1>1, <1>3, <1>4, SaneBy DEF Alike

LEMMA SaneWriteShdrs ==
    ASSUME NEW e, Sane(e)
    PROVE  Sane(writeShdrs(e)) /\ writeShdrs(e).err = e.err
<1>1. e \in Object /\ writeShdrs(e) \in Object
  BY WriteShdrsTypes DEF Sane
<1>2. Alike(e, writeShdrs(e))
  BY <1>1, AlikeUpdates DEF writeShdrs
<1> QED
  BY <1>1, <1>2, SaneBy DEF Alike

LEMMA SaneDynamic ==
    ASSUME NEW e, Sane(e)
    PROVE  Sane(rewriteDynamic(e))
<1>1. e \in Object /\ rewriteDynamic(e) \in Object
  BY RewriteDynamicTypes DEF Sane
<1>2. Sane(Fail(e, "error"))
  BY SaneFail
<1>3. Alike(e, rewriteDynamic(e)) \/ rewriteDynamic(e) = Fail(e, "error")
  <2>1. Alike(e, e)
    BY DEF Alike
  <2> QED
    BY <1>1, <2>1, AlikeUpdates DEF rewriteDynamic
<1> QED
  BY <1>1, <1>2, <1>3, SaneBy

\* No symbol has a number below the number of sections that is not one of them.
LEMMA SaneSymbol ==
    ASSUME NEW e, Sane(e), NEW o \in Nat
    PROVE  Sane(rewriteSymbol(e, o))
<1>1. e \in Object /\ rewriteSymbol(e, o) \in Object
  BY RewriteSymbolTypes DEF Sane
<1> DEFINE sym == StructAt(e.contents, o, "sym")
           idx == sym.st_shndx
           new == findSection3(e, e.old[idx])
           value == IF sym.st_type = "STT_SECTION" THEN e.shdrs[new].sh_addr
                    ELSE sym.st_value
           f == Overwrite(e.contents, o,
                          Struct([sym EXCEPT !.st_shndx = new, !.st_value = value]))
<1>2. rewriteSymbol(e, o) = IF idx \notin 1 .. LoReserve - 1 \/ idx >= e.oldSize THEN e
                            ELSE IF idx \notin DOMAIN e.old \/ e.old[idx] = ""
                            THEN Fail(e, "abort")
                            ELSE [e EXCEPT !.contents = f]
  BY DEF rewriteSymbol
<1>3. idx \in 1 .. LoReserve - 1 /\ ~(idx >= e.oldSize)
          => idx \in DOMAIN e.old /\ e.old[idx] # ""
  <2>1. e.oldSize \in Nat /\ LoReserve \in Nat
    BY <1>1, ObjectFields, ElfAssumption
  <2> HIDE DEF idx
  <2>2. idx \in 1 .. LoReserve - 1 /\ ~(idx >= e.oldSize) => idx \in 1 .. e.oldSize - 1
    BY <2>1
  <2> QED
    BY <2>2 DEF Sane, OldNames
<1>4. Alike(e, [e EXCEPT !.contents = f])
  <2> HIDE DEF f
  <2> QED
    BY <1>1, AlikeUpdates
<1>5. rewriteSymbol(e, o) = e \/ Alike(e, rewriteSymbol(e, o))
  <2> HIDE DEF idx, f
  <2> QED
    BY <1>2, <1>3, <1>4
<1> QED
  BY <1>1, <1>5, SaneBy

LEMMA SaneSymbols ==
    ASSUME NEW e, Sane(e)
    PROVE  Sane(rewriteSymbols(e))
<1>0. e \in Object
  BY DEF Sane
<1> DEFINE tables == {i \in 1 .. e.hdr.e_shnum - 1 :
                          e.shdrs[i].sh_type \in {"SHT_SYMTAB", "SHT_DYNSYM"}}
           S == UNION {{e.shdrs[i].sh_offset + k * Word :
                            k \in 0 .. e.shdrs[i].sh_size \div Word - 1} :
                       i \in tables}
           A == {x \in Object : Sane(x)}
           base == e
           op(x, a) == rewriteSymbol(a, x)
<1>1. IsFiniteSet(S) /\ S \subseteq Nat
  BY <1>0, OffsetsFinite
<1>2. base \in A
  BY <1>0
<1>3. \A x \in S : \A a \in A : op(x, a) \in A
  <2> SUFFICES ASSUME NEW x \in S, NEW a \in A PROVE op(x, a) \in A
    OBVIOUS
  <2>1. x \in Nat /\ a \in Object /\ Sane(a)
    <3> HIDE DEF S
    <3> QED
      BY <1>1
  <2> HIDE DEF S, A
  <2>2. Sane(rewriteSymbol(a, x)) /\ rewriteSymbol(a, x) \in Object
    BY <2>1, SaneSymbol, RewriteSymbolTypes
  <2> QED
    BY <2>2 DEF A
<1> DEFINE Step == [x \in S |-> [a \in A |-> op(x, a)]]
           c(t) == CHOOSE x \in t : TRUE
           body(h) == [t \in SUBSET S |->
                           IF t = {} THEN base ELSE op(c(t), h[t \ {c(t)}])]
           h == CHOOSE h : h = body(h)
<1> HIDE DEF S, A, base, op
<1>4. PICK g : /\ SetFolds(g, S, base, Step)
               /\ \A t \in SUBSET S : g[t] \in A
  <2>1. \A x \in S : \A a \in A : Step[x][a] \in A
    BY <1>3
  <2> HIDE DEF Step
  <2> QED
    BY <1>1, <1>2, <2>1, SetFold
<1>5. \A t \in SUBSET S : t # {} => c(t) \in t /\ c(t) \in S
  OBVIOUS
<1>6. h = body(h)
  <2>1. g = body(g)
    BY <1>4, <1>5 DEF SetFolds
  <2> HIDE DEF body
  <2> QED
    BY <2>1
<1>7. h[S] \in A
  <2> HIDE DEF h
  <2>1. \A t \in SUBSET S : t # {} /\ h[t \ {c(t)}] \in A => h[t] \in A
    <3> HIDE DEF c
    <3> QED
      BY <1>3, <1>5, <1>6
  <2>2. h[{}] \in A
    BY <1>2, <1>6
  <2>3. SetStays(h, S, A)
    BY <2>1, <2>2 DEF SetStays
  <2> QED
    BY <1>1, <2>3, SetFoldIn
<1>8. rewriteSymbols(e) = h[S]
  BY DEF rewriteSymbols, FoldSet, MapThenFoldSet, S, base, op, c
<1> QED
  BY <1>7, <1>8 DEF A

LEMMA SaneHeaders ==
    ASSUME NEW e, Sane(e), NEW a \in Nat
    PROVE  Sane(rewriteHeaders(e, a))
<1> DEFINE s == sortPhdrs(rewritePhdrSegment(e, a))
           f == FlattenSeq([j \in DOMAIN s.phdrs |-> Struct(s.phdrs[j])])
           w == [s EXCEPT !.contents = Overwrite(@, e.hdr.e_phoff, f)]
<1>1. Sane(s) /\ s \in Object
  BY SanePhdrSegment, SaneSortPhdrs DEF Sane
<1>2. f \in Seq(Cell)
  <2> HIDE DEF s
  <2>1. s.phdrs \in Seq(Elf_Phdr)
    BY <1>1, ObjectFields
  <2>2. s.phdrs \in Seq(Cell)
    BY <2>1, CellTypes
  <2> QED
    BY <2>2, FlattenStructTypes
<1>3. e.hdr.e_phoff \in Nat
  BY ObjectFields, HeaderFields DEF Sane
<1>4. Sane(w)
  <2> HIDE DEF s, f
  <2>1. w \in Object
    BY <1>1, <1>2, <1>3, OverwrittenTypes
  <2>2. Alike(s, w)
    BY <1>1, AlikeUpdates
  <2> QED
    BY <1>1, <2>1, <2>2, SaneBy
<1>5. rewriteHeaders(e, a) = rewriteSymbols(rewriteDynamic(writeShdrs(sortShdrs(w))))
  BY DEF rewriteHeaders
<1> HIDE DEF w
<1>6. Sane(rewriteDynamic(writeShdrs(sortShdrs(w))))
  BY <1>4, SaneSortShdrs, SaneWriteShdrs, SaneDynamic
<1> QED
  BY <1>5, <1>6, SaneSymbols

LEMMA SanePlace ==
    ASSUME NEW e, Sane(e), NEW name \in DOMAIN e.rep, NEW curOff \in Nat, NEW addr \in Nat
    PROVE  Sane(Place(e, name, curOff, addr))
<1>1. e \in Object
  BY DEF Sane
<1>2. Place(e, name, curOff, addr) \in Object
  BY <1>1, PlaceTypes
<1> DEFINE x == Find(e, {name})
<1>3. x \in Object /\ Sane(x)
  BY <1>1, FindTypes, SaneFind
<1>4. Alike(x, Place(e, name, curOff, addr))
  <2> HIDE DEF x
  <2>1. Alike(x, Place(e, name, curOff, addr)) <=>
            /\ Place(e, name, curOff, addr).err = x.err
            /\ Place(e, name, curOff, addr).old = x.old
            /\ Place(e, name, curOff, addr).oldSize = x.oldSize
    BY DEF Alike
  <2> QED
    BY <1>3, <2>1 DEF Place, x, Object, Elf_Object
<1> HIDE DEF x
<1> QED
  BY <1>2, <1>3, <1>4, SaneBy

\* The space of the replaced sections, one after the other.
SpaceStep(r, q) ==
    [i \in Indices(Len(q)) |-> [a \in Nat |-> a + roundUp(Len(r[q[i]]), Word)]]

LEMMA SpaceChain ==
    ASSUME NEW e \in Object
    PROVE  \E st : /\ Chain(st, Len(Replaced(e)), 0, SpaceStep(e.rep, Replaced(e)), Nat)
                   /\ st[Len(Replaced(e))] = ReplacedSpace(e)
<1> DEFINE q == Replaced(e)
           n == Len(q)
           A == Nat
           base == 0
           op(a, i) == a + roundUp(Len(e.rep[q[i]]), Word)
<1>1. n \in Nat /\ DOMAIN q = Indices(n)
  BY ReplacedTypes DEF Indices
<1>2. base \in A
  OBVIOUS
<1>3. \A i \in Indices(n) : \A a \in A : op(a, i) \in A
  <2> SUFFICES ASSUME NEW i \in Indices(n), NEW a \in A PROVE op(a, i) \in A
    OBVIOUS
  <2>1. e.rep[q[i]] \in Seq(Cell)
    BY <1>1, RepFields
  <2>2. Len(e.rep[q[i]]) \in Int
    BY <2>1, LenProperties
  <2>3. roundUp(Len(e.rep[q[i]]), Word) \in Nat
    BY <2>2, RoundUpTypes, ElfAssumption
  <2> HIDE DEF q
  <2> QED
    BY <2>3
<1> DEFINE Step == [i \in Indices(n) |-> [a \in A |-> op(a, i)]]
           body(h) == [t \in SUBSET DOMAIN q |->
                           IF t = {} THEN base ELSE op(h[t \ {Max(t)}], Max(t))]
           h == CHOOSE h : h = body(h)
<1>0. Step = SpaceStep(e.rep, q)
  BY DEF SpaceStep
<1> HIDE DEF n, A, base, op, q
<1>4. PICK g : /\ LeftFolds(g, n, base, Step)
               /\ \A t \in SUBSET Indices(n) : g[t] \in A
  <2>1. \A i \in Indices(n) : \A a \in A : Step[i][a] \in A
    BY <1>3
  <2> HIDE DEF Step
  <2> QED
    BY <1>1, <1>2, <2>1, LeftFold
<1>5. \A t \in SUBSET Indices(n) : t # {} => Max(t) \in Indices(n)
  BY <1>1, LastIn
<1>6. h = body(h)
  <2>1. g = body(g)
    BY <1>1, <1>4, <1>5 DEF LeftFolds
  <2> HIDE DEF body
  <2> QED
    BY <2>1
<1>7. LeftRuns(h, n, base, Step, A)
  <2> HIDE DEF h
  <2> QED
    BY <1>1, <1>3, <1>5, <1>6 DEF LeftRuns
<1>8. ReplacedSpace(e) = h[DOMAIN q]
  BY DEF ReplacedSpace, FoldLeft, MapThenFoldSet, q, base, op
<1>9. \E st : Chain(st, n, base, Step, A) /\ st[n] = h[Indices(n)]
  <2>1. \A i \in Indices(n) : \A a \in A : Step[i][a] \in A
    BY <1>3
  <2>2. n \in Nat
    BY <1>1
  <2>3. \A z, w : LeftRuns(z, n, base, w, A) /\ (\A i \in Indices(n) : \A a \in A : w[i][a] \in A)
            => \E st : Chain(st, n, base, w, A) /\ st[n] = z[Indices(n)]
    BY <1>2, <2>2, ChainOf
  <2> HIDE DEF Step, h, body
  <2> QED
    BY <1>7, <2>1, <2>3
<1>10. PICK st : Chain(st, n, base, Step, A) /\ st[n] = h[Indices(n)]
  BY <1>9
<1> HIDE DEF h, Step
<1>11. Chain(st, Len(Replaced(e)), 0, SpaceStep(e.rep, Replaced(e)), Nat)
  BY <1>0, <1>10 DEF n, base, A, q
<1>12. st[Len(Replaced(e))] = ReplacedSpace(e)
  BY <1>1, <1>8, <1>10 DEF n, q
<1> QED
  BY <1>11, <1>12

\* Two objects that replace the same need the same space.
LEMMA SameSpace ==
    ASSUME NEW e \in Object, NEW x \in Object, x.rep = e.rep
    PROVE  Replaced(x) = Replaced(e) /\ ReplacedSpace(x) = ReplacedSpace(e)
<1>1. Replaced(x) = Replaced(e)
  BY DEF Replaced
<1>2. PICK s : /\ Chain(s, Len(Replaced(x)), 0, SpaceStep(x.rep, Replaced(x)), Nat)
               /\ s[Len(Replaced(x))] = ReplacedSpace(x)
  BY SpaceChain
<1>3. PICK t : /\ Chain(t, Len(Replaced(e)), 0, SpaceStep(e.rep, Replaced(e)), Nat)
               /\ t[Len(Replaced(e))] = ReplacedSpace(e)
  BY SpaceChain
<1> DEFINE n == Len(Replaced(e))
           Step == SpaceStep(e.rep, Replaced(e))
           T == {k \in 0 .. n : s[k] = t[k]}
<1>4. n \in Nat
  BY ReplacedTypes
<1>5. Chain(s, n, 0, Step, Nat) /\ Chain(t, n, 0, Step, Nat)
  BY <1>1, <1>2, <1>3
<1> HIDE DEF n, Step
<1>6. 0 \in T
  BY <1>4, <1>5 DEF Chain
<1>7. ASSUME NEW k \in 1 .. n, k - 1 \in T PROVE k \in T
  <2>1. s[k] = Step[k][s[k - 1]] /\ t[k] = Step[k][t[k - 1]] /\ s[k - 1] = t[k - 1]
    BY <1>5, <1>7 DEF Chain
  <2>2. k \in 0 .. n
    OBVIOUS
  <2> QED
    BY <2>1, <2>2
<1> HIDE DEF T
<1>8. \A k \in 0 .. n : k \in T
  BY <1>4, <1>6, <1>7, UpTo
<1>9. n \in 0 .. n
  BY <1>4
<1>10. s[n] = t[n]
  BY <1>8, <1>9 DEF T
<1> QED
  BY <1>1, <1>2, <1>3, <1>10 DEF n

\* The replaced sections fill the space that is counted for them, and nothing
\* that is put in the file fails.
LEMMA PlacedIs ==
    ASSUME NEW e \in Object, NEW w, Sane(w), w.rep = e.rep, NEW curOff \in Nat,
           NEW startAddr \in Nat, NEW startOffset \in Nat, startOffset <= curOff
    PROVE  LET next(at, n) ==
                   [e   |-> Place(at.e, n, at.cur, startAddr + (at.cur - startOffset)),
                    cur |-> at.cur + roundUp(Len(e.rep[n]), Word)]
               d == FoldLeft(next, [e |-> w, cur |-> curOff], Replaced(e))
           IN  /\ d \in [e: Object, cur: Nat]
               /\ Sane(d.e) /\ d.cur = curOff + ReplacedSpace(e)
<1> DEFINE q == Replaced(e)
           n == Len(q)
           A == {x \in [e: Object, cur: Nat] :
                     x.cur >= startOffset /\ x.e.rep = e.rep /\ Sane(x.e)}
           base == [e |-> w, cur |-> curOff]
           op(a, i) ==
               [e   |-> Place(a.e, q[i], a.cur, startAddr + (a.cur - startOffset)),
                cur |-> a.cur + roundUp(Len(e.rep[q[i]]), Word)]
<1>1. n \in Nat /\ DOMAIN q = Indices(n)
  BY ReplacedTypes DEF Indices
<1>2. base \in A
  BY DEF Sane
<1>3. \A i \in Indices(n) : \A a \in A : op(a, i) \in A
  <2> SUFFICES ASSUME NEW i \in Indices(n), NEW a \in A PROVE op(a, i) \in A
    OBVIOUS
  <2> DEFINE name == q[i]
             addr == startAddr + (a.cur - startOffset)
             x == Place(a.e, name, a.cur, addr)
             c == a.cur + roundUp(Len(e.rep[name]), Word)
  <2>1. a.e \in Object /\ a.cur \in Nat /\ a.cur >= startOffset /\ a.e.rep = e.rep
    OBVIOUS
  <2>a. Sane(a.e)
    OBVIOUS
  <2>2. name \in DOMAIN e.rep /\ e.rep[name] \in Seq(Cell)
    BY <1>1, RepFields
  <2>3. addr \in Nat
    BY <2>1
  <2>4. x \in Object /\ x.rep = a.e.rep
    <3>1. name \in DOMAIN a.e.rep
      BY <2>1, <2>2
    <3> HIDE DEF name, addr
    <3> QED
      BY <2>1, <2>3, <3>1, PlaceTypes
  <2>b. Sane(x)
    <3>1. name \in DOMAIN a.e.rep
      BY <2>1, <2>2
    <3> HIDE DEF name, addr, A
    <3> QED
      BY <2>1, <2>a, <2>3, <3>1, SanePlace
  <2>5. c \in Nat /\ c >= startOffset
    <3>1. Len(e.rep[name]) \in Int
      BY <2>2, LenProperties
    <3>2. roundUp(Len(e.rep[name]), Word) \in Nat
      BY <3>1, RoundUpTypes, ElfAssumption
    <3> HIDE DEF name
    <3> QED
      BY <2>1, <3>2
  <2>6. op(a, i) = [e |-> x, cur |-> c]
    OBVIOUS
  <2> HIDE DEF x, c, op
  <2>7. [e |-> x, cur |-> c] \in A
    BY <2>1, <2>4, <2>5, <2>b
  <2> QED
    BY <2>6, <2>7
<1> DEFINE Step == [i \in Indices(n) |-> [a \in A |-> op(a, i)]]
           body(h) == [t \in SUBSET DOMAIN q |->
                           IF t = {} THEN base ELSE op(h[t \ {Max(t)}], Max(t))]
           h == CHOOSE h : h = body(h)
<1>e. \A i \in Indices(n) : \A a \in A :
          Step[i][a].cur = a.cur + roundUp(Len(e.rep[q[i]]), Word)
  <2> HIDE DEF A, q, n
  <2> QED
    OBVIOUS
<1>b. base.cur = curOff
  OBVIOUS
<1> HIDE DEF n, A, base, op, q
<1>4. PICK g : /\ LeftFolds(g, n, base, Step)
               /\ \A t \in SUBSET Indices(n) : g[t] \in A
  <2>1. \A i \in Indices(n) : \A a \in A : Step[i][a] \in A
    BY <1>3
  <2> HIDE DEF Step
  <2> QED
    BY <1>1, <1>2, <2>1, LeftFold
<1>5. \A t \in SUBSET Indices(n) : t # {} => Max(t) \in Indices(n)
  BY <1>1, LastIn
<1>6. h = body(h)
  <2>1. g = body(g)
    BY <1>1, <1>4, <1>5 DEF LeftFolds
  <2> HIDE DEF body
  <2> QED
    BY <2>1
<1>7. LeftRuns(h, n, base, Step, A)
  <2> HIDE DEF h
  <2> QED
    BY <1>1, <1>3, <1>5, <1>6 DEF LeftRuns
<1> DEFINE next(at, x) ==
               [e   |-> Place(at.e, x, at.cur, startAddr + (at.cur - startOffset)),
                cur |-> at.cur + roundUp(Len(e.rep[x]), Word)]
           d == FoldLeft(next, [e |-> w, cur |-> curOff], Replaced(e))
<1>8. d = h[DOMAIN q]
  BY DEF FoldLeft, MapThenFoldSet, q, base, op
<1>9. \E st : Chain(st, n, base, Step, A) /\ st[n] = h[Indices(n)]
  <2>1. \A i \in Indices(n) : \A a \in A : Step[i][a] \in A
    BY <1>3
  <2>2. n \in Nat
    BY <1>1
  <2> HIDE DEF Step, h, body, d, next
  <2>3. \A z, y : LeftRuns(z, n, base, y, A) /\ (\A i \in Indices(n) : \A a \in A : y[i][a] \in A)
            => \E st : Chain(st, n, base, y, A) /\ st[n] = z[Indices(n)]
    BY ONLY <1>2, <2>2, ChainOf
  <2> QED
    BY <1>7, <2>1, <2>3
<1>10. PICK st : Chain(st, n, base, Step, A) /\ st[n] = h[Indices(n)]
  BY <1>9
<1> HIDE DEF h, Step, d
<1>11. PICK sp : Chain(sp, n, 0, SpaceStep(e.rep, q), Nat) /\ sp[n] = ReplacedSpace(e)
  BY SpaceChain DEF n, q
<1>c. Chain(st, n, base, Step, A)
  BY <1>10
<1>d. Chain(sp, n, 0, SpaceStep(e.rep, q), Nat)
  BY <1>11
<1> DEFINE T == {k \in 0 .. n : st[k].cur = curOff + sp[k]}
<1>12. 0 \in T
  <2>1. st[0] = base /\ sp[0] = 0
    <3>1. st[0] = base
      BY <1>c DEF Chain
    <3>2. sp[0] = 0
      BY <1>d DEF Chain
    <3> QED
      BY <3>1, <3>2
  <2>2. curOff + sp[0] = curOff
    BY <2>1
  <2> QED
    BY <1>1, <1>b, <2>1, <2>2
<1>13. ASSUME NEW k \in 1 .. n, k - 1 \in T PROVE k \in T
  <2>1. k \in Indices(n) /\ k \in 0 .. n /\ k - 1 \in 0 .. n
    BY <1>1 DEF Indices
  <2>2. st[k] = Step[k][st[k - 1]] /\ st[k - 1] \in A
    BY <1>c, <2>1 DEF Chain
  <2>3. sp[k] = SpaceStep(e.rep, q)[k][sp[k - 1]] /\ sp[k - 1] \in Nat
    BY <1>d, <2>1 DEF Chain
  <2> DEFINE r == roundUp(Len(e.rep[q[k]]), Word)
  <2>4. st[k].cur = st[k - 1].cur + r
    BY <1>e, <2>1, <2>2
  <2>5. sp[k] = sp[k - 1] + r
    BY <2>1, <2>3 DEF SpaceStep, n
  <2>6. r \in Nat
    <3>1. e.rep[q[k]] \in Seq(Cell)
      BY <1>1, <2>1, RepFields DEF q
    <3>2. Len(e.rep[q[k]]) \in Int
      BY <3>1, LenProperties
    <3> QED
      BY <3>2, RoundUpTypes, ElfAssumption
  <2>7. st[k - 1].cur = curOff + sp[k - 1]
    BY <1>13
  <2> HIDE DEF r
  <2>8. st[k].cur = curOff + sp[k]
    BY <2>3, <2>4, <2>5, <2>6, <2>7
  <2> QED
    BY <2>1, <2>8
<1> HIDE DEF T
<1>14. \A k \in 0 .. n : k \in T
  BY <1>1, <1>12, <1>13, UpTo
<1>15. n \in 0 .. n
  BY <1>1
<1>16. d = st[n]
  BY <1>1, <1>8, <1>10
<1>17. st[n] \in A
  BY <1>c, <1>15 DEF Chain
<1>18. st[n].cur = curOff + sp[n]
  BY <1>14, <1>15 DEF T
<1>19. d.cur = curOff + ReplacedSpace(e)
  BY <1>11, <1>16, <1>18
<1>20. d \in [e: Object, cur: Nat] /\ Sane(d.e)
  BY <1>16, <1>17 DEF A
<1> QED
  BY <1>19, <1>20 DEF d

LEMMA SaneReplaced ==
    ASSUME NEW e, Sane(e), NEW curOff \in Nat,
           NEW startAddr \in Nat, NEW startOffset \in Nat, startOffset <= curOff
    PROVE  LET done == writeReplacedSections(e, curOff, startAddr, startOffset)
           IN  Sane(done.e) /\ done.cur = curOff + ReplacedSpace(e)
<1>0. e \in Object
  BY DEF Sane
<1> DEFINE f == FoldLeft(LAMBDA g, n : Fill(g, Section(e, n).sh_offset,
                                            Section(e, n).sh_size, XX),
                         e.contents, Replaced(e))
           w == [e EXCEPT !.contents = f]
           next(at, n) ==
               [e   |-> Place(at.e, n, at.cur, startAddr + (at.cur - startOffset)),
                cur |-> at.cur + roundUp(Len(e.rep[n]), Word)]
           d == FoldLeft(next, [e |-> w, cur |-> curOff], Replaced(e))
<1>1. Sane(w) /\ w.rep = e.rep
  <2>1. f \in Seq(Cell)
    BY <1>0, WipedTypes
  <2> HIDE DEF f
  <2>2. Sane(w)
    BY <2>1, SaneUpdates
  <2>3. w.rep = e.rep
    BY <1>0, ObjectKeeps
  <2> QED
    BY <2>2, <2>3
<1>2. d \in [e: Object, cur: Nat] /\ Sane(d.e) /\ d.cur = curOff + ReplacedSpace(e)
  <2> HIDE DEF w
  <2> QED
    BY <1>0, <1>1, PlacedIs, ZenonT(60)
<1>3. writeReplacedSections(e, curOff, startAddr, startOffset) = [d EXCEPT !.e.rep = <<>>]
  BY DEF writeReplacedSections
<1>4. <<>> \in Strings
  <2>1. <<>> \in [{} -> Seq(Cell)]
    OBVIOUS
  <2> QED
    BY <2>1 DEF Strings
<1> DEFINE x == d.e
<1>5. Sane([x EXCEPT !.rep = <<>>])
  <2>1. Sane(x)
    <3> HIDE DEF d
    <3> QED
      BY <1>2
  <2> HIDE DEF x
  <2> QED
    BY <1>4, <2>1, SaneUpdates
<1>6. [d EXCEPT !.e.rep = <<>>].e = [x EXCEPT !.rep = <<>>]
      /\ [d EXCEPT !.e.rep = <<>>].cur = d.cur
  <2> HIDE DEF d
  <2> QED
    BY <1>2
<1> HIDE DEF d, x
<1> QED
  BY <1>2, <1>3, <1>5, <1>6

-----------------------------------------------------------------------------
(* Pages.                                                                  *)

\* Division leaves a remainder below the divisor.
LEMMA DivMod ==
    ASSUME NEW a \in Int, NEW m \in Nat \ {0}
    PROVE  /\ a \div m \in Int /\ a % m \in Int
           /\ a = m * (a \div m) + (a % m) /\ 0 <= a % m /\ a % m < m
OBVIOUS

LEMMA MultMod ==
    ASSUME NEW j \in Int, NEW m \in Nat \ {0}
    PROVE  (m * j) % m = 0
<1> DEFINE q == (m * j) \div m
           r == (m * j) % m
           k == j - q
<1>1. m * j \in Int
  OBVIOUS
<1>2. q \in Int /\ r \in Int /\ m * j = m * q + r /\ 0 <= r /\ r < m
  BY <1>1, DivMod
<1> HIDE DEF q, r
<1>3. k \in Int /\ r = m * k
  BY <1>2
<1> HIDE DEF k
<1>4. CASE k >= 1
  <2>1. m * k >= m
    BY <1>3, <1>4
  <2> QED
    BY <1>2, <1>3, <2>1
<1>5. CASE k <= -1
  <2>1. m * k <= -m
    BY <1>3, <1>5
  <2> QED
    BY <1>2, <1>3, <2>1
<1>6. CASE k = 0
  BY <1>3, <1>6 DEF r
<1> QED
  BY <1>3, <1>4, <1>5, <1>6

\* roundUp gives whole pages, if the integers are whole pages.
LEMMA RoundUpPages ==
    ASSUME NEW n \in Int, NEW m \in Nat \ {0}, UIntRange % m = 0
    PROVE  \E k \in Int : roundUp(n, m) = m * k
<1> DEFINE c == UIntRange \div m
           z == ((n - 1) % UIntRange) \div m + 1
           x == z * m
           d == x \div UIntRange
<1>1. UIntRange \in Nat \ {0}
  BY ElfFileAssumption
<1>2. c \in Int /\ UIntRange = m * c
  BY <1>1, DivMod
<1>3. z \in Int
  <2>1. (n - 1) % UIntRange \in Int
    BY <1>1, DivMod
  <2>2. ((n - 1) % UIntRange) \div m \in Int
    BY <2>1, DivMod
  <2> QED
    BY <2>2
<1>4. roundUp(n, m) = x % UIntRange
  BY DEF roundUp
<1> HIDE DEF z
<1>5. x \in Int
  BY <1>3
<1>6. d \in Int /\ x % UIntRange \in Int /\ x = UIntRange * d + (x % UIntRange)
  <2> HIDE DEF x
  <2> QED
    BY <1>1, <1>5, DivMod
<1> HIDE DEF c, d
<1>7. x = m * z
  BY <1>3
<1>8. UIntRange * d = m * (c * d)
  BY <1>2, <1>6
<1>9. m * z - m * (c * d) = m * (z - c * d)
  <2> DEFINE u == c * d
  <2>1. u \in Int
    BY <1>2, <1>6
  <2> HIDE DEF u
  <2>2. m * z - m * u = m * (z - u)
    BY <1>3, <2>1
  <2> QED
    BY <2>2 DEF u
<1>10. roundUp(n, m) = m * (z - c * d)
  <2> DEFINE r == x % UIntRange
             v == UIntRange * d
  <2>1. r \in Int /\ v \in Int /\ x = v + r /\ roundUp(n, m) = r
    BY <1>1, <1>4, <1>6
  <2>2. v = m * (c * d) /\ x = m * z
    BY <1>7, <1>8
  <2> HIDE DEF r, v, x
  <2>3. r = x - v
    BY <1>5, <2>1
  <2> QED
    BY <1>9, <2>1, <2>2, <2>3
<1>11. z - c * d \in Int
  BY <1>2, <1>3, <1>6
<1> QED
  BY <1>10, <1>11

\* Two addresses that are pages apart are at the same place in a page.
LEMMA SameInPage ==
    ASSUME NEW a \in Int, NEW b \in Int, NEW m \in Nat \ {0}, (a - b) % m = 0
    PROVE  a % m = b % m
<1> DEFINE c == (a - b) \div m
           p == a \div m
           q == b \div m
           r == a % m
           s == b % m
           k == p - q - c
<1>1. c \in Int /\ a - b = m * c
  BY DivMod
<1>2. p \in Int /\ r \in Int /\ a = m * p + r /\ 0 <= r /\ r < m
  BY DivMod
<1>3. q \in Int /\ s \in Int /\ b = m * q + s /\ 0 <= s /\ s < m
  BY DivMod
<1> HIDE DEF c, p, q, r, s
<1>4. k \in Int /\ s - r = m * k
  <2>1. m * (p - q - c) = m * p - m * q - m * c
    BY <1>1, <1>2, <1>3
  <2> QED
    BY <1>1, <1>2, <1>3, <2>1
<1> HIDE DEF k
<1>5. CASE k >= 1
  <2>1. m * k >= m
    BY <1>4, <1>5
  <2> QED
    BY <1>2, <1>3, <1>4, <2>1
<1>6. CASE k <= -1
  <2>1. m * k <= -m
    BY <1>4, <1>6
  <2> QED
    BY <1>2, <1>3, <1>4, <2>1
<1>7. CASE k = 0
  BY <1>2, <1>3, <1>4, <1>7 DEF r, s
<1> QED
  BY <1>4, <1>5, <1>6, <1>7

\* The new segment of a library begins with a page.
LEMMA LastPages ==
    ASSUME NEW e \in Object, UIntRange % e.page = 0
    PROVE  \E k \in Int : Max({0} \cup {roundUp(p.p_vaddr + p.p_memsz, e.page) :
                                            p \in ToSet(e.phdrs)}) = e.page * k
<1> DEFINE P == ToSet(e.phdrs)
           end == [p \in P |-> roundUp(p.p_vaddr + p.p_memsz, e.page)]
           X == {0} \cup {end[p] : p \in P}
           m == e.page
           Pages(x) == \E k \in Int : x = m * k
<1>1. e.phdrs \in Seq(Elf_Phdr) /\ e.page \in Nat \ {0}
  BY ObjectFields
<1>2. IsFiniteSet(P)
  <2>1. IsFiniteSet(DOMAIN e.phdrs)
    BY <1>1, FS_Interval, LenProperties
  <2>2. P = {e.phdrs[i] : i \in DOMAIN e.phdrs}
    BY DEF ToSet
  <2> QED
    BY <2>1, <2>2, ImageFinite
<1>3. \A p \in P : end[p] \in Nat /\ Pages(end[p])
  <2> SUFFICES ASSUME NEW p \in P
               PROVE  /\ roundUp(p.p_vaddr + p.p_memsz, e.page) \in Nat
                      /\ Pages(roundUp(p.p_vaddr + p.p_memsz, e.page))
    OBVIOUS
  <2>1. p \in Elf_Phdr
    BY <1>1 DEF ToSet
  <2> DEFINE n == p.p_vaddr + p.p_memsz
  <2>2. n \in Int
    BY <2>1 DEF Elf_Phdr
  <2> HIDE DEF n
  <2>3. roundUp(n, m) \in Nat
    BY <1>1, <2>2, RoundUpTypes
  <2>4. Pages(roundUp(n, m))
    <3>1. m \in Nat \ {0} /\ UIntRange % m = 0
      BY <1>1
    <3> HIDE DEF m
    <3> QED
      BY <2>2, <3>1, RoundUpPages
  <2> QED
    BY <2>3, <2>4 DEF n
<1>4. IsFiniteSet(X)
  <2>1. IsFiniteSet({end[p] : p \in P})
    <3>1. DOMAIN end = P
      OBVIOUS
    <3> HIDE DEF P, end
    <3> QED
      BY <1>2, <3>1, ImageFinite
  <2> HIDE DEF P, end
  <2>2. IsFiniteSet({end[p] : p \in P} \cup {0})
    BY <2>1, FS_AddElement
  <2>3. X = {end[p] : p \in P} \cup {0}
    OBVIOUS
  <2> QED
    BY <2>2, <2>3
<1>5. X \subseteq Nat /\ X # {}
  <2> HIDE DEF P, end
  <2> QED
    BY <1>3
<1>6. {0} \cup {roundUp(p.p_vaddr + p.p_memsz, e.page) : p \in P} = X
  <2> HIDE DEF P
  <2> QED
    OBVIOUS
<1>7. Max(X) \in X
  <2> HIDE DEF X
  <2>1. Ints(X)
    BY <1>5 DEF Ints
  <2> QED
    BY <1>4, <1>5, <2>1, GreatestInt
<1>8. Pages(0)
  <2>1. m \in Nat
    BY <1>1
  <2> HIDE DEF m
  <2>2. 0 = m * 0
    BY <2>1
  <2> QED
    BY <2>2
<1>9. \A x \in X : Pages(x)
  <2> HIDE DEF P, end, Pages
  <2> QED
    BY <1>3, <1>8
<1>10. Pages(Max(X))
  <2> HIDE DEF X, Pages
  <2> QED
    BY <1>7, <1>9
<1> HIDE DEF X
<1> QED
  BY <1>6, <1>10 DEF P

LEMMA SaneLibrary ==
    ASSUME NEW e, Sane(e), UIntRange % e.page = 0
    PROVE  Sane(rewriteSectionsLibrary(e))
<1> DEFINE lastPage == Max({0} \cup {roundUp(p.p_vaddr + p.p_memsz, e.page) :
                                         p \in ToSet(e.phdrs)})
           space == ReplacedSpace(e)
           n == Len(e.phdrs)
           needed == (n + 1) * Word + space
           end == roundUp(Len(e.contents), e.page)
           hole == IF e.isExec /\ end < lastPage THEN lastPage - end ELSE 0
           startOffset == end + hole
           startPage == IF e.isExec THEN startOffset ELSE lastPage
           grown == growFile(growFile(e, end + needed), end + needed + hole)
           load == NewLoad(startOffset, startPage, needed, e.page)
           added == AddPhdr(grown, load)
           curOff == startOffset + Len(added.phdrs) * Word
           placed == writeReplacedSections(added, curOff, startPage, startOffset)
           first == Require(placed.e, hole % e.page = 0)
           checked == Require(first, placed.cur = startOffset + needed)
           moved == [checked EXCEPT !.hdr.e_phoff = startOffset]
<1>0. e \in Object
  BY DEF Sane
<1>1. lastPage \in Nat /\ \E k \in Int : lastPage = e.page * k
  BY <1>0, LastPageTypes, LastPages
<1> HIDE DEF lastPage
<1>2. /\ needed \in Nat /\ end \in Nat /\ e.page \in Nat \ {0}
      /\ n \in Nat /\ space \in Nat /\ Word \in Nat
      /\ \E k \in Int : end = e.page * k
  <2>1. /\ e.page \in Nat \ {0} /\ e.phdrs \in Seq(Elf_Phdr)
        /\ e.contents \in Seq(Cell)
    BY <1>0, ObjectFields
  <2>2. n \in Nat /\ Len(e.contents) \in Int
    BY <2>1, LenProperties
  <2>3. (n + 1) * Word \in Nat
    BY <2>2, ElfAssumption
  <2>4. end \in Nat /\ \E k \in Int : end = e.page * k
    BY <2>1, <2>2, RoundUpTypes, RoundUpPages
  <2>5. space \in Nat
    BY <1>0, ReplacedSpaceTypes
  <2> HIDE DEF n, space, end
  <2> QED
    BY <2>1, <2>2, <2>3, <2>4, <2>5, ElfAssumption
<1> HIDE DEF end
<1>3. hole \in Nat /\ hole % e.page = 0
  <2> DEFINE m == e.page
  <2>1. PICK j \in Int : lastPage = m * j
    BY <1>1
  <2>2. PICK k \in Int : end = m * k
    BY <1>2
  <2>3. m \in Nat \ {0}
    BY <1>2
  <2> HIDE DEF m
  <2>4. (m * (j - k)) % m = 0 /\ (m * 0) % m = 0
    BY <2>3, MultMod
  <2>5. m * (j - k) = lastPage - end /\ m * 0 = 0
    BY <2>1, <2>2, <2>3
  <2>6. (lastPage - end) % m = 0 /\ 0 % m = 0
    BY <2>4, <2>5
  <2>7. CASE e.isExec /\ end < lastPage
    <3>1. hole = lastPage - end
      BY <2>7
    <3> HIDE DEF hole
    <3>2. hole \in Nat
      <4>1. \A a, b \in Nat : a < b => b - a \in Nat
        OBVIOUS
      <4>2. lastPage \in Nat /\ end \in Nat
        BY <1>1, <1>2
      <4> QED
        BY ONLY <2>7, <3>1, <4>1, <4>2
    <3>3. hole % m = 0
      BY <2>6, <3>1
    <3> QED
      BY <3>2, <3>3 DEF m
  <2>8. CASE ~(e.isExec /\ end < lastPage)
    <3>1. hole = 0
      BY <2>8
    <3> HIDE DEF hole
    <3>2. hole % m = 0
      BY <2>6, <3>1
    <3> QED
      BY <3>1, <3>2 DEF m
  <2> QED
    BY <2>7, <2>8
<1> HIDE DEF hole
<1>4. startOffset \in Nat
  BY <1>2, <1>3
<1> HIDE DEF startOffset
<1>5. startPage \in Nat
  BY <1>1, <1>4
<1> HIDE DEF startPage
<1>6. Sane(grown) /\ grown.rep = e.rep /\ grown.phdrs = e.phdrs /\ grown \in Object
  <2> DEFINE g == growFile(e, end + needed)
             a == end + needed
             b == end + needed + hole
  <2>1. a \in Int /\ b \in Int
    <3> HIDE DEF needed
    <3> QED
      BY <1>2, <1>3
  <2> HIDE DEF a, b
  <2>2. growFile(e, a) \in Object /\ growFile(e, a).rep = e.rep /\ growFile(e, a).phdrs = e.phdrs
    BY <1>0, <2>1, GrowTypes
  <2>3. Sane(growFile(e, a))
    BY <2>1, SaneGrow
  <2>4. /\ growFile(growFile(e, a), b) \in Object
        /\ growFile(growFile(e, a), b).rep = growFile(e, a).rep
        /\ growFile(growFile(e, a), b).phdrs = growFile(e, a).phdrs
    BY <2>1, <2>2, GrowTypes
  <2>5. Sane(growFile(growFile(e, a), b))
    BY <2>1, <2>3, SaneGrow
  <2> QED
    BY <2>2, <2>4, <2>5 DEF a, b
<1> HIDE DEF grown
<1>7. load \in Elf_Phdr
  <2> HIDE DEF needed
  <2> QED
    BY <1>2, <1>4, <1>5, NewLoadTypes
<1> HIDE DEF load
<1>8. Sane(added) /\ added.rep = e.rep /\ Len(added.phdrs) = n + 1
  BY <1>6, <1>7, SaneAddPhdr
<1>a. added \in Object
  BY <1>8 DEF Sane
<1> HIDE DEF added
<1>b. ReplacedSpace(added) = space
  BY <1>0, <1>8, <1>a, SameSpace
<1> HIDE DEF n, space
<1>9. curOff \in Nat /\ startOffset <= curOff /\ curOff = startOffset + (n + 1) * Word
  <2>1. (n + 1) * Word \in Nat
    BY <1>2
  <2>2. curOff = startOffset + (n + 1) * Word
    BY <1>8
  <2> QED
    BY <1>4, <2>1, <2>2
<1> HIDE DEF curOff
<1>10. Sane(placed.e) /\ placed.cur = curOff + space
  BY <1>4, <1>5, <1>8, <1>9, <1>b, SaneReplaced, ZenonT(60)
<1> HIDE DEF placed
<1>c. placed.cur = startOffset + needed
  <2>1. (n + 1) * Word \in Nat
    BY <1>2
  <2> DEFINE z == (n + 1) * Word
  <2>2. z \in Nat /\ curOff = startOffset + z /\ needed = z + space
    BY <1>9, <2>1
  <2> HIDE DEF z, needed
  <2> QED
    BY <1>2, <1>4, <1>10, <2>2
<1> HIDE DEF needed
<1>11. first = placed.e
  BY <1>3 DEF Require
<1> HIDE DEF first
<1>12. checked = placed.e
  BY <1>c, <1>11 DEF Require
<1> HIDE DEF checked
<1>13. Sane(moved)
  <2>1. checked \in Object /\ Sane(checked)
    BY <1>10, <1>12 DEF Sane
  <2>2. moved \in Object
    BY <1>4, <2>1, MovedTableTypes
  <2>3. Alike(checked, moved)
    BY <2>1 DEF Alike, Object, Elf_Object
  <2> QED
    BY <2>1, <2>2, <2>3, SaneBy
<1> HIDE DEF moved
<1>14. Sane(rewriteHeaders(moved, startPage))
  BY <1>5, <1>13, SaneHeaders
<1>15. rewriteSectionsLibrary(e) = rewriteHeaders(moved, startPage)
  BY DEF rewriteSectionsLibrary, moved, checked, first, placed, curOff, added, load,
         grown, startPage, startOffset, hole, end, needed, lastPage, n, space
<1> QED
  BY <1>14, <1>15

LEMMA SaneReplaceSection ==
    ASSUME NEW e, Sane(e), NEW name \in SectionName, NEW size \in Nat
    PROVE  Sane(replaceSection(e, name, size))
<1> DEFINE x == replaceSection(e, name, size)
           f == Find(e, {name})
<1>1. e \in Object
  BY DEF Sane
<1>2. x \in Object /\ f \in Object /\ Sane(f)
  BY <1>1, ReplaceSectionTypes, FindTypes, SaneFind
<1>3. Alike(f, x)
  <2> DEFINE r == [n \in DOMAIN f.rep \cup {name} |->
                      IF n = name
                      THEN Resize(IF name \in DOMAIN e.rep THEN e.rep[name]
                                  ELSE Slice(e.contents, Section(e, name).sh_offset,
                                             Section(e, name).sh_size), size)
                      ELSE f.rep[n]]
  <2>1. x = [f EXCEPT !.rep = r]
    BY DEF replaceSection
  <2> HIDE DEF r, f, x
  <2> QED
    BY <1>2, <2>1, AlikeUpdates
<1> HIDE DEF f, x
<1>4. Sane(x)
  BY <1>2, <1>3, SaneBy
<1> QED
  BY <1>4 DEF x

LEMMA SaneGathered ==
    ASSUME NEW e, Sane(e), NEW reserved \in 1 .. e.hdr.e_shnum - 1
    PROVE  Sane(Gathered(e, reserved))
<1> DEFINE S == {i \in 1 .. reserved - 1 : e.shdrs[i].sh_name \notin DOMAIN e.rep}
           A == {x \in Object : Sane(x)}
           base == e
           op(x, a) == replaceSection(a, e.shdrs[x].sh_name, e.shdrs[x].sh_size)
<1>0. e \in Object
  BY DEF Sane
<1>1. /\ e.hdr.e_shnum \in Nat \ {0}
      /\ e.shdrs \in [0 .. e.hdr.e_shnum - 1 -> Elf_Shdr]
  BY <1>0, ObjectFields
<1>2. base \in A
  BY <1>0
<1>3. IsFiniteSet(S) /\ S \subseteq 0 .. e.hdr.e_shnum - 1
  <2>1. IsFiniteSet(1 .. reserved - 1)
    BY <1>1, FS_Interval
  <2>2. S \subseteq 1 .. reserved - 1
    OBVIOUS
  <2> HIDE DEF S
  <2>3. IsFiniteSet(S)
    BY <2>1, <2>2, FS_Subset
  <2> QED
    BY <1>1, <2>2, <2>3
<1>4. \A x \in S : \A a \in A : op(x, a) \in A
  <2> SUFFICES ASSUME NEW x \in S, NEW a \in A PROVE op(x, a) \in A
    OBVIOUS
  <2>0. a \in Object /\ Sane(a)
    OBVIOUS
  <2> HIDE DEF S
  <2>1. e.shdrs[x] \in Elf_Shdr
    BY <1>1, <1>3
  <2> DEFINE n == e.shdrs[x].sh_name
             k == e.shdrs[x].sh_size
  <2>2. n \in SectionName /\ k \in Nat
    BY <2>1, SectionFields
  <2> HIDE DEF n, k, A
  <2>3. Sane(replaceSection(a, n, k)) /\ replaceSection(a, n, k) \in Object
    BY <2>0, <2>2, SaneReplaceSection, ReplaceSectionTypes
  <2> QED
    BY <2>3 DEF A, n, k
<1> DEFINE Step == [x \in S |-> [a \in A |-> op(x, a)]]
           c(t) == CHOOSE x \in t : TRUE
           body(h) == [t \in SUBSET S |->
                           IF t = {} THEN base ELSE op(c(t), h[t \ {c(t)}])]
           h == CHOOSE h : h = body(h)
<1> HIDE DEF S, A, base, op
<1>5. PICK g : /\ SetFolds(g, S, base, Step)
               /\ \A t \in SUBSET S : g[t] \in A
  <2>1. \A x \in S : \A a \in A : Step[x][a] \in A
    BY <1>4
  <2> HIDE DEF Step
  <2> QED
    BY <1>3, <1>2, <2>1, SetFold
<1>6. \A t \in SUBSET S : t # {} => c(t) \in t /\ c(t) \in S
  OBVIOUS
<1>7. h = body(h)
  <2>1. g = body(g)
    BY <1>5, <1>6 DEF SetFolds
  <2> HIDE DEF body
  <2> QED
    BY <2>1
<1>8. h[S] \in A
  <2> HIDE DEF h
  <2>1. \A t \in SUBSET S : t # {} /\ h[t \ {c(t)}] \in A => h[t] \in A
    <3> HIDE DEF c
    <3> QED
      BY <1>4, <1>6, <1>7
  <2>2. h[{}] \in A
    BY <1>2, <1>7
  <2>3. SetStays(h, S, A)
    BY <2>1, <2>2 DEF SetStays
  <2> QED
    BY <1>3, <2>3, SetFoldIn
<1>9. Gathered(e, reserved) = h[S]
  BY DEF Gathered, FoldSet, MapThenFoldSet, S, base, op, c
<1> QED
  BY <1>8, <1>9 DEF A

LEMMA SaneMovedTable ==
    ASSUME NEW e, Sane(e), NEW v \in Nat
    PROVE  /\ Sane([e EXCEPT !.hdr.e_phoff = v]) /\ Sane([e EXCEPT !.hdr.e_shoff = v])
<1>1. e \in Object /\ [e EXCEPT !.hdr.e_phoff = v] \in Object
      /\ [e EXCEPT !.hdr.e_shoff = v] \in Object
  BY MovedTableTypes DEF Sane
<1>2. /\ Alike(e, [e EXCEPT !.hdr.e_phoff = v])
      /\ Alike(e, [e EXCEPT !.hdr.e_shoff = v])
  BY <1>1, AlikeUpdates
<1> QED
  BY <1>1, <1>2, SaneBy

LEMMA SaneMoveShdrs ==
    ASSUME NEW e, Sane(e), NEW startOffset \in Nat
    PROVE  Sane(moveShdrs(e, startOffset))
<1> DEFINE size == e.hdr.e_shoff + e.hdr.e_shnum * Word
           g == growFile(e, Len(e.contents) + size)
           x == [g EXCEPT !.hdr.e_shoff = Len(e.contents)]
<1>0. e \in Object
  BY DEF Sane
<1>1. Len(e.contents) \in Nat /\ size \in Nat
  <2>1. e.contents \in Seq(Cell) /\ e.hdr \in Elf_Ehdr
    BY <1>0, ObjectFields
  <2>2. e.hdr.e_shoff \in Nat /\ e.hdr.e_shnum \in Nat
    BY <2>1, HeaderFields
  <2>3. \A m \in Nat : m * Word \in Nat
    BY ElfAssumption
  <2>4. e.hdr.e_shnum * Word \in Nat
    BY <2>2, <2>3
  <2>5. Len(e.contents) \in Nat
    BY <2>1, LenProperties
  <2> DEFINE m == e.hdr.e_shnum * Word
  <2>6. m \in Nat
    BY <2>4
  <2> HIDE DEF m
  <2>7. e.hdr.e_shoff + m \in Nat
    BY <2>2, <2>6
  <2> QED
    BY <2>5, <2>7 DEF m
<1> HIDE DEF size
<1>2. Sane(g)
  <2>1. Len(e.contents) + size \in Int
    BY <1>1
  <2> QED
    BY <2>1, SaneGrow
<1> HIDE DEF g
<1>3. Sane(x)
  BY <1>1, <1>2, SaneMovedTable
<1>4. moveShdrs(e, startOffset) = IF e.hdr.e_shoff >= startOffset THEN e
                                  ELSE writeShdrs(sortShdrs(x))
  BY DEF moveShdrs, g, size
<1> HIDE DEF x
<1>5. Sane(writeShdrs(sortShdrs(x)))
  BY <1>3, SaneSortShdrs, SaneWriteShdrs
<1> QED
  BY <1>4, <1>5

\* Pages in front of the file: the sections that are replaced stay, there is one
\* program header more, and an object that has failed stays so.
LEMMA SaneShiftFile ==
    ASSUME NEW e, Sane(e), NEW extra \in Nat, NEW startPage \in Nat
    PROVE  LET y == shiftFile(e, extra, startPage)
           IN  /\ Sane(y) /\ y.rep = e.rep
               /\ y.err # "" \/ Len(y.phdrs) = Len(e.phdrs) + 1
<1> DEFINE shift == extra * e.page
           g == growFile(e, Len(e.contents) + shift)
           y == shiftFile(e, extra, startPage)
           load == NewLoad(0, startPage, shift, e.page)
<1>0. e \in Object /\ y \in Object
  BY ShiftFileTypes DEF Sane
<1>1. /\ e.page \in Nat \ {0} /\ e.contents \in Seq(Cell) /\ Len(e.contents) \in Nat
      /\ e.phdrs \in Seq(Elf_Phdr)
  BY <1>0, ObjectFields, LenProperties
<1>2. shift \in Nat
  BY <1>1
<1> DEFINE moved(p) ==
               LET q == [p EXCEPT !.p_offset = @ + shift]
               IN  IF q.p_align # 0 /\ (q.p_vaddr - q.p_offset) % q.p_align # 0
                   THEN [q EXCEPT !.p_align = e.page] ELSE q
           behind(x) == [x EXCEPT !.sh_offset = @ + shift]
           f == Struct(e.hdr) \o Zeros(shift - Word) \o e.contents
           h == [g.hdr EXCEPT !.e_phoff = Word, !.e_shoff = @ + shift]
           s == [i \in DOMAIN g.shdrs |-> IF i = 0 THEN g.shdrs[0] ELSE behind(g.shdrs[i])]
           p == [j \in DOMAIN g.phdrs |-> moved(g.phdrs[j])]
           w == [g EXCEPT !.contents = f, !.hdr = h, !.shdrs = s, !.phdrs = p]
<1>3. y = IF g.err # "" THEN g ELSE AddPhdr(w, load)
  <2> DEFINE z == [g EXCEPT !.contents = f, !.hdr.e_phoff = Word, !.hdr.e_shoff = @ + shift,
                            !.shdrs = s, !.phdrs = p]
  <2>1. y = IF g.err # "" THEN g ELSE AddPhdr(z, load)
    BY DEF shiftFile
  <2>2. z = w
    <3> HIDE DEF moved, behind, f, s, p, g
    <3> QED
      OBVIOUS
  <2> HIDE DEF z, w, y, g, load
  <2> QED
    BY <2>1, <2>2
<1> HIDE DEF w, y, load
<1>p. e.phdrs \in Seq(Elf_Phdr) => p \in Seq(Elf_Phdr) /\ Len(p) = Len(e.phdrs)
  <2> SUFFICES ASSUME e.phdrs \in Seq(Elf_Phdr)
               PROVE  p \in Seq(Elf_Phdr) /\ Len(p) = Len(e.phdrs)
    OBVIOUS
  <2>1. \A x \in Elf_Phdr : moved(x) \in Elf_Phdr
    <3> SUFFICES ASSUME NEW x \in Elf_Phdr PROVE moved(x) \in Elf_Phdr
      OBVIOUS
    <3> DEFINE q == [x EXCEPT !.p_offset = @ + shift]
               skewed == q.p_align # 0 /\ (q.p_vaddr - q.p_offset) % q.p_align # 0
    <3>1. q \in Elf_Phdr
      <4> HIDE DEF shift
      <4> QED
        BY <1>2, SMTT(30) DEF Elf_Phdr
    <3>2. [q EXCEPT !.p_align = e.page] \in Elf_Phdr
      <4> HIDE DEF q
      <4> QED
        BY <1>1, <3>1 DEF Elf_Phdr
    <3>3. moved(x) = IF skewed THEN [q EXCEPT !.p_align = e.page] ELSE q
      OBVIOUS
    <3> HIDE DEF moved, skewed, q
    <3> QED
      BY <3>1, <3>2, <3>3
  <2>2. g.phdrs = e.phdrs
    <3>1. Len(e.contents) + shift \in Int
      <4> HIDE DEF shift
      <4> QED
        BY <1>1, <1>2
    <3> HIDE DEF shift
    <3> QED
      BY <1>0, <3>1, GrowTypes
  <2>3. p = [j \in DOMAIN e.phdrs |-> moved(e.phdrs[j])]
    <3> HIDE DEF moved, g
    <3> QED
      BY <2>2
  <2> HIDE DEF moved, g, p
  <2> QED
    BY <2>1, <2>3
<1> HIDE DEF moved, behind, f, h, s, p
<1>4. Sane(g) /\ g \in Object /\ g.rep = e.rep /\ g.phdrs = e.phdrs
  <2>1. Len(e.contents) + shift \in Int
    <3> HIDE DEF shift
    <3> QED
      BY <1>1, <1>2
  <2> HIDE DEF shift
  <2> QED
    BY <1>0, <2>1, SaneGrow, GrowTypes
<1> HIDE DEF shift
<1>5. CASE g.err # ""
  <2> HIDE DEF g, load
  <2>1. y = g
    BY <1>3, <1>5
  <2> QED
    BY <1>4, <1>5, <2>1 DEF y
<1>6. CASE ~(g.err # "")
  <2> HIDE DEF load, g
  <2>1. y = AddPhdr(w, load)
    BY <1>3, <1>6
  <2>2. w.rep = g.rep /\ w.err = g.err /\ w.old = g.old /\ w.oldSize = g.oldSize
        /\ w.phdrs = p
    <3> QED
      BY <1>4 DEF w, Object, Elf_Object
  <2>3. AddPhdr(w, load).rep = w.rep /\ AddPhdr(w, load).err = w.err
        /\ AddPhdr(w, load).old = w.old /\ AddPhdr(w, load).oldSize = w.oldSize
        /\ AddPhdr(w, load).phdrs = Append(w.phdrs, load)
    <3> QED
      BY <1>4 DEF w, AddPhdr, Object, Elf_Object
  <2>4. Len(Append(p, load)) = Len(g.phdrs) + 1
    <3>1. g.phdrs \in Seq(Elf_Phdr)
      BY <1>1, <1>4
    <3>2. p \in Seq(Elf_Phdr) /\ Len(p) = Len(g.phdrs)
      BY <1>p, <1>1, <1>4
    <3> QED
      BY <3>2
  <2>5. Alike(g, y)
    BY <2>1, <2>2, <2>3 DEF Alike
  <2>6. Sane(y)
    BY <1>0, <1>4, <2>5, SaneBy DEF y
  <2>7. y.rep = e.rep /\ Len(y.phdrs) = Len(e.phdrs) + 1
    BY <1>4, <2>1, <2>2, <2>3, <2>4
  <2> QED
    BY <2>6, <2>7 DEF y
<1> QED
  BY <1>5, <1>6

\* The sections fill the space in front that was counted for them.
LEMMA SanePlaceInFront ==
    ASSUME NEW e, Sane(e), NEW needed \in Nat, NEW startOffset \in Nat, NEW firstPage \in Nat,
           e.err # "" \/ needed = Word + Len(e.phdrs) * Word + ReplacedSpace(e)
    PROVE  Sane(PlaceInFront(e, needed, startOffset, firstPage))
<1> DEFINE curOff == Word + Len(e.phdrs) * Word
           f == Fill(e.contents, curOff, startOffset - curOff, Zero)
           cleared == [e EXCEPT !.contents = f]
           placed == writeReplacedSections(cleared, curOff, firstPage, 0)
           x == Require(placed.e, placed.cur = needed)
           a == firstPage + placed.e.hdr.e_phoff
<1>7. PlaceInFront(e, needed, startOffset, firstPage)
          = IF e.err # "" THEN e ELSE rewriteHeaders(x, a)
  BY DEF PlaceInFront
<1> HIDE DEF x, a
<1>8. CASE e.err # ""
  BY <1>7, <1>8
<1>9. CASE needed = Word + Len(e.phdrs) * Word + ReplacedSpace(e)
  <2>0. e \in Object
    BY DEF Sane
  <2>1. curOff \in Nat /\ e.contents \in Seq(Cell) /\ needed = curOff + ReplacedSpace(e)
    <3>1. e.phdrs \in Seq(Elf_Phdr) /\ e.contents \in Seq(Cell)
      BY <2>0, ObjectFields
    <3>2. Len(e.phdrs) \in Nat
      BY <3>1, LenProperties
    <3>a. \A m \in Nat : Word + m * Word \in Nat
      BY ONLY ElfAssumption
    <3>3. curOff \in Nat
      BY <3>2, <3>a
    <3>4. needed = curOff + ReplacedSpace(e)
      BY <1>9
    <3> HIDE DEF curOff
    <3> QED
      BY <3>1, <3>3, <3>4
  <2> HIDE DEF curOff
  <2>2. f \in Seq(Cell)
    <3>1. startOffset - curOff \in Int /\ curOff \in Int
      BY ONLY <2>1, startOffset \in Nat
    <3> QED
      BY <2>1, <3>1, FillTypes, CellTypes
  <2> HIDE DEF f
  <2>3. Sane(cleared) /\ cleared \in Object /\ cleared.rep = e.rep
    <3>1. Sane(cleared)
      BY <2>2, SaneUpdates
    <3>2. cleared.rep = e.rep
      BY <2>0, ObjectKeeps
    <3> HIDE DEF cleared
    <3> QED
      BY <3>1, <3>2 DEF Sane
  <2> HIDE DEF cleared
  <2>4. ReplacedSpace(cleared) = ReplacedSpace(e)
    BY <2>0, <2>3, SameSpace
  <2>5. Sane(placed.e) /\ placed.cur = curOff + ReplacedSpace(cleared)
    <3>1. curOff \in Nat /\ 0 \in Nat /\ 0 <= curOff
      BY ONLY <2>1
    <3> QED
      BY <2>3, <3>1, SaneReplaced
  <2> HIDE DEF placed
  <2>6. x = placed.e
    BY <2>1, <2>4, <2>5 DEF x, Require
  <2>7. a \in Nat
    <3>1. placed.e.hdr \in Elf_Ehdr
      BY <2>5, ObjectFields DEF Sane
    <3>2. placed.e.hdr.e_phoff \in Nat
      BY <3>1, HeaderFields
    <3>3. firstPage + placed.e.hdr.e_phoff \in Nat
      BY ONLY <3>2, firstPage \in Nat
    <3> QED
      BY <3>3 DEF a
  <2>8. Sane(rewriteHeaders(x, a))
    BY <2>5, <2>6, <2>7, SaneHeaders
  <2> QED
    BY <1>7, <2>8, <1>8
<1> QED
  BY <1>8, <1>9

LEMMA SaneMakeRoom ==
    ASSUME NEW e, Sane(e), NEW offset \in Nat, NEW addr \in Nat
    PROVE  Sane(MakeRoom(e, offset, addr))
<1> DEFINE space == Word + Len(e.phdrs) * Word + ReplacedSpace(e)
           shifts == space > offset
           needed == IF shifts THEN space + Word ELSE space
           pages == roundUp(needed - offset, e.page) \div e.page
           grow == IF shifts THEN pages * e.page ELSE 0
           firstPage == addr - offset - grow
           x == IF shifts THEN shiftFile(e, pages, firstPage) ELSE e
           room == offset + grow
<1>0. e \in Object
  BY DEF Sane
<1>1. /\ Len(e.phdrs) * Word \in Nat /\ ReplacedSpace(e) \in Nat /\ Len(e.phdrs) \in Nat
      /\ e.page \in Nat \ {0} /\ Word \in Nat
  <2>1. e.phdrs \in Seq(Elf_Phdr) /\ e.page \in Nat \ {0}
    BY <1>0, ObjectFields
  <2>2. Len(e.phdrs) \in Nat
    BY <2>1, LenProperties
  <2> QED
    BY <1>0, <2>1, <2>2, ElfAssumption, ReplacedSpaceTypes
<1>2. space \in Nat
  <2> DEFINE n == Len(e.phdrs) * Word
             r == ReplacedSpace(e)
  <2> HIDE DEF n, r
  <2> QED
    BY <1>1 DEF n, r
<1>k. needed = Word + (IF shifts THEN Len(e.phdrs) + 1 ELSE Len(e.phdrs)) * Word
                   + ReplacedSpace(e)
  <2>1. (Len(e.phdrs) + 1) * Word = Len(e.phdrs) * Word + Word
    BY <1>1
  <2> DEFINE n == Len(e.phdrs) * Word
             m == (Len(e.phdrs) + 1) * Word
             r == ReplacedSpace(e)
  <2>2. n \in Nat /\ r \in Nat /\ m = n + Word /\ space = Word + n + r
    BY <1>1, <2>1
  <2>3. shifts => needed = Word + m + r
    <3> HIDE DEF n, m, r, space
    <3> QED
      BY <1>1, <2>2
  <2>4. ~shifts => needed = Word + n + r
    <3> HIDE DEF n, m, r, space
    <3> QED
      BY <1>1, <2>2
  <2> HIDE DEF needed, shifts
  <2> QED
    BY <2>3, <2>4
<1> HIDE DEF space
<1>3. needed \in Nat
  BY <1>1, <1>2
<1> HIDE DEF shifts, needed
<1>4. pages \in Nat
  <2>0. needed - offset \in Int
    BY ONLY <1>3, offset \in Nat
  <2>1. roundUp(needed - offset, e.page) \in Nat
    BY <1>1, <2>0, RoundUpTypes
  <2> QED
    BY <1>1, <2>1, DivTypes, SMTT(30)
<1> HIDE DEF pages
<1>5. grow \in Nat
  BY <1>1, <1>4
<1> HIDE DEF grow
<1>6. room \in Nat
  BY <1>5
<1>7. MakeRoom(e, offset, addr)
          = IF grow > addr - offset THEN Fail(e, "error")
            ELSE PlaceInFront(x, needed, room, firstPage)
  BY DEF MakeRoom, grow, pages, needed, shifts, space
<1>8. CASE grow > addr - offset
  <2>1. Sane(Fail(e, "error"))
    BY SaneFail
  <2> HIDE DEF x, room, firstPage
  <2> QED
    BY <1>7, <1>8, <2>1
<1>9. CASE ~(grow > addr - offset)
  <2>1. firstPage \in Nat
    BY <1>5, <1>9
  <2> HIDE DEF firstPage, room
  <2>2. /\ Sane(x) /\ x.rep = e.rep
        /\ x.err # "" \/ Len(x.phdrs) = IF shifts THEN Len(e.phdrs) + 1 ELSE Len(e.phdrs)
    BY <1>4, <2>1, SaneShiftFile
  <2> HIDE DEF x
  <2>3. ReplacedSpace(x) = ReplacedSpace(e)
    BY <1>0, <2>2, SameSpace DEF Sane
  <2>4. x.err # "" \/ needed = Word + Len(x.phdrs) * Word + ReplacedSpace(x)
    BY <1>k, <2>2, <2>3
  <2>5. Sane(PlaceInFront(x, needed, room, firstPage))
    BY <1>3, <1>6, <2>1, <2>2, <2>4, SanePlaceInFront
  <2> QED
    BY <1>7, <1>9, <2>5
<1> QED
  BY <1>8, <1>9

\* Section headers that differ in nothing but the numbers of other sections.
Similar(x, y) ==
    /\ x.sh_name = y.sh_name /\ x.sh_type = y.sh_type
    /\ x.sh_offset = y.sh_offset /\ x.sh_addr = y.sh_addr

\* Of a table in which entry 0 comes first, the other sections are sorted.
LEMMA SortedTable ==
    ASSUME NEW e \in Object, e.shdrs[0].sh_offset = 0,
           \A i \in 1 .. e.hdr.e_shnum - 1 : e.shdrs[i].sh_offset >= Word
    PROVE  LET N == 1 .. e.hdr.e_shnum - 1
               T == sortShdrs(e).shdrs
           IN  \E p \in [N -> N] :
                   /\ \A i \in N : Similar(T[p[i]], e.shdrs[i])
                   /\ \A k \in N : \E i \in N : p[i] = k
                   /\ \A i, j \in N : e.shdrs[i].sh_offset < e.shdrs[j].sh_offset
                                          => p[i] < p[j]
<1> DEFINE D == 0 .. e.hdr.e_shnum - 1
           N == 1 .. e.hdr.e_shnum - 1
           p == Places(D, 0, OffsetOrder(e))
           t == ByOffset(e)
           T == sortShdrs(e).shdrs
<1>1. /\ e.shdrs \in [D -> Elf_Shdr] /\ e.hdr.e_shnum \in Nat \ {0} /\ 0 \in D
      /\ N = D \ {0} /\ Word \in Nat \ {0}
  <2>1. e.shdrs \in [D -> Elf_Shdr] /\ e.hdr.e_shnum \in Nat \ {0}
    BY ObjectFields
  <2> QED
    BY <2>1, ElfAssumption
<1>2. \A i, j \in D : e.shdrs[i].sh_offset < e.shdrs[j].sh_offset => p[i] < p[j]
  BY ByOffsetPlaces
<1>3. t \in [D -> Elf_Shdr] /\ \A i \in D : t[p[i]] = e.shdrs[i]
  BY ByOffsetPlaces
<1>4. /\ p \in [D -> D] /\ \A i, j \in D : p[i] = p[j] => i = j
      /\ \A k \in D : \E i \in D : p[i] = k
  <2>1. p \in Bijection(D, D)
    BY ByOffsetPlaces
  <2> HIDE DEF p, D
  <2> QED
    BY <2>1, Fun_BijectionProperties
<1>5. \A i \in N : e.shdrs[0].sh_offset < e.shdrs[i].sh_offset
  <2> SUFFICES ASSUME NEW i \in N PROVE e.shdrs[0].sh_offset < e.shdrs[i].sh_offset
    OBVIOUS
  <2>1. e.shdrs[i] \in Elf_Shdr
    BY <1>1
  <2>2. e.shdrs[i].sh_offset \in Nat /\ e.shdrs[i].sh_offset >= Word
    BY <2>1, SectionFields
  <2> QED
    BY <1>1, <2>2
<1>6. \A k \in N : T[k] = Relinked(e, t[k])
  <2> DEFINE S == [i \in DOMAIN t |-> IF i = 0 THEN t[0] ELSE Relinked(e, t[i])]
             h == [e.hdr EXCEPT !.e_shstrndx = NewIndex(e, @)]
  <2>1. sortShdrs(e) = [e EXCEPT !.shdrs = S, !.hdr = h]
    BY SortShdrsForm
  <2> HIDE DEF h
  <2>2. T = S
    <3> HIDE DEF S
    <3> QED
      BY <2>1 DEF Object, Elf_Object
  <2> HIDE DEF T, t
  <2> QED
    BY <1>1, <1>3, <2>2
<1>7. \A y \in Elf_Shdr : Similar(Relinked(e, y), y)
  BY DEF Elf_Shdr, Relinked, Similar
<1> HIDE DEF p, t, T, N
<1>8. p[0] = 0
  <2>1. PICK i \in D : p[i] = 0
    BY <1>1, <1>4
  <2>2. i # 0 => p[0] < 0
    BY <1>1, <1>2, <1>5, <2>1
  <2>3. p[0] \in D
    BY <1>1, <1>4, Zenon
  <2> QED
    BY <2>1, <2>2, <2>3
<1> HIDE DEF D
<1> DEFINE q == [i \in N |-> p[i]]
<1>9. q \in [N -> N] /\ \A k \in N : \E i \in N : q[i] = k
  BY <1>1, <1>4, <1>8
<1>10. ASSUME NEW i \in N PROVE Similar(T[q[i]], e.shdrs[i])
  <2>1. i \in D /\ q[i] = p[i] /\ q[i] \in N
    BY <1>1, <1>9
  <2>2. T[q[i]] = Relinked(e, e.shdrs[i])
    BY <1>3, <1>6, <2>1
  <2>3. e.shdrs[i] \in Elf_Shdr
    BY <1>1, <2>1
  <2> QED
    BY <1>7, <2>2, <2>3
<1>11. \A i, j \in N : e.shdrs[i].sh_offset < e.shdrs[j].sh_offset => q[i] < q[j]
  BY <1>1, <1>2
<1> HIDE DEF q
<1>12. \E r \in [N -> N] :
          /\ \A i \in N : Similar(T[r[i]], e.shdrs[i])
          /\ \A k \in N : \E i \in N : r[i] = k
          /\ \A i, j \in N : e.shdrs[i].sh_offset < e.shdrs[j].sh_offset => r[i] < r[j]
  BY <1>9, <1>10, <1>11
<1> QED
  BY <1>12 DEF N, T

\* In a sorted table S with n entries: what stays is at p, behind it a section q
\* is not replaced, and all that is before p begins at one address.
AnchoredAt(S, n, p, q) ==
    /\ p \in 1 .. n - 1 /\ q \in 1 .. n - 1 /\ p < q
    /\ S[p].sh_type = "SHT_PROGBITS" /\ S[p].sh_name \notin Replaceable
    /\ \A i \in 1 .. p : /\ S[i].sh_addr >= S[i].sh_offset
                         /\ (S[i].sh_addr - S[i].sh_offset) % PageSize = 0
    /\ \A i \in 1 .. n - 1 : S[i].sh_name \in Replaceable => i < q

LEMMA AnchoredSorted ==
    ASSUME NEW e \in Object, e.shdrs[0].sh_offset = 0,
           \A i \in 1 .. e.hdr.e_shnum - 1 : e.shdrs[i].sh_offset >= Word,
           Anchored(e)
    PROVE  \E p, q : AnchoredAt(sortShdrs(e).shdrs, e.hdr.e_shnum, p, q)
<1> DEFINE n == e.hdr.e_shnum
           N == 1 .. n - 1
           S == e.shdrs
           T == sortShdrs(e).shdrs
<1>1. PICK r \in [N -> N] :
          /\ \A i \in N : Similar(T[r[i]], S[i])
          /\ \A k \in N : \E i \in N : r[i] = k
          /\ \A i, j \in N : S[i].sh_offset < S[j].sh_offset => r[i] < r[j]
  BY SortedTable
<1>2. PICK p0 \in N, q0 \in N :
          /\ S[p0].sh_type = "SHT_PROGBITS" /\ S[p0].sh_name \notin Replaceable
          /\ S[p0].sh_addr >= S[p0].sh_offset
          /\ (S[p0].sh_addr - S[p0].sh_offset) % PageSize = 0
          /\ \A i \in N : S[i].sh_offset <= S[p0].sh_offset =>
                 S[i].sh_addr - S[i].sh_offset = S[p0].sh_addr - S[p0].sh_offset
          /\ S[q0].sh_offset > S[p0].sh_offset
          /\ \A i \in N : S[i].sh_name \in Replaceable => S[i].sh_offset < S[q0].sh_offset
  BY DEF Anchored
<1>3. n \in Nat \ {0} /\ \A i \in N : S[i].sh_offset \in Nat /\ S[i].sh_addr \in Nat
  <2>1. S \in [0 .. n - 1 -> Elf_Shdr] /\ n \in Nat \ {0}
    BY ObjectFields
  <2> HIDE DEF S, n
  <2>2. \A i \in N : S[i] \in Elf_Shdr
    BY ONLY <2>1
  <2> QED
    BY <2>1, <2>2, SectionFields
<1> HIDE DEF S, T, n
<1> DEFINE p == r[p0]
           q == r[q0]
<1>4. p \in N /\ q \in N /\ p < q
  <2>1. S[p0].sh_offset < S[q0].sh_offset
    BY <1>2, <1>3
  <2> QED
    BY <1>1, <2>1
<1>5. T[p].sh_type = "SHT_PROGBITS" /\ T[p].sh_name \notin Replaceable
  <2>1. Similar(T[p], S[p0])
    BY <1>1
  <2> QED
    BY <1>2, <2>1 DEF Similar
<1>6. ASSUME NEW i \in 1 .. p
      PROVE  /\ T[i].sh_addr >= T[i].sh_offset
             /\ (T[i].sh_addr - T[i].sh_offset) % PageSize = 0
  <2>1. i \in N /\ i <= p
    <3> HIDE DEF p
    <3> QED
      BY <1>3, <1>4
  <2>2. PICK j \in N : r[j] = i
    BY <1>1, <2>1
  <2>3. ~(S[p0].sh_offset < S[j].sh_offset)
    <3>1. S[p0].sh_offset < S[j].sh_offset => p < i
      BY <1>1, <2>2
    <3> HIDE DEF p
    <3> QED
      BY <1>3, <1>4, <2>1, <3>1
  <2>4. S[j].sh_offset <= S[p0].sh_offset
    <3>1. S[j].sh_offset \in Nat /\ S[p0].sh_offset \in Nat
      BY <1>3
    <3> QED
      BY ONLY <2>3, <3>1
  <2>5. S[j].sh_addr - S[j].sh_offset = S[p0].sh_addr - S[p0].sh_offset
    BY <1>2, <2>4
  <2>6. Similar(T[i], S[j])
    BY <1>1, <2>2
  <2>7. T[i].sh_addr = S[j].sh_addr /\ T[i].sh_offset = S[j].sh_offset
    BY <2>6 DEF Similar
  <2> DEFINE a == S[j].sh_addr
             b == S[j].sh_offset
             c == S[p0].sh_addr
             d == S[p0].sh_offset
  <2>8. a \in Nat /\ b \in Nat /\ c \in Nat /\ d \in Nat /\ a - b = c - d /\ c >= d
        /\ (c - d) % PageSize = 0
    BY <1>2, <1>3, <2>5
  <2> HIDE DEF a, b, c, d
  <2>9. a >= b /\ (a - b) % PageSize = 0
    BY ONLY <2>8
  <2> QED
    BY <2>7, <2>9 DEF a, b
<1>7. ASSUME NEW i \in N, T[i].sh_name \in Replaceable PROVE i < q
  <2>1. PICK j \in N : r[j] = i
    BY <1>1
  <2>2. Similar(T[i], S[j])
    BY <1>1, <2>1
  <2>3. S[j].sh_offset < S[q0].sh_offset
    BY <1>2, <1>7, <2>2 DEF Similar
  <2> QED
    BY <1>1, <2>1, <2>3
<1> HIDE DEF p, q
<1>8. AnchoredAt(T, n, p, q)
  BY <1>4, <1>5, <1>6, <1>7 DEF AnchoredAt
<1> QED
  BY <1>8 DEF T, n

LEMMA SaneSorted ==
    ASSUME NEW e, Sane(e), NEW p, NEW q, AnchoredAt(e.shdrs, e.hdr.e_shnum, p, q),
           e.page = PageSize, DOMAIN e.rep \subseteq Replaceable,
           \E i \in 1 .. e.hdr.e_shnum - 1 : e.shdrs[i].sh_name \in DOMAIN e.rep
    PROVE  Sane(RewriteSorted(e))
<1> DEFINE n == e.hdr.e_shnum
           S == e.shdrs
           X == {0} \cup {i \in 1 .. n - 1 : S[i].sh_name \in DOMAIN e.rep}
           last == Max(X)
           reserved == FirstReserved(e, last)
           offset == S[reserved].sh_offset
           addr == S[reserved].sh_addr
           odd == last = 0 \/ last + 1 >= n \/ addr % e.page # offset % e.page
           x == moveShdrs(Gathered(e, reserved), offset)
<1>0. e \in Object
  BY DEF Sane
<1>1. n \in Nat \ {0} /\ S \in [0 .. n - 1 -> Elf_Shdr] /\ e.page \in Nat \ {0}
  BY <1>0, ObjectFields
<1>2. /\ p \in 1 .. n - 1 /\ q \in 1 .. n - 1 /\ p < q
      /\ S[p].sh_type = "SHT_PROGBITS" /\ S[p].sh_name \notin Replaceable
      /\ \A i \in 1 .. p : /\ S[i].sh_addr >= S[i].sh_offset
                           /\ (S[i].sh_addr - S[i].sh_offset) % PageSize = 0
      /\ \A i \in 1 .. n - 1 : S[i].sh_name \in Replaceable => i < q
  BY DEF AnchoredAt
<1>r. RewriteSorted(e) = IF odd THEN Fail(e, "abort")
                         ELSE IF addr < offset THEN Fail(e, "undefined")
                         ELSE MakeRoom(x, offset, addr)
  BY DEF RewriteSorted
<1>3. PICK k \in 1 .. n - 1 : S[k].sh_name \in DOMAIN e.rep
  OBVIOUS
<1>4. last \in X /\ \A i \in X : i <= last
  <2>1. X \subseteq 0 .. n - 1 /\ X # {}
    BY <1>1
  <2> HIDE DEF X
  <2>2. IsFiniteSet(0 .. n - 1)
    <3>1. 0 \in Int /\ n - 1 \in Int
      BY <1>1
    <3> QED
      BY <3>1, FS_Interval
  <2>3. IsFiniteSet(X)
    BY <2>1, <2>2, FS_Subset
  <2>4. Ints(X)
    BY <1>1, <2>1 DEF Ints
  <2> QED
    BY <2>1, <2>3, <2>4, GreatestInt
<1> HIDE DEF n, S, last
<1>5. last \in 1 .. n - 1 /\ S[last].sh_name \in Replaceable
  <2>1. k \in X /\ k <= last
    BY <1>3, <1>4
  <2>2. k \in 1 .. n - 1
    OBVIOUS
  <2>3. last # 0
    <3> HIDE DEF X
    <3>1. last \in Int
      BY <1>1, <1>4 DEF X
    <3> QED
      BY <1>1, <2>1, <2>2, <3>1
  <2> QED
    BY <1>4, <2>3
<1>6. last < q /\ ~(last + 1 >= n) /\ last # 0
  <2>1. last < q
    BY <1>2, <1>5
  <2> QED
    BY ONLY <1>1, <1>2, <1>5, <2>1
<1>7. reserved \in 1 .. last + 1 /\ reserved <= p
  <2> DEFINE stays(i) == \/ /\ S[i].sh_type = "SHT_PROGBITS"
                            /\ S[i].sh_name # ".interp"
                         \/ i > 1 /\ S[i - 1].sh_name = ".dynstr"
             Y == {last + 1} \cup {i \in 1 .. last : stays(i)}
  <2>1. reserved = Min(Y)
    BY DEF FirstReserved, S
  <2>2. stays(p)
    BY <1>2 DEF Replaceable
  <2> HIDE DEF stays, reserved
  <2>3. Y \subseteq 1 .. last + 1 /\ Y # {}
    BY <1>5, <1>1
  <2>4. Y \subseteq Nat
    BY <2>3
  <2>5. p \in Y \/ last + 1 <= p
    <3>1. p \in 1 .. last => p \in Y
      BY <2>2
    <3> HIDE DEF Y
    <3> QED
      BY <1>1, <1>2, <1>5, <3>1
  <2>6. last + 1 \in Y
    OBVIOUS
  <2> HIDE DEF Y
  <2>7. Min(Y) \in Y /\ \A y \in Y : Min(Y) <= y
    BY <2>3, <2>4, LeastNat
  <2>8. reserved \in 1 .. last + 1 /\ reserved <= last + 1 /\ (p \in Y => reserved <= p)
    BY <2>1, <2>3, <2>6, <2>7
  <2>9. reserved \in Int /\ p \in Int /\ last \in Int
    BY <1>1, <1>2, <1>5, <2>8
  <2> QED
    BY ONLY <2>5, <2>8, <2>9
<1> HIDE DEF reserved
<1>8. reserved \in 1 .. p /\ reserved \in 1 .. n - 1
  BY ONLY <1>1, <1>2, <1>5, <1>7
<1>9. offset \in Nat /\ addr \in Nat
  <2>1. reserved \in 0 .. n - 1
    BY ONLY <1>1, <1>8
  <2>2. S[reserved] \in Elf_Shdr
    BY ONLY <1>1, <2>1
  <2> QED
    BY <2>2, SectionFields
<1>10. addr >= offset /\ (addr - offset) % e.page = 0
  BY <1>2, <1>8
<1> HIDE DEF offset, addr
<1>11. addr % e.page = offset % e.page
  <2>1. addr \in Int /\ offset \in Int
    BY <1>9
  <2> QED
    BY <1>1, <1>10, <2>1, SameInPage
<1>12. ~odd /\ ~(addr < offset)
  BY <1>6, <1>9, <1>10, <1>11
<1> HIDE DEF odd
<1>13. Sane(x)
  <2>1. Sane(Gathered(e, reserved))
    BY <1>8, SaneGathered DEF n
  <2> QED
    BY <1>9, <2>1, SaneMoveShdrs
<1> HIDE DEF x
<1>14. Sane(MakeRoom(x, offset, addr))
  BY <1>9, <1>13, SaneMakeRoom
<1> QED
  BY <1>r, <1>12, <1>14

\* Laying out a program: code that stays in the way is found, and the space in
\* front of it is counted as it is filled.
LEMMA SaneExecutable ==
    ASSUME NEW e, Sane(e), e.shdrs[0].sh_offset = 0,
           \A i \in 1 .. e.hdr.e_shnum - 1 : e.shdrs[i].sh_offset >= Word,
           Anchored(e), e.page = PageSize, DOMAIN e.rep \subseteq Replaceable,
           \E i \in 1 .. e.hdr.e_shnum - 1 : e.shdrs[i].sh_name \in DOMAIN e.rep
    PROVE  Sane(rewriteSectionsExecutable(e))
<1> DEFINE s == sortShdrs(e)
           n == e.hdr.e_shnum
           N == 1 .. n - 1
<1>0. e \in Object
  BY DEF Sane
<1>1. Sane(s) /\ s.page = e.page /\ s.hdr.e_shnum = n /\ s.rep = e.rep
  BY <1>0, SaneSortShdrs, SortShdrsTypes
<1>2. PICK p, q : AnchoredAt(s.shdrs, n, p, q)
  BY <1>0, AnchoredSorted
<1>3. \E i \in N : s.shdrs[i].sh_name \in DOMAIN s.rep
  <2>1. PICK r \in [N -> N] : \A i \in N : Similar(s.shdrs[r[i]], e.shdrs[i])
    BY <1>0, SortedTable
  <2>2. PICK i \in N : e.shdrs[i].sh_name \in DOMAIN e.rep
    OBVIOUS
  <2> HIDE DEF s, n, N
  <2>3. r[i] \in N /\ Similar(s.shdrs[r[i]], e.shdrs[i])
    BY ONLY <2>1, i \in N
  <2> QED
    BY <1>1, <2>2, <2>3 DEF Similar
<1> HIDE DEF s
<1>4. /\ AnchoredAt(s.shdrs, s.hdr.e_shnum, p, q) /\ s.page = PageSize
      /\ DOMAIN s.rep \subseteq Replaceable
      /\ \E i \in 1 .. s.hdr.e_shnum - 1 : s.shdrs[i].sh_name \in DOMAIN s.rep
  BY <1>1, <1>2, <1>3
<1>5. Sane(RewriteSorted(s))
  BY <1>1, <1>4, SaneSorted
<1> QED
  BY <1>5 DEF rewriteSectionsExecutable, s

-----------------------------------------------------------------------------
(* A run on a file as a linker makes it.                                   *)

\* What laying the file out takes: the object was parsed from a file as a
\* linker makes it, and at most sections that may be replaced were.
LEMMA SaneSections ==
    ASSUME NEW b \in Object, Linked(b), b.page = PageSize,
           b.hdr.e_type \in {"ET_EXEC", "ET_DYN"}, OldNames(b),
           NEW e, KeptAs(b, e), NEW t \in {"kept", "swapped"}, UIntRange % PageSize = 0
    PROVE  Sane(rewriteSections([e EXCEPT !.ties = t]))
<1> DEFINE x == [e EXCEPT !.ties = t]
           N == 1 .. e.hdr.e_shnum - 1
<1>1. e \in Object /\ SameFrame(b, e) /\ KnownSections(b, e) /\ e.err = ""
  BY DEF KeptAs
<1>2. /\ e.hdr = b.hdr /\ e.shdrs = b.shdrs /\ e.page = b.page
      /\ e.old = b.old /\ e.oldSize = b.oldSize
  BY <1>1 DEF SameFrame
<1>3. Sane(e)
  BY <1>1, <1>2 DEF Sane, OldNames
<1>4. Sane(x)
  BY <1>3, SaneUpdates
<1>5. /\ x.hdr = e.hdr /\ x.shdrs = e.shdrs /\ x.page = e.page /\ x.rep = e.rep
  BY <1>1 DEF Object, Elf_Object
<1> HIDE DEF x
<1>6. CASE x.rep = <<>>
  BY <1>4, <1>6 DEF rewriteSections, x
<1>7. CASE x.rep # <<>> /\ x.hdr.e_type = "ET_DYN"
  <2>1. UIntRange % x.page = 0
    BY <1>2, <1>5
  <2>2. Sane(rewriteSectionsLibrary(x))
    BY <1>4, <2>1, SaneLibrary
  <2> QED
    BY <1>7, <2>2 DEF rewriteSections, x
<1>8. CASE x.rep # <<>> /\ x.hdr.e_type # "ET_DYN"
  <2>1. LaidOut(b) /\ Anchored(b)
    BY <1>2, <1>5, <1>8 DEF Linked
  <2>2. Anchored(x)
    BY <1>2, <1>5, <2>1 DEF Anchored
  <2>3. x.shdrs[0].sh_offset = 0 /\ \A i \in 1 .. x.hdr.e_shnum - 1 : x.shdrs[i].sh_offset >= Word
    BY <1>2, <1>5, <2>1, ZenonT(60) DEF LaidOut
  <2>4. x.page = PageSize /\ DOMAIN x.rep \subseteq Replaceable
    BY <1>1, <1>2, <1>5 DEF KnownSections
  <2>5. PICK n \in DOMAIN x.rep : findSection3(b, n) # 0
    <3>1. DOMAIN x.rep # {}
      <4>1. x \in Object
        BY <1>4 DEF Sane
      <4>2. x.rep \in UNION {[D -> Seq(Cell)] : D \in SUBSET SectionName}
        BY <4>1, ObjectFields DEF Strings
      <4> DEFINE r == x.rep
      <4> HIDE DEF r
      <4>3. PICK D \in SUBSET SectionName : r \in [D -> Seq(Cell)]
        BY <4>2 DEF r
      <4>4. DOMAIN r = D /\ \A f \in [{} -> Seq(Cell)] : f = <<>>
        BY <4>3
      <4>5. D # {}
        BY <1>8, <4>3, <4>4 DEF r
      <4> QED
        BY <4>4, <4>5 DEF r
    <3> QED
      BY <1>1, <1>5, <3>1 DEF KnownSections
  <2>6. \E i \in 1 .. x.hdr.e_shnum - 1 : x.shdrs[i].sh_name \in DOMAIN x.rep
    <3>1. /\ findSection3(b, n) \in 1 .. b.hdr.e_shnum - 1
          /\ b.shdrs[findSection3(b, n)].sh_name = n
      BY <2>5, FoundIs
    <3> QED
      BY ONLY <1>2, <1>5, <2>5, <3>1
  <2>7. Sane(rewriteSectionsExecutable(x))
    BY <1>4, <2>2, <2>3, <2>4, <2>6, SaneExecutable
  <2> QED
    BY <1>8, <2>7 DEF rewriteSections, x
<1> QED
  BY <1>6, <1>7, <1>8 DEF x

\* What parse() gives.
LEMMA ParseGives ==
    ASSUME NEW file \in Seq(Cell), NEW page \in Nat \ {0},
           parse(file, page).err = "", ~Foreign(parse(file, page))
    PROVE  LET b == parse(file, page)
           IN  /\ b \in Object /\ b.rep = <<>> /\ b.page = page
               /\ b.hdr.e_type \in {"ET_EXEC", "ET_DYN"}
               /\ \A i \in 1 .. b.oldSize - 1 :
                      /\ i \in 1 .. b.hdr.e_shnum - 1 /\ i \in DOMAIN b.old
                      /\ b.old[i] = b.shdrs[i].sh_name
<1> DEFINE b == parse(file, page)
           h == file[1]
           exec == \E p \in ToSet(Phdrs(file, h)) : p.p_type = "PT_INTERP"
           size == IF h.ei_data # "ELFDATA2LSB" THEN Swapped(h.e_shnum) ELSE h.e_shnum
           old == [i \in 1 .. h.e_shnum - 1 |-> Shdrs(file, h)[i].sh_name]
           P == Phdrs(file, h)
           S == Shdrs(file, h)
           e == [contents |-> file, hdr |-> h, phdrs |-> P, shdrs |-> S,
                 rep |-> <<>>, changed |-> FALSE, isExec |-> exec,
                 old |-> old, oldSize |-> size, page |-> page,
                 max |-> Len(file) + MaxGrowth, ties |-> "kept", err |-> ""]
           short == Len(file) < Word \/ h.c # "ehdr"
           bad == \/ h.e_type \notin {"ET_EXEC", "ET_DYN"}
                  \/ h.e_phoff + h.e_phnum * Word > Len(file)
                  \/ h.e_shoff + h.e_shnum * Word > Len(file)
           failed == [NoElf EXCEPT !.err = "error"]
<1>1. parse(file, page) =
          IF short THEN failed
          ELSE IF bad THEN failed
          ELSE IF h.e_shstrndx >= h.e_shnum THEN Fail(e, "abort")
          ELSE IF e.oldSize < h.e_shnum THEN Fail(e, "undefined") ELSE e
  BY Zenon DEF parse
<1>2. failed.err = "error"
  BY DEF NoElf
<1>3. Fail(e, "abort").err = "abort" /\ Fail(e, "undefined").err = "undefined"
  <2>1. e.err = "" /\ \A x : [e EXCEPT !.err = x].err = x
    OBVIOUS
  <2> HIDE DEF e
  <2> QED
    BY <2>1 DEF Fail
<1>4. /\ e.hdr = h /\ e.rep = <<>> /\ e.page = page /\ e.oldSize = size /\ e.old = old
      /\ e.shdrs = S
  OBVIOUS
<1>5. DOMAIN old = 1 .. h.e_shnum - 1 /\ \A i \in DOMAIN old : old[i] = S[i].sh_name
  OBVIOUS
<1>6. ~bad => h.e_type \in {"ET_EXEC", "ET_DYN"}
  OBVIOUS
<1> HIDE DEF e, failed, short, bad, old, exec, size, P, S
<1>7. b = e /\ ~bad
  BY <1>1, <1>2, <1>3
<1>8. size = h.e_shnum
  BY <1>4, <1>7 DEF Foreign, size
<1>9. b \in Object
  BY ParseTypes
<1> HIDE DEF b
<1>10. /\ b \in Object /\ b.rep = <<>> /\ b.page = page
       /\ b.hdr.e_type \in {"ET_EXEC", "ET_DYN"}
       /\ \A i \in 1 .. b.oldSize - 1 :
              /\ i \in 1 .. b.hdr.e_shnum - 1 /\ i \in DOMAIN b.old
              /\ b.old[i] = b.shdrs[i].sh_name
  BY <1>4, <1>5, <1>6, <1>7, <1>8, <1>9
<1> QED
  BY <1>10 DEF b

\* An object parsed from such a file is one that the methods can work on.
LEMMA WellFormedReady ==
    ASSUME NEW file \in Seq(Cell), WellFormed(file)
    PROVE  LET b == parse(file, PageSize)
           IN  /\ Ready(b) /\ Linked(b) /\ b.page = PageSize
               /\ b.hdr.e_type \in {"ET_EXEC", "ET_DYN"}
               /\ OldNames(b)
<1> DEFINE b == parse(file, PageSize)
<1>1. b.err = "" /\ Linked(b)
  BY DEF WellFormed
<1>2. LaidOut(b) /\ ~Foreign(b)
  BY <1>1 DEF Linked, LaidOut
<1>3. PageSize \in Nat \ {0}
  BY PatchElfAssumption
<1>4. /\ b \in Object /\ b.rep = <<>> /\ b.page = PageSize
      /\ b.hdr.e_type \in {"ET_EXEC", "ET_DYN"}
  BY <1>1, <1>2, <1>3, ParseGives
<1>5. \A i \in 1 .. b.oldSize - 1 : /\ i \in 1 .. b.hdr.e_shnum - 1 /\ i \in DOMAIN b.old
                                   /\ b.old[i] = b.shdrs[i].sh_name
  BY <1>1, <1>2, <1>3, ParseGives
<1> HIDE DEF b
<1>6. \A i \in 1 .. b.hdr.e_shnum - 1 : b.shdrs[i].sh_name # ""
  BY <1>2 DEF LaidOut
<1>7. OldNames(b)
  BY ONLY <1>5, <1>6 DEF OldNames
<1>8. DOMAIN b.rep = {}
  BY <1>4, NoneReplaced
<1>9. KnownSections(b, b) /\ ".dynamic" \notin DOMAIN b.rep /\ ".dynstr" \notin DOMAIN b.rep
  BY ONLY <1>8 DEF KnownSections
<1>10. Ready(b)
  BY <1>1, <1>2, <1>4, <1>9 DEF Ready, Linked
<1> QED
  BY <1>1, <1>4, <1>7, <1>10 DEF b

-----------------------------------------------------------------------------
(* The steps of such a run.                                                *)

\* The parts that may make .dynstr or .dynamic grow.
Grows(step) ==
    \/ step \in {"setSoname", "replaceNeeded", "addNeeded", "noDefaultLib"}
    \/ step = "modifyRPath" /\ opt.path # "rpRemove"

\* The page size is the one of the machine, and behind the part that may make
\* them grow the run is asked for none that takes them as they are in the file.
OneGrowth ==
    /\ opt.page = PageSize
    /\ \A j, k \in DOMAIN Steps :
           /\ j < k /\ AskedFor(Steps[j]) /\ AskedFor(Steps[k]) /\ Grows(Steps[j])
           => Steps[k] \in {"setInterpreter", "printNeeded"}

\* Nothing has grown before part k.
Fresh(k) == \A j \in 1 .. k - 1 : AskedFor(Steps[j]) => ~Grows(Steps[j])

\* What a run has made of the object b that it has parsed.
RunKept(b) ==
    /\ pc = "failed" => elf.err \in {"", "error"}
    /\ pc = "rewrite" => KeptAs(b, elf)
    /\ \A k \in DOMAIN Steps :
           pc = Steps[k] => /\ AskedFor(Steps[k]) /\ KeptAs(b, elf)
                            /\ Fresh(k) => Ready(elf)

RunInv ==
    /\ Inv
    /\ pc \in {"write", "done", "torn"} => elf.err = ""
    /\ WellFormed(disk) /\ OneGrowth => RunKept(parse(disk, PageSize))

LEMMA StepNumbers ==
    /\ DOMAIN Steps = 1 .. 11
    /\ \A j, k \in 1 .. 11 : Steps[j] = Steps[k] => j = k
    /\ \A k \in 1 .. 11 : Steps[k] \in ToSet(Steps)
    /\ \A s \in ToSet(Steps) : \E k \in 1 .. 11 : Steps[k] = s
<1>1. DOMAIN Steps = 1 .. 11
  BY DEF Steps
<1>2. \A j, k \in 1 .. 11 : Steps[j] = Steps[k] => j = k
  BY DEF Steps
<1>3. /\ \A k \in 1 .. 11 : Steps[k] \in ToSet(Steps)
      /\ \A s \in ToSet(Steps) : \E k \in 1 .. 11 : Steps[k] = s
  BY <1>1 DEF ToSet
<1> QED
  BY <1>1, <1>2, <1>3

\* The next part is a later one that is asked for.
LEMMA FromIs ==
    ASSUME NEW k \in Nat \ {0}
    PROVE  \/ From(k) = "rewrite"
           \/ \E m \in 1 .. 11 : m >= k /\ From(k) = Steps[m] /\ AskedFor(Steps[m])
<1> DEFINE asked == {j \in k .. Len(Steps) : AskedFor(Steps[j])}
           i == Min(asked)
<1>1. From(k) = IF asked = {} THEN "rewrite" ELSE Steps[i]
  BY DEF From
<1>2. Len(Steps) = 11
  BY DEF Steps
<1>3. ASSUME asked # {} PROVE i \in 1 .. 11 /\ i >= k /\ AskedFor(Steps[i])
  <2>1. asked \subseteq Nat
    BY <1>2
  <2>2. i \in asked
    <3> HIDE DEF asked
    <3> QED
      BY <1>3, <2>1, LeastNat
  <2> QED
    BY <1>2, <2>2
<1> HIDE DEF asked, i
<1> QED
  BY <1>1, <1>3

LEMMA AfterIs ==
    ASSUME NEW k \in 1 .. 11
    PROVE  After(Steps[k]) = From(k + 1)
<1> DEFINE i == CHOOSE i \in DOMAIN Steps : Steps[i] = Steps[k]
<1>1. i = k
  BY StepNumbers
<1>2. After(Steps[k]) = From(1 + i)
  BY DEF After
<1> HIDE DEF i
<1> QED
  BY <1>1, <1>2

\* "rewrite" is no name of a part, nor is what comes behind it.
LEMMA OtherPhases ==
    ASSUME NEW k \in 1 .. 11
    PROVE  Steps[k] \notin {"main", "rewrite", "write", "done", "failed", "torn"}
BY StepNumbers, StepNames

\* What the options ask for stays the same.
LEMMA SameAsked ==
    ASSUME opt' = opt
    PROVE  /\ \A s : AskedFor(s)' <=> AskedFor(s)
           /\ \A s : Grows(s)' <=> Grows(s)
           /\ \A k : Fresh(k)' <=> Fresh(k)
           /\ OneGrowth' <=> OneGrowth
<1>1. \A s : (AskedFor(s)' <=> AskedFor(s)) /\ (Grows(s)' <=> Grows(s))
  BY DEF AskedFor, Grows
<1>2. \A k : Fresh(k)' <=> Fresh(k)
  BY <1>1 DEF Fresh
<1>3. OneGrowth' <=> OneGrowth
  BY <1>1 DEF OneGrowth
<1> QED
  BY <1>1, <1>2, <1>3

\* The object goes on to the parts from k on.
LEMMA GoesOnKept ==
    ASSUME NEW k \in 1 .. 12, NEW b, KeptAs(b, elf'), opt' = opt,
           Fresh(k) => Ready(elf'), elf'.err = "", pc' = From(k)
    PROVE  RunKept(b)'
<1>1. \A s : AskedFor(s)' <=> AskedFor(s)
  BY SameAsked
<1>2. CASE From(k) = "rewrite"
  <2>1. \A m \in DOMAIN Steps : pc' # Steps[m]
    BY <1>2, StepNumbers, OtherPhases
  <2> QED
    BY <1>2, <2>1 DEF RunKept
<1>3. ASSUME NEW m \in 1 .. 11, m >= k, From(k) = Steps[m], AskedFor(Steps[m])
      PROVE  RunKept(b)'
  <2>1. pc' \notin {"failed", "rewrite"}
    BY <1>3, OtherPhases
  <2>2. \A n \in DOMAIN Steps : pc' = Steps[n] => n = m
    BY <1>3, StepNumbers
  <2>3. Fresh(m)' => Fresh(k)
    <3> SUFFICES ASSUME Fresh(m), NEW j \in 1 .. k - 1, AskedFor(Steps[j])
                 PROVE  ~Grows(Steps[j])
      BY SameAsked DEF Fresh
    <3>1. j \in 1 .. m - 1
      BY ONLY <1>3, k \in 1 .. 12, m \in 1 .. 11, j \in 1 .. k - 1
    <3> QED
      BY <3>1 DEF Fresh
  <2>4. AskedFor(Steps[m])'
    BY <1>1, <1>3
  <2>5. \A n \in DOMAIN Steps :
            pc' = Steps[n] => AskedFor(Steps[n])' /\ KeptAs(b, elf') /\ (Fresh(n)' => Ready(elf'))
    BY <2>2, <2>3, <2>4
  <2> QED
    BY <2>1, <2>5 DEF RunKept
<1>4. \/ From(k) = "rewrite"
      \/ \E m \in 1 .. 11 : m >= k /\ From(k) = Steps[m] /\ AskedFor(Steps[m])
  <2>1. k \in Nat \ {0}
    BY ONLY k \in 1 .. 12
  <2> QED
    BY <2>1, FromIs
<1> QED
  BY <1>2, <1>3, <1>4

\* A part of patchElf2 has been gone through.
Went(k, g) ==
    /\ pc = Steps[k] /\ opt' = opt /\ elf' = g
    /\ pc' = IF g.err # "" THEN "failed" ELSE After(Steps[k])

LEMMA WentBy ==
    ASSUME NEW k, NEW g, Do(Steps[k], g)
    PROVE  Went(k, g)
BY DEF Do, Went

\* A part that keeps the object, or ends the run with an error().
LEMMA PartKept ==
    ASSUME NEW k \in 1 .. 11, NEW b, RunKept(b), NEW g, Went(k, g),
           g.err \in {"", "error"}, g.err = "" => KeptAs(b, g),
           g.err = "" /\ Fresh(k) /\ ~Grows(Steps[k]) => Ready(g)
    PROVE  RunKept(b)'
<1>1. DOMAIN Steps = 1 .. 11 /\ After(Steps[k]) = From(k + 1)
  BY StepNumbers, AfterIs
<1>2. pc = Steps[k] /\ opt' = opt /\ elf' = g
  BY DEF Went
<1>3. AskedFor(Steps[k])
  BY <1>1, <1>2 DEF RunKept
<1>4. CASE g.err # ""
  <2>1. pc' = "failed"
    BY <1>4 DEF Went
  <2>2. \A m \in DOMAIN Steps : pc' # Steps[m]
    BY <1>1, <2>1, OtherPhases
  <2> QED
    BY <1>2, <2>1, <2>2 DEF RunKept
<1>5. CASE g.err = ""
  <2>1. ASSUME Fresh(k + 1) PROVE Fresh(k) /\ ~Grows(Steps[k])
    <3>1. k \in 1 .. (k + 1) - 1 /\ \A j \in 1 .. k - 1 : j \in 1 .. (k + 1) - 1
      BY ONLY k \in 1 .. 11
    <3> QED
      BY ONLY <1>3, <2>1, <3>1 DEF Fresh
  <2>2. Fresh(k + 1) => Ready(elf')
    BY <1>2, <1>5, <2>1
  <2>3. k + 1 \in 1 .. 12
    BY ONLY k \in 1 .. 11
  <2>4. pc' = From(k + 1)
    BY <1>1, <1>5 DEF Went
  <2> QED
    BY <1>2, <1>5, <2>2, <2>3, <2>4, GoesOnKept
<1> QED
  BY <1>4, <1>5

\* What a part has of the object.
LEMMA PartHas ==
    ASSUME NEW k \in 1 .. 11, NEW b, RunKept(b), pc = Steps[k]
    PROVE  /\ KeptAs(b, elf) /\ elf \in Object /\ elf.err = "" /\ KeptAs(elf, elf)
           /\ Fresh(k) => Ready(elf)
           /\ OneGrowth /\ Steps[k] \notin {"setInterpreter", "printNeeded"} => Ready(elf)
<1>1. DOMAIN Steps = 1 .. 11
  BY StepNumbers
<1>2. AskedFor(Steps[k]) /\ KeptAs(b, elf) /\ (Fresh(k) => Ready(elf))
  BY <1>1 DEF RunKept
<1>3. elf \in Object /\ elf.err = "" /\ SameFrame(b, elf) /\ KnownSections(b, elf)
  BY <1>2 DEF KeptAs
<1>4. KeptAs(elf, elf)
  <2>1. \A n : findSection3(elf, n) = findSection3(b, n)
    BY <1>3, FoundAlike DEF SameFrame
  <2>2. KnownSections(elf, elf)
    BY <1>3, <2>1 DEF KnownSections
  <2>3. SameFrame(elf, elf) /\ Untouched(elf, elf)
    BY <1>3, FrameOf DEF Untouched
  <2> QED
    BY <1>3, <2>2, <2>3 DEF KeptAs
<1>5. OneGrowth /\ Steps[k] \notin {"setInterpreter", "printNeeded"} => Fresh(k)
  <2> SUFFICES ASSUME OneGrowth, Steps[k] \notin {"setInterpreter", "printNeeded"},
                      NEW j \in 1 .. k - 1, AskedFor(Steps[j])
               PROVE  ~Grows(Steps[j])
    BY DEF Fresh
  <2>1. j \in 1 .. 11 /\ j < k
    BY ONLY k \in 1 .. 11, j \in 1 .. k - 1
  <2> QED
    BY <1>1, <1>2, <2>1 DEF OneGrowth
<1> QED
  BY <1>2, <1>3, <1>4, <1>5

\* A part that works on an object that it is ready for.
LEMMA OutcomeKept ==
    ASSUME NEW k \in 1 .. 11, NEW b, RunKept(b), NEW g, Went(k, g), Outcome(elf, g),
           g.err = "" /\ ~Grows(Steps[k]) => Ready(g)
    PROVE  RunKept(b)'
<1>1. KeptAs(b, elf)
  BY PartHas DEF Went
<1>2. g.err \in {"", "error"} /\ (g.err = "" => KeptAs(b, g))
  BY <1>1, KeptTrans DEF Outcome
<1> QED
  BY <1>2, PartKept

\* The parts that only print.
LEMMA PrintsKept ==
    ASSUME NEW b, RunKept(b), OneGrowth,
           PrintInterpreter \/ PrintSoname \/ PrintRPath \/ PrintNeeded
    PROVE  RunKept(b)'
<1>1. /\ Steps[1] = "printInterpreter" /\ Steps[2] = "printSoname"
      /\ Steps[5] = "printRPath" /\ Steps[7] = "printNeeded"
  BY DEF Steps
<1>2. ASSUME NEW k \in 1 .. 11, NEW names, Went(k, Find(elf, names))
      PROVE  RunKept(b)'
  <2> DEFINE g == Find(elf, names)
  <2>1. KeptAs(b, elf) /\ elf \in Object /\ elf.err = "" /\ (Fresh(k) => Ready(elf))
    BY <1>2, PartHas DEF Went
  <2>2. g = elf \/ g.err = "error"
    BY <2>1, FindIs
  <2>3. Went(k, g)
    BY <1>2
  <2> HIDE DEF g
  <2> QED
    BY <2>1, <2>2, <2>3, PartKept
<1>3. ASSUME NEW k \in {2, 5}, NEW g, Went(k, g), g \in {elf, CheckStrTab(elf)}
      PROVE  RunKept(b)'
  <2>1. k \in 1 .. 11 /\ Steps[k] \notin {"setInterpreter", "printNeeded"}
    BY <1>1
  <2>2. Ready(elf)
    BY <1>3, <2>1, PartHas DEF Went
  <2>3. Outcome(elf, g) /\ (g.err = "" => g = elf)
    BY <1>3, <2>2, CheckStrTabMakes, SameOutcome
  <2> QED
    BY <1>3, <2>1, <2>2, <2>3, OutcomeKept
<1>4. CASE PrintInterpreter
  <2> DEFINE g == Find(elf, {".interp"})
  <2>1. Went(1, g) /\ 1 \in 1 .. 11
    <3>1. /\ pc = "printInterpreter" /\ opt' = opt /\ elf' = g
          /\ pc' = IF g.err # "" THEN "failed" ELSE After("printInterpreter")
      BY <1>4 DEF PrintInterpreter, Printed
    <3> HIDE DEF g
    <3>2. Steps[1] = "printInterpreter" /\ 1 \in 1 .. 11
      BY <1>1
    <3> QED
      BY ONLY <3>1, <3>2, Zenon DEF Went
  <2> QED
    BY <1>2, <2>1
<1>5. CASE PrintSoname
  <2> DEFINE g == IF elf.hdr.e_type = "ET_DYN" THEN CheckStrTab(elf) ELSE elf
  <2>1. Went(2, g)
    <3>1. /\ pc = "printSoname" /\ opt' = opt /\ elf' = g
          /\ pc' = IF g.err # "" THEN "failed" ELSE After("printSoname")
      BY <1>5 DEF PrintSoname, Printed
    <3> HIDE DEF g
    <3>2. Steps[2] = "printSoname"
      BY <1>1
    <3> QED
      BY ONLY <3>1, <3>2, Zenon DEF Went
  <2>2. g \in {elf, CheckStrTab(elf)} /\ 2 \in {2, 5}
    OBVIOUS
  <2> HIDE DEF g
  <2> QED
    BY <1>3, <2>1, <2>2
<1>6. CASE PrintRPath
  <2> DEFINE g == CheckStrTab(elf)
  <2>1. Went(5, g)
    <3>1. /\ pc = "printRPath" /\ opt' = opt /\ elf' = g
          /\ pc' = IF g.err # "" THEN "failed" ELSE After("printRPath")
      BY <1>6 DEF PrintRPath, Printed
    <3> HIDE DEF g
    <3>2. Steps[5] = "printRPath"
      BY <1>1
    <3> QED
      BY ONLY <3>1, <3>2, Zenon DEF Went
  <2>2. g \in {elf, CheckStrTab(elf)} /\ 5 \in {2, 5}
    OBVIOUS
  <2> HIDE DEF g
  <2> QED
    BY <1>3, <2>1, <2>2
<1>7. CASE PrintNeeded
  <2> DEFINE g == Find(elf, {".dynamic", ".dynstr"})
  <2>1. Went(7, g) /\ 7 \in 1 .. 11
    <3>1. /\ pc = "printNeeded" /\ opt' = opt /\ elf' = g
          /\ pc' = IF g.err # "" THEN "failed" ELSE After("printNeeded")
      BY <1>7 DEF PrintNeeded, Printed
    <3> HIDE DEF g
    <3>2. Steps[7] = "printNeeded" /\ 7 \in 1 .. 11
      BY <1>1
    <3> QED
      BY ONLY <3>1, <3>2, Zenon DEF Went
  <2> QED
    BY <1>2, <2>1
<1> QED
  BY <1>4, <1>5, <1>6, <1>7

\* The parts that change something.
LEMMA EditsKept ==
    ASSUME Inv, NEW b, RunKept(b), OneGrowth,
           \/ SetSoname \/ SetInterpreter \/ ModifyRPath \/ RemoveNeeded
           \/ ReplaceNeeded \/ AddNeeded \/ NoDefaultLib
    PROVE  RunKept(b)'
<1>1. /\ Steps[3] = "setSoname" /\ Steps[4] = "setInterpreter" /\ Steps[6] = "modifyRPath"
      /\ Steps[8] = "removeNeeded" /\ Steps[9] = "replaceNeeded"
      /\ Steps[10] = "addNeeded" /\ Steps[11] = "noDefaultLib"
  BY DEF Steps
<1>2. \A k \in {3, 6, 8, 9, 10, 11} :
          k \in 1 .. 11 /\ Steps[k] \notin {"setInterpreter", "printNeeded"}
  BY <1>1
<1>3. \A k \in {3, 9, 10, 11} : Grows(Steps[k])
  BY <1>1 DEF Grows
<1>4. ASSUME NEW k \in {3, 6, 8, 9, 10, 11}, NEW g, Do(Steps[k], g),
             Ready(elf) => Outcome(elf, g) /\ (g.err = "" /\ ~Grows(Steps[k]) => Ready(g))
      PROVE  RunKept(b)'
  <2>1. k \in 1 .. 11 /\ Steps[k] \notin {"setInterpreter", "printNeeded"} /\ Went(k, g)
    BY <1>2, <1>4, WentBy
  <2>2. Ready(elf)
    BY <2>1, PartHas DEF Went
  <2> QED
    BY <1>4, <2>1, <2>2, OutcomeKept
<1>5. opt \in OptionSet
  BY DEF Inv
<1>6. CASE SetSoname
  <2>1. Do(Steps[3], modifySoname(elf, opt.soname))
    BY <1>1, <1>6 DEF SetSoname
  <2>2. opt.soname \in Seq(Character)
    BY <1>1, <1>5, <2>1, OptionFields DEF Inv, Do
  <2>3. Ready(elf) => Outcome(elf, modifySoname(elf, opt.soname))
    BY <2>2, ModifySonameMakes
  <2> QED
    BY <1>3, <1>4, <2>1, <2>3
<1>7. CASE SetInterpreter
  <2> DEFINE g == setInterpreter(elf, opt.interp)
  <2>1. Do(Steps[4], g) /\ 4 \in 1 .. 11
    BY <1>1, <1>7 DEF SetInterpreter
  <2>2. opt.interp \in Seq(Character)
    BY <1>5, OptionFields
  <2>3. Went(4, g)
    BY <2>1, WentBy
  <2>4. KeptAs(b, elf) /\ KeptAs(elf, elf) /\ (Fresh(4) => Ready(elf))
    BY <2>1, <2>3, PartHas DEF Went
  <2>5. g.err \in {"", "error"} /\ (g.err = "" => KeptAs(elf, g))
    BY <2>2, <2>4, SetInterpreterKeeps
  <2>6. Ready(elf) => (g.err = "" => Ready(g))
    BY <2>2, SetInterpreterMakes
  <2> HIDE DEF g
  <2>7. g.err = "" => KeptAs(b, g)
    BY <2>4, <2>5, KeptTrans
  <2> QED
    BY <2>1, <2>3, <2>4, <2>5, <2>6, <2>7, PartKept
<1>8. CASE ModifyRPath
  <2> DEFINE g == modifyRPath(elf, opt.path, opt.rpath, opt.force)
  <2>1. Do(Steps[6], g)
    BY <1>1, <1>8 DEF ModifyRPath
  <2>2. opt.rpath \in Seq(Character)
    BY <1>5, OptionFields
  <2>3. Ready(elf) => Outcome(elf, g) /\ (opt.path = "rpRemove" /\ g.err = "" => Ready(g))
    BY <2>2, ModifyRPathMakes
  <2>4. ~Grows(Steps[6]) => opt.path = "rpRemove"
    BY <1>1 DEF Grows
  <2> HIDE DEF g
  <2> QED
    BY <1>4, <2>1, <2>3, <2>4
<1>9. CASE RemoveNeeded
  <2> DEFINE g == removeNeeded(elf, opt.remove)
  <2>1. Do(Steps[8], g)
    BY <1>1, <1>9 DEF RemoveNeeded
  <2>2. Ready(elf) => Outcome(elf, g) /\ (g.err = "" => Ready(g))
    BY RemoveNeededMakes
  <2> HIDE DEF g
  <2> QED
    BY <1>4, <2>1, <2>2
<1>10. CASE ReplaceNeeded
  <2>1. Do(Steps[9], replaceNeeded(elf, opt.replace))
    BY <1>1, <1>10 DEF ReplaceNeeded
  <2>2. PICK D \in SUBSET Seq(Character) : opt.replace \in [D -> Seq(Character)]
    BY <1>5, OptionFields
  <2>3. Ready(elf) => Outcome(elf, replaceNeeded(elf, opt.replace))
    BY <2>2, ReplaceNeededMakes
  <2> QED
    BY <1>3, <1>4, <2>1, <2>3
<1>11. CASE AddNeeded
  <2>1. Do(Steps[10], addNeeded(elf, InOrder(opt.add)))
    BY <1>1, <1>11 DEF AddNeeded
  <2>2. InOrder(opt.add) \in Seq(Seq(Character))
    BY <1>5, OptionFields, InOrderTypes
  <2>3. Ready(elf) => Outcome(elf, addNeeded(elf, InOrder(opt.add)))
    BY <2>2, AddNeededMakes
  <2> QED
    BY <1>3, <1>4, <2>1, <2>3
<1>12. CASE NoDefaultLib
  <2>1. Do(Steps[11], noDefaultLib(elf))
    BY <1>1, <1>12 DEF NoDefaultLib
  <2>2. Ready(elf) => Outcome(elf, noDefaultLib(elf))
    BY NoDefaultLibMakes
  <2> QED
    BY <1>3, <1>4, <2>1, <2>2
<1> QED
  BY <1>6, <1>7, <1>8, <1>9, <1>10, <1>11, <1>12

\* Reading the file.
LEMMA ReadFileRun ==
    ASSUME Inv, ReadFile, WellFormed(disk), OneGrowth
    PROVE  RunKept(parse(disk, PageSize))'
<1>1. PICK b : b = parse(disk, PageSize)
  OBVIOUS
<1>2. disk \in Seq(Cell)
  BY DEF Inv
<1>3. Ready(b) /\ KeptAs(b, b) /\ b.err = ""
  BY <1>1, <1>2, WellFormedReady, SameOutcome DEF Ready
<1>4. elf' = b /\ pc' = From(1) /\ opt' = opt /\ disk' = disk
  BY <1>1, <1>3 DEF ReadFile, OneGrowth
<1>5. 1 \in 1 .. 12
  OBVIOUS
<1>6. RunKept(b)'
  BY <1>3, <1>4, <1>5, GoesOnKept
<1>7. b = parse(disk, PageSize)'
  BY <1>1, <1>4
<1> QED
  BY <1>6, <1>7

\* Laying the file out again.
LEMMA RewriteRun ==
    ASSUME Inv, Rewrite, WellFormed(disk), RunKept(parse(disk, PageSize)),
           UIntRange % PageSize = 0
    PROVE  elf'.err \in {"", "error"}
<1>1. PICK b : b = parse(disk, PageSize)
  OBVIOUS
<1>2. disk \in Seq(Cell) /\ pc = "rewrite"
  BY DEF Inv, Rewrite
<1>3. /\ Ready(b) /\ Linked(b) /\ b.page = PageSize
      /\ b.hdr.e_type \in {"ET_EXEC", "ET_DYN"}
      /\ OldNames(b)
  BY <1>1, <1>2, WellFormedReady
<1>4. KeptAs(b, elf) /\ elf.err = ""
  BY <1>1, <1>2 DEF RunKept, KeptAs
<1>5. b \in Object
  BY <1>3 DEF Ready
<1>6. PICK ties \in {"kept", "swapped"} :
          elf' = IF elf.changed THEN rewriteSections([elf EXCEPT !.ties = ties]) ELSE elf
  BY DEF Rewrite
<1>7. Sane(rewriteSections([elf EXCEPT !.ties = ties]))
  BY <1>3, <1>4, <1>5, SaneSections
<1> QED
  BY <1>4, <1>6, <1>7 DEF Sane

\* A run that has ended, or has not begun, has nothing left to keep.
LEMMA OutOfParts ==
    ASSUME pc' \in {"main", "failed", "write", "done", "torn"},
           pc' = "failed" => elf'.err \in {"", "error"}
    PROVE  \A b : RunKept(b)'
<1>1. \A k \in DOMAIN Steps : pc' # Steps[k]
  BY StepNumbers, OtherPhases
<1> QED
  BY <1>1 DEF RunKept

LEMMA RunInit == Init => RunInv
<1> SUFFICES ASSUME Init PROVE RunInv
  OBVIOUS
<1>1. Inv /\ pc = "main"
  BY InitInv DEF Init
<1>2. \A k \in DOMAIN Steps : pc # Steps[k]
  BY <1>1, StepNumbers, OtherPhases
<1>3. \A b : RunKept(b)
  BY <1>1, <1>2 DEF RunKept
<1> QED
  BY <1>1, <1>3 DEF RunInv

LEMMA RunStep ==
    ASSUME RunInv, [Next]_vars, UIntRange % PageSize = 0
    PROVE  RunInv'
<1> DEFINE Kept == WellFormed(disk) /\ OneGrowth => RunKept(parse(disk, PageSize))
           Ended == pc \in {"write", "done", "torn"} => elf.err = ""
           Out == {"main", "failed", "write", "done", "torn"}
<1>1. Inv' /\ Inv
  BY InvKept DEF RunInv
<1>2. Kept /\ Ended
  BY DEF RunInv
<1>3. ASSUME pc' \in Out, pc' = "failed" => elf'.err \in {"", "error"} PROVE Kept'
  <2>1. PICK b : b = parse(disk, PageSize)'
    OBVIOUS
  <2>2. RunKept(b)'
    BY <1>3, OutOfParts
  <2>3. RunKept(parse(disk, PageSize))'
    BY <2>1, <2>2
  <2> QED
    BY <2>3
<1>4. ASSUME opt' = opt, disk' = disk,
             ASSUME WellFormed(disk), OneGrowth, RunKept(parse(disk, PageSize))
             PROVE  RunKept(parse(disk, PageSize))'
      PROVE  Kept'
  <2>1. OneGrowth' <=> OneGrowth
    BY <1>4, SameAsked
  <2>2. WellFormed(disk)' <=> WellFormed(disk)
    BY <1>4
  <2> QED
    BY <1>2, <1>4, <2>1, <2>2
<1>5. CASE Argument
  <2>1. pc' = "main"
    BY <1>5 DEF Argument
  <2> QED
    BY <1>1, <1>3, <2>1 DEF RunInv
<1>6. CASE BadUsage
  <2>1. pc' = "failed" /\ elf' = NoElf
    BY <1>1, <1>6 DEF BadUsage, Inv
  <2>2. elf'.err = ""
    BY <2>1 DEF NoElf
  <2> QED
    BY <1>1, <1>3, <2>1, <2>2 DEF RunInv
<1>7. CASE ReadFile
  <2>1. pc' \notin {"write", "done", "torn"} /\ opt' = opt /\ disk' = disk
    <3>1. pc' \in {"failed", From(1)} /\ opt' = opt /\ disk' = disk
      BY <1>7 DEF ReadFile
    <3>2. From(1) \in ToSet(Steps) \cup {"rewrite"}
      BY FromTypes
    <3> QED
      BY ONLY <3>1, <3>2, StepNames
  <2>2. Kept'
    BY <1>1, <1>4, <1>7, <2>1, ReadFileRun
  <2> QED
    BY <1>1, <2>1, <2>2 DEF RunInv
<1>8. ASSUME \/ PrintInterpreter \/ PrintSoname \/ SetSoname \/ SetInterpreter
             \/ PrintRPath \/ ModifyRPath \/ PrintNeeded
             \/ RemoveNeeded \/ ReplaceNeeded \/ AddNeeded \/ NoDefaultLib
      PROVE  RunInv'
  <2>1. opt' = opt /\ disk' = disk
    BY <1>8 DEF PrintInterpreter, PrintSoname, SetSoname, SetInterpreter, PrintRPath,
                ModifyRPath, PrintNeeded, RemoveNeeded, ReplaceNeeded, AddNeeded,
                NoDefaultLib, Do, Printed
  <2>2. pc' \notin {"write", "done", "torn"}
    <3>1. \E s \in ToSet(Steps) : pc' \in {"failed", After(s)}
      BY <1>8, StepNames
         DEF PrintInterpreter, PrintSoname, SetSoname, SetInterpreter, PrintRPath,
             ModifyRPath, PrintNeeded, RemoveNeeded, ReplaceNeeded, AddNeeded,
             NoDefaultLib, Do, Printed
    <3>2. \A s \in ToSet(Steps) : After(s) \in ToSet(Steps) \cup {"rewrite"}
      BY AfterTypes
    <3> QED
      BY ONLY <3>1, <3>2, StepNames
  <2>3. ASSUME WellFormed(disk), OneGrowth, RunKept(parse(disk, PageSize))
        PROVE  RunKept(parse(disk, PageSize))'
    <3>1. PICK b : b = parse(disk, PageSize)
      OBVIOUS
    <3>2. RunKept(b)
      BY <2>3, <3>1
    <3>3. RunKept(b)'
      BY <1>1, <1>8, <2>3, <3>2, PrintsKept, EditsKept
    <3>4. b = parse(disk, PageSize)'
      BY <2>1, <3>1
    <3> QED
      BY <3>3, <3>4
  <2>4. Kept'
    BY <1>4, <2>1, <2>3
  <2> QED
    BY <1>1, <2>2, <2>4 DEF RunInv
<1>9. CASE Rewrite
  <2>1. opt' = opt /\ disk' = disk
    BY <1>9 DEF Rewrite
  <2>2. pc' \in {"failed", "write", "done"} /\ (elf'.err # "" => pc' = "failed")
    BY <1>9 DEF Rewrite
  <2>3. ASSUME WellFormed(disk), OneGrowth, RunKept(parse(disk, PageSize))
        PROVE  RunKept(parse(disk, PageSize))'
    <3>1. elf'.err \in {"", "error"}
      BY <1>1, <1>9, <2>3, RewriteRun
    <3>2. PICK b : b = parse(disk, PageSize)'
      OBVIOUS
    <3>3. RunKept(b)'
      BY <2>2, <3>1, OutOfParts
    <3> QED
      BY <3>2, <3>3
  <2>4. Kept'
    BY <1>4, <2>1, <2>3
  <2>5. pc' \in {"write", "done", "torn"} => elf'.err = ""
    BY <2>2
  <2> QED
    BY <1>1, <2>4, <2>5 DEF RunInv
<1>10. CASE WriteFile \/ WriteFileFails
  <2>1. pc = "write" /\ pc' \in {"done", "torn"} /\ elf' = elf
    BY <1>10 DEF WriteFile, WriteFileFails
  <2>2. elf'.err = ""
    BY <1>2, <2>1
  <2> QED
    BY <1>1, <1>3, <2>1, <2>2 DEF RunInv
<1>11. CASE RunAgain
  <2>1. pc' = "main"
    BY <1>11 DEF RunAgain
  <2> QED
    BY <1>1, <1>3, <2>1 DEF RunInv
<1>12. CASE UNCHANGED vars
  <2>1. opt' = opt /\ disk' = disk /\ pc' = pc /\ elf' = elf
    BY <1>12 DEF vars
  <2>2. ASSUME NEW b, RunKept(b) PROVE RunKept(b)'
    BY <2>1, <2>2, SameAsked DEF RunKept
  <2>3. ASSUME WellFormed(disk), OneGrowth, RunKept(parse(disk, PageSize))
        PROVE  RunKept(parse(disk, PageSize))'
    <3>1. PICK b : b = parse(disk, PageSize) /\ b = parse(disk, PageSize)'
      BY <2>1
    <3> QED
      BY <2>2, <2>3, <3>1
  <2>4. Kept'
    BY <1>4, <2>1, <2>3
  <2> QED
    BY <1>1, <1>2, <2>1, <2>4 DEF RunInv
<1> QED
  BY <1>5, <1>6, <1>7, <1>8, <1>9, <1>10, <1>11, <1>12 DEF Next

\* However long the strings that patchelf is given, whatever sections they
\* make grow, and wherever the linker has put them: a run on a file as a linker
\* makes it, in which one option makes .dynstr or .dynamic grow, fails no
\* assertion, writes no name behind the table of names by number and computes
\* no first page that wraps around (what is read is not watched).  So the
\* space that rewriteSectionsLibrary and rewriteSectionsExecutable reserve is
\* the space that writeReplacedSections and the program headers take, the
\* sections that have to make room end before one that stays, every entry of
\* .dynamic that the methods go through ends at a DT_NULL, and every section
\* that rewriteHeaders looks up is found.  UIntRange is 2^32: it consists of
\* whole pages on every machine.
THEOREM PatchElfNoAssertFails ==
    ASSUME UIntRange % PageSize = 0
    PROVE  Spec => [](WellFormed(disk) /\ OneGrowth => NoAssertFails)
<1>1. Init => RunInv
  BY RunInit
<1>2. RunInv /\ [Next]_vars => RunInv'
  BY RunStep
<1>3. RunInv => (WellFormed(disk) /\ OneGrowth => NoAssertFails)
  <2> SUFFICES ASSUME RunInv, WellFormed(disk), OneGrowth PROVE NoAssertFails
    OBVIOUS
  <2>1. Inv /\ RunKept(parse(disk, PageSize))
    BY DEF RunInv
  <2>2. CASE pc \in {"write", "done", "torn"}
    <3>1. elf.err = ""
      BY <2>2 DEF RunInv
    <3> QED
      BY ONLY <3>1 DEF NoAssertFails
  <2>3. CASE pc = "main"
    <3>1. elf = NoElf
      BY <2>1, <2>3 DEF Inv
    <3>2. elf.err = ""
      BY ONLY <3>1 DEF NoElf
    <3> QED
      BY ONLY <3>2 DEF NoAssertFails
  <2>4. CASE pc = "failed"
    BY <2>1, <2>4 DEF RunKept, NoAssertFails
  <2>5. CASE pc = "rewrite"
    BY <2>1, <2>5 DEF RunKept, KeptAs, NoAssertFails
  <2>6. CASE pc \in ToSet(Steps)
    <3>1. PICK k \in 1 .. 11 : pc = Steps[k]
      BY <2>6, StepNumbers
    <3>2. KeptAs(parse(disk, PageSize), elf)
      BY <2>1, <3>1, StepNumbers DEF RunKept
    <3> QED
      BY <3>2 DEF KeptAs, NoAssertFails
  <2> QED
    BY <2>1, <2>2, <2>3, <2>4, <2>5, <2>6 DEF Inv, TypeOK
<1> QED
  BY <1>1, <1>2, <1>3, PTL DEF Spec

=============================================================================
