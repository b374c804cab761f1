---------------------------- MODULE Sltar_proofs ----------------------------
(***************************************************************************)
(* Proofs about sltar: types, that reading stays aligned with the entries  *)
(* of a well-formed archive, that extraction keeps the other files, that   *)
(* every entry is listed, that the last entry of a name is what it has     *)
(* after extraction, and that a tree comes back as it was packed.          *)
(***************************************************************************)
EXTENDS Sltar, FiniteSetTheorems, SequenceTheorems, TLAPS

-----------------------------------------------------------------------------
(* Types of what the actions are built from.                               *)

\* A block that says so is a header.
LEMMA HeaderBlock == \A h \in Block : h.c = "header" => h \in Header
  BY DEF Block, Header

LEMMA ZeroBlock == Zero \in Block
  BY DEF Zero, Block

LEMMA DataBlock == \A i \in Nat : [c |-> "data", id |-> i] \in Block
  BY DEF Block

\* c_file() makes a header of every file it is given.
LEMMA HeaderOfType ==
    ASSUME NEW p \in Paths, NEW st \in Node
    PROVE  HeaderOf(p, st) \in Block
<1>1. HeaderOf(p, st) \in Header
  BY SltarAssumption DEF HeaderOf, Header, Node
<1> QED
  BY <1>1 DEF Block

\* What ftw() goes through are files with what stat() says of them.
LEMMA WalksType ==
    ASSUME NEW p \in DOMAIN Source, NEW w \in Walks(p)
    PROVE  w \in Seq([p: Paths, st: Node])
<1> DEFINE S == Within(p)
           n == Cardinality(S)
           W == [p: Paths, st: Node]
           entry(q) == [p |-> q, st |-> Follow(Source[q])]
<1>1. n \in Nat
  <2>1. IsFiniteSet(S)
    BY FS_Subset, SltarAssumption DEF Within
  <2> QED
    BY <2>1, FS_CardinalityType
<1>2. \A q \in DOMAIN Source : entry(q) \in W
  BY SltarAssumption DEF Follow
<1>3. PICK s \in [1 .. n -> S] :
          w = <<entry(p)>> \o [i \in 1 .. n |-> entry(s[i])]
  BY DEF Walks
<1> DEFINE A == <<entry(p)>>
           B == [i \in 1 .. n |-> entry(s[i])]
<1>4. B \in Seq(W)
  <2>1. \A i \in 1 .. n : entry(s[i]) \in W
    BY <1>2 DEF Within
  <2> HIDE DEF n, W, entry
  <2> QED
    BY <1>1, <2>1
<1>5. A \in Seq(W)
  BY <1>2
<1>6. A \o B \in Seq(W)
  <2> HIDE DEF A, B, W
  <2> QED
    BY <1>4, <1>5
<1> QED
  BY <1>3, <1>6

LEMMA NewNodeType == \A h \in Header : NewNode(h) \in Node
  BY DEF NewNode, Node, Header

\* No piece is longer than a block.
LEMMA PieceType ==
    ASSUME TypeOK, l > 0
    PROVE  Piece \in PieceOfData
<1> DEFINE block == IF pos < Len(archive) THEN archive[pos + 1] ELSE b
<1>1. block \in Block
  BY DEF TypeOK
<1>2. block.c = "data" => block.id \in Nat
  BY <1>1 DEF Block, Header
<1>3. (IF l < END THEN l ELSE END) \in 0 .. END
  BY DEF TypeOK, END
<1> QED
  BY <1>2, <1>3 DEF Piece, PieceOfData

LEMMA UnlinkedType ==
    ASSUME TypeOK, NEW p \in Paths
    PROVE  Unlinked(p) \in [Paths -> 0 .. Len(nodes)]
  BY DEF Unlinked, TypeOK

-----------------------------------------------------------------------------
(* The type invariant.                                                     *)

LEMMA TypeInit == Init => TypeOK
<1> SUFFICES ASSUME Init PROVE TypeOK
  OBVIOUS
<1>1. archive \in Seq(Block)
  <2>1. Given \subseteq Seq(Block) /\ <<>> \in Seq(Block)
    BY SltarAssumption
  <2> QED
    BY <2>1 DEF Init
<1>2. b \in Block
  BY ZeroBlock DEF Init
<1> QED
  BY <1>1, <1>2 DEF Init, TypeOK

\* The steps of sltar c.
LEMMA TypeCreate ==
    ASSUME TypeOK, MainC \/ C \/ CEnds \/ CFile \/ CFileCrashes \/ CData \/ CFileEnds
    PROVE  TypeOK'
<1> USE DEF TypeOK
<1>1. CASE MainC
  <2>1. argv' \in Seq(Paths)
    BY <1>1, SltarAssumption DEF MainC
  <2> QED
    BY <1>1, <2>1 DEF MainC, reading, files
<1>2. CASE C
  <2>1. walk' \in Seq([p: Paths, st: Node])
    <3>1. CASE Source[argv[argc]].type = "DIRECTORY"
      BY <1>2, <3>1, WalksType DEF C
    <3>2. CASE Source[argv[argc]].type # "DIRECTORY"
      <4>1. [p |-> argv[argc], st |-> Source[argv[argc]]] \in [p: Paths, st: Node]
        BY <1>2, SltarAssumption DEF C
      <4>2. walk' = <<[p |-> argv[argc], st |-> Source[argv[argc]]]>>
        BY <1>2, <3>2 DEF C
      <4> DEFINE W == [p: Paths, st: Node]
                 e == [p |-> argv[argc], st |-> Source[argv[argc]]]
      <4>3. e \in W /\ walk' = <<e>>
        BY <4>1, <4>2
      <4> HIDE DEF W, e, TypeOK
      <4>4. walk' \in Seq(W)
        BY <4>3
      <4> QED
        BY <4>4 DEF W
    <3> QED
      BY <3>1, <3>2
  <2> QED
    BY <1>2, <2>1 DEF C, reading, files
<1>3. CASE CEnds
  BY <1>3 DEF CEnds, creating, reading, files
<1>4. CASE CFile
  <2> DEFINE w == Head(walk)
  <2>1. w \in [p: Paths, st: Node] /\ Tail(walk) \in Seq([p: Paths, st: Node])
    <3> HIDE DEF TypeOK
    <3>1. walk \in Seq([p: Paths, st: Node]) /\ walk # <<>>
      BY <1>4 DEF CFile, TypeOK
    <3> DEFINE W == [p: Paths, st: Node]
    <3> HIDE DEF W
    <3>2. walk \in Seq(W) /\ walk # <<>>
      BY <3>1 DEF W
    <3>3. Head(walk) \in W /\ Tail(walk) \in Seq(W)
      BY <3>2
    <3> QED
      BY <3>3 DEF W
  <2>2. HeaderOf(w.p, w.st) \in Block
    BY <2>1, HeaderOfType
  <2>3. archive' \in Seq(Block) /\ Len(archive') = Len(archive) + 1
    BY <1>4, <2>2 DEF CFile
  <2>4. rest' \in Seq(PieceOfData)
    <3>1. w.st.data \in Seq(PieceOfData) /\ <<>> \in Seq(PieceOfData)
      <4> HIDE DEF w, TypeOK
      <4> QED
        BY <2>1 DEF Node
    <3>2. rest' \in {w.st.data, <<>>}
      BY <1>4 DEF CFile
    <3> HIDE DEF w, TypeOK
    <3> QED
      BY <3>1, <3>2
  <2>5. walk' \in Seq([p: Paths, st: Node])
    BY <1>4, <2>1 DEF CFile
  <2>6. pos' \in 0 .. Len(archive')
    BY <1>4, <2>3 DEF CFile, reading
  <2> QED
    BY <1>4, <2>3, <2>4, <2>5, <2>6 DEF CFile, reading, files
<1>5. CASE CData
  <2>1. Head(rest) \in PieceOfData /\ Tail(rest) \in Seq(PieceOfData)
    BY <1>5 DEF CData
  <2>2. [c |-> "data", id |-> Head(rest).id] \in Block
    BY <2>1, DataBlock DEF PieceOfData
  <2>3. archive' \in Seq(Block) /\ Len(archive') = Len(archive) + 1
    BY <1>5, <2>2 DEF CData
  <2>4. pos' \in 0 .. Len(archive')
    BY <1>5, <2>3 DEF CData, reading
  <2> QED
    BY <1>5, <2>1, <2>3, <2>4 DEF CData, reading, files
<1>6. CASE CFileEnds
  BY <1>6 DEF CFileEnds, creating, reading, files
<1>7. CASE CFileCrashes
  BY <1>7 DEF CFileCrashes, creating, reading, files
<1> QED
  BY <1>1, <1>2, <1>3, <1>4, <1>5, <1>6, <1>7

\* main() and the steps of tar().
LEMMA TypeTar ==
    ASSUME TypeOK, MainXT \/ Usage \/ TarHeader \/ TarEnds \/ TarLost
    PROVE  TypeOK'
<1> USE DEF TypeOK
<1>1. CASE MainXT
  BY <1>1 DEF MainXT, creating, files
<1>2. CASE Usage
  BY <1>2 DEF Usage, creating, reading, files
<1>3. CASE TarHeader
  <2> DEFINE h == archive[pos + 1]
  <2>1. h \in Block /\ h \in Header
    BY <1>3, HeaderBlock DEF TarHeader
  <2>2. h.name \in Paths /\ Strtol(h) \in Int
    <3> HIDE DEF h, TypeOK
    <3> QED
      BY <2>1 DEF Header, Strtol
  <2> QED
    BY <1>3, <2>1, <2>2 DEF TarHeader, creating, files
<1>4. CASE TarEnds
  BY <1>4 DEF TarEnds, creating, reading, files
<1>5. CASE TarLost
  BY <1>5 DEF TarLost, creating, reading, files
<1> QED
  BY <1>1, <1>2, <1>3, <1>4, <1>5

\* A file that is written to keeps being a file.
LEMMA WriteType ==
    ASSUME nodes \in Seq(Node), NEW k \in 1 .. Len(nodes), NEW d \in Seq(PieceOfData)
    PROVE  /\ [nodes EXCEPT ![k].data = d] \in Seq(Node)
           /\ Len([nodes EXCEPT ![k].data = d]) = Len(nodes)
           /\ \A i \in 1 .. Len(nodes) : i # k => [nodes EXCEPT ![k].data = d][i] = nodes[i]
<1> DEFINE new == [nodes[k] EXCEPT !.data = d]
<1>1. new \in Node
  <2>1. nodes[k] \in Node
    OBVIOUS
  <2> QED
    BY <2>1 DEF Node
<1>2. [nodes EXCEPT ![k].data = d] = [nodes EXCEPT ![k] = new]
  OBVIOUS
<1> HIDE DEF new
<1>3. [nodes EXCEPT ![k] = new] \in Seq(Node)
  BY <1>1
<1> QED
  BY <1>2, <1>3

\* What fopen() returns and makes.
LEMMA FopenType ==
    ASSUME TypeOK, NEW p \in Paths, NEW names \in [Paths -> 0 .. Len(nodes)],
           NEW node \in Node
    PROVE  LET o == Fopen(names, p, node)
           IN  /\ o.nodes \in Seq(Node)
               /\ o.f \in 0 .. Len(o.nodes)
               /\ o.dir \in [Paths -> 0 .. Len(o.nodes)]
<1> DEFINE o == Fopen(names, p, node)
<1>0. nodes \in Seq(Node)
  BY DEF TypeOK
<1>1. CASE Creates(names, p)
  <2>1. o = [f |-> Len(nodes) + 1, dir |-> [names EXCEPT ![p] = Len(nodes) + 1],
             nodes |-> Append(nodes, node)]
    BY <1>1 DEF Fopen
  <2> HIDE DEF o
  <2>2. Append(nodes, node) \in Seq(Node) /\ Len(Append(nodes, node)) = Len(nodes) + 1
    BY <1>0
  <2>3. [names EXCEPT ![p] = Len(nodes) + 1] \in [Paths -> 0 .. Len(nodes) + 1]
    BY <1>0
  <2> QED
    BY <1>0, <2>1, <2>2, <2>3 DEF o
<1>2. CASE ~Creates(names, p) /\ names[p] # 0 /\ ~IsDirectory(p)
  <2>1. o = [f |-> names[p], dir |-> names,
             nodes |-> [nodes EXCEPT ![names[p]].data = <<>>]]
    BY <1>2 DEF Fopen
  <2>2. names[p] \in 1 .. Len(nodes) /\ <<>> \in Seq(PieceOfData)
    BY <1>0, <1>2
  <2>3. /\ [nodes EXCEPT ![names[p]].data = <<>>] \in Seq(Node)
        /\ Len([nodes EXCEPT ![names[p]].data = <<>>]) = Len(nodes)
    BY <1>0, <2>2, WriteType
  <2> QED
    BY <1>0, <2>1, <2>2, <2>3
<1>3. CASE ~Creates(names, p) /\ ~(names[p] # 0 /\ ~IsDirectory(p))
  <2>1. o = [f |-> 0, dir |-> names, nodes |-> nodes]
    BY <1>3 DEF Fopen
  <2> QED
    BY <1>0, <2>1
<1> QED
  BY <1>1, <1>2, <1>3

\* The steps of x() and t().
LEMMA TypeRead ==
    ASSUME TypeOK, XLink \/ XReg \/ XOther \/ T \/ Copy \/ CopyEnds
    PROVE  TypeOK'
<1>0. pc \in {"x", "t"} => b \in Header /\ fname \in Paths /\ NewNode(b) \in Node
  BY HeaderBlock, NewNodeType DEF TypeOK
<1>1. CASE XLink
  <2> DEFINE names == Unlinked(fname)
  <2>1. fname \in Paths /\ names \in [Paths -> 0 .. Len(nodes)]
    BY <1>0, <1>1, UnlinkedType DEF XLink
  <2>2. dir' \in [Paths -> 0 .. Len(nodes)]
    <3> HIDE DEF names
    <3> QED
      BY <1>1, <2>1 DEF XLink, names
  <2> QED
    BY <1>1, <2>2 DEF XLink, TypeOK, creating, reading
<1>2. CASE XReg
  <2> DEFINE o == Fopen(Unlinked(fname), fname, NewNode(b))
  <2>1. fname \in Paths /\ NewNode(b) \in Node /\ Unlinked(fname) \in [Paths -> 0 .. Len(nodes)]
    BY <1>0, <1>2, UnlinkedType DEF XReg
  <2>2. /\ o.nodes \in Seq(Node)
        /\ o.f \in 0 .. Len(o.nodes)
        /\ o.dir \in [Paths -> 0 .. Len(o.nodes)]
    BY <2>1, FopenType
  <2>3. f' = o.f /\ dir' = o.dir /\ nodes' = o.nodes
    BY <1>2 DEF XReg
  <2> HIDE DEF o
  <2>4. nodes' \in Seq(Node) /\ f' \in 0 .. Len(nodes') /\ dir' \in [Paths -> 0 .. Len(nodes')]
    BY <2>2, <2>3
  <2> QED
    BY <1>2, <2>4 DEF XReg, TypeOK, creating, reading
<1>3. CASE XOther
  <2> DEFINE names == Unlinked(fname)
             node == NewNode(b)
  <2>1. fname \in Paths /\ node \in Node /\ names \in [Paths -> 0 .. Len(nodes)]
    BY <1>0, <1>3, UnlinkedType DEF XOther
  <2>2. nodes \in Seq(Node)
    BY DEF TypeOK
  <2>3. nodes' \in Seq(Node) /\ dir' \in [Paths -> 0 .. Len(nodes')]
    <3>1. CASE Creates(names, fname)
      <4>1. nodes' = Append(nodes, node) /\ dir' = [names EXCEPT ![fname] = Len(nodes) + 1]
        BY <1>3, <3>1 DEF XOther
      <4> HIDE DEF names, node
      <4> QED
        BY <2>1, <2>2, <4>1
    <3>2. CASE ~Creates(names, fname)
      BY <1>3, <2>1, <2>2, <3>2 DEF XOther
    <3> QED
      BY <3>1, <3>2
  <2>4. f' \in 0 .. Len(nodes')
    BY <1>3, <2>3 DEF XOther
  <2> QED
    BY <1>3, <2>3, <2>4 DEF XOther, TypeOK, creating, reading
<1>4. CASE T
  BY <1>0, <1>4 DEF T, TypeOK, creating, reading, files
<1>5. CASE Copy
  <2>1. nodes' \in Seq(Node) /\ Len(nodes') = Len(nodes)
    <3>1. CASE f = 0
      BY <1>5, <3>1 DEF Copy, TypeOK
    <3>2. CASE f # 0
      <4>1. nodes \in Seq(Node) /\ f \in 1 .. Len(nodes)
        BY <3>2 DEF TypeOK
      <4>2. nodes[f].data \in Seq(PieceOfData)
        <5>1. nodes[f] \in Node
          BY <4>1
        <5> QED
          BY <5>1 DEF Node
      <4>3. Append(nodes[f].data, Piece) \in Seq(PieceOfData)
        BY <1>5, <4>2, PieceType DEF Copy
      <4>4. nodes' = [nodes EXCEPT ![f].data = Append(nodes[f].data, Piece)]
        BY <1>5, <3>2 DEF Copy
      <4> QED
        BY <4>1, <4>3, <4>4, WriteType
    <3> QED
      BY <3>1, <3>2
  <2>2. b' \in Block /\ pos' \in 0 .. Len(archive')
    BY <1>5 DEF Copy, Fread, TypeOK
  <2>3. l' \in Int
    BY <1>5 DEF Copy, TypeOK, END
  <2> QED
    BY <1>5, <2>1, <2>2, <2>3 DEF Copy, TypeOK, creating
<1>6. CASE CopyEnds
  BY <1>6 DEF CopyEnds, TypeOK, creating, reading
<1> QED
  BY <1>1, <1>2, <1>3, <1>4, <1>5, <1>6

\* Every step keeps the types.
LEMMA TypeNext == TypeOK /\ [Next]_vars => TypeOK'
<1> SUFFICES ASSUME TypeOK, [Next]_vars PROVE TypeOK'
  OBVIOUS
<1>1. CASE Next
  BY <1>1, TypeCreate, TypeTar, TypeRead DEF Next
<1>2. CASE UNCHANGED vars
  BY <1>2 DEF vars, creating, reading, files, TypeOK
<1> QED
  BY <1>1, <1>2

\* For every tree and every archive: positions stay in the archive, names lead
\* to files that exist and no piece of a file is longer than a block.
THEOREM TypeCorrect == Spec => []TypeOK
  BY TypeInit, TypeNext, PTL DEF Spec

-----------------------------------------------------------------------------
(* Reading stays aligned.  Aligned says nothing while an entry is read: the *)
(* strengthening is that what the loops have still to read ends where the   *)
(* next entry begins.                                                       *)

NextEntry == Begins(archive, pos + Blocks(l)) /\ pos + Blocks(l) <= Len(archive)

AlignedInv ==
    WellFormed(archive) =>
        /\ pc # "lost"
        /\ pc = "tar" => Begins(archive, pos)
        /\ pc \in {"x", "t", "copy"} => NextEntry

\* Nothing is read before tar().
AtStart == pc \in {"main", "c", "c_file", "c_data", "archived"} => pos = 0

\* The loop for n bytes reads one block, and then those for n - END bytes.
LEMMA OneRound ==
    ASSUME NEW n \in Int, n > 0
    PROVE  Blocks(n) = Blocks(n - END) + 1 /\ Blocks(n - END) \in Nat
  BY DEF Blocks, END

LEMMA NoRound == \A n \in Int : n <= 0 => Blocks(n) = 0
  BY DEF Blocks

LEMMA AlignedNext ==
    ASSUME TypeOK, AtStart, AlignedInv, [Next]_vars
    PROVE  AtStart' /\ AlignedInv'
<1> USE DEF AtStart, AlignedInv
<1>1. CASE MainC \/ C \/ CEnds \/ CFile \/ CFileCrashes \/ CData \/ CFileEnds
  BY <1>1 DEF MainC, C, CEnds, CFile, CFileCrashes, CData, CFileEnds, creating, reading
<1>2. CASE MainXT
  BY <1>2 DEF MainXT, WellFormed
<1>3. CASE Usage
  BY <1>3 DEF Usage
<1>4. CASE TarHeader
  <2> DEFINE h == archive[pos + 1]
  <2>1. pos' = pos + 1 /\ l' = Strtol(h) /\ archive' = archive /\ pc' = fn
    BY <1>4 DEF TarHeader
  <2>2. pos \in 0 .. Len(archive) - 1 /\ h.c = "header"
    BY <1>4 DEF TarHeader, TypeOK
  <2>3. WellFormed(archive) => Begins(archive, pos + 1 + Blocks(Strtol(h)))
                               /\ pos + 1 + Blocks(Strtol(h)) <= Len(archive)
    BY <2>2 DEF WellFormed
  <2>4. WellFormed(archive) => NextEntry'
    BY <2>1, <2>3 DEF NextEntry
  <2>5. pc' \in {"x", "t"}
    BY <2>1 DEF TypeOK
  <2> QED
    BY <2>1, <2>4, <2>5
<1>5. CASE TarEnds
  BY <1>5 DEF TarEnds
<1>6. CASE TarLost
  <2>1. ~WellFormed(archive)
    <3>1. pos # Len(archive) /\ archive[pos + 1].c = "data"
      BY <1>6 DEF TarLost, TypeOK
    <3>2. ~Begins(archive, pos)
      BY <3>1 DEF Begins
    <3> QED
      BY <1>6, <3>2 DEF TarLost
  <2> QED
    BY <1>6, <2>1 DEF TarLost
<1>7. CASE XLink \/ XReg \/ XOther \/ T
  <2>1. pc \in {"x", "t"} /\ pc' = "copy" /\ archive' = archive /\ pos' = pos /\ l' = l
    BY <1>7 DEF XLink, XReg, XOther, T, reading
  <2> QED
    BY <2>1 DEF NextEntry
<1>8. CASE Copy
  <2>1. /\ pc = "copy" /\ pc' = "copy" /\ archive' = archive /\ l' = l - END /\ l > 0
        /\ pos' = IF pos < Len(archive) THEN pos + 1 ELSE pos
    BY <1>8 DEF Copy, Fread
  <2>2. Blocks(l) = Blocks(l') + 1 /\ Blocks(l') \in Nat
    BY <2>1, OneRound DEF TypeOK
  <2>3. ASSUME WellFormed(archive)
        PROVE  NextEntry'
    <3>1. NextEntry
      BY <2>1, <2>3
    <3>2. pos' = pos + 1
      BY <2>1, <2>2, <3>1 DEF NextEntry, TypeOK
    <3>3. pos' + Blocks(l') = pos + Blocks(l)
      BY <2>2, <3>2 DEF TypeOK
    <3> QED
      BY <2>1, <3>1, <3>3 DEF NextEntry
  <2> QED
    BY <2>1, <2>3
<1>9. CASE CopyEnds
  <2>1. pc = "copy" /\ pc' = "tar" /\ archive' = archive /\ pos' = pos /\ Blocks(l) = 0
    BY <1>9, NoRound DEF CopyEnds, reading, TypeOK
  <2>2. pos + Blocks(l) = pos
    BY <2>1 DEF TypeOK
  <2> QED
    BY <2>1, <2>2 DEF NextEntry
<1>10. CASE UNCHANGED vars
  BY <1>10 DEF vars, reading, NextEntry
<1> QED
  BY <1>1, <1>2, <1>3, <1>4, <1>5, <1>6, <1>7, <1>8, <1>9, <1>10 DEF Next

\* For every well-formed archive, of any length and with entries of any size:
\* tar() finds every entry where it looks for it.
THEOREM ReadingAligned == Spec => []Aligned
<1>1. Init => AtStart /\ AlignedInv
  BY DEF Init, AtStart, AlignedInv
<1>2. AlignedInv => Aligned
  BY DEF AlignedInv, Aligned
<1> QED
  BY TypeCorrect, AlignedNext, <1>1, <1>2, PTL DEF Spec

-----------------------------------------------------------------------------
(* Other files are kept.  The file open for writing has no other name: it   *)
(* was made after unlink() had taken the name from the old one.             *)

OwnFile == \A p \in Paths : f # 0 /\ dir[p] = f => p = fname

\* Only while an entry is copied is a file open.
OpenOnlyToCopy == pc # "copy" => f = 0

\* fopen() never finds an old file: it makes one, or fails.
LEMMA FopenNew ==
    ASSUME TypeOK, NEW p \in Paths, NEW node \in Node
    PROVE  LET o == Fopen(Unlinked(p), p, node)
           IN  /\ o.f \in {0, Len(nodes) + 1}
               /\ \A q \in Paths : q # p => o.dir[q] = dir[q]
               /\ \A k \in 1 .. Len(nodes) : o.nodes[k] = nodes[k]
<1> DEFINE names == Unlinked(p)
           o == Fopen(names, p, node)
<1>1. names \in [Paths -> 0 .. Len(nodes)] /\ \A q \in Paths : q # p => names[q] = dir[q]
  BY DEF Unlinked, TypeOK
<1>2. nodes \in Seq(Node)
  BY DEF TypeOK
<1>3. ~(names[p] # 0 /\ ~IsDirectory(p))
  BY DEF Unlinked, TypeOK
<1>4. CASE Creates(names, p)
  <2>1. o = [f |-> Len(nodes) + 1, dir |-> [names EXCEPT ![p] = Len(nodes) + 1],
             nodes |-> Append(nodes, node)]
    BY <1>4 DEF Fopen
  <2> HIDE DEF names, o
  <2> QED
    BY <1>1, <1>2, <2>1 DEF o, names
<1>5. CASE ~Creates(names, p)
  <2>1. o = [f |-> 0, dir |-> names, nodes |-> nodes]
    BY <1>3, <1>5 DEF Fopen
  <2> QED
    BY <1>1, <2>1
<1> QED
  BY <1>4, <1>5

\* Nothing is changed under another name than that of the entry.
Kept ==
    \A p \in Paths : p # fname /\ dir[p] # 0 =>
        dir'[p] = dir[p] /\ nodes'[dir[p]] = nodes[dir[p]]

LEMMA KeptNext ==
    ASSUME TypeOK, OwnFile, OpenOnlyToCopy, [Next]_vars
    PROVE  Kept /\ OwnFile' /\ OpenOnlyToCopy'
<1> USE DEF Kept, OwnFile, OpenOnlyToCopy
<1>0. /\ pc \in {"x", "t"} => fname \in Paths /\ NewNode(b) \in Node
      /\ nodes \in Seq(Node)
      /\ dir \in [Paths -> 0 .. Len(nodes)]
  BY HeaderBlock, NewNodeType DEF TypeOK
<1>1. CASE MainC \/ C \/ CEnds \/ CFile \/ CFileCrashes \/ CData \/ CFileEnds
  BY <1>1 DEF MainC, C, CEnds, CFile, CFileCrashes, CData, CFileEnds, creating, reading,
              files
<1>2. CASE MainXT \/ Usage \/ TarHeader \/ TarEnds \/ TarLost
  BY <1>2 DEF MainXT, Usage, TarHeader, TarEnds, TarLost, creating, reading, files, TypeOK
<1>3. CASE XLink
  <2>1. fname \in Paths /\ f' = 0 /\ nodes' = nodes /\ pc' = "copy"
    BY <1>0, <1>3 DEF XLink
  <2>2. \A p \in Paths : p # fname => dir'[p] = dir[p]
    <3>1. \A p \in Paths : p # fname => Unlinked(fname)[p] = dir[p]
      BY <1>0, <2>1 DEF Unlinked
    <3>2. Unlinked(fname) \in [Paths -> 0 .. Len(nodes)]
      BY <2>1, UnlinkedType
    <3> QED
      BY <1>3, <2>1, <3>1, <3>2 DEF XLink
  <2> QED
    BY <2>1, <2>2
<1>4. CASE XReg
  <2> DEFINE o == Fopen(Unlinked(fname), fname, NewNode(b))
  <2>1. fname \in Paths /\ NewNode(b) \in Node
    BY <1>0, <1>4 DEF XReg
  <2>2. /\ o.f \in {0, Len(nodes) + 1}
        /\ \A q \in Paths : q # fname => o.dir[q] = dir[q]
        /\ \A k \in 1 .. Len(nodes) : o.nodes[k] = nodes[k]
    BY <2>1, FopenNew
  <2>3. f' = o.f /\ dir' = o.dir /\ nodes' = o.nodes /\ pc' = "copy" /\ fname' = fname
    BY <1>4 DEF XReg, reading
  <2> HIDE DEF o
  <2> QED
    BY <1>0, <2>2, <2>3
<1>5. CASE XOther
  <2> DEFINE names == Unlinked(fname)
             node == NewNode(b)
  <2>1. fname \in Paths /\ node \in Node /\ f' = 0 /\ pc' = "copy"
    BY <1>0, <1>5 DEF XOther
  <2>2. /\ names \in [Paths -> 0 .. Len(nodes)]
        /\ \A p \in Paths : p # fname => names[p] = dir[p]
    BY <1>0, <2>1, UnlinkedType DEF Unlinked
  <2>3. /\ \A p \in Paths : p # fname => dir'[p] = dir[p]
        /\ \A k \in 1 .. Len(nodes) : nodes'[k] = nodes[k]
    <3>1. CASE Creates(names, fname)
      <4>1. nodes' = Append(nodes, node) /\ dir' = [names EXCEPT ![fname] = Len(nodes) + 1]
        BY <1>5, <3>1 DEF XOther
      <4> HIDE DEF names, node
      <4> QED
        BY <1>0, <2>1, <2>2, <4>1
    <3>2. CASE ~Creates(names, fname)
      BY <1>5, <2>2, <3>2 DEF XOther
    <3> QED
      BY <3>1, <3>2
  <2> QED
    BY <1>0, <2>1, <2>3
<1>6. CASE T
  BY <1>6 DEF T, reading, files
<1>7. CASE Copy
  <2>1. f' = f /\ dir' = dir /\ pc' = "copy" /\ fname' = fname
    BY <1>7 DEF Copy
  <2>2. ASSUME NEW p \in Paths, p # fname, dir[p] # 0
        PROVE  nodes'[dir[p]] = nodes[dir[p]]
    <3>1. dir[p] \in 1 .. Len(nodes) /\ (f # 0 => dir[p] # f)
      BY <1>0, <2>2
    <3> QED
      BY <1>0, <1>7, <3>1 DEF Copy
  <2> QED
    BY <2>1, <2>2
<1>8. CASE CopyEnds
  BY <1>8 DEF CopyEnds, reading
<1>9. CASE UNCHANGED vars
  BY <1>9 DEF vars, reading, files
<1> QED
  BY <1>1, <1>2, <1>3, <1>4, <1>5, <1>6, <1>7, <1>8, <1>9 DEF Next

\* For every archive, well-formed or not: extracting an entry changes nothing
\* under any other name, whatever links the entries before have made.
THEOREM OtherFilesKept == Spec => OthersKept
<1>1. Init => OwnFile /\ OpenOnlyToCopy
  BY DEF Init, OwnFile, OpenOnlyToCopy
<1>2. TypeOK /\ OwnFile /\ OpenOnlyToCopy /\ [Next]_vars =>
          /\ OwnFile' /\ OpenOnlyToCopy'
          /\ [\A p \in Paths : p # fname /\ dir[p] # 0 =>
                  dir'[p] = dir[p] /\ nodes'[dir[p]] = nodes[dir[p]]]_vars
  BY KeptNext DEF Kept
<1> QED
  BY TypeCorrect, <1>1, <1>2, PTL DEF Spec, OthersKept

-----------------------------------------------------------------------------
(* What has been read of a well-formed archive: whole entries, and a part   *)
(* of the entry at i while pc is in it.                                     *)

HeadersTo(a, n) == {k \in 1 .. n : a[k].c = "header"}

\* Up to where the entries have been dealt with.
DoneTo == IF pc \in {"x", "t"} THEN pos - 1 ELSE pos

InEntry(i) ==
    /\ archive[i].c = "header"
    /\ \A k \in i + 1 .. pos : archive[k].c = "data"
    /\ fname = archive[i].name
    /\ l = Strtol(archive[i]) - (pos - i) * END
    /\ (pos - i) + Blocks(l) = Blocks(Strtol(archive[i]))
    /\ pc \in {"x", "t"} => pos = i /\ b = archive[i]

\* Before tar() nothing has been read, printed or made.
Untouched ==
    pc \in {"main", "c", "c_file", "c_data", "archived"} =>
        pos = 0 /\ listed = <<>> /\ dir = [p \in Paths |-> 0] /\ f = 0

EntryInv ==
    WellFormed(archive) =>
        /\ \A k \in 1 .. pos : archive[k].c # "zero"
        /\ pc \in {"x", "t", "copy"} => \E i \in 1 .. pos : InEntry(i)
        /\ pc = "done" => pos = Len(archive) \/ archive[pos + 1].c = "zero"

\* The function that tar() was given is the one that runs.
Called == pc \in {"x", "t"} => pc = fn

ReadInv == TypeOK /\ AtStart /\ AlignedInv /\ Untouched /\ Called /\ EntryInv

LEMMA StrtolType == \A h \in Header : Strtol(h) \in Nat
  BY DEF Strtol, Header

\* While blocks of the entry at i are left, the next block is one of them.
LEMMA DataFollows ==
    ASSUME TypeOK, WellFormed(archive), NEW i \in 1 .. pos, InEntry(i), l > 0
    PROVE  pos < Len(archive) /\ archive[pos + 1].c = "data"
<1> DEFINE S == Strtol(archive[i])
           end == (i - 1) + 1 + Blocks(S)
<1>0. pos \in Nat /\ i \in Nat /\ Len(archive) \in Nat /\ l \in Int /\ pos <= Len(archive)
  BY DEF TypeOK
<1>1. i - 1 \in 0 .. Len(archive) - 1 /\ archive[(i - 1) + 1].c = "header"
  <2>1. (i - 1) + 1 = i /\ i - 1 \in 0 .. Len(archive) - 1
    BY <1>0
  <2> QED
    BY <2>1 DEF InEntry
<1>2. end <= Len(archive) /\ \A k \in (i - 1) + 1 .. end - 1 : archive[k + 1].c = "data"
  <2>1. archive[(i - 1) + 1] = archive[i]
    BY DEF TypeOK
  <2> QED
    BY <1>1, <2>1 DEF WellFormed
<1>3. Blocks(l) \in Nat /\ Blocks(l) >= 1
  <2>1. Blocks(l) = Blocks(l - END) + 1 /\ Blocks(l - END) \in Nat
    BY <1>0, OneRound
  <2> QED
    BY <2>1
<1>4. Blocks(S) \in Int /\ pos - i < Blocks(S)
  BY <1>0, <1>3 DEF InEntry
<1>5. pos < end /\ pos \in (i - 1) + 1 .. end - 1
  BY <1>0, <1>4
<1> QED
  BY <1>0, <1>2, <1>4, <1>5

\* One round of the loops brings the next block of the same entry.
LEMMA RoundInEntry ==
    ASSUME TypeOK, WellFormed(archive), NEW i \in 1 .. pos, InEntry(i), Copy
    PROVE  /\ pos' = pos + 1 /\ archive[pos + 1].c = "data" /\ pos < Len(archive)
           /\ InEntry(i)'
<1>1. /\ pc = "copy" /\ pc' = "copy" /\ archive' = archive /\ l' = l - END /\ l > 0
      /\ fname' = fname /\ (pos < Len(archive) => pos' = pos + 1)
  BY DEF Copy, Fread
<1>2. pos < Len(archive) /\ archive[pos + 1].c = "data"
  BY <1>1, DataFollows
<1>3. pos' = pos + 1
  BY <1>1, <1>2
<1>4. Blocks(l) = Blocks(l') + 1 /\ Blocks(l') \in Nat
  BY <1>1, OneRound DEF TypeOK
<1>5. \A k \in i + 1 .. pos' : archive[k].c = "data"
  BY <1>2, <1>3 DEF InEntry, TypeOK
<1>6. l' = Strtol(archive[i]) - (pos' - i) * END
  <2>1. archive[i] \in Header
    BY HeaderBlock DEF InEntry, TypeOK
  <2>2. Strtol(archive[i]) \in Nat
    BY <2>1, StrtolType
  <2>3. pos \in Nat /\ i \in Nat /\ l = Strtol(archive[i]) - (pos - i) * 512
    BY DEF InEntry, TypeOK, END
  <2> QED
    BY <1>1, <1>3, <2>2, <2>3 DEF END
<1>7. (pos' - i) + Blocks(l') = Blocks(Strtol(archive[i]))
  BY <1>3, <1>4 DEF InEntry, TypeOK
<1>8. archive'[i].c = "header" /\ fname' = archive'[i].name
  BY <1>1 DEF InEntry
<1> QED
  BY <1>1, <1>2, <1>3, <1>5, <1>6, <1>7, <1>8 DEF InEntry

LEMMA EntryNext ==
    ASSUME ReadInv, [Next]_vars
    PROVE  ReadInv'
<1>0. TypeOK' /\ AtStart' /\ AlignedInv'
  BY TypeNext, AlignedNext DEF ReadInv
<1> SUFFICES Untouched' /\ Called' /\ EntryInv'
  BY <1>0 DEF ReadInv
<1> USE DEF ReadInv, Untouched, Called, EntryInv
<1>1. CASE MainC \/ C \/ CEnds \/ CFile \/ CFileCrashes \/ CData \/ CFileEnds
  BY <1>1 DEF MainC, C, CEnds, CFile, CFileCrashes, CData, CFileEnds, creating, reading,
              files
<1>2. CASE MainXT
  BY <1>2 DEF MainXT, files, TypeOK
<1>3. CASE Usage
  BY <1>3 DEF Usage, reading
<1>4. CASE TarHeader
  <2> DEFINE h == archive[pos + 1]
  <2>1. /\ pos' = pos + 1 /\ l' = Strtol(h) /\ archive' = archive /\ pc' = fn /\ fn' = fn
        /\ b' = h /\ fname' = h.name /\ pc' \in {"x", "t"}
    BY <1>4 DEF TarHeader, TypeOK
  <2>2. pos \in 0 .. Len(archive) - 1 /\ h.c = "header"
    BY <1>4 DEF TarHeader, TypeOK
  <2>3. h \in Header /\ Strtol(h) \in Nat
    BY <2>2, HeaderBlock, StrtolType DEF TypeOK
  <2>4. Blocks(Strtol(h)) \in Int
    BY <2>3 DEF Blocks, END
  <2>5. PICK i \in Nat : i = pos + 1
    BY <2>2
  <2>6. InEntry(i)' /\ i \in 1 .. pos'
    <3>1. archive'[i] = h /\ pos' = i
      BY <2>1, <2>5
    <3>2. (i - i) * END = 0
      BY <2>5 DEF END
    <3>3. l' = Strtol(archive'[i]) - (pos' - i) * END
      BY <2>1, <2>3, <3>1, <3>2
    <3>4. (pos' - i) + Blocks(l') = Blocks(Strtol(archive'[i]))
      BY <2>1, <2>4, <2>5, <3>1
    <3>5. \A k \in i + 1 .. pos' : archive'[k].c = "data"
      BY <2>5, <3>1
    <3> QED
      BY <2>1, <2>2, <2>5, <3>1, <3>3, <3>4, <3>5 DEF InEntry
  <2>7. WellFormed(archive) => \A k \in 1 .. pos' : archive[k].c # "zero"
    BY <1>4, <2>1, <2>2 DEF TarHeader
  <2> QED
    BY <2>1, <2>6, <2>7
<1>5. CASE TarEnds
  BY <1>5 DEF TarEnds, reading, TypeOK
<1>6. CASE TarLost
  BY <1>6 DEF TarLost, reading
<1>7. CASE XLink \/ XReg \/ XOther \/ T
  <2>1. /\ pc \in {"x", "t"} /\ pc' = "copy" /\ archive' = archive /\ pos' = pos /\ l' = l
        /\ fname' = fname
    BY <1>7 DEF XLink, XReg, XOther, T, reading
  <2> QED
    BY <2>1 DEF InEntry
<1>8. CASE Copy
  <2>1. pc = "copy" /\ pc' = "copy" /\ archive' = archive
    BY <1>8 DEF Copy
  <2>2. ASSUME WellFormed(archive)
        PROVE  /\ \A k \in 1 .. pos' : archive[k].c # "zero"
               /\ \E i \in 1 .. pos' : InEntry(i)'
    <3>1. PICK i \in 1 .. pos : InEntry(i)
      BY <2>1, <2>2
    <3>2. /\ pos' = pos + 1 /\ archive[pos + 1].c = "data"
          /\ InEntry(i)'
      BY <1>8, <2>2, <3>1, RoundInEntry
    <3>3. pos \in Nat /\ i \in 1 .. pos'
      BY <3>2 DEF TypeOK
    <3>4. \A k \in 1 .. pos' : archive[k].c # "zero"
      BY <2>2, <3>2, <3>3
    <3>5. \E j \in 1 .. pos' : InEntry(j)'
      BY <3>2, <3>3
    <3> QED
      BY <3>4, <3>5
  <2> QED
    BY <2>1, <2>2
<1>9. CASE CopyEnds
  BY <1>9 DEF CopyEnds, reading
<1>10. CASE UNCHANGED vars
  BY <1>10 DEF vars, reading, files, InEntry
<1> QED
  BY <1>1, <1>2, <1>3, <1>4, <1>5, <1>6, <1>7, <1>8, <1>9, <1>10 DEF Next

LEMMA EntryInit == Init => ReadInv
<1> SUFFICES ASSUME Init PROVE ReadInv
  OBVIOUS
<1>1. TypeOK
  BY TypeInit
<1> QED
  BY <1>1 DEF Init, ReadInv, AtStart, AlignedInv, Untouched, Called, EntryInv

\* What is read of a well-formed archive are whole entries and a part of one.
LEMMA WholeEntriesRead == Spec => []ReadInv
  BY EntryInit, EntryNext, PTL DEF Spec

-----------------------------------------------------------------------------
(* sltar t.  ListedAll speaks of the end of the run: the invariant says the *)
(* same of the entries dealt with so far.                                   *)

ListInv ==
    WellFormed(archive) /\ fn = "t" =>
        /\ Len(listed) = Cardinality(HeadersTo(archive, DoneTo))
        /\ \A i \in HeadersTo(archive, DoneTo) :
               listed[Cardinality(HeadersTo(archive, i))] = archive[i].name

LEMMA HeadersFinite ==
    ASSUME NEW a, NEW n \in Nat
    PROVE  IsFiniteSet(HeadersTo(a, n)) /\ Cardinality(HeadersTo(a, n)) \in Nat
<1>1. IsFiniteSet(1 .. n)
  BY FS_Interval
<1>2. IsFiniteSet(HeadersTo(a, n))
  BY <1>1, FS_Subset DEF HeadersTo
<1> QED
  BY <1>2, FS_CardinalityType

\* Counting headers: one more, or the same.
LEMMA CountHeader ==
    ASSUME NEW a, NEW n \in Nat, a[n + 1].c = "header"
    PROVE  Cardinality(HeadersTo(a, n + 1)) = Cardinality(HeadersTo(a, n)) + 1
<1>1. HeadersTo(a, n + 1) = HeadersTo(a, n) \cup {n + 1} /\ n + 1 \notin HeadersTo(a, n)
  BY DEF HeadersTo
<1> QED
  BY <1>1, HeadersFinite, FS_AddElement

LEMMA SkipData ==
    ASSUME NEW a, NEW n \in Nat, a[n + 1].c # "header"
    PROVE  HeadersTo(a, n + 1) = HeadersTo(a, n)
  BY DEF HeadersTo

\* The headers up to a header are at least one and no more than those further on.
LEMMA CountBetween ==
    ASSUME NEW a, NEW n \in Nat, NEW i \in HeadersTo(a, n)
    PROVE  Cardinality(HeadersTo(a, i)) \in 1 .. Cardinality(HeadersTo(a, n))
<1>1. i \in Nat /\ i \in HeadersTo(a, i) /\ HeadersTo(a, i) \subseteq HeadersTo(a, n)
  BY DEF HeadersTo
<1>2. Cardinality(HeadersTo(a, i)) <= Cardinality(HeadersTo(a, n))
  BY <1>1, HeadersFinite, FS_Subset
<1>3. Cardinality(HeadersTo(a, i)) # 0
  BY <1>1, HeadersFinite, FS_EmptySet
<1> QED
  BY <1>1, <1>2, <1>3, HeadersFinite

LEMMA ListNext ==
    ASSUME ReadInv, ListInv, [Next]_vars
    PROVE  ListInv'
<1> SUFFICES ASSUME WellFormed(archive'), fn' = "t"
             PROVE  /\ Len(listed') = Cardinality(HeadersTo(archive', DoneTo'))
                    /\ \A i \in HeadersTo(archive', DoneTo') :
                           listed'[Cardinality(HeadersTo(archive', i))] = archive'[i].name
  BY DEF ListInv
<1>0. pos \in Nat /\ TypeOK /\ listed \in Seq(Paths)
  BY DEF ReadInv, TypeOK
<1>1. CASE pc \in {"main", "c", "c_file", "c_data", "archived"}
  <2>1. pos' = 0 /\ listed' = <<>> /\ pc' \notin {"x", "t"}
    BY <1>1 DEF ReadInv, Untouched, Next, MainC, C, CEnds, CFile, CFileCrashes, CData,
                CFileEnds,
                MainXT, Usage, TarHeader, TarEnds, TarLost, XLink, XReg, XOther, T, Copy,
                CopyEnds, vars, creating, reading, files
  <2>2. HeadersTo(archive', DoneTo') = {}
    BY <2>1 DEF HeadersTo, DoneTo
  <2> QED
    BY <2>1, <2>2, FS_EmptySet
<1>2. CASE TarHeader
  <2>1. /\ pc = "tar" /\ pc' \in {"x", "t"} /\ archive' = archive /\ pos' = pos + 1
        /\ listed' = listed /\ fn' = fn
    BY <1>0, <1>2 DEF TarHeader, TypeOK
  <2>2. DoneTo' = DoneTo
    BY <1>0, <2>1 DEF DoneTo
  <2> QED
    BY <2>1, <2>2 DEF ListInv
<1>3. CASE TarEnds \/ TarLost \/ CopyEnds \/ UNCHANGED vars
  <2>1. /\ archive' = archive /\ pos' = pos /\ listed' = listed /\ fn' = fn
        /\ pc' \in {"x", "t"} <=> pc \in {"x", "t"}
    BY <1>3 DEF TarEnds, TarLost, CopyEnds, vars, reading
  <2>2. DoneTo' = DoneTo
    BY <2>1 DEF DoneTo
  <2> QED
    BY <2>1, <2>2 DEF ListInv
<1>4. CASE XLink \/ XReg \/ XOther
  <2>1. pc = "x" /\ fn' = fn
    BY <1>4 DEF XLink, XReg, XOther, reading
  <2> QED
    BY <2>1 DEF ReadInv, Called
<1>5. CASE T
  <2>1. /\ pc = "t" /\ pc' = "copy" /\ archive' = archive /\ pos' = pos /\ fn' = fn
        /\ listed' = Append(listed, fname) /\ fname \in Paths
    BY <1>0, <1>5 DEF T, reading, TypeOK
  <2>2. PICK i \in 1 .. pos : InEntry(i)
    BY <2>1 DEF ReadInv, EntryInv
  <2>3. i = pos /\ archive[pos].c = "header" /\ archive[pos].name = fname
    BY <2>1, <2>2 DEF InEntry
  <2>4. DoneTo = pos - 1 /\ DoneTo' = pos /\ pos - 1 \in Nat /\ (pos - 1) + 1 = pos
    BY <1>0, <2>1, <2>3 DEF DoneTo
  <2> DEFINE n == pos - 1
             Count(k) == Cardinality(HeadersTo(archive, k))
  <2>5. Count(pos) = Count(n) + 1 /\ Count(n) \in Nat
    BY <2>3, <2>4, CountHeader, HeadersFinite
  <2>6. Len(listed) = Count(n) /\ \A k \in HeadersTo(archive, n) : listed[Count(k)] = archive[k].name
    BY <2>1, <2>4 DEF ListInv
  <2>7. ASSUME NEW k \in HeadersTo(archive, pos)
        PROVE  listed'[Count(k)] = archive[k].name
    <3>1. CASE k = pos
      BY <1>0, <2>1, <2>3, <2>5, <2>6, <3>1
    <3>2. CASE k # pos
      <4>1. k \in HeadersTo(archive, n)
        BY <1>0, <2>4, <3>2 DEF HeadersTo
      <4>2. Count(k) \in 1 .. Count(n)
        BY <2>4, <4>1, CountBetween
      <4>3. Count(k) \in 1 .. Len(listed)
        BY <2>6, <4>2
      <4> QED
        BY <1>0, <2>1, <2>6, <4>1, <4>3
    <3> QED
      BY <3>1, <3>2
  <2>8. Len(listed') = Count(pos)
    BY <1>0, <2>1, <2>5, <2>6
  <2> QED
    BY <2>1, <2>4, <2>7, <2>8
<1>6. CASE Copy
  <2>1. /\ pc = "copy" /\ pc' = "copy" /\ archive' = archive /\ listed' = listed /\ fn' = fn
    BY <1>6 DEF Copy
  <2>2. PICK i \in 1 .. pos : InEntry(i)
    BY <2>1 DEF ReadInv, EntryInv
  <2>3. pos' = pos + 1 /\ archive[pos + 1].c = "data"
    BY <1>0, <1>6, <2>1, <2>2, RoundInEntry
  <2>4. HeadersTo(archive, pos + 1) = HeadersTo(archive, pos)
    BY <1>0, <2>3, SkipData
  <2>5. DoneTo' = pos + 1 /\ DoneTo = pos
    BY <2>1, <2>3 DEF DoneTo
  <2> QED
    BY <2>1, <2>4, <2>5 DEF ListInv
<1>7. CASE MainC \/ C \/ CEnds \/ CFile \/ CFileCrashes \/ CData \/ CFileEnds \/ MainXT \/ Usage
  BY <1>1, <1>7 DEF MainC, C, CEnds, CFile, CFileCrashes, CData, CFileEnds, MainXT, Usage
<1> QED
  BY <1>2, <1>3, <1>4, <1>5, <1>6, <1>7 DEF Next

\* At the end all headers before the first zero block have been read.
LEMMA AllRead ==
    ASSUME ReadInv, WellFormed(archive), Over
    PROVE  /\ ReadHeaders(archive) = HeadersTo(archive, pos) /\ DoneTo = pos
           /\ pc = "done" /\ pos \in Nat
<1>1. pc = "done" /\ pos \in 0 .. Len(archive) /\ Len(archive) \in Nat
  BY DEF Over, ReadInv, AlignedInv, TypeOK
<1>2. \A k \in 1 .. pos : archive[k].c # "zero"
  BY DEF ReadInv, EntryInv
<1>3. pos = Len(archive) \/ archive[pos + 1].c = "zero"
  BY <1>1 DEF ReadInv, EntryInv
<1>4. ReadHeaders(archive) = HeadersTo(archive, pos)
  <2>1. ASSUME NEW i \in ReadHeaders(archive)
        PROVE  i \in HeadersTo(archive, pos)
    <3>1. i \in 1 .. Len(archive) /\ archive[i].c = "header"
          /\ \A k \in 1 .. i : archive[k].c # "zero"
      BY <2>1 DEF ReadHeaders
    <3>2. i <= pos
      <4>1. SUFFICES ASSUME i > pos PROVE FALSE
        BY <1>1, <3>1
      <4>2. pos # Len(archive) /\ pos + 1 \in 1 .. i
        BY <1>1, <3>1, <4>1
      <4> QED
        BY <1>3, <3>1, <4>2
    <3> QED
      BY <1>1, <3>1, <3>2 DEF HeadersTo
  <2>2. ASSUME NEW i \in HeadersTo(archive, pos)
        PROVE  i \in ReadHeaders(archive)
    BY <1>1, <1>2 DEF HeadersTo, ReadHeaders
  <2> QED
    BY <2>1, <2>2
<1> QED
  BY <1>1, <1>4 DEF DoneTo

\* For every well-formed archive: sltar t prints the name of every entry, in
\* the order of the archive, once.
THEOREM EveryEntryListed == Spec => []ListedAll
<1>1. Init => ListInv
  <2> SUFFICES ASSUME Init PROVE ListInv
    OBVIOUS
  <2>1. fn = "x"
    BY DEF Init
  <2> QED
    BY <2>1 DEF ListInv
<1>2. ASSUME ReadInv, ListInv PROVE ListedAll
  <2> SUFFICES ASSUME Over, fn = "t", WellFormed(archive)
               PROVE  LET H == ReadHeaders(archive)
                      IN  /\ Len(listed) = Cardinality(H)
                          /\ \A i \in H : listed[Cardinality({k \in H : k <= i})]
                                              = archive[i].name
    BY DEF ListedAll
  <2>1. ReadHeaders(archive) = HeadersTo(archive, pos) /\ DoneTo = pos /\ pos \in Nat
    BY <1>2, AllRead
  <2>2. \A i \in HeadersTo(archive, pos) :
            {k \in HeadersTo(archive, pos) : k <= i} = HeadersTo(archive, i)
    BY <2>1 DEF HeadersTo
  <2> QED
    BY <1>2, <2>1, <2>2 DEF ListInv
<1>3. ReadInv /\ ListInv /\ [Next]_vars => ListInv'
  BY ListNext
<1>4. ReadInv /\ ListInv => ListedAll
  BY <1>2
<1> QED
  BY WholeEntriesRead, <1>1, <1>3, <1>4, PTL DEF Spec

-----------------------------------------------------------------------------
(* sltar x.  Extracted speaks of the end of the run and of the last entry   *)
(* of each name; the invariant says the same of the entries read so far,    *)
(* the part of the entry that is being copied included.                     *)

PieceAt(a, i, k) ==
    [id |-> a[i + k].id,
     n |-> IF k = Blocks(Strtol(a[i])) THEN Strtol(a[i]) - (k - 1) * END ELSE END]

DataTo(a, i, n) == [k \in 1 .. n |-> PieceAt(a, i, k)]

\* The node that the entry at i makes, with its first n blocks.
Written(a, i, n) ==
    [NewNode(a[i]) EXCEPT !.data = IF a[i].type = "REG" THEN DataTo(a, i, n) ELSE <<>>]

\* A directory beside the others in the working directory.
BaseDir(a, j) ==
    a[j].type = "DIRECTORY" /\ Parent[a[j].name] = Root /\ a[j].name \notin Unwritable

\* The directory of the file is there when x() comes to its entry, and takes it.
CanBeMade(a, i) ==
    /\ a[i].name \notin Unwritable
    /\ \/ Parent[a[i].name] = Root
       \/ /\ \E j \in HeadersTo(a, i - 1) : BaseDir(a, j) /\ a[j].name = Parent[a[i].name]
          /\ \A j \in HeadersTo(a, i - 1) :
                 a[j].type = "DIRECTORY" /\ a[j].name = Parent[a[i].name] => a[j].writable

\* The entry at i is being copied, and how much of it there is.
Current(i) == pc = "copy" /\ \A k \in i + 1 .. pos : archive[k].c = "data"

Read(i) == IF Current(i) THEN pos - i ELSE Blocks(Strtol(archive[i]))

LastOf(i) ==
    /\ archive[i].type # "HARDLINK"
    /\ \A j \in HeadersTo(archive, pos) : j > i => archive[j].name # archive[i].name

Holds(i, n) ==
    LET p == archive[i].name
    IN  /\ dir[p] # 0 /\ ~IsDirectory(p) => nodes[dir[p]] = Written(archive, i, n)
        /\ CanBeMade(archive, i) => dir[p] # 0

LastHolds == \A i \in HeadersTo(archive, DoneTo) : LastOf(i) => Holds(i, Read(i))

BaseDirsMade ==
    \A i \in HeadersTo(archive, DoneTo) :
        BaseDir(archive, i) => IsDirectory(archive[i].name)

DirsFromEntries ==
    \A p \in Paths : dir[p] # 0 /\ IsDirectory(p) =>
        \E j \in HeadersTo(archive, DoneTo) :
            /\ archive[j].name = p /\ archive[j].type = "DIRECTORY"
            /\ nodes[dir[p]] = NewNode(archive[j])

\* What is open while the entry at i is copied is the file it has made.
OpenIsEntry ==
    /\ f # 0 => nodes[f].type = "REG"
    /\ \A i \in HeadersTo(archive, DoneTo) : Current(i) =>
           /\ archive[i].type = "REG" /\ dir[fname] # 0 /\ ~IsDirectory(fname)
                  => f = dir[fname]
           /\ archive[i].type # "REG" => f = 0

FilesInv ==
    WellFormed(archive) /\ fn = "x" =>
        LastHolds /\ BaseDirsMade /\ DirsFromEntries /\ OpenIsEntry

ExtractInv == ReadInv /\ OwnFile /\ OpenOnlyToCopy /\ FilesInv

\* The three outcomes of making the file of an entry.
NothingMade ==
    /\ dir'[fname] = IF IsDirectory(fname) THEN dir[fname] ELSE 0
    /\ f' = 0 /\ nodes' = nodes
    /\ b.type # "HARDLINK" => ~Creates(Unlinked(fname), fname)

Linked ==
    /\ b.type = "HARDLINK" /\ ~IsDirectory(fname)
    /\ dir'[fname] \in 1 .. Len(nodes) /\ nodes[dir'[fname]].type # "DIRECTORY"
    /\ f' = 0 /\ nodes' = nodes

NewFile ==
    /\ b.type # "HARDLINK" /\ ~IsDirectory(fname)
    /\ dir'[fname] = Len(nodes) + 1
    /\ nodes' = Append(nodes, NewNode(b))
    /\ f' = IF b.type = "REG" THEN Len(nodes) + 1 ELSE 0

\* After unlink() the name of a directory is taken, any other is free.
LEMMA UnlinkedFree ==
    ASSUME TypeOK, NEW p \in Paths
    PROVE  /\ Unlinked(p)[p] = IF IsDirectory(p) THEN dir[p] ELSE 0
           /\ \A q \in Paths : q # p => Unlinked(p)[q] = dir[q]
           /\ IsDirectory(p) => dir[p] \in 1 .. Len(nodes)
<1>1. dir \in [Paths -> 0 .. Len(nodes)] /\ p # Root
  BY SltarAssumption DEF TypeOK
<1>2. IsDirectory(p) => dir[p] \in 1 .. Len(nodes)
  BY <1>1 DEF IsDirectory
<1> QED
  BY <1>1, <1>2 DEF Unlinked

\* x() makes the file of the entry, or leaves the name free or to a directory.
LEMMA Making ==
    ASSUME TypeOK, XLink \/ XReg \/ XOther
    PROVE  /\ \A q \in Paths : q # fname => dir'[q] = dir[q]
           /\ NothingMade \/ Linked \/ NewFile
<1> DEFINE names == Unlinked(fname)
           node == NewNode(b)
<1>0. fname \in Paths /\ nodes \in Seq(Node) /\ b \in Header
  BY HeaderBlock DEF TypeOK, XLink, XReg, XOther
<1>1. /\ names[fname] = IF IsDirectory(fname) THEN dir[fname] ELSE 0
      /\ \A q \in Paths : q # fname => names[q] = dir[q]
      /\ IsDirectory(fname) => dir[fname] \in 1 .. Len(nodes)
      /\ names \in [Paths -> 0 .. Len(nodes)]
  BY <1>0, UnlinkedFree, UnlinkedType
<1>2. Creates(names, fname) => ~IsDirectory(fname)
  BY <1>0, <1>1 DEF Creates
<1>3. CASE XLink
  <2> DEFINE there == /\ b.link \in Paths
                      /\ names[b.link] # 0
                      /\ nodes[names[b.link]].type # "DIRECTORY"
  <2>1. /\ b.type = "HARDLINK" /\ f' = 0 /\ nodes' = nodes
        /\ dir' = IF there /\ Creates(names, fname)
                  THEN [names EXCEPT ![fname] = names[b.link]] ELSE names
    BY <1>3 DEF XLink
  <2>2. CASE there /\ Creates(names, fname)
    <3>1. dir' = [names EXCEPT ![fname] = names[b.link]]
      BY <2>1, <2>2
    <3>2. names[b.link] \in 1 .. Len(nodes) /\ nodes[names[b.link]].type # "DIRECTORY"
      BY <1>1, <2>2
    <3> HIDE DEF names
    <3>3. \A q \in Paths : q # fname => dir'[q] = dir[q]
      BY <1>0, <1>1, <3>1
    <3>4. dir'[fname] = names[b.link]
      BY <1>0, <1>1, <3>1
    <3> QED
      BY <1>2, <2>1, <2>2, <3>2, <3>3, <3>4 DEF Linked
  <2>3. CASE ~(there /\ Creates(names, fname))
    <3>1. dir' = names
      BY <2>1, <2>3
    <3> QED
      BY <1>1, <2>1, <3>1 DEF NothingMade
  <2> QED
    BY <2>2, <2>3
<1>4. CASE XReg
  <2> DEFINE o == Fopen(names, fname, node)
  <2>1. b.type = "REG" /\ f' = o.f /\ dir' = o.dir /\ nodes' = o.nodes
    BY <1>4 DEF XReg
  <2>2. ~(names[fname] # 0 /\ ~IsDirectory(fname))
    BY <1>1
  <2>3. CASE Creates(names, fname)
    <3>1. o = [f |-> Len(nodes) + 1, dir |-> [names EXCEPT ![fname] = Len(nodes) + 1],
               nodes |-> Append(nodes, node)]
      BY <2>3 DEF Fopen
    <3>2. /\ f' = Len(nodes) + 1 /\ dir' = [names EXCEPT ![fname] = Len(nodes) + 1]
          /\ nodes' = Append(nodes, node)
      BY <2>1, <3>1
    <3>3. dir'[fname] = Len(nodes) + 1 /\ \A q \in Paths : q # fname => dir'[q] = dir[q]
      <4> HIDE DEF names
      <4> QED
        BY <1>0, <1>1, <3>2
    <3> QED
      BY <1>2, <2>1, <2>3, <3>2, <3>3 DEF NewFile
  <2>4. CASE ~Creates(names, fname)
    <3>1. o = [f |-> 0, dir |-> names, nodes |-> nodes]
      BY <2>2, <2>4 DEF Fopen
    <3>2. f' = 0 /\ dir' = names /\ nodes' = nodes
      BY <2>1, <3>1
    <3> QED
      BY <1>1, <2>4, <3>2 DEF NothingMade
  <2> QED
    BY <2>3, <2>4
<1>5. CASE XOther
  <2>1. b.type \notin {"REG", "HARDLINK"} /\ f' = 0
    BY <1>5 DEF XOther
  <2>2. CASE Creates(names, fname)
    <3>1. nodes' = Append(nodes, node) /\ dir' = [names EXCEPT ![fname] = Len(nodes) + 1]
      BY <1>5, <2>2 DEF XOther
    <3>2. dir'[fname] = Len(nodes) + 1 /\ \A q \in Paths : q # fname => dir'[q] = dir[q]
      <4> HIDE DEF names
      <4> QED
        BY <1>0, <1>1, <3>1
    <3> QED
      BY <1>2, <2>1, <2>2, <3>1, <3>2 DEF NewFile
  <2>3. CASE ~Creates(names, fname)
    <3>1. dir' = names /\ nodes' = nodes
      BY <1>5, <2>3 DEF XOther
    <3> QED
      BY <1>1, <2>1, <2>3, <3>1 DEF NothingMade
  <2> QED
    BY <2>2, <2>3
<1> QED
  BY <1>3, <1>4, <1>5

\* Directories stay, and nothing becomes one but by its own entry.
LEMMA DirsStay ==
    ASSUME TypeOK, XLink \/ XReg \/ XOther
    PROVE  /\ \A k \in 1 .. Len(nodes) : nodes'[k] = nodes[k]
           /\ \A q \in Paths : IsDirectory(q) => dir'[q] = dir[q] /\ IsDirectory(q)'
           /\ \A q \in Paths : q # fname => (IsDirectory(q)' <=> IsDirectory(q))
<1>0. /\ fname \in Paths /\ nodes \in Seq(Node)
      /\ \A q \in Paths : dir[q] \in 0 .. Len(nodes)
      /\ \A q \in Paths : q # Root
  BY SltarAssumption DEF TypeOK, XLink, XReg, XOther
<1>1. /\ \A q \in Paths : q # fname => dir'[q] = dir[q]
      /\ NothingMade \/ Linked \/ NewFile
  BY Making
<1>2. \A k \in 1 .. Len(nodes) : nodes'[k] = nodes[k]
  <2>1. NewNode(b) \in Node
    BY HeaderBlock, NewNodeType DEF TypeOK, XLink, XReg, XOther
  <2> QED
    BY <1>0, <1>1, <2>1 DEF NothingMade, Linked, NewFile
<1>3. ASSUME NEW q \in Paths, dir'[q] = dir[q]
      PROVE  IsDirectory(q)' <=> IsDirectory(q)
  BY <1>0, <1>2, <1>3 DEF IsDirectory
<1>4. IsDirectory(fname) => dir'[fname] = dir[fname]
  BY <1>1 DEF NothingMade, Linked, NewFile
<1> QED
  BY <1>1, <1>2, <1>3, <1>4

\* The entry that makes a file is the last read, and its header is b.
LEMMA MakingEntry ==
    ASSUME ExtractInv, WellFormed(archive), XLink \/ XReg \/ XOther
    PROVE  /\ pos \in HeadersTo(archive, pos) /\ pos \in Nat
           /\ archive[pos] = b /\ b \in Header /\ fname = b.name /\ fname \in Paths
           /\ DoneTo = pos - 1 /\ DoneTo' = pos /\ pos' = pos
           /\ pc = "x" /\ pc' = "copy" /\ archive' = archive /\ fn' = fn /\ fn = "x"
           /\ fname' = fname
           /\ HeadersTo(archive, pos) = HeadersTo(archive, pos - 1) \cup {pos}
           /\ \A i \in HeadersTo(archive, pos) : Current(i)' <=> i = pos
<1>1. /\ pc = "x" /\ pc' = "copy" /\ archive' = archive /\ pos' = pos /\ fn' = fn /\ b' = b
      /\ fname' = fname
  BY DEF XLink, XReg, XOther, reading
<1>2. TypeOK /\ pos \in Nat /\ fn = "x" /\ fname \in Paths
  BY <1>1 DEF ExtractInv, ReadInv, Called, TypeOK
<1>3. PICK i \in 1 .. pos : InEntry(i)
  BY <1>1 DEF ExtractInv, ReadInv, EntryInv
<1>4. i = pos /\ archive[pos] = b /\ b.c = "header" /\ fname = b.name
  BY <1>1, <1>3 DEF InEntry
<1>5. b \in Header
  BY <1>2, <1>4, HeaderBlock DEF TypeOK
<1>6. DoneTo = pos - 1 /\ DoneTo' = pos
  BY <1>1, <1>2 DEF DoneTo
<1>7. HeadersTo(archive, pos) = HeadersTo(archive, pos - 1) \cup {pos} /\ pos \in HeadersTo(archive, pos)
  BY <1>2, <1>3, <1>4 DEF HeadersTo
<1>8. ASSUME NEW j \in HeadersTo(archive, pos)
      PROVE  Current(j)' <=> j = pos
  BY <1>1, <1>2, <1>4 DEF HeadersTo, Current
<1> QED
  BY <1>1, <1>2, <1>4, <1>5, <1>6, <1>7, <1>8

\* The directory of an entry that can be made is there.
LEMMA ParentThere ==
    ASSUME ExtractInv, WellFormed(archive), XLink \/ XReg \/ XOther,
           CanBeMade(archive, pos), b.type # "HARDLINK"
    PROVE  dir'[fname] # 0
<1>1. /\ archive[pos] = b /\ fname = b.name /\ fname \in Paths /\ DoneTo = pos - 1
      /\ fn = "x" /\ TypeOK
  BY MakingEntry DEF ExtractInv, ReadInv
<1>2. fname \notin Unwritable /\ TakesFiles(Parent[fname])
  <2>1. CASE Parent[fname] = Root
    BY <1>1, <2>1 DEF CanBeMade, IsDirectory, TakesFiles
  <2>2. CASE Parent[fname] # Root
    <3>1. PICK j \in HeadersTo(archive, pos - 1) :
              BaseDir(archive, j) /\ archive[j].name = Parent[fname]
      BY <1>1, <2>2 DEF CanBeMade
    <3>2. IsDirectory(archive[j].name)
      BY <1>1, <3>1 DEF ExtractInv, FilesInv, BaseDirsMade
    <3>3. Parent[fname] \in Paths /\ dir[Parent[fname]] # 0
      BY <1>1, <2>2, <3>1, <3>2, SltarAssumption DEF IsDirectory
    <3>4. PICK k \in HeadersTo(archive, pos - 1) :
              /\ archive[k].name = Parent[fname] /\ archive[k].type = "DIRECTORY"
              /\ nodes[dir[Parent[fname]]] = NewNode(archive[k])
      BY <1>1, <3>1, <3>2, <3>3 DEF ExtractInv, FilesInv, DirsFromEntries
    <3>5. archive[k].writable
      BY <1>1, <2>2, <3>4 DEF CanBeMade
    <3>6. nodes[dir[Parent[fname]]].writable
      BY <3>4, <3>5 DEF NewNode
    <3> QED
      BY <1>1, <3>1, <3>2, <3>6 DEF CanBeMade, TakesFiles
  <2> QED
    BY <2>1, <2>2
<1>3. CASE IsDirectory(fname)
  BY <1>1, <1>3, DirsStay, UnlinkedFree
<1>4. CASE ~IsDirectory(fname)
  <2>1. Creates(Unlinked(fname), fname)
    BY <1>1, <1>2, <1>4, UnlinkedFree DEF Creates
  <2>2. NewFile
    BY <1>1, <2>1, Making DEF NothingMade, Linked
  <2> QED
    BY <1>1, <2>2 DEF NewFile, TypeOK
<1> QED
  BY <1>3, <1>4

LEMMA NoBlocks ==
    ASSUME NEW i \in 1 .. Len(archive), archive[i] \in Header
    PROVE  Written(archive, i, 0) = NewNode(archive[i])
<1>1. DataTo(archive, i, 0) = <<>>
  BY DEF DataTo
<1> QED
  BY <1>1 DEF Written, NewNode

LEMMA FilesMake ==
    ASSUME ExtractInv, WellFormed(archive), XLink \/ XReg \/ XOther
    PROVE  (LastHolds /\ BaseDirsMade /\ DirsFromEntries /\ OpenIsEntry)'
<1>0. TypeOK /\ LastHolds /\ BaseDirsMade /\ DirsFromEntries /\ OpenIsEntry
  BY MakingEntry DEF ExtractInv, ReadInv, FilesInv
<1>1. /\ pos \in HeadersTo(archive, pos) /\ pos \in Nat
      /\ archive[pos] = b /\ b \in Header /\ fname = b.name /\ fname \in Paths
      /\ DoneTo = pos - 1 /\ DoneTo' = pos /\ pos' = pos
      /\ pc = "x" /\ pc' = "copy" /\ archive' = archive /\ fname' = fname
      /\ HeadersTo(archive, pos) = HeadersTo(archive, pos - 1) \cup {pos}
      /\ \A i \in HeadersTo(archive, pos) : Current(i)' <=> i = pos
  BY MakingEntry
<1>2. /\ \A k \in 1 .. Len(nodes) : nodes'[k] = nodes[k]
      /\ \A q \in Paths : IsDirectory(q) => dir'[q] = dir[q] /\ IsDirectory(q)'
      /\ \A q \in Paths : q # fname => (IsDirectory(q)' <=> IsDirectory(q))
  BY <1>0, DirsStay
<1>3. /\ \A q \in Paths : q # fname => dir'[q] = dir[q]
      /\ NothingMade \/ Linked \/ NewFile
  BY <1>0, Making
<1>4. /\ \A i \in HeadersTo(archive, pos) :
             i \in 1 .. Len(archive) /\ archive[i] \in Header /\ archive[i].name \in Paths
      /\ \A q \in Paths : q # Root /\ dir[q] \in 0 .. Len(nodes)
      /\ nodes \in Seq(Node) /\ NewNode(b) \in Node /\ Len(nodes) \in Nat
  <2>1. \A i \in HeadersTo(archive, pos) : i \in 1 .. Len(archive) /\ archive[i] \in Header
    BY <1>0, HeaderBlock DEF HeadersTo, TypeOK
  <2>2. \A h \in Header : h.name \in Paths
    BY DEF Header
  <2>3. \A q \in Paths : q # Root /\ dir[q] \in 0 .. Len(nodes)
    BY <1>0, SltarAssumption DEF TypeOK
  <2>4. nodes \in Seq(Node) /\ NewNode(b) \in Node /\ Len(nodes) \in Nat
    BY <1>0, <1>1, NewNodeType DEF TypeOK
  <2> QED
    BY <2>1, <2>2, <2>3, <2>4
<1>5. NewFile => /\ nodes'[Len(nodes) + 1] = NewNode(b)
                 /\ dir'[fname] # 0
                 /\ IsDirectory(fname)' <=> b.type = "DIRECTORY"
  <2>1. NewNode(b).type = b.type
    BY DEF NewNode
  <2>2. NewFile => nodes'[Len(nodes) + 1] = NewNode(b)
    BY <1>4 DEF NewFile
  <2> QED
    BY <1>1, <1>4, <2>1, <2>2 DEF NewFile, IsDirectory
<1>6. NothingMade /\ ~IsDirectory(fname)' => dir'[fname] = 0
  BY <1>1, <1>2 DEF NothingMade
<1>7. LastHolds'
  <2> SUFFICES ASSUME NEW i \in HeadersTo(archive, pos), LastOf(i)'
               PROVE  Holds(i, Read(i))'
    BY <1>1 DEF LastHolds
  <2>0. PICK p \in Paths : p = archive[i].name
    BY <1>4
  <2>1. CASE i = pos
    <3>1. p = fname /\ b.type # "HARDLINK"
      BY <1>1, <2>0, <2>1 DEF LastOf
    <3>2. Read(i)' = 0
      BY <1>1, <2>1 DEF Read
    <3>3. ASSUME dir'[p] # 0, ~IsDirectory(p)'
          PROVE  nodes'[dir'[p]] = Written(archive, i, 0)
      <4>1. NewFile
        BY <1>1, <1>3, <1>6, <3>1, <3>3 DEF Linked
      <4>2. nodes'[dir'[p]] = NewNode(b)
        BY <1>5, <3>1, <4>1 DEF NewFile
      <4> QED
        BY <1>1, <1>4, <2>1, <4>2, NoBlocks
    <3>4. CanBeMade(archive, i) => dir'[p] # 0
      BY <2>1, <3>1, ParentThere
    <3> QED
      BY <1>1, <2>0, <3>2, <3>3, <3>4 DEF Holds, IsDirectory
  <2>2. CASE i # pos
    <3>1. i \in HeadersTo(archive, pos - 1) /\ i < pos
      BY <1>1, <2>2 DEF HeadersTo
    <3>2. p # fname /\ p \in Paths
      BY <1>1, <2>0, <3>1 DEF LastOf
    <3>3. Holds(i, Read(i))
      <4>1. LastOf(i)
        BY <1>1 DEF LastOf
      <4> QED
        BY <1>0, <1>1, <3>1, <4>1 DEF LastHolds
    <3>4. Read(i)' = Read(i)
      <4>1. ~Current(i) /\ ~Current(i)'
        BY <1>1, <2>2 DEF Current
      <4> QED
        BY <1>1, <4>1 DEF Read
    <3>5. dir'[p] = dir[p] /\ (IsDirectory(p)' <=> IsDirectory(p))
      BY <1>2, <1>3, <3>2
    <3>6. dir[p] # 0 => nodes'[dir[p]] = nodes[dir[p]]
      BY <1>2, <1>4, <3>2
    <3> QED
      BY <1>1, <2>0, <3>3, <3>4, <3>5, <3>6 DEF Holds, IsDirectory
  <2> QED
    BY <2>1, <2>2
<1>8. BaseDirsMade'
  <2> SUFFICES ASSUME NEW i \in HeadersTo(archive, pos), BaseDir(archive, i),
                      NEW p \in Paths, p = archive[i].name
               PROVE  IsDirectory(p)'
    BY <1>1, <1>4 DEF BaseDirsMade, IsDirectory
  <2>1. CASE i = pos
    <3>1. CanBeMade(archive, pos) /\ b.type = "DIRECTORY" /\ p = fname
      BY <1>1, <2>1 DEF BaseDir, CanBeMade
    <3>2. dir'[fname] # 0
      BY <3>1, ParentThere
    <3>3. NewFile => IsDirectory(fname)'
      BY <1>5, <3>1
    <3> QED
      <4>1. IsDirectory(fname)'
        BY <1>3, <1>6, <3>1, <3>2, <3>3 DEF Linked
      <4> QED
        BY <1>1, <3>1, <4>1 DEF IsDirectory
  <2>2. CASE i # pos
    <3>1. IsDirectory(p)
      BY <1>0, <1>1, <2>2 DEF BaseDirsMade
    <3> QED
      BY <1>2, <1>4, <3>1
  <2> QED
    BY <2>1, <2>2
<1>9. DirsFromEntries'
  <2> SUFFICES ASSUME NEW p \in Paths, dir'[p] # 0, IsDirectory(p)'
               PROVE  \E j \in HeadersTo(archive, pos) :
                          /\ archive[j].name = p /\ archive[j].type = "DIRECTORY"
                          /\ nodes'[dir'[p]] = NewNode(archive[j])
    BY <1>1 DEF DirsFromEntries
  <2>1. CASE IsDirectory(p)
    <3>1. dir'[p] = dir[p] /\ nodes'[dir[p]] = nodes[dir[p]]
      BY <1>2, <1>4, <2>1
    <3> QED
      BY <1>0, <1>1, <2>1, <3>1 DEF DirsFromEntries
  <2>2. CASE ~IsDirectory(p)
    <3>1. p = fname
      BY <1>2, <2>2
    <3>2. ~NothingMade
      BY <2>2, <3>1 DEF NothingMade
    <3>3. ~Linked
      BY <1>1, <1>2, <1>4, <3>1 DEF Linked, IsDirectory
    <3>4. NewFile
      BY <1>3, <3>2, <3>3
    <3>5. b.type = "DIRECTORY" /\ nodes'[dir'[p]] = NewNode(archive[pos])
      BY <1>1, <1>5, <3>1, <3>4 DEF NewFile
    <3> QED
      BY <1>1, <3>1, <3>5
  <2> QED
    BY <2>1, <2>2
<1>10. OpenIsEntry'
  <2>1. f' # 0 => nodes'[f'].type = "REG"
    <3>1. NewNode(b).type = b.type
      BY DEF NewNode
    <3> QED
      BY <1>3, <1>5, <3>1 DEF NothingMade, Linked, NewFile
  <2>2. ASSUME b.type = "REG", dir'[fname] # 0, ~IsDirectory(fname)'
        PROVE  f' = dir'[fname]
    <3>1. NewFile
      BY <1>3, <1>6, <2>2 DEF Linked
    <3> QED
      BY <2>2, <3>1 DEF NewFile
  <2>3. b.type # "REG" => f' = 0
    BY <1>3 DEF NothingMade, Linked, NewFile
  <2> QED
    BY <1>1, <2>1, <2>2, <2>3 DEF OpenIsEntry
<1> QED
  BY <1>7, <1>8, <1>9, <1>10

\* The piece that one round writes is the next one of the entry.
LEMMA NextPiece ==
    ASSUME TypeOK, WellFormed(archive), NEW i \in 1 .. pos, InEntry(i), l > 0
    PROVE  Piece = PieceAt(archive, i, pos - i + 1)
<1>0. pos \in Nat /\ i \in Nat /\ Len(archive) \in Nat /\ l \in Int
  BY DEF TypeOK
<1>1. pos < Len(archive) /\ archive[pos + 1].c = "data"
  BY DataFollows
<1> DEFINE S == Strtol(archive[i])
           k == pos - i + 1
<1>2. Piece = [id |-> archive[pos + 1].id, n |-> IF l < END THEN l ELSE END]
  BY <1>1 DEF Piece
<1>3. S \in Nat
  BY HeaderBlock, StrtolType DEF InEntry, TypeOK
<1>4. l = S - (k - 1) * END /\ (k - 1) + Blocks(l) = Blocks(S) /\ k \in Nat
  BY <1>0 DEF InEntry
<1>5. Blocks(l) = (l - 1) \div 512 + 1 /\ Blocks(S) \in Int
  BY <1>0, <1>3 DEF Blocks, END
<1>6. (k = Blocks(S)) <=> l <= 512
  <2> HIDE DEF S, k
  <2> QED
    BY <1>0, <1>4, <1>5
<1>7. (IF l < END THEN l ELSE END) = IF k = Blocks(S) THEN S - (k - 1) * END ELSE END
  <2> HIDE DEF S, k
  <2> QED
    BY <1>0, <1>4, <1>6 DEF END
<1>8. i + k = pos + 1
  BY <1>0
<1> QED
  BY <1>2, <1>7, <1>8 DEF PieceAt

LEMMA OnePieceMore ==
    ASSUME NEW a, NEW i \in Nat, NEW n \in Nat
    PROVE  Append(DataTo(a, i, n), PieceAt(a, i, n + 1)) = DataTo(a, i, n + 1)
<1> DEFINE S == {PieceAt(a, i, k) : k \in 1 .. n + 1}
           P(k) == PieceAt(a, i, k)
<1>1. [k \in 1 .. n |-> P(k)] \in Seq(S) /\ Len([k \in 1 .. n |-> P(k)]) = n
  <2>1. \A k \in 1 .. n : P(k) \in S
    OBVIOUS
  <2> HIDE DEF S, P
  <2> QED
    BY <2>1
<1>2. P(n + 1) \in S
  OBVIOUS
<1>3. Append([k \in 1 .. n |-> P(k)], P(n + 1)) = [k \in 1 .. n + 1 |-> P(k)]
  <2> HIDE DEF S, P
  <2> QED
    BY <1>1, <1>2
<1> QED
  BY <1>3 DEF DataTo

\* In the middle of an entry only that entry is current.
LEMMA CurrentIsEntry ==
    ASSUME TypeOK, pc = "copy", NEW i \in 1 .. pos, InEntry(i), NEW j \in HeadersTo(archive, pos)
    PROVE  /\ i \in HeadersTo(archive, pos)
           /\ Current(j) <=> j = i
           /\ j # i => j < i
<1>0. pos \in Nat /\ i \in Nat /\ j \in 1 .. pos /\ archive[j].c = "header"
  BY DEF TypeOK, HeadersTo
<1>1. archive[i].c = "header" /\ \A k \in i + 1 .. pos : archive[k].c = "data"
  BY DEF InEntry
<1>2. j # i => j < i
  BY <1>0, <1>1
<1>3. Current(j) <=> j = i
  BY <1>0, <1>1, <1>2 DEF Current
<1> QED
  BY <1>0, <1>1, <1>2, <1>3 DEF HeadersTo

LEMMA FilesCopy ==
    ASSUME ExtractInv, WellFormed(archive), fn = "x", Copy
    PROVE  (LastHolds /\ BaseDirsMade /\ DirsFromEntries /\ OpenIsEntry)'
<1>0. TypeOK /\ LastHolds /\ BaseDirsMade /\ DirsFromEntries /\ OpenIsEntry /\ OwnFile
  BY DEF ExtractInv, ReadInv, FilesInv
<1>1. /\ pc = "copy" /\ pc' = "copy" /\ archive' = archive /\ fname' = fname
      /\ f' = f /\ dir' = dir /\ l > 0
      /\ nodes' = IF f # 0 THEN [nodes EXCEPT ![f].data = Append(nodes[f].data, Piece)]
                  ELSE nodes
  BY DEF Copy
<1>2. PICK c0 \in 1 .. pos : InEntry(c0)
  BY <1>1 DEF ExtractInv, ReadInv, EntryInv
<1>3. /\ pos' = pos + 1 /\ archive[pos + 1].c = "data" /\ pos \in Nat /\ c0 \in Nat
      /\ InEntry(c0)'
  BY <1>0, <1>2, RoundInEntry DEF TypeOK
<1>4. /\ DoneTo = pos /\ DoneTo' = pos + 1
      /\ HeadersTo(archive, pos + 1) = HeadersTo(archive, pos)
  BY <1>1, <1>3, SkipData DEF DoneTo
<1>5. \A i \in HeadersTo(archive, pos) :
          /\ c0 \in HeadersTo(archive, pos)
          /\ (Current(i) <=> i = c0) /\ (Current(i)' <=> i = c0)
          /\ i # c0 => i < c0
  <2>1. \A i \in HeadersTo(archive, pos) :
            c0 \in HeadersTo(archive, pos) /\ (Current(i) <=> i = c0) /\ (i # c0 => i < c0)
    BY <1>0, <1>1, <1>2, CurrentIsEntry
  <2>2. \A i \in HeadersTo(archive, pos) : Current(i)' <=> Current(i)
    BY <1>1, <1>3 DEF Current, HeadersTo
  <2> QED
    BY <2>1, <2>2
<1>6. /\ \A i \in HeadersTo(archive, pos) : archive[i].name \in Paths
      /\ \A q \in Paths : q # Root /\ dir[q] \in 0 .. Len(nodes)
      /\ nodes \in Seq(Node) /\ f \in 0 .. Len(nodes)
  <2>1. \A i \in HeadersTo(archive, pos) : archive[i] \in Header
    BY <1>0, HeaderBlock DEF HeadersTo, TypeOK
  <2>2. \A h \in Header : h.name \in Paths
    BY DEF Header
  <2> QED
    BY <1>0, <2>1, <2>2, SltarAssumption DEF TypeOK
<1>7. /\ Len(nodes') = Len(nodes)
      /\ \A k \in 1 .. Len(nodes) : nodes'[k].type = nodes[k].type
      /\ \A k \in 1 .. Len(nodes) : k # f => nodes'[k] = nodes[k]
      /\ f # 0 => nodes'[f] = [nodes[f] EXCEPT !.data = Append(nodes[f].data, Piece)]
  <2>1. nodes[f] \in Node => [nodes[f] EXCEPT !.data = Append(nodes[f].data, Piece)].type
                                = nodes[f].type
    BY DEF Node
  <2>2. f # 0 => nodes[f] \in Node
    BY <1>6
  <2> DEFINE new == [nodes[f] EXCEPT !.data = Append(nodes[f].data, Piece)]
  <2>3. nodes' = IF f # 0 THEN [nodes EXCEPT ![f] = new] ELSE nodes
    BY <1>1
  <2> HIDE DEF new
  <2>4. /\ Len(nodes') = Len(nodes)
        /\ \A k \in 1 .. Len(nodes) : k # f => nodes'[k] = nodes[k]
        /\ f # 0 => nodes'[f] = new
    BY <1>6, <2>3
  <2>5. f # 0 => new.type = nodes[f].type
    BY <2>1, <2>2 DEF new
  <2>6. \A k \in 1 .. Len(nodes) : nodes'[k].type = nodes[k].type
    BY <2>4, <2>5
  <2> QED
    BY <2>4, <2>6 DEF new
<1>8. \A q \in Paths : IsDirectory(q)' <=> IsDirectory(q)
  BY <1>1, <1>6, <1>7 DEF IsDirectory
<1>9. LastHolds'
  <2> SUFFICES ASSUME NEW i \in HeadersTo(archive, pos), LastOf(i)'
               PROVE  Holds(i, Read(i))'
    BY <1>1, <1>4 DEF LastHolds
  <2>0. PICK p \in Paths : p = archive[i].name
    BY <1>6
  <2>1. LastOf(i) /\ Holds(i, Read(i))
    <3>1. LastOf(i)
      BY <1>1, <1>3, <1>4 DEF LastOf
    <3> QED
      BY <1>0, <1>4, <3>1 DEF LastHolds
  <2>2. CanBeMade(archive, i) => dir'[p] # 0
    BY <1>1, <2>0, <2>1 DEF Holds
  <2>3. CASE i = c0
    <3>1. p = fname /\ Read(i) = pos - c0 /\ Read(i)' = pos + 1 - c0 /\ archive[i].c = "header"
      BY <1>1, <1>2, <1>3, <1>5, <2>0, <2>3 DEF Read, InEntry
    <3>2. ASSUME dir[p] # 0, ~IsDirectory(p)
          PROVE  nodes'[dir[p]] = Written(archive, i, pos + 1 - c0)
      <4> DEFINE n == pos - c0
                 new == NewNode(archive[i])
      <4>1. nodes[dir[p]] = Written(archive, i, n)
        BY <2>0, <2>1, <3>1, <3>2 DEF Holds
      <4>2. CASE archive[i].type = "REG"
        <5>1. f = dir[p] /\ f # 0
          BY <1>0, <1>4, <1>5, <2>3, <3>1, <3>2, <4>2 DEF OpenIsEntry
        <5>2. nodes[f] = [new EXCEPT !.data = DataTo(archive, i, n)]
          BY <4>1, <4>2, <5>1 DEF Written
        <5>3. nodes[f].data = DataTo(archive, i, n)
          BY <5>2 DEF NewNode
        <5>4. Piece = PieceAt(archive, i, n + 1)
          BY <1>0, <1>1, <1>2, <2>3, NextPiece
        <5>5. n \in Nat /\ pos + 1 - c0 = n + 1
          BY <1>2, <1>3
        <5>6. Append(nodes[f].data, Piece) = DataTo(archive, i, n + 1)
          BY <1>3, <2>3, <5>3, <5>4, <5>5, OnePieceMore
        <5>7. nodes'[f] = [nodes[f] EXCEPT !.data = DataTo(archive, i, n + 1)]
          BY <1>7, <5>1, <5>6
        <5>8. nodes'[f] = [new EXCEPT !.data = DataTo(archive, i, n + 1)]
          BY <5>2, <5>7 DEF NewNode
        <5> QED
          BY <4>2, <5>1, <5>5, <5>8 DEF Written
      <4>3. CASE archive[i].type # "REG"
        <5>1. f = 0
          BY <1>0, <1>4, <1>5, <2>3, <4>3 DEF OpenIsEntry
        <5> QED
          BY <1>1, <4>1, <4>3, <5>1 DEF Written
      <4> QED
        BY <4>2, <4>3
    <3> QED
      BY <1>1, <1>8, <2>0, <2>2, <3>1, <3>2 DEF Holds, IsDirectory
  <2>4. CASE i # c0
    <3>1. i < c0 /\ c0 \in HeadersTo(archive, pos) /\ archive[c0].name = fname
      BY <1>2, <1>5, <2>4 DEF InEntry
    <3>2. p # fname
      BY <2>0, <2>1, <3>1 DEF LastOf
    <3>3. Read(i)' = Read(i)
      BY <1>1, <1>5, <2>4 DEF Read
    <3>4. dir[p] # 0 => nodes'[dir[p]] = nodes[dir[p]]
      BY <1>0, <1>6, <1>7, <3>2 DEF OwnFile
    <3> QED
      BY <1>1, <1>8, <2>0, <2>1, <3>3, <3>4 DEF Holds, IsDirectory
  <2> QED
    BY <2>3, <2>4
<1>10. BaseDirsMade'
  <2> SUFFICES ASSUME NEW i \in HeadersTo(archive, pos), BaseDir(archive, i),
                      NEW p \in Paths, p = archive[i].name
               PROVE  IsDirectory(p)'
    BY <1>1, <1>4, <1>6 DEF BaseDirsMade, IsDirectory
  <2>1. IsDirectory(p)
    BY <1>0, <1>4 DEF BaseDirsMade
  <2> QED
    BY <1>8, <2>1
<1>11. DirsFromEntries'
  <2>0. archive' = archive /\ HeadersTo(archive, DoneTo') = HeadersTo(archive, pos)
    BY <1>1, <1>4
  <2> SUFFICES ASSUME NEW p \in Paths, dir'[p] # 0, IsDirectory(p)'
               PROVE  \E j \in HeadersTo(archive, pos) :
                          /\ archive[j].name = p /\ archive[j].type = "DIRECTORY"
                          /\ nodes'[dir'[p]] = NewNode(archive[j])
    BY <2>0 DEF DirsFromEntries
  <2>1. dir'[p] = dir[p] /\ dir[p] # 0 /\ IsDirectory(p)
    BY <1>1, <1>8
  <2>2. nodes[dir[p]].type = "DIRECTORY" /\ dir[p] \in 1 .. Len(nodes)
    BY <1>6, <2>1 DEF IsDirectory
  <2>3. nodes'[dir[p]] = nodes[dir[p]]
    BY <1>0, <1>7, <2>2 DEF OpenIsEntry
  <2> QED
    BY <1>0, <1>4, <2>1, <2>3 DEF DirsFromEntries
<1>12. OpenIsEntry'
  <2>1. f' # 0 => nodes'[f'].type = "REG"
    BY <1>0, <1>1, <1>6, <1>7 DEF OpenIsEntry
  <2>2. fname \in Paths
    BY <1>0, <1>1 DEF TypeOK
  <2>3. IsDirectory(fname)' <=> IsDirectory(fname)
    BY <1>1, <1>6, <1>7, <2>2 DEF IsDirectory
  <2> QED
    BY <1>0, <1>1, <1>4, <1>5, <2>1, <2>3 DEF OpenIsEntry
<1> QED
  BY <1>9, <1>10, <1>11, <1>12

LEMMA FilesNext ==
    ASSUME ExtractInv, [Next]_vars
    PROVE  ExtractInv'
<1>0. ReadInv' /\ OwnFile' /\ OpenOnlyToCopy'
  BY EntryNext, KeptNext DEF ExtractInv, ReadInv
<1>1. TypeOK /\ TypeOK' /\ pos \in Nat
  <2>1. TypeOK /\ TypeOK'
    BY TypeNext DEF ExtractInv, ReadInv
  <2>2. pos \in Nat
    BY <2>1 DEF TypeOK
  <2> QED
    BY <2>1, <2>2
<1> SUFFICES ASSUME WellFormed(archive'), fn' = "x"
             PROVE  (LastHolds /\ BaseDirsMade /\ DirsFromEntries /\ OpenIsEntry)'
  BY <1>0 DEF ExtractInv, FilesInv
<1> DEFINE AllOfIt == LastHolds /\ BaseDirsMade /\ DirsFromEntries /\ OpenIsEntry
<1>2. WellFormed(archive) /\ fn = "x" => AllOfIt
  BY DEF ExtractInv, FilesInv
<1>3. CASE pc \in {"main", "c", "c_file", "c_data", "archived"}
  <2>1. pos' = 0 /\ dir' = [p \in Paths |-> 0] /\ f' = 0 /\ pc' \notin {"x", "t"}
    BY <1>3 DEF ExtractInv, ReadInv, AtStart, Untouched, Next, MainC, C, CEnds, CFile,
                CFileCrashes, CData,
                CFileEnds, MainXT, Usage, TarHeader, TarEnds, TarLost, XLink, XReg, XOther, T,
                Copy, CopyEnds, vars, creating, reading, files
  <2>2. HeadersTo(archive', DoneTo') = {}
    BY <2>1 DEF HeadersTo, DoneTo
  <2>3. LastHolds' /\ BaseDirsMade'
    BY <2>2 DEF LastHolds, BaseDirsMade
  <2>4. DirsFromEntries'
    BY <2>1 DEF DirsFromEntries
  <2>5. OpenIsEntry'
    BY <2>1, <2>2 DEF OpenIsEntry
  <2> QED
    BY <2>3, <2>4, <2>5
<1>4. CASE TarHeader
  <2>1. /\ pc = "tar" /\ pc' \in {"x", "t"} /\ archive' = archive /\ pos' = pos + 1
        /\ dir' = dir /\ nodes' = nodes /\ f' = f /\ fn' = fn
    BY <1>1, <1>4 DEF TarHeader, TypeOK, files
  <2>2. DoneTo' = pos /\ DoneTo = pos
    BY <1>1, <2>1 DEF DoneTo
  <2>3. \A i : ~Current(i) /\ ~Current(i)' /\ Read(i)' = Read(i)
    BY <2>1 DEF Current, Read
  <2>4. \A i : LastOf(i)' => LastOf(i)
    BY <1>1, <2>1 DEF LastOf, HeadersTo
  <2>5. \A i, n : Holds(i, n)' <=> Holds(i, n)
    BY <2>1 DEF Holds, IsDirectory
  <2>6. LastHolds'
    <3> SUFFICES ASSUME NEW i \in HeadersTo(archive, pos), LastOf(i)'
                 PROVE  Holds(i, Read(i))'
      BY <2>1, <2>2 DEF LastHolds
    <3>1. Holds(i, Read(i))
      BY <1>2, <2>1, <2>2, <2>4 DEF LastHolds
    <3> QED
      BY <2>1, <2>3, <3>1 DEF Holds, IsDirectory
  <2>7. BaseDirsMade'
    BY <1>2, <2>1, <2>2 DEF BaseDirsMade, IsDirectory
  <2>8. DirsFromEntries'
    BY <1>2, <2>1, <2>2 DEF DirsFromEntries, IsDirectory
  <2>9. OpenIsEntry'
    BY <1>2, <2>1, <2>3 DEF OpenIsEntry
  <2> QED
    BY <2>6, <2>7, <2>8, <2>9
<1>5. CASE TarEnds \/ TarLost \/ UNCHANGED vars
  <2>1. /\ archive' = archive /\ pos' = pos /\ dir' = dir /\ nodes' = nodes /\ f' = f
        /\ fn' = fn /\ fname' = fname /\ (pc' \in {"x", "t"} <=> pc \in {"x", "t"})
        /\ (pc' = "copy" <=> pc = "copy")
    BY <1>5 DEF TarEnds, TarLost, vars, reading, files
  <2>2. DoneTo' = DoneTo
    BY <2>1 DEF DoneTo
  <2>3. LastHolds'
    BY <1>2, <2>1, <2>2 DEF LastHolds, LastOf, Holds, Read, Current, IsDirectory
  <2>4. BaseDirsMade' /\ DirsFromEntries'
    BY <1>2, <2>1, <2>2 DEF BaseDirsMade, DirsFromEntries, IsDirectory
  <2>5. OpenIsEntry'
    BY <1>2, <2>1, <2>2 DEF OpenIsEntry, Current, IsDirectory
  <2> QED
    BY <2>3, <2>4, <2>5
<1>6. CASE XLink \/ XReg \/ XOther
  <2>1. archive' = archive
    BY <1>6 DEF XLink, XReg, XOther
  <2> QED
    BY <1>6, <2>1, FilesMake
<1>7. CASE T
  <2>1. pc = "t" /\ fn' = fn
    BY <1>7 DEF T, reading
  <2> QED
    BY <2>1 DEF ExtractInv, ReadInv, Called
<1>8. CASE Copy
  <2>1. archive' = archive /\ fn' = fn
    BY <1>8 DEF Copy
  <2> QED
    BY <1>8, <2>1, FilesCopy
<1>9. CASE CopyEnds
  <2>1. /\ pc = "copy" /\ pc' = "tar" /\ archive' = archive /\ pos' = pos /\ dir' = dir
        /\ nodes' = nodes /\ f' = 0 /\ fn' = fn /\ l <= 0
    BY <1>9 DEF CopyEnds, reading
  <2>2. DoneTo' = pos /\ DoneTo = pos
    BY <2>1 DEF DoneTo
  <2>3. PICK c0 \in 1 .. pos : InEntry(c0)
    BY <2>1 DEF ExtractInv, ReadInv, EntryInv
  <2>4. pos - c0 = Blocks(Strtol(archive[c0]))
    <3>1. Blocks(l) = 0
      BY <1>1, <2>1, NoRound DEF TypeOK
    <3> QED
      BY <1>1, <2>3, <3>1 DEF InEntry
  <2>5. \A i \in HeadersTo(archive, pos) : Read(i)' = Read(i)
    <3>1. \A i \in HeadersTo(archive, pos) : Current(i) <=> i = c0
      BY <1>1, <2>1, <2>3, CurrentIsEntry
    <3> QED
      BY <2>1, <2>4, <3>1 DEF Read, Current
  <2>6. LastHolds'
    <3> SUFFICES ASSUME NEW i \in HeadersTo(archive, pos), LastOf(i)'
                 PROVE  Holds(i, Read(i))'
      BY <2>1, <2>2 DEF LastHolds
    <3>1. LastOf(i)
      BY <2>1 DEF LastOf
    <3>2. Holds(i, Read(i))
      BY <1>2, <2>1, <2>2, <3>1 DEF LastHolds
    <3> QED
      BY <2>1, <2>5, <3>2 DEF Holds, IsDirectory
  <2>7. BaseDirsMade' /\ DirsFromEntries'
    BY <1>2, <2>1, <2>2 DEF BaseDirsMade, DirsFromEntries, IsDirectory
  <2>8. OpenIsEntry'
    BY <2>1 DEF OpenIsEntry, Current
  <2> QED
    BY <2>6, <2>7, <2>8
<1>10. CASE MainC \/ C \/ CEnds \/ CFile \/ CFileCrashes \/ CData \/ CFileEnds \/ MainXT \/ Usage
  BY <1>3, <1>10 DEF MainC, C, CEnds, CFile, CFileCrashes, CData, CFileEnds, MainXT, Usage
<1> QED
  BY <1>4, <1>5, <1>6, <1>7, <1>8, <1>9, <1>10 DEF Next

LEMMA ExtractInit == Init => ExtractInv
<1> SUFFICES ASSUME Init PROVE ExtractInv
  OBVIOUS
<1>1. ReadInv
  BY EntryInit
<1>2. OwnFile /\ OpenOnlyToCopy
  BY DEF Init, OwnFile, OpenOnlyToCopy
<1>3. HeadersTo(archive, DoneTo) = {} /\ f = 0 /\ \A p \in Paths : dir[p] = 0
  BY DEF Init, DoneTo, HeadersTo
<1>4. FilesInv
  BY <1>3 DEF FilesInv, LastHolds, BaseDirsMade, DirsFromEntries, OpenIsEntry
<1> QED
  BY <1>1, <1>2, <1>4 DEF ExtractInv

\* Archives in which the size of every regular file ends with a NUL.
Terminated(a) ==
    \A i \in 1 .. Len(a) : a[i].c = "header" /\ a[i].type = "REG" => a[i].terminated

TerminatedInv == Terminated(archive)

\* sltar c ends the size of every regular file.
LEMMA TerminatedNext ==
    ASSUME TypeOK, Terminated(archive), [Next]_vars
    PROVE  Terminated(archive')
<1>1. CASE CFile
  <2> DEFINE w == Head(walk)
             h == HeaderOf(w.p, w.st)
  <2>1. archive' = Append(archive, h)
    BY <1>1 DEF CFile
  <2>2. h.type = "REG" => h.terminated
    BY DEF HeaderOf
  <2>3. archive \in Seq(Block)
    BY DEF TypeOK
  <2> HIDE DEF h
  <2> QED
    BY <2>1, <2>2, <2>3 DEF Terminated
<1>2. CASE CData
  <2> DEFINE d == [c |-> "data", id |-> Head(rest).id]
  <2>1. archive' = Append(archive, d)
    BY <1>2 DEF CData
  <2>2. d.c # "header" /\ archive \in Seq(Block)
    BY DEF TypeOK
  <2> HIDE DEF d
  <2> QED
    BY <2>1, <2>2 DEF Terminated
<1>3. CASE ~CFile /\ ~CData
  <2>1. archive' = archive
    BY <1>3 DEF Next, MainC, C, CEnds, CFileCrashes, CFileEnds, MainXT, Usage, TarHeader, TarEnds, TarLost,
                XLink, XReg, XOther, T, Copy, CopyEnds, vars
  <2> QED
    BY <2>1
<1> QED
  BY <1>1, <1>2, <1>3

\* For every well-formed archive in which the size of every regular file ends
\* with a NUL: after sltar x every name has what its last entry says, whatever
\* entries, links and failures came before.  (Of a size that fills its field
\* strtol takes the digits of the next field too.)
THEOREM LastEntryExtracted ==
    ASSUME \A a \in Given : Terminated(a)
    PROVE  Spec => []Extracted
<1>1. Init => ExtractInv /\ TerminatedInv
  BY ExtractInit DEF Init, Terminated, TerminatedInv
<1>2. ExtractInv /\ TerminatedInv /\ [Next]_vars => ExtractInv' /\ TerminatedInv'
  BY FilesNext, TerminatedNext DEF ExtractInv, ReadInv, TerminatedInv
<1>3. ASSUME ExtractInv, TerminatedInv PROVE Extracted
  <2> SUFFICES ASSUME Over, fn = "x", WellFormed(archive),
                      NEW i \in ReadHeaders(archive),
                      archive[i].type # "HARDLINK",
                      \A j \in ReadHeaders(archive) : j > i => archive[j].name # archive[i].name
               PROVE  LET h == archive[i]
                          p == h.name
                      IN  /\ dir[p] # 0 /\ ~IsDirectory(p) =>
                                /\ nodes[dir[p]].type = h.type
                                /\ h.type = "REG" => nodes[dir[p]].data = DataAt(archive, i)
                          /\ Parent[p] = Root /\ p \notin Unwritable => dir[p] # 0
    BY DEF Extracted
  <2> DEFINE p == archive[i].name
  <2>1. ReadHeaders(archive) = HeadersTo(archive, pos) /\ DoneTo = pos /\ pc = "done"
    BY <1>3, AllRead DEF ExtractInv
  <2>2. Holds(i, Read(i))
    <3>1. LastOf(i)
      BY <2>1 DEF LastOf
    <3> QED
      BY <1>3, <2>1, <3>1 DEF ExtractInv, FilesInv, LastHolds
  <2>3. Read(i) = Blocks(Strtol(archive[i]))
    BY <2>1 DEF Read, Current
  <2>4. Parent[p] = Root /\ p \notin Unwritable => dir[p] # 0
    BY <2>2 DEF Holds, CanBeMade
  <2>5. ASSUME dir[p] # 0, ~IsDirectory(p)
        PROVE  /\ nodes[dir[p]].type = archive[i].type
               /\ archive[i].type = "REG" => nodes[dir[p]].data = DataAt(archive, i)
    <3>1. nodes[dir[p]] = Written(archive, i, Blocks(Strtol(archive[i])))
      BY <2>2, <2>3, <2>5 DEF Holds
    <3>2. /\ nodes[dir[p]].type = archive[i].type
          /\ archive[i].type = "REG" =>
                 nodes[dir[p]].data = DataTo(archive, i, Blocks(Strtol(archive[i])))
      BY <3>1 DEF Written, NewNode
    <3>3. ASSUME archive[i].type = "REG"
          PROVE  DataTo(archive, i, Blocks(Strtol(archive[i]))) = DataAt(archive, i)
      <4>1. Strtol(archive[i]) = archive[i].size
        BY <1>3, <2>1, <3>3 DEF Terminated, TerminatedInv, ReadHeaders, Strtol
      <4> QED
        BY <4>1 DEF DataTo, DataAt, PieceAt
    <3> QED
      BY <3>2, <3>3
  <2> QED
    BY <2>4, <2>5
<1>4. ExtractInv /\ TerminatedInv => Extracted
  BY <1>3
<1> QED
  BY <1>1, <1>2, <1>4, PTL DEF Spec

-----------------------------------------------------------------------------
(* There and back: the archive that sltar c makes of a tree, and what       *)
(* sltar x makes of that.                                                   *)

\* A tree that RoundTrip can hold for.  As every tree: no file is of the type
\* of a hard link, a directory is there and contains files, only links lead
\* somewhere and only devices stand for one; its files consist of whole blocks
\* and a last one.  As in the model: directories contain no others.  And free
\* of what sltar c gets wrong: the size field of what is not a regular file runs
\* on into a time that is not zero, a symbolic link in a directory is followed,
\* and a device gets the number of the device it is on.
PlainTree ==
    \A p \in DOMAIN Source :
        LET s == Source[p]
        IN  /\ s.type # "HARDLINK"
            /\ Parent[p] # Root => /\ Parent[p] \in DOMAIN Source
                                   /\ Source[Parent[p]].type = "DIRECTORY"
            /\ s.type \in {"DIRECTORY", "SYMLINK"} => Parent[p] = Root
            /\ s.type # "REG" => s.data = <<>> /\ s.mtime = 0
            /\ s.type = "REG" /\ Blocks(s.size) = Len(s.data) =>
                   \A k \in 1 .. Len(s.data) :
                       s.data[k].n = IF k = Len(s.data) THEN s.size - (k - 1) * END ELSE END
            /\ s.type # "SYMLINK" => s.to = Root
            /\ s.rdev = IF s.type \in {"CHARDEV", "BLOCKDEV"} THEN s.dev ELSE 0

Length(p) == Len(Source[p].data)
DataOf(p, k) == [c |-> "data", id |-> Source[p].data[k].id]
Headers(a) == HeadersTo(a, Len(a))

\* The headers are of files of S.
TreeArchive(S, a) ==
    /\ a # <<>> => a[1].c = "header"
    /\ \A i \in Headers(a) :
           a[i].name \in S /\ a[i] = HeaderOf(a[i].name, Source[a[i].name])

\* The entry at i has all blocks of its file, and nothing but a header follows.
Whole(a, i) ==
    LET p == a[i].name
    IN  /\ i + Length(p) <= Len(a)
        /\ \A k \in 1 .. Length(p) : a[i + k] = DataOf(p, k)
        /\ i + Length(p) = Len(a) \/ a[i + Length(p) + 1].c = "header"

WholeEntries(a) == \A i \in Headers(a) : Whole(a, i)

\* The entry at i is the last of a, and r is what its file has left.
Begun(a, r, i) ==
    LET p == a[i].name
        m == Len(a) - i
    IN  /\ m <= Length(p)
        /\ \A k \in 1 .. m : a[i + k] = DataOf(p, k)
        /\ r = [k \in 1 .. Length(p) - m |-> Source[p].data[m + k]]

OpenEntry(a, r) ==
    \E i \in Headers(a) :
        /\ Begun(a, r, i)
        /\ \A j \in Headers(a) : j # i => Whole(a, j) /\ j < i

\* What is known of a file that sltar c is asked for.
LEMMA TreeFile ==
    ASSUME PlainTree, NEW S, Regular(S), NEW p \in S
    PROVE  /\ p \in DOMAIN Source /\ p \in Paths /\ Source[p] \in Node
           /\ p \notin Unreadable /\ p \notin Unwritable
           /\ Source[p].type = "DIRECTORY" => Source[p].writable
           /\ Parent[p] # Root => Parent[p] \in S /\ Source[Parent[p]].type = "DIRECTORY"
           /\ Source[p].type \in {"DIRECTORY", "SYMLINK"} => Parent[p] = Root
           /\ Source[p].type # "HARDLINK"
           /\ Source[p].type # "REG" => Source[p].data = <<>>
           /\ Source[p].data \in Seq(PieceOfData) /\ Length(p) \in Nat
           /\ HeaderOf(p, Source[p]) \in Block
           /\ Blocks(Strtol(HeaderOf(p, Source[p]))) = Length(p)
<1>1. /\ p \in DOMAIN Source /\ p \notin Unreadable /\ p \notin Unwritable
      /\ Parent[p] \in S \cup {Root} /\ Blocks(Source[p].size) = Len(Source[p].data)
      /\ Source[p].type = "DIRECTORY" => Source[p].writable
  BY DEF Regular
<1>2. p \in Paths /\ Source[p] \in Node
  BY <1>1, SltarAssumption
<1>3. /\ Source[p].type # "HARDLINK"
      /\ Parent[p] # Root => Source[Parent[p]].type = "DIRECTORY"
      /\ Source[p].type \in {"DIRECTORY", "SYMLINK"} => Parent[p] = Root
      /\ Source[p].type # "REG" => Source[p].data = <<>> /\ Source[p].mtime = 0
  BY <1>1 DEF PlainTree
<1>4. Source[p].data \in Seq(PieceOfData) /\ Length(p) \in Nat
  <2>1. Source[p].data \in Seq(PieceOfData)
    BY <1>2 DEF Node
  <2> QED
    BY <2>1 DEF Length
<1>5. Blocks(Strtol(HeaderOf(p, Source[p]))) = Length(p)
  <2>1. CASE Source[p].type = "REG"
    <3>1. Strtol(HeaderOf(p, Source[p])) = Source[p].size
      BY <2>1 DEF Strtol, HeaderOf
    <3> QED
      BY <1>1, <3>1 DEF Length
  <2>2. CASE Source[p].type # "REG"
    <3>1. Strtol(HeaderOf(p, Source[p])) = 0
      BY <1>3, <2>2 DEF Strtol, HeaderOf
    <3>2. Length(p) = 0
      BY <1>3, <2>2 DEF Length
    <3> QED
      BY <3>1, <3>2, NoRound
  <2> QED
    BY <2>1, <2>2
<1> QED
  BY <1>1, <1>2, <1>3, <1>4, <1>5, HeaderOfType

\* The headers of a longer archive.
LEMMA HeadersAppend ==
    ASSUME NEW a \in Seq(Block), NEW e \in Block
    PROVE  /\ Len(Append(a, e)) = Len(a) + 1 /\ Len(a) \in Nat
           /\ \A i \in 1 .. Len(a) : Append(a, e)[i] = a[i]
           /\ Append(a, e)[Len(a) + 1] = e
           /\ Headers(Append(a, e)) = IF e.c = "header" THEN Headers(a) \cup {Len(a) + 1}
                                      ELSE Headers(a)
<1>1. /\ Len(Append(a, e)) = Len(a) + 1 /\ Len(a) \in Nat
      /\ \A i \in 1 .. Len(a) : Append(a, e)[i] = a[i]
      /\ Append(a, e)[Len(a) + 1] = e
  OBVIOUS
<1> QED
  BY <1>1 DEF Headers, HeadersTo

\* c_file() writes a header: the entry is begun, those before are whole.
LEMMA BeginsEntry ==
    ASSUME PlainTree, NEW S, Regular(S), NEW p \in S, NEW a \in Seq(Block),
           TreeArchive(S, a), WholeEntries(a)
    PROVE  LET aa == Append(a, HeaderOf(p, Source[p]))
               r == IF Source[p].type = "REG" /\ p \notin Unreadable
                    THEN Source[p].data ELSE <<>>
           IN  TreeArchive(S, aa) /\ OpenEntry(aa, r)
<1> DEFINE h == HeaderOf(p, Source[p])
           aa == Append(a, h)
           n == Len(a) + 1
           D == Source[p].data
<1>1. /\ h \in Block /\ h.c = "header" /\ h.name = p
      /\ p \notin Unreadable /\ (Source[p].type # "REG" => D = <<>>)
      /\ Length(p) \in Nat /\ D \in Seq(PieceOfData)
  BY TreeFile DEF HeaderOf
<1> HIDE DEF h
<1>2. /\ Len(aa) = n /\ Len(a) \in Nat /\ aa[n] = h
      /\ \A i \in 1 .. Len(a) : aa[i] = a[i]
      /\ Headers(aa) = Headers(a) \cup {n}
  BY <1>1, HeadersAppend
<1>3. \A i \in Headers(a) : i \in 1 .. Len(a) /\ aa[i] = a[i]
  BY <1>2 DEF Headers, HeadersTo
<1> HIDE DEF aa
<1>4. TreeArchive(S, aa)
  <2>1. aa[1].c = "header"
    <3>1. CASE a = <<>>
      BY <1>1, <1>2, <3>1
    <3>2. CASE a # <<>>
      BY <1>2, <3>2 DEF TreeArchive
    <3> QED
      BY <3>1, <3>2
  <2>2. aa[n].name \in S /\ aa[n] = HeaderOf(aa[n].name, Source[aa[n].name])
    BY <1>1, <1>2 DEF h
  <2> QED
    BY <1>2, <1>3, <2>1, <2>2 DEF TreeArchive
<1>5. ASSUME NEW j \in Headers(a)
      PROVE  Whole(aa, j) /\ j < n
  <2>0. PICK q : q = a[j].name
    OBVIOUS
  <2>1. /\ j + Length(q) <= Len(a)
        /\ \A k \in 1 .. Length(q) : a[j + k] = DataOf(q, k)
        /\ j + Length(q) = Len(a) \/ a[j + Length(q) + 1].c = "header"
    BY <2>0 DEF WholeEntries, Whole
  <2>2. j \in 1 .. Len(a) /\ aa[j].name = q
    BY <1>3, <2>0
  <2>3. Length(q) \in Nat
    BY <2>0, TreeFile DEF TreeArchive
  <2>4. \A k \in 1 .. Length(q) : aa[j + k] = DataOf(q, k)
    BY <1>2, <2>1, <2>2, <2>3
  <2>5. aa[j + Length(q) + 1].c = "header"
    <3>1. CASE j + Length(q) = Len(a)
      <4>1. j + Length(q) + 1 = n
        BY <3>1
      <4> QED
        BY <1>1, <1>2, <4>1
    <3>2. CASE j + Length(q) # Len(a)
      <4>1. j + Length(q) + 1 \in 1 .. Len(a)
        BY <1>2, <2>1, <2>2, <2>3, <3>2
      <4> QED
        BY <1>2, <2>1, <3>2, <4>1
    <3> QED
      BY <3>1, <3>2
  <2>6. j + Length(q) <= Len(aa) /\ j < n
    BY <1>2, <2>1, <2>2, <2>3
  <2> QED
    BY <2>2, <2>4, <2>5, <2>6 DEF Whole
<1>6. Begun(aa, D, n)
  <2>1. aa[n].name = p /\ Len(aa) - n = 0
    BY <1>1, <1>2
  <2>2. D = [k \in 1 .. Length(p) - 0 |-> D[0 + k]]
    <3>1. D = [k \in 1 .. Len(D) |-> D[k]]
      BY <1>1
    <3> QED
      BY <1>1, <3>1 DEF Length
  <2> QED
    BY <1>1, <2>1, <2>2 DEF Begun
<1>7. (IF Source[p].type = "REG" /\ p \notin Unreadable THEN D ELSE <<>>) = D
  BY <1>1
<1> QED
  BY <1>2, <1>4, <1>5, <1>6, <1>7 DEF OpenEntry, aa, h

LEMMA TailOfSeq ==
    ASSUME NEW E, NEW s \in Seq(E), s # <<>>
    PROVE  Head(s) = s[1] /\ Tail(s) = [k \in 1 .. Len(s) - 1 |-> s[k + 1]]
<1>1. Tail(s) \in Seq(E) /\ Len(Tail(s)) = Len(s) - 1
  OBVIOUS
<1>2. \A k \in 1 .. Len(s) - 1 : Tail(s)[k] = s[k + 1]
  OBVIOUS
<1>3. PICK u \in Seq(E) : u = Tail(s)
  BY <1>1
<1>4. u = [k \in 1 .. Len(u) |-> u[k]]
  OBVIOUS
<1>5. Len(u) = Len(s) - 1 /\ \A k \in 1 .. Len(s) - 1 : u[k] = s[k + 1]
  BY <1>1, <1>2, <1>3
<1>6. u = [k \in 1 .. Len(s) - 1 |-> s[k + 1]]
  BY <1>4, <1>5
<1>7. Head(s) = s[1]
  OBVIOUS
<1> QED
  BY <1>3, <1>6, <1>7, Zenon

\* One block more of the file.
LEMMA AddsBlock ==
    ASSUME PlainTree, NEW S, Regular(S), NEW a \in Seq(Block), NEW r,
           TreeArchive(S, a), OpenEntry(a, r), r # <<>>
    PROVE  LET aa == Append(a, [c |-> "data", id |-> Head(r).id])
           IN  TreeArchive(S, aa) /\ OpenEntry(aa, Tail(r))
<1>1. PICK i \in Headers(a) : /\ Begun(a, r, i)
                              /\ \A j \in Headers(a) : j # i => Whole(a, j) /\ j < i
  BY DEF OpenEntry
<1>2. PICK p \in S : p = a[i].name
  BY DEF TreeArchive
<1>3. PICK m \in Nat : m = Len(a) - i
  BY DEF Headers, HeadersTo
<1> DEFINE D == Source[p].data
           L == Length(p)
           e == [c |-> "data", id |-> Head(r).id]
           aa == Append(a, e)
<1>4. /\ m <= L /\ (\A k \in 1 .. m : a[i + k] = DataOf(p, k))
      /\ r = [k \in 1 .. L - m |-> D[m + k]]
  BY <1>1, <1>2, <1>3 DEF Begun
<1>5. L \in Nat /\ D \in Seq(PieceOfData) /\ Len(D) = L
  BY TreeFile DEF Length
<1> HIDE DEF D, L
<1>6. m + 1 <= L
  <2>1. CASE m = L
    <3>1. r = <<>>
      BY <1>4, <1>5, <2>1
    <3> QED
      BY <3>1
  <2> QED
    BY <1>4, <1>5, <2>1
<1>7. Head(r) = D[m + 1] /\ Tail(r) = [k \in 1 .. L - (m + 1) |-> D[m + 1 + k]]
  <2>1. r \in Seq(PieceOfData) /\ Len(r) = L - m /\ r[1] = D[m + 1]
    <3>1. \A k \in 1 .. L - m : D[m + k] \in PieceOfData
      BY <1>4, <1>5
    <3> QED
      BY <1>4, <1>5, <1>6, <3>1
  <2>2. Head(r) = r[1] /\ Tail(r) = [k \in 1 .. Len(r) - 1 |-> r[k + 1]]
    BY <2>1, TailOfSeq
  <2>3. \A k \in 1 .. L - (m + 1) : r[k + 1] = D[m + 1 + k]
    BY <1>4, <1>5, <1>6
  <2>4. Len(r) - 1 = L - (m + 1)
    BY <1>5, <2>1
  <2> QED
    BY <2>1, <2>2, <2>3, <2>4
<1>8. e = DataOf(p, m + 1) /\ e \in Block
  <2>1. e = DataOf(p, m + 1)
    BY <1>7 DEF DataOf, D
  <2>2. D[m + 1] \in PieceOfData
    BY <1>5, <1>6
  <2> QED
    BY <1>7, <2>1, <2>2, DataBlock DEF PieceOfData
<1>9. e.c = "data"
  OBVIOUS
<1> HIDE DEF e
<1>10. /\ Len(aa) = Len(a) + 1 /\ Len(a) \in Nat /\ aa[Len(a) + 1] = e
       /\ \A k \in 1 .. Len(a) : aa[k] = a[k]
       /\ Headers(aa) = Headers(a)
  BY <1>8, <1>9, HeadersAppend
<1>11. \A k \in Headers(a) : k \in 1 .. Len(a) /\ aa[k] = a[k] /\ a[k].c = "header"
  BY <1>10 DEF Headers, HeadersTo
<1> HIDE DEF aa
<1>12. TreeArchive(S, aa)
  <2>1. 1 \in 1 .. Len(a) /\ a # <<>>
    BY <1>10, <1>11
  <2>2. aa[1].c = "header"
    BY <1>10, <2>1 DEF TreeArchive
  <2> QED
    BY <1>10, <1>11, <2>2 DEF TreeArchive
<1>13. Begun(aa, Tail(r), i)
  <2>1. aa[i].name = p /\ Len(aa) - i = m + 1 /\ i \in Nat
    BY <1>2, <1>3, <1>10, <1>11
  <2>2. ASSUME NEW k \in 1 .. m + 1
        PROVE  aa[i + k] = DataOf(p, k)
    <3>1. CASE k = m + 1
      <4>1. i + k = Len(a) + 1
        BY <1>3, <1>10, <2>1, <3>1
      <4> QED
        BY <1>8, <1>10, <3>1, <4>1
    <3>2. CASE k # m + 1
      <4>1. k \in 1 .. m /\ i + k \in 1 .. Len(a)
        BY <1>3, <1>10, <2>1, <3>2
      <4> QED
        BY <1>4, <1>10, <4>1
    <3> QED
      BY <3>1, <3>2
  <2> QED
    BY <1>6, <1>7, <2>1, <2>2 DEF Begun, D, L
<1>14. ASSUME NEW j \in Headers(a), j # i
       PROVE  Whole(aa, j) /\ j < i
  <2>0. PICK q \in S : q = a[j].name
    BY DEF TreeArchive
  <2>1. /\ j + Length(q) <= Len(a)
        /\ \A k \in 1 .. Length(q) : a[j + k] = DataOf(q, k)
        /\ j + Length(q) = Len(a) \/ a[j + Length(q) + 1].c = "header"
        /\ j < i
    BY <1>1, <1>14, <2>0 DEF Whole
  <2>2. /\ j \in 1 .. Len(a) /\ aa[j].name = q /\ Length(q) \in Nat /\ i \in 1 .. Len(a)
    BY <1>11, <2>0, TreeFile
  <2>3. j + Length(q) # Len(a)
    <3>1. SUFFICES ASSUME j + Length(q) = Len(a) PROVE FALSE
      OBVIOUS
    <3>2. PICK k \in 1 .. Length(q) : i = j + k
      <4>1. i - j \in 1 .. Length(q) /\ i = j + (i - j)
        BY <2>1, <2>2, <3>1
      <4> QED
        BY <4>1
    <3>3. a[i] = DataOf(q, k)
      BY <2>1, <3>2
    <3> QED
      BY <1>11, <3>3 DEF DataOf
  <2>4. \A k \in 1 .. Length(q) : aa[j + k] = DataOf(q, k)
    BY <1>10, <2>1, <2>2
  <2>5. aa[j + Length(q) + 1].c = "header"
    <3>1. j + Length(q) + 1 \in 1 .. Len(a)
      BY <1>10, <2>1, <2>2, <2>3
    <3> QED
      BY <1>10, <2>1, <2>3, <3>1
  <2>6. j + Length(q) <= Len(aa)
    BY <1>10, <2>1, <2>2
  <2> QED
    BY <2>1, <2>2, <2>4, <2>5, <2>6 DEF Whole
<1>15. OpenEntry(aa, Tail(r))
  BY <1>10, <1>13, <1>14 DEF OpenEntry
<1> QED
  BY <1>12, <1>15 DEF aa, e

\* At the end of the file its entry is whole.
LEMMA EndsEntry ==
    ASSUME PlainTree, NEW S, Regular(S), NEW a \in Seq(Block),
           TreeArchive(S, a), OpenEntry(a, <<>>)
    PROVE  WholeEntries(a)
<1>1. PICK i \in Headers(a) : /\ Begun(a, <<>>, i)
                              /\ \A j \in Headers(a) : j # i => Whole(a, j) /\ j < i
  BY DEF OpenEntry
<1>2. PICK p \in S : p = a[i].name
  BY DEF TreeArchive
<1>3. PICK m \in Nat : m = Len(a) - i
  BY DEF Headers, HeadersTo
<1>4. /\ m <= Length(p) /\ (\A k \in 1 .. m : a[i + k] = DataOf(p, k))
      /\ <<>> = [k \in 1 .. Length(p) - m |-> Source[p].data[m + k]]
  BY <1>1, <1>2, <1>3 DEF Begun
<1>5. Length(p) \in Nat
  BY TreeFile
<1>6. Length(p) = m
  <2>1. DOMAIN [k \in 1 .. Length(p) - m |-> Source[p].data[m + k]] = 1 .. Length(p) - m
    OBVIOUS
  <2>2. 1 .. Length(p) - m = {}
    BY <1>4, <2>1
  <2> QED
    BY <1>4, <1>5, <2>2
<1>7. i \in Nat /\ Len(a) \in Nat
  BY DEF Headers, HeadersTo
<1>8. Whole(a, i)
  BY <1>2, <1>3, <1>4, <1>6, <1>7 DEF Whole
<1> QED
  BY <1>1, <1>8 DEF WholeEntries

\* An archive of whole entries is well-formed.
LEMMA TreeWellFormed ==
    ASSUME PlainTree, NEW S, Regular(S), NEW a \in Seq(Block),
           TreeArchive(S, a), WholeEntries(a)
    PROVE  WellFormed(a)
<1>1. Begins(a, 0)
  BY DEF TreeArchive, Begins
<1>2. ASSUME NEW i \in 0 .. Len(a) - 1, a[i + 1].c = "header"
      PROVE  LET end == i + 1 + Blocks(Strtol(a[i + 1]))
             IN  /\ end <= Len(a)
                 /\ \A k \in i + 1 .. end - 1 : a[k + 1].c = "data"
                 /\ Begins(a, end)
  <2>0. PICK j \in Nat : j = i + 1
    OBVIOUS
  <2>1. j \in Headers(a) /\ j \in 1 .. Len(a) /\ Len(a) \in Nat
    BY <1>2, <2>0 DEF Headers, HeadersTo
  <2>2. PICK p \in S : p = a[j].name /\ a[j] = HeaderOf(p, Source[p])
    BY <2>1 DEF TreeArchive
  <2>3. Length(p) \in Nat /\ Blocks(Strtol(a[j])) = Length(p)
    BY <2>2, TreeFile
  <2>4. /\ j + Length(p) <= Len(a)
        /\ \A k \in 1 .. Length(p) : a[j + k] = DataOf(p, k)
        /\ j + Length(p) = Len(a) \/ a[j + Length(p) + 1].c = "header"
    BY <2>1, <2>2 DEF WholeEntries, Whole
  <2>5. ASSUME NEW k \in j .. j + Length(p) - 1
        PROVE  a[k + 1].c = "data"
    <3>1. k + 1 - j \in 1 .. Length(p) /\ j + (k + 1 - j) = k + 1
      BY <2>3
    <3>2. a[k + 1] = DataOf(p, k + 1 - j)
      BY <2>4, <3>1
    <3> QED
      BY <3>2 DEF DataOf
  <2>6. Begins(a, j + Length(p))
    BY <2>1, <2>3, <2>4 DEF Begins
  <2> QED
    BY <2>0, <2>3, <2>4, <2>5, <2>6
<1> QED
  BY <1>1, <1>2 DEF WellFormed

\* What sltar c has been asked for by the arguments after the first n.
AskedBy(n) ==
    LET A == {argv[k] : k \in n + 1 .. Len(argv)}
    IN  A \cup UNION {Within(q) : q \in A}

TreeWalk(S, w) == \A k \in 1 .. Len(w) : w[k].p \in S /\ w[k].st = Source[w[k].p]

HasHeader(a, q, n) == \E j \in HeadersTo(a, n) : a[j].name = q

\* There is an entry of p, after one of the directory of p.
Archived(a, p) ==
    \E i \in Headers(a) :
        a[i].name = p /\ (Parent[p] = Root \/ HasHeader(a, Parent[p], i - 1))

\* There will be one when the files of w are archived.
ToArchive(a, w, p) ==
    \E k \in 1 .. Len(w) :
        /\ w[k].p = p
        /\ \/ Parent[p] = Root
           \/ HasHeader(a, Parent[p], Len(a))
           \/ \E j \in 1 .. k - 1 : w[j].p = Parent[p]

Covered(S, a, w) ==
    \A p \in S : Parent[p] \in S \cup {Root} => Archived(a, p) \/ ToArchive(a, w, p)

LEMMA FirstAndRest ==
    ASSUME NEW E, NEW A \in Seq(E), NEW B \in Seq(E), Len(A) = 1
    PROVE  /\ Len(A \o B) = Len(B) + 1 /\ (A \o B)[1] = A[1]
           /\ \A i \in 1 .. Len(B) : (A \o B)[i + 1] = B[i]
<1>1. /\ Len(B) \in Nat
      /\ Len(A \o B) = Len(A) + Len(B)
      /\ \A k \in 1 .. Len(A) + Len(B) :
             (A \o B)[k] = IF k <= Len(A) THEN A[k] ELSE B[k - Len(A)]
  BY ConcatProperties, LenProperties
<1>2. Len(A \o B) = Len(B) + 1
  BY <1>1
<1>3. \A k \in 1 .. Len(B) + 1 : (A \o B)[k] = IF k <= 1 THEN A[k] ELSE B[k - 1]
  BY <1>1
<1>4. ASSUME NEW i \in 1 .. Len(B)
      PROVE  (A \o B)[i + 1] = B[i]
  <2>1. i + 1 \in 1 .. Len(B) + 1 /\ ~(i + 1 <= 1) /\ (i + 1) - 1 = i
    BY <1>1
  <2> QED
    BY <1>3, <2>1
<1>5. (A \o B)[1] = A[1]
  <2>1. 1 \in 1 .. Len(B) + 1
    BY <1>1
  <2> QED
    BY <1>3, <2>1
<1> QED
  BY <1>2, <1>4, <1>5

\* ftw() goes through the directory and then all that it contains.
LEMMA WalkOfDirectory ==
    ASSUME PlainTree, NEW q \in DOMAIN Source, Source[q].type = "DIRECTORY", NEW w \in Walks(q)
    PROVE  /\ Len(w) \in Nat /\ Len(w) >= 1 /\ w[1].p = q
           /\ \A k \in 1 .. Len(w) : w[k].p \in {q} \cup Within(q) /\ w[k].st = Source[w[k].p]
           /\ \A x \in Within(q) : \E k \in 2 .. Len(w) : w[k].p = x
<1> DEFINE S == Within(q)
           entry(x) == [p |-> x, st |-> Follow(Source[x])]
<1>1. PICK n : n = Cardinality(S)
  OBVIOUS
<1>2. n \in Nat /\ IsFiniteSet(S)
  <2>1. IsFiniteSet(S)
    BY FS_Subset, SltarAssumption DEF Within
  <2> QED
    BY <1>1, <2>1, FS_CardinalityType
<1>3. PICK s \in [1 .. n -> S] :
          /\ \A i, j \in 1 .. n : s[i] = s[j] => i = j
          /\ w = <<entry(q)>> \o [i \in 1 .. n |-> entry(s[i])]
  BY <1>1 DEF Walks
<1>4. \A x \in {q} \cup S : entry(x).p = x /\ entry(x).st = Source[x]
  <2>1. ASSUME NEW x \in {q} \cup S
        PROVE  Follow(Source[x]) = Source[x]
    <3>1. CASE x = q
      BY <3>1 DEF Follow
    <3>2. CASE x # q
      <4>1. x \in DOMAIN Source /\ Parent[x] = q
        BY <3>2 DEF Within
      <4>2. Parent[x] # Root
        BY <4>1, SltarAssumption
      <4>3. Source[x].type # "SYMLINK"
        BY <4>1, <4>2 DEF PlainTree
      <4> QED
        BY <4>3 DEF Follow
    <3> QED
      BY <3>1, <3>2
  <2> QED
    BY <2>1
<1>5. \A x \in S : \E i \in 1 .. n : s[i] = x
  <2>1. s \in Injection(1 .. n, S)
    BY <1>3 DEF Injection, IsInjective
  <2>2. Cardinality(1 .. n) = Cardinality(S)
    BY <1>1, <1>2, FS_Interval
  <2>3. s \in Surjection(1 .. n, S)
    BY <1>2, <2>1, <2>2, FS_Injection
  <2> QED
    BY <2>3 DEF Surjection
<1>6. /\ Len(w) = n + 1 /\ w[1] = entry(q)
      /\ \A i \in 1 .. n : w[i + 1] = entry(s[i])
  <2> DEFINE E == {entry(x) : x \in {q} \cup S}
             A == <<entry(q)>>
             B == [i \in 1 .. n |-> entry(s[i])]
  <2>1. A \in Seq(E) /\ Len(A) = 1 /\ A[1] = entry(q)
    <3>1. entry(q) \in E
      OBVIOUS
    <3> HIDE DEF E, entry
    <3> QED
      BY <3>1
  <2>2. B \in Seq(E) /\ Len(B) = n /\ \A i \in 1 .. n : B[i] = entry(s[i])
    <3>1. \A i \in 1 .. n : entry(s[i]) \in E
      BY <1>3
    <3> HIDE DEF E, entry
    <3> QED
      BY <1>2, <3>1
  <2>3. w = A \o B
    BY <1>3
  <2> HIDE DEF E, A, B, entry
  <2>4. Len(w) = n + 1 /\ w[1] = A[1] /\ \A i \in 1 .. n : w[i + 1] = B[i]
    BY <2>1, <2>2, <2>3, FirstAndRest
  <2> QED
    BY <2>1, <2>2, <2>4
<1>7. ASSUME NEW k \in 1 .. Len(w)
      PROVE  w[k].p \in {q} \cup S /\ w[k].st = Source[w[k].p]
  <2>1. PICK x \in {q} \cup S : w[k] = entry(x)
    <3>1. CASE k = 1
      BY <1>6, <3>1
    <3>2. CASE k # 1
      <4>1. k - 1 \in 1 .. n /\ (k - 1) + 1 = k
        BY <1>2, <1>6, <3>2
      <4>2. w[k] = entry(s[k - 1]) /\ s[k - 1] \in S
        BY <1>3, <1>6, <4>1
      <4> QED
        BY <4>2
    <3> QED
      BY <3>1, <3>2
  <2> QED
    BY <1>4, <2>1
<1>8. ASSUME NEW x \in S
      PROVE  \E k \in 2 .. Len(w) : w[k].p = x
  <2>1. PICK i \in 1 .. n : s[i] = x
    BY <1>5
  <2>2. i + 1 \in 2 .. Len(w)
    BY <1>2, <1>6
  <2>3. w[i + 1] = entry(x) /\ entry(x).p = x
    BY <1>4, <1>6, <2>1
  <2> HIDE DEF entry
  <2>4. w[i + 1].p = x
    BY <2>3
  <2> QED
    BY <2>2, <2>4
<1> QED
  BY <1>2, <1>4, <1>6, <1>7, <1>8

\* c() takes the next argument: it and what it contains will be archived.
LEMMA TakesArgument ==
    ASSUME PlainTree, TypeOK, Regular(Asked), C, walk = <<>>,
           Covered(AskedBy(argc), archive, walk)
    PROVE  TreeWalk(Asked, walk') /\ Covered(AskedBy(argc - 1), archive, walk')
<1> DEFINE q == argv[argc]
           S == AskedBy(argc)
           SS == AskedBy(argc - 1)
<1>1. /\ argc \in 1 .. Len(argv) /\ Len(argv) \in Nat /\ q \in DOMAIN Source
      /\ argc - 1 \in Nat
  BY DEF C, TypeOK
<1>2. SS = S \cup {q} \cup Within(q)
  <2> DEFINE A(n) == {argv[k] : k \in n + 1 .. Len(argv)}
  <2>1. (argc - 1) + 1 .. Len(argv) = (argc + 1 .. Len(argv)) \cup {argc}
    BY <1>1
  <2>2. A(argc - 1) = A(argc) \cup {q}
    BY <2>1
  <2> HIDE DEF A
  <2>3. UNION {Within(x) : x \in A(argc) \cup {q}}
            = (UNION {Within(x) : x \in A(argc)}) \cup Within(q)
    OBVIOUS
  <2>4. S = A(argc) \cup UNION {Within(x) : x \in A(argc)}
        /\ SS = A(argc - 1) \cup UNION {Within(x) : x \in A(argc - 1)}
    BY DEF AskedBy, A
  <2> QED
    BY <2>2, <2>3, <2>4
<1>3. q \in Asked /\ Within(q) \subseteq Asked /\ S \subseteq Asked
  <2>1. q \in {argv[i] : i \in 1 .. Len(argv)}
    BY <1>1
  <2>2. argc + 1 .. Len(argv) \subseteq 1 .. Len(argv)
    BY <1>1
  <2> QED
    BY <2>1, <2>2 DEF Asked, AskedBy
<1>4. \A p \in Asked : /\ p \in DOMAIN Source
                       /\ Parent[p] # Root => Source[Parent[p]].type = "DIRECTORY"
                       /\ Source[p].type = "DIRECTORY" => Parent[p] = Root
  BY TreeFile
<1>5. \A x \in Within(q) : Parent[x] = q /\ q # Root /\ Source[q].type = "DIRECTORY"
  <2>1. q # Root
    BY <1>1, SltarAssumption
  <2> QED
    BY <1>3, <1>4, <2>1 DEF Within
<1>6. /\ Len(walk') \in Nat /\ Len(walk') >= 1 /\ walk'[1].p = q
      /\ \A k \in 1 .. Len(walk') :
             walk'[k].p \in {q} \cup Within(q) /\ walk'[k].st = Source[walk'[k].p]
      /\ \A x \in Within(q) : \E k \in 2 .. Len(walk') : walk'[k].p = x
  <2>1. CASE Source[q].type = "DIRECTORY"
    <3>1. walk' \in Walks(q)
      BY <2>1 DEF C
    <3> HIDE DEF q
    <3> QED
      BY <1>1, <2>1, <3>1, WalkOfDirectory
  <2>2. CASE Source[q].type # "DIRECTORY"
    <3>1. walk' = <<[p |-> q, st |-> Source[q]]>> /\ Within(q) = {}
      BY <1>5, <2>2 DEF C
    <3> DEFINE e == [p |-> q, st |-> Source[q]]
    <3>2. e.p = q /\ e.st = Source[q] /\ walk' = <<e>>
      BY <3>1
    <3> HIDE DEF e
    <3>3. Len(walk') = 1 /\ walk'[1] = e
      BY <3>2
    <3> QED
      BY <3>1, <3>2, <3>3
  <2> QED
    BY <2>1, <2>2
<1> HIDE DEF q, S, SS
<1>7. TreeWalk(Asked, walk')
  BY <1>3, <1>6 DEF TreeWalk
<1>8. ASSUME NEW p \in SS, Parent[p] \in SS \cup {Root}
      PROVE  Archived(archive, p) \/ ToArchive(archive, walk', p)
  <2>1. CASE p \in Within(q)
    <3>1. PICK k \in 2 .. Len(walk') : walk'[k].p = p
      BY <1>6, <2>1
    <3>2. k \in 1 .. Len(walk') /\ 1 \in 1 .. k - 1 /\ walk'[1].p = Parent[p]
      BY <1>5, <1>6, <2>1, <3>1
    <3> QED
      BY <3>1, <3>2 DEF ToArchive
  <2>2. CASE p \notin Within(q) /\ Parent[p] = Root
    <3>1. CASE p \in S
      <4>1. Archived(archive, p) \/ ToArchive(archive, walk, p)
        BY <2>2, <3>1 DEF Covered, S
      <4>2. ~ToArchive(archive, walk, p)
        BY DEF ToArchive
      <4> QED
        BY <4>1, <4>2
    <3>2. CASE p \notin S
      <4>1. p = q /\ 1 \in 1 .. Len(walk')
        BY <1>2, <1>6, <2>2, <3>2
      <4> QED
        BY <1>6, <2>2, <4>1 DEF ToArchive
    <3> QED
      BY <3>1, <3>2
  <2>3. CASE p \notin Within(q) /\ Parent[p] # Root
    <3>0. p \in Asked /\ Parent[p] \in SS
      BY <1>2, <1>3, <1>8, <2>3
    <3>1. Parent[p] # q
      BY <1>4, <2>3, <3>0 DEF Within
    <3>2. Parent[p] \notin Within(q)
      <4>1. SUFFICES ASSUME Parent[p] \in Within(q) PROVE FALSE
        OBVIOUS
      <4>2. Source[Parent[p]].type = "DIRECTORY" /\ Parent[p] \in Asked
        BY <1>3, <1>4, <2>3, <3>0, <4>1
      <4>3. Parent[Parent[p]] = Root
        BY <1>4, <4>2
      <4> QED
        BY <1>5, <4>1, <4>3
    <3>3. Parent[p] \in S
      BY <1>2, <3>0, <3>1, <3>2
    <3>4. CASE p \in S
      <4>1. Archived(archive, p) \/ ToArchive(archive, walk, p)
        BY <3>3, <3>4 DEF Covered, S
      <4>2. ~ToArchive(archive, walk, p)
        BY DEF ToArchive
      <4> QED
        BY <4>1, <4>2
    <3>5. CASE p \notin S
      <4>1. p = q /\ 1 \in 1 .. Len(walk')
        BY <1>2, <1>6, <2>3, <3>5
      <4>2. Parent[Parent[p]] = Root
        BY <1>3, <1>4, <2>3, <3>0, <3>3
      <4>3. Archived(archive, Parent[p]) \/ ToArchive(archive, walk, Parent[p])
        BY <3>3, <4>2 DEF Covered, S
      <4>4. ~ToArchive(archive, walk, Parent[p])
        BY DEF ToArchive
      <4>5. HasHeader(archive, Parent[p], Len(archive))
        BY <4>3, <4>4 DEF Archived, HasHeader, Headers
      <4> QED
        BY <1>6, <4>1, <4>5 DEF ToArchive
    <3> QED
      BY <3>4, <3>5
  <2> QED
    BY <2>1, <2>2, <2>3
<1> QED
  BY <1>7, <1>8 DEF Covered, SS

\* A longer archive has the entries of the shorter one.
LEMMA StaysArchived ==
    ASSUME NEW a \in Seq(Block), NEW e \in Block, NEW p
    PROVE  /\ HasHeader(a, p, Len(a)) => HasHeader(Append(a, e), p, Len(a))
                                         /\ HasHeader(Append(a, e), p, Len(a) + 1)
           /\ Archived(a, p) => Archived(Append(a, e), p)
<1> DEFINE aa == Append(a, e)
<1>1. /\ Len(aa) = Len(a) + 1 /\ Len(a) \in Nat
      /\ \A i \in 1 .. Len(a) : aa[i] = a[i]
  BY HeadersAppend
<1> HIDE DEF aa
<1>2. \A n \in 0 .. Len(a) : HeadersTo(aa, n) = HeadersTo(a, n)
  BY <1>1 DEF HeadersTo
<1>3. ASSUME NEW n \in 0 .. Len(a), NEW x, HasHeader(a, x, n)
      PROVE  HasHeader(aa, x, n)
  BY <1>1, <1>2, <1>3 DEF HasHeader, HeadersTo
<1>4. HasHeader(aa, p, Len(a)) => HasHeader(aa, p, Len(a) + 1)
  BY <1>1 DEF HasHeader, HeadersTo
<1>5. ASSUME Archived(a, p)
      PROVE  Archived(aa, p)
  <2>1. PICK i \in Headers(a) :
            a[i].name = p /\ (Parent[p] = Root \/ HasHeader(a, Parent[p], i - 1))
    BY <1>5 DEF Archived
  <2>2. i \in 1 .. Len(a) /\ i - 1 \in 0 .. Len(a) /\ aa[i] = a[i] /\ i \in Headers(aa)
    BY <1>1 DEF Headers, HeadersTo
  <2> QED
    BY <1>3, <2>1, <2>2 DEF Archived
<1> QED
  BY <1>1, <1>3, <1>4, <1>5 DEF aa

\* c_file() archives the first of the files that are left.
LEMMA ArchivesFirst ==
    ASSUME NEW S, NEW a \in Seq(Block), NEW w \in Seq([p: Paths, st: Node]), w # <<>>,
           NEW e \in Block, e.c = "header", e.name = Head(w).p,
           Covered(S, a, w)
    PROVE  Covered(S, Append(a, e), Tail(w))
<1> DEFINE aa == Append(a, e)
           n == Len(a) + 1
<1>1. /\ Len(aa) = n /\ Len(a) \in Nat /\ aa[n] = e
      /\ \A i \in 1 .. Len(a) : aa[i] = a[i]
      /\ Headers(aa) = Headers(a) \cup {n}
  BY HeadersAppend
<1>2. /\ \A p : HasHeader(a, p, Len(a)) => HasHeader(aa, p, Len(a)) /\ HasHeader(aa, p, n)
      /\ \A p : Archived(a, p) => Archived(aa, p)
  BY StaysArchived
<1> HIDE DEF aa
<1>3. /\ Len(w) \in Nat /\ Len(w) >= 1 /\ w[1].p = e.name /\ Len(Tail(w)) = Len(w) - 1
      /\ \A k \in 1 .. Len(w) - 1 : Tail(w)[k] = w[k + 1]
  OBVIOUS
<1>4. PICK u : u = Tail(w)
  OBVIOUS
<1>5. ASSUME NEW p \in S, Parent[p] \in S \cup {Root}
      PROVE  Archived(aa, p) \/ ToArchive(aa, u, p)
  <2>1. CASE Archived(a, p)
    BY <1>2, <2>1
  <2>2. CASE ToArchive(a, w, p)
    <3>1. PICK k \in 1 .. Len(w) :
              /\ w[k].p = p
              /\ \/ Parent[p] = Root
                 \/ HasHeader(a, Parent[p], Len(a))
                 \/ \E j \in 1 .. k - 1 : w[j].p = Parent[p]
      BY <2>2 DEF ToArchive
    <3>2. CASE k = 1
      <4>1. Parent[p] = Root \/ HasHeader(aa, Parent[p], n - 1)
        BY <1>1, <1>2, <3>1, <3>2
      <4>2. n \in Headers(aa) /\ aa[n].name = p
        BY <1>1, <1>3, <3>1, <3>2
      <4> QED
        BY <4>1, <4>2 DEF Archived
    <3>3. CASE k # 1
      <4>1. k - 1 \in 1 .. Len(u) /\ u[k - 1].p = p
        BY <1>3, <1>4, <3>1, <3>3
      <4>2. ASSUME NEW j \in 1 .. k - 1, w[j].p = Parent[p]
            PROVE  HasHeader(aa, Parent[p], Len(aa))
                   \/ \E m \in 1 .. (k - 1) - 1 : u[m].p = Parent[p]
        <5>1. CASE j = 1
          <6>1. n \in HeadersTo(aa, Len(aa)) /\ aa[n].name = Parent[p]
            BY <1>1, <1>3, <4>2, <5>1 DEF HeadersTo
          <6> QED
            BY <6>1 DEF HasHeader
        <5>2. CASE j # 1
          <6>1. j - 1 \in 1 .. (k - 1) - 1 /\ u[j - 1].p = Parent[p]
            BY <1>3, <1>4, <4>2, <5>2
          <6> QED
            BY <6>1
        <5> QED
          BY <5>1, <5>2
      <4>3. HasHeader(a, Parent[p], Len(a)) => HasHeader(aa, Parent[p], Len(aa))
        BY <1>1, <1>2
      <4> QED
        BY <3>1, <4>1, <4>2, <4>3 DEF ToArchive
    <3> QED
      BY <3>2, <3>3
  <2> QED
    BY <1>5, <2>1, <2>2 DEF Covered
<1> QED
  BY <1>4, <1>5 DEF Covered, aa

\* When c() takes an argument it has archived all of the one before.
WalkOver == pc \notin {"c_file", "c_data", "crashed"} => walk = <<>>

\* What sltar c has written, of a tree without faults: entries of files that
\* it was asked for, all but the last one whole, and of every file of the
\* arguments taken either an entry is there or the walk comes to it.
CreateInv ==
    argv # <<>> /\ Regular(Asked) =>
        /\ \A k \in 1 .. Len(archive) : archive[k].c # "zero"
        /\ TreeArchive(Asked, archive)
        /\ IF pc = "c_data" THEN OpenEntry(archive, rest) ELSE WholeEntries(archive)
        /\ TreeWalk(Asked, walk)
        /\ Covered(AskedBy(argc), archive, walk)

LEMMA CreateInit == Init => WalkOver /\ CreateInv
<1> SUFFICES ASSUME Init PROVE WalkOver /\ CreateInv
  OBVIOUS
<1>1. walk = <<>> /\ argv = <<>>
  BY DEF Init
<1> QED
  BY <1>1 DEF WalkOver, CreateInv

LEMMA WalkNext ==
    ASSUME TypeOK, WalkOver, [Next]_vars
    PROVE  WalkOver'
<1>1. CASE MainC \/ C \/ CEnds \/ CFile \/ CFileCrashes \/ CData \/ CFileEnds
  BY <1>1 DEF WalkOver, MainC, C, CEnds, CFile, CFileCrashes, CData, CFileEnds, creating
<1>2. CASE MainXT \/ Usage \/ TarHeader \/ TarEnds \/ TarLost
  BY <1>2 DEF WalkOver, TypeOK, MainXT, Usage, TarHeader, TarEnds, TarLost, creating
<1>3. CASE XLink \/ XReg \/ XOther \/ T \/ Copy \/ CopyEnds \/ UNCHANGED vars
  BY <1>3 DEF WalkOver, XLink, XReg, XOther, T, Copy, CopyEnds, vars, creating
<1> QED
  BY <1>1, <1>2, <1>3 DEF Next

LEMMA CreateNext ==
    ASSUME PlainTree, TypeOK, WalkOver, CreateInv, [Next]_vars
    PROVE  CreateInv'
<1>0. archive \in Seq(Block) /\ Len(archive) \in Nat /\ walk \in Seq([p: Paths, st: Node])
      /\ argv \in Seq(Paths) /\ argc \in Nat
  BY DEF TypeOK
<1>1. CASE MainC
  <2>1. archive' = <<>> /\ walk' = <<>> /\ pc' = "c" /\ argc' = Len(argv') /\ argv' \in Seq(Paths)
    BY <1>1, SltarAssumption DEF MainC, WalkOver
  <2>2. Headers(archive)' = {}
    BY <2>1 DEF Headers, HeadersTo
  <2>3. TreeArchive(Asked, archive)' /\ WholeEntries(archive)' /\ TreeWalk(Asked, walk)'
    BY <2>1, <2>2 DEF TreeArchive, WholeEntries, TreeWalk
  <2>4. AskedBy(argc)' = {}
    <3>1. argc' + 1 .. Len(argv') = {}
      BY <2>1
    <3> QED
      BY <3>1 DEF AskedBy
  <2>5. Covered(AskedBy(argc), archive, walk)'
    BY <2>4 DEF Covered
  <2> QED
    BY <2>1, <2>3, <2>5 DEF CreateInv
<1> SUFFICES ASSUME ~MainC, argv' # <<>>, Regular(Asked)'
             PROVE  /\ (\A k \in 1 .. Len(archive) : archive[k].c # "zero")'
                    /\ TreeArchive(Asked, archive)'
                    /\ (IF pc = "c_data" THEN OpenEntry(archive, rest)
                        ELSE WholeEntries(archive))'
                    /\ TreeWalk(Asked, walk)'
                    /\ Covered(AskedBy(argc), archive, walk)'
  BY <1>1 DEF CreateInv
<1>2. argv' = argv
  BY DEF Next, MainC, C, CEnds, CFile, CFileCrashes, CData, CFileEnds, MainXT, Usage,
         TarHeader, TarEnds,
         TarLost, XLink, XReg, XOther, T, Copy, CopyEnds, vars, creating
<1>3. Asked' = Asked /\ (\A n : AskedBy(n)' = AskedBy(n)) /\ argv # <<>> /\ Regular(Asked)
  BY <1>2 DEF Asked, AskedBy
<1>4. /\ \A k \in 1 .. Len(archive) : archive[k].c # "zero"
      /\ TreeArchive(Asked, archive)
      /\ IF pc = "c_data" THEN OpenEntry(archive, rest) ELSE WholeEntries(archive)
      /\ TreeWalk(Asked, walk)
      /\ Covered(AskedBy(argc), archive, walk)
  BY <1>3 DEF CreateInv
<1>5. CASE C
  <2>1. pc = "c" /\ pc' = "c_file" /\ archive' = archive /\ argc' = argc - 1 /\ walk = <<>>
    BY <1>5 DEF C, WalkOver
  <2>2. TreeWalk(Asked, walk') /\ Covered(AskedBy(argc - 1), archive, walk')
    BY <1>3, <1>4, <1>5, <2>1, TakesArgument
  <2>3. WholeEntries(archive) /\ ~(pc' = "c_data")
    BY <1>4, <2>1
  <2>4. Covered(AskedBy(argc), archive, walk)'
    BY <1>2, <2>1, <2>2 DEF Covered, AskedBy, Archived, ToArchive, HasHeader, Headers, HeadersTo
  <2>5. TreeWalk(Asked, walk)' /\ TreeArchive(Asked, archive)' /\ WholeEntries(archive)'
    BY <1>3, <1>4, <2>1, <2>2, <2>3
        DEF TreeWalk, TreeArchive, WholeEntries, Whole, Headers, HeadersTo
  <2> QED
    BY <1>4, <2>1, <2>3, <2>4, <2>5
<1>6. CASE CFile
  <2>1. PICK p \in Asked : p = Head(walk).p /\ Head(walk).st = Source[p]
    <3>1. walk # <<>>
      BY <1>6 DEF CFile
    <3>2. Head(walk) = walk[1] /\ 1 \in 1 .. Len(walk)
      BY <1>0, <3>1
    <3> QED
      BY <1>4, <3>2 DEF TreeWalk
  <2>2. PICK h : h = HeaderOf(p, Source[p])
    OBVIOUS
  <2>3. PICK r : r = IF Source[p].type = "REG" /\ p \notin Unreadable
                     THEN Source[p].data ELSE <<>>
    OBVIOUS
  <2>4. PICK aa : aa = Append(archive, h)
    OBVIOUS
  <2>5. PICK u : u = Tail(walk)
    OBVIOUS
  <2>6. /\ pc = "c_file" /\ walk # <<>> /\ pc' = "c_data" /\ argc' = argc
        /\ archive' = aa /\ rest' = r /\ walk' = u
    BY <1>6, <2>1, <2>2, <2>3, <2>4, <2>5 DEF CFile
  <2>7. WholeEntries(archive)
    BY <1>4, <2>6
  <2>8. TreeArchive(Asked, aa) /\ OpenEntry(aa, r)
    BY <1>0, <1>3, <1>4, <2>2, <2>3, <2>4, <2>7, BeginsEntry
  <2>9. h \in Block /\ h.c = "header" /\ h.name = p
    <3>1. h \in Block
      BY <1>3, <2>2, TreeFile
    <3> QED
      BY <2>2, <3>1 DEF HeaderOf
  <2>10. Covered(AskedBy(argc), aa, u)
    <3>1. PICK S : S = AskedBy(argc)
      OBVIOUS
    <3>2. Covered(S, archive, walk)
      BY <1>4, <3>1
    <3>3. Covered(S, aa, u)
      BY <1>0, <2>1, <2>4, <2>5, <2>6, <2>9, <3>2, ArchivesFirst
    <3> QED
      BY <3>1, <3>3
  <2>11. TreeWalk(Asked, u)
    <3>1. Len(walk) \in Nat /\ Len(u) = Len(walk) - 1
          /\ \A k \in 1 .. Len(walk) - 1 : u[k] = walk[k + 1]
      BY <1>0, <2>5, <2>6
    <3> QED
      BY <1>4, <3>1 DEF TreeWalk
  <2>12. \A k \in 1 .. Len(aa) : aa[k].c # "zero"
    BY <1>0, <1>4, <2>4, <2>9
  <2>13. TreeArchive(Asked, archive)' /\ OpenEntry(archive, rest)'
    <3>1. TreeArchive(Asked, archive)'
      BY <1>3, <2>6, <2>8 DEF TreeArchive, Headers, HeadersTo
    <3>2. OpenEntry(archive, rest)'
      BY <2>6, <2>8 DEF OpenEntry, Begun, Whole, Headers, HeadersTo
    <3> QED
      BY <3>1, <3>2
  <2>14. TreeWalk(Asked, walk)'
    BY <1>3, <2>6, <2>11 DEF TreeWalk
  <2>15. Covered(AskedBy(argc), archive, walk)'
    BY <1>2, <2>6, <2>10 DEF Covered, AskedBy, Archived, ToArchive, HasHeader, Headers, HeadersTo
  <2> QED
    BY <2>6, <2>12, <2>13, <2>14, <2>15
<1>7. CASE CData
  <2>1. PICK e : e = [c |-> "data", id |-> Head(rest).id]
    OBVIOUS
  <2>2. PICK aa : aa = Append(archive, e)
    OBVIOUS
  <2>3. PICK r : r = Tail(rest)
    OBVIOUS
  <2>4. /\ pc = "c_data" /\ rest # <<>> /\ pc' = pc /\ argc' = argc /\ walk' = walk
        /\ archive' = aa /\ rest' = r
    BY <1>7, <2>1, <2>2, <2>3 DEF CData
  <2>5. TreeArchive(Asked, aa) /\ OpenEntry(aa, r)
    BY <1>0, <1>3, <1>4, <2>1, <2>2, <2>3, <2>4, AddsBlock
  <2>6. e \in Block /\ e.c # "zero"
    <3>1. rest \in Seq(PieceOfData)
      BY DEF TypeOK
    <3>2. Head(rest) \in PieceOfData
      BY <2>4, <3>1
    <3> QED
      BY <2>1, <3>2, DataBlock DEF PieceOfData
  <2>7. PICK S : S = AskedBy(argc)
    OBVIOUS
  <2>8. Covered(S, aa, walk)
    <3> SUFFICES ASSUME NEW p \in S, Parent[p] \in S \cup {Root}
                 PROVE  Archived(aa, p) \/ ToArchive(aa, walk, p)
      BY DEF Covered
    <3>1. Archived(archive, p) \/ ToArchive(archive, walk, p)
      BY <1>4, <2>7 DEF Covered
    <3>2. CASE Archived(archive, p)
      BY <1>0, <2>2, <2>6, <3>2, StaysArchived
    <3>3. CASE ToArchive(archive, walk, p)
      <4>1. HasHeader(archive, Parent[p], Len(archive)) => HasHeader(aa, Parent[p], Len(aa))
        <5>1. Len(aa) = Len(archive) + 1
          BY <1>0, <2>2
        <5> QED
          BY <1>0, <2>2, <2>6, <5>1, StaysArchived
      <4> QED
        BY <3>3, <4>1 DEF ToArchive
    <3> QED
      BY <3>1, <3>2, <3>3
  <2>9. \A k \in 1 .. Len(aa) : aa[k].c # "zero"
    BY <1>0, <1>4, <2>2, <2>6
  <2>10. TreeArchive(Asked, archive)' /\ OpenEntry(archive, rest)'
    BY <1>3, <2>4, <2>5 DEF TreeArchive, OpenEntry, Begun, Whole, Headers, HeadersTo
  <2>11. TreeWalk(Asked, walk)'
    BY <1>3, <1>4, <2>4 DEF TreeWalk
  <2>12. Covered(AskedBy(argc), archive, walk)'
    <3>1. AskedBy(argc)' = S
      BY <1>2, <2>4, <2>7 DEF AskedBy
    <3> QED
      BY <2>4, <2>8, <3>1 DEF Covered, Archived, ToArchive, HasHeader, Headers, HeadersTo
  <2> QED
    BY <2>4, <2>9, <2>10, <2>11, <2>12
<1>8. CASE ~C /\ ~CFile /\ ~CData
  <2>1. archive' = archive /\ walk' = walk /\ argc' = argc /\ rest' = rest
    BY <1>8 DEF Next, MainC, CEnds, CFileCrashes, CFileEnds, MainXT, Usage, TarHeader, TarEnds,
           TarLost, XLink, XReg, XOther, T, Copy, CopyEnds, vars, creating
  <2>2. pc' = "c_data" => pc = "c_data"
    BY <1>8 DEF Next, MainC, CEnds, CFileCrashes, CFileEnds, MainXT, Usage, TarHeader, TarEnds,
           TarLost, XLink, XReg, XOther, T, Copy, CopyEnds, vars, creating, TypeOK
  <2>3. CASE pc = "c_data" /\ pc' # "c_data"
    <3>1. rest = <<>>
      BY <1>8, <2>3 DEF Next, MainC, CEnds, CFileCrashes, CFileEnds, MainXT, Usage, TarHeader, TarEnds,
             TarLost, XLink, XReg, XOther, T, Copy, CopyEnds, vars, TypeOK
    <3>2. WholeEntries(archive)
      BY <1>0, <1>3, <1>4, <2>3, <3>1, EndsEntry
    <3> QED
      BY <1>2, <1>3, <1>4, <2>1, <2>3, <3>2
  <2>4. CASE pc = "c_data" /\ pc' = "c_data"
    BY <1>2, <1>3, <1>4, <2>1, <2>4
  <2>5. CASE pc # "c_data"
    BY <1>2, <1>3, <1>4, <2>1, <2>2, <2>5
  <2> QED
    BY <2>3, <2>4, <2>5
<1> QED
  BY <1>5, <1>6, <1>7, <1>8

\* Of the headers read, every one has a last one of its name.
LastNamed(a, n) ==
    \A i \in HeadersTo(a, n) :
        \E j \in HeadersTo(a, n) :
            /\ j >= i /\ a[j].name = a[i].name
            /\ \A k \in HeadersTo(a, n) : k > j => a[k].name # a[i].name

LastInv == LastNamed(archive, pos)

LEMMA LastNamedOneMore ==
    ASSUME NEW a, NEW n \in Nat, LastNamed(a, n)
    PROVE  LastNamed(a, n + 1)
<1>1. HeadersTo(a, n + 1) = IF a[n + 1].c = "header" THEN HeadersTo(a, n) \cup {n + 1}
                            ELSE HeadersTo(a, n)
  BY DEF HeadersTo
<1>2. HeadersTo(a, n) \subseteq 1 .. n
  BY DEF HeadersTo
<1>3. CASE a[n + 1].c # "header"
  <2>1. HeadersTo(a, n + 1) = HeadersTo(a, n)
    BY <1>1, <1>3
  <2> QED
    BY <2>1 DEF LastNamed
<1>4. CASE a[n + 1].c = "header"
  <2> SUFFICES ASSUME NEW i \in HeadersTo(a, n + 1)
               PROVE  \E j \in HeadersTo(a, n + 1) :
                          /\ j >= i /\ a[j].name = a[i].name
                          /\ \A k \in HeadersTo(a, n + 1) : k > j => a[k].name # a[i].name
    BY DEF LastNamed
  <2>1. HeadersTo(a, n + 1) = HeadersTo(a, n) \cup {n + 1}
    BY <1>1, <1>4
  <2>2. CASE a[n + 1].name = a[i].name
    BY <1>2, <2>1, <2>2
  <2>3. CASE a[n + 1].name # a[i].name
    <3>1. i \in HeadersTo(a, n)
      BY <2>1, <2>3
    <3>2. PICK j \in HeadersTo(a, n) :
              /\ j >= i /\ a[j].name = a[i].name
              /\ \A k \in HeadersTo(a, n) : k > j => a[k].name # a[i].name
      BY <3>1 DEF LastNamed
    <3> QED
      BY <2>1, <2>3, <3>2
  <2> QED
    BY <2>2, <2>3
<1> QED
  BY <1>3, <1>4

LEMMA LastNext ==
    ASSUME TypeOK, AtStart, LastInv, [Next]_vars
    PROVE  LastInv'
<1>1. CASE pc \in {"main", "c", "c_file", "c_data", "archived"}
  <2>1. pos' = 0
    BY <1>1 DEF AtStart, Next, MainC, C, CEnds, CFile, CFileCrashes, CData, CFileEnds, MainXT, Usage,
                TarHeader, TarEnds, TarLost, XLink, XReg, XOther, T, Copy, CopyEnds,
                vars, reading
  <2>2. HeadersTo(archive', pos') = {}
    BY <2>1 DEF HeadersTo
  <2> QED
    BY <2>2 DEF LastInv, LastNamed
<1>2. CASE pc \notin {"main", "c", "c_file", "c_data", "archived"}
  <2>1. archive' = archive /\ (pos' = pos \/ pos' = pos + 1)
    BY <1>2 DEF Next, MainC, C, CEnds, CFile, CFileCrashes, CData, CFileEnds, MainXT, Usage,
                TarHeader, TarEnds, TarLost, XLink, XReg, XOther, T, Copy, Fread, CopyEnds,
                vars, reading
  <2>2. pos \in Nat
    BY DEF TypeOK
  <2>3. LastNamed(archive, pos + 1)
    BY <2>2, LastNamedOneMore DEF LastInv
  <2> QED
    BY <2>1, <2>3 DEF LastInv, LastNamed, HeadersTo
<1> QED
  BY <1>1, <1>2

\* What sltar x finds at the end in an archive of sltar c: a last entry for
\* every file, with an entry of its directory before.
LEMMA ArchiveOfTree ==
    ASSUME PlainTree, ExtractInv, WalkOver, CreateInv, LastInv,
           Over, argc = 0, argv # <<>>, Regular(Asked), NEW p \in Asked
    PROVE  /\ WellFormed(archive) /\ DoneTo = pos /\ pc = "done"
           /\ TreeArchive(Asked, archive) /\ WholeEntries(archive)
           /\ Headers(archive) = HeadersTo(archive, pos)
           /\ \E j \in HeadersTo(archive, pos) :
                  /\ archive[j].name = p
                  /\ \A k \in HeadersTo(archive, pos) : k > j => archive[k].name # p
                  /\ Parent[p] # Root => HasHeader(archive, Parent[p], j - 1)
<1>1. /\ archive \in Seq(Block) /\ pos \in 0 .. Len(archive) /\ Len(archive) \in Nat
      /\ Len(argv) \in Nat
  BY DEF ExtractInv, ReadInv, TypeOK
<1>2. pc \notin {"c_file", "c_data"} /\ walk = <<>>
  BY DEF Over, WalkOver
<1>3. /\ \A k \in 1 .. Len(archive) : archive[k].c # "zero"
      /\ TreeArchive(Asked, archive) /\ WholeEntries(archive)
      /\ Covered(AskedBy(argc), archive, walk)
  BY <1>2 DEF CreateInv
<1>4. WellFormed(archive)
  BY <1>1, <1>3, TreeWellFormed
<1>5. DoneTo = pos /\ pc = "done"
  BY <1>4, AllRead DEF ExtractInv
<1>6. pos = Len(archive)
  <2>1. pos = Len(archive) \/ archive[pos + 1].c = "zero"
    BY <1>4, <1>5 DEF ExtractInv, ReadInv, EntryInv
  <2>2. pos # Len(archive) => pos + 1 \in 1 .. Len(archive)
    BY <1>1
  <2> QED
    BY <1>3, <2>1, <2>2
<1>7. AskedBy(argc) = Asked
  <2>1. argc + 1 .. Len(argv) = 1 .. Len(argv)
    BY <1>1
  <2> QED
    BY <2>1 DEF AskedBy, Asked
<1>8. Archived(archive, p)
  <2>1. Parent[p] \in Asked \cup {Root}
    BY DEF Regular
  <2>2. Archived(archive, p) \/ ToArchive(archive, walk, p)
    BY <1>3, <1>7, <2>1 DEF Covered
  <2>3. ~ToArchive(archive, walk, p)
    BY <1>2 DEF ToArchive
  <2> QED
    BY <2>2, <2>3
<1>9. PICK i \in HeadersTo(archive, pos) :
          /\ archive[i].name = p
          /\ Parent[p] = Root \/ HasHeader(archive, Parent[p], i - 1)
  BY <1>6, <1>8 DEF Archived, Headers
<1>10. PICK j \in HeadersTo(archive, pos) :
           /\ j >= i /\ archive[j].name = archive[i].name
           /\ \A k \in HeadersTo(archive, pos) : k > j => archive[k].name # archive[i].name
  BY DEF LastInv, LastNamed
<1>11. Parent[p] # Root => HasHeader(archive, Parent[p], j - 1)
  <2>1. i \in Nat /\ j \in Nat /\ j >= i
    BY <1>10 DEF HeadersTo
  <2>2. HeadersTo(archive, i - 1) \subseteq HeadersTo(archive, j - 1)
    BY <2>1 DEF HeadersTo
  <2> QED
    BY <1>9, <2>2 DEF HasHeader
<1> QED
  BY <1>3, <1>4, <1>5, <1>6, <1>9, <1>10, <1>11 DEF Headers

\* The directory of the file is there when x() comes to its entry.
LEMMA TreeCanBeMade ==
    ASSUME PlainTree, TreeArchive(Asked, archive), Regular(Asked),
           Headers(archive) = HeadersTo(archive, pos), pos \in Nat,
           NEW p \in Asked, NEW j \in HeadersTo(archive, pos), archive[j].name = p,
           Parent[p] # Root => HasHeader(archive, Parent[p], j - 1)
    PROVE  CanBeMade(archive, j)
<1>1. p \notin Unwritable
  BY DEF Regular
<1>2. CASE Parent[p] = Root
  BY <1>1, <1>2 DEF CanBeMade
<1>3. CASE Parent[p] # Root
  <2>1. PICK k \in HeadersTo(archive, j - 1) : archive[k].name = Parent[p]
    BY <1>3 DEF HasHeader
  <2>2. k \in Headers(archive)
    BY <2>1 DEF HeadersTo
  <2>3. archive[k] = HeaderOf(Parent[p], Source[Parent[p]])
    BY <2>1, <2>2 DEF TreeArchive
  <2>4. Parent[p] \in Asked /\ Source[Parent[p]].type = "DIRECTORY"
    BY <1>3, TreeFile
  <2>5. Parent[Parent[p]] = Root /\ Parent[p] \notin Unwritable
    BY <2>4, TreeFile
  <2>6. BaseDir(archive, k)
    BY <2>1, <2>3, <2>4, <2>5 DEF BaseDir, HeaderOf
  <2>7. ASSUME NEW i \in HeadersTo(archive, j - 1), archive[i].name = Parent[p]
        PROVE  archive[i].writable
    <3>1. i \in Headers(archive)
      BY <2>7 DEF HeadersTo
    <3>2. archive[i] = HeaderOf(Parent[p], Source[Parent[p]])
      BY <2>7, <3>1 DEF TreeArchive
    <3> QED
      BY <2>4, <3>2, TreeFile DEF HeaderOf
  <2> QED
    BY <1>1, <2>1, <2>6, <2>7 DEF CanBeMade
<1> QED
  BY <1>2, <1>3

\* The entry of a file gives back its data.
LEMMA DataBack ==
    ASSUME PlainTree, Regular(Asked), TreeArchive(Asked, archive), WholeEntries(archive),
           NEW j \in Headers(archive), NEW p \in Asked, archive[j].name = p,
           Source[p].type = "REG"
    PROVE  DataTo(archive, j, Blocks(Strtol(archive[j]))) = Source[p].data
<1> DEFINE D == Source[p].data
           L == Length(p)
<1>1. archive[j] = HeaderOf(p, Source[p])
  BY DEF TreeArchive
<1>2. Blocks(Strtol(archive[j])) = L /\ D \in Seq(PieceOfData) /\ L \in Nat /\ L = Len(D)
  <2>1. Blocks(Strtol(HeaderOf(p, Source[p]))) = Length(p)
        /\ Source[p].data \in Seq(PieceOfData) /\ Length(p) \in Nat
    BY TreeFile
  <2> QED
    BY <1>1, <2>1 DEF Length
<1>3. Strtol(archive[j]) = Source[p].size
  <2>1. Strtol(HeaderOf(p, Source[p])) = Source[p].size
    BY DEF Strtol, HeaderOf
  <2> QED
    BY <1>1, <2>1
<1>4. \A k \in 1 .. L : D[k].n = IF k = L THEN Source[p].size - (k - 1) * END ELSE END
  <2>1. p \in DOMAIN Source /\ Blocks(Source[p].size) = Len(Source[p].data)
    BY DEF Regular
  <2>2. \A k \in 1 .. Len(Source[p].data) :
            Source[p].data[k].n = IF k = Len(Source[p].data)
                                  THEN Source[p].size - (k - 1) * END ELSE END
    BY <2>1 DEF PlainTree
  <2> QED
    BY <2>2 DEF Length
<1>5. \A k \in 1 .. L : archive[j + k].id = D[k].id
  <2>1. Whole(archive, j)
    BY DEF WholeEntries
  <2>2. \A k \in 1 .. Length(p) : archive[j + k] = DataOf(p, k)
    BY <2>1 DEF Whole
  <2>3. \A k : DataOf(p, k).id = D[k].id
    BY DEF DataOf
  <2> QED
    BY <2>2, <2>3
<1>6. ASSUME NEW k \in 1 .. L
      PROVE  PieceAt(archive, j, k) = D[k]
  <2>1. D[k] \in [id : Nat, n : 0 .. END]
    <3>1. D[k] \in PieceOfData
      <4> HIDE DEF D, L
      <4> QED
        BY <1>2
    <3> HIDE DEF D
    <3> QED
      BY <3>1 DEF PieceOfData
  <2>2. D[k] = [id |-> D[k].id, n |-> D[k].n]
    BY <2>1
  <2> QED
    BY <1>2, <1>3, <1>4, <1>5, <2>2 DEF PieceAt
<1>7. D = [k \in 1 .. L |-> D[k]]
  BY <1>2
<1>8. DataTo(archive, j, L) = [k \in 1 .. L |-> D[k]]
  BY <1>6 DEF DataTo
<1> QED
  BY <1>2, <1>7, <1>8

\* Of every plain tree, in whatever order ftw() walks its directories, sltar c
\* makes an archive from which sltar x makes the same files.
THEOREM TreeComesBack ==
    ASSUME PlainTree
    PROVE  Spec => []RoundTrip
<1> DEFINE I == ExtractInv /\ WalkOver /\ CreateInv /\ LastInv
<1>1. Init => I
  <2> SUFFICES ASSUME Init PROVE I
    OBVIOUS
  <2>1. ExtractInv
    BY ExtractInit
  <2>2. WalkOver /\ CreateInv
    BY CreateInit
  <2>3. LastInv
    <3>1. HeadersTo(archive, pos) = {}
      BY DEF Init, HeadersTo
    <3> QED
      BY <3>1 DEF LastInv, LastNamed
  <2> QED
    BY <2>1, <2>2, <2>3
<1>2. I /\ [Next]_vars => I'
  <2> SUFFICES ASSUME I, [Next]_vars PROVE I'
    OBVIOUS
  <2>1. TypeOK /\ AtStart
    BY DEF ExtractInv, ReadInv
  <2>2. ExtractInv'
    BY FilesNext
  <2>3. WalkOver' /\ CreateInv'
    BY <2>1, WalkNext, CreateNext
  <2>4. LastInv'
    BY <2>1, LastNext
  <2> QED
    BY <2>2, <2>3, <2>4
<1>3. ASSUME I PROVE RoundTrip
  <2> SUFFICES ASSUME Over, fn = "x", argc = 0, Regular(Asked), NEW p \in Asked
               PROVE  /\ dir[p] # 0
                      /\ nodes[dir[p]].type = Source[p].type
                      /\ nodes[dir[p]].data = Source[p].data
                      /\ nodes[dir[p]].to = Source[p].to
                      /\ nodes[dir[p]].rdev = Source[p].rdev
    BY DEF RoundTrip
  <2>1. argv # <<>>
    <3>1. SUFFICES ASSUME argv = <<>> PROVE FALSE
      OBVIOUS
    <3>2. {argv[i] : i \in 1 .. Len(argv)} = {}
      BY <3>1
    <3> QED
      BY <3>2 DEF Asked
  <2>2. /\ WellFormed(archive) /\ DoneTo = pos /\ pc = "done"
        /\ TreeArchive(Asked, archive) /\ WholeEntries(archive)
        /\ Headers(archive) = HeadersTo(archive, pos)
    BY <1>3, <2>1, ArchiveOfTree
  <2>3. PICK j \in HeadersTo(archive, pos) :
            /\ archive[j].name = p
            /\ \A k \in HeadersTo(archive, pos) : k > j => archive[k].name # p
            /\ Parent[p] # Root => HasHeader(archive, Parent[p], j - 1)
    BY <1>3, <2>1, ArchiveOfTree
  <2>4. /\ LastHolds /\ DirsFromEntries
        /\ pos \in Nat
    BY <1>3, <2>2 DEF ExtractInv, FilesInv, ReadInv, TypeOK
  <2>5. \A k \in HeadersTo(archive, pos) :
            archive[k].name = p => archive[k] = HeaderOf(p, Source[p])
    BY <2>2 DEF TreeArchive
  <2>6. p \in Paths /\ Source[p] \in Node /\ p \in DOMAIN Source /\ Source[p].type # "HARDLINK"
        /\ (Source[p].type # "REG" => Source[p].data = <<>>)
    BY TreeFile
  <2>7. /\ Source[p].type # "SYMLINK" => Source[p].to = Root
        /\ Source[p].rdev = IF Source[p].type \in {"CHARDEV", "BLOCKDEV"}
                            THEN Source[p].dev ELSE 0
    BY <2>6 DEF PlainTree
  <2>8. NewNode(HeaderOf(p, Source[p]))
            = [type |-> Source[p].type, data |-> <<>>, to |-> Source[p].to, dev |-> 0,
               rdev |-> Source[p].rdev, size |-> 0, mtime |-> 0,
               writable |-> Source[p].writable]
    BY <2>7 DEF NewNode, HeaderOf
  <2>9. Holds(j, Blocks(Strtol(archive[j])))
    <3>1. archive[j].type # "HARDLINK"
      BY <2>3, <2>5, <2>6 DEF HeaderOf
    <3>2. LastOf(j)
      BY <2>3, <3>1 DEF LastOf
    <3>3. Read(j) = Blocks(Strtol(archive[j]))
      BY <2>2 DEF Read, Current
    <3> QED
      BY <2>2, <2>4, <3>2, <3>3 DEF LastHolds
  <2>10. dir[p] # 0
    <3>1. CanBeMade(archive, j)
      BY <2>2, <2>3, <2>4, TreeCanBeMade
    <3> QED
      BY <2>3, <2>9, <3>1 DEF Holds
  <2>11. CASE IsDirectory(p)
    <3>1. PICK k \in HeadersTo(archive, pos) :
              /\ archive[k].name = p /\ archive[k].type = "DIRECTORY"
              /\ nodes[dir[p]] = NewNode(archive[k])
      BY <2>2, <2>4, <2>6, <2>10, <2>11 DEF DirsFromEntries
    <3>2. Source[p].type = "DIRECTORY"
      BY <2>5, <3>1 DEF HeaderOf
    <3>3. nodes[dir[p]] = NewNode(HeaderOf(p, Source[p]))
      BY <2>5, <3>1
    <3> QED
      BY <2>6, <2>8, <2>10, <3>2, <3>3
  <2>12. CASE ~IsDirectory(p)
    <3>1. nodes[dir[p]] = Written(archive, j, Blocks(Strtol(archive[j])))
      BY <2>3, <2>9, <2>10, <2>12 DEF Holds
    <3>2. archive[j] = HeaderOf(p, Source[p])
      BY <2>3, <2>5
    <3>3. PICK d : d = IF archive[j].type = "REG"
                       THEN DataTo(archive, j, Blocks(Strtol(archive[j]))) ELSE <<>>
      OBVIOUS
    <3>4. nodes[dir[p]] = [NewNode(archive[j]) EXCEPT !.data = d]
      BY <3>1, <3>3 DEF Written
    <3>5. d = Source[p].data
      <4>1. archive[j].type = Source[p].type
        BY <3>2 DEF HeaderOf
      <4>2. CASE Source[p].type = "REG"
        BY <2>2, <2>3, <3>3, <4>1, <4>2, DataBack
      <4>3. CASE Source[p].type # "REG"
        BY <2>6, <3>3, <4>1, <4>3
      <4> QED
        BY <4>2, <4>3
    <3>6. nodes[dir[p]] = [type |-> Source[p].type, data |-> d, to |-> Source[p].to, dev |-> 0,
                           rdev |-> Source[p].rdev, size |-> 0, mtime |-> 0,
               writable |-> Source[p].writable]
      BY <2>8, <3>2, <3>4
    <3> QED
      BY <2>10, <3>5, <3>6
  <2> QED
    BY <2>11, <2>12
<1>4. I => RoundTrip
  BY <1>3
<1> QED
  BY <1>1, <1>2, <1>4, PTL DEF Spec

=============================================================================
