------------------------------- MODULE Sltar -------------------------------
(***************************************************************************)
(* sltar, the tar program with which the build of bitcoin-core unpacks its *)
(* sources (bitcoin-core/sltar.c): sltar c PATH ... writes an archive to   *)
(* its output, sltar x and sltar t read one from their input.              *)
(*                                                                         *)
(* An archive is a sequence of blocks of END bytes.  A block is a header,  *)
(* the data of a file (known by an id), or zero.  The contents of a file   *)
(* are a sequence of pieces [id, n]: the first n bytes of a block of data. *)
(* A name leads to a node by its number, 0 if there is no such file, so    *)
(* that two names can be links to one file.                                *)
(*                                                                         *)
(* Of a mode it is kept whether files can be made in the directory; owners *)
(* and checksums change nothing but messages and are left out, as is a     *)
(* superuser, who makes files anywhere.  Links are not followed in the     *)
(* directory part of a name.                                               *)
(***************************************************************************)
EXTENDS Integers, Sequences, FiniteSets

CONSTANTS
    Paths,          \* the names of files
    Root,           \* the working directory
    Parent,         \* from names to the directory they are in
    Source,         \* from some of the names to what sltar c finds there
    ArgLists,       \* the arguments of sltar c that are tried
    Given,          \* archives made by other programs
    Unreadable,     \* files that fopen does not open for reading
    Nameless,       \* files whose owner or group has no name
    Unwritable      \* names under which nothing can be made

END == 512

Type == {"REG", "HARDLINK", "SYMLINK", "CHARDEV", "BLOCKDEV", "DIRECTORY", "FIFO"}

PieceOfData == [id: Nat, n: 0 .. END]

\* What a file is: dev is the device it is on, rdev the one it stands for,
\* size what stat() says of it and data what can be read of it later; writable
\* says if its mode lets its owner write, and search a directory.
Node == [type: Type, data: Seq(PieceOfData), to: Paths \cup {Root},
         dev: Nat, rdev: Nat, size: Nat, mtime: Nat, writable: BOOLEAN]

\* A header; terminated says if a NUL follows the digits of the size.
Header == [c: {"header"}, name: Paths, type: Type, size: Nat, terminated: BOOLEAN,
           mtime: Nat, link: Paths \cup {Root}, dev: Nat, writable: BOOLEAN]

Block == Header \cup [c: {"data"}, id: Nat] \cup {[c |-> "zero"]}

Zero == [c |-> "zero"]

ASSUME SltarAssumption ==
    /\ Root \notin Paths
    /\ Parent \in [Paths -> Paths \cup {Root}]
    /\ DOMAIN Source \subseteq Paths
    /\ IsFiniteSet(DOMAIN Source)
    /\ \A p \in DOMAIN Source : Source[p] \in Node
    /\ ArgLists \subseteq Seq(Paths)
    /\ Given \subseteq Seq(Block)

VARIABLES
    pc,             \* where the program is
    argv, argc,     \* sltar c: the arguments, and how many are not yet taken
    walk,           \* sltar c: files to write, as [p, st]
    rest,           \* sltar c: what is still to be read of a file
    archive,        \* what sltar c has written, or the input of sltar x and t
    pos,            \* blocks read
    fn,             \* the function that tar() calls, "x" or "t"
    b,              \* the block read last
    fname,          \* the name in the header
    l,              \* bytes of the entry that are still to be read
    f,              \* the node that is open for writing, 0 for none
    dir, nodes,     \* the files: numbers by name, nodes by number
    listed          \* what sltar t has printed

creating == <<argv, argc, walk, rest>>
reading == <<pos, fn, b, fname, l>>
files == <<f, dir, nodes>>
vars == <<pc, creating, archive, reading, files, listed>>

-----------------------------------------------------------------------------
(* Archives.                                                               *)

\* strtol on the size: sltar c fills the field of what is not a regular file
\* with zeros to its last byte, and the digits of mtime follow.
Strtol(h) == IF h.terminated THEN h.size ELSE h.mtime

\* Blocks read by the loops of x() and t() for l bytes.
Blocks(n) == IF n <= 0 THEN 0 ELSE (n - 1) \div END + 1

\* A block at which an entry, or the end of the archive, may begin.
Begins(a, i) == i = Len(a) \/ (i \in 0 .. Len(a) - 1 /\ a[i + 1].c # "data")

\* Every header is followed by as many blocks of data as its size says.
WellFormed(a) ==
    /\ Begins(a, 0)
    /\ \A i \in 0 .. Len(a) - 1 :
           a[i + 1].c = "header" =>
               LET end == i + 1 + Blocks(Strtol(a[i + 1]))
               IN  /\ end <= Len(a)
                   /\ \A k \in i + 1 .. end - 1 : a[k + 1].c = "data"
                   /\ Begins(a, end)

-----------------------------------------------------------------------------
(* sltar c.                                                                *)

Init ==
    /\ pc = "main"
    /\ argv = <<>> /\ argc = 0 /\ walk = <<>> /\ rest = <<>>
    /\ archive \in Given \cup {<<>>}
    /\ pos = 0 /\ fn = "x" /\ b = Zero /\ fname = Root /\ l = 0
    /\ f = 0 /\ dir = [p \in Paths |-> 0] /\ nodes = <<>>
    /\ listed = <<>>

\* main() with `c'.
MainC ==
    /\ pc = "main"
    /\ archive = <<>>
    /\ argv' \in ArgLists
    /\ argc' = Len(argv')
    /\ pc' = "c"
    /\ UNCHANGED <<walk, rest, archive, reading, files, listed>>

\* stat(): what a symbolic link leads to.
Follow(st) == IF st.type = "SYMLINK" /\ st.to \in DOMAIN Source THEN Source[st.to] ELSE st

\* The files of a directory of the source.
Within(p) == {q \in DOMAIN Source : Parent[q] = p}

\* What ftw() goes through, in some order with a directory before what it
\* contains; a directory contains no others here.
Walks(p) ==
    LET S == Within(p)
        n == Cardinality(S)
        orders == {s \in [1 .. n -> S] : \A i, j \in 1 .. n : s[i] = s[j] => i = j}
        entry(q) == [p |-> q, st |-> Follow(Source[q])]
    IN  {<<entry(p)>> \o [i \in 1 .. n |-> entry(s[i])] : s \in orders}

\* c(): main() takes its arguments from the last to the first.
C ==
    /\ pc = "c"
    /\ argc > 0 /\ argv[argc] \in DOMAIN Source
    /\ argc' = argc - 1
    /\ walk' \in IF Source[argv[argc]].type = "DIRECTORY" THEN Walks(argv[argc])
                 ELSE {<<[p |-> argv[argc], st |-> Source[argv[argc]]]>>}
    /\ pc' = "c_file"
    /\ UNCHANGED <<argv, rest, archive, reading, files, listed>>

\* There is no argument left, or no such file: the others are not archived.
CEnds ==
    /\ pc = "c"
    /\ argc > 0 => argv[argc] \notin DOMAIN Source
    /\ pc' = "archived"
    /\ UNCHANGED <<creating, archive, reading, files, listed>>

\* Fault: the size is left at zero.
HeaderWithoutSize(p, st) ==
    [c |-> "header", name |-> p, type |-> st.type, size |-> 0,
     terminated |-> st.type = "REG", mtime |-> st.mtime,
     link |-> IF st.type = "SYMLINK" THEN st.to ELSE Root,
     dev |-> IF st.type \in {"CHARDEV", "BLOCKDEV"} THEN st.dev ELSE 0,
     writable |-> st.writable]

\* The header that c_file() makes.  The device is the one the file is on.
HeaderOf(p, st) ==
    [c |-> "header", name |-> p, type |-> st.type,
     size |-> IF st.type = "REG" THEN st.size ELSE 0,
     terminated |-> st.type = "REG", mtime |-> st.mtime,
     link |-> IF st.type = "SYMLINK" THEN st.to ELSE Root,
     dev |-> IF st.type \in {"CHARDEV", "BLOCKDEV"} THEN st.dev ELSE 0,
     writable |-> st.writable]

\* c_file() up to the header, and opening the file.
CFile ==
    /\ pc = "c_file"
    /\ walk # <<>> /\ Head(walk).p \notin Nameless
    /\ LET w == Head(walk)
       IN  /\ archive' = Append(archive, HeaderOf(w.p, w.st))
           /\ rest' = IF w.st.type = "REG" /\ w.p \notin Unreadable
                      THEN w.st.data ELSE <<>>
    /\ walk' = Tail(walk)
    /\ pc' = "c_data"
    /\ UNCHANGED <<argv, argc, reading, files, listed>>

\* c_file() on a file whose owner or group has no name: getpwuid() or
\* getgrgid() gives NULL, and its name is read nevertheless.
CFileCrashes ==
    /\ pc = "c_file"
    /\ walk # <<>> /\ Head(walk).p \in Nameless
    /\ pc' = "crashed"
    /\ UNCHANGED <<creating, archive, reading, files, listed>>

\* One block of the file; the last one is padded.
CData ==
    /\ pc = "c_data"
    /\ rest # <<>>
    /\ archive' = Append(archive, [c |-> "data", id |-> Head(rest).id])
    /\ rest' = Tail(rest)
    /\ UNCHANGED <<pc, argv, argc, walk, reading, files, listed>>

CFileEnds ==
    /\ pc = "c_data" /\ rest = <<>>
    /\ pc' = IF walk = <<>> THEN "c" ELSE "c_file"
    /\ UNCHANGED <<creating, archive, reading, files, listed>>

-----------------------------------------------------------------------------
(* sltar x and sltar t.                                                    *)

\* main() with `x' or `t', on a given archive or on one just made.
MainXT ==
    /\ pc \in {"main", "archived"}
    /\ fn' \in {"x", "t"}
    /\ pc' = "tar"
    /\ UNCHANGED <<creating, archive, pos, b, fname, l, files, listed>>

\* main() with other arguments.
Usage ==
    /\ pc = "main"
    /\ pc' = "usage"
    /\ UNCHANGED <<creating, archive, reading, files, listed>>

\* tar() reads a header.  A block of data in its place would be taken for
\* one: where that leads is not followed.
TarHeader ==
    /\ pc = "tar"
    /\ pos < Len(archive)
    /\ archive[pos + 1].c = "header"
    /\ LET h == archive[pos + 1]
       IN  b' = h /\ fname' = h.name /\ l' = Strtol(h)
    /\ pos' = pos + 1
    /\ pc' = fn
    /\ UNCHANGED <<creating, archive, fn, files, listed>>

\* The input ends, or a zero block is read.
TarEnds ==
    /\ pc = "tar"
    /\ pos < Len(archive) => archive[pos + 1].c = "zero"
    /\ pc' = "done"
    /\ UNCHANGED <<creating, archive, reading, files, listed>>

TarLost ==
    /\ pc = "tar"
    /\ pos < Len(archive) /\ archive[pos + 1].c = "data"
    /\ pc' = "lost"
    /\ UNCHANGED <<creating, archive, reading, files, listed>>

IsDirectory(p) == p = Root \/ (dir[p] # 0 /\ nodes[dir[p]].type = "DIRECTORY")

\* Fault: an old file of the name is written over instead of removed.
UnlinkedNot(p) == dir

\* The names after unlink(), which does not remove directories.  A directory
\* whose mode forbids it to remove a file was made so, and is empty.
Unlinked(p) == IF IsDirectory(p) THEN dir ELSE [dir EXCEPT ![p] = 0]

\* A directory in which files can be made.
TakesFiles(p) == IsDirectory(p) /\ (p = Root \/ nodes[dir[p]].writable)

\* Whether link(), mkdir() and so on find the name free and may take it.
Creates(names, p) ==
    p \notin Unwritable /\ names[p] = 0 /\ TakesFiles(Parent[p])

NewNode(h) ==
    [type |-> h.type, data |-> <<>>, to |-> h.link, dev |-> 0, rdev |-> h.dev,
     size |-> 0, mtime |-> 0, writable |-> h.writable]

\* x() on a hard link.
XLink ==
    /\ pc = "x"
    /\ b.type = "HARDLINK"
    /\ LET names == Unlinked(fname)
           there == /\ b.link \in Paths
                    /\ names[b.link] # 0
                    /\ nodes[names[b.link]].type # "DIRECTORY"
       IN  dir' = IF there /\ Creates(names, fname)
                  THEN [names EXCEPT ![fname] = names[b.link]] ELSE names
    /\ f' = 0
    /\ pc' = "copy"
    /\ UNCHANGED <<creating, archive, reading, nodes, listed>>

\* fopen() with "w": an old file is emptied, where there is none one is made.
Fopen(names, p, node) ==
    IF Creates(names, p)
    THEN [f |-> Len(nodes) + 1, dir |-> [names EXCEPT ![p] = Len(nodes) + 1],
          nodes |-> Append(nodes, node)]
    ELSE IF names[p] # 0 /\ ~IsDirectory(p)
    THEN [f |-> names[p], dir |-> names,
          nodes |-> [nodes EXCEPT ![names[p]].data = <<>>]]
    ELSE [f |-> 0, dir |-> names, nodes |-> nodes]

\* x() on a regular file.
XReg ==
    /\ pc = "x"
    /\ b.type = "REG"
    /\ LET opened == Fopen(Unlinked(fname), fname, NewNode(b))
       IN  f' = opened.f /\ dir' = opened.dir /\ nodes' = opened.nodes
    /\ pc' = "copy"
    /\ UNCHANGED <<creating, archive, reading, listed>>

\* x() on a directory, a symbolic link, a device or a pipe.
XOther ==
    /\ pc = "x"
    /\ b.type \notin {"REG", "HARDLINK"}
    /\ LET names == Unlinked(fname)
       IN  IF Creates(names, fname)
           THEN /\ nodes' = Append(nodes, NewNode(b))
                /\ dir' = [names EXCEPT ![fname] = Len(nodes) + 1]
           ELSE /\ dir' = names
                /\ UNCHANGED nodes
    /\ f' = 0
    /\ pc' = "copy"
    /\ UNCHANGED <<creating, archive, reading, listed>>

\* t() prints the name.
T ==
    /\ pc = "t"
    /\ listed' = Append(listed, fname)
    /\ pc' = "copy"
    /\ UNCHANGED <<creating, archive, reading, files>>

\* Fault: the length of a piece is not limited to a block.
PieceUncut ==
    LET block == IF pos < Len(archive) THEN archive[pos + 1] ELSE b
    IN  [id |-> IF block.c = "data" THEN block.id ELSE 0, n |-> l]

\* Fault: whole blocks are written.
PieceWhole ==
    LET block == IF pos < Len(archive) THEN archive[pos + 1] ELSE b
    IN  [id |-> IF block.c = "data" THEN block.id ELSE 0, n |-> END]

\* The piece that fwrite puts in the file: after the end of the input b is
\* still the block before, and the header if there was none.
Piece ==
    LET block == IF pos < Len(archive) THEN archive[pos + 1] ELSE b
    IN  [id |-> IF block.c = "data" THEN block.id ELSE 0,
         n |-> IF l < END THEN l ELSE END]

\* fread() of one block, which at the end of the input leaves b as it is.
Fread ==
    /\ b' = IF pos < Len(archive) THEN archive[pos + 1] ELSE b
    /\ pos' = IF pos < Len(archive) THEN pos + 1 ELSE pos

\* Fault: what cannot be written is not read either.
CopyIfOpen ==
    /\ pc = "copy"
    /\ l > 0
    /\ IF f # 0 THEN Fread /\ nodes' = [nodes EXCEPT ![f].data = Append(@, Piece)]
       ELSE UNCHANGED <<b, pos, nodes>>
    /\ l' = l - END
    /\ UNCHANGED <<pc, creating, archive, fn, fname, f, dir, listed>>

\* Fault: the loop waits for as many blocks as the size says.
CopyWaits ==
    /\ pc = "copy"
    /\ l > 0
    /\ pos < Len(archive)
    /\ Fread
    /\ nodes' = IF f # 0 THEN [nodes EXCEPT ![f].data = Append(@, Piece)] ELSE nodes
    /\ l' = l - END
    /\ UNCHANGED <<pc, creating, archive, fn, fname, f, dir, listed>>

\* One round of the loops of x() and t().
Copy ==
    /\ pc = "copy"
    /\ l > 0
    /\ Fread
    /\ nodes' = IF f # 0 THEN [nodes EXCEPT ![f].data = Append(@, Piece)] ELSE nodes
    /\ l' = l - END
    /\ UNCHANGED <<pc, creating, archive, fn, fname, f, dir, listed>>

\* Fault: the last block of an entry is left unread.
CopyEndsEarly ==
    /\ pc = "copy"
    /\ l < END
    /\ f' = 0
    /\ pc' = "tar"
    /\ UNCHANGED <<creating, archive, reading, dir, nodes, listed>>

\* The end of the loops, and fclose().
CopyEnds ==
    /\ pc = "copy"
    /\ l <= 0
    /\ f' = 0
    /\ pc' = "tar"
    /\ UNCHANGED <<creating, archive, reading, dir, nodes, listed>>

Next ==
    \/ MainC \/ C \/ CEnds \/ CFile \/ CFileCrashes \/ CData \/ CFileEnds
    \/ MainXT \/ Usage \/ TarHeader \/ TarEnds \/ TarLost
    \/ XLink \/ XReg \/ XOther \/ T \/ Copy \/ CopyEnds

\* The program runs on its own: it takes the step it is at.
Spec == Init /\ [][Next]_vars /\ WF_vars(Next)

-----------------------------------------------------------------------------
(* Properties.                                                             *)

\* The variables have their types: read positions stay in the archive, names
\* lead to nodes that exist and no piece of a file is longer than a block
\* (the buffers and the MIN of x()).
TypeOK ==
    /\ pc \in {"main", "c", "c_file", "c_data", "archived", "tar", "x", "t", "copy",
               "done", "lost", "crashed", "usage"}
    /\ argv \in Seq(Paths) /\ argc \in 0 .. Len(argv)
    /\ walk \in Seq([p: Paths, st: Node]) /\ rest \in Seq(PieceOfData)
    /\ archive \in Seq(Block) /\ pos \in 0 .. Len(archive)
    /\ fn \in {"x", "t"} /\ b \in Block /\ fname \in Paths \cup {Root} /\ l \in Int
    /\ f \in 0 .. Len(nodes) /\ dir \in [Paths -> 0 .. Len(nodes)]
    /\ nodes \in Seq(Node) /\ listed \in Seq(Paths)
    /\ pc \in {"x", "t", "copy"} => fname \in Paths
    /\ pc \in {"x", "t"} => b.c = "header"

\* In a well-formed archive tar() always finds the next entry where it looks
\* for it, whatever became of the entries before: x() and t() read all blocks
\* of an entry, also of one that cannot be written.
Aligned ==
    WellFormed(archive) =>
        /\ pc # "lost"
        /\ pc = "tar" => Begins(archive, pos)

\* Extracting an entry changes nothing under any other name, also where the
\* old file of this name has further links: x() unlinks before it writes.
OthersKept ==
    [][\A p \in Paths : p # fname /\ dir[p] # 0 =>
           dir'[p] = dir[p] /\ nodes'[dir[p]] = nodes[dir[p]]]_vars

\* tar() has gone through its input, or is lost in it.
Over == pc \in {"done", "lost"}

\* Headers that tar() reads: the ones before the first zero block.
ReadHeaders(a) ==
    {i \in 1 .. Len(a) : a[i].c = "header" /\ \A k \in 1 .. i : a[k].c # "zero"}

\* The contents that an archive gives to the entry at i.
DataAt(a, i) ==
    [k \in 1 .. Blocks(a[i].size) |->
        [id |-> a[i + k].id,
         n |-> IF k = Blocks(a[i].size) THEN a[i].size - (k - 1) * END ELSE END]]

\* After sltar x of a well-formed archive every name has what its last entry
\* says, or is the directory that an earlier entry made, and nothing of an
\* older file is left under it; it is missing only if it could not be made.
Extracted ==
    Over /\ fn = "x" /\ WellFormed(archive) =>
        \A i \in ReadHeaders(archive) :
            LET h == archive[i]
                p == h.name
            IN  (/\ h.type # "HARDLINK"
                 /\ \A j \in ReadHeaders(archive) : j > i => archive[j].name # p) =>
                    /\ dir[p] # 0 /\ ~IsDirectory(p) =>
                           /\ nodes[dir[p]].type = h.type
                           /\ h.type = "REG" => nodes[dir[p]].data = DataAt(archive, i)
                    /\ Parent[p] = Root /\ p \notin Unwritable => dir[p] # 0

\* sltar t prints the name of every entry of a well-formed archive, in order.
ListedAll ==
    Over /\ fn = "t" /\ WellFormed(archive) =>
        LET H == ReadHeaders(archive)
        IN  /\ Len(listed) = Cardinality(H)
            /\ \A i \in H : listed[Cardinality({k \in H : k <= i})] = archive[i].name

\* The files that sltar c goes through for its arguments.
Asked == LET S == {argv[i] : i \in 1 .. Len(argv)} IN S \cup UNION {Within(p) : p \in S}

\* The files can be read, do not change meanwhile, can be made and are in
\* directories that are archived too and whose modes let files be made.
Regular(S) ==
    \A p \in S :
        /\ p \in DOMAIN Source
        /\ p \notin Unreadable \cup Unwritable
        /\ Parent[p] \in S \cup {Root}
        /\ Blocks(Source[p].size) = Len(Source[p].data)
        /\ Source[p].type = "DIRECTORY" => Source[p].writable

\* sltar x makes of an archive of sltar c the files it was made of.
RoundTrip ==
    Over /\ fn = "x" /\ argc = 0 /\ Regular(Asked) =>
        \A p \in Asked :
            /\ dir[p] # 0
            /\ nodes[dir[p]].type = Source[p].type
            /\ nodes[dir[p]].data = Source[p].data
            /\ nodes[dir[p]].to = Source[p].to
            /\ nodes[dir[p]].rdev = Source[p].rdev

\* The program comes to an end on every input, also on an archive that is cut
\* off in the middle of an entry.
Ends == <>(pc \in {"done", "lost", "crashed", "usage"})

=============================================================================
