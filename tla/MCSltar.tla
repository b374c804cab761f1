------------------------------ MODULE MCSltar ------------------------------
(***************************************************************************)
(* sltar on a small tree and on all archives of up to three entries.       *)
(***************************************************************************)
EXTENDS Sltar, SequencesExt

CONSTANT DirTime    \* the time of what is no regular file in the tree

MCPaths == {"a", "b", "d", "d/f", "s", "w", "log", "shut", "n"}

MCParent == [p \in MCPaths |-> IF p = "d/f" THEN "d" ELSE "."]

File(data, size) ==
    [type |-> "REG", data |-> data, to |-> ".", dev |-> 1, rdev |-> 0, size |-> size,
     mtime |-> 600, writable |-> TRUE]

Other(type, to) ==
    [type |-> type, data |-> <<>>, to |-> to, dev |-> 1, rdev |-> 0, size |-> 0,
     mtime |-> DirTime, writable |-> TRUE]

\* An empty file, files that end with a block and one byte later, a file
\* that grows after stat(), one that cannot be read and one whose owner
\* has no name.
MCSource ==
    [a |-> File(<<[id |-> 1, n |-> 512], [id |-> 2, n |-> 1]>>, 513),
     b |-> File(<<>>, 0),
     d |-> Other("DIRECTORY", "."),
     s |-> Other("SYMLINK", "a"),
     log |-> File(<<[id |-> 3, n |-> 512], [id |-> 4, n |-> 7]>>, 512),
     shut |-> File(<<[id |-> 5, n |-> 9]>>, 9), n |-> File(<<>>, 0)]
    @@ ("d/f" :> File(<<[id |-> 6, n |-> 512]>>, 512))

MCArgLists ==
    {<<"a">>, <<"b", "a">>, <<"d">>, <<"d", "d/f">>, <<"a", "s", "d">>, <<"d/f">>,
     <<"b", "w", "a">>, <<"a", "log">>, <<"a", "shut">>, <<"b", "shut">>, <<"n", "b">>}

Entry(name, type, size, link, ids) ==
    <<[c |-> "header", name |-> name, type |-> type, size |-> size,
       terminated |-> TRUE, mtime |-> 0, link |-> link, dev |-> 5, writable |-> TRUE]>>
    \o [i \in 1 .. Len(ids) |-> [c |-> "data", id |-> ids[i]]]

\* A directory whose mode lets no file be made in it.
ReadOnly == <<[Entry("d", "DIRECTORY", 0, ".", <<>>)[1] EXCEPT !.writable = FALSE]>>

Entries ==
    {Entry("a", "REG", 513, ".", <<1, 2>>), Entry("a", "REG", 1, ".", <<3>>),
     Entry("b", "HARDLINK", 0, "a", <<>>), Entry("b", "REG", 512, ".", <<4>>),
     Entry("d", "DIRECTORY", 0, ".", <<>>), Entry("d/f", "REG", 1, ".", <<5>>),
     Entry("d", "SYMLINK", 0, "a", <<>>), Entry("a", "CHARDEV", 0, ".", <<>>),
     Entry("w", "REG", 1024, ".", <<6, 7>>), Entry("b", "HARDLINK", 0, "d", <<>>),
     ReadOnly}

Archives == {FlattenSeq(es) : es \in UNION {[1 .. n -> Entries] : n \in 1 .. 3}}

\* Also with an end that other programs write, and cut off in an entry.
MCGiven ==
    Archives \cup {a \o <<Zero, Zero>> : a \in Archives}
    \cup {Entry("a", "REG", 1025, ".", <<1>>), Entry("a", "REG", 9, ".", <<>>)}

=============================================================================
