----------------------------- MODULE MCPatchElf -----------------------------
(***************************************************************************)
(* Small instances of PatchElf: a page has eight cells and a structure     *)
(* takes two.  The files are laid out here the way a linker does it, and   *)
(* differ in what patchelf treats differently.                             *)
(***************************************************************************)
EXTENDS PatchElf

CONSTANTS Kinds     \* the names of the files and options of a run

-----------------------------------------------------------------------------
(* A linker.  d describes a file: its type and byte order, the address of  *)
(* its first cell, whether it has an interpreter, the strings of its       *)
(* dynamic section, the size of .bss, whether the section headers come     *)
(* first, the alignment of its segments, and how many cells its end lacks. *)

Plain == [type |-> "ET_DYN", data |-> "ELFDATA2LSB", base |-> 0,
          interp |-> FALSE, needed |-> <<<<"a">>, <<"b">>>>, soname |-> None,
          rpath |-> None, runpath |-> None, flags |-> -1, bss |-> 0,
          early |-> FALSE, align |-> 8, cut |-> 0]

\* The strings of .dynstr, each of them once.
Strings(d) ==
    SelectSeq(d.needed, LAMBDA s : TRUE)
        \o SelectSeq(<<d.soname, d.rpath>>, LAMBDA s : s # None)
        \o (IF d.runpath \in {None, d.rpath} THEN <<>> ELSE <<d.runpath>>)

StrTab(d) == <<Zero>> \o FlattenSeq([i \in DOMAIN Strings(d) |-> CString(Strings(d)[i])])

Offset(d, s) ==
    LET k == CHOOSE i \in DOMAIN Strings(d) : Strings(d)[i] = s
    IN  1 + FoldLeft(LAMBDA sum, t : sum + Len(t) + 1, 0, SubSeq(Strings(d), 1, k - 1))

Entry(d, tag, s) == IF s = None THEN <<>> ELSE <<Dyn(tag, Offset(d, s))>>

\* The entries, given the addresses of the sections.
Dynamic(d, Addr(_)) ==
    [i \in DOMAIN d.needed |-> Dyn("DT_NEEDED", Offset(d, d.needed[i]))]
        \o Entry(d, "DT_SONAME", d.soname) \o Entry(d, "DT_RPATH", d.rpath)
        \o Entry(d, "DT_RUNPATH", d.runpath)
        \o <<Dyn("DT_HASH", Addr(".hash")), Dyn("DT_STRTAB", Addr(".dynstr")),
             Dyn("DT_SYMTAB", Addr(".dynsym")), Dyn("DT_STRSZ", Len(StrTab(d))),
             Dyn("DT_JMPREL", Addr(".rela.plt"))>>
        \o (IF d.flags = -1 THEN <<>> ELSE <<Dyn("DT_FLAGS_1", d.flags)>>)
        \o <<Dyn("DT_NULL", 0)>>

Sym(shndx, value, type) ==
    [c |-> "sym", st_shndx |-> shndx, st_value |-> value, st_type |-> type]

Sect(n, t, seg, cells) == [n |-> n, t |-> t, seg |-> seg, cells |-> cells]

\* The sections in their order, the contents of those with addresses in them
\* being put in later.
Sections(d) ==
    (IF d.interp THEN <<Sect(".interp", "SHT_PROGBITS", "text", CString(<<"/", "i">>))>>
     ELSE <<>>)
    \o <<Sect(".hash", "SHT_other", "text", Struct(Char("hash"))),
         Sect(".dynsym", "SHT_DYNSYM", "text", Zeros(2 * Word)),
         Sect(".dynstr", "SHT_other", "text", StrTab(d)),
         Sect(".rela.plt", "SHT_RELA", "text", Struct(Char("rela"))),
         Sect(".text", "SHT_PROGBITS", "text", Struct(Char("code"))),
         Sect(".dynamic", "SHT_other", "data",
              Zeros(Word * Len(Dynamic(d, LAMBDA n : 0))))>>
    \o (IF d.bss > 0 THEN <<Sect(".bss", "SHT_NOBITS", "data", <<>>)>> ELSE <<>>)
    \o <<Sect(".shstrtab", "SHT_other", "none", <<Zero>>),
         Sect(".symtab", "SHT_SYMTAB", "none", Zeros(3 * Word))>>

\* Where the tables are, and the first section.
TableSize(n) == (n + 1) * Word
PhdrCount(d) == IF d.interp THEN 5 ELSE 3
PhdrsEnd(d) == Word + PhdrCount(d) * Word

\* The sections with their offsets, addresses and sizes in memory.
Placed(d, first) ==
    FoldLeft(LAMBDA acc, s :
        LET addr == CASE s.seg = "text" -> d.base + acc.end
                      [] s.seg = "data" -> d.base + d.align + acc.end
                      [] s.seg = "none" -> 0
            size == IF s.n = ".bss" THEN d.bss ELSE Len(s.cells)
        IN  [end |-> acc.end + roundUp(Len(s.cells), Word),
             S |-> Append(acc.S, [off |-> acc.end, addr |-> addr, size |-> size] @@ s)],
        [end |-> first, S |-> <<>>], Sections(d))

Index(S, name) == CHOOSE i \in DOMAIN S : S[i].n = name

SectionHeader(S, s) ==
    [c |-> "shdr", sh_name |-> s.n, sh_type |-> s.t, sh_addr |-> s.addr,
     sh_offset |-> s.off, sh_size |-> s.size,
     sh_link |-> CASE s.n \in {".dynsym", ".dynamic"} -> Index(S, ".dynstr")
                   [] s.n \in {".hash", ".rela.plt"} -> Index(S, ".dynsym")
                   [] OTHER -> 0,
     sh_info |-> IF s.t = "SHT_RELA" THEN Index(S, ".text") ELSE 0]

Segment(d, type, off, addr, fsize, msize) ==
    [c |-> "phdr", p_type |-> type, p_offset |-> off, p_vaddr |-> addr,
     p_paddr |-> addr, p_filesz |-> fsize, p_memsz |-> msize,
     p_align |-> IF type = "PT_LOAD" THEN d.align ELSE Word]

\* The program headers, given the first section and .dynamic.
ProgramHeaders(d, front, dyn) ==
    (IF d.interp
     THEN <<Segment(d, "PT_PHDR", Word, d.base + Word, PhdrCount(d) * Word,
                    PhdrCount(d) * Word),
            Segment(d, "PT_INTERP", front.off, front.addr, front.size, front.size)>>
     ELSE <<>>)
    \o <<Segment(d, "PT_LOAD", 0, d.base, dyn.off, dyn.off),
         Segment(d, "PT_LOAD", dyn.off, dyn.addr, dyn.size, dyn.size + d.bss),
         Segment(d, "PT_DYNAMIC", dyn.off, dyn.addr, dyn.size, dyn.size)>>

FileHeader(d, S, shoff) ==
    [c |-> "ehdr", ei_data |-> d.data, e_type |-> d.type,
     e_entry |-> S[Index(S, ".text")].addr, e_phoff |-> Word,
     e_phnum |-> PhdrCount(d), e_shoff |-> shoff, e_shnum |-> Len(S) + 1,
     e_shstrndx |-> Index(S, ".shstrtab")]

Structs(s) == FlattenSeq([k \in DOMAIN s |-> Struct(s[k])])

\* What a section holds, its addresses included.
Filled(d, S, s) ==
    LET addr(name) == S[Index(S, name)].addr
        sym(name, type) == Sym(Index(S, name), addr(name), type)
    IN  CASE s.n = ".dynamic" -> Structs(Dynamic(d, addr))
          [] s.n = ".dynsym" -> Zeros(Word) \o Struct(sym(".text", "STT_other"))
          [] s.n = ".symtab" -> Structs(<<Sym(LoReserve + 1, 7, "STT_other"),
                                          sym(".dynstr", "STT_SECTION"),
                                          sym(".dynamic", "STT_other")>>)
          [] OTHER -> s.cells

\* The parts of a file, each at its offset.
Assembled(size, parts) ==
    FoldLeft(LAMBDA f, p : Overwrite(f, p.at, p.cells), Zeros(size), parts)

Part(at, cells) == [at |-> at, cells |-> cells]

FileOf(d, S, shoff, size) ==
    Assembled(size,
        <<Part(0, Struct(FileHeader(d, S, shoff))),
          Part(Word, Structs(ProgramHeaders(d, S[1], S[Index(S, ".dynamic")]))),
          Part(shoff + Word, Structs([i \in DOMAIN S |-> SectionHeader(S, S[i])]))>>
        \o [i \in DOMAIN S |-> Part(S[i].off, Filled(d, S, S[i]))])

\* The section headers come behind the program headers or at the end.
LinkFrom(d, placed, early) ==
    FileOf(d, placed.S, IF early THEN PhdrsEnd(d) ELSE placed.end,
           placed.end + (IF early THEN 0 ELSE TableSize(Len(placed.S))))

Link(d) ==
    LinkFrom(d, Placed(d, PhdrsEnd(d) + (IF d.early THEN TableSize(Len(Sections(d)))
                                         ELSE 0)), d.early)

-----------------------------------------------------------------------------
(* The files.                                                              *)

Program == [Plain EXCEPT !.type = "ET_EXEC", !.base = 96, !.interp = TRUE]

D1 == <<"/", "d">>
D2 == <<"/", "d", ":", "/", "e">>
D3 == <<"/", "f", ":", "r", ":", "/", "d">>

Opt(o, v) == [o |-> o, v |-> v, w |-> <<>>]

SetInterp == Opt("set-interpreter", <<"/", "j", "j">>)
SetName == Opt("set-soname", <<"s", "t">>)
SetPaths == {Opt("set-rpath", D1), Opt("set-rpath", D3)}
Paths == SetPaths \cup {Opt("remove-rpath", <<>>), Opt("shrink-rpath", <<>>)}
Add(v) == Opt("add-needed", v)
Drop(v) == Opt("remove-needed", v)
Rename(v, w) == [o |-> "replace-needed", v |-> v, w |-> w]
Flag == Opt("no-default-lib", <<>>)
Force == Opt("force-rpath", <<>>)
Page == Opt("page-size", <<>>)
PrintArgs == {Opt(o, <<>>) : o \in DOMAIN Prints}

Case(d, args, most) == [d |-> d, args |-> args, most |-> most]

CaseOf == [
    \* A program, laid out by the usual linkers.
    exec |-> Case([Program EXCEPT !.rpath = D2],
                  Paths \cup {SetInterp, SetName, Add(<<"c", "c">>), Drop(<<"a">>),
                              Drop(<<"n">>), Rename(<<"b">>, <<"b", "2">>), Flag}, 1),
    \* One with its section headers in front, and one with wider alignment.
    early |-> Case([Program EXCEPT !.early = TRUE, !.bss = 3],
                   {SetInterp, Add(<<"c">>), Add(<<"d", "d">>)}, 2),
    wide |-> Case([Program EXCEPT !.align = 16, !.flags = 1],
                  {SetInterp, Page, Flag}, 2),
    \* A library, and one of the other byte order.
    lib |-> Case([Plain EXCEPT !.soname = <<"s">>, !.runpath = D2],
                 Paths \cup {SetName, Add(<<"c", "c">>), Drop(<<"b">>), Flag}, 1),
    big |-> Case([Plain EXCEPT !.data = "ELFDATA2MSB", !.runpath = D1],
                 Paths \cup {SetName, Add(<<"c">>), Rename(<<"b">>, <<"b", "2">>)}, 1),
    \* A program that is a library, with a large .bss.
    pie |-> Case([Plain EXCEPT !.interp = TRUE, !.bss = 40],
                 SetPaths \cup {SetInterp, SetName}, 1),
    \* Both tags, with one string or with two.
    shared |-> Case([Plain EXCEPT !.rpath = D2, !.runpath = D2],
                    Paths \cup {Force}, 2),
    both |-> Case([Plain EXCEPT !.rpath = D1, !.runpath = D3], PrintArgs, 2),
    forced |-> Case([Plain EXCEPT !.rpath = D2, !.runpath = D3],
                    SetPaths \cup {Force}, 2),
    \* Printing, alone and with an option that changes something.
    print |-> Case([Program EXCEPT !.rpath = D2, !.soname = <<"s">>],
                   PrintArgs \cup {Drop(<<"a">>)}, 2),
    \* Files that patchelf does not take.
    cut |-> Case([Program EXCEPT !.cut = 3], SetPaths, 1),
    object |-> Case([Plain EXCEPT !.type = "ET_REL"], SetPaths, 1)]

\* The file of a case, without the end that it lacks.
Cut(file, n) == SubSeq(file, 1, Len(file) - n)

MCCases ==
    [k \in Kinds |-> [file |-> Cut(Link(CaseOf[k].d), CaseOf[k].d.cut),
                      args |-> CaseOf[k].args, most |-> CaseOf[k].most]]

\* The letters of the names, and what the code and the tables consist of.
MCAlphabet == {"/", "a", "b", "c", "d", "e", "f", "i", "j", "n", "r", "s", "t", "2",
               "hash", "rela", "code"}

MCProvides == {<<D1, <<"a">>>>, <<<<"/", "f">>, <<"a">>>>, <<<<"/", "e">>, <<"b">>>>}

=============================================================================
