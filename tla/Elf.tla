-------------------------------- MODULE Elf --------------------------------
(***************************************************************************)
(* Object files as patchelf and the dynamic loader read them               *)
(* (bitcoin-core/patchelf-0.9/src/elf.h).                                  *)
(*                                                                         *)
(* A file is a sequence of cells, offset 0 being its first element.  A     *)
(* character takes a cell, and every structure (file header, program       *)
(* header, section header, dynamic entry, symbol) one word of Word cells:  *)
(* a cell that holds the structure and padding.  In this way a copy that   *)
(* is one cell too long, or lands on the wrong offset, destroys what it    *)
(* destroys in the real file.  The 32 and 64 bit variants of a structure   *)
(* differ in the width of their fields only and are one record here, with  *)
(* the fields that some code reads or writes.                              *)
(***************************************************************************)
EXTENDS Integers, FiniteSets, FiniteSetsExt, SequencesExt

CONSTANTS
    Word,           \* size of a structure and alignment of sections
    LoReserve,      \* SHN_LORESERVE: symbols at or above refer to no section
    Alphabet        \* the characters of the strings in a file

\* What tells a structure from a character.
StructKind == {"ehdr", "phdr", "shdr", "dyn", "sym"}

ASSUME ElfAssumption == /\ Word \in Nat \ {0}
                        /\ LoReserve \in Nat \ {0}
                        /\ Alphabet \cap StructKind = {}

-----------------------------------------------------------------------------
(* Structures.                                                             *)

\* e_type; what is neither a program nor a library is "ET_REL".
ObjectType == {"ET_REL", "ET_EXEC", "ET_DYN"}

Elf_Ehdr == [c: {"ehdr"}, ei_data: {"ELFDATA2LSB", "ELFDATA2MSB"},
             e_type: ObjectType, e_entry: Nat, e_phoff: Nat, e_phnum: Nat,
             e_shoff: Nat, e_shnum: Nat, e_shstrndx: Nat]

\* The values of sh_type that the code compares with, that of a section
\* without contents, and one for the rest.
SectionType == {"SHT_NULL", "SHT_PROGBITS", "SHT_SYMTAB", "SHT_DYNSYM",
                "SHT_NOBITS", "SHT_REL", "SHT_RELA", "SHT_other"}

\* sh_name is the name itself, not its offset in .shstrtab.
\* The names of sections, in the order of std::map, but for that of entry 0.
SectionNames == <<".bss", ".data", ".dynamic", ".dynstr", ".dynsym", ".gnu.hash",
                  ".hash", ".interp", ".note", ".rela.plt", ".shstrtab",
                  ".symtab", ".text">>

SectionName == ToSet(SectionNames) \cup {""}

Elf_Shdr == [c: {"shdr"}, sh_name: SectionName, sh_type: SectionType, sh_addr: Nat,
             sh_offset: Nat, sh_size: Nat, sh_link: Nat, sh_info: Nat]

\* The values of p_type that the code compares with, and one for the rest.
SegmentType == {"PT_LOAD", "PT_DYNAMIC", "PT_INTERP", "PT_PHDR", "PT_other"}

Elf_Phdr == [c: {"phdr"}, p_type: SegmentType, p_offset: Nat, p_vaddr: Nat,
             p_paddr: Nat, p_filesz: Nat, p_memsz: Nat, p_align: Nat]

\* The tags that the code compares with, and one for the rest.
DynTag == {"DT_NULL", "DT_NEEDED", "DT_HASH", "DT_STRTAB", "DT_STRSZ",
           "DT_SYMTAB", "DT_GNU_HASH", "DT_JMPREL", "DT_REL", "DT_RELA",
           "DT_VERNEED", "DT_VERSYM", "DT_SONAME", "DT_RPATH", "DT_RUNPATH",
           "DT_FLAGS_1", "DT_INIT", "DT_IGNORE", "DT_other"}

Elf_Dyn == [c: {"dyn"}, d_tag: DynTag, d_val: Nat]

\* st_info gives the symbol's type, of which one matters.
Elf_Sym == [c: {"sym"}, st_shndx: Nat, st_value: Nat,
            st_type: {"STT_SECTION", "STT_other"}]

-----------------------------------------------------------------------------
(* Cells.                                                                  *)

Char(x) == [c |-> x]
Zero == Char("0")                          \* a byte 0, and a NUL character
Pad == Char("pad")                         \* what follows in a structure
Nothing == Char("nothing")                 \* read outside of the file

\* Beside the characters of the alphabet: what separates directories, what
\* patchelf puts in place of a string, and what is read where no string is.
Character == Alphabet \cup {":", "X", "0", "pad", "nothing", "byte"}

Cell == Elf_Ehdr \cup Elf_Phdr \cup Elf_Shdr \cup Elf_Dyn \cup Elf_Sym
            \cup {Char(x) : x \in Character}

Zeros(n) == [i \in 1 .. n |-> Zero]

Chars(s) == [i \in DOMAIN s |-> Char(s[i])]

\* A string in the file, with the NUL at its end.
CString(s) == Append(Chars(s), Zero)

Struct(r) == [i \in 1 .. Word |-> IF i = 1 THEN r ELSE Pad]

-----------------------------------------------------------------------------
(* Reading and writing at an offset of a sequence of cells.                *)

At(f, o) == IF o \in 0 .. Len(f) - 1 THEN f[o + 1] ELSE Nothing

Slice(f, o, n) == [i \in 1 .. n |-> At(f, o + i - 1)]

\* A sequence as it is: TLC evaluates all of it at once.
Evaluated(f) == SubSeq(f, 1, Len(f))

\* What a memcpy of s to offset o leaves of the file: nothing grows.
Overwrite(f, o, s) ==
    Evaluated([i \in DOMAIN f |-> IF i - o \in DOMAIN s THEN s[i - o] ELSE f[i]])

Fill(f, o, n, cell) ==
    Evaluated([i \in DOMAIN f |-> IF i - o \in 1 .. n THEN cell ELSE f[i]])

\* A cell read as a character.
Letter(cell) == IF cell.c \in StructKind THEN "byte" ELSE cell.c

\* The characters from position p of a reader up to the first NUL.
StringBy(Read(_), p, limit) ==
    LET ends == {k \in 0 .. limit : Read(p + k) = Zero}
    IN  IF ends = {} THEN <<"nothing">>
        ELSE [i \in 1 .. Min(ends) |-> Letter(Read(p + i - 1))]

StringAt(f, o) == StringBy(LAMBDA a : At(f, a), o, Len(f))

Null(kind) ==
    CASE kind = "phdr" -> [c |-> "phdr", p_type |-> "PT_other", p_offset |-> 0,
                           p_vaddr |-> 0, p_paddr |-> 0, p_filesz |-> 0,
                           p_memsz |-> 0, p_align |-> 0]
      [] kind = "shdr" -> [c |-> "shdr", sh_name |-> "", sh_type |-> "SHT_NULL",
                           sh_addr |-> 0, sh_offset |-> 0, sh_size |-> 0,
                           sh_link |-> 0, sh_info |-> 0]
      [] kind = "dyn"  -> [c |-> "dyn", d_tag |-> "DT_NULL", d_val |-> 0]
      [] kind = "sym"  -> [c |-> "sym", st_shndx |-> 0, st_value |-> 0,
                           st_type |-> "STT_other"]

\* A structure at position p of a reader: whole, all zero, or destroyed.
Destroyed(kind) ==
    IF kind = "dyn" THEN [Null(kind) EXCEPT !.d_tag = "DT_other"] ELSE Null(kind)

StructBy(Read(_), p, kind) ==
    IF Read(p).c = kind /\ \A i \in 1 .. Word - 1 : Read(p + i) = Pad
    THEN Read(p)
    ELSE IF \A i \in 0 .. Word - 1 : Read(p + i) = Zero
         THEN Null(kind)
         ELSE Destroyed(kind)

StructAt(f, o, kind) == StructBy(LAMBDA a : At(f, a), o, kind)

\* The entries from position p of a reader up to the first DT_NULL.
EntriesBy(Read(_), p, limit) ==
    LET entry(k) == StructBy(Read, p + k * Word, "dyn")
        ends == {k \in 0 .. limit : entry(k).d_tag = "DT_NULL"}
    IN  IF ends = {} THEN <<>> ELSE [i \in 1 .. Min(ends) |-> entry(i - 1)]

EntriesAt(f, o) == EntriesBy(LAMBDA a : At(f, a), o, Len(f) \div Word)

Phdrs(f, h) ==
    [i \in 1 .. h.e_phnum |-> StructAt(f, h.e_phoff + (i - 1) * Word, "phdr")]

Shdrs(f, h) ==
    [i \in 0 .. h.e_shnum - 1 |-> StructAt(f, h.e_shoff + i * Word, "shdr")]

-----------------------------------------------------------------------------
(* What the kernel and the dynamic loader make of a file.  They look at    *)
(* the file header and at segments, never at sections.  External.          *)

Segments(f, type) ==
    {p \in ToSet(Phdrs(f, f[1])) : p.p_type = type}

\* The cell at an address, given the segments that are mapped.
Mapped(f, loads, a) ==
    LET covers == {p \in loads : a \in p.p_vaddr .. p.p_vaddr + p.p_memsz - 1}
        p == CHOOSE q \in covers : TRUE
    IN  IF covers = {} THEN Nothing
        ELSE IF a - p.p_vaddr < p.p_filesz
             THEN At(f, p.p_offset + (a - p.p_vaddr))
             ELSE Zero

Memory(f, a) == Mapped(f, Segments(f, "PT_LOAD"), a)

\* The entries of the dynamic segment, in memory.
LoadedEntries(f, loads) ==
    LET S == Segments(f, "PT_DYNAMIC")
    IN  IF S = {} THEN <<>>
        ELSE LET p == CHOOSE q \in S : TRUE
             IN  EntriesBy(LAMBDA a : Mapped(f, loads, a), p.p_vaddr, Len(f) \div Word)

\* SelectSeq as a fold.
Selected(s, Keep(_)) ==
    FoldLeft(LAMBDA kept, x : IF Keep(x) THEN Append(kept, x) ELSE kept, <<>>, s)

Tagged(entries, tag) == Selected(entries, LAMBDA d : d.d_tag = tag)

\* The value of the last entry with a tag, the one that counts; -1 for none.
ValueOf(entries, tag) ==
    LET s == Tagged(entries, tag)
    IN  IF s = <<>> THEN -1 ELSE s[Len(s)].d_val

None == <<"none">>                         \* no such string in the file

\* The string of an entry, found in memory by way of DT_STRTAB.
LoadedString(f, loads, entries, val) ==
    IF val = -1 THEN None
    ELSE StringBy(LAMBDA a : Mapped(f, loads, a),
                  ValueOf(entries, "DT_STRTAB") + val, Len(f))

NoDefLib == 8                              \* the bit DF_1_NODEFLIB

HasBit(v, bit) == (v \div bit) % 2 = 1

\* DT_RPATH is ignored if there is a DT_RUNPATH.
LoaderView(f) ==
    LET loads == Segments(f, "PT_LOAD")
        d == LoadedEntries(f, loads)
        string(val) == LoadedString(f, loads, d, val)
        interp == Segments(f, "PT_INTERP")
        names == Tagged(d, "DT_NEEDED")
        runpath == ValueOf(d, "DT_RUNPATH")
    IN  [type     |-> f[1].e_type,
         interp   |-> IF interp = {} THEN None
                      ELSE StringAt(f, (CHOOSE p \in interp : TRUE).p_offset),
         needed   |-> [i \in DOMAIN names |-> string(names[i].d_val)],
         soname   |-> string(ValueOf(d, "DT_SONAME")),
         search   |-> string(IF runpath # -1 THEN runpath ELSE ValueOf(d, "DT_RPATH")),
         nodeflib |-> LET flags == ValueOf(d, "DT_FLAGS_1")
                      IN  flags # -1 /\ HasBit(flags, NoDefLib),
         \* What no option asks to change: the code, and what the other
         \* pointers of the dynamic segment lead to.
         entry    |-> Mapped(f, loads, f[1].e_entry),
         pointees |-> [t \in {"DT_HASH", "DT_SYMTAB", "DT_JMPREL"} |->
                           Mapped(f, loads, ValueOf(d, t)).c]]

\* The view of a file that was not written as a whole.
Lost == [type |-> "lost"]

=============================================================================
