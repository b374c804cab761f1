------------------------------ MODULE ElfFile ------------------------------
(***************************************************************************)
(* The class ElfFile of patchelf (bitcoin-core/patchelf-0.9/src/           *)
(* patchelf.cc): reading a file, replacing sections, and laying the file   *)
(* out again when a replaced section does not fit in its old place.        *)
(*                                                                         *)
(* The methods work on one object, a record e here:                        *)
(*   contents   the file, a sequence of cells                              *)
(*   hdr        the file header, the first structure of contents           *)
(*   phdrs      the program headers, a sequence                            *)
(*   shdrs      the section headers, indexed from 0 as in the code         *)
(*   rep        replacedSections, from section names to their new contents *)
(*   old        sectionsByOldIndex and its length oldSize                  *)
(*   isExec, changed, page (the page size), max (of the file's size)       *)
(*   ties       how sort() leaves sections of equal offset: "kept" or      *)
(*              "swapped" (std::sort is not stable)                        *)
(*   err        "" or how the program ended: "error" for error(), "abort"  *)
(*              for an assertion that fails, "undefined"                   *)
(* An object with an error goes no further: see Do in PatchElf.            *)
(***************************************************************************)
EXTENDS Elf

CONSTANTS
    UIntRange,      \* 2^32: what an unsigned int of roundUp can hold
    MaxGrowth       \* 32 MB: how much a file may grow

ASSUME ElfFileAssumption == /\ UIntRange \in Nat \ {0}
                            /\ MaxGrowth \in Nat

XX == Char("X")

Fail(e, how) == [e EXCEPT !.err = IF @ = "" THEN how ELSE @]

Require(e, cond) == IF cond THEN e ELSE Fail(e, "abort")

\* An integer of the file read without rdi(), or written without wri(), on
\* a machine of the other byte order.  An integer has two digits of base 16.
Swapped(n) == (n % 16) * 16 + n \div 16

Foreign(e) == e.hdr.ei_data # "ELFDATA2LSB"

Raw(e, n) == IF Foreign(e) THEN Swapped(n) ELSE n

roundUp(n, m) == ((((n - 1) % UIntRange) \div m + 1) * m) % UIntRange

growFile(e, newSize) ==
    IF newSize > e.max THEN Fail(e, "error")
    ELSE IF newSize <= Len(e.contents) THEN e
    ELSE [e EXCEPT !.contents = @ \o Zeros(newSize - Len(@))]

-----------------------------------------------------------------------------
(* Sections by name.                                                       *)

findSection3(e, name) ==
    LET found == {i \in 1 .. e.hdr.e_shnum - 1 : e.shdrs[i].sh_name = name}
    IN  IF found = {} THEN 0 ELSE Min(found)

Section(e, name) == e.shdrs[findSection3(e, name)]

\* findSection: ends the program if a section is missing.
Find(e, names) ==
    IF \A n \in names : findSection3(e, n) # 0 THEN e ELSE Fail(e, "error")

Resize(s, n) == IF n <= Len(s) THEN SubSeq(s, 1, n) ELSE s \o Zeros(n - Len(s))

replaceSection(e, name, size) ==
    LET s == Section(e, name)
        was == IF name \in DOMAIN e.rep
               THEN e.rep[name]
               ELSE Slice(e.contents, s.sh_offset, s.sh_size)
    IN  [Find(e, {name}) EXCEPT
            !.rep = [n \in DOMAIN @ \cup {name} |->
                         IF n = name THEN Resize(was, size) ELSE @[n]]]

setSubstr(e, name, pos, t) ==
    [Require(e, pos + Len(t) <= Len(e.rep[name])) EXCEPT
        !.rep[name] = Overwrite(@, pos, t)]

-----------------------------------------------------------------------------
(* Reading a file.                                                         *)

NoElf == [err |-> ""]

parse(file, page) ==
    LET h == file[1]
        e == [contents |-> file, hdr |-> h,
              phdrs |-> Phdrs(file, h), shdrs |-> Shdrs(file, h),
              rep |-> <<>>, changed |-> FALSE,
              isExec |-> \E p \in ToSet(Phdrs(file, h)) : p.p_type = "PT_INTERP",
              old |-> [i \in 1 .. h.e_shnum - 1 |-> Shdrs(file, h)[i].sh_name],
              oldSize |-> IF h.ei_data # "ELFDATA2LSB"
                          THEN Swapped(h.e_shnum) ELSE h.e_shnum,
              page |-> page, max |-> Len(file) + MaxGrowth,
              ties |-> "kept", err |-> ""]
    IN  IF \/ Len(file) < Word
           \/ file[1].c # "ehdr"
        THEN [NoElf EXCEPT !.err = "error"]
        ELSE IF \/ h.e_type \notin {"ET_EXEC", "ET_DYN"}
                \/ h.e_phoff + h.e_phnum * Word > Len(file)
                \/ h.e_shoff + h.e_shnum * Word > Len(file)
             THEN [NoElf EXCEPT !.err = "error"]
             ELSE IF h.e_shstrndx >= h.e_shnum
                  THEN Fail(e, "abort")
                  ELSE IF e.oldSize < h.e_shnum THEN Fail(e, "undefined") ELSE e

-----------------------------------------------------------------------------
(* Sorting the header tables.                                              *)

\* The table with its entries in the order of Before, a strict total order
\* on the table's indices; first is the lowest index.
Sorted(table, first, Before(_, _)) ==
    LET place == [i \in DOMAIN table |->
                      first + Cardinality({j \in DOMAIN table : Before(j, i)})]
    IN  [k \in DOMAIN table |-> table[CHOOSE i \in DOMAIN table : place[i] = k]]

TieBefore(e, i, j) == IF e.ties = "kept" THEN i < j ELSE j < i

\* Fault: the segments stay in the order in which they were added.
sortPhdrsForgotten(e) == e

\* The program header table itself comes first, but its type is looked at
\* without rdi().
sortPhdrs(e) ==
    LET first(p) == p.p_type = "PT_PHDR" /\ ~Foreign(e)
        rank(i) == IF first(e.phdrs[i]) THEN -1 ELSE e.phdrs[i].p_paddr
        before(i, j) == \/ rank(i) < rank(j)
                        \/ rank(i) = rank(j) /\ TieBefore(e, i, j)
    IN  [e EXCEPT !.phdrs = Sorted(e.phdrs, 1, before)]

\* sh_link and sh_info are indices: they are translated to names and back.
\* Names are unique, except for the empty name of entry 0.
sortShdrs(e) ==
    LET off(i) == e.shdrs[i].sh_offset
        before(i, j) == \/ off(i) < off(j)
                        \/ off(i) = off(j) /\ TieBefore(e, i, j)
        s == [e EXCEPT !.shdrs = Sorted(e.shdrs, 0, before)]
        nameAt(i) == e.shdrs[i].sh_name
        moved(i) == findSection3(s, nameAt(i))
        isRel(h) == h.sh_type \in {"SHT_REL", "SHT_RELA"}
        relinked(h) ==
            [h EXCEPT !.sh_link = IF @ # 0 THEN moved(@) ELSE 0,
                      !.sh_info = IF @ # 0 /\ isRel(h) THEN moved(@) ELSE @]
    IN  [s EXCEPT
            !.shdrs = [i \in DOMAIN @ |-> IF i = 0 THEN @[0] ELSE relinked(@[i])],
            !.hdr.e_shstrndx = moved(e.hdr.e_shstrndx)]

\* The section header table, without its entry 0, to its place in the file.
writeShdrs(e) ==
    [e EXCEPT !.contents =
        FoldLeft(LAMBDA f, i : Overwrite(f, e.hdr.e_shoff + i * Word,
                                         Struct(e.shdrs[i])),
                 @, [i \in 1 .. e.hdr.e_shnum - 1 |-> i])]

-----------------------------------------------------------------------------
(* Placing the replaced sections.                                          *)

\* In the order in which std::map goes through them, that of their names.
Replaced(e) == Selected(SectionNames, LAMBDA n : n \in DOMAIN e.rep)

\* Fault: the space is counted without the alignment of the sections.
ReplacedSpaceUnaligned(e) ==
    FoldLeft(LAMBDA sum, n : sum + Len(e.rep[n]), 0, Replaced(e))

ReplacedSpace(e) ==
    FoldLeft(LAMBDA sum, n : sum + roundUp(Len(e.rep[n]), Word), 0, Replaced(e))

\* The segment that has to follow a section.
SegmentOf == [n \in {".interp", ".dynamic"} |->
                  IF n = ".interp" THEN "PT_INTERP" ELSE "PT_DYNAMIC"]

Place(e, name, curOff, addr) ==
    LET i == findSection3(e, name)
        size == Len(e.rep[name])
        follow(p) ==
            IF name \in DOMAIN SegmentOf /\ p.p_type = SegmentOf[name]
            THEN [p EXCEPT !.p_offset = curOff, !.p_vaddr = addr,
                           !.p_paddr = addr, !.p_filesz = size, !.p_memsz = size]
            ELSE p
    IN  [Find(e, {name}) EXCEPT
            !.contents = Overwrite(@, curOff, e.rep[name]),
            !.shdrs[i] = [@ EXCEPT !.sh_offset = curOff, !.sh_addr = addr,
                                   !.sh_size = size],
            !.phdrs = [j \in DOMAIN @ |-> follow(@[j])]]

\* Gives the object and the offset behind the last section.
writeReplacedSections(e, curOff, startAddr, startOffset) ==
    LET wiped == [e EXCEPT !.contents =
                     FoldLeft(LAMBDA f, n : Fill(f, Section(e, n).sh_offset,
                                                 Section(e, n).sh_size, XX),
                              @, Replaced(e))]
        next(at, n) ==
            [e   |-> Place(at.e, n, at.cur, startAddr + (at.cur - startOffset)),
             cur |-> at.cur + roundUp(Len(e.rep[n]), Word)]
        done == FoldLeft(next, [e |-> wiped, cur |-> curOff], Replaced(e))
    IN  [done EXCEPT !.e.rep = <<>>]

-----------------------------------------------------------------------------
(* Bringing everything that refers to a section up to date.                *)

\* The sections a dynamic entry may point to: the first that exists counts.
PointsTo ==
    [DT_STRTAB   |-> <<".dynstr">>,   DT_STRSZ |-> <<".dynstr">>,
     DT_SYMTAB   |-> <<".dynsym">>,
     DT_HASH     |-> <<".hash">>,     DT_GNU_HASH |-> <<".gnu.hash">>,
     DT_JMPREL   |-> <<".rel.plt", ".rela.plt", ".rela.IA_64.pltoff">>,
     DT_REL      |-> <<".rel.dyn", ".rel.got">>,
     DT_RELA     |-> <<".rela.dyn">>,
     DT_VERNEED  |-> <<".gnu.version_r">>, DT_VERSYM |-> <<".gnu.version">>]

MayBeMissing == {"DT_REL", "DT_RELA"}

\* Fault: the dynamic section keeps the old addresses.
rewriteDynamicForgotten(e) == e

rewriteDynamic(e) ==
    LET at == Section(e, ".dynamic").sh_offset
        entries == EntriesAt(e.contents, at)
        target(d) == SelectSeq(PointsTo[d.d_tag],
                               LAMBDA n : findSection3(e, n) # 0)
        fixed(d) ==
            IF d.d_tag \notin DOMAIN PointsTo \/ target(d) = <<>> THEN d
            ELSE LET s == Section(e, target(d)[1])
                 IN  [d EXCEPT !.d_val = IF d.d_tag = "DT_STRSZ" THEN s.sh_size
                                         ELSE s.sh_addr]
        required == {d \in ToSet(entries) :
                         d.d_tag \in DOMAIN PointsTo \ MayBeMissing}
    IN  IF findSection3(e, ".dynamic") = 0 THEN e
        ELSE IF \E d \in required : target(d) = <<>> THEN Fail(e, "error")
        ELSE [e EXCEPT !.contents =
                 Overwrite(@, at, FlattenSeq([k \in DOMAIN entries |->
                                                  Struct(fixed(entries[k]))]))]

\* A symbol's section by its index before any section moved: it must have a
\* name.
rewriteSymbol(e, o) ==
    LET sym == StructAt(e.contents, o, "sym")
        idx == sym.st_shndx
        new == findSection3(e, e.old[idx])
        value == IF sym.st_type = "STT_SECTION" THEN e.shdrs[new].sh_addr
                 ELSE sym.st_value
    IN  IF idx \notin 1 .. LoReserve - 1 \/ idx >= e.oldSize THEN e
        ELSE IF idx \notin DOMAIN e.old \/ e.old[idx] = "" THEN Fail(e, "abort")
        ELSE [e EXCEPT !.contents =
                 Overwrite(@, o, Struct([sym EXCEPT !.st_shndx = new,
                                                    !.st_value = value]))]

\* Fault: symbols keep the numbers of their sections, as before release 0.7.
rewriteSymbolsForgotten(e) == e

rewriteSymbols(e) ==
    LET tables == {i \in 1 .. e.hdr.e_shnum - 1 :
                       e.shdrs[i].sh_type \in {"SHT_SYMTAB", "SHT_DYNSYM"}}
        offsets == UNION {{e.shdrs[i].sh_offset + k * Word :
                               k \in 0 .. e.shdrs[i].sh_size \div Word - 1} :
                          i \in tables}
    IN  FoldSet(LAMBDA o, acc : rewriteSymbol(acc, o), e, offsets)

\* Fault: the segment stays where the table was.
rewritePhdrSegmentForgotten(e, phdrAddress) == e

\* The first segment that is the program header table itself.
rewritePhdrSegment(e, phdrAddress) ==
    LET size == Len(e.phdrs) * Word
        self(j) == /\ e.phdrs[j].p_type = "PT_PHDR"
                   /\ \A i \in 1 .. j - 1 : e.phdrs[i].p_type # "PT_PHDR"
        moved(p) == [p EXCEPT !.p_offset = e.hdr.e_phoff,
                              !.p_vaddr = phdrAddress, !.p_paddr = phdrAddress,
                              !.p_filesz = size, !.p_memsz = size]
    IN  [e EXCEPT !.phdrs = [j \in DOMAIN @ |-> IF self(j) THEN moved(@[j]) ELSE @[j]]]

rewriteHeaders(e, phdrAddress) ==
    LET s == sortPhdrs(rewritePhdrSegment(e, phdrAddress))
        written == [s EXCEPT !.contents =
                       Overwrite(@, e.hdr.e_phoff,
                                 FlattenSeq([j \in DOMAIN s.phdrs |->
                                                 Struct(s.phdrs[j])]))]
    IN  rewriteSymbols(rewriteDynamic(writeShdrs(sortShdrs(written))))

-----------------------------------------------------------------------------
(* Libraries: the replaced sections go to the end of the file.             *)

NewLoad(offset, addr, size, page) ==
    [c |-> "phdr", p_type |-> "PT_LOAD", p_offset |-> offset,
     p_vaddr |-> addr, p_paddr |-> addr, p_filesz |-> size, p_memsz |-> size,
     p_align |-> page]

\* Fault: the new header is not counted in the file header.
AddPhdrUncounted(e, p) == [e EXCEPT !.phdrs = Append(@, p)]

AddPhdr(e, p) == [e EXCEPT !.phdrs = Append(@, p), !.hdr.e_phnum = @ + 1]

rewriteSectionsLibrary(e) ==
    LET lastPage == Max({0} \cup {roundUp(p.p_vaddr + p.p_memsz, e.page) :
                                      p \in ToSet(e.phdrs)})
        needed == (Len(e.phdrs) + 1) * Word + ReplacedSpace(e)
        end == roundUp(Len(e.contents), e.page)
        \* An executable's new segment must be at its own offset.
        hole == IF e.isExec /\ end < lastPage THEN lastPage - end ELSE 0
        startOffset == end + hole
        startPage == IF e.isExec THEN startOffset ELSE lastPage
        grown == growFile(growFile(e, end + needed), end + needed + hole)
        added == AddPhdr(grown, NewLoad(startOffset, startPage, needed, e.page))
        placed == writeReplacedSections(
                      added, startOffset + Len(added.phdrs) * Word,
                      startPage, startOffset)
        checked == Require(Require(placed.e, hole % e.page = 0),
                          placed.cur = startOffset + needed)
    IN  rewriteHeaders([checked EXCEPT !.hdr.e_phoff = startOffset], startPage)

-----------------------------------------------------------------------------
(* Executables: the replaced sections go to the beginning of the file,     *)
(* with the sections that are in the way there.                            *)

shiftFile(e, extraPages, startPage) ==
    LET shift == extraPages * e.page
        moved(p) ==
            LET q == [p EXCEPT !.p_offset = @ + shift]
            IN  IF q.p_align # 0 /\ (q.p_vaddr - q.p_offset) % q.p_align # 0
                THEN [q EXCEPT !.p_align = e.page] ELSE q
        behind(s) == [s EXCEPT !.sh_offset = @ + shift]
        grown == growFile(e, Len(e.contents) + shift)
        shifted ==
            [grown EXCEPT
                !.contents = Struct(e.hdr) \o Zeros(shift - Word) \o e.contents,
                !.hdr.e_phoff = Word,
                !.hdr.e_shoff = @ + shift,
                !.shdrs = [i \in DOMAIN @ |-> IF i = 0 THEN @[0] ELSE behind(@[i])],
                !.phdrs = [j \in DOMAIN @ |-> moved(@[j])]]
    IN  IF grown.err # "" THEN grown
        ELSE AddPhdr(shifted, NewLoad(0, startPage, shift, e.page))

\* The first section that cannot be moved in memory, before `last' or just
\* behind it.
FirstReserved(e, last) ==
    LET stays(i) == \/ /\ e.shdrs[i].sh_type = "SHT_PROGBITS"
                       /\ e.shdrs[i].sh_name # ".interp"
                    \/ i > 1 /\ e.shdrs[i - 1].sh_name = ".dynstr"
    IN  Min({last + 1} \cup {i \in 1 .. last : stays(i)})

\* Fault: the section headers stay where sections are going to be.
moveShdrsForgotten(e, startOffset) == e

\* The section headers to the end of the file, if the sections need their
\* place.
moveShdrs(e, startOffset) ==
    LET size == e.hdr.e_shoff + e.hdr.e_shnum * Word
        grown == growFile(e, Len(e.contents) + size)
    IN  IF e.hdr.e_shoff >= startOffset THEN e
        ELSE writeShdrs(sortShdrs([grown EXCEPT !.hdr.e_shoff = Len(e.contents)]))

\* The sections before the first one that stays are in the way.
Gathered(e, reserved) ==
    FoldSet(LAMBDA i, acc : replaceSection(acc, e.shdrs[i].sh_name, e.shdrs[i].sh_size),
            e, {i \in 1 .. reserved - 1 : e.shdrs[i].sh_name \notin DOMAIN e.rep})

\* The replaced sections to the front of the file, behind the headers.
PlaceInFront(e, needed, startOffset, firstPage) ==
    LET curOff == Word + Len(e.phdrs) * Word
        cleared == [e EXCEPT !.contents = Fill(@, curOff, startOffset - curOff, Zero)]
        placed == writeReplacedSections(cleared, curOff, firstPage, 0)
    IN  IF e.err # "" THEN e
        ELSE rewriteHeaders(Require(placed.e, placed.cur = needed),
                            firstPage + placed.e.hdr.e_phoff)

\* offset and addr are those of the first section that stays: if the space
\* before it is too small, pages are put in front, with one header more.
MakeRoom(e, offset, addr) ==
    LET space == Word + Len(e.phdrs) * Word + ReplacedSpace(e)
        shifts == space > offset
        needed == IF shifts THEN space + Word ELSE space
        pages == roundUp(needed - offset, e.page) \div e.page
        grow == IF shifts THEN pages * e.page ELSE 0
        firstPage == addr - offset - grow
    IN  IF grow > addr - offset THEN Fail(e, "error")
        ELSE PlaceInFront(IF shifts THEN shiftFile(e, pages, firstPage) ELSE e,
                          needed, offset + grow, firstPage)

\* The section headers are in the order of the sections' offsets.
RewriteSorted(e) ==
    LET last == Max({0} \cup {i \in 1 .. e.hdr.e_shnum - 1 :
                                  e.shdrs[i].sh_name \in DOMAIN e.rep})
        reserved == FirstReserved(e, last)
        offset == e.shdrs[reserved].sh_offset
        addr == e.shdrs[reserved].sh_addr
    IN  IF last = 0 \/ last + 1 >= e.hdr.e_shnum \/ addr % e.page # offset % e.page
        THEN Fail(e, "abort")
        \* A section that has no address: firstPage wraps around.
        ELSE IF addr < offset THEN Fail(e, "undefined")
        ELSE MakeRoom(moveShdrs(Gathered(e, reserved), offset), offset, addr)

rewriteSectionsExecutable(e) == RewriteSorted(sortShdrs(e))

rewriteSections(e) ==
    IF e.rep = <<>> THEN e
    ELSE IF e.hdr.e_type = "ET_DYN" THEN rewriteSectionsLibrary(e)
         ELSE rewriteSectionsExecutable(e)

\* What writeFile() writes: the header is part of the contents.
Image(e) == Overwrite(e.contents, 0, Struct(e.hdr))

=============================================================================
