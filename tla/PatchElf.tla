------------------------------ MODULE PatchElf ------------------------------
(***************************************************************************)
(* The program patchelf (bitcoin-core/patchelf-0.9/src/patchelf.cc): runs  *)
(* of it, one after the other, on one file.                                *)
(*                                                                         *)
(* A run takes its options one by one, reads the file, goes through the    *)
(* methods the options ask for in a fixed order, lays the file out again   *)
(* if a section has grown and writes it back over the old one.  Every      *)
(* method looks at the file as it was read and as the methods before it    *)
(* have left it.                                                           *)
(***************************************************************************)
EXTENDS ElfDynamic

CONSTANTS
    Cases,          \* from names to [file, args, most]: a file, the options
                    \* tried on it, and how many of them in a run at most
    PageSize,       \* PAGESIZE, if no --page-size is given
    OtherPageSize,  \* the value given with --page-size
    MaxRuns,        \* bound: runs
    WriteFails      \* whether the disk may be full

\* The options that print something, and what.
PrintOptions == {"print-interpreter", "print-soname", "print-rpath", "print-needed"}

Prints == [o \in PrintOptions |-> CASE o = "print-interpreter" -> "interp"
                                    [] o = "print-soname" -> "soname"
                                    [] o = "print-rpath" -> "rpath"
                                    [] o = "print-needed" -> "needed"]

Options == PrintOptions \cup
    {"set-interpreter", "page-size", "set-soname", "remove-rpath", "shrink-rpath",
     "set-rpath", "force-rpath", "add-needed", "remove-needed", "replace-needed",
     "no-default-lib"}

\* Of a file nothing is assumed but that it consists of cells.
ASSUME PatchElfAssumption ==
    /\ \A k \in DOMAIN Cases :
           /\ Cases[k].file \in Seq(Cell)
           /\ Cases[k].most \in Nat
           /\ Cases[k].args \subseteq [o: Options, v: Seq(Character), w: Seq(Character)]
    /\ PageSize \in Nat \ {0}
    /\ OtherPageSize \in Nat \ {0}
    /\ MaxRuns \in Nat \ {0}
    /\ WriteFails \in BOOLEAN

VARIABLES
    case,           \* the file and the options of this behaviour
    disk,           \* the file on disk
    seen,           \* what the dynamic loader sees of it (auxiliary)
    pc,             \* where the run is
    opt,            \* the options given, the static variables of the program
    elf,            \* the object, see ElfFile
    out,            \* what the run has printed last
    runs            \* runs begun

vars == <<case, disk, seen, pc, opt, elf, out, runs>>

-----------------------------------------------------------------------------
(* Options.                                                                *)

\* path is the first of shrink, remove and set that is given, path and rpath
\* together stand for shrinkRPath, removeRPath, setRPath and newRPath.
NoOptions ==
    [interp |-> <<>>, soname |-> None, path |-> "none", rpath |-> <<>>,
     force |-> FALSE, print |-> {}, remove |-> {}, replace |-> <<>>, add |-> {},
     noDefaultLib |-> FALSE, page |-> PageSize, given |-> 0]

Priority == [none |-> 0, rpSet |-> 1, rpRemove |-> 2, rpShrink |-> 3]

Stronger(op, than) == IF Priority[op] > Priority[than] THEN op ELSE than

\* The options with one argument more: o is the option's name, v and w what
\* follows it.
Given(a) ==
    LET o == [opt EXCEPT !.given = @ + 1]
    IN  CASE a.o = "set-interpreter" -> [o EXCEPT !.interp = a.v]
          [] a.o = "page-size"       -> [o EXCEPT !.page = OtherPageSize]
          [] a.o \in DOMAIN Prints   -> [o EXCEPT !.print = @ \cup {Prints[a.o]}]
          [] a.o = "set-soname"      -> [o EXCEPT !.soname = a.v]
          [] a.o = "remove-rpath"    -> [o EXCEPT !.path = Stronger("rpRemove", @)]
          [] a.o = "shrink-rpath"    -> [o EXCEPT !.path = Stronger("rpShrink", @)]
          [] a.o = "set-rpath"       -> [o EXCEPT !.path = Stronger("rpSet", @),
                                                  !.rpath = a.v]
          [] a.o = "force-rpath"     -> [o EXCEPT !.force = TRUE]
          [] a.o = "add-needed"      -> [o EXCEPT !.add = @ \cup {a.v}]
          [] a.o = "remove-needed"   -> [o EXCEPT !.remove = @ \cup {a.v}]
          [] a.o = "replace-needed"  ->
                 [o EXCEPT !.replace = [n \in DOMAIN @ \cup {a.v} |->
                                            IF n = a.v THEN a.w ELSE @[n]]]
          [] a.o = "no-default-lib"  -> [o EXCEPT !.noDefaultLib = TRUE]

\* The parts of patchElf2 in their order, and whether the options ask for one.
Steps == <<"printInterpreter", "printSoname", "setSoname", "setInterpreter",
           "printRPath", "modifyRPath", "printNeeded", "removeNeeded",
           "replaceNeeded", "addNeeded", "noDefaultLib">>

AskedFor(step) ==
    CASE step = "printInterpreter" -> "interp" \in opt.print
      [] step = "printSoname"      -> "soname" \in opt.print
      [] step = "setSoname"        -> opt.soname # None
      [] step = "setInterpreter"   -> opt.interp # <<>>
      [] step = "printRPath"       -> "rpath" \in opt.print
      [] step = "modifyRPath"      -> opt.path # "none"
      [] step = "printNeeded"      -> "needed" \in opt.print
      [] step = "removeNeeded"     -> opt.remove # {}
      [] step = "replaceNeeded"    -> opt.replace # <<>>
      [] step = "addNeeded"        -> opt.add # {}
      [] step = "noDefaultLib"     -> opt.noDefaultLib

\* The next part from position k of Steps on.
From(k) ==
    LET asked == {j \in k .. Len(Steps) : AskedFor(Steps[j])}
    IN  IF asked = {} THEN "rewrite" ELSE Steps[Min(asked)]

After(step) == From(1 + CHOOSE k \in DOMAIN Steps : Steps[k] = step)

\* The names of a set in the order of std::set.  Which order matters to
\* no property, only that there is one.
InOrder(libs) == SetToSeq(libs)

-----------------------------------------------------------------------------
(* A run.                                                                  *)

Init == /\ case \in DOMAIN Cases
        /\ disk = Cases[case].file
        /\ seen = LoaderView(Cases[case].file)
        /\ pc = "main"
        /\ opt = NoOptions
        /\ elf = NoElf
        /\ out = [what |-> "", is |-> <<>>]
        /\ runs = 1

\* main() takes an option and what belongs to it.
Argument ==
    /\ pc = "main"
    /\ opt.given < Cases[case].most
    /\ \E a \in Cases[case].args : opt' = Given(a)
    /\ UNCHANGED <<case, disk, seen, pc, elf, out, runs>>

\* The last argument is an option that needs a value, or there is no file
\* name, or --help or --version is given: the file is not looked at.
BadUsage ==
    /\ pc = "main"
    /\ pc' = "failed"
    /\ UNCHANGED <<case, disk, seen, opt, elf, out, runs>>

\* The last argument is the name of the file.
ReadFile ==
    /\ pc = "main"
    /\ elf' = parse(disk, opt.page)
    /\ pc' = IF elf'.err # "" THEN "failed" ELSE From(1)
    /\ UNCHANGED <<case, disk, seen, opt, out, runs>>

\* One part of patchElf2.
Do(step, e) ==
    /\ pc = step
    /\ elf' = e
    /\ pc' = IF e.err # "" THEN "failed" ELSE After(step)
    /\ UNCHANGED <<case, disk, seen, opt, out, runs>>

\* A part that prints some lines.
Printed(step, what, e, lines) ==
    /\ pc = step
    /\ elf' = e
    /\ out' = IF e.err = "" /\ lines # <<>> THEN [what |-> what, is |-> lines] ELSE out
    /\ pc' = IF e.err # "" THEN "failed" ELSE After(step)
    /\ UNCHANGED <<case, disk, seen, opt, runs>>

PrintInterpreter ==
    Printed("printInterpreter", "interp", Find(elf, {".interp"}), <<getInterpreter(elf)>>)

\* Nothing is printed of a program, or of an empty soname.
PrintSoname ==
    Printed("printSoname", "soname",
            IF elf.hdr.e_type = "ET_DYN" THEN CheckStrTab(elf) ELSE elf,
            IF elf.hdr.e_type # "ET_DYN" \/ OrEmpty(Soname(elf)) = <<>>
            THEN <<>> ELSE <<Soname(elf)>>)

SetSoname == Do("setSoname", modifySoname(elf, opt.soname))

SetInterpreter == Do("setInterpreter", setInterpreter(elf, opt.interp))

PrintRPath ==
    Printed("printRPath", "search", CheckStrTab(elf), <<OrEmpty(SearchPath(elf))>>)

ModifyRPath == Do("modifyRPath", modifyRPath(elf, opt.path, opt.rpath, opt.force))

PrintNeeded ==
    Printed("printNeeded", "needed", Find(elf, {".dynamic", ".dynstr"}), NeededLibs(elf))

RemoveNeeded == Do("removeNeeded", removeNeeded(elf, opt.remove))

ReplaceNeeded == Do("replaceNeeded", replaceNeeded(elf, opt.replace))

AddNeeded == Do("addNeeded", addNeeded(elf, InOrder(opt.add)))

NoDefaultLib == Do("noDefaultLib", noDefaultLib(elf))

\* The file is laid out anew if a section was replaced, and written if
\* something changed.
Rewrite ==
    /\ pc = "rewrite"
    /\ \E ties \in {"kept", "swapped"} :
           elf' = IF elf.changed THEN rewriteSections([elf EXCEPT !.ties = ties])
                  ELSE elf
    /\ pc' = IF elf'.err # "" THEN "failed"
             ELSE IF elf.changed THEN "write" ELSE "done"
    /\ UNCHANGED <<case, disk, seen, opt, out, runs>>

WriteFile ==
    /\ pc = "write"
    /\ \E file \in {Image(elf)} : disk' = file /\ seen' = LoaderView(file)
    /\ pc' = "done"
    /\ UNCHANGED <<case, opt, elf, out, runs>>

\* The file has been truncated and cannot be written as a whole.
WriteFileFails ==
    /\ WriteFails
    /\ pc = "write"
    /\ \E n \in {0, Len(disk)} : disk' = SubSeq(Image(elf), 1, n)
    /\ Len(disk') < Len(elf.contents)
    /\ seen' = Lost
    /\ pc' = "torn"
    /\ UNCHANGED <<case, opt, elf, out, runs>>

RunAgain ==
    /\ pc = "done"
    /\ runs < MaxRuns
    /\ runs' = runs + 1
    /\ pc' = "main"
    /\ opt' = NoOptions
    /\ elf' = NoElf
    /\ out' = [what |-> "", is |-> <<>>]
    /\ UNCHANGED <<case, disk, seen>>

Next ==
    \/ Argument \/ BadUsage \/ ReadFile
    \/ PrintInterpreter \/ PrintSoname \/ SetSoname \/ SetInterpreter
    \/ PrintRPath \/ ModifyRPath \/ PrintNeeded
    \/ RemoveNeeded \/ ReplaceNeeded \/ AddNeeded \/ NoDefaultLib
    \/ Rewrite \/ WriteFile \/ WriteFileFails \/ RunAgain

Spec == Init /\ [][Next]_vars

-----------------------------------------------------------------------------
(* What a patched file is to the kernel and the dynamic loader.            *)

\* The directory in which the loader finds a library.
Finds(search, lib) ==
    LET found == SelectSeq(Directories(search), LAMBDA dir : <<dir, lib>> \in Provides)
    IN  IF found = <<>> THEN None ELSE found[1]

Searched(search) == {dir \in ToSet(Directories(search)) : dir # <<>>}

\* The directories of a path that depend on where the program is run.
Relative(search) ==
    SelectSeq(Directories(search), LAMBDA dir : dir # <<>> /\ dir[1] \notin Absolute)

Edits == INSTANCE ElfEdits WITH
             view <- seen, asked <- opt,
             phase <- CASE pc = "done" -> "done"
                        [] pc \in {"failed", "torn"} -> "failed"
                        [] OTHER -> "asking",
             Fixed <- Relative,
             InitialViews <- {LoaderView(Cases[k].file) : k \in DOMAIN Cases}

\* A run makes the file look to the dynamic loader as its options say: the
\* entries of .dynamic, the strings they point to and the addresses in them
\* are found in memory through the program headers that patchElf2 and
\* rewriteSections leave, whatever sections they have moved.
Implements == Edits!Spec

\* The file is one that patchelf accepts.  It is looked at before a run and
\* after it: between the two only WriteFile touches it.
Whole == pc \in {"main", "done"} /\ parse(disk, PageSize).err = ""

LoadSegments == SelectSeq(Phdrs(disk, disk[1]), LAMBDA p : p.p_type = "PT_LOAD")

\* The segments can be mapped: each is in the file, its address and its
\* offset agree in the page and in its alignment, and it begins behind the
\* last page of the one before (rewriteSectionsLibrary, shiftFile and
\* sortPhdrs choose offsets, addresses, alignments and the order of the table).
Loadable ==
    Whole => \A i \in DOMAIN LoadSegments :
        LET p == LoadSegments[i]
        IN  /\ p.p_offset + p.p_filesz <= Len(disk)
            /\ p.p_filesz <= p.p_memsz
            /\ \A n \in {PageSize, p.p_align} : p.p_vaddr % n = p.p_offset % n
            /\ i > 1 => LET q == LoadSegments[i - 1]
                        IN  roundUp(q.p_vaddr + q.p_memsz, PageSize) <= p.p_vaddr

\* The kernel hands a program its own program headers at the address of the
\* first segment plus e_phoff, and PT_PHDR gives the same address: they must
\* be there (the hole of rewriteSectionsLibrary, firstPage of
\* rewriteSectionsExecutable and rewriteHeaders).
HeadersInMemory ==
    Whole /\ Segments(disk, "PT_INTERP") # {} =>
        LET h == disk[1]
            base == LoadSegments[1].p_vaddr - LoadSegments[1].p_offset
            at(i) == base + h.e_phoff + (i - 1) * Word
        IN  /\ \A i \in DOMAIN Phdrs(disk, h) : Memory(disk, at(i)) = Phdrs(disk, h)[i]
            /\ \A p \in Segments(disk, "PT_PHDR") : p.p_vaddr = at(1)

\* What lies where in a file with the header h and the sections S: by number, the
\* section header table, the program header table, the file header and the
\* sections whose contents are in the file.
Extents(h, S) ==
    LET stored == {i \in 1 .. h.e_shnum - 1 :
                       S[i].sh_type # "SHT_NOBITS" /\ S[i].sh_size > 0}
    IN  [i \in -2 .. 0 \cup stored |->
             CASE i = -2 -> [from |-> h.e_shoff, to |-> h.e_shoff + h.e_shnum * Word]
               [] i = -1 -> [from |-> h.e_phoff, to |-> h.e_phoff + h.e_phnum * Word]
               [] i = 0  -> [from |-> 0, to |-> Word]
               [] OTHER  -> [from |-> S[i].sh_offset, to |-> S[i].sh_offset + S[i].sh_size]]

\* They are inside of a file of that size, and apart from each other.
Apart(extents, size) ==
    \A i, j \in DOMAIN extents :
        LET a == extents[i]
            b == extents[j]
        IN  a.to <= size /\ (i # j => a.to <= b.from \/ b.to <= a.from)

\* The headers, the two tables and the contents of the sections are in the
\* file and do not overlap, though sections have grown, pages were put in
\* front and tables have moved (growFile, moveShdrs, writeReplacedSections).
NothingOverlaps ==
    Whole => Apart(Extents(disk[1], Shdrs(disk, disk[1])), Len(disk))

\* Every reference from one section to another, by name: links, what a
\* relocation section applies to, and the sections of symbols.
References(file) ==
    LET h == file[1]
        S == Shdrs(file, h)
        name(i) == IF i \in DOMAIN S THEN S[i].sh_name ELSE "none"
        idx(n) == CHOOSE i \in DOMAIN S : S[i].sh_name = n
        refs(s) == [link |-> name(s.sh_link), info |-> name(s.sh_info), type |-> s.sh_type]
        symbol(o) ==
            LET sym == StructAt(file, o, "sym")
                at(i) == IF sym.st_type = "STT_SECTION" THEN S[i].sh_addr ELSE 0
            IN  [section |-> name(sym.st_shndx), type |-> sym.st_type,
                 stale |-> sym.st_type = "STT_SECTION"
                               /\ sym.st_value # at(sym.st_shndx)]
        symbols(s) == IF s.sh_type \in {"SHT_SYMTAB", "SHT_DYNSYM"}
                      THEN [k \in 1 .. s.sh_size \div Word |->
                                symbol(s.sh_offset + (k - 1) * Word)]
                      ELSE <<>>
    IN  [strings |-> name(h.e_shstrndx),
         of |-> [n \in {S[i].sh_name : i \in DOMAIN S} |->
                     [refs |-> refs(S[idx(n)]), symbols |-> symbols(S[idx(n)])]]]

\* However often the file is written, which renumbers its sections, every
\* reference from one section to another stays (sortShdrs, and rewriteHeaders
\* for symbols).
ReferencesKept == Whole => References(disk) = References(Cases[case].file)

\* No assertion fails on a file as a linker makes it or as patchelf has left it
\* (the asserts of rewriteSectionsExecutable, writeReplacedSections and of the
\* modify methods), parse does not write behind the end of its table of names
\* by number, and the first page that rewriteSectionsExecutable computes does
\* not wrap around.  Reads outside of a section or of the file are not watched.
NoAssertFails == elf.err \notin {"abort", "undefined"}

\* What is printed of a file is what the loader sees of it, though the one
\* goes by sections and the other by segments (modifyRPath, modifySoname,
\* getInterpreter, printNeededLibs).
PrintedIsSeen ==
    out.what # "" /\ (pc \in {"done", "torn"} => ~elf.changed) =>
        out.is = IF out.what = "needed" THEN seen.needed
                 ELSE <<OrEmpty(seen[out.what])>>

\* After --set-rpath the loader searches the path that was given (modifyRPath).
PathIsSet == pc = "done" /\ opt.path = "rpSet" => OrEmpty(seen.search) = opt.rpath

\* A run that is to change nothing that the loader sees leaves the file
\* alone, but for --set-interpreter, which always writes (the early returns
\* of modifySoname, modifyRPath and noDefaultLib, and the changed flag).
IdleRunKeepsFile ==
    [][disk' # disk /\ opt.interp = <<>> => seen' # seen]_vars

\* What the options put new contents into.
Replaceable == {".interp", ".dynstr", ".dynamic"}

\* The entries of a dynamic section of these cells: DT_NULL is in it.
Lists(cells, entries) ==
    LET entry(k) == StructAt(cells, (k - 1) * Word, "dyn")
    IN  /\ Word * (Len(entries) + 1) <= Len(cells)
        /\ \A k \in DOMAIN entries : entries[k] = entry(k) /\ entry(k).d_tag # "DT_NULL"
        /\ entry(Len(entries) + 1).d_tag = "DT_NULL"

\* Of an object that parse() gives: it is of the machine's byte order, its
\* parts do not overlap, its sections have names of their own, and what the
\* options work on is in the file.
LaidOut(e) ==
    LET S == e.shdrs
        numbers == 1 .. e.hdr.e_shnum - 1
    IN  /\ ~Foreign(e)
        /\ Apart(Extents(e.hdr, S), Len(e.contents))
        /\ S[0].sh_name = "" /\ S[0].sh_offset = 0
        /\ \A i \in numbers : /\ S[i].sh_name # "" /\ S[i].sh_offset >= Word
                              /\ \A j \in numbers : S[i].sh_name = S[j].sh_name => i = j
                              /\ S[i].sh_name \in Replaceable => S[i].sh_type # "SHT_NOBITS"

\* The dynamic section ends, and its strings are in .dynstr, which ends with
\* a NUL character.
Consistent(dyn, str, strAddr) ==
    \E entries \in {EntriesAt(dyn, 0)} :
        /\ Lists(dyn, entries)
        /\ Len(str) > 0 /\ str[Len(str)] = Zero
        /\ \A d \in ToSet(entries) :
               /\ d.d_tag \in {"DT_SONAME", "DT_RPATH", "DT_RUNPATH"} => d.d_val < Len(str)
               /\ d.d_tag = "DT_STRTAB" => d.d_val = strAddr

\* What a section holds, the replaced one if there is one.
Held(e, name) ==
    IF name \in DOMAIN e.rep THEN e.rep[name]
    ELSE Slice(e.contents, Section(e, name).sh_offset, Section(e, name).sh_size)

\* In a program some code stays in the way, what is before it begins at one
\* address, and behind it come what memory does not keep and some section more.
Anchored(e) ==
    LET S == e.shdrs
        numbers == 1 .. e.hdr.e_shnum - 1
    IN  e.hdr.e_phoff = Word /\
        \E p \in numbers :
          /\ S[p].sh_type = "SHT_PROGBITS" /\ S[p].sh_name \notin Replaceable
          /\ S[p].sh_addr >= S[p].sh_offset
          /\ (S[p].sh_addr - S[p].sh_offset) % PageSize = 0
          /\ \A i \in numbers :
                /\ S[i].sh_offset <= S[p].sh_offset =>
                       S[i].sh_addr - S[i].sh_offset = S[p].sh_addr - S[p].sh_offset
                /\ S[i].sh_type = "SHT_NOBITS" => S[i].sh_offset > S[p].sh_offset
          /\ \E q \in numbers :
                /\ S[q].sh_offset > S[p].sh_offset /\ S[q].sh_name \notin Replaceable
                /\ \A i \in numbers : S[i].sh_name \in Replaceable =>
                                           S[i].sh_offset < S[q].sh_offset

Linked(e) ==
    /\ LaidOut(e)
    /\ findSection3(e, ".dynamic") # 0 =>
           /\ findSection3(e, ".dynstr") # 0
           /\ Consistent(Held(e, ".dynamic"), Held(e, ".dynstr"), Section(e, ".dynstr").sh_addr)
    /\ e.hdr.e_type = "ET_EXEC" => Anchored(e)

\* A file as linkers make it.
WellFormed(file) == parse(file, PageSize).err = "" /\ Linked(parse(file, PageSize))

\* A file as a linker makes it stays one.
StaysWellFormed ==
    WellFormed(Cases[case].file) /\ pc \in {"main", "done"} => WellFormed(disk)

\* The types of the variables; while a run works on the file, the numbers of
\* headers in the file header are those of the tables (AddPhdr, parse).
TypeOK ==
    /\ pc \in ToSet(Steps) \cup {"main", "rewrite", "write", "done", "failed", "torn"}
    /\ runs \in 1 .. MaxRuns
    /\ opt.given \in 0 .. Cases[case].most /\ opt.path \in DOMAIN Priority
    /\ elf.err \in {"", "error", "abort", "undefined"}
    /\ pc = "failed" => elf.err # "" \/ elf = NoElf
    /\ pc \in ToSet(Steps) \cup {"rewrite", "write"} =>
           /\ elf.hdr \in Elf_Ehdr
           /\ \A i \in DOMAIN elf.shdrs : elf.shdrs[i] \in Elf_Shdr
           /\ \A i \in DOMAIN elf.phdrs : elf.phdrs[i] \in Elf_Phdr
           /\ elf.hdr.e_shnum = Cardinality(DOMAIN elf.shdrs)
           /\ elf.hdr.e_phnum = Len(elf.phdrs)

=============================================================================
