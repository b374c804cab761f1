----------------------------- MODULE ElfDynamic -----------------------------
(***************************************************************************)
(* The edits of the dynamic section that patchelf's options ask for, the   *)
(* public methods of class ElfFile (bitcoin-core/patchelf-0.9/src/         *)
(* patchelf.cc).  Each maps an object (see ElfFile) to the object after    *)
(* the method.  They read .dynamic and .dynstr in the contents, at the     *)
(* place and size of the section headers, and write some things there and  *)
(* others in the copies of the two sections in `rep'.                      *)
(*                                                                         *)
(* A string is a sequence of characters; ":" separates the directories of  *)
(* a search path.                                                          *)
(***************************************************************************)
EXTENDS ElfFile

CONSTANTS
    Absolute,       \* the characters an absolute directory begins with
    Provides        \* <<dir, lib>>: the directory contains the library

Entries(e) == EntriesAt(e.contents, Section(e, ".dynamic").sh_offset)

\* The structure at the place of the i-th entry.
EntryAt(e, i) ==
    StructAt(e.contents, Section(e, ".dynamic").sh_offset + (i - 1) * Word, "dyn")

\* A string of .dynstr, strTab + val.
Str(e, val) == StringAt(e.contents, Section(e, ".dynstr").sh_offset + val)

StrSize(e) == Section(e, ".dynstr").sh_size

\* The last entry with a tag, 0 if there is none.
LastWith(entries, tag) == Max({0} \cup {i \in DOMAIN entries : entries[i].d_tag = tag})

SetEntry(e, i, d) ==
    [e EXCEPT !.contents =
        Overwrite(@, Section(e, ".dynamic").sh_offset + (i - 1) * Word, Struct(d))]

WipeString(e, val) ==
    [e EXCEPT !.contents =
        Fill(@, Section(e, ".dynstr").sh_offset + val, Len(Str(e, val)), XX)]

Dyn(tag, val) == [c |-> "dyn", d_tag |-> tag, d_val |-> val]

\* Grow .dynstr and put a string behind the section as it was, and behind
\* the `added' cells that this method has put there before.
AddString(e, added, s) ==
    LET at == StrSize(e) + added
    IN  setSubstr(replaceSection(e, ".dynstr", at + Len(s) + 1),
                  ".dynstr", at, CString(s))

\* Grow .dynamic, shift its entries up to the first DT_NULL and put new ones
\* on top.
AddEntries(e, new) ==
    LET room == Len(new) * Word
        g == replaceSection(e, ".dynamic", Section(e, ".dynamic").sh_size + room)
        nulls == Len(EntriesAt(g.rep[".dynamic"], 0))
        shifted == setSubstr(g, ".dynamic", room,
                             SubSeq(g.rep[".dynamic"], 1, Word * (nulls + 1)))
    IN  IF g.err # "" THEN g
        ELSE setSubstr(shifted, ".dynamic", 0,
                       FlattenSeq([i \in DOMAIN new |-> Struct(new[i])]))

\* The sections must exist and DT_STRTAB must be the address of .dynstr.
\* Left out: modifySoname makes a string of strTab + d_val for DT_INIT.  That
\* is an address and not an offset in .dynstr, so the read leaves .dynstr, and
\* for a library at a high address the file; the string is never used.
CheckStrTab(e) ==
    LET i == LastWith(Entries(e), "DT_STRTAB")
        found == Find(e, {".dynamic", ".dynstr"})
    IN  IF found.err # "" THEN found
        ELSE IF i = 0 \/ Entries(e)[i].d_val = 0 THEN Fail(e, "error")
        ELSE Require(e, Entries(e)[i].d_val = Section(e, ".dynstr").sh_addr)

-----------------------------------------------------------------------------
(* --set-interpreter, --set-soname.                                        *)

getInterpreter(e) ==
    LET s == Section(e, ".interp")
    IN  StringAt(Slice(e.contents, s.sh_offset, s.sh_size), 0)

setInterpreter(e, new) ==
    LET g == replaceSection(e, ".interp", Len(new) + 1)
    IN  IF g.err # "" THEN g
        ELSE [setSubstr(g, ".interp", 0, CString(new)) EXCEPT !.changed = TRUE]

\* The present soname, None if there is no entry.
Soname(e) ==
    LET i == LastWith(Entries(e), "DT_SONAME")
    IN  IF i = 0 THEN None ELSE Str(e, Entries(e)[i].d_val)

OrEmpty(s) == IF s = None THEN <<>> ELSE s

modifySoname(e, new) ==
    LET checked == CheckStrTab(e)
        i == LastWith(Entries(e), "DT_SONAME")
        wiped == IF i = 0 THEN e ELSE WipeString(e, Entries(e)[i].d_val)
        named == AddString(wiped, 0, new)
        pointed == IF i # 0
                   THEN SetEntry(named, i, Dyn("DT_SONAME", StrSize(e)))
                   ELSE AddEntries(named, <<Dyn("DT_SONAME", StrSize(e))>>)
    IN  IF e.hdr.e_type # "ET_DYN" THEN e
        ELSE IF checked.err # "" \/ OrEmpty(Soname(e)) = new THEN checked
        ELSE [pointed EXCEPT !.changed = TRUE]

-----------------------------------------------------------------------------
(* --shrink-rpath, --remove-rpath, --set-rpath.                            *)

concatToRPath(path, dir) == (IF path = <<>> THEN <<>> ELSE Append(path, ":")) \o dir

\* The directories of a path; an empty one at the end is not seen.
Directories(path) ==
    LET step(acc, ch) ==
            IF ch = ":" THEN [dirs |-> Append(acc.dirs, acc.dir), dir |-> <<>>]
            ELSE [acc EXCEPT !.dir = Append(@, ch)]
        split == FoldLeft(step, [dirs |-> <<>>, dir |-> <<>>], path)
    IN  IF split.dir = <<>> THEN split.dirs ELSE Append(split.dirs, split.dir)

\* Keeps relative directories, and those with a needed library that no
\* directory before them has.
ShrunkPath(path, needed) ==
    LET step(acc, dir) ==
            LET new == {j \in DOMAIN needed \ acc.found :
                            <<dir, needed[j]>> \in Provides}
            IN  IF dir = <<>> \/ dir[1] \notin Absolute
                THEN [acc EXCEPT !.path = concatToRPath(@, dir)]
                ELSE IF new = {} THEN acc
                ELSE [found |-> acc.found \cup new,
                      path |-> concatToRPath(acc.path, dir)]
    IN  FoldLeft(step, [found |-> {}, path |-> <<>>], Directories(path)).path

\* Fault: DT_RPATH goes before DT_RUNPATH.
PathEntryObsoleteFirst(e) ==
    LET r == LastWith(Entries(e), "DT_RPATH")
    IN  IF r # 0 THEN r ELSE LastWith(Entries(e), "DT_RUNPATH")

\* The entry whose string is the search path: DT_RUNPATH before DT_RPATH.
PathEntry(e) ==
    LET run == LastWith(Entries(e), "DT_RUNPATH")
    IN  IF run # 0 THEN run ELSE LastWith(Entries(e), "DT_RPATH")

SearchPath(e) ==
    IF PathEntry(e) = 0 THEN None ELSE Str(e, Entries(e)[PathEntry(e)].d_val)

\* Moves the kept entries together and zeroes what they leave.
Compact(e, Keep(_)) ==
    LET entries == Entries(e)
        kept == Selected(entries, Keep)
        gone == Len(entries) - Len(kept)
    IN  [e EXCEPT
            !.contents = Overwrite(@, Section(e, ".dynamic").sh_offset,
                             FlattenSeq([i \in DOMAIN kept |-> Struct(kept[i])])
                                 \o Zeros(gone * Word)),
            !.changed = @ \/ gone > 0]

\* Fault: DT_RPATH is left, to be used by the loader from now on.
removeRunPathOnly(e) ==
    IF SearchPath(e) = None THEN e
    ELSE Compact(e, LAMBDA d : d.d_tag # "DT_RUNPATH")

removeRPath(e) ==
    IF SearchPath(e) = None THEN e
    ELSE Compact(e, LAMBDA d : d.d_tag \notin {"DT_RPATH", "DT_RUNPATH"})

\* DT_RPATH becomes DT_RUNPATH; with --force-rpath a DT_RUNPATH next to a
\* DT_RPATH is made void.  The tags are written without wri().
ConvertTag(e, force) ==
    LET r == LastWith(Entries(e), "DT_RPATH")
        run == LastWith(Entries(e), "DT_RUNPATH")
        tag(t) == IF Foreign(e) THEN "DT_other" ELSE t
    IN  IF ~force /\ r # 0 /\ run = 0
        THEN SetEntry(e, r, [Entries(e)[r] EXCEPT !.d_tag = tag("DT_RUNPATH")])
        ELSE IF force /\ r # 0 /\ run # 0
             THEN SetEntry(e, run, [Entries(e)[run] EXCEPT !.d_tag = tag("DT_IGNORE")])
             ELSE e

\* The last entries of the two tags, as they were found, are made to point
\* to `val'.
Repoint(e, found, val) ==
    FoldSet(LAMBDA i, acc : SetEntry(acc, i, [EntryAt(acc, i) EXCEPT !.d_val = val]), e,
            {LastWith(found, "DT_RPATH"), LastWith(found, "DT_RUNPATH")} \ {0})

\* `w' is the object e with its old path, if any, made void.
SetPathIn(w, e, new, force) ==
    LET old == PathEntry(e)
        grown == AddString(w, 0, new)
    IN  IF old # 0 /\ Len(new) <= Len(SearchPath(e))
        THEN [w EXCEPT !.contents =
                 Overwrite(@, Section(e, ".dynstr").sh_offset + Entries(e)[old].d_val,
                           CString(new))]
        ELSE IF old # 0 THEN Repoint(grown, Entries(e), StrSize(e))
        ELSE AddEntries(grown, <<Dyn(IF force THEN "DT_RPATH" ELSE "DT_RUNPATH",
                                     StrSize(e))>>)

SetPath(e, new, force) ==
    SetPathIn(ConvertTag(IF PathEntry(e) = 0 THEN e
                         ELSE WipeString(e, Entries(e)[PathEntry(e)].d_val), force),
              e, new, force)

NeededLibs(e) ==
    LET names == Tagged(Entries(e), "DT_NEEDED")
    IN  [i \in DOMAIN names |-> Str(e, names[i].d_val)]

\* Fault: a path that stays what it is is written all the same.
SamePathForgotten(e, path) == FALSE

SamePath(e, path) == OrEmpty(SearchPath(e)) = path

modifyRPath(e, op, path, force) ==
    LET checked == CheckStrTab(e)
        new == IF op = "rpShrink" THEN ShrunkPath(SearchPath(e), NeededLibs(e))
               ELSE path
    IN  IF checked.err # "" THEN checked
        ELSE IF op = "rpRemove" THEN removeRPath(e)
        ELSE IF op = "rpShrink" /\ SearchPath(e) = None THEN e
        ELSE IF SamePath(e, new) THEN e
        ELSE [SetPath(e, new, force) EXCEPT !.changed = TRUE]

-----------------------------------------------------------------------------
(* --remove-needed, --replace-needed, --add-needed, --no-default-lib.      *)

removeNeeded(e, libs) ==
    IF libs = {} THEN e
    ELSE IF Find(e, {".dynamic", ".dynstr"}).err # "" THEN Fail(e, "error")
    ELSE Compact(e, LAMBDA d : d.d_tag = "DT_NEEDED" => Str(e, d.d_val) \notin libs)

\* libs maps names to their replacements.
replaceNeeded(e, libs) ==
    LET entries == Entries(e)
        step(acc, i) ==
            LET d == entries[i]
                name == Str(e, d.d_val)
                val == Raw(e, Raw(e, StrSize(e)) + acc.added)
            IN  IF d.d_tag # "DT_NEEDED" \/ name \notin DOMAIN libs THEN acc
                ELSE [e |-> [SetEntry(AddString(acc.e, acc.added, libs[name]), i,
                                      Dyn("DT_NEEDED", val)) EXCEPT !.changed = TRUE],
                      added |-> acc.added + Len(libs[name]) + 1]
    IN  IF libs = <<>> THEN e
        ELSE IF Find(e, {".dynamic", ".dynstr"}).err # "" THEN Fail(e, "error")
        ELSE FoldLeftDomain(step, [e |-> e, added |-> 0], entries).e

\* libs in the order of std::set.
addNeeded(e, libs) ==
    LET pos(i) == FoldLeft(LAMBDA sum, s : sum + Len(s) + 1, 0, SubSeq(libs, 1, i - 1))
        length == pos(Len(libs) + 1)
        grown == replaceSection(e, ".dynstr", StrSize(e) + length + 1)
        named == FoldLeftDomain(LAMBDA acc, i : setSubstr(acc, ".dynstr",
                                                          StrSize(e) + pos(i),
                                                          CString(libs[i])),
                                grown, libs)
    IN  IF libs = <<>> THEN e
        ELSE IF Find(e, {".dynamic", ".dynstr"}).err # "" THEN Fail(e, "error")
        ELSE [AddEntries(named, [i \in DOMAIN libs |->
                                     Dyn("DT_NEEDED", StrSize(e) + pos(i))])
                  EXCEPT !.changed = TRUE]

\* The flag is used without rdi() and wri().
noDefaultLib(e) ==
    LET entries == Entries(e)
        found == {i \in DOMAIN entries : entries[i].d_tag = "DT_FLAGS_1"}
        i == Min(found)
        flag == Raw(e, NoDefLib)
    IN  IF findSection3(e, ".dynamic") = 0 THEN Fail(e, "error")
        ELSE IF found = {}
             THEN [AddEntries(e, <<Dyn("DT_FLAGS_1", flag)>>) EXCEPT !.changed = TRUE]
        ELSE IF HasBit(entries[i].d_val, flag) THEN e
        ELSE [SetEntry(e, i, [entries[i] EXCEPT !.d_val = @ + flag])
                  EXCEPT !.changed = TRUE]

=============================================================================
