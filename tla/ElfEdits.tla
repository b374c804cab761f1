------------------------------ MODULE ElfEdits ------------------------------
(***************************************************************************)
(* What patchelf promises: a run changes what the dynamic loader sees of   *)
(* the file in the way its options say, and in no other way.               *)
(*                                                                         *)
(* view is the loader's view of the file (see LoaderView in Elf), asked    *)
(* the options of the present run, phase how far it is.                    *)
(***************************************************************************)
EXTENDS Integers, Sequences, FiniteSets, SequencesExt

CONSTANTS
    Finds(_, _),    \* the directory of a search path a library is found in
    Searched(_),    \* the directories of a search path
    Fixed(_),       \* what is to stay of a search path that is shrunk
    Lost,           \* there is nothing to see: the file was not written whole
    InitialViews    \* the views of the files to begin with

VARIABLES view, asked, phase

vars == <<view, asked, phase>>

\* The names after --remove-needed, --replace-needed and --add-needed.
NeededAfter(before, after, a) ==
    LET kept == SelectSeq(before, LAMBDA n : n \notin a.remove)
        renamed == [i \in DOMAIN kept |-> IF kept[i] \in DOMAIN a.replace
                                          THEN a.replace[kept[i]] ELSE kept[i]]
        added == SubSeq(after, 1, Len(after) - Len(renamed))
    IN  /\ IsSuffix(renamed, after)
        /\ ToSet(added) = a.add
        /\ Len(added) = Cardinality(a.add)

\* --shrink-rpath goes before --remove-rpath, and that before --set-rpath.
\* A path that is shrunk loses all directories that are of no use, but no
\* library is found in another place.
SearchAfter(v, w, a) ==
    CASE a.path = "rpShrink" -> /\ Fixed(w.search) = Fixed(v.search)
                                /\ \A n \in ToSet(v.needed) :
                                       Finds(w.search, n) = Finds(v.search, n)
                                /\ \A d \in Searched(w.search) \ ToSet(Fixed(w.search)) :
                                       \E n \in ToSet(v.needed) : Finds(w.search, n) = d
      [] a.path = "rpRemove" -> w.search = <<"none">>
      [] a.path = "rpSet" /\ a.rpath # <<>> -> w.search = a.rpath
      [] a.path = "rpSet" /\ a.rpath = <<>> -> w.search \in {<<>>, <<"none">>}
      [] OTHER -> w.search = v.search

Patched(v, w, a) ==
    /\ w.type = v.type
    /\ w.interp = IF a.interp # <<>> THEN a.interp ELSE v.interp
    /\ w.soname = IF a.soname # <<"none">> /\ v.type = "ET_DYN"
                     /\ ~(a.soname = <<>> /\ v.soname = <<"none">>)
                  THEN a.soname ELSE v.soname
    /\ SearchAfter(v, w, a)
    /\ NeededAfter(v.needed, w.needed, a)
    /\ w.nodeflib = (v.nodeflib \/ a.noDefaultLib)
    /\ w.entry = v.entry /\ w.pointees = v.pointees

Init == view \in InitialViews /\ phase = "asking"

\* A run is given its options, or prints.
Ask == /\ phase = "asking"
       /\ UNCHANGED <<view, phase>>

\* A run ends well only with what it was asked for.
Patch == /\ phase = "asking" /\ phase' = "done"
         /\ Patched(view, view', asked)
         /\ UNCHANGED asked

\* It gives up, and the file is as it was.
Refuse == /\ phase = "asking" /\ phase' = "failed"
          /\ UNCHANGED <<view, asked>>

\* The file is written over, and is gone if that fails.
Lose == /\ phase = "asking" /\ phase' = "failed"
        /\ view' = Lost
        /\ UNCHANGED asked

Again == /\ phase = "done" /\ phase' = "asking"
         /\ UNCHANGED view

Next == Ask \/ Patch \/ Refuse \/ Lose \/ Again

Spec == Init /\ [][Next]_vars

=============================================================================
