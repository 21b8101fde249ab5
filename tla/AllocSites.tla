----------------------------- MODULE AllocSites -----------------------------
(***************************************************************************)
(* The allocation-site helpers of src/tools/helpers.cpp: read_allocsites   *)
(* parses a .allocs file, line by line, into allocsite records;           *)
(* get_types_by_codeless_uniqtype_name indexes a binary's type DIEs by     *)
(* codeless uniqtype name; make_allocsites_relation maps each allocation  *)
(* site <objname, file_addr> to the uniqtype of the type it allocates,     *)
(* looked up in a CU that embodies the site's source file.                *)
(*                                                                         *)
(* The two loops over the file and over its sites are actions; the index  *)
(* and the search are pure and are operators.  The DWARF is abstracted to *)
(* the facts the code tests: a CU has a name and comp_dir or not, and a   *)
(* sequence of source files; a type DIE has its canonical name and its    *)
(* concrete type [id, cu, complete].  A path is a sequence of components, *)
(* absolute when it starts with "/"; joining comp_dir and a relative path *)
(* is concatenation.  A .allocs line is the outcome of read_allocs_line   *)
(* (not in the repository) and its length.  A typename is [mangled,      *)
(* core]: "__uniqtype__" followed by core when mangled.                   *)
(***************************************************************************)
EXTENDS Integers, Sequences, SequencesExt

CONSTANTS
    BUF_SIZE,   \* sizeof buf in read_allocsites
    CUs,        \* the CU DIEs in order: [named, comp_dir, files]
    TypeDies,   \* the type DIEs in order: [canon, dname, base, bitfield, equiv, concrete]
    END,        \* iterator_base::END
    Lines,      \* the .allocs lines a file may hold
    MAX_LINES   \* the longest file checked

(* The four names liballocs always generates in codeless form. *)
SpecialCores == {"__uninterpreted_byte", "void", "__EXISTS1__1", "__EXISTS1___PTR__1"}

Mangle(core) == [mangled |-> TRUE, core |-> core]

-----------------------------------------------------------------------------
(* in.getline(buf, sizeof buf - 1) fails on a line of sizeof buf - 1      *)
(* characters or more: it stores sizeof buf - 2 and sets failbit.         *)
LineFits_OffByOne(l) == l.len <= BUF_SIZE - 1

LineFits(l) == l.len <= BUF_SIZE - 2

(* get_types_by_codeless_uniqtype_name: each type DIE under its codeless  *)
(* canonical name (a nameless base type under its DWARF name, or not at  *)
(* all); a named non-bitfield base type also under its DWARF name and its *)
(* C equivalence class's first name.  The multimap keeps insertion order. *)
TypeIndex ==
    LET step(m, d) ==
          IF d.canon = "" /\ d.dname = "" THEN m
          ELSE LET extra == IF d.base /\ d.dname # "" /\ ~d.bitfield
                            THEN <<d.dname>> \o (IF d.equiv # "" THEN <<d.equiv>> ELSE <<>>)
                            ELSE <<>>
                   names == <<IF d.canon = "" THEN d.dname ELSE d.canon>> \o extra
               IN m \o [i \in DOMAIN names |-> <<Mangle(names[i]), d.concrete>>]
    IN FoldLeft(step, <<>>, TypeDies)

(* The source path of a CU's file: relative ones are taken from comp_dir. *)
SourcePath(cu, f) == IF Len(f) > 0 /\ f[1] # "/" THEN cu.comp_dir \o f ELSE f

TypesNamed(tn) == SelectSeq(TypeIndex, LAMBDA p : p[1] = tn)

(* search_one_cu: for each file of the CU whose path is the site's        *)
(* source file, the types of the site's name in index order; the first   *)
(* defined in this CU is returned, each other one met becomes the near   *)
(* miss.                                                                  *)
SearchOneCU(a, k, near) ==
    LET cu == CUs[k]
        ts == TypesNamed(a.clean_typename)
        byType(st, t) == IF st.found # END THEN st
                         ELSE IF t[2].cu = k THEN [st EXCEPT !.found = t[2]]
                         ELSE [st EXCEPT !.near = t[2]]
        byFile(st, f) == IF st.found # END \/ SourcePath(cu, f) # a.sourcefile THEN st
                         ELSE FoldLeft(byType, st, ts)
    IN IF ~cu.named THEN [found |-> END, near |-> near]
       ELSE FoldLeft(byFile, [found |-> END, near |-> near], cu.files)

(* The loop over the CUs: the first CU that yields a type, else the near  *)
(* miss left by the last search.                                          *)
FindType(a) ==
    LET step(st, k) == IF st.found # END THEN st ELSE SearchOneCU(a, k, st.near)
        r == FoldLeft(step, [found |-> END, near |-> END], [k \in DOMAIN CUs |-> k])
    IN IF r.found # END THEN r.found ELSE r.near

(* add_result: std::map::insert keeps the entry of a key already present. *)
AddResult(rel, a, name_used, is_incomplete) ==
    LET key == <<a.objname, a.file_addr>>
    IN IF key \in DOMAIN rel THEN rel
       ELSE rel @@ (key :> [name |-> name_used,
                            array0 |-> ~a.is_synthetic /\ a.might_be_array /\ ~is_incomplete])

IsSpecial(tn) == tn.mangled /\ tn.core \in SpecialCores

(* type_symname.size() == 0: the whole string is empty, which a mangled  *)
(* name ("__uniqtype__" and a core) never is.                            *)
IsBlank(tn) == ~tn.mangled /\ tn.core = ""
-----------------------------------------------------------------------------
(* The tool reads one .allocs file, then builds the relation from it.     *)
VARIABLES
    afile,      \* the lines of the .allocs file
    apos,       \* the next line to read, or the next site to relate
    asites,     \* allocsites_to_add
    arel,       \* allocsites_relation
    aphase      \* "idle", "read", "relate" or "done"

allocVars == <<afile, apos, asites, arel, aphase>>

AllocInit ==
    /\ afile = <<>>
    /\ apos = 1
    /\ asites = <<>>
    /\ arel = [k \in {} |-> 0]
    /\ aphase = "idle"

(* read_allocsites_for_binary: the .allocs file of the binary is opened   *)
(* and read_allocsites starts on it.                                       *)
OpenAllocs ==
    /\ aphase = "idle"
    /\ afile' \in BoundedSeq(Lines, MAX_LINES)
    /\ aphase' = "read"
    /\ UNCHANGED <<apos, asites, arel>>

(* struct allocsite, as read_allocsites fills it from a parsed line.     *)
AllocSite(l) ==
    [clean_typename |-> l.tn, sourcefile |-> l.src, objname |-> l.obj,
     file_addr |-> l.addr, is_synthetic |-> ~l.tn.mangled, might_be_array |-> l.arr]

(* read_allocsites, one iteration of the while loop: getline and          *)
(* read_allocs_line accept the line; is_synthetic is "not                 *)
(* __uniqtype_-prefixed".                                                  *)
ReadLine ==
    /\ aphase = "read"
    /\ apos <= Len(afile)
    /\ LineFits(afile[apos]) /\ afile[apos].ok
    /\ asites' = Append(asites, AllocSite(afile[apos]))
    /\ apos' = apos + 1
    /\ UNCHANGED <<afile, arel, aphase>>

(* The while loop ends at the end of the file or at the first line        *)
(* getline or read_allocs_line rejects; make_allocsites_relation starts. *)
ReadStop ==
    /\ aphase = "read"
    /\ ~(apos <= Len(afile) /\ LineFits(afile[apos]) /\ afile[apos].ok)
    /\ apos' = 1
    /\ aphase' = "relate"
    /\ UNCHANGED <<afile, asites, arel>>

(* make_allocsites_relation, one iteration of the loop over the sites: a  *)
(* blank name is skipped, a special name added as is; any other is        *)
(* resolved by FindType and added, or given up on when no type is found. *)
RelateSite ==
    /\ aphase = "relate"
    /\ apos <= Len(asites)
    /\ LET a == asites[apos]
           t == FindType(a)
       IN \/ IsBlank(a.clean_typename) /\ UNCHANGED arel
          \/ /\ ~IsBlank(a.clean_typename) /\ IsSpecial(a.clean_typename)
             /\ arel' = AddResult(arel, a, <<"", a.clean_typename.core>>, FALSE)
          \/ /\ ~IsBlank(a.clean_typename) /\ ~IsSpecial(a.clean_typename)
             /\ t # END
             /\ arel' = AddResult(arel, a, <<"key", t.id>>, ~t.complete)
          \/ /\ ~IsBlank(a.clean_typename) /\ ~IsSpecial(a.clean_typename)
             /\ t = END
             /\ UNCHANGED arel
    /\ apos' = apos + 1
    /\ UNCHANGED <<afile, asites, aphase>>

(* The loop over the sites ends. *)
RelateDone ==
    /\ aphase = "relate"
    /\ apos > Len(asites)
    /\ aphase' = "done"
    /\ UNCHANGED <<afile, apos, asites, arel>>

AllocNext == OpenAllocs \/ ReadLine \/ ReadStop \/ RelateSite \/ RelateDone

AllocSpec == AllocInit /\ [][AllocNext]_allocVars
-----------------------------------------------------------------------------
(* What the relation should be, stated without the loops.  The sites are *)
(* the lines before the first one too long for the buffer or not parsed. *)
(* A site is resolved to the first type of its name defined in the first *)
(* CU that embodies its source file and defines one; failing that, when  *)
(* some CU embodies the file, to the last type of its name in the index. *)
(* Each key takes the first site of that key that resolves.               *)
FirstBad(lines) ==
    LET bad == {i \in DOMAIN lines : ~(lines[i].len <= BUF_SIZE - 2 /\ lines[i].ok)}
    IN IF bad = {} THEN Len(lines) + 1 ELSE Min(bad)

Embodying(src) ==
    {k \in DOMAIN CUs : CUs[k].named /\ \E i \in DOMAIN CUs[k].files :
                          SourcePath(CUs[k], CUs[k].files[i]) = src}

RefName(l) ==
    LET ts   == TypesNamed(l.tn)
        emb  == Embodying(l.src)
        defd == {k \in emb : \E j \in DOMAIN ts : ts[j][2].cu = k}
    IN IF ~l.tn.mangled /\ l.tn.core = "" THEN END
       ELSE IF l.tn.mangled /\ l.tn.core \in SpecialCores
       THEN [name |-> <<"", l.tn.core>>, array0 |-> l.tn.mangled /\ l.arr]
       ELSE LET t == IF defd # {}
                     THEN ts[Min({j \in DOMAIN ts : ts[j][2].cu = Min(defd)})][2]
                     ELSE IF emb # {} /\ ts # <<>> THEN ts[Len(ts)][2] ELSE END
            IN IF t = END THEN END
               ELSE [name |-> <<"key", t.id>>, array0 |-> l.tn.mangled /\ l.arr /\ t.complete]

RefRelation(lines) ==
    LET read == {i \in DOMAIN lines : i < FirstBad(lines) /\ RefName(lines[i]) # END}
        Key(i) == <<lines[i].obj, lines[i].addr>>
    IN [key \in {Key(i) : i \in read} |->
          RefName(lines[Min({i \in read : Key(i) = key})])]

(* Once the tool has built the relation from a .allocs file of up to      *)
(* MAX_LINES lines, it is the relation described above: the getline       *)
(* buffer bound, the first-CU search with its per-file and per-type       *)
(* loops, the near miss carried from CU to CU, the special names and the  *)
(* std::map insert that keeps the first site of a key all agree with it.  *)
RelationMatchesReference ==
    aphase = "done" => arel = RefRelation(afile)
====
