---------------------------- MODULE MC_AllocSites ----------------------------
(***************************************************************************)
(* A binary of three CUs.  CU 1 (comp_dir /d) is built from a.c and c.c;  *)
(* CU 2 (comp_dir /e) names /d/a.c by its absolute path and holds b.c;   *)
(* CU 3 embodies /d/a.c too but has no name, so it is never searched.     *)
(* struct S is defined in CUs 2 and 3, an incomplete struct T in CU 1,    *)
(* int (C class "signed int") in CU 1, and a typedef in CU 1 names CU 2's *)
(* S; one base type has no name.  The lines allocate S (in a.c, and in   *)
(* c.c, which only CU 1 embodies), T, int by its C name, void, a type no *)
(* CU defines, and nothing; one is too long for the buffer and one does  *)
(* not parse.  Two keys, so that sites collide.                           *)
(***************************************************************************)
EXTENDS AllocSites

Ty(id, cu, complete) == [id |-> id, cu |-> cu, complete |-> complete]

MCCUs ==
    << [named |-> TRUE,  comp_dir |-> <<"/", "d">>, files |-> << <<"a.c">>, <<"c.c">> >>],
       [named |-> TRUE,  comp_dir |-> <<"/", "e">>,
        files |-> << <<"/", "d", "a.c">>, <<"b.c">> >>],
       [named |-> FALSE, comp_dir |-> <<>>, files |-> << <<"/", "d", "a.c">> >>] >>

Die(canon, dname, base, equiv, t) ==
    [canon |-> canon, dname |-> dname, base |-> base, bitfield |-> FALSE,
     equiv |-> equiv, concrete |-> t]

MCTypeDies ==
    << Die("int", "int", TRUE, "signed int", Ty("int1", 1, TRUE)),
       Die("T", "T", FALSE, "", Ty("T1", 1, FALSE)),
       Die("S", "", FALSE, "", Ty("S2", 2, TRUE)),     \* the typedef in CU 1
       Die("", "", TRUE, "", Ty("anon", 1, TRUE)),
       Die("S", "S", FALSE, "", Ty("S2", 2, TRUE)),
       Die("S", "S", FALSE, "", Ty("S3", 3, TRUE)) >>

TN(m, core) == [mangled |-> m, core |-> core]
DA == <<"/", "d", "a.c">>
EB == <<"/", "e", "b.c">>
L(ok, len, addr, src, tn, arr) ==
    [ok |-> ok, len |-> len, obj |-> "prog", addr |-> addr, src |-> src, tn |-> tn, arr |-> arr]

MCLines ==
    { L(TRUE, 40, 1, DA, TN(TRUE, "S"), TRUE),           \* S, found in CU 2
      L(TRUE, 40, 1, <<"/", "d", "c.c">>, TN(TRUE, "S"), TRUE),  \* S, three near misses
      L(TRUE, 4094, 1, EB, TN(TRUE, "T"), TRUE),         \* T, only a near miss
      L(TRUE, 4095, 2, DA, TN(TRUE, "int"), FALSE),      \* too long
      L(FALSE, 40, 2, DA, TN(TRUE, "int"), FALSE),       \* unparsable
      L(TRUE, 40, 2, DA, TN(TRUE, "signed int"), TRUE),  \* int by its C name
      L(TRUE, 40, 2, <<"/", "x.c">>, TN(TRUE, "S"), TRUE),   \* no CU embodies x.c
      L(TRUE, 40, 2, DA, TN(TRUE, "void"), TRUE),        \* special
      L(TRUE, 40, 1, DA, TN(FALSE, ""), FALSE),          \* blank
      L(TRUE, 40, 2, DA, TN(TRUE, ""), FALSE),           \* "__uniqtype__", searched
      L(TRUE, 40, 2, EB, TN(FALSE, "foo"), FALSE) }      \* synthetic
====
