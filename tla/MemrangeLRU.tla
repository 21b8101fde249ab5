---------------------------- MODULE MemrangeLRU ----------------------------
(***************************************************************************)
(* What the memrange cache promises under MRU replacement (the default     *)
(* build), stated without slots, bitmasks or links: the cache is a list of *)
(* at most MAX_SIZE distinct facts, most recently used first.              *)
(*   - an insert puts the new fact first and, when the list is full, drops *)
(*     the least recently used fact (the last one);                        *)
(*   - a lookup returns the most recently used fact that matches and moves *)
(*     it to the front; a miss changes nothing;                            *)
(*   - uncache_all drops the facts based inside the span, keeping the      *)
(*     order of the others.                                                *)
(* MemrangeCache implements this specification (ImplementsLRU).            *)
(***************************************************************************)
EXTENDS MemrangeMatch, Sequences, SequencesExt

CONSTANTS MAX_SIZE, Facts, Queries, Regions

VARIABLES
    order,  \* the cached facts, most recently used first
    last    \* the latest lookup: its query and the fact returned (<<>>: none)

vars == <<order, last>>

NoLookup == [q |-> Query("none", 0, NullType, 0), hit |-> <<>>]

Init ==
    /\ order = <<>>
    /\ last = NoLookup

Insert(f) ==
    /\ f \notin ToSet(order)
    /\ order' = <<f>> \o (IF Len(order) < MAX_SIZE THEN order
                          ELSE SubSeq(order, 1, MAX_SIZE - 1))
    /\ last' = NoLookup

BasedIn(f, r) == r.base <= f.range_base /\ f.range_base < r.base + r.size

Uncache(r) ==
    /\ order' = SelectSeq(order, LAMBDA f : ~BasedIn(f, r))
    /\ last' = NoLookup

FirstMatch(q) == SelectInSeq(order, LAMBDA f : Outcome(f, q) = "hit")

LookupHit(q) ==
    LET k == FirstMatch(q)
    IN /\ k # 0
       /\ order' = <<order[k]>> \o RemoveAt(order, k)
       /\ last' = [q |-> q, hit |-> <<order[k]>>]

LookupMiss(q) ==
    /\ FirstMatch(q) = 0
    /\ last' = [q |-> q, hit |-> <<>>]
    /\ UNCHANGED order

Next ==
    \/ \E f \in Facts : Insert(f)
    \/ \E r \in Regions : Uncache(r)
    \/ \E q \in Queries : LookupHit(q) \/ LookupMiss(q)

Spec == Init /\ [][Next]_vars
=============================================================================
