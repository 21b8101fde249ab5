--------------------------- MODULE MemrangeRecency ---------------------------
(***************************************************************************)
(* The memrange cache with a history variable: newest is the fact the     *)
(* program touched last, by installing it (__liballocs_cache_with_type)   *)
(* or by a lookup that returned it.  It adds no behaviour to the cache:  *)
(* every step is a step of MemrangeCache, and newest only records it.     *)
(***************************************************************************)
EXTENDS MemrangeCache

VARIABLES
    newest  \* the fact last installed or returned by a lookup; NoFact before

NoFact == [k \in FactFields |-> 0]

recVars == <<cache, last, fault, newest>>

CachedFacts(c) == {FactOf(c.entries[i]) : i \in c.validity}

RecencyInit == Init /\ newest = NoFact

RecencyNext ==
    \/ \E f \in Facts : Insert(f) /\ newest' = f
    \/ \E r \in Regions : Uncache(r) /\ UNCHANGED newest
    \/ \E q \in Queries :
         \/ LookupHit(q) /\ newest' = FactOf(cache.entries[last'.hit])
         \/ (LookupMiss(q) \/ LookupFault(q)) /\ UNCHANGED newest

RecencySpec == RecencyInit /\ [][RecencyNext]_recVars
-----------------------------------------------------------------------------
(* The fact the program touched last, by an insert or by a hit, is still *)
(* cached after the next insert, in a store of two or more slots: the    *)
(* bump in __liballocs_cache_with_type and in the lookups must move the  *)
(* FIFO victim past the slot just written or hit.  A hit on one entry    *)
(* between two inserts, an invalidation that resets next_victim, and the *)
(* wrap of next_victim all feed into which slot the next insert takes.    *)
RecentTouchSurvivesInsert ==
    [][ (\E f \in Facts : Insert(f)) /\ newest \in CachedFacts(cache) /\ MAX_SIZE > 1
          => newest \in CachedFacts(cache') ]_recVars
====
