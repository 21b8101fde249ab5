---------------------------- MODULE CacheThreads ----------------------------
(***************************************************************************)
(* The global __liballocs_ool_cache (src/src/cache.c) used by several      *)
(* threads at once.  The FIXME there says it should be thread-local; it is *)
(* not, and nothing locks it.  Here each thread runs one cache operation   *)
(* of the MRU build statement by statement, so that the statements of two  *)
(* threads interleave:                                                     *)
(*   "bump"       __liballocs_cache_bump(cache, i), the step of every hit; *)
(*   "invalidate" __liballocs_cache_invalidate(cache, i), the step of      *)
(*                __liballocs_uncache_all for each dropped entry;          *)
(*   "scan"       the loop of a lookup that misses: it follows next_mru    *)
(*                from head_mru until it reaches 0.                        *)
(* Each C statement is one atomic step, memory is sequentially consistent *)
(* and the debug-only sanity checks are compiled out.  A finer grain or    *)
(* the weaker x86 memory order only add behaviours, so a violation found   *)
(* here is one the program can show.  Only the list links, head_mru,       *)
(* tail_mru, validity and next_victim are modelled: the facts play no part *)
(* in these statements.                                                    *)
(***************************************************************************)
EXTENDS Naturals, Sequences, SequencesExt, FiniteSets

CONSTANTS
    MAX_SIZE,   \* LIBALLOCS_MEMRANGE_CACHE_MAX_SIZE
    Threads,    \* the threads using the cache
    Ops         \* the operations a thread may run: a set of [op, slot]

Slots == 1..MAX_SIZE
Index == 0..MAX_SIZE

ASSUME Ops \subseteq [op : {"bump", "invalidate", "scan"}, slot : Slots]

VARIABLES
    cache,   \* [next, prev : [Slots -> Index], head, tail : Index,
             \*  validity : SUBSET Slots, next_victim : Slots]
    work,    \* the operation each thread runs
    pc,      \* the statement each thread runs next
    loc      \* each thread's locals: our_next, our_prev, the validity word
             \* it read, the index its scan is at, where unlink returns to

vars == <<cache, work, pc, loc>>

Pos(p, i) == CHOOSE k \in DOMAIN p : p[k] = i

(* A list of all MAX_SIZE slots, in the order of the permutation p. *)
Linked(p) ==
    [next |-> [i \in Slots |-> LET k == Pos(p, i)
                                IN IF k = MAX_SIZE THEN 0 ELSE p[k + 1]],
     prev |-> [i \in Slots |-> LET k == Pos(p, i)
                                IN IF k = 1 THEN 0 ELSE p[k - 1]],
     head |-> p[1], tail |-> p[MAX_SIZE],
     validity |-> Slots, next_victim |-> 1]

(* A full cache, in any recency order: a state every run reaches. *)
Init ==
    /\ cache \in {Linked(p) : p \in {q \in [Slots -> Slots] : IsInjective(q)}}
    /\ work \in [Threads -> Ops]
    /\ pc = [t \in Threads |-> CASE work[t].op = "bump"       -> "B0"
                                 [] work[t].op = "invalidate" -> "I1"
                                 [] work[t].op = "scan"       -> "S0"]
    /\ loc = [t \in Threads |-> [our_next |-> 0, our_prev |-> 0, word |-> {},
                                 at |-> 0, ret |-> "Done"]]

Goto(t, l) == pc' = [pc EXCEPT ![t] = l]
SetLoc(t, f, v) == loc' = [loc EXCEPT ![t][f] = v]

(***************************************************************************)
(* __liballocs_cache_bump, MRU build (lines 284-288).                       *)
(***************************************************************************)
B0(t) ==
    /\ pc[t] = "B0"
    /\ IF cache.head = work[t].slot
       THEN Goto(t, "Done") /\ UNCHANGED loc
       ELSE Goto(t, "U1") /\ SetLoc(t, "ret", "L1")
    /\ UNCHANGED <<cache, work>>

(***************************************************************************)
(* __liballocs_cache_unlink_mru(cache, i), one step per statement.          *)
(***************************************************************************)
U1(t) ==
    /\ pc[t] = "U1"
    /\ SetLoc(t, "our_next", cache.next[work[t].slot])
    /\ Goto(t, "U2")
    /\ UNCHANGED <<cache, work>>

U2(t) ==
    /\ pc[t] = "U2"
    /\ SetLoc(t, "our_prev", cache.prev[work[t].slot])
    /\ Goto(t, "U3")
    /\ UNCHANGED <<cache, work>>

U3(t) ==
    /\ pc[t] = "U3"
    /\ LET p == loc[t].our_prev
       IN cache' = IF p # 0 THEN [cache EXCEPT !.next[p] = loc[t].our_next] ELSE cache
    /\ Goto(t, "U4")
    /\ UNCHANGED <<work, loc>>

U4(t) ==
    /\ pc[t] = "U4"
    /\ LET n == loc[t].our_next
       IN cache' = IF n # 0 THEN [cache EXCEPT !.prev[n] = loc[t].our_prev] ELSE cache
    /\ Goto(t, "U5")
    /\ UNCHANGED <<work, loc>>

U5(t) ==
    /\ pc[t] = "U5"
    /\ cache' = IF cache.head = work[t].slot
                THEN [cache EXCEPT !.head = loc[t].our_next] ELSE cache
    /\ Goto(t, "U6")
    /\ UNCHANGED <<work, loc>>

U6(t) ==
    /\ pc[t] = "U6"
    /\ cache' = IF cache.tail = work[t].slot
                THEN [cache EXCEPT !.tail = loc[t].our_prev] ELSE cache
    /\ Goto(t, loc[t].ret)
    /\ UNCHANGED <<work, loc>>

(***************************************************************************)
(* __liballocs_cache_link_head_mru(cache, i), one step per statement.       *)
(***************************************************************************)
L1(t) ==
    /\ pc[t] = "L1"
    /\ cache' = [cache EXCEPT !.prev[work[t].slot] = 0]
    /\ Goto(t, "L2")
    /\ UNCHANGED <<work, loc>>

L2(t) ==
    /\ pc[t] = "L2"
    /\ cache' = [cache EXCEPT !.next[work[t].slot] = cache.head]
    /\ Goto(t, "L3")
    /\ UNCHANGED <<work, loc>>

L3(t) ==
    /\ pc[t] = "L3"
    /\ cache' = IF cache.head # 0
                THEN [cache EXCEPT !.prev[cache.head] = work[t].slot] ELSE cache
    /\ Goto(t, "L4")
    /\ UNCHANGED <<work, loc>>

L4(t) ==
    /\ pc[t] = "L4"
    /\ cache' = [cache EXCEPT !.head = work[t].slot]
    /\ Goto(t, "L5")
    /\ UNCHANGED <<work, loc>>

L5(t) ==
    /\ pc[t] = "L5"
    /\ cache' = IF cache.tail = 0 THEN [cache EXCEPT !.tail = work[t].slot] ELSE cache
    /\ Goto(t, "Done")
    /\ UNCHANGED <<work, loc>>

(***************************************************************************)
(* __liballocs_cache_invalidate(cache, i), MRU build.  Each               *)
(* `validity &= ~bit` is a load and a store of the shared word.             *)
(***************************************************************************)
ReadValidity(t, next) ==
    /\ SetLoc(t, "word", cache.validity)
    /\ Goto(t, next)
    /\ UNCHANGED <<cache, work>>

WriteValidity(t, next) ==
    /\ cache' = [cache EXCEPT !.validity = loc[t].word \ {work[t].slot}]
    /\ Goto(t, next)
    /\ UNCHANGED <<work, loc>>

I1(t) == pc[t] = "I1" /\ ReadValidity(t, "I2")
I2(t) == pc[t] = "I2" /\ WriteValidity(t, "I3")

I3(t) ==
    /\ pc[t] = "I3"
    /\ cache' = [cache EXCEPT !.next_victim = work[t].slot]
    /\ Goto(t, "U1")
    /\ SetLoc(t, "ret", "I4")
    /\ UNCHANGED work

I4(t) == pc[t] = "I4" /\ ReadValidity(t, "I5")
I5(t) == pc[t] = "I5" /\ WriteValidity(t, "Done")

(***************************************************************************)
(* The loop of a lookup that misses (line 333):                           *)
(*   for (i = cache->head_mru; i != 0; i = cache->entries[i].next_mru)      *)
(***************************************************************************)
S0(t) ==
    /\ pc[t] = "S0"
    /\ SetLoc(t, "at", cache.head)
    /\ Goto(t, "S1")
    /\ UNCHANGED <<cache, work>>

S1(t) ==
    /\ pc[t] = "S1"
    /\ IF loc[t].at = 0
       THEN Goto(t, "Done") /\ UNCHANGED loc
       ELSE SetLoc(t, "at", cache.next[loc[t].at]) /\ UNCHANGED pc
    /\ UNCHANGED <<cache, work>>

Step(t) ==
    \/ B0(t) \/ U1(t) \/ U2(t) \/ U3(t) \/ U4(t) \/ U5(t) \/ U6(t)
    \/ L1(t) \/ L2(t) \/ L3(t) \/ L4(t) \/ L5(t)
    \/ I1(t) \/ I2(t) \/ I3(t) \/ I4(t) \/ I5(t)
    \/ S0(t) \/ S1(t)

AllDone == \A t \in Threads : pc[t] = "Done"

(* Every thread has returned; the program goes on. *)
Quiescent == AllDone /\ UNCHANGED vars

Next == (\E t \in Threads : Step(t)) \/ Quiescent

(* A thread that can run a statement eventually does: the OS scheduler   *)
(* runs every runnable thread, and no statement here ever blocks.         *)
Spec == Init /\ [][Next]_vars /\ \A t \in Threads : WF_vars(Step(t))

-----------------------------------------------------------------------------
RECURSIVE Walk(_, _, _)
Walk(links, i, fuel) ==
    IF i = 0 \/ fuel = 0 THEN <<>> ELSE <<i>> \o Walk(links, links[i], fuel - 1)

(* Once every thread has returned, following next_mru from head_mru     *)
(* reaches 0 within MAX_SIZE steps.  If it does not, the list is cyclic   *)
(* and every later lookup that misses (the unbounded for loop of line     *)
(* 333) spins forever: the program hangs in its next type query.          *)
ListAcyclicAfterRace ==
    AllDone => Len(Walk(cache.next, cache.head, MAX_SIZE + 1)) <= MAX_SIZE

=============================================================================
