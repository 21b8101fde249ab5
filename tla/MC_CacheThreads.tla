-------------------------- MODULE MC_CacheThreads --------------------------
(***************************************************************************)
(* Two threads on a three-slot cache, each running any one operation on   *)
(* any slot: bumping, invalidating or scanning.                           *)
(***************************************************************************)
EXTENDS CacheThreads

CONSTANTS t1, t2

MCThreads == {t1, t2}

AllOps == [op : {"bump", "invalidate", "scan"}, slot : 1..3]

(* Only bumps and invalidations: the hits of two threads, or a hit racing *)
(* the free hook of another thread.                                        *)
WriteOps == [op : {"bump", "invalidate"}, slot : 1..3]
=============================================================================
