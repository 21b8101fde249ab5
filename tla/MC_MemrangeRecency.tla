------------------------ MODULE MC_MemrangeRecency ------------------------
(* The MC_MemrangeCache instance with the recency history. *)
EXTENDS MemrangeRecency, MC_MemrangeCache
====
