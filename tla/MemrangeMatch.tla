--------------------------- MODULE MemrangeMatch ---------------------------
(***************************************************************************)
(* The matching engine of the liballocs memrange cache                     *)
(* (src/include/liballocs_cil_inlines.h): the per-entry tests that         *)
(* __liballocs_memrange_cache_lookup_with_type, ..._lookup_with_size and   *)
(* ..._lookup_range apply to one valid cache entry.                        *)
(*                                                                         *)
(* A uniqtype is abstracted to the five fields the cache reads through the *)
(* UNIQTYPE_QD_* accessors: its size (pos_maxoff), whether its kind is an  *)
(* array, its related[0] type (the element type of an array) and its       *)
(* cache word (the hinted contained type and its offset).                  *)
(*                                                                         *)
(* The C predicates are short-circuit conjunctions.  MODULUS is            *)
(* diff % period, which traps (SIGFPE) when period is 0, and               *)
(* UNIQTYPE_QD_SIZE(t) dereferences t, which faults (SIGSEGV) when t is    *)
(* null.  Evaluating an entry therefore has four outcomes: "hit", "miss",  *)
(* "SIGFPE" and "SIGSEGV", and the evaluation order of the code decides    *)
(* which one is reached.                                                   *)
(***************************************************************************)
EXTENDS Integers

CONSTANTS
    Types,      \* the (non-null) uniqtypes that entries and queries name
    NullType,   \* the null uniqtype pointer
    TypeDesc    \* [Types -> [pos_maxoff, is_array, related0, cw_addr, cw_bits]]

AnyType == Types \cup {NullType}

ASSUME NullType \notin Types
ASSUME \A t \in Types :
         /\ TypeDesc[t].pos_maxoff \in Nat
         /\ TypeDesc[t].related0 \in AnyType
         /\ TypeDesc[t].cw_addr \in AnyType
         /\ TypeDesc[t].cw_bits \in Nat
         \* an array's related[0] is its element type, of nonzero size
         /\ TypeDesc[t].is_array =>
              /\ TypeDesc[t].related0 \in Types
              /\ TypeDesc[TypeDesc[t].related0].pos_maxoff > 0

(* The UNIQTYPE_QD_* accessors, on a non-null type. *)
QdSize(t)          == TypeDesc[t].pos_maxoff
QdIsArray(t)       == TypeDesc[t].is_array
QdElementSize(t)   == QdSize(TypeDesc[t].related0)
QdCacheWordAddr(t) == TypeDesc[t].cw_addr
QdCacheWordBits(t) == TypeDesc[t].cw_bits

(* A query: which entry point, the address, the query type and period. *)
Query(kind, obj, qt, qp) == [kind |-> kind, obj |-> obj, qt |-> qt, qp |-> qp]

(* The common in-bounds test of every lookup. *)
InRange(e, obj) == e.range_base <= obj /\ obj < e.range_limit

(* MODULUS, when the period is nonzero; diff >= 0 once InRange holds.    *)
(* C's % truncates, but x % d = 0 has the same truth value for d > 0.   *)
Modulus(e, obj) == (obj - e.range_base) % e.period
MultipleOf(x, d) == x % d = 0

(***************************************************************************)
(* The five rules of lookup_with_type, each split into the part evaluated *)
(* before MODULUS (Pre) and the part that needs it (Post).                 *)
(***************************************************************************)
TypeRulePre(e, qt, r) ==
    CASE r = 1 -> e.t = qt
      [] r = 2 -> e.t = qt
      [] r = 3 -> e.t # NullType /\ QdIsArray(e.t)
      [] r = 4 -> e.t # NullType /\ qt = QdCacheWordAddr(e.t)
      [] r = 5 -> /\ e.t # NullType
                  /\ QdCacheWordAddr(e.t) # NullType
                  /\ QdIsArray(QdCacheWordAddr(e.t))

TypeRulePost(e, m, r) ==
    CASE r = 1 -> m = 0
      [] r = 2 -> m = e.offset_to_t
      [] r = 3 -> MultipleOf(m - e.offset_to_t, QdElementSize(e.t))
      [] r = 4 -> m - e.offset_to_t = QdCacheWordBits(e.t)
      [] r = 5 -> MultipleOf(m - e.offset_to_t - QdCacheWordBits(e.t),
                             QdElementSize(QdCacheWordAddr(e.t)))

(* One entry under lookup_with_type(obj, qt, qp). *)
WithTypeOutcome(e, obj, qt, qp) ==
    IF ~(InRange(e, obj) /\ (qp = 0 \/ e.period = qp)) THEN "miss"
    ELSE IF qt = NullType THEN "hit"
    ELSE IF e.period = 0
         THEN IF \E r \in 1..5 : TypeRulePre(e, qt, r) THEN "SIGFPE" ELSE "miss"
    ELSE IF \E r \in 1..5 : TypeRulePre(e, qt, r)
                            /\ TypeRulePost(e, Modulus(e, obj), r)
         THEN "hit" ELSE "miss"

(***************************************************************************)
(* The five QUERY_SIZE_MATCHES_* rules of lookup_with_size.  Rule 1        *)
(* evaluates MODULUS first, unguarded; rule 2 reads the size of the entry  *)
(* type without testing it for null.                                       *)
(***************************************************************************)
SizeRule1(e, m, qp) == m = 0 /\ qp = e.period
SizeRule3(e, m, qp) ==
    /\ e.t # NullType /\ QdIsArray(e.t)
    /\ MultipleOf(m - e.offset_to_t, QdElementSize(e.t))
    /\ qp = QdElementSize(e.t)
SizeRule4(e, m, qp) ==
    /\ e.t # NullType
    /\ m - e.offset_to_t = QdCacheWordBits(e.t)
    /\ QdCacheWordAddr(e.t) # NullType
    /\ qp = QdSize(QdCacheWordAddr(e.t))
SizeRule5(e, m, qp) ==
    /\ e.t # NullType
    /\ QdCacheWordAddr(e.t) # NullType
    /\ QdIsArray(QdCacheWordAddr(e.t))
    /\ MultipleOf(m - e.offset_to_t - QdCacheWordBits(e.t),
                  QdElementSize(QdCacheWordAddr(e.t)))
    /\ QdElementSize(QdCacheWordAddr(e.t)) = qp

(* One entry under lookup_with_size(obj, qp), qp # 0. *)
WithSizeOutcome(e, obj, qp) ==
    IF ~InRange(e, obj) THEN "miss"
    ELSE IF e.period = 0 THEN "SIGFPE"
    ELSE LET m == Modulus(e, obj) IN
         IF SizeRule1(e, m, qp) THEN "hit"
         ELSE IF m = e.offset_to_t /\ e.t = NullType THEN "SIGSEGV"
         ELSE IF \/ m = e.offset_to_t /\ QdSize(e.t) = qp
                 \/ SizeRule3(e, m, qp) \/ SizeRule4(e, m, qp)
                 \/ SizeRule5(e, m, qp)
              THEN "hit" ELSE "miss"

(* One entry under lookup_range(obj). *)
RangeOutcome(e, obj) == IF InRange(e, obj) THEN "hit" ELSE "miss"

(* The outcome of testing entry e against query q.  get_cached_object_type *)
(* is lookup_with_type(addr, NULL, 0).                                     *)
Outcome(e, q) ==
    CASE q.kind = "with_type"   -> WithTypeOutcome(e, q.obj, q.qt, q.qp)
      [] q.kind = "object_type" -> WithTypeOutcome(e, q.obj, NullType, 0)
      [] q.kind = "with_size"   -> WithSizeOutcome(e, q.obj, q.qp)
      [] q.kind = "range"       -> RangeOutcome(e, q.obj)

Faults == {"SIGFPE", "SIGSEGV"}
=============================================================================
