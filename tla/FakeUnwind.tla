----------------------------- MODULE FakeUnwind -----------------------------
(***************************************************************************)
(* The frame-pointer stack walker of src/src/fake-libunwind.c.             *)
(*                                                                         *)
(* A caller takes a context with unw_getcontext, copies it into a cursor   *)
(* with unw_init_local and calls unw_step until it returns 0 (end of the   *)
(* chain) or a negative value (error).  Each step reads the saved frame    *)
(* pointer and return address of the current frame and moves the cursor   *)
(* to the caller's frame.                                                  *)
(*                                                                         *)
(* Memory is a function from word-aligned addresses to words; it is only   *)
(* read during a walk, so it is chosen once, in Init.  Addresses are       *)
(* unsigned integers of ADDR_BITS bits, so pointer arithmetic wraps.  The  *)
(* two constants of the code, 0x10000 (SANE_BP_OR_NULL) and 0x10000000     *)
(* (the 256MB hack in unw_step), are the constants SANE_LIMIT and          *)
(* STEP_LIMIT, scaled down with the address width.                         *)
(***************************************************************************)
EXTENDS Integers

CONSTANTS
    ADDR_BITS,    \* width of unw_word_t
    WORD,         \* sizeof (void * )
    SANE_LIMIT,   \* 0x10000 in SANE_BP_OR_NULL
    STEP_LIMIT,   \* 0x10000000 in unw_step's sanity check
    StackWords,   \* the word addresses the walk may read
    Vals,         \* the words memory may hold there
    NDEBUG        \* TRUE when assert() is compiled out

AddrSpace == 2^ADDR_BITS

ASSUME /\ WORD \in Nat \ {0}
       /\ StackWords \subseteq {a \in 0..AddrSpace - 1 : a % WORD = 0}
       /\ Vals \subseteq 0..AddrSpace - 1
       /\ 0 \in Vals

VARIABLES
    mem,     \* the stack: [StackWords -> Vals]
    cursor,  \* unw_cursor_t: [sp, bp, ip]
    ret,     \* the value the last unw_step returned (NoRet before the first)
    phase    \* "walking", "done" (the caller stopped) or "aborted" (assert)

vars == <<mem, cursor, ret, phase>>

NoRet == AddrSpace   \* not a value unw_step can return

(* Words outside the modelled stack read as zero. *)
Read(a) == IF a \in StackWords THEN mem[a] ELSE 0

(* Unsigned arithmetic on unw_word_t. *)
Plus(a, b)  == (a + b) % AddrSpace
Minus(a, b) == (a - b + AddrSpace) % AddrSpace

(* Mutant: the lower bound dropped, so a saved bp below sp is kept. *)
SaneBpOrNull_NoLowerBound(bp, sp) ==
    IF bp - sp < SANE_LIMIT THEN bp ELSE 0

(* SANE_BP_OR_NULL(bp, sp): bp is kept if it is at or above sp and less *)
(* than 0x10000 above it.  (char* ) bp - (char* ) sp is a signed ptrdiff. *)
SaneBpOrNull(bp, sp) ==
    IF bp >= sp /\ bp - sp < SANE_LIMIT THEN bp ELSE 0

(* unw_getcontext followed by unw_init_local (which copies the context   *)
(* into the cursor), called from a frame whose frame address is f.        *)
GetContext(f) ==
    LET caller_bp == Read(f)
        caller_sp == Plus(f, 2 * WORD)
    IN [sp |-> caller_sp, bp |-> SaneBpOrNull(caller_bp, caller_sp),
        ip |-> Read(Plus(f, WORD))]

(* The frame addresses unw_getcontext may be called with: a word of the  *)
(* stack whose saved bp is nonzero (assert(caller_bp != 0)).              *)
EntryFrames == {f \in StackWords : f # 0 /\ Read(f) # 0}

Init ==
    /\ mem \in [StackWords -> Vals]
    /\ \E f \in EntryFrames : cursor = GetContext(f)
    /\ ret = NoRet
    /\ phase = "walking"

(* The caller's loop: while (unw_step(&cursor) > 0) ... *)
Continue(r) == IF r > 0 THEN "walking" ELSE "done"

(* The words of the frame at bp: saved bp and return address.  Under     *)
(* NDEBUG a misaligned bp is dereferenced; what that load yields is not  *)
(* a word of the model, so it is any value memory may hold.              *)
FrameWords(bp) ==
    IF bp % WORD = 0 THEN {<<Read(bp), Read(Plus(bp, WORD))>>}
    ELSE Vals \X Vals

(* The result check of unw_step: new_ctxt.frame_sp > sp, or at most    *)
(* sp - 0x10000000 (unsigned).                                            *)
Dodgy(new_sp, sp) ==
    new_sp > sp \/ new_sp <= Minus(sp, STEP_LIMIT)

(* unw_step, the whole function, and the caller's test of its result. *)
Step ==
    /\ phase = "walking"
    /\ IF cursor.bp = 0
       THEN /\ ret' = 0
            /\ phase' = "done"
            /\ UNCHANGED cursor
       ELSE IF cursor.bp % WORD # 0 /\ ~NDEBUG
       THEN /\ phase' = "aborted"
            /\ UNCHANGED <<cursor, ret>>
       ELSE \E w \in FrameWords(cursor.bp) :
              LET sp  == Plus(cursor.bp, 2 * WORD)
                  new == [sp |-> sp, bp |-> SaneBpOrNull(w[1], sp), ip |-> w[2]]
              IN IF Dodgy(new.sp, sp)
                 THEN /\ ret' = -1
                      /\ phase' = "done"
                      /\ UNCHANGED cursor
                 ELSE /\ cursor' = new
                      /\ ret' = Minus(new.sp, cursor.sp)
                      /\ phase' = Continue(ret')
    /\ UNCHANGED mem

(* The walk has ended; the caller goes on with other work. *)
Finished ==
    /\ phase # "walking"
    /\ UNCHANGED vars

Next == Step \/ Finished

(* The caller keeps calling unw_step while it returns a positive value. *)
Spec == Init /\ [][Next]_vars /\ WF_vars(Step)

-----------------------------------------------------------------------------
(* Every walk ends: the loop `while (unw_step(&c) > 0)` terminates,       *)
(* whatever the stack holds.  It rests on SANE_BP_OR_NULL only accepting  *)
(* a saved bp at or above the new sp, so that bp strictly increases.      *)
WalkTerminates == <>(phase # "walking")

(* Every successful step moves the cursor up the stack (to the caller's   *)
(* frame), and returns exactly the number of bytes it moved: the new sp is *)
(* above the old one and at most two words plus SANE_LIMIT above it.       *)
StepMovesUp ==
    [][ Step /\ phase' = "walking" =>
          /\ cursor'.sp > cursor.sp
          /\ cursor'.sp - cursor.sp = ret'
          /\ ret' <= SANE_LIMIT + 2 * WORD ]_vars

(* unw_step asserts that the frame pointer is aligned ("should NEVER be   *)
(* misaligned"): a walk never ends by failing that assertion, i.e. the    *)
(* cursor only ever holds a bp that SANE_BP_OR_NULL and the assertion     *)
(* agree on.                                                               *)
NoAssertAbort == phase # "aborted"
=============================================================================
