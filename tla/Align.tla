------------------------------- MODULE Align --------------------------------
(***************************************************************************)
(* The alignment helpers of src/sdk/patina/src/base.rs on an unsigned      *)
(* integer type of W bits: is_power_of_two, align_down, align_up and       *)
(* align_range.  Each call is a step that records its arguments and its    *)
(* outcome: Ok with a value, Err(InvalidParameter), or a panic (an         *)
(* arithmetic overflow in a build with overflow checks).  Debug selects    *)
(* the build: with overflow checks, + and - on T panic on overflow;        *)
(* without them they wrap modulo 2^W.                                      *)
(***************************************************************************)
EXTENDS Naturals, Sequences, Bitwise

CONSTANTS
    W,      \* bit width of T
    Debug   \* overflow checks compiled in (debug build)

ASSUME AlignAssumption == W \in Nat \ {0} /\ Debug \in BOOLEAN

MaxWord == 2^W - 1

Word == 0..MaxWord

\* An outcome: Ok(val), or Ok((val, len)) for align_range, Err or a panic.
OkPair(v, l) == [tag |-> "Ok", val |-> v, len |-> l]

Ok(v) == OkPair(v, 0)

Err == [tag |-> "Err", val |-> 0, len |-> 0]

Panic == [tag |-> "Panic", val |-> 0, len |-> 0]

\* !x on T: the W-bit complement.
Complement(x) == MaxWord - x

\* Mutation variant: the x > 0 test replaced by x > 1.
IsPowerOfTwoFromTwo(x) == x > 1 /\ (x & (x - 1)) = 0

\* is_power_of_two: x > 0 && (x & (x - 1)) == 0; && short-circuits, so
\* x - 1 is never taken of 0.
IsPowerOfTwo(x) == x > 0 /\ (x & (x - 1)) = 0

\* Mutation variant: the mask built from align instead of align - 1.
AlignDownMaskOffByOne(addr, align) ==
    IF ~IsPowerOfTwo(align) THEN Err ELSE Ok(addr & Complement(align))

\* align_down: addr & !(align - 1).
AlignDown(addr, align) ==
    IF ~IsPowerOfTwo(align) THEN Err ELSE Ok(addr & Complement(align - 1))

\* Mutation variant: a wrapping add in place of checked_add.
AlignUpWrapping(addr, align) ==
    IF ~IsPowerOfTwo(align) THEN Err
    ELSE LET mask == align - 1
         IN  IF (addr & mask) = 0 THEN Ok(addr)
             ELSE Ok(((addr | mask) + 1) % 2^W)

\* align_up: an aligned addr is returned as is; otherwise
\* (addr | mask).checked_add(1), None becoming InvalidParameter.
AlignUp(addr, align) ==
    IF ~IsPowerOfTwo(align) THEN Err
    ELSE LET mask == align - 1
         IN  IF (addr & mask) = 0 THEN Ok(addr)
             ELSE IF (addr | mask) + 1 > MaxWord THEN Err
             ELSE Ok((addr | mask) + 1)

\* Mutation variant: the addition wraps in a debug build too.
AddWrapping(a, b) == Ok((a + b) % 2^W)

\* a + b on T: panics on overflow in a debug build, wraps in a release build.
Add(a, b) ==
    IF a + b <= MaxWord THEN Ok(a + b)
    ELSE IF Debug THEN Panic ELSE Ok((a + b) % 2^W)

\* a - b on T.
Sub(a, b) ==
    IF a >= b THEN Ok(a - b)
    ELSE IF Debug THEN Panic ELSE Ok((a + 2^W - b) % 2^W)

\* align_range: align_up(base + length, align)?, align_down(base, align)?,
\* then the aligned length aligned_end - aligned_base.
AlignRange(base, length, align) ==
    IF ~IsPowerOfTwo(align) THEN Err
    ELSE LET sum == Add(base, length)
         IN  IF sum.tag = "Panic" THEN Panic
             ELSE LET end == AlignUp(sum.val, align)
                  IN  IF end.tag = "Err" THEN Err
                      ELSE LET b == AlignDown(base, align)
                               len == Sub(end.val, b.val)
                           IN  IF len.tag = "Panic" THEN Panic
                               ELSE OkPair(b.val, len.val)

-----------------------------------------------------------------------------
VARIABLES
    call,    \* the last call: its function and arguments
    result   \* its outcome

vars == <<call, result>>

Init ==
    /\ call = [op |-> "none", args |-> <<>>]
    /\ result = Err

\* A caller invokes one of the functions on arguments of type T.
Idle == call.op = "none"

CallIsPowerOfTwo(x) ==
    /\ Idle
    /\ call' = [op |-> "is_power_of_two", args |-> <<x>>]
    /\ result' = IF IsPowerOfTwo(x) THEN Ok(1) ELSE Ok(0)

CallAlignDown(addr, align) ==
    /\ Idle
    /\ call' = [op |-> "align_down", args |-> <<addr, align>>]
    /\ result' = AlignDown(addr, align)

CallAlignUp(addr, align) ==
    /\ Idle
    /\ call' = [op |-> "align_up", args |-> <<addr, align>>]
    /\ result' = AlignUp(addr, align)

CallAlignRange(base, length, align) ==
    /\ Idle
    /\ call' = [op |-> "align_range", args |-> <<base, length, align>>]
    /\ result' = AlignRange(base, length, align)

\* The caller takes the outcome.
Return ==
    /\ ~Idle
    /\ call' = [op |-> "none", args |-> <<>>]
    /\ result' = Err

Next ==
    \/ Return
    \/ \E x \in Word : CallIsPowerOfTwo(x)
    \/ \E a, al \in Word : CallAlignDown(a, al) \/ CallAlignUp(a, al)
    \/ \E b, l, al \in Word : CallAlignRange(b, l, al)

Spec == Init /\ [][Next]_vars

-----------------------------------------------------------------------------
(* Reference definitions: arithmetic, with no bit operations.              *)

PowersOfTwo == {2^k : k \in 0..(W - 1)}

RoundDown(x, a) == x - (x % a)

RoundUp(x, a) == IF x % a = 0 THEN x ELSE RoundDown(x, a) + a

\* is_power_of_two accepts exactly the powers of two 1, 2, 4, ... of T.
IsPowerOfTwoCorrect ==
    call.op = "is_power_of_two" =>
        (result = Ok(1) <=> call.args[1] \in PowersOfTwo)

\* align_down returns the largest multiple of align not above addr, and
\* fails exactly when align is not a power of two.
AlignDownCorrect ==
    call.op = "align_down" =>
        LET addr == call.args[1]  align == call.args[2]
        IN  result = IF align \in PowersOfTwo THEN Ok(RoundDown(addr, align)) ELSE Err

\* align_up returns the least multiple of align not below addr, and fails
\* exactly when align is not a power of two or that multiple exceeds T::MAX.
AlignUpCorrect ==
    call.op = "align_up" =>
        LET addr == call.args[1]  align == call.args[2]
        IN  result = IF align \in PowersOfTwo /\ RoundUp(addr, align) <= MaxWord
                     THEN Ok(RoundUp(addr, align)) ELSE Err

\* A range align_range returns Ok for is aligned and covers the requested
\* one: aligned_base <= base and base + length <= aligned_base + aligned_length
\* (its doc comment: "the length is adjusted accordingly").
AlignRangeCovers ==
    call.op = "align_range" /\ result.tag = "Ok" =>
        LET base == call.args[1]  length == call.args[2]  align == call.args[3]
            b == result.val  l == result.len
        IN  /\ b % align = 0 /\ l % align = 0
            /\ b <= base
            /\ base + length <= b + l

====
