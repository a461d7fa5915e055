------------------------------ MODULE Numbers ------------------------------
(***************************************************************************)
(* The arithmetic the light clients do themselves: 256-bit numbers in      *)
(* limbs and the compact form of a target (qlc-bitcoin work.rs, lib.rs,    *)
(* retarget.rs), and the varints of the Cosmos encoding (qlc-cosmos        *)
(* proto.rs, proof.rs), at any width.  The code has 4 limbs of 8 bytes of  *)
(* 8 bits, and groups of 7 bits in 64.  Every operation is stated beside   *)
(* what it should compute.                                                 *)
(***************************************************************************)
EXTENDS Integers, Sequences, SequencesExt

CONSTANTS LIMBS, LIMB_BYTES, BYTE, GROUP, WORD

ASSUME NumbersAssumption ==
    /\ {LIMBS, LIMB_BYTES, BYTE, GROUP, WORD} \subseteq Nat \ {0}
    /\ LIMBS * LIMB_BYTES > 3 /\ WORD % GROUP = 1

BYTES == LIMBS * LIMB_BYTES
BITS == BYTES * BYTE
B == 2 ^ BYTE
L == 2 ^ (BYTE * LIMB_BYTES)
Modulus == 2 ^ BITS

Upward(n) == [i \in 1 .. n |-> i]
Downward(n) == Reverse(Upward(n))

\* Least significant limb first, as in the code.
number(limbs) == FoldRight(LAMBDA limb, acc : acc * L + limb, limbs, 0)
limbs_of(n) == [i \in 1 .. LIMBS |-> (n \div L ^ (i - 1)) % L]

ZERO == limbs_of(0)
ONE == limbs_of(1)

-----------------------------------------------------------------------------
(* work.rs *)

from_be_bytes(bytes) ==
    [k \in 1 .. LIMBS |->
        FoldLeft(LAMBDA v, j : v * B + bytes[(LIMBS - k) * LIMB_BYTES + j], 0,
                 Upward(LIMB_BYTES))]

to_be_bytes(a) ==
    [n \in 1 .. BYTES |->
        LET i == (n - 1) \div LIMB_BYTES
            j == (n - 1) % LIMB_BYTES
        IN  (a[LIMBS - i] \div B ^ (LIMB_BYTES - 1 - j)) % B]

\* Limb by limb from the least, with what is carried over.
Carrying(step(_, _)) ==
    FoldLeft(LAMBDA acc, i : LET s == step(i, acc.carry)
                             IN  [out |-> Append(acc.out, s.out), carry |-> s.carry],
             [out |-> <<>>, carry |-> 0], Upward(LIMBS)).out

wrapping_add(a, b) ==
    Carrying(LAMBDA i, carry : LET s == a[i] + b[i] + carry
                               IN  [out |-> s % L, carry |-> s \div L])

wrapping_sub(a, b) ==
    Carrying(LAMBDA i, borrow : LET d == a[i] - b[i] - borrow
                                IN  IF d < 0 THEN [out |-> d + L, carry |-> 1]
                                    ELSE [out |-> d, carry |-> 0])

mul_u64(a, x) ==
    Carrying(LAMBDA i, carry : LET p == a[i] * x + carry
                               IN  [out |-> p % L, carry |-> p \div L])

shl1(a) ==
    Carrying(LAMBDA i, carry : [out |-> ((a[i] * 2) % L) + carry, carry |-> a[i] \div (L \div 2)])

not(a) == [i \in 1 .. LIMBS |-> L - 1 - a[i]]

div_u64(a, x) ==
    FoldLeft(LAMBDA acc, i : LET cur == acc.rem * L + a[i]
                             IN  [q |-> [acc.q EXCEPT ![i] = cur \div x], rem |-> cur % x],
             [q |-> ZERO, rem |-> 0], Downward(LIMBS)).q

\* The most significant limb that differs decides.
less(a, b) ==
    \E i \in 1 .. LIMBS : a[i] < b[i] /\ \A j \in i + 1 .. LIMBS : a[j] = b[j]

bit(a, i) == (a[i \div (BYTE * LIMB_BYTES) + 1] \div 2 ^ (i % (BYTE * LIMB_BYTES))) % 2

set_bit(a, i) ==
    [a EXCEPT ![i \div (BYTE * LIMB_BYTES) + 1] = @ + 2 ^ (i % (BYTE * LIMB_BYTES))]

\* Long division, from the highest bit.
div(a, divisor) ==
    IF divisor = ZERO \/ less(a, divisor) THEN ZERO
    ELSE FoldLeft(
            LAMBDA acc, i :
                LET shifted == shl1(acc.rem)
                    rem == [shifted EXCEPT ![1] = @ + bit(a, i - 1)]
                IN  IF less(rem, divisor) THEN [q |-> acc.q, rem |-> rem]
                    ELSE [q |-> set_bit(acc.q, i - 1), rem |-> wrapping_sub(rem, divisor)],
            [q |-> ZERO, rem |-> ZERO], Downward(BITS)).q

-----------------------------------------------------------------------------
(* Compact targets: a length and three bytes, the highest bit of which is  *)
(* a sign and never set.                                                   *)

compact_to_target(bits) ==
    LET exp == bits \div B ^ 3
        mant == bits % (B ^ 3 \div 2)
        put(v, at) == [n \in 1 .. BYTES |->
                          IF n - at \in 1 .. 3 THEN (v \div B ^ (3 - (n - at))) % B ELSE 0]
    IN  CASE exp \in 3 .. BYTES -> put(mant, BYTES - exp)
          [] exp < 3 -> put(mant \div B ^ (3 - exp), BYTES - 3)
          [] OTHER -> put(0, 0)

from_compact(bits) == from_be_bytes(compact_to_target(bits))

\* A fault: the mantissa is cut off where its sign bit would stand.
to_compact_unshifted(a) ==
    LET bytes == to_be_bytes(a)
        first == SelectInSeq(bytes, LAMBDA byte : byte # 0)
        at(n) == IF n <= BYTES THEN bytes[n] ELSE 0
        mant == at(first) * B ^ 2 + at(first + 1) * B + at(first + 2)
    IN  IF first = 0 THEN 0
        ELSE (BYTES + 1 - first) * B ^ 3 + (mant % (B ^ 3 \div 2))

to_compact(a) ==
    LET bytes == to_be_bytes(a)
        first == SelectInSeq(bytes, LAMBDA byte : byte # 0)
        at(n) == IF n <= BYTES THEN bytes[n] ELSE 0
        mant == at(first) * B ^ 2 + at(first + 1) * B + at(first + 2)
        size == BYTES + 1 - first
    IN  IF first = 0 THEN 0
        ELSE IF mant >= B ^ 3 \div 2 THEN (size + 1) * B ^ 3 + mant \div B
        ELSE size * B ^ 3 + mant

block_work(bits) ==
    LET target == from_compact(bits)
        divisor == wrapping_add(target, ONE)
    IN  IF target = ZERO \/ divisor = ZERO THEN ZERO
        ELSE wrapping_add(div(not(target), divisor), ONE)

-----------------------------------------------------------------------------
(* retarget.rs *)

clamp_timespan(actual, timespan) ==
    IF actual < timespan \div 4 THEN timespan \div 4
    ELSE IF actual > timespan * 4 THEN timespan * 4
    ELSE actual

compute_retarget(old_bits, actual_timespan, p) ==
    LET span == clamp_timespan(actual_timespan, p.target_timespan)
        next == div_u64(mul_u64(from_compact(old_bits), span), p.target_timespan)
        limit == from_compact(p.pow_limit_bits)
    IN  to_compact(IF less(limit, next) THEN limit ELSE next)

-----------------------------------------------------------------------------
(* Varints: groups from the least, all but the last marked; 2^GROUP is the *)
(* mark.                                                                   *)

put_varint[value \in 0 .. 2 ^ WORD - 1] ==
    IF value < 2 ^ GROUP THEN <<value>>
    ELSE <<(value % 2 ^ GROUP) + 2 ^ GROUP>> \o put_varint[value \div 2 ^ GROUP]

\* The value of the first groups.
group_value(bytes, end) ==
    FoldLeft(LAMBDA acc, k : acc + (bytes[k] % 2 ^ GROUP) * 2 ^ (GROUP * (k - 1)),
             0, Upward(end))

\* The value and where it ends, {} when the bytes are not its only encoding.
minimal_varint(bytes) ==
    LET ends == {i \in DOMAIN bytes : bytes[i] < 2 ^ GROUP}
        end == Min(ends)
        groups == WORD \div GROUP + 1
    IN  IF \/ ends = {} \/ end > groups
           \/ end = groups /\ bytes[end] > 1
           \/ end > 1 /\ bytes[end] = 0
        THEN {} ELSE {<<group_value(bytes, end), end>>}

-----------------------------------------------------------------------------
(* What they should compute *)

MinOf(a, b) == IF a < b THEN a ELSE b

sums_right(x, y) ==
    LET a == limbs_of(x)
        b == limbs_of(y)
    IN  /\ number(a) = x /\ from_be_bytes(to_be_bytes(a)) = a
        /\ number(wrapping_add(a, b)) = (x + y) % Modulus
        /\ number(wrapping_sub(a, b)) = (x - y) % Modulus
        /\ number(mul_u64(a, y % L)) = (x * (y % L)) % Modulus
        /\ y % L # 0 => number(div_u64(a, y % L)) = x \div (y % L)
        /\ less(a, b) = (x < y)
        /\ number(div(a, b)) = IF y = 0 THEN 0 ELSE x \div y

\* A target in compact form is cut to at least two bytes, never enlarged, and
\* its compact form is the only one that verify_chain takes.  A number with its
\* top bit set has no compact form that reads back: no target is that large.
compact_right(x) ==
    x < Modulus \div 2 =>
    LET bits == to_compact(limbs_of(x))
        back == number(from_compact(bits))
    IN  /\ back <= x /\ (x - back) * B ^ 2 <= x * B
        /\ to_compact(limbs_of(back)) = bits
        /\ number(block_work(bits)) = IF back = 0 THEN 0 ELSE Modulus \div (back + 1)

\* A retarget stays under the limit and within four times the old target,
\* where the old target keeps the limit.
retarget_right(x, actual, p) ==
    LET bits == to_compact(limbs_of(x))
        old == number(from_compact(bits))
        new == number(from_compact(compute_retarget(bits, actual, p)))
        limit == number(from_compact(p.pow_limit_bits))
    IN  old <= limit => new <= MinOf(limit, 4 * old) /\ 4 * B * (new + B) >= MinOf(limit, old)

varint_right(v, bytes) ==
    /\ minimal_varint(put_varint[v] \o bytes) = {<<v, Len(put_varint[v])>>}
    /\ \A r \in minimal_varint(bytes) : put_varint[r[1]] = SubSeq(bytes, 1, r[2])
=============================================================================
