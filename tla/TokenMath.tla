------------------------------ MODULE TokenMath ------------------------------
(****************************************************************************)
(* The machine arithmetic of program/src/processor.rs.  The program is built *)
(* for BPF in release mode, so `+` on u64 and i64 wraps; `as i64` reinterprets*)
(* the bits; checked_mul(..).unwrap_or(0) turns an overflow into zero.       *)
(*                                                                          *)
(* I64 stands for 2^63.  Nothing below needs it to be a power of two, so the *)
(* model-checked instances use a small even word and the proofs any.         *)
(*                                                                          *)
(* An operator Bug... is a mistake the definition after it could contain; no  *)
(* specification uses it, the mutation runs put it in that definition's place *)
(* to see that a property notices.                                           *)
(****************************************************************************)
EXTENDS Integers

CONSTANT I64    \* one more than the largest i64

\* A u8 fits in half a word.
ASSUME I64Assumption == I64 \in Nat /\ I64 >= 128

U64 == 2 * I64

Amounts == 0 .. U64 - 1           \* u64
Timestamps == -I64 .. I64 - 1     \* i64, clock::UnixTimestamp
Percents == 0 .. 255              \* u8, the type of a stake

\* as if the counters were added with saturating_add
BugSaturatingAdd(a, b) == IF a + b < U64 THEN a + b ELSE U64 - 1

\* a + b of two u64
WrapAdd(a, b) == IF a + b < U64 THEN a + b ELSE a + b - U64

\* duration as i64
AsI64(u) == IF u < I64 THEN u ELSE u - U64

\* as if the expiry were added in a wider type
BugWideAddI64(a, b) == a + b

\* a + b of two i64
WrapAddI64(a, b) ==
  CASE a + b >= I64 -> a + b - U64
    [] a + b < -I64 -> a + b + U64
    [] OTHER        -> a + b

\* clock.unix_timestamp + duration as i64
ExpiresAt(now, duration) == WrapAddI64(now, AsI64(duration))

\* as if the fee were rounded up, or divided before it is multiplied
BugFeeRoundedUp(amount, stake) ==
  IF amount * stake < U64 THEN (amount * stake + 99) \div 100 ELSE 0
BugFeeDividedFirst(amount, stake) == (amount \div 100) * stake

\* amount.checked_mul(stake as u64).unwrap_or(0).checked_div(100).unwrap_or(0)
Fee(amount, stake) == IF amount * stake < U64 THEN (amount * stake) \div 100 ELSE 0

SaturatingSub(a, b) == IF a >= b THEN a - b ELSE 0

\* as if the second fee were not subtracted
BugOneFeeOnly(amount, reputation_stake, recording_stake) ==
  SaturatingSub(amount, Fee(amount, reputation_stake))

\* What a payout of amount leaves for the recipient once both fees are taken.
RecipientAmount(amount, reputation_stake, recording_stake) ==
  SaturatingSub(SaturatingSub(amount, Fee(amount, reputation_stake)),
                Fee(amount, recording_stake))
=============================================================================
