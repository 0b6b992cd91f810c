------------------------------- MODULE M68kALU -------------------------------
(***************************************************************************)
(* Condition codes and the arithmetic of ADD, SUB, CMP, ADDX, SUBX, NEGX,  *)
(* MUL, DIV, EXT and the packed-decimal instructions, as operators on      *)
(* numbers.  A size is its number of bytes, as in size.go; the width is    *)
(* given by MSB, the weight of the sign bit of each size (2^7, 2^15 and    *)
(* 2^31 in the code), so that what is proved holds for every width.  A     *)
(* packed-decimal byte has two digits 0 .. Base-1 in nibbles of Nib values *)
(* (10 and 16 in the code).                                                *)
(*                                                                         *)
(* A result is an integer where the code has a uint32: every use of it     *)
(* masks it, or looks at the bit above the mask of a byte or a word.  An   *)
(* operation gives the stored value v and the condition codes f.           *)
(*                                                                         *)
(* A definition introduced as "Mutant" is a plausible mistake in the one   *)
(* that follows it; nothing else uses it.                                  *)
(***************************************************************************)
EXTENDS M68kFlags

CONSTANTS
  MSB,    \* weight of the sign bit, by size
  Nib,    \* values of a nibble
  Base    \* values of a decimal digit

Size == {1, 2, 4}

ASSUME SignBits == MSB \in [Size -> Nat \ {0}]
ASSUME Digits == Nib \in Nat /\ Base \in 2 .. Nib /\ Nib < 2 * Base
                 /\ 2 * MSB[1] = Nib * Nib

Top(sz) == 2 * MSB[sz]                  \* Mask() + 1
Low(v, sz) == v % Top(sz)               \* v & Mask()
Neg(v, sz) == Low(v, sz) >= MSB[sz]     \* v & MSB() != 0
Signed(v, sz) == IF Neg(v, sz) THEN Low(v, sz) - Top(sz) ELSE Low(v, sz)

Magnitude(n) == IF n < 0 THEN -n ELSE n

Is(flag, yes) == {f \in {flag} : yes}

-----------------------------------------------------------------------------
(***************************************************************************)
(* Condition codes.                                                        *)
(***************************************************************************)
\* Mutant: the carry of a long sum is looked for above bit 31, where a uint32
\* has no bit.
setFlagsAddNoLong(src, dst, result, sz) ==
  LET r == Neg(result, sz)
      s == Neg(src, sz)
      d == Neg(dst, sz)
  IN Is(flagZ, Low(result, sz) = 0) \cup Is(flagN, r)
     \cup Is(flagV, (s <=> ~r) /\ (d <=> ~r))
     \cup {f \in {flagC, flagX} : sz # 4 /\ (result \div Top(sz)) % 2 = 1}
setFlagsAdd(src, dst, result, sz) ==
  LET r == Neg(result, sz)
      s == Neg(src, sz)
      d == Neg(dst, sz)
  IN Is(flagZ, Low(result, sz) = 0) \cup Is(flagN, r)
     \cup Is(flagV, (s <=> ~r) /\ (d <=> ~r))
     \cup {f \in {flagC, flagX} : IF sz = 4 THEN (s /\ d) \/ ((s \/ d) /\ ~r)
                                            ELSE (result \div Top(sz)) % 2 = 1}

\* Mutant: overflow as for an addition.
setFlagsSubAddsV(src, dst, result, sz) ==
  LET r == Neg(result, sz)
      s == Neg(src, sz)
      d == Neg(dst, sz)
  IN Is(flagZ, Low(result, sz) = 0) \cup Is(flagN, r)
     \cup Is(flagV, (s <=> ~r) /\ (d <=> ~r))
     \cup {f \in {flagC, flagX} : (s /\ ~d) \/ (r /\ ~d) \/ (s /\ r)}
setFlagsSub(src, dst, result, sz) ==
  LET r == Neg(result, sz)
      s == Neg(src, sz)
      d == Neg(dst, sz)
  IN Is(flagZ, Low(result, sz) = 0) \cup Is(flagN, r)
     \cup Is(flagV, (s <=> ~d) /\ (r <=> ~d))
     \cup {f \in {flagC, flagX} : (s /\ ~d) \/ (r /\ ~d) \/ (s /\ r)}

setFlagsCmp(ccr, src, dst, result, sz) ==
  LET r == Neg(result, sz)
      s == Neg(src, sz)
      d == Neg(dst, sz)
  IN (ccr \cap {flagX}) \cup Is(flagZ, Low(result, sz) = 0) \cup Is(flagN, r)
     \cup Is(flagV, (s <=> ~d) /\ (r <=> ~d))
     \cup Is(flagC, (s /\ ~d) \/ (r /\ ~d) \/ (s /\ r))

\* The conditions of Bcc and Scc tell how d compares with s, as unsigned and as
\* signed numbers.
TellsOrder(ccr, s, d, sz) ==
  LET Holds(cc) == testCondition(ccr, cc)
      sd == Signed(d, sz)
      ss == Signed(s, sz)
  IN /\ (Holds(2) <=> d > s) /\ (Holds(3) <=> d <= s)
     /\ (Holds(4) <=> d >= s) /\ (Holds(5) <=> d < s)
     /\ (Holds(6) <=> d # s) /\ (Holds(7) <=> d = s)
     /\ (Holds(12) <=> sd >= ss) /\ (Holds(13) <=> sd < ss)
     /\ (Holds(14) <=> sd > ss) /\ (Holds(15) <=> sd <= ss)

setFlagsLogical(ccr, result, sz) ==
  (ccr \cap {flagX}) \cup Is(flagZ, Low(result, sz) = 0) \cup Is(flagN, Neg(result, sz))

-----------------------------------------------------------------------------
(***************************************************************************)
(* Binary arithmetic.  In the extended forms X takes part and Z, once      *)
(* clear, stays clear.                                                     *)
(***************************************************************************)
Extend(ccr) == IF flagX \in ccr THEN 1 ELSE 0

\* Mutant: Z speaks of the last limb alone.
KeepZForgets(ccr, f, result, sz) == f
KeepZ(ccr, f, result, sz) ==
  IF Low(result, sz) = 0 THEN (f \ {flagZ}) \cup (ccr \cap {flagZ}) ELSE f

add(s, d, sz) == [v |-> Low(s + d, sz), f |-> setFlagsAdd(s, d, s + d, sz)]
sub(s, d, sz) == [v |-> Low(d - s, sz), f |-> setFlagsSub(s, d, d - s, sz)]

addx(ccr, s, d, sz) ==
  LET result == d + s + Extend(ccr)
  IN [v |-> Low(result, sz),
      f |-> KeepZ(ccr, setFlagsAdd(s, d, result, sz), result, sz)]

subx(ccr, s, d, sz) ==
  LET result == d - s - Extend(ccr)
  IN [v |-> Low(result, sz),
      f |-> KeepZ(ccr, setFlagsSub(s, d, result, sz), result, sz)]

-----------------------------------------------------------------------------
(***************************************************************************)
(* Multiplication, division and sign extension.  Go's division truncates   *)
(* towards zero and the remainder has the sign of the dividend; the        *)
(* quotient of two int32 wraps.  A quotient that does not fit a word       *)
(* leaves the dividend and sets V and N.                                   *)
(***************************************************************************)
Ext(v, from, to) == Low(Signed(v, from), to)

mulu(ccr, s, d) ==
  LET v == Low(s * Low(d, 2), 4) IN [v |-> v, f |-> setFlagsLogical(ccr, v, 4)]
muls(ccr, s, d) ==
  LET v == Low(Signed(s, 2) * Signed(d, 2), 4) IN [v |-> v, f |-> setFlagsLogical(ccr, v, 4)]

Quo(n, d) == IF (n < 0) = (d < 0) THEN Magnitude(n) \div Magnitude(d)
                                  ELSE -(Magnitude(n) \div Magnitude(d))
Rem(n, d) == n - d * Quo(n, d)

divOverflow(ccr, d) == [v |-> d, f |-> (ccr \ {flagC, flagZ}) \cup {flagV, flagN}]
divided(ccr, q, r) == [v |-> Low(r, 2) * Top(2) + Low(q, 2), f |-> setFlagsLogical(ccr, q, 2)]

divu(ccr, s, d) == IF d \div s >= Top(2) THEN divOverflow(ccr, d)
                   ELSE divided(ccr, d \div s, d % s)

\* Mutant: a quotient of half the range is taken to fit.
divsUnsigned(ccr, s, d) ==
  LET n == Signed(d, 4)
      m == Signed(s, 2)
      q == Quo(n, m)
  IN IF q >= Top(2) \/ q < -MSB[2] THEN divOverflow(ccr, d) ELSE divided(ccr, q, Rem(n, m))
divs(ccr, s, d) ==
  LET n == Signed(d, 4)
      m == Signed(s, 2)
      q == Signed(Quo(n, m), 4)
  IN IF q >= MSB[2] \/ q < -MSB[2] THEN divOverflow(ccr, d) ELSE divided(ccr, q, Rem(n, m))

-----------------------------------------------------------------------------
(***************************************************************************)
(* Packed decimal.  C and X take the carry, N the sign bit, V a change of  *)
(* the sign bit by the correction; Z is only cleared.                      *)
(***************************************************************************)
BcdFlags(ccr, carry, overflow, r8) ==
  {f \in {flagC, flagX} : carry} \cup Is(flagN, r8 >= MSB[1]) \cup Is(flagV, overflow)
  \cup Is(flagZ, r8 = 0 /\ flagZ \in ccr)

bcdAdd(ccr, s, d) ==
  LET x      == Extend(ccr)
      binary == s + d + x
      sum    == (s % Nib) + (d % Nib) + x
      lo     == IF sum >= Base THEN sum + (Nib - Base) ELSE sum
      hi     == (s \div Nib) + (d \div Nib) + (lo \div Nib)
      carry  == hi >= Base
      hi2    == IF carry THEN hi + (Nib - Base) ELSE hi
      r8     == Low(hi2 * Nib + (lo % Nib), 1)
  IN [v |-> r8, f |-> BcdFlags(ccr, carry, ~Neg(binary, 1) /\ r8 >= MSB[1], r8)]

\* Mutant: the high digit is corrected when the low one borrowed.
bcdSubLowBorrow(ccr, s, d) ==
  LET x      == Extend(ccr)
      binary == d - s - x
      lo     == (d % Nib) - (s % Nib) - x
      res    == IF (lo \div Nib) % 2 = 1 THEN binary - (Nib - Base) ELSE binary
      borrow == d < s + x \/ (res \div Top(1)) % 2 = 1
      r8     == Low(IF lo < 0 THEN res - (Nib - Base) * Nib ELSE res, 1)
  IN [v |-> r8, f |-> BcdFlags(ccr, borrow, Neg(binary, 1) /\ r8 < MSB[1], r8)]
bcdSub(ccr, s, d) ==
  LET x      == Extend(ccr)
      binary == d - s - x
      lo     == (d % Nib) - (s % Nib) - x
      res    == IF (lo \div Nib) % 2 = 1 THEN binary - (Nib - Base) ELSE binary
      binBorrow == d < s + x
      borrow == binBorrow \/ (res \div Top(1)) % 2 = 1
      r8     == Low(IF binBorrow THEN res - (Nib - Base) * Nib ELSE res, 1)
  IN [v |-> r8, f |-> BcdFlags(ccr, borrow, Neg(binary, 1) /\ r8 < MSB[1], r8)]
=============================================================================
