------------------------------- MODULE M68kBits -------------------------------
(***************************************************************************)
(* Shifts, rotates and the operations on single bits.  A byte has Unit     *)
(* bits (8 in the code).  A shift gives the value v and the condition      *)
(* codes f.                                                                *)
(*                                                                         *)
(* A definition introduced as "Mutant" is a plausible mistake in the one   *)
(* that follows it; nothing else uses it.                                  *)
(***************************************************************************)
EXTENDS M68kALU

CONSTANT Unit

Bits(sz) == Unit * sz

\* 2^n, as a function that proofs can unfold.
Pow2[n \in 0 .. Bits(4)] == IF n = 0 THEN 1 ELSE 2 * Pow2[n - 1]

ASSUME BitWidths == Unit \in Nat \ {0} /\ MSB = [sz \in Size |-> Pow2[Bits(sz) - 1]]

\* Shifts of a uint32: a count of the width or more gives 0, and so does a
\* count that wrapped below zero.
Shr(v, n) == IF n \in 0 .. Bits(4) - 1 THEN v \div Pow2[n] ELSE 0
Shl(v, n, sz) == IF n < Bits(sz) THEN Low(v * Pow2[n], sz) ELSE 0
IsSet(v, n) == Shr(v, n) % 2 = 1

\* a & b, bit by bit.
And(a, b) ==
  LET loop[n \in 0 .. Bits(4)] ==
        IF n = 0 THEN 0
        ELSE loop[n - 1] + (IF IsSet(a, n - 1) /\ IsSet(b, n - 1) THEN Pow2[n - 1] ELSE 0)
  IN loop[Bits(4)]

-----------------------------------------------------------------------------
(***************************************************************************)
(* The four kinds of shift, left and right: the value, the last bit out    *)
(* and whether the sign ever changed.                                      *)
(***************************************************************************)
Shifted(v, out, over) == [v |-> v, out |-> out, over |-> over]

ASL(val, count, sz) ==
  LET loop[i \in 0 .. count] ==
        IF i = 0 THEN [v |-> val, over |-> FALSE]
        ELSE LET r == loop[i - 1]
                 v == Low(2 * r.v, sz)
             IN [v |-> v, over |-> r.over \/ Neg(v, sz) # Neg(r.v, sz)]
  IN Shifted(loop[count].v, IsSet(val, Bits(sz) - count), loop[count].over)

\* Mutant: the last bit out is looked for past the sign.
ASRPastSign(val, count, sz) ==
  LET sign == IF Neg(val, sz) THEN MSB[sz] ELSE 0
      loop[i \in 0 .. count] == IF i = 0 THEN val ELSE (loop[i - 1] \div 2) + sign
  IN Shifted(loop[count], IsSet(val, count - 1), FALSE)
ASR(val, count, sz) ==
  LET sign == IF Neg(val, sz) THEN MSB[sz] ELSE 0
      loop[i \in 0 .. count] == IF i = 0 THEN val ELSE (loop[i - 1] \div 2) + sign
      last == IF count >= Bits(sz) THEN Bits(sz) - 1 ELSE count - 1
  IN Shifted(loop[count], IsSet(val, last), FALSE)

LSL(val, count, sz) == Shifted(Shl(val, count, sz), IsSet(val, Bits(sz) - count), FALSE)
LSR(val, count, sz) == Shifted(Shr(val, count), IsSet(val, count - 1), FALSE)

ROXL(x, val, count, sz) ==
  LET loop[i \in 0 .. count] ==
        IF i = 0 THEN [v |-> val, x |-> x]
        ELSE LET r == loop[i - 1]
             IN [v |-> Low(2 * r.v + r.x, sz), x |-> IF Neg(r.v, sz) THEN 1 ELSE 0]
  IN Shifted(loop[count].v, loop[count].x = 1, FALSE)
ROXR(x, val, count, sz) ==
  LET loop[i \in 0 .. count] ==
        IF i = 0 THEN [v |-> val, x |-> x]
        ELSE LET r == loop[i - 1]
             IN [v |-> (r.v \div 2) + r.x * MSB[sz], x |-> r.v % 2]
  IN Shifted(loop[count].v, loop[count].x = 1, FALSE)

ROL(val, count, sz) ==
  LET shift == count % Bits(sz)
      v == Shl(val, shift, sz) + Shr(val, Bits(sz) - shift)
  IN Shifted(v, v % 2 = 1, FALSE)
ROR(val, count, sz) ==
  LET shift == count % Bits(sz)
      v == Shr(val, shift) + Shl(val, Bits(sz) - shift, sz)
  IN Shifted(v, Neg(v, sz), FALSE)

\* A rotate leaves X alone; every other shift copies the last bit out into it.
doShift(ccr, val, count, left, typ, sz) ==
  IF count = 0
  THEN [v |-> val,
        f |-> setFlagsLogical(ccr, val, sz) \cup Is(flagC, typ = "ROX" /\ flagX \in ccr)]
  ELSE LET r == CASE typ = "AS"  -> IF left THEN ASL(val, count, sz) ELSE ASR(val, count, sz)
                  [] typ = "LS"  -> IF left THEN LSL(val, count, sz) ELSE LSR(val, count, sz)
                  [] typ = "ROX" -> IF left THEN ROXL(Extend(ccr), val, count, sz)
                                            ELSE ROXR(Extend(ccr), val, count, sz)
                  [] typ = "RO"  -> IF left THEN ROL(val, count, sz) ELSE ROR(val, count, sz)
       IN [v |-> r.v,
           f |-> (IF typ = "RO" THEN ccr \cap {flagX} ELSE Is(flagX, r.out))
                 \cup Is(flagC, r.out) \cup Is(flagV, r.over)
                 \cup Is(flagN, Neg(r.v, sz)) \cup Is(flagZ, Low(r.v, sz) = 0)]
=============================================================================
