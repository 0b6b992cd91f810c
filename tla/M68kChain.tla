------------------------------ MODULE M68kChain ------------------------------
(***************************************************************************)
(* Multi-precision arithmetic: a program that adds, subtracts or negates   *)
(* numbers of several limbs, least significant limb first, with one        *)
(* instruction per limb.  The first limb may use the plain instruction     *)
(* (ADD, SUB, NEG) or, like the others, the extended one (ADDX, SUBX,      *)
(* NEGX, ABCD, SBCD, NBCD), then with the X and Z that the condition codes *)
(* held.  X carries from limb to limb and Z accumulates.                   *)
(*                                                                         *)
(* The numbers seen so far are history: dst, src and res are their values, *)
(* and weight is the weight of the next limb.                              *)
(***************************************************************************)
EXTENDS M68kALU

CONSTANTS
  Programs,    \* the kinds of program run
  Limbs,       \* the operand values of a limb, by size
  MaxLimbs     \* bound on the limbs of a number, by size

VARIABLES
  prog,        \* [kind, sz] of the program
  ccr,         \* condition codes
  k,           \* limbs done
  weight, dst, src, res,
  xin, zin     \* X (as a number) and Z the chain started from

vars == <<prog, ccr, k, weight, dst, src, res, xin, zin>>

ASSUME ChainBounds ==
  /\ Programs \subseteq [kind : {"add", "sub", "neg", "abcd", "sbcd", "nbcd"}, sz : Size]
  /\ Limbs \in [Size -> SUBSET Nat] /\ \A sz \in Size : \A v \in Limbs[sz] : v < Top(sz)
  /\ MaxLimbs \in [Size -> Nat]

Decimal == {"abcd", "sbcd", "nbcd"}

Init ==
  /\ prog \in Programs
  /\ ccr \in SUBSET CCRBits
  /\ k = 0 /\ weight = 1 /\ dst = 0 /\ src = 0 /\ res = 0
  /\ xin = Extend(ccr) /\ zin = (flagZ \in ccr)

\* The limb's operands and result join the numbers.
Record(radix, s, d, r) ==
  /\ k' = k + 1 /\ weight' = weight * radix
  /\ dst' = dst + weight * d /\ src' = src + weight * s /\ res' = res + weight * r
  /\ UNCHANGED prog

Continue(o, s, d) ==
  /\ ccr' = o.f
  /\ Record(Top(prog.sz), s, d, o.v)
  /\ UNCHANGED <<xin, zin>>

\* A plain instruction starts afresh: it ignores X and Z.
Start(o, s, d) ==
  /\ k = 0
  /\ ccr' = o.f
  /\ Record(Top(prog.sz), s, d, o.v)
  /\ xin' = 0 /\ zin' = TRUE

\* The program has a limb to do.
Ready(kind) == prog.kind = kind /\ k < MaxLimbs[prog.sz]
Operand == Limbs[prog.sz]

ADD == Ready("add") /\ \E s, d \in Operand : Start(add(s, d, prog.sz), s, d)
SUB == Ready("sub") /\ \E s, d \in Operand : Start(sub(s, d, prog.sz), s, d)
NEG == Ready("neg") /\ \E s \in Operand : Start(sub(s, 0, prog.sz), s, 0)
ADDX == Ready("add") /\ \E s, d \in Operand : Continue(addx(ccr, s, d, prog.sz), s, d)
SUBX == Ready("sub") /\ \E s, d \in Operand : Continue(subx(ccr, s, d, prog.sz), s, d)
NEGX == Ready("neg") /\ \E s \in Operand : Continue(subx(ccr, s, 0, prog.sz), s, 0)

\* A decimal byte and its value.
IsBcd(b) == b % Nib < Base /\ b \div Nib < Base
Dec(b) == Base * (b \div Nib) + (b % Nib)

Decimals(o, s, d) ==
  /\ prog.sz = 1 /\ IsBcd(s) /\ IsBcd(d)
  /\ ccr' = o.f
  /\ Record(Base * Base, Dec(s), Dec(d), Dec(o.v))
  /\ UNCHANGED <<xin, zin>>

ABCD == Ready("abcd") /\ \E s, d \in Operand : Decimals(bcdAdd(ccr, s, d), s, d)
SBCD == Ready("sbcd") /\ \E s, d \in Operand : Decimals(bcdSub(ccr, s, d), s, d)
NBCD == Ready("nbcd") /\ \E s \in Operand : Decimals(bcdSub(ccr, s, 0), s, 0)

Next == ADD \/ SUB \/ NEG \/ ADDX \/ SUBX \/ NEGX \/ ABCD \/ SBCD \/ NBCD

Spec == Init /\ [][Next]_vars

-----------------------------------------------------------------------------
Sum == prog.kind \in {"add", "abcd"}

TypeOK ==
  /\ prog \in Programs /\ ccr \in SUBSET CCRBits
  /\ k \in Nat /\ weight \in Nat \ {0}
  /\ dst \in 0 .. weight - 1 /\ src \in 0 .. weight - 1 /\ res \in 0 .. weight - 1
  /\ xin \in {0, 1} /\ zin \in BOOLEAN

\* However many limbs the numbers have, the limbs stored and the final X are
\* exactly their sum, or their difference, with what X held at the start: no
\* carry is lost or made up between two instructions (setFlagsAdd,
\* setFlagsSub, bcdAdd and bcdSub set X; the next limb reads it).
ChainExact ==
  IF Sum THEN res + Extend(ccr) * weight = dst + src + xin
  ELSE        res - Extend(ccr) * weight = dst - src - xin

\* Z after the last limb says that the whole number is zero, although each
\* instruction sees one limb: the extended forms clear Z and never set it
\* (opADDXreg, opSUBXreg, makeNEGX, bcdAdd, bcdSub).
ZeroOfWhole == flagZ \in ccr <=> zin /\ res = 0

\* A binary chain leaves C, N and V as one instruction on the whole numbers
\* would: N is their sign and V says that the exact signed result does not
\* fit.
AsSigned(v) == IF 2 * v < weight THEN v ELSE v - weight
FlagsOfWhole ==
  k > 0 /\ prog.kind \notin Decimal =>
    /\ flagN \in ccr <=> 2 * res >= weight
    /\ flagC \in ccr <=> flagX \in ccr
    /\ flagV \in ccr <=>
         AsSigned(res) # IF Sum THEN AsSigned(dst) + AsSigned(src) + xin
                                ELSE AsSigned(dst) - AsSigned(src) - xin
=============================================================================
