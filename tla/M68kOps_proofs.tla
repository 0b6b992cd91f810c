---------------------------- MODULE M68kOps_proofs ----------------------------
(*****************************************************************************)
(* One lemma per group of handlers of M68kOps, MOVEM and MOVEP apart: from   *)
(* a state that has just been fetched, the handler ends in a state, writes   *)
(* only the extent of its operand, keeps an even A7 even, changes no memory  *)
(* when it faults, and charges the bus time it takes (Done).                 *)
(*****************************************************************************)
EXTENDS M68kOps, M68kOperands_proofs

-----------------------------------------------------------------------------
(*****************************************************************************)
(* What the operations of the handlers compute is a value and flags.         *)
(*****************************************************************************)
LEMMA TestBitOK == ASSUME NEW ccr \in SUBSET CCRBits, NEW n, NEW d PROVE TestBit(ccr, n, d) \subseteq CCRBits
  <1>1. Is(flagZ, ~IsSet(d, n)) \subseteq CCRBits
    BY FlagNames DEF Is
  <1> QED
    BY <1>1 DEF TestBit

LEMMA LogicalOK ==
  ASSUME NEW ccr \in SUBSET CCRBits, NEW v \in Int, NEW sz PROVE Result(Logical(ccr, v, sz))
  BY FlagSets, Zenon DEF Logical, Result

LEMMA Sums ==
  ASSUME NEW ccr \in SUBSET CCRBits, NEW s \in Int, NEW d \in Int, NEW sz \in Size
  PROVE  /\ Result(Add(ccr, s, d, sz)) /\ Result(Sub(ccr, s, d, sz))
         /\ Result(addx(ccr, s, d, sz)) /\ Result(subx(ccr, s, d, sz))
         /\ Result(Negate(ccr, s, d, sz)) /\ Result(Negx(ccr, s, d, sz))
         /\ Result(Invert(ccr, s, d, sz)) /\ Result(Tas(ccr, s, d, sz))
  <1> DEFINE x == Extend(ccr)
  <1>1. x \in Int
    BY DEF Extend
  <1> HIDE DEF x
  <1>2. /\ s + d \in Int /\ d - s \in Int /\ d + s + x \in Int /\ d - s - x \in Int
        /\ 0 - d \in Int /\ 0 - d - x \in Int /\ 0 \in Int
    BY <1>1
  <1>3. \A v \in Int : Low(v, sz) \in Int
    BY LowInt
  <1>4. Result(Add(ccr, s, d, sz)) /\ Result(Sub(ccr, s, d, sz)) /\ Result(Negate(ccr, s, d, sz))
    BY <1>2, <1>3, FlagSets DEF Add, Sub, Negate, add, sub, Result
  <1>5. Result(addx(ccr, s, d, sz))
    BY <1>2, <1>3, FlagSets, KeepZOK DEF addx, Result, x
  <1>6. Result(subx(ccr, s, d, sz))
    BY <1>2, <1>3, FlagSets, KeepZOK DEF subx, Result, x
  <1>7. Result(Negx(ccr, s, d, sz))
    BY <1>2, <1>3, FlagSets, KeepZOK DEF Negx, subx, Result, x
  <1>8. Result(Invert(ccr, s, d, sz))
    <2>1. Top(sz) - 1 - d \in Int
      BY Positive
    <2> QED
      BY <2>1, LogicalOK DEF Invert
  <1>9. Result(Tas(ccr, s, d, sz))
    <2>1. (IF Neg(d, 1) THEN d ELSE d + MSB[1]) \in Int
      BY Positive DEF Size
    <2> QED
      BY <2>1, FlagSets, Zenon DEF Tas, Result
  <1> QED
    BY <1>4, <1>5, <1>6, <1>7, <1>8, <1>9

LEMMA Decimals ==
  ASSUME NEW ccr \in SUBSET CCRBits, NEW s \in Int, NEW d \in Int, NEW sz
  PROVE  /\ Result(Abcd(ccr, s, d, sz)) /\ Result(Sbcd(ccr, s, d, sz)) /\ Result(Nbcd(ccr, s, d, sz))
  <1>1. Nib \in Nat \ {0} /\ Base \in Nat
    BY Digits DEF Digits
  <1>2. Extend(ccr) \in Int
    BY DEF Extend
  <1>3. \A carry, over, r : BcdFlags(ccr, carry, over, r) \subseteq CCRBits
    BY FlagNames, Zenon DEF BcdFlags, Is
  <1>4. bcdAdd(ccr, s, d).v \in Int /\ bcdAdd(ccr, s, d).f \subseteq CCRBits
    <2> DEFINE x == Extend(ccr)
               sum == (s % Nib) + (d % Nib) + x
               lo == IF sum >= Base THEN sum + (Nib - Base) ELSE sum
               hi == (s \div Nib) + (d \div Nib) + (lo \div Nib)
               hi2 == IF hi >= Base THEN hi + (Nib - Base) ELSE hi
    <2>1. s % Nib \in Int /\ d % Nib \in Int /\ s \div Nib \in Int /\ d \div Nib \in Int
      BY <1>1
    <2>2. sum \in Int
      BY <1>2, <2>1
    <2> HIDE DEF sum
    <2>3. lo \in Int
      BY <1>1, <2>2
    <2> HIDE DEF lo
    <2>4. lo \div Nib \in Int /\ lo % Nib \in Int
      BY <1>1, <2>3
    <2>5. hi \in Int
      BY <2>1, <2>4
    <2> HIDE DEF hi
    <2>6. hi2 \in Int
      BY <1>1, <2>5
    <2> HIDE DEF hi2
    <2>7. hi2 * Nib + (lo % Nib) \in Int
      BY <1>1, <2>4, <2>6
    <2>8. Low(hi2 * Nib + (lo % Nib), 1) \in Int
      BY <2>7, LowInt DEF Size
    <2> QED
      BY <1>3, <2>8 DEF bcdAdd, hi2, hi, lo, sum
  <1>5. ASSUME NEW a \in Int, NEW b \in Int
        PROVE  bcdSub(ccr, a, b).v \in Int /\ bcdSub(ccr, a, b).f \subseteq CCRBits
    <2> DEFINE x == Extend(ccr)
               binary == b - a - x
               lo == (b % Nib) - (a % Nib) - x
               res == IF (lo \div Nib) % 2 = 1 THEN binary - (Nib - Base) ELSE binary
               r == IF b < a + x THEN res - (Nib - Base) * Nib ELSE res
    <2>1. binary \in Int
      BY <1>2
    <2> HIDE DEF binary
    <2>2. res \in Int
      BY <1>1, <2>1
    <2> HIDE DEF res
    <2>3. r \in Int
      BY <1>1, <2>2
    <2> HIDE DEF r
    <2>4. Low(r, 1) \in Int
      BY <2>3, LowInt DEF Size
    <2> QED
      BY <1>3, <2>4 DEF bcdSub, r, res, binary
  <1> QED
    BY <1>4, <1>5 DEF Abcd, Sbcd, Nbcd, Result

LEMMA Logics ==
  ASSUME NEW ccr \in SUBSET CCRBits, NEW s \in Int, NEW d \in Int, NEW sz
  PROVE  Result(Conj(ccr, s, d, sz)) /\ Result(Disj(ccr, s, d, sz)) /\ Result(Excl(ccr, s, d, sz))
  <1>1. And(s, d) \in Int
    BY AndOK
  <1>2. s + d - And(s, d) \in Int /\ s + d - 2 * And(s, d) \in Int
    BY <1>1
  <1> QED
    BY <1>1, <1>2, LogicalOK DEF Conj, Disj, Excl

LEMMA BitResults ==
  ASSUME NEW ccr \in SUBSET CCRBits, NEW n \in 0 .. Bits(4), NEW d \in Int, NEW sz
  PROVE  Result(Flip(ccr, n, d, sz)) /\ Result(Clear(ccr, n, d, sz)) /\ Result(Set(ccr, n, d, sz))
  <1>1. Pow2[n] \in Int
    BY Pow2Nat
  <1>2. d - Pow2[n] \in Int /\ d + Pow2[n] \in Int
    BY <1>1
  <1> QED
    BY <1>2, TestBitOK DEF Flip, Clear, Set, Result

\* modify, with its result given.
Modified(c, i, sz, o, regCycles, memCycles) ==
  LET a == makeEAMemAddr(c, i.mode, i.reg, sz)
  IN IF i.mode = 0 THEN Spend(setCCR(setD(c, i.reg, sz, o.v), o.f), regCycles)
     ELSE Spend(writeBus(setCCR(InMemory(c, i, sz).c, o.f), sz, a.v, o.v), memCycles + FetchCost(i, sz))

\* An operand in memory is resolved and read once.
LEMMA InMemoryOK ==
  ASSUME NEW c \in State, Len(c.ext) >= 2, NEW i, Operands(i.mode, i.reg), IsMem(i.mode, i.reg),
         NEW sz \in Size
  PROVE  LET d == InMemory(c, i, sz)
             a == makeEAMemAddr(c, i.mode, i.reg, sz)
         IN /\ Accesses(c, d.c, FetchCost(i, sz), 2) /\ d.c.ccr = c.ccr
            /\ d.v \in 0 .. Top(sz) - 1 /\ d.v \in Int /\ a.v \in Int
  <1>1. InMemory(c, i, sz) = makeEARead(c, i.mode, i.reg, sz)
    BY DEF InMemory, makeEARead, IsMem
  <1>2. Reads(c, InMemory(c, i, sz), FetchCost(i, sz), sz)
    BY <1>1, makeEAReadOK DEF FetchCost
  <1>3. makeEAMemAddr(c, i.mode, i.reg, sz).v \in Int
    BY makeEAMemAddrOK, RegisterRange DEF Reaches
  <1> QED
    BY <1>2, <1>3 DEF Reads

\* modify after k words of the instruction have been fetched.
LEMMA ModifiedOK ==
  ASSUME NEW b \in Started, NEW c, NEW n \in Nat, NEW k \in 0 .. 2, Accesses(b, c, n, k),
         NEW i, Operands(i.mode, i.reg), i.mode # 0 => IsMem(i.mode, i.reg), NEW sz \in Size,
         NEW o, Result(o),
         NEW regCycles \in Nat, NEW memCycles \in Nat,
         i.mode = 0 => n + 4 <= regCycles, i.mode # 0 => n + 4 * Words(sz) + 4 <= memCycles
  PROVE  Done(b, Modified(c, i, sz, o, regCycles, memCycles), sz, TRUE)
  <1>1. CASE i.mode = 0
    <2>1. i.reg \in 0 .. 7
      BY DEF Operands
    <2> QED
      BY <1>1, <2>1, RegisterDone, Zenon DEF Modified
  <1>2. CASE i.mode # 0
    <2> DEFINE d == InMemory(c, i, sz)
               a == makeEAMemAddr(c, i.mode, i.reg, sz)
               q == FetchCost(i, sz)
    <2>1. b \in State /\ c \in State /\ Len(c.ext) >= 2
      <3>1. b \in State /\ c \in State /\ Len(b.ext) = 4 /\ Len(c.ext) >= Len(b.ext) - k
        BY DEF Started, Accesses
      <3>2. Len(c.ext) \in Nat
        BY <3>1, StateFields
      <3> QED
        BY <3>1, <3>2
    <2>2. Accesses(c, d.c, q, 2) /\ a.v \in Int
      BY <1>2, <2>1, InMemoryOK
    <2>3. q \in Nat
      BY ChargeFetch DEF FetchCost
    <2> HIDE DEF d, a, q
    <2>4. Accesses(b, d.c, n + q, k + 2)
      <3>1. k \in Nat
        OBVIOUS
      <3> HIDE DEF a
      <3> QED
        BY <2>1, <2>2, <2>3, <3>1, AccessesTwice, Zenon
    <2>5. o.v \in Int /\ o.f \in SUBSET CCRBits
      BY DEF Result
    <2>6. Accesses(b, setCCR(d.c, o.f), n + q, k + 2)
      BY <2>1, <2>4, <2>5, AccessFlags
    <2>7. n + q \in Nat /\ memCycles + q \in Nat /\ n + q + 4 * Words(sz) + 4 <= memCycles + q
      BY <1>2, <2>3 DEF Words
    <2>8. Done(b, Spend(writeBus(setCCR(d.c, o.f), sz, a.v, o.v), memCycles + q), sz, TRUE)
      BY <2>2, <2>5, <2>6, <2>7, MemoryDone, Zenon
    <2> QED
      BY <1>2, <2>8, Zenon DEF Modified, d, a, q
  <1> QED
    BY <1>1, <1>2, Zenon

-----------------------------------------------------------------------------
(***************************************************************************)
(* The handlers.                                                           *)
(***************************************************************************)
\* The fields of an instruction that the opcode table has.
LEMMA Fields ==
  ASSUME NEW i, Encodable(i)
  PROVE  /\ i.sz \in Size /\ i.mode \in 0 .. 7 /\ i.reg \in 0 .. 7 /\ i.dn \in 0 .. 7
         /\ i.dmode \in 0 .. 7 /\ i.data \in Nat /\ i.left \in BOOLEAN /\ Operands(i.mode, i.reg)
         /\ Alterable(i) => (i.mode # 0 => IsMem(i.mode, i.reg)) /\ (i.mode = 7 => i.reg < 2)
         /\ Control(i) => IsMem(i.mode, i.reg)
  <1>1. /\ i.sz \in Size /\ i.mode \in 0 .. 7 /\ i.reg \in 0 .. 7 /\ i.dn \in 0 .. 7 /\ i.dmode \in 0 .. 7
        /\ i.data \in 0 .. Top(1) - 1 /\ i.left \in BOOLEAN /\ (i.mode = 7 => i.reg < 5)
    BY DEF Encodable
  <1>2. Top(1) \in Nat
    BY Positive DEF Size
  <1> QED
    BY <1>1, <1>2 DEF Operands, Alterable, Control, IsMem

\* modify in a handler that fetches nothing first.
LEMMA ModifiedAtOnce ==
  ASSUME NEW c \in Started, NEW i, Operands(i.mode, i.reg), i.mode # 0 => IsMem(i.mode, i.reg),
         NEW sz \in Size, NEW o, Result(o),
         NEW regCycles \in Nat, NEW memCycles \in Nat,
         i.mode = 0 => 4 <= regCycles, i.mode # 0 => 4 * Words(sz) + 4 <= memCycles
  PROVE  Done(c, Modified(c, i, sz, o, regCycles, memCycles), sz, TRUE)
  <1> DEFINE n == 0
             k == 0
  <1>1. Accesses(c, c, n, k) /\ n \in Nat /\ k \in 0 .. 2
    BY Starts
  <1>2. (i.mode = 0 => n + 4 <= regCycles) /\ (i.mode # 0 => n + 4 * Words(sz) + 4 <= memCycles)
    BY DEF Words
  <1> HIDE DEF n, k
  <1> QED
    BY <1>1, <1>2, ModifiedOK, Zenon

\* The value that modify reads, a register's or memory's.
Destination(c, i, sz) == IF i.mode = 0 THEN Low(c.D[i.reg], sz) ELSE InMemory(c, i, sz).v

LEMMA DestinationOK ==
  ASSUME NEW c \in State, Len(c.ext) >= 2, NEW i, Operands(i.mode, i.reg),
         i.mode # 0 => IsMem(i.mode, i.reg), NEW sz \in Size
  PROVE  Destination(c, i, sz) \in Int
  <1>1. CASE i.mode = 0
    <2>1. c.D[i.reg] \in Int
      BY StateFields DEF Operands
    <2> QED
      BY <1>1, <2>1, LowInt DEF Destination
  <1>2. CASE i.mode # 0
    BY <1>2, InMemoryOK DEF Destination
  <1> QED
    BY <1>1, <1>2

\* The source of an instruction, as makeEARead gives it.
LEMMA Source ==
  ASSUME NEW c \in Started, NEW i, Operands(i.mode, i.reg), NEW sz \in Size
  PROVE  LET s == makeEARead(c, i.mode, i.reg, sz)
         IN /\ Accesses(c, s.c, FetchCost(i, sz), 2) /\ s.c \in State /\ s.c.ccr = c.ccr
            /\ s.v \in 0 .. Top(sz) - 1 /\ s.v \in Int /\ FetchCost(i, sz) \in Nat
            /\ s.c.D = c.D /\ \A r \in 0 .. 7 : s.c.D[r] \in Int /\ s.c.A[r] \in Int
  <1> DEFINE s == makeEARead(c, i.mode, i.reg, sz)
  <1>1. Reads(c, s, FetchCost(i, sz), sz)
    BY Starts, makeEAReadOK DEF FetchCost
  <1>2. FetchCost(i, sz) \in Nat
    BY ChargeFetch DEF FetchCost
  <1> HIDE DEF s
  <1>3. s.c \in State /\ s.c.D = c.D
    BY <1>1 DEF Reads, Accesses
  <1>4. \A r \in 0 .. 7 : s.c.D[r] \in Int /\ s.c.A[r] \in Int
    BY <1>3, StateFields
  <1> QED
    BY <1>1, <1>2, <1>3, <1>4 DEF Reads, s

\* ADD, SUB, AND and OR with a register as destination.
LEMMA toRegDone ==
  ASSUME NEW c \in Started, NEW i, Encodable(i)
  PROVE  /\ Done(c, makeADDtoReg(c, i), i.sz, TRUE) /\ Done(c, makeSUBtoReg(c, i), i.sz, TRUE)
         /\ Done(c, makeANDtoReg(c, i), i.sz, TRUE) /\ Done(c, makeORtoReg(c, i), i.sz, TRUE)
  <1> DEFINE s == makeEARead(c, i.mode, i.reg, i.sz)
             d == Low(s.c.D[i.dn], i.sz)
             m == By(i.sz, 4, IF IsMem(i.mode, i.reg) THEN 6 ELSE 8) + FetchCost(i, i.sz)
             End(o) == Spend(setCCR(setD(s.c, i.dn, i.sz, o.v), o.f), m)
  <1>1. i.sz \in Size /\ i.dn \in 0 .. 7 /\ Operands(i.mode, i.reg) /\ c.ccr \in SUBSET CCRBits
    BY Fields, Starts
  <1>2. Accesses(c, s.c, FetchCost(i, i.sz), 2) /\ s.v \in Int /\ FetchCost(i, i.sz) \in Nat
        /\ s.c.D[i.dn] \in Int
    BY <1>1, Source
  <1>3. d \in Int /\ m \in Nat /\ FetchCost(i, i.sz) + 4 <= m
    BY <1>1, <1>2, LowInt DEF By
  <1>4. /\ makeADDtoReg(c, i) = End(Add(c.ccr, s.v, d, i.sz))
        /\ makeSUBtoReg(c, i) = End(Sub(c.ccr, s.v, d, i.sz))
        /\ makeANDtoReg(c, i) = End(Conj(c.ccr, s.v, d, i.sz))
        /\ makeORtoReg(c, i) = End(Disj(c.ccr, s.v, d, i.sz))
    BY Zenon DEF makeADDtoReg, makeSUBtoReg, makeANDtoReg, makeORtoReg, toReg
  <1> HIDE DEF s, d, m
  <1>5. \A o : Result(o) => Done(c, End(o), i.sz, TRUE)
    BY <1>1, <1>2, <1>3, RegisterDone, Zenon
  <1> HIDE DEF End
  <1> QED
    BY <1>1, <1>2, <1>3, <1>4, <1>5, Sums, Logics, Zenon

\* ADD, SUB, AND, OR and EOR with a register as source.
LEMMA toEADone ==
  ASSUME NEW c \in Started, NEW i, Encodable(i), Alterable(i)
  PROVE  /\ Done(c, makeADDtoEA(c, i), i.sz, TRUE) /\ Done(c, makeSUBtoEA(c, i), i.sz, TRUE)
         /\ Done(c, makeANDtoEA(c, i), i.sz, TRUE) /\ Done(c, makeORtoEA(c, i), i.sz, TRUE)
         /\ Done(c, makeEOR(c, i), i.sz, TRUE)
  <1> DEFINE s == Low(c.D[i.dn], i.sz)
             d == Destination(c, i, i.sz)
             End(o) == Modified(c, i, i.sz, o, By(i.sz, 4, 8), By(i.sz, 8, 12))
  <1>1. /\ i.sz \in Size /\ i.dn \in 0 .. 7 /\ Operands(i.mode, i.reg)
        /\ c.ccr \in SUBSET CCRBits /\ (i.mode # 0 => IsMem(i.mode, i.reg))
    BY Fields, Starts
  <1>2. s \in Int /\ d \in Int
    BY <1>1, Starts, DestinationOK, Zenon
  <1>3. /\ makeADDtoEA(c, i) = End(Add(c.ccr, s, d, i.sz))
        /\ makeSUBtoEA(c, i) = End(Sub(c.ccr, s, d, i.sz))
        /\ makeANDtoEA(c, i) = End(Conj(c.ccr, s, d, i.sz))
        /\ makeORtoEA(c, i) = End(Disj(c.ccr, s, d, i.sz))
        /\ makeEOR(c, i) = End(Excl(c.ccr, s, d, i.sz))
    BY Zenon DEF makeADDtoEA, makeSUBtoEA, makeANDtoEA, makeORtoEA, makeEOR, toEA, modify, Modified,
           InMemory, Destination
  <1>4. /\ By(i.sz, 4, 8) \in Nat /\ By(i.sz, 8, 12) \in Nat
        /\ 4 <= By(i.sz, 4, 8) /\ 4 * Words(i.sz) + 4 <= By(i.sz, 8, 12)
    BY DEF By, Words
  <1>5. \A o : Result(o) => Done(c, End(o), i.sz, TRUE)
    BY <1>1, <1>4, ModifiedAtOnce, Zenon
  <1> HIDE DEF s, d, End
  <1> QED
    BY <1>1, <1>2, <1>3, <1>5, Sums, Logics, Zenon

\* NEG, NEGX and NOT.
LEMMA unaryDone ==
  ASSUME NEW c \in Started, NEW i, Encodable(i), Alterable(i)
  PROVE  /\ Done(c, makeNEG(c, i), i.sz, TRUE) /\ Done(c, makeNEGX(c, i), i.sz, TRUE)
         /\ Done(c, makeNOT(c, i), i.sz, TRUE)
  <1> DEFINE d == Destination(c, i, i.sz)
             End(o) == Modified(c, i, i.sz, o, By(i.sz, 4, 6), By(i.sz, 8, 12))
  <1>1. /\ i.sz \in Size /\ Operands(i.mode, i.reg) /\ c.ccr \in SUBSET CCRBits
        /\ (i.mode # 0 => IsMem(i.mode, i.reg))
    BY Fields, Starts
  <1>2. d \in Int
    BY <1>1, Starts, DestinationOK
  <1>3. /\ makeNEG(c, i) = End(Negate(c.ccr, 0, d, i.sz))
        /\ makeNEGX(c, i) = End(Negx(c.ccr, 0, d, i.sz))
        /\ makeNOT(c, i) = End(Invert(c.ccr, 0, d, i.sz))
    BY Zenon DEF makeNEG, makeNEGX, makeNOT, unary, modify, Modified, InMemory, Destination
  <1>4. /\ By(i.sz, 4, 6) \in Nat /\ By(i.sz, 8, 12) \in Nat
        /\ 4 <= By(i.sz, 4, 6) /\ 4 * Words(i.sz) + 4 <= By(i.sz, 8, 12)
    BY DEF By, Words
  <1>5. \A o : Result(o) => Done(c, End(o), i.sz, TRUE)
    BY <1>1, <1>4, ModifiedAtOnce, Zenon
  <1> HIDE DEF d
  <1>6. /\ Result(Negate(c.ccr, 0, d, i.sz)) /\ Result(Negx(c.ccr, 0, d, i.sz))
        /\ Result(Invert(c.ccr, 0, d, i.sz))
    BY <1>1, <1>2, Sums
  <1> HIDE DEF End
  <1> QED
    BY <1>3, <1>5, <1>6, Zenon

\* TAS and NBCD.
LEMMA byteDone ==
  ASSUME NEW c \in Started, NEW i, Encodable(i), Alterable(i)
  PROVE  Done(c, makeTAS(c, i), 1, TRUE) /\ Done(c, makeNBCD(c, i), 1, TRUE)
  <1> DEFINE sz == 1
             d == Destination(c, i, sz)
             o == Tas(c.ccr, 0, d, sz)
             p == Nbcd(c.ccr, 0, d, sz)
             r == <<4, 6>>
             m == <<10, 8>>
  <1>1. /\ sz \in Size /\ Operands(i.mode, i.reg) /\ c.ccr \in SUBSET CCRBits
        /\ (i.mode # 0 => IsMem(i.mode, i.reg))
    BY Fields, Starts, Zenon DEF Size
  <1>2. d \in Int
    BY <1>1, Starts, DestinationOK
  <1>3. makeTAS(c, i) = Modified(c, i, sz, o, r[1], m[1])
    BY Zenon DEF makeTAS, modify, Modified, InMemory, Destination
  <1>4. makeNBCD(c, i) = Modified(c, i, sz, p, r[2], m[2])
    BY Zenon DEF makeNBCD, modify, Modified, InMemory, Destination
  <1>5. \A k \in {1, 2} : r[k] \in Nat /\ m[k] \in Nat /\ 4 <= r[k] /\ 4 * Words(sz) + 4 <= m[k]
    BY DEF Words
  <1> HIDE DEF d, sz, r, m
  <1>6. Result(o) /\ Result(p)
    BY <1>1, <1>2, Sums, Decimals
  <1> HIDE DEF o, p
  <1>7. Done(c, makeTAS(c, i), sz, TRUE)
    BY <1>1, <1>3, <1>5, <1>6, ModifiedAtOnce, Zenon
  <1>8. Done(c, makeNBCD(c, i), sz, TRUE)
    BY <1>1, <1>4, <1>5, <1>6, ModifiedAtOnce, Zenon
  <1> QED
    BY <1>7, <1>8, Zenon DEF sz

LEMMA ShiftMemDone ==
  ASSUME NEW c \in Started, NEW i, Encodable(i), IsMem(i.mode, i.reg),
         i.typ \in {"AS", "LS", "ROX", "RO"}
  PROVE  Done(c, makeShiftMem(c, i), 2, TRUE)
  <1> DEFINE d == Destination(c, i, 2)
             o == doShift(c.ccr, d, 1, i.left, i.typ, 2)
             sz == 2
  <1>1. /\ sz \in Size /\ Operands(i.mode, i.reg) /\ c.ccr \in SUBSET CCRBits /\ i.mode # 0
        /\ i.left \in BOOLEAN
    <2>1. i.mode # 0 /\ sz \in Size
      BY DEF IsMem, Size
    <2> QED
      BY <2>1, Fields, Starts
  <1>2. d \in Int
    BY <1>1, Starts, DestinationOK
  <1>3. makeShiftMem(c, i) = Modified(c, i, sz, o, 0, 8)
    BY <1>1, Zenon DEF makeShiftMem, modify, Modified, InMemory, Destination
  <1>4. Result(o)
    <2> HIDE DEF d
    <2> QED
      BY <1>1, <1>2, doShiftOK DEF Size
  <1>5. 4 * Words(sz) + 4 <= 8
    BY DEF Words
  <1> HIDE DEF sz, o
  <1> QED
    BY <1>1, <1>3, <1>4, <1>5, ModifiedAtOnce, Zenon DEF sz

\* ADDI, SUBI, ANDI, ORI and EORI.
LEMMA immediateDone ==
  ASSUME NEW c \in Started, NEW i, Encodable(i), Alterable(i)
  PROVE  /\ Done(c, makeADDI(c, i), i.sz, TRUE) /\ Done(c, makeSUBI(c, i), i.sz, TRUE)
         /\ Done(c, makeANDI(c, i), i.sz, TRUE) /\ Done(c, makeORI(c, i), i.sz, TRUE)
         /\ Done(c, makeEORI(c, i), i.sz, TRUE)
  <1> DEFINE imm == fetchImm(c, i.sz)
             b == imm.c
             s == imm.v
             d == Destination(b, i, i.sz)
             n == 4 * Words(i.sz)
             k == 2
             End(o) == Modified(b, i, i.sz, o, By(i.sz, 8, 16), By(i.sz, 12, 20))
  <1>1. /\ i.sz \in Size /\ Operands(i.mode, i.reg) /\ c.ccr \in SUBSET CCRBits
        /\ (i.mode # 0 => IsMem(i.mode, i.reg))
    BY Fields, Starts
  <1>2. Accesses(c, b, n, k) /\ b \in State /\ Len(b.ext) >= 2 /\ b.ccr = c.ccr /\ s \in Int
    BY <1>1, AfterImm
  <1>3. /\ makeADDI(c, i) = End(Add(b.ccr, s, d, i.sz))
        /\ makeSUBI(c, i) = End(Sub(b.ccr, s, d, i.sz))
        /\ makeANDI(c, i) = End(Conj(b.ccr, s, d, i.sz))
        /\ makeORI(c, i) = End(Disj(b.ccr, s, d, i.sz))
        /\ makeEORI(c, i) = End(Excl(b.ccr, s, d, i.sz))
    BY Zenon DEF makeADDI, makeSUBI, makeANDI, makeORI, makeEORI, immediate, modify, Modified,
           InMemory, Destination
  <1>4. /\ By(i.sz, 8, 16) \in Nat /\ By(i.sz, 12, 20) \in Nat /\ n \in Nat /\ k \in 0 .. 2
        /\ n + 4 <= By(i.sz, 8, 16) /\ n + 4 * Words(i.sz) + 4 <= By(i.sz, 12, 20)
    BY DEF By, Words
  <1> HIDE DEF imm, b, s, n, k
  <1>5. d \in Int
    BY <1>1, <1>2, DestinationOK, Zenon
  <1>6. \A o : Result(o) => Done(c, End(o), i.sz, TRUE)
    BY <1>1, <1>2, <1>4, ModifiedOK, Zenon
  <1> HIDE DEF d, End
  <1> QED
    BY <1>1, <1>2, <1>3, <1>5, <1>6, Sums, Logics, Zenon

\* ADDQ and SUBQ; an address register is written whole, with no flags.
LEMMA quickDone ==
  ASSUME NEW c \in Started, NEW i, Encodable(i), i.mode = 1 \/ Alterable(i)
  PROVE  LET keep == ~(i.mode = 1 /\ i.reg = 7)
         IN Done(c, makeADDQ(c, i), i.sz, keep) /\ Done(c, makeSUBQ(c, i), i.sz, keep)
  <1> DEFINE keep == ~(i.mode = 1 /\ i.reg = 7)
             imm == IF i.data = 0 THEN 8 ELSE i.data
  <1>1. /\ i.sz \in Size /\ Operands(i.mode, i.reg) /\ c.ccr \in SUBSET CCRBits /\ i.data \in Nat
        /\ i.reg \in 0 .. 7
    BY Fields, Starts
  <1>2. imm \in Int
    BY <1>1
  <1>3. CASE i.mode = 1
    <2> DEFINE n == 0
               m == 8
               x == c.A[i.reg] + 1 * imm
               y == c.A[i.reg] + (-1) * imm
    <2>1. makeADDQ(c, i) = Spend(setA(c, i.reg, x), m) /\ makeSUBQ(c, i) = Spend(setA(c, i.reg, y), m)
      BY <1>3 DEF makeADDQ, makeSUBQ, quick
    <2>2. c.A[i.reg] \in Int
      BY <1>1, Starts, Zenon
    <2> HIDE DEF imm
    <2>3. x \in Int /\ y \in Int
      BY <1>2, <2>2
    <2>4. n \in Nat /\ m \in Nat /\ n + 4 <= m /\ Accesses(c, c, n, 0)
      BY Starts
    <2>5. keep \in BOOLEAN /\ (keep => i.reg # 7)
      BY <1>3
    <2> HIDE DEF n, m, x, y, keep
    <2>6. Done(c, Spend(setA(c, i.reg, x), m), i.sz, keep)
      BY <1>1, <2>3, <2>4, <2>5, AddressDone
    <2>7. Done(c, Spend(setA(c, i.reg, y), m), i.sz, keep)
      BY <1>1, <2>3, <2>4, <2>5, AddressDone, Zenon
    <2> QED
      BY <2>1, <2>6, <2>7 DEF keep
  <1>4. CASE i.mode # 1
    <2> DEFINE d == Destination(c, i, i.sz)
               End(o) == Modified(c, i, i.sz, o, By(i.sz, 4, 8), By(i.sz, 8, 12))
    <2>1. i.mode # 0 => IsMem(i.mode, i.reg)
      BY <1>4, Fields
    <2>2. d \in Int
      BY <1>1, <2>1, Starts, DestinationOK
    <2>3. /\ makeADDQ(c, i) = End(Add(c.ccr, imm, d, i.sz))
          /\ makeSUBQ(c, i) = End(Sub(c.ccr, imm, d, i.sz))
      BY <1>4, Zenon DEF makeADDQ, makeSUBQ, quick, modify, Modified, InMemory, Destination
    <2>4. /\ By(i.sz, 4, 8) \in Nat /\ By(i.sz, 8, 12) \in Nat
          /\ 4 <= By(i.sz, 4, 8) /\ 4 * Words(i.sz) + 4 <= By(i.sz, 8, 12)
      BY DEF By, Words
    <2>5. \A o : Result(o) => Done(c, End(o), i.sz, TRUE)
      BY <1>1, <2>1, <2>4, ModifiedAtOnce, Zenon
    <2> HIDE DEF d, imm
    <2>6. Result(Add(c.ccr, imm, d, i.sz)) /\ Result(Sub(c.ccr, imm, d, i.sz))
      BY <1>1, <1>2, <2>2, Sums, Zenon
    <2> HIDE DEF End
    <2> QED
      BY <2>3, <2>5, <2>6, DoneKeeps, Zenon
  <1> QED
    BY <1>3, <1>4

\* Bit numbers are taken modulo the width of the operand.
LEMMA BitNumber ==
  ASSUME NEW v \in Int, NEW i
  PROVE  /\ BitSize(i) \in Size /\ v % Bits(BitSize(i)) \in 0 .. Bits(4)
         /\ i.mode # 0 => Words(BitSize(i)) = 1
  <1>1. BitSize(i) \in Size /\ (i.mode # 0 => Words(BitSize(i)) = 1)
    BY DEF BitSize, Size, Words
  <1> DEFINE b == Bits(BitSize(i))
  <1>2. b \in Nat \ {0} /\ b <= Bits(4) /\ Bits(4) \in Nat
    BY <1>1, BitsOK DEF Size
  <1> HIDE DEF b
  <1>3. v % b \in 0 .. Bits(4)
    BY <1>2
  <1> QED
    BY <1>1, <1>3 DEF b

\* BCHG, BCLR and BSET with the number in a register, then with an immediate one.
LEMMA dynBitDone ==
  ASSUME NEW c \in Started, NEW i, Encodable(i), Alterable(i)
  PROVE  /\ Done(c, makeBCHGdyn(c, i), BitSize(i), TRUE) /\ Done(c, makeBCLRdyn(c, i), BitSize(i), TRUE)
         /\ Done(c, makeBSETdyn(c, i), BitSize(i), TRUE)
  <1> DEFINE sz == BitSize(i)
             n == c.D[i.dn] % Bits(sz)
             d == Destination(c, i, sz)
             short == IF n < Bits(2) THEN 6 ELSE 8
             long == IF n < Bits(2) THEN 8 ELSE 10
             m == 8
  <1>1. /\ i.dn \in 0 .. 7 /\ Operands(i.mode, i.reg) /\ c.ccr \in SUBSET CCRBits
        /\ (i.mode # 0 => IsMem(i.mode, i.reg)) /\ c.D[i.dn] \in Int
    BY Fields, Starts, Zenon
  <1>2. sz \in Size /\ n \in 0 .. Bits(4) /\ (i.mode # 0 => Words(sz) = 1)
    BY <1>1, BitNumber
  <1>3. /\ makeBCHGdyn(c, i) = Modified(c, i, sz, Flip(c.ccr, n, d, sz), short, m)
        /\ makeBCLRdyn(c, i) = Modified(c, i, sz, Clear(c.ccr, n, d, sz), long, m)
        /\ makeBSETdyn(c, i) = Modified(c, i, sz, Set(c.ccr, n, d, sz), short, m)
    BY Zenon DEF makeBCHGdyn, makeBCLRdyn, makeBSETdyn, dynBit, modify, Modified, InMemory, Destination
  <1> HIDE DEF sz
  <1>4. d \in Int
    BY <1>1, <1>2, Starts, DestinationOK, Zenon
  <1>5. /\ short \in Nat /\ long \in Nat /\ m \in Nat /\ 4 <= short /\ 4 <= long
        /\ (i.mode # 0 => 4 * Words(sz) + 4 <= m)
    BY <1>2
  <1> HIDE DEF n, d, short, long, m
  <1>6. \A o : Result(o) => /\ Done(c, Modified(c, i, sz, o, short, m), sz, TRUE)
                            /\ Done(c, Modified(c, i, sz, o, long, m), sz, TRUE)
    BY <1>1, <1>2, <1>5, ModifiedAtOnce, Zenon
  <1>7. /\ Result(Flip(c.ccr, n, d, sz)) /\ Result(Clear(c.ccr, n, d, sz))
        /\ Result(Set(c.ccr, n, d, sz))
    BY <1>1, <1>2, <1>4, BitResults
  <1> QED
    BY <1>3, <1>6, <1>7, Zenon DEF sz

LEMMA staticBitDone ==
  ASSUME NEW c \in Started, NEW i, Encodable(i), Alterable(i)
  PROVE  /\ Done(c, makeBCHGstatic(c, i), BitSize(i), TRUE)
         /\ Done(c, makeBCLRstatic(c, i), BitSize(i), TRUE)
         /\ Done(c, makeBSETstatic(c, i), BitSize(i), TRUE)
  <1> DEFINE sz == BitSize(i)
             w == fetchPC(c)
             b == w.c
             n == w.v % Bits(sz)
             d == Destination(b, i, sz)
             t == 4
             k == 1
             short == 12
             long == 14
             m == 12
  <1>1. /\ Operands(i.mode, i.reg) /\ c.ccr \in SUBSET CCRBits /\ (i.mode # 0 => IsMem(i.mode, i.reg))
    BY Fields, Starts
  <1>2. /\ Accesses(c, b, t, k) /\ b \in State /\ Len(b.ext) >= 2 /\ b.ccr = c.ccr
        /\ sz \in Size /\ n \in 0 .. Bits(4) /\ (i.mode # 0 => Words(sz) = 1)
    BY AfterWord, BitNumber, Zenon
  <1>3. /\ makeBCHGstatic(c, i) = Modified(b, i, sz, Flip(b.ccr, n, d, sz), short, m)
        /\ makeBCLRstatic(c, i) = Modified(b, i, sz, Clear(b.ccr, n, d, sz), long, m)
        /\ makeBSETstatic(c, i) = Modified(b, i, sz, Set(b.ccr, n, d, sz), short, m)
    BY Zenon DEF makeBCHGstatic, makeBCLRstatic, makeBSETstatic, staticBit, modify, Modified, InMemory,
           Destination
  <1> HIDE DEF sz, w, b
  <1>4. d \in Int
    BY <1>1, <1>2, DestinationOK, Zenon
  <1>5. /\ short \in Nat /\ long \in Nat /\ m \in Nat /\ t \in Nat /\ k \in 0 .. 2
        /\ t + 4 <= short /\ t + 4 <= long /\ (i.mode # 0 => t + 4 * Words(sz) + 4 <= m)
    BY <1>2
  <1> HIDE DEF n, d, short, long, m, t, k
  <1>6. \A o : Result(o) => /\ Done(c, Modified(b, i, sz, o, short, m), sz, TRUE)
                            /\ Done(c, Modified(b, i, sz, o, long, m), sz, TRUE)
    BY <1>1, <1>2, <1>5, ModifiedOK, Zenon
  <1>7. /\ Result(Flip(b.ccr, n, d, sz)) /\ Result(Clear(b.ccr, n, d, sz))
        /\ Result(Set(b.ccr, n, d, sz))
    BY <1>1, <1>2, <1>4, BitResults, Zenon
  <1> QED
    BY <1>3, <1>6, <1>7, Zenon DEF sz

LEMMA BTSTDone ==
  ASSUME NEW c \in Started, NEW i, Encodable(i), NEW sz
  PROVE  Done(c, makeBTSTdyn(c, i), sz, TRUE) /\ Done(c, makeBTSTstatic(c, i), sz, TRUE)
  <1> DEFINE b == BitSize(i)
             q == FetchCost(i, b)
  <1>1. Operands(i.mode, i.reg) /\ c.ccr \in SUBSET CCRBits /\ b \in Size
    BY Fields, Starts, BitNumber
  <1>2. /\ q \in Nat /\ (i.mode = 0 => q = 0) /\ (i.mode # 0 => FetchCost(i, 1) = q)
    <2>1. q \in Nat
      BY <1>1, ChargeFetch DEF FetchCost
    <2>2. CASE i.mode = 0
      BY <2>1, <2>2 DEF FetchCost, Charge, eaFetchConst
    <2>3. CASE i.mode # 0
      BY <2>1, <2>3 DEF BitSize
    <2> QED
      BY <2>2, <2>3
  <1> HIDE DEF b, q
  <1>3. Done(c, makeBTSTdyn(c, i), sz, TRUE)
    <2> DEFINE s == makeEARead(c, i.mode, i.reg, b)
               f == TestBit(c.ccr, c.D[i.dn] % Bits(b), s.v)
               m == IF i.mode = 0 THEN 6 ELSE 4 + FetchCost(i, 1)
    <2>1. makeBTSTdyn(c, i) = Spend(setCCR(s.c, f), m)
      BY DEF makeBTSTdyn, b
    <2>2. Accesses(c, s.c, q, 2)
      BY <1>1, Source DEF q
    <2>3. f \in SUBSET CCRBits
      BY <1>1, TestBitOK
    <2>4. m \in Nat /\ q + 4 <= m
      BY <1>2
    <2> HIDE DEF s, f, m
    <2> QED
      BY <1>2, <2>1, <2>2, <2>3, <2>4, FlagsDone, Zenon
  <1>4. Done(c, makeBTSTstatic(c, i), sz, TRUE)
    <2> DEFINE w == fetchPC(c)
               t == 4
               k == 1
               l == 2
               s == makeEARead(w.c, i.mode, i.reg, b)
               f == TestBit(c.ccr, w.v % Bits(b), s.v)
               m == IF i.mode = 0 THEN 10 ELSE 8 + FetchCost(i, 1)
    <2>1. makeBTSTstatic(c, i) = Spend(setCCR(s.c, f), m)
      BY DEF makeBTSTstatic, b
    <2>2. Accesses(c, w.c, t, k) /\ w.c \in State /\ Len(w.c.ext) >= 2
      BY AfterWord
    <2> HIDE DEF w
    <2>3. Accesses(w.c, s.c, q, l)
      BY <1>1, <2>2, makeEAReadOK DEF q, FetchCost, Reads
    <2>4. t \in Nat /\ k \in Nat /\ l \in Nat /\ m \in Nat /\ t + q \in Nat /\ t + q + 4 <= m
      BY <1>2
    <2>5. f \in SUBSET CCRBits
      BY <1>1, TestBitOK
    <2> HIDE DEF s, f, m, t, k, l
    <2>6. Accesses(c, s.c, t + q, k + l)
      BY <1>2, <2>2, <2>3, <2>4, Starts, AccessesTwice, Zenon
    <2> QED
      BY <2>1, <2>4, <2>5, <2>6, FlagsDone, Zenon
  <1> QED
    BY <1>3, <1>4, Zenon

\* ADDX, SUBX, ABCD and SBCD on registers, then on memory.
LEMMA regPairDone ==
  ASSUME NEW c \in Started, NEW i, Encodable(i)
  PROVE  /\ Done(c, opADDXreg(c, i), i.sz, TRUE) /\ Done(c, opSUBXreg(c, i), i.sz, TRUE)
         /\ Done(c, opABCDreg(c, i), i.sz, TRUE) /\ Done(c, opSBCDreg(c, i), i.sz, TRUE)
  <1> DEFINE s == Low(c.D[i.reg], i.sz)
             d == Low(c.D[i.dn], i.sz)
             n == 0
             m == By(i.sz, 4, 8)
             b == 6
             End(o, t) == Spend(setCCR(setD(c, i.dn, i.sz, o.v), o.f), t)
  <1>1. i.sz \in Size /\ i.dn \in 0 .. 7 /\ i.reg \in 0 .. 7 /\ c.ccr \in SUBSET CCRBits
    BY Fields, Starts, Zenon
  <1>2. s \in Int /\ d \in Int
    BY <1>1, Starts, Zenon
  <1>3. /\ opADDXreg(c, i) = End(addx(c.ccr, s, d, i.sz), m)
        /\ opSUBXreg(c, i) = End(subx(c.ccr, s, d, i.sz), m)
        /\ opABCDreg(c, i) = End(Abcd(c.ccr, s, d, i.sz), b)
        /\ opSBCDreg(c, i) = End(Sbcd(c.ccr, s, d, i.sz), b)
    BY Zenon DEF opADDXreg, opSUBXreg, opABCDreg, opSBCDreg, regPair
  <1>4. /\ n \in Nat /\ m \in Nat /\ b \in Nat /\ n + 4 <= m /\ n + 4 <= b
        /\ Accesses(c, c, n, 0)
    <2>1. m \in Nat /\ 4 <= m
      BY DEF By
    <2>2. Accesses(c, c, 0, 0)
      BY Starts, Zenon
    <2> HIDE DEF m
    <2> QED
      BY <2>1, <2>2
  <1> HIDE DEF s, d, n, m, b
  <1>5. \A o : Result(o) => Done(c, End(o, m), i.sz, TRUE) /\ Done(c, End(o, b), i.sz, TRUE)
    BY <1>1, <1>4, RegisterDone, Zenon
  <1> HIDE DEF End
  <1> QED
    BY <1>1, <1>2, <1>3, <1>5, Sums, Decimals, Zenon

LEMMA memPairOK ==
  ASSUME NEW c \in Started, NEW i, Encodable(i), NEW mode \in {3, 4}
  PROVE  LET p == memPair(c, i, mode)
         IN /\ Accesses(c, p.c, 8 * Words(i.sz), 0) /\ p.c.ccr = c.ccr /\ p.s \in Int /\ p.d \in Int
            /\ p.e.mode = "eaMemory" /\ p.e.addr \in Int
  <1> DEFINE src == resolveEA(c, mode, i.reg, i.sz)
             s == read(src.c, src.e, i.sz)
             dst == resolveEA(s.c, mode, i.dn, i.sz)
             d == read(dst.c, dst.e, i.sz)
             n == 4 * Words(i.sz)
             k == 0
  <1>1. i.sz \in Size /\ i.reg \in 0 .. 7 /\ i.dn \in 0 .. 7 /\ c \in State /\ Len(c.ext) >= 2
    BY Fields, Starts
  <1>2. Accesses(c, s.c, n, k) /\ s.c.ccr = c.ccr /\ s.v \in Int
    BY <1>1, StackOperand, Zenon
  <1> HIDE DEF src, s
  <1>3. s.c \in State /\ Len(s.c.ext) >= 2
    <2>1. s.c \in State /\ Len(s.c.ext) >= Len(c.ext) - 0
      BY <1>2 DEF Accesses
    <2>2. Len(c.ext) \in Nat /\ Len(s.c.ext) \in Nat
      BY <1>1, <2>1, StateFields
    <2> QED
      BY <1>1, <2>1, <2>2
  <1>4. /\ Accesses(s.c, d.c, n, k) /\ d.c.ccr = s.c.ccr /\ d.v \in Int
        /\ dst.e.mode = "eaMemory" /\ dst.e.addr \in Int
    BY <1>1, <1>3, StackOperand, Zenon
  <1>5. memPair(c, i, mode) = [c |-> d.c, s |-> s.v, d |-> d.v, e |-> dst.e]
    BY Zenon DEF memPair, src, s
  <1> HIDE DEF dst, d
  <1>6. n \in Nat /\ n + n = 8 * Words(i.sz) /\ k \in Nat /\ k + k = 0
    BY DEF Words
  <1> HIDE DEF n, k
  <1>7. Accesses(c, d.c, n + n, k + k)
    BY <1>1, <1>2, <1>4, <1>6, AccessesTwice
  <1> QED
    BY <1>2, <1>4, <1>5, <1>6, <1>7

LEMMA decPairDone ==
  ASSUME NEW c \in Started, NEW i, Encodable(i)
  PROVE  /\ Done(c, opADDXmem(c, i), i.sz, TRUE) /\ Done(c, opSUBXmem(c, i), i.sz, TRUE)
         /\ i.sz = 1 => Done(c, opABCDmem(c, i), i.sz, TRUE) /\ Done(c, opSBCDmem(c, i), i.sz, TRUE)
         /\ Done(c, opCMPM(c, i), i.sz, TRUE)
  <1> DEFINE p == memPair(c, i, 4)
             n == 8 * Words(i.sz)
             m == By(i.sz, 18, 30)
             b == 18
             End(o, t) == Spend(write(setCCR(p.c, o.f), p.e, i.sz, o.v), t)
  <1>1. i.sz \in Size /\ c.ccr \in SUBSET CCRBits /\ c \in State
    BY Fields, Starts
  <1>2. /\ Accesses(c, p.c, n, 0) /\ p.c.ccr = c.ccr /\ p.s \in Int /\ p.d \in Int
        /\ p.e.mode = "eaMemory" /\ p.e.addr \in Int
    BY memPairOK
  <1>3. /\ opADDXmem(c, i) = End(addx(c.ccr, p.s, p.d, i.sz), m)
        /\ opSUBXmem(c, i) = End(subx(c.ccr, p.s, p.d, i.sz), m)
        /\ opABCDmem(c, i) = End(Abcd(c.ccr, p.s, p.d, i.sz), b)
        /\ opSBCDmem(c, i) = End(Sbcd(c.ccr, p.s, p.d, i.sz), b)
    BY Zenon DEF opADDXmem, opSUBXmem, opABCDmem, opSBCDmem, decPair
  <1>4. /\ n \in Nat /\ m \in Nat /\ b \in Nat /\ n + 4 * Words(i.sz) + 4 <= m
        /\ (i.sz = 1 => n + 4 * Words(i.sz) + 4 <= b)
    BY DEF By, Words
  <1> HIDE DEF p, n, m, b
  <1>5. ASSUME NEW o, Result(o), NEW t \in {m, b}, n + 4 * Words(i.sz) + 4 <= t
        PROVE  Done(c, End(o, t), i.sz, TRUE)
    <2>1. o.v \in Int /\ o.f \in SUBSET CCRBits /\ t \in Nat
      BY <1>4, <1>5 DEF Result
    <2>2. Accesses(c, setCCR(p.c, o.f), n, 0)
      BY <1>1, <1>2, <2>1, AccessFlags
    <2>3. write(setCCR(p.c, o.f), p.e, i.sz, o.v) = writeBus(setCCR(p.c, o.f), i.sz, p.e.addr, o.v)
      BY <1>2 DEF write
    <2>4. Done(c, Spend(writeBus(setCCR(p.c, o.f), i.sz, p.e.addr, o.v), t), i.sz, TRUE)
      BY <1>1, <1>2, <1>4, <1>5, <2>1, <2>2, MemoryDone, Zenon
    <2> QED
      BY <2>3, <2>4, Zenon
  <1> HIDE DEF End
  <1>6. Done(c, opADDXmem(c, i), i.sz, TRUE) /\ Done(c, opSUBXmem(c, i), i.sz, TRUE)
    BY <1>1, <1>2, <1>3, <1>4, <1>5, Sums, Zenon
  <1>7. i.sz = 1 => Done(c, opABCDmem(c, i), i.sz, TRUE) /\ Done(c, opSBCDmem(c, i), i.sz, TRUE)
    BY <1>1, <1>2, <1>3, <1>4, <1>5, Decimals, Zenon
  <1>8. Done(c, opCMPM(c, i), i.sz, TRUE)
    <2> DEFINE q == memPair(c, i, 3)
               f == setFlagsCmp(q.c.ccr, q.s, q.d, q.d - q.s, i.sz)
               t == By(i.sz, 12, 20)
    <2>1. Accesses(c, q.c, n, 0) /\ q.c.ccr = c.ccr
      BY memPairOK DEF n
    <2>2. opCMPM(c, i) = Spend(setCCR(q.c, f), t)
      BY DEF opCMPM, Compared
    <2>3. f \in SUBSET CCRBits
      BY <1>1, <2>1, FlagSets
    <2>4. t \in Nat /\ n + 4 <= t
      BY DEF By, Words, n
    <2> HIDE DEF q, f, t
    <2> QED
      BY <1>4, <2>1, <2>2, <2>3, <2>4, FlagsDone, Zenon
  <1> QED
    BY <1>6, <1>7, <1>8, Zenon

LEMMA SignExtendedOK == ASSUME NEW v \in Int, NEW sz PROVE SignExtended(v, sz) \in Int
  <1>1. Ext(v, 2, 4) \in Int
    BY ExtOK, Positive DEF Size
  <1> QED
    BY <1>1 DEF SignExtended

LEMMA toAddrDone ==
  ASSUME NEW c \in Started, NEW i, Encodable(i)
  PROVE  /\ Done(c, makeADDA(c, i), i.sz, i.dn # 7) /\ Done(c, makeSUBA(c, i), i.sz, i.dn # 7)
         /\ Done(c, makeMOVEA(c, i), i.sz, i.dn # 7)
  <1> DEFINE s == makeEARead(c, i.mode, i.reg, i.sz)
             q == FetchCost(i, i.sz)
             x == SignExtended(s.v, i.sz)
             m == (IF i.sz = 4 /\ IsMem(i.mode, i.reg) THEN 6 ELSE 8) + q
             keep == i.dn # 7
  <1>1. i.sz \in Size /\ i.dn \in 0 .. 7 /\ Operands(i.mode, i.reg)
    BY Fields
  <1>2. Accesses(c, s.c, q, 2) /\ q \in Nat /\ s.v \in Int /\ s.c.A[i.dn] \in Int
    BY <1>1, Source
  <1>3. /\ makeADDA(c, i) = Spend(setA(s.c, i.dn, s.c.A[i.dn] + 1 * x), m)
        /\ makeSUBA(c, i) = Spend(setA(s.c, i.dn, s.c.A[i.dn] + (-1) * x), m)
        /\ makeMOVEA(c, i) = Spend(setA(s.c, i.dn, x), 4 + q)
    BY Zenon DEF makeADDA, makeSUBA, makeMOVEA, toAddr
  <1> HIDE DEF s, q
  <1>4. x \in Int
    BY <1>2, SignExtendedOK
  <1> HIDE DEF x
  <1>5. s.c.A[i.dn] + 1 * x \in Int /\ s.c.A[i.dn] + (-1) * x \in Int
    BY <1>2, <1>4
  <1>6. m \in Nat /\ 4 + q \in Nat /\ q + 4 <= m /\ q + 4 <= 4 + q
    BY <1>2
  <1>7. keep \in BOOLEAN /\ (keep => i.dn # 7)
    OBVIOUS
  <1> HIDE DEF m, keep
  <1>8. \A v \in Int : \A t \in Nat : q + 4 <= t => Done(c, Spend(setA(s.c, i.dn, v), t), i.sz, keep)
    BY <1>1, <1>2, <1>7, AddressDone, Zenon
  <1> QED
    BY <1>3, <1>4, <1>5, <1>6, <1>8 DEF keep

LEMMA CompareDone ==
  ASSUME NEW c \in Started, NEW i, Encodable(i), NEW sz
  PROVE  /\ Done(c, makeCMP(c, i), sz, TRUE) /\ Done(c, makeCMPA(c, i), sz, TRUE)
         /\ Done(c, makeTST(c, i), sz, TRUE)
  <1> DEFINE s == makeEARead(c, i.mode, i.reg, i.sz)
             q == FetchCost(i, i.sz)
             d == Low(s.c.D[i.dn], i.sz)
             x == SignExtended(s.v, i.sz)
             y == s.c.A[i.dn]
             f == setFlagsCmp(s.c.ccr, s.v, d, d - s.v, i.sz)
             g == setFlagsCmp(s.c.ccr, x, y, y - x, 4)
             h == setFlagsLogical(c.ccr, s.v, i.sz)
             m == By(i.sz, 4, 6) + q
             n == 6 + q
             t == 4 + q
  <1>1. i.sz \in Size /\ Operands(i.mode, i.reg) /\ c.ccr \in SUBSET CCRBits
    BY Fields, Starts
  <1>2. Accesses(c, s.c, q, 2) /\ q \in Nat /\ s.c.ccr = c.ccr
    BY <1>1, Source
  <1>3. /\ makeCMP(c, i) = Spend(setCCR(s.c, f), m)
        /\ makeCMPA(c, i) = Spend(setCCR(s.c, g), n)
        /\ makeTST(c, i) = Spend(setCCR(s.c, h), t)
    BY Zenon DEF makeCMP, makeCMPA, makeTST, Compared
  <1>4. f \in SUBSET CCRBits /\ g \in SUBSET CCRBits /\ h \in SUBSET CCRBits
    BY <1>1, <1>2, FlagSets, Zenon
  <1> HIDE DEF s, q, f, g, h
  <1>5. m \in Nat /\ q + 4 <= m /\ n \in Nat /\ q + 4 <= n /\ t \in Nat /\ q + 4 <= t
    BY <1>2 DEF By
  <1> HIDE DEF m, n, t
  <1>6. \A e \in SUBSET CCRBits : \A r \in Nat :
          q + 4 <= r => Done(c, Spend(setCCR(s.c, e), r), sz, TRUE)
    BY <1>2, FlagsDone, Zenon
  <1> QED
    BY <1>3, <1>4, <1>5, <1>6, Zenon

LEMMA CMPIDone ==
  ASSUME NEW c \in Started, NEW i, Encodable(i), Alterable(i), NEW sz
  PROVE  Done(c, makeCMPI(c, i), sz, TRUE)
  <1> DEFINE imm == fetchImm(c, i.sz)
             b == imm.c
             n == 4 * Words(i.sz)
             k == 2
  <1>1. /\ i.sz \in Size /\ Operands(i.mode, i.reg) /\ c.ccr \in SUBSET CCRBits
        /\ (i.mode # 0 => IsMem(i.mode, i.reg))
    BY Fields, Starts
  <1>2. Accesses(c, b, n, k) /\ b \in State /\ Len(b.ext) >= 2 /\ b.ccr = c.ccr
    BY <1>1, AfterImm
  <1>3. n \in Nat /\ k \in Nat
    BY DEF Words
  <1>4. CASE i.mode = 0
    <2> DEFINE d == Low(b.D[i.reg], i.sz)
               f == setFlagsCmp(b.ccr, imm.v, d, d - imm.v, i.sz)
               m == By(i.sz, 8, 14)
    <2>1. makeCMPI(c, i) = Spend(setCCR(b, f), m)
      BY <1>4, Zenon DEF makeCMPI, Compared
    <2>2. f \in SUBSET CCRBits
      BY <1>1, <1>2, FlagSets, Zenon
    <2>3. m \in Nat /\ n + 4 <= m
      BY DEF By, Words
    <2> HIDE DEF f, m, b, n, k
    <2> QED
      BY <1>2, <1>3, <2>1, <2>2, <2>3, FlagsDone, Zenon
  <1>5. CASE i.mode # 0
    <2> DEFINE d == InMemory(b, i, i.sz)
               q == FetchCost(i, i.sz)
               f == setFlagsCmp(d.c.ccr, imm.v, d.v, d.v - imm.v, i.sz)
               m == By(i.sz, 8, 12) + q
    <2>1. makeCMPI(c, i) = Spend(setCCR(d.c, f), m)
      BY <1>5, Zenon DEF makeCMPI, Compared, InMemory
    <2> HIDE DEF b, k
    <2>2. Accesses(b, d.c, q, 2) /\ d.c.ccr = b.ccr
      BY <1>1, <1>2, <1>5, InMemoryOK, Zenon
    <2>3. f \in SUBSET CCRBits
      BY <1>1, <1>2, <2>2, FlagSets, Zenon
    <2>4. q \in Nat
      BY <1>1, ChargeFetch DEF FetchCost
    <2> HIDE DEF d, q, f
    <2>5. m \in Nat /\ n + q \in Nat /\ n + q + 4 <= m
      BY <2>4 DEF By, Words
    <2> HIDE DEF m, n
    <2>6. Accesses(b, d.c, q, k)
      BY <2>2 DEF k
    <2>7. Accesses(c, d.c, n + q, k + k)
      BY <1>2, <1>3, <2>4, <2>6, Starts, AccessesTwice, Zenon
    <2> QED
      BY <2>1, <2>3, <2>5, <2>7, FlagsDone, Zenon
  <1> QED
    BY <1>4, <1>5, Zenon

LEMMA LeaCyclesOK ==
  ASSUME NEW i, Encodable(i), Control(i)
  PROVE  /\ LeaCycles(i) \in Nat /\ AddressTime(i.mode, i.reg) \in Nat
         /\ AddressTime(i.mode, i.reg) + 4 <= LeaCycles(i)
  <1>1. i.mode \in 0 .. 7 /\ i.reg \in 0 .. 7
    BY Fields
  <1> QED
    BY <1>1 DEF Control, LeaCycles, AddressTime

LEMMA addressDone ==
  ASSUME NEW c \in Started, NEW i, Encodable(i), Control(i), NEW sz
  PROVE  Done(c, makeLEA(c, i), sz, i.dn # 7) /\ Done(c, makePEA(c, i), sz, TRUE)
  <1> DEFINE z == 4
             a == makeEAMemAddr(c, i.mode, i.reg, z)
             n == AddressTime(i.mode, i.reg)
             m == LeaCycles(i)
             keep == i.dn # 7
             q == 7
             k == -4
             d == setA(a.c, q, a.c.A[q] + k)
             w == 4 * Words(z)
             x == d.A[7]
             e == 2
             o == 0
  <1>1. Operands(i.mode, i.reg) /\ IsMem(i.mode, i.reg) /\ i.dn \in 0 .. 7 /\ z \in Size
    BY Fields DEF Size
  <1>2. m \in Nat /\ n \in Nat /\ n + 4 <= m
    BY LeaCyclesOK
  <1>3. makeLEA(c, i) = Spend(setA(a.c, i.dn, a.v), m)
    BY DEF makeLEA
  <1>4. makePEA(c, i) = Spend(writeBus(setA(a.c, 7, a.c.A[7] - 4), z, setA(a.c, 7, a.c.A[7] - 4).A[7], a.v), m + 8)
    BY DEF makePEA, pushLong
  <1>5. w = 8 /\ q \in 0 .. 7 /\ k \in Int /\ (q = 7 => Even(k)) /\ e \in Nat /\ o \in Nat
    BY DEF Words, Even
  <1>6. keep \in BOOLEAN /\ (keep => i.dn # 7)
    OBVIOUS
  <1> HIDE DEF z, n, m, keep, k, w
  <1>7. Reaches(c, a, n)
    BY <1>1, Starts, makeEAMemAddrOK DEF n
  <1> HIDE DEF a, e, o
  <1>8. Accesses(c, a.c, n, e) /\ a.c \in State /\ a.v \in Int
    BY <1>7, RegisterRange DEF Reaches, Accesses, e
  <1>9. Done(c, Spend(setA(a.c, i.dn, a.v), m), sz, keep)
    BY <1>1, <1>2, <1>6, <1>8, AddressDone, Zenon
  <1>10. setA(a.c, 7, a.c.A[7] - 4) = d
    <2>1. a.c.A[7] \in Int
      BY <1>8, StateFields
    <2>2. a.c.A[7] - 4 = a.c.A[q] + k
      BY <2>1 DEF k
    <2> QED
      BY <2>2
  <1> HIDE DEF q
  <1>11. Accesses(a.c, d, 0, 0) /\ d.A[q] \in Register
    BY <1>5, <1>8, StepOK
  <1>12. x \in Int
    BY <1>11, RegisterRange DEF q
  <1> HIDE DEF d, x
  <1>13. n + o \in Nat /\ e + o \in Nat /\ n + o = n
    BY <1>2 DEF e, o
  <1>14. Accesses(c, d, n + o, e + o)
    <2>1. Accesses(a.c, d, o, o)
      BY <1>11 DEF o
    <2> QED
      BY <1>2, <1>5, <1>8, <2>1, Starts, AccessesTwice
  <1>15. Accesses(c, d, n, e + o)
    BY <1>13, <1>14
  <1>16. m + 8 \in Nat /\ n + 4 * Words(z) + 4 <= m + 8
    BY <1>2, <1>5 DEF w
  <1> DEFINE p == m + 8
  <1>17. Done(c, Spend(writeBus(d, z, x, a.v), p), sz, TRUE)
    <2>1. p \in Nat /\ n + 4 * Words(z) + 4 <= p
      BY <1>16
    <2> HIDE DEF p
    <2> QED
      BY <1>1, <1>2, <1>8, <1>12, <1>15, <2>1, MemoryDone, Zenon
  <1> QED
    BY <1>3, <1>4, <1>9, <1>10, <1>17, Zenon DEF keep, x

LEMMA wideDone ==
  ASSUME NEW c \in Started, NEW i, Encodable(i)
  PROVE  /\ Done(c, makeMULU(c, i), 4, TRUE) /\ Done(c, makeMULS(c, i), 4, TRUE)
         /\ Done(c, makeDIVU(c, i), 4, TRUE) /\ Done(c, makeDIVS(c, i), 4, TRUE)
  <1> DEFINE z == 2
             l == 4
             s == makeEARead(c, i.mode, i.reg, z)
             d == s.c.D[i.dn]
             q == FetchCost(i, z)
             End(o, t) == Spend(setCCR(setD(s.c, i.dn, l, o.v), o.f), t)
             m == 70 + q
             mu == 140 + q
             ms == 158 + q
             vec == 5
             e == exception(s.c, vec)
  <1>1. i.dn \in 0 .. 7 /\ Operands(i.mode, i.reg) /\ c.ccr \in SUBSET CCRBits /\ z \in Size /\ l \in Size
    BY Fields, Starts, Zenon DEF Size
  <1>2. /\ makeMULU(c, i) = End(mulu(c.ccr, s.v, d), m)
        /\ makeMULS(c, i) = End(muls(c.ccr, s.v, d), m)
        /\ s.v # 0 => /\ makeDIVU(c, i) = End(divu(c.ccr, s.v, d), mu)
                      /\ makeDIVS(c, i) = End(divs(c.ccr, s.v, d), ms)
        /\ s.v = 0 => makeDIVU(c, i) = e /\ makeDIVS(c, i) = e
    BY Zenon DEF makeMULU, makeMULS, makeDIVU, makeDIVS, ByZero, ZeroDivide, wide
  <1> HIDE DEF z, l
  <1>3. Accesses(c, s.c, q, 2) /\ q \in Nat /\ s.v \in 0 .. Top(z) - 1 /\ s.v \in Int /\ d \in Int
    BY <1>1, Source, Zenon
  <1> HIDE DEF s, q, d
  <1>4. m \in Nat /\ mu \in Nat /\ ms \in Nat /\ q + 4 <= m /\ q + 4 <= mu /\ q + 4 <= ms
    BY <1>3
  <1>5. \A o : \A t \in Nat : Result(o) /\ q + 4 <= t => Done(c, End(o, t), l, TRUE)
    BY <1>1, <1>3, RegisterDone, Zenon
  <1> HIDE DEF End, m, mu, ms
  <1>6. Done(c, makeMULU(c, i), l, TRUE) /\ Done(c, makeMULS(c, i), l, TRUE)
    BY <1>1, <1>2, <1>3, <1>4, <1>5, Products, Zenon
  <1>7. CASE s.v # 0
    <2>1. s.v \in 1 .. Top(2) - 1
      <3>1. Top(2) \in Int
        BY Positive DEF Size
      <3> QED
        BY <1>3, <1>7, <3>1 DEF z
    <2> QED
      BY <1>1, <1>2, <1>3, <1>4, <1>5, <1>6, <1>7, <2>1, Quotients, Zenon DEF l
  <1>8. CASE s.v = 0
    <2>1. Changes(c, s.c, q, l, TRUE)
      BY <1>3, Starts, AccessChanges, Zenon
    <2>2. vec \in {5, 6}
      OBVIOUS
    <2> HIDE DEF vec
    <2>3. Done(c, e, l, TRUE)
      BY <2>1, <2>2, Starts, TrapDone, Zenon
    <2> QED
      BY <1>2, <1>6, <1>8, <2>3, Zenon DEF l
  <1> QED
    BY <1>7, <1>8, Zenon

LEMMA CHKDone ==
  ASSUME NEW c \in Started, NEW i, Encodable(i), NEW sz PROVE Done(c, makeCHK(c, i), sz, TRUE)
  <1> DEFINE z == 2
             s == makeEARead(c, i.mode, i.reg, z)
             q == FetchCost(i, z)
             bound == Signed(s.v, 2)
             val == Signed(s.c.D[i.dn], 2)
             bare == c.ccr \cap {flagX}
             f == bare \cup {flagN}
             g == setFlagsCmp(s.c.ccr, val, bound, bound - val, 2)
             m == 10 + q
             vec == 6
  <1>1. Operands(i.mode, i.reg) /\ c.ccr \in SUBSET CCRBits /\ z \in Size
    BY Fields, Starts, Zenon DEF Size
  <1>2. \/ makeCHK(c, i) = exception(setCCR(s.c, f), vec)
        \/ makeCHK(c, i) = exception(setCCR(s.c, bare), vec)
        \/ makeCHK(c, i) = Spend(setCCR(s.c, g), m)
    BY Zenon DEF makeCHK, Compared
  <1>3. vec \in {5, 6}
    OBVIOUS
  <1> HIDE DEF z, vec
  <1>4. Accesses(c, s.c, q, 2) /\ q \in Nat /\ s.c.ccr = c.ccr
    BY <1>1, Source, Zenon
  <1>5. f \in SUBSET CCRBits /\ bare \in SUBSET CCRBits /\ g \in SUBSET CCRBits
    BY <1>1, <1>4, FlagSets
  <1> HIDE DEF f, g, bare, s, q
  <1>6. m \in Nat /\ q + 4 <= m
    BY <1>4
  <1> HIDE DEF m
  <1>7. Done(c, Spend(setCCR(s.c, g), m), sz, TRUE)
    BY <1>4, <1>5, <1>6, FlagsDone, Zenon
  <1>8. Changes(c, s.c, q, sz, TRUE)
    BY <1>4, Starts, AccessChanges, Zenon
  <1>9. Changes(c, setCCR(s.c, f), q, sz, TRUE) /\ Changes(c, setCCR(s.c, bare), q, sz, TRUE)
    BY <1>5, <1>8, Starts, ThenFlags, Zenon
  <1>10. Done(c, exception(setCCR(s.c, f), vec), sz, TRUE)
    BY <1>3, <1>9, Starts, TrapDone, Zenon
  <1>11. Done(c, exception(setCCR(s.c, bare), vec), sz, TRUE)
    BY <1>3, <1>9, Starts, TrapDone, Zenon
  <1> QED
    BY <1>2, <1>7, <1>10, <1>11, Zenon

LEMMA storeOK ==
  ASSUME NEW c \in Started, NEW i, Encodable(i), Alterable(i), NEW sz \in Size, NEW v \in Int,
         NEW regCycles \in Nat, NEW memCycles \in Nat, 4 <= regCycles, 4 <= memCycles
  PROVE  Done(c, store(c, i, sz, v, regCycles, memCycles), sz, TRUE)
  <1>1. /\ i.reg \in 0 .. 7 /\ Operands(i.mode, i.reg) /\ (i.mode # 0 => IsMem(i.mode, i.reg))
    BY Fields
  <1>2. CASE i.mode = 0
    <2> DEFINE n == 0
    <2>1. store(c, i, sz, v, regCycles, memCycles) = Spend(setD(c, i.reg, sz, v), regCycles)
      BY <1>2 DEF store
    <2>2. n \in Nat /\ n + 4 <= regCycles /\ Accesses(c, c, n, 0) /\ c \in State
      BY Starts
    <2> HIDE DEF n
    <2>3. Changes(c, setD(c, i.reg, sz, v), n, sz, TRUE)
      BY <1>1, <2>2, ThenD, Zenon
    <2> QED
      BY <2>1, <2>2, <2>3, SpendDone, Zenon
  <1>3. CASE i.mode # 0
    <2> DEFINE a == makeEAMemAddr(c, i.mode, i.reg, sz)
               n == AddressTime(i.mode, i.reg)
               q == FetchCost(i, sz)
               m == memCycles + q
    <2>1. store(c, i, sz, v, regCycles, memCycles) = Spend(writeBus(a.c, sz, a.v, v), m)
      BY <1>3 DEF store
    <2>2. Reaches(c, a, n)
      BY <1>1, <1>3, Starts, makeEAMemAddrOK, Zenon
    <2>3. q \in Nat /\ n + 4 * Words(sz) <= q
      BY <1>1, <1>3, ChargeFetch DEF FetchCost
    <2>4. n \in Nat /\ Words(sz) \in Nat
      BY <1>1 DEF AddressTime, Words, Operands
    <2> HIDE DEF a, n, q
    <2>5. m \in Nat /\ n + 4 * Words(sz) + 4 <= m
      BY <2>3, <2>4
    <2>6. Accesses(c, a.c, n, 2) /\ a.v \in Int
      BY <2>2, RegisterRange DEF Reaches
    <2> HIDE DEF m
    <2> QED
      BY <2>1, <2>4, <2>5, <2>6, MemoryDone, Zenon
  <1> QED
    BY <1>2, <1>3, Zenon

LEMMA storeDone ==
  ASSUME NEW c \in Started, NEW i, Encodable(i), Alterable(i)
  PROVE  Done(c, makeCLR(c, i), i.sz, TRUE) /\ Done(c, makeScc(c, i), 1, TRUE)
  <1> DEFINE v == 0
             r == By(i.sz, 4, 6)
             m == By(i.sz, 8, 12)
             f == (c.ccr \cap {flagX}) \cup {flagZ}
             yes == testCondition(c.ccr, i.data)
             w == IF yes THEN Top(1) - 1 ELSE 0
             b == IF yes THEN 6 ELSE 4
             p == 8
             z == 1
  <1>1. i.sz \in Size /\ c.ccr \in SUBSET CCRBits /\ z \in Size
    BY Fields, Starts, Zenon DEF Size
  <1>2. makeCLR(c, i) = setCCR(store(c, i, i.sz, v, r, m), f) /\ makeScc(c, i) = store(c, i, z, w, b, p)
    BY DEF makeCLR, makeScc
  <1>3. r \in Nat /\ m \in Nat /\ 4 <= r /\ 4 <= m /\ p \in Nat /\ 4 <= p
    BY DEF By
  <1>4. v \in Int /\ w \in Int /\ b \in Nat /\ 4 <= b
    <2>1. Top(1) - 1 \in Int
      BY Positive DEF Size
    <2> HIDE DEF yes
    <2> QED
      BY <2>1
  <1>5. f \in SUBSET CCRBits
    BY <1>1, FlagSets
  <1> HIDE DEF v, r, m, f, yes, w, b, p, z
  <1>6. Done(c, store(c, i, i.sz, v, r, m), i.sz, TRUE)
    BY <1>1, <1>3, <1>4, storeOK, Zenon
  <1>7. Done(c, store(c, i, z, w, b, p), z, TRUE)
    BY <1>1, <1>3, <1>4, storeOK, Zenon
  <1>8. Done(c, setCCR(store(c, i, i.sz, v, r, m), f), i.sz, TRUE)
    BY <1>5, <1>6, DoneFlags, Zenon
  <1> QED
    BY <1>2, <1>7, <1>8, Zenon DEF z

LEMMA extendDone ==
  ASSUME NEW c \in Started, NEW i, Encodable(i)
  PROVE  /\ Done(c, opEXTW(c, i), 2, TRUE) /\ Done(c, opEXTL(c, i), 4, TRUE)
         /\ Done(c, opMOVEQ(c, i), 4, TRUE) /\ Done(c, opSWAP(c, i), 4, TRUE)
  <1> DEFINE w == 2
             l == 4
             x == c.D[i.reg]
             v1 == Ext(x, 1, w)
             v2 == Ext(x, 2, l)
             v3 == Ext(i.data, 1, l)
             v4 == (x \div Top(2)) + Low(x, 2) * Top(2)
             F(v, z) == setFlagsLogical(c.ccr, v, z)
             End(r, z, v) == Spend(setCCR(setD(c, r, z, v), F(v, z)), 4)
             m == 4
  <1>1. /\ i.reg \in 0 .. 7 /\ i.dn \in 0 .. 7 /\ i.data \in Int /\ c.ccr \in SUBSET CCRBits
        /\ w \in Size /\ l \in Size /\ x \in Int /\ Top(2) \in Nat \ {0} /\ Low(x, 2) \in Int
    <2>1. i.reg \in 0 .. 7 /\ i.dn \in 0 .. 7 /\ i.data \in Int /\ c.ccr \in SUBSET CCRBits
      BY Fields, Starts
    <2>2. x \in Int /\ \A z \in Size : Low(x, z) \in Int
      BY <2>1, Starts, Zenon
    <2>3. w \in Size /\ l \in Size
      BY DEF Size
    <2>4. Top(w) \in Nat \ {0}
      BY <2>3, Positive
    <2> QED
      BY <2>1, <2>2, <2>3, <2>4
  <1>2. /\ opEXTW(c, i) = End(i.reg, w, v1) /\ opEXTL(c, i) = End(i.reg, l, v2)
        /\ opMOVEQ(c, i) = End(i.dn, l, v3) /\ opSWAP(c, i) = End(i.reg, l, v4)
    BY Zenon DEF opEXTW, opEXTL, opMOVEQ, opSWAP
  <1> HIDE DEF x
  <1>3. v1 \in Int /\ v2 \in Int /\ v3 \in Int
    <2>1. \A v \in Int, from \in Size, to \in Size : Ext(v, from, to) \in Int
      BY ExtOK, Positive
    <2>2. 1 \in Size /\ 2 \in Size /\ 4 \in Size
      BY DEF Size
    <2> QED
      BY <1>1, <2>1, <2>2
  <1>4. v4 \in Int
    BY <1>1
  <1>5. \A v, z : F(v, z) \in SUBSET CCRBits
    BY <1>1, FlagSets, Zenon
  <1>6. m \in Nat /\ 4 <= m
    OBVIOUS
  <1> HIDE DEF w, l, v1, v2, v3, v4, F, m
  <1>7. \A r \in 0 .. 7, z \in Size, v \in Int : Done(c, End(r, z, v), z, TRUE)
    <2> SUFFICES ASSUME NEW r \in 0 .. 7, NEW z \in Size, NEW v \in Int
                 PROVE  Done(c, End(r, z, v), z, TRUE)
      BY Zenon
    <2>1. Done(c, Spend(setCCR(setD(c, r, z, v), F(v, z)), m), z, TRUE)
      BY <1>5, <1>6, RegisterOnly, Zenon
    <2> QED
      BY <2>1, Zenon DEF m
  <1> HIDE DEF End
  <1>8. /\ Done(c, End(i.reg, w, v1), w, TRUE) /\ Done(c, End(i.reg, l, v2), l, TRUE)
        /\ Done(c, End(i.dn, l, v3), l, TRUE) /\ Done(c, End(i.reg, l, v4), l, TRUE)
    BY <1>1, <1>3, <1>4, <1>7, Zenon
  <1> QED
    BY <1>2, <1>8, Zenon DEF w, l

LEMMA ShiftRegDone ==
  ASSUME NEW c \in Started, NEW i, Encodable(i), i.typ \in {"AS", "LS", "ROX", "RO"}
  PROVE  Done(c, opShiftReg(c, i), i.sz, TRUE)
  <1> DEFINE count == IF i.byReg THEN c.D[i.dn] % (2 * Bits(4)) ELSE IF i.data = 0 THEN 8 ELSE i.data
             x == Low(c.D[i.reg], i.sz)
             o == doShift(c.ccr, x, count, i.left, i.typ, i.sz)
             m == By(i.sz, 6, 8) + 2 * count
  <1>1. /\ i.sz \in Size /\ i.reg \in 0 .. 7 /\ i.dn \in 0 .. 7 /\ i.data \in Nat /\ i.left \in BOOLEAN
        /\ c.ccr \in SUBSET CCRBits
    BY Fields, Starts
  <1>2. x \in Int /\ c.D[i.dn] \in Int
    BY <1>1, Starts, Zenon
  <1>3. opShiftReg(c, i) = Spend(setCCR(setD(c, i.reg, i.sz, o.v), o.f), m)
    BY Zenon DEF opShiftReg
  <1>4. count \in Nat
    <2>1. Bits(4) \in Nat \ {0}
      BY BitsOK DEF Size
    <2>2. c.D[i.dn] % (2 * Bits(4)) \in Nat
      BY <1>2, <2>1
    <2> QED
      BY <1>1, <2>2
  <1> HIDE DEF count, x
  <1>5. Result(o)
    BY <1>1, <1>2, <1>4, doShiftOK, Zenon
  <1>6. m \in Nat /\ 4 <= m
    BY <1>4 DEF By
  <1> HIDE DEF o, m
  <1>7. o.v \in Int /\ o.f \in SUBSET CCRBits
    BY <1>5 DEF Result
  <1> QED
    BY <1>1, <1>3, <1>6, <1>7, RegisterOnly, Zenon

LEMMA EXGDone ==
  ASSUME NEW c \in Started, NEW i, Encodable(i), i.typ \in {"DD", "AA", "DA"}
  PROVE  Done(c, opEXG(c, i), 4, ~((i.typ # "DD" /\ i.reg = 7) \/ (i.typ = "AA" /\ i.dn = 7)))
  <1> DEFINE keep == ~((i.typ # "DD" /\ i.reg = 7) \/ (i.typ = "AA" /\ i.dn = 7))
             D == CASE i.typ = "DD" -> [c.D EXCEPT ![i.dn] = c.D[i.reg], ![i.reg] = c.D[i.dn]]
                    [] i.typ = "AA" -> c.D
                    [] i.typ = "DA" -> [c.D EXCEPT ![i.dn] = c.A[i.reg]]
             A == CASE i.typ = "DD" -> c.A
                    [] i.typ = "AA" -> [c.A EXCEPT ![i.dn] = c.A[i.reg], ![i.reg] = c.A[i.dn]]
                    [] i.typ = "DA" -> [c.A EXCEPT ![i.reg] = c.D[i.dn]]
             d == [c EXCEPT !.D = D, !.A = A]
             m == 6
             n == 0
  <1>1. /\ i.reg \in 0 .. 7 /\ i.dn \in 0 .. 7 /\ c \in State /\ c.D \in Registers /\ c.A \in Registers
        /\ \A r \in 0 .. 7 : c.D[r] \in Register /\ c.A[r] \in Register
    BY Fields, Starts, StateFields
  <1>2. opEXG(c, i) = Spend(d, m)
    <2>1. c = [D |-> c.D, A |-> c.A, pc |-> c.pc, ccr |-> c.ccr, mem |-> c.mem, ext |-> c.ext,
               halted |-> c.halted, trap |-> c.trap, cycles |-> c.cycles, bus |-> c.bus]
      BY <1>1 DEF State
    <2>2. CASE i.typ = "DD"
      BY <2>1, <2>2, Zenon DEF opEXG
    <2>3. CASE i.typ = "AA"
      BY <2>1, <2>3, Zenon DEF opEXG
    <2>4. CASE i.typ = "DA"
      BY <2>1, <2>4 DEF opEXG
    <2> QED
      BY <2>2, <2>3, <2>4, Zenon
  <1>3. D \in Registers /\ A \in Registers
    BY <1>1 DEF Registers
  <1>4. keep => A[7] = c.A[7]
    BY <1>1 DEF Registers
  <1> HIDE DEF D, A
  <1>5. /\ d \in State /\ d.D = D /\ d.A = A /\ d.mem = c.mem /\ d.cycles = c.cycles /\ d.bus = c.bus
    BY <1>1, <1>3, Zenon DEF State
  <1>6. keep \in BOOLEAN /\ m \in Nat /\ n \in Nat /\ n + 4 <= m
    OBVIOUS
  <1>7. \A r \in 0 .. 7 : d.D[r] \div Top(4) = c.D[r] \div Top(4)
    BY <1>1, <1>3, <1>5, WholeRegister
  <1>8. 4 * d.bus <= 4 * c.bus + n
    <2>1. c.bus \in Nat
      BY <1>1, StateFields
    <2> QED
      BY <1>5, <2>1
  <1> HIDE DEF d, keep, m, n
  <1>9. Changes(c, d, n, 4, keep)
    BY <1>4, <1>5, <1>7, <1>8 DEF Changes
  <1>10. Done(c, Spend(d, m), 4, keep)
    BY <1>6, <1>9, SpendDone
  <1> QED
    BY <1>2, <1>10 DEF keep

LEMMA MOVEDone ==
  ASSUME NEW c \in Started, NEW i, Encodable(i), i.dmode # 1, i.dmode = 7 => i.dn < 2
  PROVE  Done(c, makeMOVE(c, i), i.sz, TRUE)
  <1> DEFINE s == makeEARead(c, i.mode, i.reg, i.sz)
             a == makeEAMemAddr(s.c, i.dmode, i.dn, i.sz)
             q == FetchCost(i, i.sz)
             w == Charge(eaWriteConst(i.dmode, i.dn), i.sz)
             f == setFlagsLogical(c.ccr, s.v, i.sz)
             m == 4 + q + w
             k == 2
  <1>1. /\ i.sz \in Size /\ Operands(i.mode, i.reg) /\ c.ccr \in SUBSET CCRBits
        /\ i.dn \in 0 .. 7 /\ i.dmode \in 0 .. 7
    BY Fields, Starts
  <1>2. Operands(i.dmode, i.dn) /\ (i.dmode # 0 => IsMem(i.dmode, i.dn))
    BY <1>1 DEF Operands, IsMem
  <1>3. Accesses(c, s.c, q, k) /\ q \in Nat /\ s.c \in State /\ s.v \in Int
    BY <1>1, Source, Zenon
  <1>4. Len(s.c.ext) >= 2
    <2>1. Len(c.ext) = 4 /\ Len(s.c.ext) \in Nat
      BY <1>3, StateFields DEF Started
    <2>2. Len(s.c.ext) >= Len(c.ext) - 2
      BY <1>3, Zenon DEF Accesses
    <2> QED
      BY <2>1, <2>2
  <1>5. f \in SUBSET CCRBits
    BY <1>1, FlagSets, Zenon
  <1>6. w \in Nat /\ (IsMem(i.dmode, i.dn) => AddressTime(i.dmode, i.dn) + 4 * Words(i.sz) <= w)
    BY <1>1, <1>2, ChargeWrite
  <1>7. CASE i.dmode = 0
    <2>1. makeMOVE(c, i) = Spend(setCCR(setD(s.c, i.dn, i.sz, s.v), f), m)
      BY <1>7 DEF makeMOVE
    <2> HIDE DEF s, q, w, f, k
    <2>2. m \in Nat /\ q + 4 <= m
      BY <1>3, <1>6
    <2> HIDE DEF m
    <2>3. Changes(c, setD(s.c, i.dn, i.sz, s.v), q, i.sz, TRUE)
      BY <1>1, <1>3, Starts, ThenD, Zenon
    <2>4. Changes(c, setCCR(setD(s.c, i.dn, i.sz, s.v), f), q, i.sz, TRUE)
      BY <1>5, <2>3, Starts, ThenFlags, Zenon
    <2> QED
      BY <1>3, <2>1, <2>2, <2>4, SpendDone, Zenon
  <1>8. CASE i.dmode # 0
    <2> DEFINE n == AddressTime(i.dmode, i.dn)
    <2>1. makeMOVE(c, i) = Spend(setCCR(writeBus(a.c, i.sz, a.v, s.v), f), m)
      BY <1>8 DEF makeMOVE
    <2> HIDE DEF s, q, w, f
    <2>2. Reaches(s.c, a, n)
      BY <1>1, <1>2, <1>3, <1>4, <1>8, makeEAMemAddrOK, Zenon
    <2> HIDE DEF a
    <2>3. n \in Nat /\ Words(i.sz) \in Nat /\ n + 4 * Words(i.sz) <= w
      BY <1>1, <1>2, <1>6, <1>8 DEF AddressTime, Words
    <2> HIDE DEF n
    <2>4. Accesses(s.c, a.c, n, k) /\ a.v \in Int /\ k \in Nat
      BY <2>2, RegisterRange DEF Reaches
    <2> HIDE DEF k
    <2>5. Accesses(c, a.c, q + n, k + k)
      BY <1>3, <2>3, <2>4, Starts, AccessesTwice, Zenon
    <2> DEFINE t == q + n
               u == t + 4 * Words(i.sz)
    <2>6. t \in Nat /\ u \in Nat /\ m \in Nat /\ u + 4 <= m
      BY <1>3, <1>6, <2>3
    <2>7. Accesses(c, a.c, t, k + k)
      BY <2>5
    <2> HIDE DEF t, m
    <2>8. Changes(c, writeBus(a.c, i.sz, a.v, s.v), u, i.sz, TRUE)
      BY <1>1, <1>3, <2>4, <2>6, <2>7, Starts, ThenMemory, Zenon
    <2> HIDE DEF u
    <2>9. Changes(c, setCCR(writeBus(a.c, i.sz, a.v, s.v), f), u, i.sz, TRUE)
      BY <1>5, <2>8, Starts, ThenFlags, Zenon
    <2> QED
      BY <2>1, <2>6, <2>9, SpendDone, Zenon
  <1> QED
    BY <1>7, <1>8, Zenon
===============================================================================
