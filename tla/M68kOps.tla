------------------------------- MODULE M68kOps -------------------------------
(***************************************************************************)
(* The handlers of the instructions that move and compute data.  A handler *)
(* takes the state c after the opcode was fetched and the instruction i,   *)
(* whose fields are the ones an opcode can have: sz, mode and reg of the   *)
(* effective address, dn (the register in bits 11-9), data (a quick        *)
(* operand, a condition or a count), typ, left and byReg of a shift, and   *)
(* dmode, the destination mode of MOVE and the direction of MOVEM and      *)
(* MOVEP.  It returns the state after it.                                  *)
(*                                                                         *)
(* Handlers of one shape share an operator for the shape, which takes what *)
(* differs: an operation F(ccr, source, destination, size) and the cycles. *)
(***************************************************************************)
EXTENDS M68kOperands, FiniteSets

By(sz, short, long) == IF sz = 4 THEN long ELSE short
FetchCost(i, sz) == Charge(eaFetchConst(i.mode, i.reg), sz)

-----------------------------------------------------------------------------
(***************************************************************************)
(* Operations on a source s and a destination d.                           *)
(***************************************************************************)
Logical(ccr, v, sz) == [v |-> v, f |-> setFlagsLogical(ccr, v, sz)]

Add(ccr, s, d, sz) == add(s, d, sz)
Sub(ccr, s, d, sz) == sub(s, d, sz)
Conj(ccr, s, d, sz) == Logical(ccr, And(s, d), sz)
Disj(ccr, s, d, sz) == Logical(ccr, s + d - And(s, d), sz)
Excl(ccr, s, d, sz) == Logical(ccr, s + d - 2 * And(s, d), sz)
Abcd(ccr, s, d, sz) == bcdAdd(ccr, s, d)
Sbcd(ccr, s, d, sz) == bcdSub(ccr, s, d)
Negate(ccr, s, d, sz)  == sub(d, 0, sz)
Negx(ccr, s, d, sz) == subx(ccr, d, 0, sz)
Nbcd(ccr, s, d, sz) == bcdSub(ccr, d, 0)
Invert(ccr, s, d, sz)  == Logical(ccr, Top(sz) - 1 - d, sz)
Tas(ccr, s, d, sz)  == [v |-> IF Neg(d, 1) THEN d ELSE d + MSB[1],
                        f |-> setFlagsLogical(ccr, d, 1)]

TestBit(ccr, n, d) == (ccr \ {flagZ}) \cup Is(flagZ, ~IsSet(d, n))
Flip(ccr, n, d, sz)  == [v |-> IF IsSet(d, n) THEN d - Pow2[n] ELSE d + Pow2[n],
                         f |-> TestBit(ccr, n, d)]
Clear(ccr, n, d, sz) == [v |-> IF IsSet(d, n) THEN d - Pow2[n] ELSE d, f |-> TestBit(ccr, n, d)]
Set(ccr, n, d, sz)   == [v |-> IF IsSet(d, n) THEN d ELSE d + Pow2[n], f |-> TestBit(ccr, n, d)]

-----------------------------------------------------------------------------
(***************************************************************************)
(* Shapes.                                                                 *)
(***************************************************************************)
\* Effective address to data register.
toReg(c, i, F(_, _, _, _)) ==
  LET s == makeEARead(c, i.mode, i.reg, i.sz)
      o == F(c.ccr, s.v, Low(s.c.D[i.dn], i.sz), i.sz)
  IN Spend(setCCR(setD(s.c, i.dn, i.sz, o.v), o.f),
           By(i.sz, 4, IF IsMem(i.mode, i.reg) THEN 6 ELSE 8) + FetchCost(i, i.sz))

\* Source s into a data register or into memory, which is read and written back.
modify(c, i, sz, s, F(_, _, _, _), regCycles, memCycles) ==
  IF i.mode = 0
  THEN LET o == F(c.ccr, s, Low(c.D[i.reg], sz), sz)
       IN Spend(setCCR(setD(c, i.reg, sz, o.v), o.f), regCycles)
  ELSE LET a == makeEAMemAddr(c, i.mode, i.reg, sz)
           d == readBus(a.c, sz, a.v)
           o == F(c.ccr, s, d.v, sz)
       IN Spend(writeBus(setCCR(d.c, o.f), sz, a.v, o.v), memCycles + FetchCost(i, sz))

\* A value into a data register or into memory, which is not read.
store(c, i, sz, v, regCycles, memCycles) ==
  IF i.mode = 0 THEN Spend(setD(c, i.reg, sz, v), regCycles)
  ELSE LET a == makeEAMemAddr(c, i.mode, i.reg, sz)
       IN Spend(writeBus(a.c, sz, a.v, v), memCycles + FetchCost(i, sz))

toEA(c, i, F(_, _, _, _)) ==
  modify(c, i, i.sz, Low(c.D[i.dn], i.sz), F, By(i.sz, 4, 8), By(i.sz, 8, 12))
unary(c, i, F(_, _, _, _)) == modify(c, i, i.sz, 0, F, By(i.sz, 4, 6), By(i.sz, 8, 12))
immediate(c, i, F(_, _, _, _)) ==
  LET imm == fetchImm(c, i.sz)
  IN modify(imm.c, i, i.sz, imm.v, F, By(i.sz, 8, 16), By(i.sz, 12, 20))

quick(c, i, F(_, _, _, _), delta) ==
  LET imm == IF i.data = 0 THEN 8 ELSE i.data
  IN IF i.mode = 1 THEN Spend(setA(c, i.reg, c.A[i.reg] + delta * imm), 8)
     ELSE modify(c, i, i.sz, imm, F, By(i.sz, 4, 8), By(i.sz, 8, 12))

\* Ry to Rx, and -(Ay) to -(Ax).
regPair(c, i, F(_, _, _, _), cycles) ==
  LET o == F(c.ccr, Low(c.D[i.reg], i.sz), Low(c.D[i.dn], i.sz), i.sz)
  IN Spend(setCCR(setD(c, i.dn, i.sz, o.v), o.f), cycles)
memPair(c, i, mode) ==
  LET src == resolveEA(c, mode, i.reg, i.sz)
      s   == read(src.c, src.e, i.sz)
      dst == resolveEA(s.c, mode, i.dn, i.sz)
      d   == read(dst.c, dst.e, i.sz)
  IN [c |-> d.c, s |-> s.v, d |-> d.v, e |-> dst.e]
decPair(c, i, F(_, _, _, _), cycles) ==
  LET p == memPair(c, i, 4)
      o == F(c.ccr, p.s, p.d, i.sz)
  IN Spend(write(setCCR(p.c, o.f), p.e, i.sz, o.v), cycles)

\* A word source is sign-extended; the address register is used whole.
SignExtended(v, sz) == IF sz = 2 THEN Ext(v, 2, 4) ELSE v
toAddr(c, i, delta) ==
  LET s == makeEARead(c, i.mode, i.reg, i.sz)
  IN Spend(setA(s.c, i.dn, s.c.A[i.dn] + delta * SignExtended(s.v, i.sz)),
           (IF i.sz = 4 /\ IsMem(i.mode, i.reg) THEN 6 ELSE 8) + FetchCost(i, i.sz))

\* A bit of a long in a data register or of a byte in memory.
BitSize(i) == IF i.mode = 0 THEN 4 ELSE 1
dynBit(c, i, F(_, _, _, _), low, high) ==
  LET n == c.D[i.dn] % Bits(BitSize(i))
  IN modify(c, i, BitSize(i), n, F, IF n < Bits(2) THEN low ELSE high, 8)
staticBit(c, i, F(_, _, _, _), regCycles) ==
  LET n == fetchPC(c)
  IN modify(n.c, i, BitSize(i), n.v % Bits(BitSize(i)), F, regCycles, 12)

-----------------------------------------------------------------------------
(***************************************************************************)
(* ops_arith.go                                                            *)
(***************************************************************************)
makeADDtoReg(c, i) == toReg(c, i, Add)
makeADDtoEA(c, i) == toEA(c, i, Add)
makeADDA(c, i) == toAddr(c, i, 1)
makeADDI(c, i) == immediate(c, i, Add)
makeADDQ(c, i) == quick(c, i, Add, 1)
opADDXreg(c, i) == regPair(c, i, addx, By(i.sz, 4, 8))
opADDXmem(c, i) == decPair(c, i, addx, By(i.sz, 18, 30))
makeSUBtoReg(c, i) == toReg(c, i, Sub)
makeSUBtoEA(c, i) == toEA(c, i, Sub)
makeSUBA(c, i) == toAddr(c, i, -1)
makeSUBI(c, i) == immediate(c, i, Sub)
makeSUBQ(c, i) == quick(c, i, Sub, -1)
opSUBXreg(c, i) == regPair(c, i, subx, By(i.sz, 4, 8))
opSUBXmem(c, i) == decPair(c, i, subx, By(i.sz, 18, 30))

Compared(c, s, d, sz) == setCCR(c, setFlagsCmp(c.ccr, s, d, d - s, sz))
makeCMP(c, i) ==
  LET s == makeEARead(c, i.mode, i.reg, i.sz)
  IN Spend(Compared(s.c, s.v, Low(s.c.D[i.dn], i.sz), i.sz), By(i.sz, 4, 6) + FetchCost(i, i.sz))
makeCMPA(c, i) ==
  LET s == makeEARead(c, i.mode, i.reg, i.sz)
  IN Spend(Compared(s.c, SignExtended(s.v, i.sz), s.c.A[i.dn], 4), 6 + FetchCost(i, i.sz))
makeCMPI(c, i) ==
  LET imm == fetchImm(c, i.sz)
      a   == makeEAMemAddr(imm.c, i.mode, i.reg, i.sz)
      d   == readBus(a.c, i.sz, a.v)
  IN IF i.mode = 0
     THEN Spend(Compared(imm.c, imm.v, Low(imm.c.D[i.reg], i.sz), i.sz), By(i.sz, 8, 14))
     ELSE Spend(Compared(d.c, imm.v, d.v, i.sz), By(i.sz, 8, 12) + FetchCost(i, i.sz))
opCMPM(c, i) ==
  LET p == memPair(c, i, 3) IN Spend(Compared(p.c, p.s, p.d, i.sz), By(i.sz, 12, 20))

\* A word source and a long result.
wide(c, i, F(_, _, _), cycles) ==
  LET s == makeEARead(c, i.mode, i.reg, 2)
      o == F(c.ccr, s.v, s.c.D[i.dn])
  IN Spend(setCCR(setD(s.c, i.dn, 4, o.v), o.f), cycles + FetchCost(i, 2))
\* A division by zero is vector 5 and changes neither the register nor the
\* flags; the source's side effects have happened.
ByZero(c, i) == makeEARead(c, i.mode, i.reg, 2).v = 0
ZeroDivide(c, i) == exception(makeEARead(c, i.mode, i.reg, 2).c, 5)
makeMULU(c, i) == wide(c, i, mulu, 70)
makeMULS(c, i) == wide(c, i, muls, 70)
makeDIVU(c, i) == IF ByZero(c, i) THEN ZeroDivide(c, i) ELSE wide(c, i, divu, 140)
makeDIVS(c, i) == IF ByZero(c, i) THEN ZeroDivide(c, i) ELSE wide(c, i, divs, 158)

makeNEG(c, i) == unary(c, i, Negate)
makeNEGX(c, i) == unary(c, i, Negx)
makeCLR(c, i) ==
  LET d == store(c, i, i.sz, 0, By(i.sz, 4, 6), By(i.sz, 8, 12))
  IN setCCR(d, (c.ccr \cap {flagX}) \cup {flagZ})
opEXTW(c, i) ==
  LET v == Ext(c.D[i.reg], 1, 2)
  IN Spend(setCCR(setD(c, i.reg, 2, v), setFlagsLogical(c.ccr, v, 2)), 4)
opEXTL(c, i) ==
  LET v == Ext(c.D[i.reg], 2, 4)
  IN Spend(setCCR(setD(c, i.reg, 4, v), setFlagsLogical(c.ccr, v, 4)), 4)
makeCHK(c, i) ==
  LET s     == makeEARead(c, i.mode, i.reg, 2)
      bound == Signed(s.v, 2)
      val   == Signed(s.c.D[i.dn], 2)
      bare  == c.ccr \cap {flagX}
  IN IF val < 0 THEN exception(setCCR(s.c, bare \cup {flagN}), 6)
     ELSE IF val > bound THEN exception(setCCR(s.c, bare), 6)
     ELSE Spend(Compared(s.c, val, bound, 2), 10 + FetchCost(i, 2))

-----------------------------------------------------------------------------
(***************************************************************************)
(* ops_logic.go, ops_bcd.go and Scc of ops_branch.go                       *)
(***************************************************************************)
makeANDtoReg(c, i) == toReg(c, i, Conj)
makeANDtoEA(c, i) == toEA(c, i, Conj)
makeANDI(c, i) == immediate(c, i, Conj)
makeORtoReg(c, i) == toReg(c, i, Disj)
makeORtoEA(c, i) == toEA(c, i, Disj)
makeORI(c, i) == immediate(c, i, Disj)
makeEOR(c, i) == toEA(c, i, Excl)
makeEORI(c, i) == immediate(c, i, Excl)
makeNOT(c, i) == unary(c, i, Invert)
makeTST(c, i) ==
  LET s == makeEARead(c, i.mode, i.reg, i.sz)
  IN Spend(setCCR(s.c, setFlagsLogical(c.ccr, s.v, i.sz)), 4 + FetchCost(i, i.sz))
makeTAS(c, i) == modify(c, i, 1, 0, Tas, 4, 10)

opShiftReg(c, i) ==
  LET count == IF i.byReg THEN c.D[i.dn] % (2 * Bits(4))
               ELSE IF i.data = 0 THEN 8 ELSE i.data
      o == doShift(c.ccr, Low(c.D[i.reg], i.sz), count, i.left, i.typ, i.sz)
  IN Spend(setCCR(setD(c, i.reg, i.sz, o.v), o.f), By(i.sz, 6, 8) + 2 * count)
makeShiftMem(c, i) ==
  LET Shift(ccr, s, d, sz) == doShift(ccr, d, 1, i.left, i.typ, sz)
  IN modify(c, i, 2, 0, Shift, 0, 8)

opABCDreg(c, i) == regPair(c, i, Abcd, 6)
opABCDmem(c, i) == decPair(c, i, Abcd, 18)
opSBCDreg(c, i) == regPair(c, i, Sbcd, 6)
opSBCDmem(c, i) == decPair(c, i, Sbcd, 18)
makeNBCD(c, i) == modify(c, i, 1, 0, Nbcd, 6, 8)

makeScc(c, i) ==
  LET yes == testCondition(c.ccr, i.data)
  IN store(c, i, 1, IF yes THEN Top(1) - 1 ELSE 0, IF yes THEN 6 ELSE 4, 8)

-----------------------------------------------------------------------------
(***************************************************************************)
(* ops_bit.go                                                              *)
(***************************************************************************)
makeBTSTdyn(c, i) ==
  LET s == makeEARead(c, i.mode, i.reg, BitSize(i))
      n == c.D[i.dn] % Bits(BitSize(i))
  IN Spend(setCCR(s.c, TestBit(c.ccr, n, s.v)), IF i.mode = 0 THEN 6 ELSE 4 + FetchCost(i, 1))
makeBTSTstatic(c, i) ==
  LET n == fetchPC(c)
      s == makeEARead(n.c, i.mode, i.reg, BitSize(i))
  IN Spend(setCCR(s.c, TestBit(c.ccr, n.v % Bits(BitSize(i)), s.v)),
           IF i.mode = 0 THEN 10 ELSE 8 + FetchCost(i, 1))
makeBCHGdyn(c, i) == dynBit(c, i, Flip, 6, 8)
makeBCHGstatic(c, i) == staticBit(c, i, Flip, 12)
makeBCLRdyn(c, i) == dynBit(c, i, Clear, 8, 10)
makeBCLRstatic(c, i) == staticBit(c, i, Clear, 14)
makeBSETdyn(c, i) == dynBit(c, i, Set, 6, 8)
makeBSETstatic(c, i) == staticBit(c, i, Set, 12)

-----------------------------------------------------------------------------
(***************************************************************************)
(* ops_move.go                                                             *)
(***************************************************************************)
makeMOVE(c, i) ==
  LET s == makeEARead(c, i.mode, i.reg, i.sz)
      a == makeEAMemAddr(s.c, i.dmode, i.dn, i.sz)
      d == IF i.dmode = 0 THEN setD(s.c, i.dn, i.sz, s.v) ELSE writeBus(a.c, i.sz, a.v, s.v)
  IN Spend(setCCR(d, setFlagsLogical(c.ccr, s.v, i.sz)),
           4 + FetchCost(i, i.sz) + Charge(eaWriteConst(i.dmode, i.dn), i.sz))
makeMOVEA(c, i) ==
  LET s == makeEARead(c, i.mode, i.reg, i.sz)
  IN Spend(setA(s.c, i.dn, SignExtended(s.v, i.sz)), 4 + FetchCost(i, i.sz))
opMOVEQ(c, i) ==
  LET v == Ext(i.data, 1, 4)
  IN Spend(setCCR(setD(c, i.dn, 4, v), setFlagsLogical(c.ccr, v, 4)), 4)

LeaCycles(i) == CASE i.mode = 2 -> 4
                  [] i.mode = 5 \/ (i.mode = 7 /\ i.reg \in {0, 2}) -> 8
                  [] i.mode = 6 \/ (i.mode = 7 /\ i.reg \in {1, 3}) -> 12
makeLEA(c, i) ==
  LET a == makeEAMemAddr(c, i.mode, i.reg, 4) IN Spend(setA(a.c, i.dn, a.v), LeaCycles(i))
pushLong(c, v) == LET d == setA(c, 7, c.A[7] - 4) IN writeBus(d, 4, d.A[7], v)
makePEA(c, i) ==
  LET a == makeEAMemAddr(c, i.mode, i.reg, 4) IN Spend(pushLong(a.c, a.v), LeaCycles(i) + 8)

\* The sixteen registers of a MOVEM list: D0 .. D7, then A0 .. A7.
Reg(c, r) == IF r < 8 THEN c.D[r] ELSE c.A[r - 8]
SetReg(c, r, v) == IF r < 8 THEN setD(c, r, 4, v) ELSE setA(c, r - 8, v)

\* Mutant: the list of -(An) is taken in the order of the other modes.
storeDownPlain(c, i, list) ==
  LET loop[n \in 0 .. 16] ==
        IF n = 0 THEN At(c, c.A[i.reg])
        ELSE LET l == loop[n - 1]
                 a == Low(l.v - i.sz, 4)
             IN IF n - 1 \in list THEN At(writeBus(l.c, i.sz, a, Reg(c, n - 1)), a) ELSE l
  IN setA(loop[16].c, i.reg, loop[16].v)
storeDown(c, i, list) ==
  LET loop[n \in 0 .. 16] ==
        IF n = 0 THEN At(c, c.A[i.reg])
        ELSE LET l == loop[n - 1]
                 a == Low(l.v - i.sz, 4)
             IN IF n - 1 \in list THEN At(writeBus(l.c, i.sz, a, Reg(c, 16 - n)), a) ELSE l
  IN setA(loop[16].c, i.reg, loop[16].v)
storeUp(c, sz, list, addr) ==
  LET loop[n \in 0 .. 16] ==
        IF n = 0 THEN At(c, addr)
        ELSE LET l == loop[n - 1]
             IN IF n - 1 \in list
                THEN At(writeBus(l.c, sz, l.v, Reg(c, n - 1)), Low(l.v + sz, 4)) ELSE l
  IN loop[16].c
load(c, sz, list, addr) ==
  LET loop[n \in 0 .. 16] ==
        IF n = 0 THEN At(c, addr)
        ELSE LET l == loop[n - 1]
                 r == readBus(l.c, sz, l.v)
             IN IF n - 1 \in list
                THEN At(SetReg(r.c, n - 1, SignExtended(r.v, sz)), Low(l.v + sz, 4)) ELSE l
  IN loop[16]

MovemCycles(i) ==
  (CASE i.mode \in {2, 3, 4} -> 8
     [] i.mode = 5 \/ (i.mode = 7 /\ i.reg \in {0, 2}) -> 12
     [] i.mode = 6 \/ (i.mode = 7 /\ i.reg = 3) -> 14
     [] i.mode = 7 /\ i.reg = 1 -> 16)
  + (IF i.dmode = 1 THEN 4 ELSE 0)

\* dmode is the direction: 0 to memory, 1 to the registers.
opMOVEM(c, i) ==
  LET m    == fetchPC(c)
      list == MaskOf[m.v]
      e    == resolveEA(m.c, i.mode, i.reg, i.sz)
      up   == load(m.c, i.sz, list, m.c.A[i.reg])
      d    == CASE i.dmode = 0 /\ i.mode = 4 -> storeDown(m.c, i, list)
                [] i.dmode = 0 /\ i.mode # 4 -> storeUp(e.c, i.sz, list, e.e.addr)
                [] i.dmode = 1 /\ i.mode = 3 -> setA(up.c, i.reg, up.v)
                [] i.dmode = 1 /\ i.mode # 3 -> load(e.c, i.sz, list, e.e.addr).c
  IN Spend(d, MovemCycles(i) + Cardinality(list) * By(i.sz, 4, 8))

opEXG(c, i) ==
  Spend(CASE i.typ = "DD" -> [c EXCEPT !.D[i.dn] = c.D[i.reg], !.D[i.reg] = c.D[i.dn]]
          [] i.typ = "AA" -> [c EXCEPT !.A[i.dn] = c.A[i.reg], !.A[i.reg] = c.A[i.dn]]
          [] i.typ = "DA" -> [c EXCEPT !.D[i.dn] = c.A[i.reg], !.A[i.reg] = c.D[i.dn]], 6)

opSWAP(c, i) ==
  LET v == (c.D[i.reg] \div Top(2)) + Low(c.D[i.reg], 2) * Top(2)
  IN Spend(setCCR(setD(c, i.reg, 4, v), setFlagsLogical(c.ccr, v, 4)), 4)

\* Every second byte from the address, high byte first.
opMOVEP(c, i) ==
  LET w == fetchPC(c)
      a == Low(w.c.A[i.reg] + Signed(w.v, 2), 4)
      in[k \in 0 .. i.sz] ==
        IF k = 0 THEN At(w.c, 0)
        ELSE LET b == readBus(in[k - 1].c, 1, Low(a + 2 * (k - 1), 4))
             IN At(b.c, in[k - 1].v * Top(1) + b.v)
      out[k \in 0 .. i.sz] ==
        IF k = 0 THEN w.c
        ELSE writeBus(out[k - 1], 1, Low(a + 2 * (k - 1), 4), Shr(c.D[i.dn], Unit * (i.sz - k)))
  IN Spend(IF i.dmode = 1 THEN setD(in[i.sz].c, i.dn, i.sz, in[i.sz].v) ELSE out[i.sz],
           By(i.sz, 16, 24))
-----------------------------------------------------------------------------
(***************************************************************************)
(* The instructions the opcode table has.                                  *)
(***************************************************************************)
\* The modes that an operand which is stored to, or only addressed, can have.
Alterable(i) == i.mode \in {0} \cup 2 .. 6 \/ (i.mode = 7 /\ i.reg < 2)
Control(i) == i.mode \in {2, 5, 6} \/ (i.mode = 7 /\ i.reg < 4)

StoreOps == {"ADDtoEA", "ADDI", "SUBtoEA", "SUBI", "CMPI", "NEG", "NEGX", "CLR", "ANDtoEA", "ANDI",
             "ORtoEA", "ORI", "EOR", "EORI", "NOT", "TAS", "ShiftMem", "NBCD", "Scc", "BCHGdyn",
             "BCHGstatic", "BCLRdyn", "BCLRstatic", "BSETdyn", "BSETstatic"}
BitOps == {"BTSTdyn", "BTSTstatic", "BCHGdyn", "BCHGstatic", "BCLRdyn", "BCLRstatic", "BSETdyn",
           "BSETstatic"}
ByteOps == {"ABCDreg", "ABCDmem", "SBCDreg", "SBCDmem", "NBCD", "TAS", "Scc"}
WordOps == {"MULU", "MULS", "DIVU", "DIVS", "CHK", "EXTW", "ShiftMem"}
LongOps == {"EXTL", "SWAP", "MOVEQ", "LEA", "PEA", "EXG"}
AddressOps == {"ADDA", "SUBA", "CMPA", "MOVEA", "MOVEM", "MOVEP"}

\* The instructions the opcode table has (M68kDecode), as far as the handlers
\* depend on it.
Encodable(i) ==
  /\ i \in [op : STRING, sz : Size, mode : 0 .. 7, reg : 0 .. 7, dn : 0 .. 7,
            data : 0 .. Top(1) - 1, typ : STRING, left : BOOLEAN, byReg : BOOLEAN, dmode : 0 .. 7]
  /\ i.mode = 7 => i.reg < 5
  /\ i.op \in StoreOps => Alterable(i)
  /\ i.op \in {"ADDQ", "SUBQ"} => i.mode = 1 \/ Alterable(i)
  /\ i.op \in {"LEA", "PEA"} => Control(i)
  /\ i.op = "MOVE" => i.dmode # 1 /\ (i.dmode = 7 => i.dn < 2)
  /\ i.op = "MOVEM" => /\ i.dmode \in {0, 1}
                       /\ Control(i) \/ (i.mode = 4 /\ i.dmode = 0) \/ (i.mode = 3 /\ i.dmode = 1)
  /\ i.op \in {"ShiftReg", "ShiftMem"} => i.typ \in {"AS", "LS", "ROX", "RO"}
  /\ i.op = "ShiftMem" => i.mode # 0
  /\ i.op = "EXG" => i.typ \in {"DD", "AA", "DA"}
  /\ i.op \in BitOps => i.sz = BitSize(i)
  /\ i.op \in ByteOps => i.sz = 1
  /\ i.op \in WordOps => i.sz = 2
  /\ i.op \in LongOps => i.sz = 4
  /\ i.op \in AddressOps => i.sz # 1
=============================================================================
