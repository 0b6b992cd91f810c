---------------------------- MODULE M68kOperands ----------------------------
(***************************************************************************)
(* Operands of the data instructions: the bus, the instruction stream, the *)
(* effective addresses in both forms the code has (closures that           *)
(* makeEARead and makeEAMemAddr bake into a handler, and resolveEA) and    *)
(* their cost in cycles.                                                   *)
(*                                                                         *)
(* The state c of the CPU is a record: D and A (by register number), pc,   *)
(* ccr (a set of flags), mem (a byte for each bus address), ext (the words *)
(* that follow the opcode), halted, trap (the vector of an exception, 0    *)
(* for none), cycles and bus, the number of words the bus has moved.  An   *)
(* operation that gives a value as well as a state gives [c, v].           *)
(*                                                                         *)
(* A definition introduced as "Mutant" is a plausible mistake in the one   *)
(* that follows it; nothing else uses it.                                  *)
(***************************************************************************)
EXTENDS M68kBits, Sequences

CONSTANTS
  BusMod,     \* number of bus addresses (2^24)
  Index,      \* the fields of an index extension word, by word
  MaskOf      \* the bits of a MOVEM register list, by word

ASSUME Sizes == BusMod \in Nat \ {0} /\ Top(4) % BusMod = 0 /\ BusMod % 2 = 0
ASSUME Layouts ==
  /\ Index \in [0 .. Top(2) - 1 -> [addr : BOOLEAN, xn : 0 .. 7, long : BOOLEAN,
                                    disp : 0 .. Top(1) - 1]]
  /\ MaskOf \in [0 .. Top(2) - 1 -> SUBSET (0 .. 15)]

Register == 0 .. Top(4) - 1
Word == 0 .. Top(2) - 1
Memory == [0 .. BusMod - 1 -> 0 .. Top(1) - 1]

At(c, v) == [c |-> c, v |-> v]

-----------------------------------------------------------------------------
(***************************************************************************)
(* The bus: big-endian, and masked to its addresses.                       *)
(***************************************************************************)
Words(sz) == IF sz = 4 THEN 2 ELSE 1

BusRead(mem, a, sz) ==
  LET byte(k) == mem[(a + k) % BusMod]
      word(k) == byte(k) * Top(1) + byte(k + 1)
  IN CASE sz = 1 -> byte(0)
       [] sz = 2 -> word(0)
       [] sz = 4 -> word(0) * Top(2) + word(2)
BusWrite(mem, a, sz, v) ==
  [x \in DOMAIN mem |-> LET k == (x - a) % BusMod
                        IN IF k < sz THEN Low(Shr(v, Unit * (sz - 1 - k)), 1) ELSE mem[x]]

OddAccess(sz, a) == sz # 1 /\ a % 2 = 1

readBus(c, sz, a) ==
  IF c.halted THEN At(c, 0)
  ELSE IF OddAccess(sz, a) THEN At([c EXCEPT !.halted = TRUE], 0)
  ELSE At([c EXCEPT !.bus = @ + Words(sz)], BusRead(c.mem, a % BusMod, sz))

\* Mutant: a CPU that an earlier access of the instruction halted still writes.
writeBusHalted(c, sz, a, v) ==
  IF OddAccess(sz, a) THEN [c EXCEPT !.halted = TRUE]
  ELSE [c EXCEPT !.bus = @ + Words(sz), !.mem = BusWrite(@, a % BusMod, sz, Low(v, sz))]
writeBus(c, sz, a, v) ==
  IF c.halted THEN c
  ELSE IF OddAccess(sz, a) THEN [c EXCEPT !.halted = TRUE]
  ELSE [c EXCEPT !.bus = @ + Words(sz), !.mem = BusWrite(@, a % BusMod, sz, Low(v, sz))]

\* PC is even while an instruction runs: Step halts on an odd one before it.
fetchPC(c) ==
  IF c.halted THEN At([c EXCEPT !.pc = Low(@ + 2, 4)], 0)
  ELSE At([c EXCEPT !.pc = Low(@ + 2, 4), !.ext = Tail(@), !.bus = @ + 1], Head(c.ext))
fetchPCLong(c) ==
  LET hi == fetchPC(c)
      lo == fetchPC(hi.c)
  IN At(lo.c, hi.v * Top(2) + lo.v)
fetchImm(c, sz) ==
  LET f == fetchPC(c) IN IF sz = 4 THEN fetchPCLong(c) ELSE At(f.c, Low(f.v, sz))

\* Mutant: a byte or word result clears the rest of the register.
setDWhole(c, r, sz, v) == [c EXCEPT !.D[r] = Low(v, sz)]
setD(c, r, sz, v) == [c EXCEPT !.D[r] = @ - Low(@, sz) + Low(v, sz)]
\* Mutant: an address is wider than its register.
setAUnmasked(c, r, v) == [c EXCEPT !.A[r] = v]
setA(c, r, v) == [c EXCEPT !.A[r] = Low(v, 4)]
setCCR(c, f) == [c EXCEPT !.ccr = f]
Spend(c, n) == [c EXCEPT !.cycles = @ + n]
exception(c, vec) == [c EXCEPT !.trap = vec]

-----------------------------------------------------------------------------
(***************************************************************************)
(* Effective addresses, as closures.                                       *)
(***************************************************************************)
calcIndex(c, base, w) ==
  LET x   == Index[w]
      reg == IF x.addr THEN c.A[x.xn] ELSE c.D[x.xn]
  IN Low(base + (IF x.long THEN reg ELSE Signed(reg, 2)) + Signed(x.disp, 1), 4)

\* Mutant: a byte moves A7 by one.
closureStepByte(reg, sz) == sz
closureStep(reg, sz) == IF reg = 7 /\ sz = 1 THEN 2 ELSE sz

makeEAMemAddr(c, mode, reg, sz) ==
  LET w == fetchPC(c)
      indexed == mode = 6 \/ (mode = 7 /\ reg = 3)
      base == IF mode = 7 THEN c.pc ELSE c.A[reg]
  IN CASE mode = 2 -> At(c, c.A[reg])
       [] mode = 3 -> At(setA(c, reg, c.A[reg] + closureStep(reg, sz)), c.A[reg])
       [] mode = 4 -> LET d == setA(c, reg, c.A[reg] - closureStep(reg, sz))
                      IN At(d, d.A[reg])
       [] mode = 7 /\ reg = 0 -> At(w.c, Ext(w.v, 2, 4))
       [] mode = 7 /\ reg = 1 -> fetchPCLong(c)
       [] indexed -> At(w.c, calcIndex(w.c, base, w.v))
       [] mode = 5 \/ (mode = 7 /\ reg = 2) -> At(w.c, Low(base + Signed(w.v, 2), 4))

makeEARead(c, mode, reg, sz) ==
  LET a == makeEAMemAddr(c, mode, reg, sz)
  IN CASE mode = 0 -> At(c, Low(c.D[reg], sz))
       [] mode = 1 -> At(c, Low(c.A[reg], sz))
       [] mode = 7 /\ reg = 4 -> fetchImm(c, sz)
       [] OTHER -> readBus(a.c, sz, a.v)

-----------------------------------------------------------------------------
(***************************************************************************)
(* Effective addresses, resolved: an operand e is [mode, reg, addr, imm].  *)
(***************************************************************************)
Operand(c, kind, reg, addr, imm) ==
  [c |-> c, e |-> [mode |-> kind, reg |-> reg, addr |-> addr, imm |-> imm]]

resolveStep(reg, sz) == IF reg = 7 /\ sz = 1 THEN 2 ELSE sz

resolveEA(c, mode, reg, sz) ==
  LET memory(d, addr) == Operand(d, "eaMemory", 0, Low(addr, 4), 0)
      w    == fetchPC(c)
      l    == fetchPCLong(c)
      step == resolveStep(reg, sz)
  IN CASE mode = 0 -> Operand(c, "eaDataReg", reg, 0, 0)
       [] mode = 1 -> Operand(c, "eaAddrReg", reg, 0, 0)
       [] mode = 2 -> memory(c, c.A[reg])
       [] mode = 3 -> memory(setA(c, reg, c.A[reg] + step), c.A[reg])
       [] mode = 4 -> memory(setA(c, reg, c.A[reg] - step), c.A[reg] - step)
       [] mode = 5 -> memory(w.c, c.A[reg] + Signed(w.v, 2))
       [] mode = 6 -> memory(w.c, calcIndex(w.c, c.A[reg], w.v))
       [] mode = 7 /\ reg = 0 -> memory(w.c, Signed(w.v, 2))
       [] mode = 7 /\ reg = 1 -> memory(l.c, l.v)
       [] mode = 7 /\ reg = 2 -> memory(w.c, c.pc + Signed(w.v, 2))
       [] mode = 7 /\ reg = 3 -> memory(w.c, calcIndex(w.c, c.pc, w.v))
       [] mode = 7 /\ reg = 4 ->
            LET i == IF sz = 4 THEN l ELSE w
            IN Operand(i.c, "eaImmediate", 0, 0, IF sz = 1 THEN Low(i.v, 1) ELSE i.v)

read(c, e, sz) ==
  CASE e.mode = "eaDataReg"   -> At(c, Low(c.D[e.reg], sz))
    [] e.mode = "eaAddrReg"   -> At(c, Low(c.A[e.reg], sz))
    [] e.mode = "eaMemory"    -> readBus(c, sz, e.addr)
    [] e.mode = "eaImmediate" -> At(c, Low(e.imm, sz))

write(c, e, sz, v) ==
  CASE e.mode = "eaDataReg"   -> setD(c, e.reg, sz, v)
    [] e.mode = "eaAddrReg"   -> setA(c, e.reg, v)
    [] e.mode = "eaMemory"    -> writeBus(c, sz, e.addr, v)
    [] e.mode = "eaImmediate" -> c

-----------------------------------------------------------------------------
(***************************************************************************)
(* Cycles for an operand: what a byte or word costs and what a long adds   *)
(* (ea_inline.go), and the tables of timing.go.                            *)
(***************************************************************************)
\* Mutant: the long absolute address is charged as a short one.
eaFetchConstShort(mode, reg) ==
  CASE mode \in {0, 1} -> <<0, 0>>
    [] mode \in {2, 3} \/ (mode = 7 /\ reg = 4) -> <<4, 4>>
    [] mode = 4 -> <<6, 4>>
    [] mode = 5 \/ (mode = 7 /\ reg \in {0, 1, 2}) -> <<8, 4>>
    [] mode = 6 \/ (mode = 7 /\ reg = 3) -> <<10, 4>>
eaFetchConst(mode, reg) ==
  CASE mode \in {0, 1} -> <<0, 0>>
    [] mode \in {2, 3} \/ (mode = 7 /\ reg = 4) -> <<4, 4>>
    [] mode = 4 -> <<6, 4>>
    [] mode = 5 \/ (mode = 7 /\ reg \in {0, 2}) -> <<8, 4>>
    [] mode = 6 \/ (mode = 7 /\ reg = 3) -> <<10, 4>>
    [] mode = 7 /\ reg = 1 -> <<12, 4>>

eaWriteConst(mode, reg) ==
  CASE mode \in {0, 1} -> <<0, 0>>
    [] mode \in {2, 3, 4} -> <<4, 4>>
    [] mode = 5 \/ (mode = 7 /\ reg = 0) -> <<8, 4>>
    [] mode = 6 -> <<10, 4>>
    [] mode = 7 /\ reg = 1 -> <<12, 4>>

Charge(const, sz) == const[1] + (IF sz = 4 THEN const[2] ELSE 0)

eaFetchCycles(mode, reg, sz) ==
  LET base == CASE mode \in {0, 1} -> 0
                [] mode \in {2, 3} \/ (mode = 7 /\ reg = 4) -> 4
                [] mode = 4 -> 6
                [] mode = 5 \/ (mode = 7 /\ reg \in {0, 2}) -> 8
                [] mode = 6 \/ (mode = 7 /\ reg = 3) -> 10
                [] mode = 7 /\ reg = 1 -> 12
  IN IF sz = 4 /\ base > 0 THEN base + 4 ELSE base

eaWriteCycles(mode, reg, sz) ==
  LET base == CASE mode \in {0, 1} -> 0
                [] mode \in {2, 3, 4} -> 4
                [] mode = 5 \/ (mode = 7 /\ reg = 0) -> 8
                [] mode = 6 -> 10
                [] mode = 7 /\ reg = 1 -> 12
  IN IF sz = 4 /\ base > 0 THEN base + 4 ELSE base

IsMem(mode, reg) == mode >= 2 /\ ~(mode = 7 /\ reg = 4)
=============================================================================
