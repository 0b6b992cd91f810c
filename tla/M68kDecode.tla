------------------------------ MODULE M68kDecode ------------------------------
(***************************************************************************)
(* How a slot of opcodeTable is filled by the init() functions of the      *)
(* seven ops files.  ir, the opcode, is any of the 65536; the slots do not *)
(* interact.  A stored handler is a record:                                *)
(*   op        the handler                                                 *)
(*   closures  the operand closures its make function captured, {} when it *)
(*             has code of its own for its operands                        *)
(*   size      the size it decodes from the opcode, 0 for no size          *)
(*   cost      the entry of its own cycle table, 4 when it has none        *)
(*   writes    whether it stores to the operand in bits 5-0                *)
(*                                                                         *)
(* A definition introduced as "Mutant" is a plausible mistake in the one   *)
(* that follows it; nothing else uses it.                                  *)
(***************************************************************************)
EXTENDS Naturals, FiniteSets

VARIABLES
  ir,      \* the opcode whose slot is followed
  file,    \* the source file whose init() runs next
  stores   \* every handler stored in the slot so far

vars == <<ir, file, stores>>

nil == "nil"

---------------------------------------------------------------------------
\* The fields of the opcode that the loops assemble it from.

Line == ir \div 4096
R9 == (ir \div 512) % 8
Opmode == (ir \div 64) % 8
Mode == (ir \div 8) % 8
Reg == ir % 8

\* The opcode is base | mode<<3 | reg, base | szBits<<6 | mode<<3 | reg with
\* szBits < 3, or base | r<<9 | mode<<3 | reg.
IsEA(base) == ir \div 64 = base \div 64
IsSized(base) == ir \div 256 = base \div 256 /\ Opmode % 4 # 3
IsR9(base) == Line = base \div 4096 /\ Opmode = (base % 512) \div 64

\* The operand classes the loops keep by their continue statements.
Upto(limit) == Mode # 7 \/ Reg <= limit
AnySource == Upto(4)
DataSource == Mode # 1 /\ Upto(4)
\* Mutant: the loop goes on to the PC-relative modes.
DataAlterableWide == Mode # 1 /\ Upto(3)
DataAlterable == Mode # 1 /\ Upto(1)
MemoryAlterable == Mode >= 2 /\ Upto(1)
\* Mutant: -(An) is not skipped.
ControlWide == Mode \in {2, 4, 5, 6, 7} /\ Upto(3)
Control == Mode \in {2, 5, 6, 7} /\ Upto(3)

---------------------------------------------------------------------------
\* What the make functions capture.

sizeEncoding(bits) == CASE bits = 0 -> 1 [] bits = 1 -> 2 [] bits = 2 -> 4 [] OTHER -> 0

moveSizeMap(bits) == CASE bits = 1 -> 1 [] bits = 2 -> 4 [] bits = 3 -> 2 [] OTHER -> 0

makeEARead(mode, reg) == IF mode < 7 \/ reg <= 4 THEN "read" ELSE nil

makeEAMemAddr(mode, reg) ==
  IF mode \in 2 .. 6 \/ (mode = 7 /\ reg <= 3) THEN "addr" ELSE nil

\* The cycle table of makeJMP; makeJSR's has 8 more in each row.
jumpCycles ==
  CASE Mode = 2 -> 8
    [] Mode = 5 \/ (Mode = 7 /\ Reg \in {0, 2}) -> 10
    [] Mode = 7 /\ Reg = 1 -> 12
    [] Mode = 6 \/ (Mode = 7 /\ Reg = 3) -> 14
    [] OTHER -> 0

\* The cycle table of makeLEA; makePEA's has 8 more in each row.
leaCycles ==
  CASE Mode = 2 -> 4
    [] Mode = 5 \/ (Mode = 7 /\ Reg \in {0, 2}) -> 8
    [] Mode = 6 \/ (Mode = 7 /\ Reg \in {1, 3}) -> 12
    [] OTHER -> 0

\* The base column of opMOVEM, dir 0 (to memory) or 1 (to registers).
movemCycles(dir) ==
  LET load == IF dir = 1 THEN 4 ELSE 0 IN
  CASE Mode = 2 \/ (Mode = 4 /\ dir = 0) \/ (Mode = 3 /\ dir = 1) -> 8 + load
    [] Mode = 5 \/ (Mode = 7 /\ Reg = 0) -> 12 + load
    [] Mode = 6 -> 14 + load
    [] Mode = 7 /\ Reg = 1 -> 16 + load
    [] Mode = 7 /\ Reg = 2 /\ dir = 1 -> 16
    [] Mode = 7 /\ Reg = 3 /\ dir = 1 -> 18
    [] OTHER -> 0

\* opEXG's switch on the opmode: 6 cycles, and 0 stands for no arm taken.
exgArm == IF (ir \div 8) % 32 \in {8, 9, 17} THEN 6 ELSE 0

---------------------------------------------------------------------------
\* The handlers: operands of their own, a source read through makeEARead, a
\* memory operand through makeEAMemAddr, and the same with code of its own
\* for Dn.

Own(op, size) == [op |-> op, closures |-> {}, size |-> size, cost |-> 4, writes |-> FALSE]

From(op, size) == [Own(op, size) EXCEPT !.closures = {makeEARead(Mode, Reg)}]

Address(op, cost) ==
  [Own(op, 2) EXCEPT !.closures = {makeEAMemAddr(Mode, Reg)}, !.cost = cost]

ToMemory(op, size) ==
  [Own(op, size) EXCEPT !.closures = {makeEAMemAddr(Mode, Reg)}, !.writes = TRUE]

To(op, size) ==
  IF Mode = 0 THEN [Own(op, size) EXCEPT !.writes = TRUE] ELSE ToMemory(op, size)

\* sz read from bits 7-6 by the handler, whatever the opmode's top bit is.
Sz == sizeEncoding(Opmode % 4)

Store(registered, handler) == IF registered THEN {handler} ELSE {}

---------------------------------------------------------------------------
\* ops_arith.go

\* registerADD and registerSUB: <ea>,Dn and Dn,<ea>.
registerADDorSUB(line, op) ==
  Store(Line = line /\ Opmode <= 2 /\ AnySource /\ ~(Mode = 1 /\ Opmode = 0),
        From(op, Sz))
  \cup Store(Line = line /\ Opmode \in 4 .. 6 /\ MemoryAlterable, ToMemory(op, Sz))

registerADD == registerADDorSUB(13, "ADD")
registerSUB == registerADDorSUB(9, "SUB")

\* registerADDA, registerSUBA and registerCMPA: word and long, <ea>,An.
registerToAn(line, op) ==
  Store(Line = line /\ Opmode \in {3, 7} /\ AnySource,
        From(op, IF Opmode = 7 THEN 4 ELSE 2))

registerADDA == registerToAn(13, "ADDA")
registerSUBA == registerToAn(9, "SUBA")
registerCMPA == registerToAn(11, "CMPA")

\* The loops shared by the immediate and the one-operand instructions.
registerAlter(base, op) == Store(IsSized(base) /\ DataAlterable, To(op, Sz))

registerADDI == registerAlter(\h0600, "ADDI")
registerSUBI == registerAlter(\h0400, "SUBI")
registerNEG == registerAlter(\h4400, "NEG")
registerNEGX == registerAlter(\h4000, "NEGX")
registerCLR == registerAlter(\h4200, "CLR")

registerCMPI ==
  Store(IsSized(\h0C00) /\ DataAlterable, [To("CMPI", Sz) EXCEPT !.writes = FALSE])

\* ADDQ (top = 0) and SUBQ (top = 4); An has code of its own.
registerQuick(top, op) ==
  Store(Line = 5 /\ Opmode \in top .. top + 2 /\ Upto(1) /\ ~(Mode = 1 /\ Opmode = top),
        IF Mode = 1 THEN Own(op, Sz) ELSE To(op, Sz))

registerADDQ == registerQuick(0, "ADDQ")
registerSUBQ == registerQuick(4, "SUBQ")

\* ADDX and SUBX: Dn,Dn (mode field 0) and -(An),-(An) (mode field 1).
registerExtended(line, op) ==
  Store(Line = line /\ Opmode \in 4 .. 6 /\ Mode \in {0, 1}, Own(op, Sz))

registerADDX == registerExtended(13, "ADDX")
registerSUBX == registerExtended(9, "SUBX")

registerCMP ==
  Store(Line = 11 /\ Opmode <= 2 /\ AnySource /\ ~(Mode = 1 /\ Opmode = 0),
        From("CMP", Sz))

registerCMPM == Store(Line = 11 /\ Opmode \in 4 .. 6 /\ Mode = 1, Own("CMPM", Sz))

\* MULU, MULS, DIVU, DIVS and CHK: a word source and Dn.
registerWordToDn(base, op) == Store(IsR9(base) /\ DataSource, From(op, 2))

registerMULU == registerWordToDn(\hC0C0, "MULU")
registerMULS == registerWordToDn(\hC1C0, "MULS")
registerDIVU == registerWordToDn(\h80C0, "DIVU")
registerDIVS == registerWordToDn(\h81C0, "DIVS")
registerCHK == registerWordToDn(\h4180, "CHK")

registerEXT ==
  Store(ir \div 8 \in {\h4880 \div 8, \h48C0 \div 8}, Own("EXT", 2))

---------------------------------------------------------------------------
\* ops_bcd.go and ops_bit.go

registerABCD == Store(IsR9(\hC100) /\ Mode \in {0, 1}, Own("ABCD", 1))
registerSBCD == Store(IsR9(\h8100) /\ Mode \in {0, 1}, Own("SBCD", 1))
registerNBCD == Store(IsEA(\h4800) /\ DataAlterable, To("NBCD", 1))

registerBTST ==
  Store(IsR9(\h0100) /\ DataSource, From("BTSTdyn", 1))
  \cup Store(IsEA(\h0800) /\ Mode # 1 /\ Upto(3), From("BTSTstatic", 1))

\* BCHG, BCLR and BSET: the bit number in Dn or in an extension word.
registerBit(dyn, static, op) ==
  Store((IsR9(dyn) \/ IsEA(static)) /\ DataAlterable, To(op, 1))

registerBCHG == registerBit(\h0140, \h0840, "BCHG")
registerBCLR == registerBit(\h0180, \h0880, "BCLR")
registerBSET == registerBit(\h01C0, \h08C0, "BSET")

---------------------------------------------------------------------------
\* ops_branch.go

registerBcc == Store(Line = 6 /\ (ir \div 256) % 16 \in 2 .. 15, Own("Bcc", 2))
registerBRA == Store(ir \div 256 = \h60, Own("BRA", 2))
registerBSR == Store(ir \div 256 = \h61, Own("BSR", 2))
registerDBcc == Store(Line = 5 /\ Opmode \in {3, 7} /\ Mode = 1, Own("DBcc", 2))
registerScc == Store(Line = 5 /\ Opmode \in {3, 7} /\ DataAlterable, To("Scc", 1))
registerJMP == Store(IsEA(\h4EC0) /\ Control, Address("JMP", jumpCycles))
registerJSR == Store(IsEA(\h4E80) /\ Control, Address("JSR", jumpCycles + 8))
registerRTS == Store(ir = \h4E75, Own("RTS", 2))
registerRTE == Store(ir = \h4E73, Own("RTE", 2))
registerRTR == Store(ir = \h4E77, Own("RTR", 2))

---------------------------------------------------------------------------
\* ops_ctrl.go

registerNOP == Store(ir = \h4E71, Own("NOP", 2))
registerSTOP == Store(ir = \h4E72, Own("STOP", 2))
registerRESET == Store(ir = \h4E70, Own("RESET", 2))
registerTRAP == Store(ir \div 16 = \h4E4, Own("TRAP", 2))
registerTRAPV == Store(ir = \h4E76, Own("TRAPV", 2))
registerLINK == Store(ir \in \h4E50 .. \h4E57, Own("LINK", 2))
registerUNLK == Store(ir \in \h4E58 .. \h4E5F, Own("UNLK", 2))

registerMoveToFromSR ==
  Store(IsEA(\h40C0) /\ DataAlterable, To("MOVEfromSR", 2))
  \cup Store(IsEA(\h44C0) /\ DataSource, From("MOVEtoCCR", 2))
  \cup Store(IsEA(\h46C0) /\ DataSource, From("MOVEtoSR", 2))
  \cup Store(ir \in \h4E60 .. \h4E67, Own("MOVEtoUSP", 4))
  \cup Store(ir \in \h4E68 .. \h4E6F, Own("MOVEfromUSP", 4))

registerAndiOriEoriSRCCR ==
  Store(ir \in {\h023C, \h003C, \h0A3C}, Own("ItoCCR", 1))
  \cup Store(ir \in {\h027C, \h007C, \h0A7C}, Own("ItoSR", 2))

---------------------------------------------------------------------------
\* ops_logic.go

\* AND and OR: <ea>,Dn and Dn,<ea>.
registerANDorOR(line, op) ==
  Store(Line = line /\ Opmode <= 2 /\ DataSource, From(op, Sz))
  \cup Store(Line = line /\ Opmode \in 4 .. 6 /\ MemoryAlterable, ToMemory(op, Sz))

registerAND == registerANDorOR(12, "AND")
registerOR == registerANDorOR(8, "OR")
registerANDI == registerAlter(\h0200, "ANDI")
registerORI == registerAlter(\h0000, "ORI")
registerEORI == registerAlter(\h0A00, "EORI")
registerNOT == registerAlter(\h4600, "NOT")
registerEOR == Store(Line = 11 /\ Opmode \in 4 .. 6 /\ DataAlterable, To("EOR", Sz))
registerTST == Store(IsSized(\h4A00) /\ DataAlterable, From("TST", Sz))
registerTAS == Store(IsEA(\h4AC0) /\ DataAlterable, To("TAS", 1))

\* Mutant: the count runs over four bits.
registerShiftsWide == Store(Line \in {14, 15} /\ Opmode % 4 # 3, Own("ShiftReg", Sz))
registerShifts ==
  Store(Line = 14 /\ Opmode % 4 # 3, Own("ShiftReg", Sz))
  \cup Store(Line = 14 /\ R9 <= 3 /\ Opmode % 4 = 3 /\ MemoryAlterable,
             ToMemory("ShiftMem", 2))

---------------------------------------------------------------------------
\* ops_move.go

\* The destination is R9 (register) and Opmode (mode).
registerMOVE ==
  Store(Line \in 1 .. 3 /\ Opmode # 1 /\ ~(Opmode = 7 /\ R9 > 1) /\ AnySource,
        [From("MOVE", moveSizeMap(Line % 4)) EXCEPT
           !.closures = @ \cup (IF Opmode = 0 THEN {} ELSE {makeEAMemAddr(Opmode, R9)})])

registerMOVEA ==
  Store(Line \in {2, 3} /\ Opmode = 1 /\ AnySource, From("MOVEA", moveSizeMap(Line % 4)))

registerMOVEQ == Store(Line = 7 /\ Opmode <= 3, Own("MOVEQ", 4))
registerMOVEP == Store(Line = 0 /\ Opmode >= 4 /\ Mode = 1, Own("MOVEP", 2))
registerLEA == Store(IsR9(\h41C0) /\ Control, Address("LEA", leaCycles))
\* Mutant: the mode loop starts at 0.
registerPEAWide ==
  Store(IsEA(\h4840) /\ Mode \notin {3, 4} /\ Upto(3), Own("PEA", 4))
registerPEA == Store(IsEA(\h4840) /\ Control, Address("PEA", leaCycles + 8))

\* dir 0 is registers to memory, 1 memory to registers; resolveEA and the
\* two arms for -(An) and (An)+ find the operand.
registerMOVEM ==
  Store(ir \div 128 = \h4880 \div 128 /\ Mode >= 2 /\ Mode # 3 /\ Upto(1),
        [Own("MOVEM", 2) EXCEPT !.cost = movemCycles(0), !.writes = TRUE])
  \cup Store(ir \div 128 = \h4C80 \div 128 /\ Mode >= 2 /\ Mode # 4 /\ Upto(3),
             [Own("MOVEM", 2) EXCEPT !.cost = movemCycles(1)])

registerEXG ==
  Store(Line = 12 /\ (ir \div 8) % 64 \in {40, 41, 49}, [Own("EXG", 4) EXCEPT !.cost = exgArm])

registerSWAP == Store(ir \div 8 = \h4840 \div 8, Own("SWAP", 4))

---------------------------------------------------------------------------
\* Go runs the init() functions of a package in file-name order.

RunInit(name, next, registered) ==
  /\ file = name
  /\ stores' = stores \cup registered
  /\ file' = next
  /\ UNCHANGED ir

initArith ==
  RunInit("ops_arith", "ops_bcd",
    UNION {registerADD, registerADDA, registerADDI, registerADDQ, registerADDX,
           registerSUB, registerSUBA, registerSUBI, registerSUBQ, registerSUBX,
           registerCMP, registerCMPA, registerCMPI, registerCMPM, registerMULU,
           registerMULS, registerDIVU, registerDIVS, registerNEG, registerNEGX,
           registerCLR, registerEXT, registerCHK})

initBcd == RunInit("ops_bcd", "ops_bit", UNION {registerABCD, registerSBCD, registerNBCD})

initBit ==
  RunInit("ops_bit", "ops_branch",
    UNION {registerBTST, registerBCHG, registerBCLR, registerBSET})

initBranch ==
  RunInit("ops_branch", "ops_ctrl",
    UNION {registerBcc, registerBRA, registerBSR, registerDBcc, registerJMP,
           registerJSR, registerRTS, registerRTE, registerRTR, registerScc})

initCtrl ==
  RunInit("ops_ctrl", "ops_logic",
    UNION {registerNOP, registerSTOP, registerRESET, registerTRAP, registerTRAPV,
           registerLINK, registerUNLK, registerMoveToFromSR, registerAndiOriEoriSRCCR})

initLogic ==
  RunInit("ops_logic", "ops_move",
    UNION {registerAND, registerANDI, registerOR, registerORI, registerEOR,
           registerEORI, registerNOT, registerTST, registerTAS, registerShifts})

initMove ==
  RunInit("ops_move", nil,
    UNION {registerMOVE, registerMOVEA, registerMOVEQ, registerMOVEP, registerLEA,
           registerPEA, registerMOVEM, registerEXG, registerSWAP})

Init == ir \in 0 .. 65535 /\ file = "ops_arith" /\ stores = {}

Next ==
  \/ initArith
  \/ initBcd
  \/ initBit
  \/ initBranch
  \/ initCtrl
  \/ initLogic
  \/ initMove

Spec == Init /\ [][Next]_vars

---------------------------------------------------------------------------
\* No opcode is stored by two registrations: the order in which Go runs the
\* init() functions, and the order of the calls inside one, does not decide
\* which handler an opcode gets.
SingleOwner == Cardinality(stores) <= 1

\* A handler in the table never meets a hole of the tables it was built from:
\* no operand closure is nil, the size field decodes to a size (a size of 0
\* masks every operand to 0) and its cycle table has a row for its mode (an
\* instruction of 0 cycles would keep StepCycles from consuming its budget).
HandlersComplete ==
  \A h \in stores : nil \notin h.closures /\ h.size # 0 /\ h.cost # 0

\* A handler that stores to the operand in bits 5-0 is never registered for
\* An, PC-relative or immediate, though makeEAMemAddr builds a closure for
\* the PC-relative modes.
DestinationsAlterable ==
  \A h \in stores : h.writes => Mode # 1 /\ ~(Mode = 7 /\ Reg > 1)

\* Lines 10 and 15 stay empty, so Step reaches the line A and line F
\* exceptions; no second registration would expose a loop that spills there.
EmulatorLinesFree == Line \in {10, 15} => stores = {}

\* The comment on the loops of ADD and ADDQ, for every operand that is read:
\* An is not an operand of byte size.
ByteNeverReadsAn ==
  \A h \in stores : "read" \in h.closures /\ h.size = 1 => Mode # 1
=============================================================================
