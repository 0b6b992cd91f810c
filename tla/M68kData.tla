------------------------------ MODULE M68kData ------------------------------
(***************************************************************************)
(* The data path: a program of data instructions.  Every step executes one *)
(* instruction of the program with some words of its streams after the     *)
(* opcode, up to the program's number of steps; it ends when the CPU halts *)
(* on an address error or when DIVU, DIVS or CHK raises an exception (the  *)
(* exception itself is M68kCPU's).  cycles and bus are those of the last   *)
(* instruction.                                                            *)
(*                                                                         *)
(* A program that saves registers the way subroutines do, with MOVEM       *)
(* list,-(A7), restores the list it saved last with MOVEM (A7)+,list; in   *)
(* between it changes registers as it likes, and saves nest.  The words of *)
(* the two lists have their bits in opposite orders.                       *)
(***************************************************************************)
EXTENDS M68kOps

CONSTANT
  Programs    \* by name: [ops, streams, starts, steps], with ops the instructions
              \* by operation, streams the sequences of extension words, starts
              \* registers and memory [D, A, pc, ccr, mem], steps a bound

\* No instruction has more than four extension words.
ASSUME Programmed ==
  \A p \in DOMAIN Programs :
    /\ \A op \in DOMAIN Programs[p].ops : \A i \in Programs[p].ops[op] : i.op = op /\ Encodable(i)
    /\ Programs[p].streams \subseteq [1 .. 4 -> Word]
    /\ \A s \in Programs[p].starts :
         /\ s.D \in [0 .. 7 -> Register] /\ s.A \in [0 .. 7 -> Register] /\ s.pc \in Register
         /\ s.ccr \subseteq CCRBits /\ s.mem \in Memory

VARIABLES
  prog,       \* the name of the program
  cpu,        \* the state of the CPU, as in M68kOperands
  ran,        \* the last instruction, with its words
  steps,      \* instructions executed
  saved       \* history: the lists saved and not restored, with the registers
              \* then; an instruction that moves A7 or writes memory forgets them

vars == <<prog, cpu, ran, steps, saved>>

Idle == [op |-> "none"]

Init ==
  /\ prog \in DOMAIN Programs
  /\ \E s \in Programs[prog].starts :
       cpu = [D |-> s.D, A |-> s.A, pc |-> s.pc, ccr |-> s.ccr, mem |-> s.mem, ext |-> <<>>,
              halted |-> FALSE, trap |-> 0, cycles |-> 0, bus |-> 0]
  /\ ran = Idle /\ steps = 0 /\ saved = <<>>

\* Step: the opcode is fetched, then the handler of the opcode runs.
Fetched(words) ==
  [cpu EXCEPT !.pc = Low(@ + 2, 4), !.ext = words, !.cycles = 0, !.bus = 1]

Running == steps < Programs[prog].steps /\ ~cpu.halted /\ cpu.trap = 0

Movem(i, dmode, mode) == i.op = "MOVEM" /\ i.dmode = dmode /\ i.mode = mode /\ i.reg = 7
Latest == saved[Len(saved)]

\* MOVEM list,-(A7) and, for the list saved last, MOVEM (A7)+,list
Saving == Movem(ran'.i, 0, 4)
Restoring ==
  /\ Movem(ran'.i, 1, 3) /\ saved # <<>>
  /\ ran'.i.sz = Latest.sz /\ MaskOf[ran'.words[1]] = Latest.list

NextSaved ==
  CASE Saving    -> Append(saved, [list |-> {15 - b : b \in MaskOf[ran'.words[1]]},
                                   sz |-> ran'.i.sz,
                                   regs |-> [r \in 0 .. 15 |-> Reg(cpu, r)]])
    [] Restoring -> SubSeq(saved, 1, Len(saved) - 1)
    [] OTHER     -> IF cpu'.A[7] = cpu.A[7] /\ cpu'.mem = cpu.mem THEN saved ELSE <<>>

Disciplined == saved # <<>> /\ Movem(ran'.i, 1, 3) => Restoring

Exec(op, Handler(_, _)) ==
  /\ Running /\ op \in DOMAIN Programs[prog].ops
  /\ \E i \in Programs[prog].ops[op], words \in Programs[prog].streams :
       /\ cpu' = [Handler(Fetched(words), i) EXCEPT !.ext = <<>>]
       /\ ran' = [i |-> i, words |-> words]
       /\ steps' = steps + 1
       /\ Disciplined /\ saved' = NextSaved
  /\ UNCHANGED prog

ADDtoReg == Exec("ADDtoReg", makeADDtoReg)
ADDtoEA == Exec("ADDtoEA", makeADDtoEA)
ADDA == Exec("ADDA", makeADDA)
ADDI == Exec("ADDI", makeADDI)
ADDQ == Exec("ADDQ", makeADDQ)
ADDXreg == Exec("ADDXreg", opADDXreg)
ADDXmem == Exec("ADDXmem", opADDXmem)
SUBtoReg == Exec("SUBtoReg", makeSUBtoReg)
SUBtoEA == Exec("SUBtoEA", makeSUBtoEA)
SUBA == Exec("SUBA", makeSUBA)
SUBI == Exec("SUBI", makeSUBI)
SUBQ == Exec("SUBQ", makeSUBQ)
SUBXreg == Exec("SUBXreg", opSUBXreg)
SUBXmem == Exec("SUBXmem", opSUBXmem)
CMP == Exec("CMP", makeCMP)
CMPA == Exec("CMPA", makeCMPA)
CMPI == Exec("CMPI", makeCMPI)
CMPM == Exec("CMPM", opCMPM)
MULU == Exec("MULU", makeMULU)
MULS == Exec("MULS", makeMULS)
DIVU == Exec("DIVU", makeDIVU)
DIVS == Exec("DIVS", makeDIVS)
NEG == Exec("NEG", makeNEG)
NEGX == Exec("NEGX", makeNEGX)
CLR == Exec("CLR", makeCLR)
EXTW == Exec("EXTW", opEXTW)
EXTL == Exec("EXTL", opEXTL)
CHK == Exec("CHK", makeCHK)
ANDtoReg == Exec("ANDtoReg", makeANDtoReg)
ANDtoEA == Exec("ANDtoEA", makeANDtoEA)
ANDI == Exec("ANDI", makeANDI)
ORtoReg == Exec("ORtoReg", makeORtoReg)
ORtoEA == Exec("ORtoEA", makeORtoEA)
ORI == Exec("ORI", makeORI)
EOR == Exec("EOR", makeEOR)
EORI == Exec("EORI", makeEORI)
NOT == Exec("NOT", makeNOT)
TST == Exec("TST", makeTST)
TAS == Exec("TAS", makeTAS)
ShiftReg == Exec("ShiftReg", opShiftReg)
ShiftMem == Exec("ShiftMem", makeShiftMem)
ABCDreg == Exec("ABCDreg", opABCDreg)
ABCDmem == Exec("ABCDmem", opABCDmem)
SBCDreg == Exec("SBCDreg", opSBCDreg)
SBCDmem == Exec("SBCDmem", opSBCDmem)
NBCD == Exec("NBCD", makeNBCD)
Scc == Exec("Scc", makeScc)
BTSTdyn == Exec("BTSTdyn", makeBTSTdyn)
BTSTstatic == Exec("BTSTstatic", makeBTSTstatic)
BCHGdyn == Exec("BCHGdyn", makeBCHGdyn)
BCHGstatic == Exec("BCHGstatic", makeBCHGstatic)
BCLRdyn == Exec("BCLRdyn", makeBCLRdyn)
BCLRstatic == Exec("BCLRstatic", makeBCLRstatic)
BSETdyn == Exec("BSETdyn", makeBSETdyn)
BSETstatic == Exec("BSETstatic", makeBSETstatic)
MOVE == Exec("MOVE", makeMOVE)
MOVEA == Exec("MOVEA", makeMOVEA)
MOVEQ == Exec("MOVEQ", opMOVEQ)
LEA == Exec("LEA", makeLEA)
PEA == Exec("PEA", makePEA)
MOVEM == Exec("MOVEM", opMOVEM)
EXG == Exec("EXG", opEXG)
SWAP == Exec("SWAP", opSWAP)
MOVEP == Exec("MOVEP", opMOVEP)

Next ==
  \/ ADDtoReg \/ ADDtoEA \/ ADDA \/ ADDI \/ ADDQ \/ ADDXreg \/ ADDXmem
  \/ SUBtoReg \/ SUBtoEA \/ SUBA \/ SUBI \/ SUBQ \/ SUBXreg \/ SUBXmem
  \/ CMP \/ CMPA \/ CMPI \/ CMPM \/ MULU \/ MULS \/ DIVU \/ DIVS \/ NEG
  \/ NEGX \/ CLR \/ EXTW \/ EXTL \/ CHK \/ ANDtoReg \/ ANDtoEA \/ ANDI
  \/ ORtoReg \/ ORtoEA \/ ORI \/ EOR \/ EORI \/ NOT \/ TST \/ TAS
  \/ ShiftReg \/ ShiftMem \/ ABCDreg \/ ABCDmem \/ SBCDreg \/ SBCDmem
  \/ NBCD \/ Scc \/ BTSTdyn \/ BTSTstatic \/ BCHGdyn \/ BCHGstatic
  \/ BCLRdyn \/ BCLRstatic \/ BSETdyn \/ BSETstatic \/ MOVE \/ MOVEA
  \/ MOVEQ \/ LEA \/ PEA \/ MOVEM \/ EXG \/ SWAP \/ MOVEP

Spec == Init /\ [][Next]_vars

-----------------------------------------------------------------------------
(***************************************************************************)
(* Properties.                                                             *)
(***************************************************************************)
\* Registers, memory and flags stay within their widths.
TypeOK ==
  /\ cpu.D \in [0 .. 7 -> Register] /\ cpu.A \in [0 .. 7 -> Register]
  /\ cpu.pc \in Register /\ cpu.ccr \subseteq CCRBits /\ cpu.mem \in Memory
  /\ cpu.halted \in BOOLEAN /\ cpu.trap \in {0, 5, 6}
  /\ cpu.cycles \in Nat /\ cpu.bus \in Nat

\* The two implementations of effective addresses agree: what the closures of
\* makeEARead and makeEAMemAddr read for the operand of an instruction, where
\* they point, what they do to the registers and how they fault is what
\* resolveEA does, and the costs of ea_inline.go are those of timing.go.
EAsAgree ==
  [][LET i == ran'.i
         c == Fetched(ran'.words)
         r == resolveEA(c, i.mode, i.reg, i.sz)
     IN /\ makeEARead(c, i.mode, i.reg, i.sz) = read(r.c, r.e, i.sz)
        /\ IsMem(i.mode, i.reg) => makeEAMemAddr(c, i.mode, i.reg, i.sz) = At(r.c, r.e.addr)
        /\ Charge(eaFetchConst(i.mode, i.reg), i.sz) = eaFetchCycles(i.mode, i.reg, i.sz)
        /\ (i.mode = 7 => i.reg < 2)
           => Charge(eaWriteConst(i.mode, i.reg), i.sz) = eaWriteCycles(i.mode, i.reg, i.sz)]_vars

\* An instruction is charged at least the four cycles that the 68000 needs for
\* each word it moves on the bus: opcode, extension words, operands.
BusTime == cpu.trap = 0 => cpu.cycles >= 4 * cpu.bus

\* An instruction that ends in an address error has changed no memory: readBus
\* and writeBus do nothing once the CPU is halted, whichever operand faulted.
FaultLeavesMemory == [][cpu'.halted => cpu'.mem = cpu.mem]_vars

\* A7 is written as a register by these.
WritesA7(i) ==
  \/ i.op \in {"ADDA", "SUBA", "MOVEA", "LEA"} /\ i.dn = 7
  \/ i.op \in {"ADDQ", "SUBQ"} /\ i.mode = 1 /\ i.reg = 7
  \/ i.op = "EXG" /\ ((i.typ # "DD" /\ i.reg = 7) \/ (i.typ = "AA" /\ i.dn = 7))
  \/ i.op = "MOVEM" /\ i.dmode = 1

\* "SP always stays word-aligned": whatever (A7)+ and -(A7) are used for, byte
\* operands included, A7 stays even.
StackAligned ==
  [][cpu.A[7] % 2 = 0 /\ ~WritesA7(ran'.i) => cpu'.A[7] % 2 = 0]_vars

\* A byte or word result leaves the rest of a data register alone; MULU, MULS,
\* DIVU, DIVS, MOVEM and EXG write whole registers.
RestOfRegisterKept ==
  [][ran'.i.op \notin {"MULU", "MULS", "DIVU", "DIVS", "MOVEM", "EXG"}
     => \A r \in 0 .. 7 : ran'.i.sz # 4
          => cpu'.D[r] \div Top(ran'.i.sz) = cpu.D[r] \div Top(ran'.i.sz)]_vars

\* A product is exact: 16 by 16 bits never wraps the long it is written to.  A
\* quotient and remainder are those of a division that truncates towards zero,
\* with the remainder's sign that of the dividend; V is set, and the register
\* kept, exactly when no word holds the quotient, the most negative dividend
\* divided by -1 included; a zero divisor traps and changes nothing.
WideExact ==
  [][LET i == ran'.i
         signed == i.op \in {"MULS", "DIVS"}
         Val(v, sz) == IF signed THEN Signed(v, sz) ELSE Low(v, sz)
         s == Val(cpu.D[i.reg], 2)
         n == Val(cpu.D[i.dn], 4)
         new == cpu'.D[i.dn]
         Quotient(q, r) == /\ n = s * q + r /\ Magnitude(r) < Magnitude(s)
                           /\ r = 0 \/ (r < 0) = (n < 0)
     IN i.mode = 0 =>
        /\ i.op \in {"MULU", "MULS"} => Val(new, 4) = s * Val(cpu.D[i.dn], 2)
        /\ i.op \in {"DIVU", "DIVS"} =>
             IF s = 0 THEN cpu'.trap = 5 /\ new = cpu.D[i.dn] /\ cpu'.ccr = cpu.ccr
             ELSE IF flagV \notin cpu'.ccr
             THEN Quotient(Val(new, 2), Val(new \div Top(2), 2))
             ELSE /\ new = cpu.D[i.dn]
                  /\ \A w \in 0 .. Top(2) - 1 : ~Quotient(Val(w, 2), n - s * Val(w, 2))
    ]_vars

\* After a comparison the conditions of Bcc and Scc say how the operands
\* compare, as unsigned and as signed numbers: HI, LS, CC, CS, NE, EQ, GE, LT,
\* GT and LE, overflow of the subtraction or not.
ConditionsHold ==
  [][LET i == ran'.i
         s == Low(cpu.D[i.reg], i.sz)
         d == Low(cpu.D[i.dn], i.sz)
     IN i.op = "CMP" /\ i.mode = 0 => TellsOrder(cpu'.ccr, s, d, i.sz)]_vars

\* A shift or rotate by n is one by n - 1 followed by one by a single bit, in
\* value and condition codes, and so n single ones: the last bit out is right for
\* counts below, at and past the width (doShift's val >> (Bits - count) wraps
\* there), X of ROXL and ROXR goes round the width plus one, and ASL sets V when
\* the sign changed at any time.  A shift by 0 keeps the value and X, and copies
\* X into C for ROXL and ROXR alone.
ShiftBySteps ==
  [][LET i == ran'.i
         n == cpu.D[i.dn] % (2 * Bits(4))
         Shift(ccr, v, k) == doShift(ccr, v, k, i.left, i.typ, i.sz)
         before == Shift(cpu.ccr, Low(cpu.D[i.reg], i.sz), n - 1)
         after == Shift(before.f, before.v, 1)
     IN i.op = "ShiftReg" /\ i.byReg =>
        IF n > 0
        THEN /\ Low(cpu'.D[i.reg], i.sz) = after.v
             /\ cpu'.ccr = after.f \cup (before.f \cap {flagV})
        ELSE /\ cpu'.D = cpu.D
             /\ flagX \in cpu'.ccr <=> flagX \in cpu.ccr
             /\ flagC \in cpu'.ccr <=> i.typ = "ROX" /\ flagX \in cpu.ccr]_vars

\* A restore gives every register of its list the value it had at the save (the
\* low word sign-extended when words were saved) and A7 its value from before
\* the save, however deep saves nest, whatever ran in between, for a list that
\* holds A7 itself and for an empty one, and where the stack wraps the bus.
SavedRestored ==
  [][Restoring =>
     /\ cpu'.A[7] = Latest.regs[15]
     /\ ~cpu'.halted => \A r \in Latest.list \ {15} :
          Reg(cpu', r) = SignExtended(Low(Latest.regs[r], Latest.sz), Latest.sz)]_vars
=============================================================================
