--------------------------- MODULE M68kData_proofs ----------------------------
(*****************************************************************************)
(* The properties of M68kData for every program, memory, register contents   *)
(* and width of the sizes.  Each disjunct of Next runs one handler on the    *)
(* state its fetch leaves (Stepping), so what the lemmas of M68kOps_proofs   *)
(* and M68kMoves_proofs say of the handlers holds of every step.             *)
(*****************************************************************************)
EXTENDS M68kData, M68kOps_proofs, M68kMoves_proofs

-----------------------------------------------------------------------------
(***************************************************************************)
(* Every step runs a handler on the state its fetch leaves.                *)
(***************************************************************************)
\* The part of data registers that an instruction writes.
Extent(i) == IF i.op \in {"MULU", "MULS", "DIVU", "DIVS", "MOVEM", "EXG"} THEN 4 ELSE i.sz

\* What the handler of instruction i does, with the handlers whose results are
\* stated below.
Executes(c, d, i) ==
  /\ Done(c, d, Extent(i), ~WritesA7(i))
  /\ i.op = "CMP" => d = makeCMP(c, i)
  /\ i.op = "MULU" => d = makeMULU(c, i)
  /\ i.op = "MULS" => d = makeMULS(c, i)
  /\ i.op = "DIVU" => d = makeDIVU(c, i)
  /\ i.op = "DIVS" => d = makeDIVS(c, i)

Inv == cpu \in State /\ cpu.ext = <<>> /\ prog \in DOMAIN Programs

\* Exec, for the state d in which the handler ends.
Ran(op, i, words, d) ==
  /\ Running /\ op \in DOMAIN Programs[prog].ops
  /\ i \in Programs[prog].ops[op] /\ words \in Programs[prog].streams
  /\ cpu' = [d EXCEPT !.ext = <<>>] /\ ran' = [i |-> i, words |-> words] /\ prog' = prog

Stepped(d) ==
  /\ Fetched(ran'.words) \in Started /\ Encodable(ran'.i)
  /\ Executes(Fetched(ran'.words), d, ran'.i)
  /\ cpu' = [d EXCEPT !.ext = <<>>] /\ prog' = prog

\* A handler that keeps A7 even keeps it even when that is not asked of it.
LEMMA Keeping ==
  ASSUME NEW c, NEW d, NEW sz, NEW keep, NEW kept, Done(c, d, sz, keep), kept => keep
  PROVE  Done(c, d, sz, kept)
  BY DEF Done

\* The fetch of an instruction the table has leaves a state its handler starts in.
LEMMA Starting ==
  ASSUME Inv, NEW op, NEW i, NEW words, NEW d, Ran(op, i, words, d)
  PROVE  Fetched(words) \in Started /\ Encodable(i) /\ i.op = op
  <1>1. Encodable(i) /\ i.op = op /\ words \in [1 .. 4 -> Word]
    BY Programmed DEF Ran, Inv
  <1>2. words \in Seq(Word) /\ Len(words) = 4
    <2> DEFINE n == 4
    <2>1. n \in Nat /\ words \in [1 .. n -> Word]
      BY <1>1
    <2> HIDE DEF n
    <2>2. words \in Seq(Word)
      BY <2>1
    <2>3. Len(words) \in Nat /\ 1 .. n = 1 .. Len(words)
      BY <2>1, <2>2
    <2>4. Len(words) = n
      BY <2>1, <2>3
    <2> QED
      BY <2>2, <2>4 DEF n
  <1>3. cpu \in State /\ cpu.trap = 0
    BY DEF Inv, Ran, Running
  <1>4. cpu.pc \in Register
    BY <1>3, StateFields
  <1>5. Low(cpu.pc + 2, 4) \in Register
    BY <1>4, LowRegister DEF Register
  <1> DEFINE p == Low(cpu.pc + 2, 4)
  <1>6. Fetched(words) = [cpu EXCEPT !.pc = p, !.ext = words, !.cycles = 0, !.bus = 1]
    BY <1>3 DEF Fetched, State
  <1>7. p \in Register
    BY <1>5
  <1> HIDE DEF p
  <1>8. 0 \in Nat /\ 1 \in Nat
    OBVIOUS
  <1>9. [cpu EXCEPT !.pc = p, !.ext = words, !.cycles = 0, !.bus = 1] \in State
    BY <1>2, <1>3, <1>7, <1>8, ZenonT(60) DEF State
  <1> QED
    BY <1>1, <1>2, <1>3, <1>6, <1>9, Zenon DEF Started, State

LEMMA Concluding ==
  ASSUME Inv, NEW op, NEW i, NEW words, NEW d, Ran(op, i, words, d), Executes(Fetched(words), d, i)
  PROVE  \E e : Stepped(e)
  <1>1. Stepped(d)
    BY Starting DEF Stepped, Ran
  <1> QED
    BY <1>1

\* Each disjunct of Next is a handler's step, by the lemma about its handler.
LEMMA Stepping ==
  ASSUME Inv, Next
  PROVE  \E d : Stepped(d)
  <1>1. ASSUME ADDtoReg \/ SUBtoReg \/ ANDtoReg \/ ORtoReg
        PROVE  \E d : Stepped(d)
    <2>1. ASSUME NEW c \in Started, NEW i, Encodable(i),
                 i.op \in {"ADDtoReg", "SUBtoReg", "ANDtoReg", "ORtoReg"}
          PROVE  /\ Executes(c, makeADDtoReg(c, i), i)
                 /\ Executes(c, makeSUBtoReg(c, i), i)
                 /\ Executes(c, makeANDtoReg(c, i), i)
                 /\ Executes(c, makeORtoReg(c, i), i)
      <3>1. Extent(i) = i.sz
        BY <2>1 DEF Extent
      <3> QED
        BY <2>1, <3>1, toRegDone, Keeping, Zenon DEF Executes
    <2>2. /\ ADDtoReg => \E i, words : Ran("ADDtoReg", i, words, makeADDtoReg(Fetched(words), i))
          /\ SUBtoReg => \E i, words : Ran("SUBtoReg", i, words, makeSUBtoReg(Fetched(words), i))
          /\ ANDtoReg => \E i, words : Ran("ANDtoReg", i, words, makeANDtoReg(Fetched(words), i))
          /\ ORtoReg => \E i, words : Ran("ORtoReg", i, words, makeORtoReg(Fetched(words), i))
      BY DEF ADDtoReg, SUBtoReg, ANDtoReg, ORtoReg, Exec, Ran
    <2> QED
      BY <1>1, <2>1, <2>2, Starting, Concluding
  <1>2. ASSUME ADDtoEA \/ SUBtoEA \/ ANDtoEA \/ ORtoEA \/ EOR
        PROVE  \E d : Stepped(d)
    <2>1. ASSUME NEW c \in Started, NEW i, Encodable(i),
                 i.op \in {"ADDtoEA", "SUBtoEA", "ANDtoEA", "ORtoEA", "EOR"}
          PROVE  /\ Executes(c, makeADDtoEA(c, i), i)
                 /\ Executes(c, makeSUBtoEA(c, i), i)
                 /\ Executes(c, makeANDtoEA(c, i), i)
                 /\ Executes(c, makeORtoEA(c, i), i)
                 /\ Executes(c, makeEOR(c, i), i)
      <3>1. /\ Extent(i) = i.sz
            /\ Alterable(i)
        BY <2>1 DEF Extent, Encodable, StoreOps
      <3> QED
        BY <2>1, <3>1, toEADone, Keeping, Zenon DEF Executes
    <2>2. /\ ADDtoEA => \E i, words : Ran("ADDtoEA", i, words, makeADDtoEA(Fetched(words), i))
          /\ SUBtoEA => \E i, words : Ran("SUBtoEA", i, words, makeSUBtoEA(Fetched(words), i))
          /\ ANDtoEA => \E i, words : Ran("ANDtoEA", i, words, makeANDtoEA(Fetched(words), i))
          /\ ORtoEA => \E i, words : Ran("ORtoEA", i, words, makeORtoEA(Fetched(words), i))
          /\ EOR => \E i, words : Ran("EOR", i, words, makeEOR(Fetched(words), i))
      BY DEF ADDtoEA, SUBtoEA, ANDtoEA, ORtoEA, EOR, Exec, Ran
    <2> QED
      BY <1>2, <2>1, <2>2, Starting, Concluding
  <1>3. ASSUME ADDI \/ SUBI \/ ANDI \/ ORI \/ EORI
        PROVE  \E d : Stepped(d)
    <2>1. ASSUME NEW c \in Started, NEW i, Encodable(i),
                 i.op \in {"ADDI", "SUBI", "ANDI", "ORI", "EORI"}
          PROVE  /\ Executes(c, makeADDI(c, i), i)
                 /\ Executes(c, makeSUBI(c, i), i)
                 /\ Executes(c, makeANDI(c, i), i)
                 /\ Executes(c, makeORI(c, i), i)
                 /\ Executes(c, makeEORI(c, i), i)
      <3>1. /\ Extent(i) = i.sz
            /\ Alterable(i)
        BY <2>1 DEF Extent, Encodable, StoreOps
      <3> QED
        BY <2>1, <3>1, immediateDone, Keeping, Zenon DEF Executes
    <2>2. /\ ADDI => \E i, words : Ran("ADDI", i, words, makeADDI(Fetched(words), i))
          /\ SUBI => \E i, words : Ran("SUBI", i, words, makeSUBI(Fetched(words), i))
          /\ ANDI => \E i, words : Ran("ANDI", i, words, makeANDI(Fetched(words), i))
          /\ ORI => \E i, words : Ran("ORI", i, words, makeORI(Fetched(words), i))
          /\ EORI => \E i, words : Ran("EORI", i, words, makeEORI(Fetched(words), i))
      BY DEF ADDI, SUBI, ANDI, ORI, EORI, Exec, Ran
    <2> QED
      BY <1>3, <2>1, <2>2, Starting, Concluding
  <1>4. ASSUME NEG \/ NEGX \/ NOT
        PROVE  \E d : Stepped(d)
    <2>1. ASSUME NEW c \in Started, NEW i, Encodable(i), i.op \in {"NEG", "NEGX", "NOT"}
          PROVE  /\ Executes(c, makeNEG(c, i), i)
                 /\ Executes(c, makeNEGX(c, i), i)
                 /\ Executes(c, makeNOT(c, i), i)
      <3>1. /\ Extent(i) = i.sz
            /\ Alterable(i)
        BY <2>1 DEF Extent, Encodable, StoreOps
      <3> QED
        BY <2>1, <3>1, unaryDone, Keeping, Zenon DEF Executes
    <2>2. /\ NEG => \E i, words : Ran("NEG", i, words, makeNEG(Fetched(words), i))
          /\ NEGX => \E i, words : Ran("NEGX", i, words, makeNEGX(Fetched(words), i))
          /\ NOT => \E i, words : Ran("NOT", i, words, makeNOT(Fetched(words), i))
      BY DEF NEG, NEGX, NOT, Exec, Ran
    <2> QED
      BY <1>4, <2>1, <2>2, Starting, Concluding
  <1>5. ASSUME CMPI
        PROVE  \E d : Stepped(d)
    <2>1. ASSUME NEW c \in Started, NEW i, Encodable(i), i.op \in {"CMPI"}
          PROVE  Executes(c, makeCMPI(c, i), i)
      <3>1. /\ Extent(i) = i.sz
            /\ Alterable(i)
        BY <2>1 DEF Extent, Encodable, StoreOps
      <3> QED
        BY <2>1, <3>1, CMPIDone, Keeping, Zenon DEF Executes
    <2>2. CMPI => \E i, words : Ran("CMPI", i, words, makeCMPI(Fetched(words), i))
      BY DEF CMPI, Exec, Ran
    <2> QED
      BY <1>5, <2>1, <2>2, Starting, Concluding
  <1>6. ASSUME CLR
        PROVE  \E d : Stepped(d)
    <2>1. ASSUME NEW c \in Started, NEW i, Encodable(i), i.op \in {"CLR"}
          PROVE  Executes(c, makeCLR(c, i), i)
      <3>1. /\ Extent(i) = i.sz
            /\ Alterable(i)
        BY <2>1 DEF Extent, Encodable, StoreOps
      <3> QED
        BY <2>1, <3>1, storeDone, Keeping, Zenon DEF Executes
    <2>2. CLR => \E i, words : Ran("CLR", i, words, makeCLR(Fetched(words), i))
      BY DEF CLR, Exec, Ran
    <2> QED
      BY <1>6, <2>1, <2>2, Starting, Concluding
  <1>7. ASSUME Scc
        PROVE  \E d : Stepped(d)
    <2>1. ASSUME NEW c \in Started, NEW i, Encodable(i), i.op \in {"Scc"}
          PROVE  Executes(c, makeScc(c, i), i)
      <3>1. /\ Extent(i) = 1
            /\ Alterable(i)
        BY <2>1 DEF Extent, Encodable, StoreOps, ByteOps
      <3> QED
        BY <2>1, <3>1, storeDone, Keeping, Zenon DEF Executes
    <2>2. Scc => \E i, words : Ran("Scc", i, words, makeScc(Fetched(words), i))
      BY DEF Scc, Exec, Ran
    <2> QED
      BY <1>7, <2>1, <2>2, Starting, Concluding
  <1>8. ASSUME TAS \/ NBCD
        PROVE  \E d : Stepped(d)
    <2>1. ASSUME NEW c \in Started, NEW i, Encodable(i), i.op \in {"TAS", "NBCD"}
          PROVE  /\ Executes(c, makeTAS(c, i), i)
                 /\ Executes(c, makeNBCD(c, i), i)
      <3>1. /\ Extent(i) = 1
            /\ Alterable(i)
        BY <2>1 DEF Extent, Encodable, StoreOps, ByteOps
      <3> QED
        BY <2>1, <3>1, byteDone, Keeping, Zenon DEF Executes
    <2>2. /\ TAS => \E i, words : Ran("TAS", i, words, makeTAS(Fetched(words), i))
          /\ NBCD => \E i, words : Ran("NBCD", i, words, makeNBCD(Fetched(words), i))
      BY DEF TAS, NBCD, Exec, Ran
    <2> QED
      BY <1>8, <2>1, <2>2, Starting, Concluding
  <1>9. ASSUME ShiftMem
        PROVE  \E d : Stepped(d)
    <2>1. ASSUME NEW c \in Started, NEW i, Encodable(i), i.op \in {"ShiftMem"}
          PROVE  Executes(c, makeShiftMem(c, i), i)
      <3>1. /\ Extent(i) = 2
            /\ IsMem(i.mode, i.reg)
            /\ i.typ \in {"AS", "LS", "ROX", "RO"}
        BY <2>1, Fields DEF Extent, Encodable, StoreOps, WordOps
      <3> QED
        BY <2>1, <3>1, ShiftMemDone, Keeping, Zenon DEF Executes
    <2>2. ShiftMem => \E i, words : Ran("ShiftMem", i, words, makeShiftMem(Fetched(words), i))
      BY DEF ShiftMem, Exec, Ran
    <2> QED
      BY <1>9, <2>1, <2>2, Starting, Concluding
  <1>10. ASSUME BCHGdyn \/ BCLRdyn \/ BSETdyn
         PROVE  \E d : Stepped(d)
    <2>1. ASSUME NEW c \in Started, NEW i, Encodable(i), i.op \in {"BCHGdyn", "BCLRdyn", "BSETdyn"}
          PROVE  /\ Executes(c, makeBCHGdyn(c, i), i)
                 /\ Executes(c, makeBCLRdyn(c, i), i)
                 /\ Executes(c, makeBSETdyn(c, i), i)
      <3>1. /\ Extent(i) = BitSize(i)
            /\ Alterable(i)
        BY <2>1 DEF Extent, Encodable, StoreOps, BitOps
      <3> QED
        BY <2>1, <3>1, dynBitDone, Keeping, Zenon DEF Executes
    <2>2. /\ BCHGdyn => \E i, words : Ran("BCHGdyn", i, words, makeBCHGdyn(Fetched(words), i))
          /\ BCLRdyn => \E i, words : Ran("BCLRdyn", i, words, makeBCLRdyn(Fetched(words), i))
          /\ BSETdyn => \E i, words : Ran("BSETdyn", i, words, makeBSETdyn(Fetched(words), i))
      BY DEF BCHGdyn, BCLRdyn, BSETdyn, Exec, Ran
    <2> QED
      BY <1>10, <2>1, <2>2, Starting, Concluding
  <1>11. ASSUME BCHGstatic \/ BCLRstatic \/ BSETstatic
         PROVE  \E d : Stepped(d)
    <2>1. ASSUME NEW c \in Started, NEW i, Encodable(i),
                 i.op \in {"BCHGstatic", "BCLRstatic", "BSETstatic"}
          PROVE  /\ Executes(c, makeBCHGstatic(c, i), i)
                 /\ Executes(c, makeBCLRstatic(c, i), i)
                 /\ Executes(c, makeBSETstatic(c, i), i)
      <3>1. /\ Extent(i) = BitSize(i)
            /\ Alterable(i)
        BY <2>1 DEF Extent, Encodable, StoreOps, BitOps
      <3> QED
        BY <2>1, <3>1, staticBitDone, Keeping, Zenon DEF Executes
    <2>2. /\ BCHGstatic => \E i, words : Ran("BCHGstatic", i, words, makeBCHGstatic(Fetched(words), i))
          /\ BCLRstatic => \E i, words : Ran("BCLRstatic", i, words, makeBCLRstatic(Fetched(words), i))
          /\ BSETstatic => \E i, words : Ran("BSETstatic", i, words, makeBSETstatic(Fetched(words), i))
      BY DEF BCHGstatic, BCLRstatic, BSETstatic, Exec, Ran
    <2> QED
      BY <1>11, <2>1, <2>2, Starting, Concluding
  <1>12. ASSUME BTSTdyn \/ BTSTstatic
         PROVE  \E d : Stepped(d)
    <2>1. ASSUME NEW c \in Started, NEW i, Encodable(i), i.op \in {"BTSTdyn", "BTSTstatic"}
          PROVE  /\ Executes(c, makeBTSTdyn(c, i), i)
                 /\ Executes(c, makeBTSTstatic(c, i), i)
      <3>1. Extent(i) = i.sz
        BY <2>1 DEF Extent
      <3> QED
        BY <2>1, <3>1, BTSTDone, Keeping, Zenon DEF Executes
    <2>2. /\ BTSTdyn => \E i, words : Ran("BTSTdyn", i, words, makeBTSTdyn(Fetched(words), i))
          /\ BTSTstatic => \E i, words : Ran("BTSTstatic", i, words, makeBTSTstatic(Fetched(words), i))
      BY DEF BTSTdyn, BTSTstatic, Exec, Ran
    <2> QED
      BY <1>12, <2>1, <2>2, Starting, Concluding
  <1>13. ASSUME ADDXreg \/ SUBXreg \/ ABCDreg \/ SBCDreg
         PROVE  \E d : Stepped(d)
    <2>1. ASSUME NEW c \in Started, NEW i, Encodable(i),
                 i.op \in {"ADDXreg", "SUBXreg", "ABCDreg", "SBCDreg"}
          PROVE  /\ Executes(c, opADDXreg(c, i), i)
                 /\ Executes(c, opSUBXreg(c, i), i)
                 /\ Executes(c, opABCDreg(c, i), i)
                 /\ Executes(c, opSBCDreg(c, i), i)
      <3>1. Extent(i) = i.sz
        BY <2>1 DEF Extent
      <3> QED
        BY <2>1, <3>1, regPairDone, Keeping, Zenon DEF Executes
    <2>2. /\ ADDXreg => \E i, words : Ran("ADDXreg", i, words, opADDXreg(Fetched(words), i))
          /\ SUBXreg => \E i, words : Ran("SUBXreg", i, words, opSUBXreg(Fetched(words), i))
          /\ ABCDreg => \E i, words : Ran("ABCDreg", i, words, opABCDreg(Fetched(words), i))
          /\ SBCDreg => \E i, words : Ran("SBCDreg", i, words, opSBCDreg(Fetched(words), i))
      BY DEF ADDXreg, SUBXreg, ABCDreg, SBCDreg, Exec, Ran
    <2> QED
      BY <1>13, <2>1, <2>2, Starting, Concluding
  <1>14. ASSUME ADDXmem \/ SUBXmem \/ CMPM
         PROVE  \E d : Stepped(d)
    <2>1. ASSUME NEW c \in Started, NEW i, Encodable(i), i.op \in {"ADDXmem", "SUBXmem", "CMPM"}
          PROVE  /\ Executes(c, opADDXmem(c, i), i)
                 /\ Executes(c, opSUBXmem(c, i), i)
                 /\ Executes(c, opCMPM(c, i), i)
      <3>1. Extent(i) = i.sz
        BY <2>1 DEF Extent
      <3> QED
        BY <2>1, <3>1, decPairDone, Keeping, Zenon DEF Executes
    <2>2. /\ ADDXmem => \E i, words : Ran("ADDXmem", i, words, opADDXmem(Fetched(words), i))
          /\ SUBXmem => \E i, words : Ran("SUBXmem", i, words, opSUBXmem(Fetched(words), i))
          /\ CMPM => \E i, words : Ran("CMPM", i, words, opCMPM(Fetched(words), i))
      BY DEF ADDXmem, SUBXmem, CMPM, Exec, Ran
    <2> QED
      BY <1>14, <2>1, <2>2, Starting, Concluding
  <1>15. ASSUME ABCDmem \/ SBCDmem
         PROVE  \E d : Stepped(d)
    <2>1. ASSUME NEW c \in Started, NEW i, Encodable(i), i.op \in {"ABCDmem", "SBCDmem"}
          PROVE  /\ Executes(c, opABCDmem(c, i), i)
                 /\ Executes(c, opSBCDmem(c, i), i)
      <3>1. /\ Extent(i) = i.sz
            /\ i.sz = 1
        BY <2>1 DEF Extent, Encodable, ByteOps
      <3> QED
        BY <2>1, <3>1, decPairDone, Keeping, Zenon DEF Executes
    <2>2. /\ ABCDmem => \E i, words : Ran("ABCDmem", i, words, opABCDmem(Fetched(words), i))
          /\ SBCDmem => \E i, words : Ran("SBCDmem", i, words, opSBCDmem(Fetched(words), i))
      BY DEF ABCDmem, SBCDmem, Exec, Ran
    <2> QED
      BY <1>15, <2>1, <2>2, Starting, Concluding
  <1>16. ASSUME ADDA \/ SUBA \/ MOVEA
         PROVE  \E d : Stepped(d)
    <2>1. ASSUME NEW c \in Started, NEW i, Encodable(i), i.op \in {"ADDA", "SUBA", "MOVEA"}
          PROVE  /\ Executes(c, makeADDA(c, i), i)
                 /\ Executes(c, makeSUBA(c, i), i)
                 /\ Executes(c, makeMOVEA(c, i), i)
      <3>1. /\ Extent(i) = i.sz
            /\ (~WritesA7(i) => i.dn # 7)
        BY <2>1 DEF Extent, Encodable, WritesA7
      <3> QED
        BY <2>1, <3>1, toAddrDone, Keeping, Zenon DEF Executes
    <2>2. /\ ADDA => \E i, words : Ran("ADDA", i, words, makeADDA(Fetched(words), i))
          /\ SUBA => \E i, words : Ran("SUBA", i, words, makeSUBA(Fetched(words), i))
          /\ MOVEA => \E i, words : Ran("MOVEA", i, words, makeMOVEA(Fetched(words), i))
      BY DEF ADDA, SUBA, MOVEA, Exec, Ran
    <2> QED
      BY <1>16, <2>1, <2>2, Starting, Concluding
  <1>17. ASSUME LEA
         PROVE  \E d : Stepped(d)
    <2>1. ASSUME NEW c \in Started, NEW i, Encodable(i), i.op \in {"LEA"}
          PROVE  Executes(c, makeLEA(c, i), i)
      <3>1. /\ Extent(i) = i.sz
            /\ Control(i)
            /\ (~WritesA7(i) => i.dn # 7)
        BY <2>1 DEF Extent, Encodable, WritesA7
      <3> QED
        BY <2>1, <3>1, addressDone, Keeping, Zenon DEF Executes
    <2>2. LEA => \E i, words : Ran("LEA", i, words, makeLEA(Fetched(words), i))
      BY DEF LEA, Exec, Ran
    <2> QED
      BY <1>17, <2>1, <2>2, Starting, Concluding
  <1>18. ASSUME PEA
         PROVE  \E d : Stepped(d)
    <2>1. ASSUME NEW c \in Started, NEW i, Encodable(i), i.op \in {"PEA"}
          PROVE  Executes(c, makePEA(c, i), i)
      <3>1. /\ Extent(i) = i.sz
            /\ Control(i)
        BY <2>1 DEF Extent, Encodable
      <3> QED
        BY <2>1, <3>1, addressDone, Keeping, Zenon DEF Executes
    <2>2. PEA => \E i, words : Ran("PEA", i, words, makePEA(Fetched(words), i))
      BY DEF PEA, Exec, Ran
    <2> QED
      BY <1>18, <2>1, <2>2, Starting, Concluding
  <1>19. ASSUME CMP \/ CMPA \/ TST
         PROVE  \E d : Stepped(d)
    <2>1. ASSUME NEW c \in Started, NEW i, Encodable(i), i.op \in {"CMP", "CMPA", "TST"}
          PROVE  /\ (i.op = "CMP" => Executes(c, makeCMP(c, i), i))
                 /\ (i.op = "CMPA" => Executes(c, makeCMPA(c, i), i))
                 /\ (i.op = "TST" => Executes(c, makeTST(c, i), i))
      <3>1. Extent(i) = i.sz
        BY <2>1 DEF Extent
      <3> QED
        BY <2>1, <3>1, CompareDone, Keeping, Zenon DEF Executes
    <2>2. /\ CMP => \E i, words : Ran("CMP", i, words, makeCMP(Fetched(words), i))
          /\ CMPA => \E i, words : Ran("CMPA", i, words, makeCMPA(Fetched(words), i))
          /\ TST => \E i, words : Ran("TST", i, words, makeTST(Fetched(words), i))
      BY DEF CMP, CMPA, TST, Exec, Ran
    <2> QED
      BY <1>19, <2>1, <2>2, Starting, Concluding
  <1>20. ASSUME CHK
         PROVE  \E d : Stepped(d)
    <2>1. ASSUME NEW c \in Started, NEW i, Encodable(i), i.op \in {"CHK"}
          PROVE  Executes(c, makeCHK(c, i), i)
      <3>1. Extent(i) = i.sz
        BY <2>1 DEF Extent
      <3> QED
        BY <2>1, <3>1, CHKDone, Keeping, Zenon DEF Executes
    <2>2. CHK => \E i, words : Ran("CHK", i, words, makeCHK(Fetched(words), i))
      BY DEF CHK, Exec, Ran
    <2> QED
      BY <1>20, <2>1, <2>2, Starting, Concluding
  <1>21. ASSUME ADDQ \/ SUBQ
         PROVE  \E d : Stepped(d)
    <2>1. ASSUME NEW c \in Started, NEW i, Encodable(i), i.op \in {"ADDQ", "SUBQ"}
          PROVE  /\ Executes(c, makeADDQ(c, i), i)
                 /\ Executes(c, makeSUBQ(c, i), i)
      <3>1. /\ Extent(i) = i.sz
            /\ (i.mode = 1 \/ Alterable(i))
            /\ (~WritesA7(i) => ~(i.mode = 1 /\ i.reg = 7))
        BY <2>1 DEF Extent, Encodable, WritesA7
      <3>2. /\ Done(c, makeADDQ(c, i), i.sz, ~(i.mode = 1 /\ i.reg = 7))
            /\ Done(c, makeSUBQ(c, i), i.sz, ~(i.mode = 1 /\ i.reg = 7))
        BY <2>1, <3>1, quickDone
      <3> QED
        BY <2>1, <3>1, <3>2, Keeping, Zenon DEF Executes
    <2>2. /\ ADDQ => \E i, words : Ran("ADDQ", i, words, makeADDQ(Fetched(words), i))
          /\ SUBQ => \E i, words : Ran("SUBQ", i, words, makeSUBQ(Fetched(words), i))
      BY DEF ADDQ, SUBQ, Exec, Ran
    <2> QED
      BY <1>21, <2>1, <2>2, Starting, Concluding
  <1>22. ASSUME MULU \/ MULS \/ DIVU \/ DIVS
         PROVE  \E d : Stepped(d)
    <2>1. ASSUME NEW c \in Started, NEW i, Encodable(i), i.op \in {"MULU", "MULS", "DIVU", "DIVS"}
          PROVE  /\ (i.op = "MULU" => Executes(c, makeMULU(c, i), i))
                 /\ (i.op = "MULS" => Executes(c, makeMULS(c, i), i))
                 /\ (i.op = "DIVU" => Executes(c, makeDIVU(c, i), i))
                 /\ (i.op = "DIVS" => Executes(c, makeDIVS(c, i), i))
      <3>1. Extent(i) = 4
        BY <2>1 DEF Extent
      <3> QED
        BY <2>1, <3>1, wideDone, Keeping, Zenon DEF Executes
    <2>2. /\ MULU => \E i, words : Ran("MULU", i, words, makeMULU(Fetched(words), i))
          /\ MULS => \E i, words : Ran("MULS", i, words, makeMULS(Fetched(words), i))
          /\ DIVU => \E i, words : Ran("DIVU", i, words, makeDIVU(Fetched(words), i))
          /\ DIVS => \E i, words : Ran("DIVS", i, words, makeDIVS(Fetched(words), i))
      BY DEF MULU, MULS, DIVU, DIVS, Exec, Ran
    <2> QED
      BY <1>22, <2>1, <2>2, Starting, Concluding
  <1>23. ASSUME EXTW
         PROVE  \E d : Stepped(d)
    <2>1. ASSUME NEW c \in Started, NEW i, Encodable(i), i.op \in {"EXTW"}
          PROVE  Executes(c, opEXTW(c, i), i)
      <3>1. Extent(i) = 2
        BY <2>1 DEF Extent, Encodable, WordOps
      <3> QED
        BY <2>1, <3>1, extendDone, Keeping, Zenon DEF Executes
    <2>2. EXTW => \E i, words : Ran("EXTW", i, words, opEXTW(Fetched(words), i))
      BY DEF EXTW, Exec, Ran
    <2> QED
      BY <1>23, <2>1, <2>2, Starting, Concluding
  <1>24. ASSUME EXTL \/ MOVEQ \/ SWAP
         PROVE  \E d : Stepped(d)
    <2>1. ASSUME NEW c \in Started, NEW i, Encodable(i), i.op \in {"EXTL", "MOVEQ", "SWAP"}
          PROVE  /\ Executes(c, opEXTL(c, i), i)
                 /\ Executes(c, opMOVEQ(c, i), i)
                 /\ Executes(c, opSWAP(c, i), i)
      <3>1. Extent(i) = 4
        BY <2>1 DEF Extent, Encodable, LongOps
      <3> QED
        BY <2>1, <3>1, extendDone, Keeping, Zenon DEF Executes
    <2>2. /\ EXTL => \E i, words : Ran("EXTL", i, words, opEXTL(Fetched(words), i))
          /\ MOVEQ => \E i, words : Ran("MOVEQ", i, words, opMOVEQ(Fetched(words), i))
          /\ SWAP => \E i, words : Ran("SWAP", i, words, opSWAP(Fetched(words), i))
      BY DEF EXTL, MOVEQ, SWAP, Exec, Ran
    <2> QED
      BY <1>24, <2>1, <2>2, Starting, Concluding
  <1>25. ASSUME MOVE
         PROVE  \E d : Stepped(d)
    <2>1. ASSUME NEW c \in Started, NEW i, Encodable(i), i.op \in {"MOVE"}
          PROVE  Executes(c, makeMOVE(c, i), i)
      <3>1. /\ Extent(i) = i.sz
            /\ i.dmode # 1
            /\ (i.dmode = 7 => i.dn < 2)
        BY <2>1 DEF Extent, Encodable
      <3> QED
        BY <2>1, <3>1, MOVEDone, Keeping, Zenon DEF Executes
    <2>2. MOVE => \E i, words : Ran("MOVE", i, words, makeMOVE(Fetched(words), i))
      BY DEF MOVE, Exec, Ran
    <2> QED
      BY <1>25, <2>1, <2>2, Starting, Concluding
  <1>26. ASSUME EXG
         PROVE  \E d : Stepped(d)
    <2>1. ASSUME NEW c \in Started, NEW i, Encodable(i), i.op \in {"EXG"}
          PROVE  Executes(c, opEXG(c, i), i)
      <3>1. /\ Extent(i) = 4
            /\ i.typ \in {"DD", "AA", "DA"}
            /\ (~WritesA7(i) => ~((i.typ # "DD" /\ i.reg = 7) \/ (i.typ = "AA" /\ i.dn = 7)))
        BY <2>1 DEF Extent, Encodable, WritesA7
      <3> QED
        BY <2>1, <3>1, EXGDone, Keeping, Zenon DEF Executes
    <2>2. EXG => \E i, words : Ran("EXG", i, words, opEXG(Fetched(words), i))
      BY DEF EXG, Exec, Ran
    <2> QED
      BY <1>26, <2>1, <2>2, Starting, Concluding
  <1>27. ASSUME ShiftReg
         PROVE  \E d : Stepped(d)
    <2>1. ASSUME NEW c \in Started, NEW i, Encodable(i), i.op \in {"ShiftReg"}
          PROVE  Executes(c, opShiftReg(c, i), i)
      <3>1. /\ Extent(i) = i.sz
            /\ i.typ \in {"AS", "LS", "ROX", "RO"}
        BY <2>1 DEF Extent, Encodable
      <3> QED
        BY <2>1, <3>1, ShiftRegDone, Keeping, Zenon DEF Executes
    <2>2. ShiftReg => \E i, words : Ran("ShiftReg", i, words, opShiftReg(Fetched(words), i))
      BY DEF ShiftReg, Exec, Ran
    <2> QED
      BY <1>27, <2>1, <2>2, Starting, Concluding
  <1>28. ASSUME MOVEM
         PROVE  \E d : Stepped(d)
    <2>1. ASSUME NEW c \in Started, NEW i, Encodable(i), i.op \in {"MOVEM"}
          PROVE  Executes(c, opMOVEM(c, i), i)
      <3>1. /\ Extent(i) = 4
            /\ i.sz # 1
            /\ i.dmode \in {0, 1}
            /\ (~WritesA7(i) => i.dmode # 1)
            /\ Control(i) \/ (i.mode = 4 /\ i.dmode = 0) \/ (i.mode = 3 /\ i.dmode = 1)
        BY <2>1 DEF Extent, Encodable, AddressOps, WritesA7
      <3> QED
        BY <2>1, <3>1, MOVEMDone, Keeping, Zenon DEF Executes
    <2>2. MOVEM => \E i, words : Ran("MOVEM", i, words, opMOVEM(Fetched(words), i))
      BY DEF MOVEM, Exec, Ran
    <2> QED
      BY <1>28, <2>1, <2>2, Starting, Concluding
  <1>29. ASSUME MOVEP
         PROVE  \E d : Stepped(d)
    <2>1. ASSUME NEW c \in Started, NEW i, Encodable(i), i.op \in {"MOVEP"}
          PROVE  Executes(c, opMOVEP(c, i), i)
      <3>1. /\ Extent(i) = i.sz
            /\ i.sz # 1
        BY <2>1 DEF Extent, Encodable, AddressOps
      <3> QED
        BY <2>1, <3>1, MOVEPDone, Keeping, Zenon DEF Executes
    <2>2. MOVEP => \E i, words : Ran("MOVEP", i, words, opMOVEP(Fetched(words), i))
      BY DEF MOVEP, Exec, Ran
    <2> QED
      BY <1>29, <2>1, <2>2, Starting, Concluding
  <1> QED
    BY <1>1, <1>2, <1>3, <1>4, <1>5, <1>6, <1>7, <1>8, <1>9, <1>10, <1>11, <1>12, <1>13, <1>14,
       <1>15, <1>16, <1>17, <1>18, <1>19, <1>20, <1>21, <1>22, <1>23, <1>24, <1>25, <1>26, <1>27,
       <1>28, <1>29 DEF Next

-----------------------------------------------------------------------------
(***************************************************************************)
(* The properties of M68kData.                                             *)
(***************************************************************************)
LEMMA InitInv == Init => Inv /\ BusTime
  <1> SUFFICES ASSUME Init PROVE Inv /\ BusTime
    OBVIOUS
  <1>1. PICK s \in Programs[prog].starts :
          cpu = [D |-> s.D, A |-> s.A, pc |-> s.pc, ccr |-> s.ccr, mem |-> s.mem, ext |-> <<>>,
                 halted |-> FALSE, trap |-> 0, cycles |-> 0, bus |-> 0]
    BY Zenon DEF Init
  <1>2. prog \in DOMAIN Programs
    BY DEF Init
  <1>3. /\ s.D \in Registers /\ s.A \in Registers /\ s.pc \in Register
        /\ s.ccr \subseteq CCRBits /\ s.mem \in Memory
    BY <1>1, <1>2, Programmed DEF Registers
  <1>4. <<>> \in Seq(Word) /\ 0 \in Nat
    OBVIOUS
  <1>5. cpu \in State
    BY <1>1, <1>3, <1>4 DEF State
  <1> QED
    BY <1>1, <1>2, <1>5 DEF Inv, BusTime

\* What a step does to the CPU, in terms of the CPU before it.
LEMMA StepEffect ==
  ASSUME Inv, Next
  PROVE  /\ Inv' /\ BusTime'
         /\ Fetched(ran'.words) \in Started /\ Encodable(ran'.i)
         /\ cpu'.halted => cpu'.mem = cpu.mem
         /\ ~WritesA7(ran'.i) /\ Even(cpu.A[7]) => Even(cpu'.A[7])
         /\ \A r \in 0 .. 7 : cpu'.D[r] \div Top(Extent(ran'.i)) = cpu.D[r] \div Top(Extent(ran'.i))
  <1>1. PICK d : Stepped(d)
    BY Stepping
  <1> DEFINE c == Fetched(ran'.words)
  <1>2. c \in Started /\ Encodable(ran'.i) /\ Done(c, d, Extent(ran'.i), ~WritesA7(ran'.i))
    BY <1>1 DEF Stepped, Executes
  <1>3. cpu \in State
    BY DEF Inv
  <1>4. c.D = cpu.D /\ c.A = cpu.A /\ c.mem = cpu.mem
    BY <1>3 DEF Fetched, State
  <1> HIDE DEF c
  <1>5. d \in State
    BY <1>2 DEF Done
  <1>6. cpu' = [d EXCEPT !.ext = <<>>] /\ prog' = prog
    BY <1>1 DEF Stepped
  <1>7. /\ cpu'.D = d.D /\ cpu'.A = d.A /\ cpu'.mem = d.mem /\ cpu'.halted = d.halted
        /\ cpu'.trap = d.trap /\ cpu'.cycles = d.cycles /\ cpu'.bus = d.bus /\ cpu'.ext = <<>>
    BY <1>5, <1>6 DEF State
  <1>8. <<>> \in Seq(Word)
    OBVIOUS
  <1>9. cpu' \in State
    BY <1>5, <1>6, <1>8, ZenonT(60) DEF State
  <1>10. Inv'
    BY <1>6, <1>7, <1>9 DEF Inv
  <1>11. d.cycles \in Nat /\ d.bus \in Nat
    BY <1>5, StateFields
  <1>12. BusTime'
    BY <1>2, <1>7, <1>11 DEF BusTime, Done
  <1> QED
    BY <1>2, <1>4, <1>7, <1>10, <1>12 DEF Done, c

LEMMA StutterInv == ASSUME Inv /\ BusTime, UNCHANGED vars PROVE (Inv /\ BusTime)'
  BY DEF Inv, BusTime, vars

LEMMA InvariantHolds == Spec => [](Inv /\ BusTime)
  <1>1. Inv /\ BusTime /\ [Next]_vars => (Inv /\ BusTime)'
    BY StepEffect, StutterInv
  <1> QED
    BY <1>1, InitInv, PTL DEF Spec

\* Whatever the programs, their memory and their registers, the data path keeps
\* registers, memory, flags and counters within their types: no handler of
\* src/ops_*.go writes a value wider than the register or cell it writes, and
\* none ends in a trap but 5 (division by zero) and 6 (CHK).
THEOREM DataTypeCorrect == Spec => []TypeOK
  <1>1. Inv => TypeOK
    BY DEF Inv, State, TypeOK, Registers
  <1> QED
    BY <1>1, InvariantHolds, PTL

\* Every data instruction, in every addressing mode and size it is registered
\* for, is charged at least four cycles for each word it moved on the bus, also
\* when an access of it faults, unless it traps.
THEOREM CyclesCoverTheBus == Spec => []BusTime
  BY InvariantHolds, PTL

\* No data instruction that ends in an address error has changed memory,
\* whichever of its accesses faulted.
THEOREM FaultsChangeNoMemory == Spec => FaultLeavesMemory
  <1>1. Inv /\ [Next]_vars => [cpu'.halted => cpu'.mem = cpu.mem]_vars
    BY StepEffect DEF vars
  <1> QED
    BY <1>1, InvariantHolds, PTL DEF Spec, FaultLeavesMemory

\* A7 stays even under every data instruction that does not write it as a
\* register: byte operands at (A7)+ and -(A7) move it by two.
THEOREM StackStaysAligned == Spec => StackAligned
  <1>1. Inv /\ [Next]_vars
        => [cpu.A[7] % 2 = 0 /\ ~WritesA7(ran'.i) => cpu'.A[7] % 2 = 0]_vars
    BY StepEffect DEF vars, Even
  <1> QED
    BY <1>1, InvariantHolds, PTL DEF Spec, StackAligned

\* Byte and word results leave the upper part of every data register alone.
THEOREM UpperPartsKept == Spec => RestOfRegisterKept
  <1>1. Inv /\ [Next]_vars
        => [ran'.i.op \notin {"MULU", "MULS", "DIVU", "DIVS", "MOVEM", "EXG"}
            => \A r \in 0 .. 7 : ran'.i.sz # 4
                 => cpu'.D[r] \div Top(ran'.i.sz) = cpu.D[r] \div Top(ran'.i.sz)]_vars
    BY StepEffect DEF vars, Extent
  <1> QED
    BY <1>1, InvariantHolds, PTL DEF Spec, RestOfRegisterKept

\* The closures that handlers compile their operands to and resolveEA are the
\* same effective addresses, for every instruction of every program: value,
\* address, side effects, faults and cycles.
THEOREM BothEAsAgree == Spec => EAsAgree
  <1> DEFINE Agree == LET i == ran'.i
                          c == Fetched(ran'.words)
                          r == resolveEA(c, i.mode, i.reg, i.sz)
                      IN /\ makeEARead(c, i.mode, i.reg, i.sz) = read(r.c, r.e, i.sz)
                         /\ IsMem(i.mode, i.reg)
                            => makeEAMemAddr(c, i.mode, i.reg, i.sz) = At(r.c, r.e.addr)
                         /\ Charge(eaFetchConst(i.mode, i.reg), i.sz) = eaFetchCycles(i.mode, i.reg, i.sz)
                         /\ (i.mode = 7 => i.reg < 2)
                            => Charge(eaWriteConst(i.mode, i.reg), i.sz) = eaWriteCycles(i.mode, i.reg, i.sz)
  <1>1. ASSUME Inv, Next PROVE Agree
    <2> DEFINE i == ran'.i
               c == Fetched(ran'.words)
    <2>1. c \in Started /\ Encodable(i)
      BY <1>1, StepEffect
    <2> HIDE DEF i, c
    <2>2. c \in State /\ Len(c.ext) >= 2 /\ Operands(i.mode, i.reg) /\ i.sz \in Size
      BY <2>1, Fields, Starts
    <2>3. LET r == resolveEA(c, i.mode, i.reg, i.sz)
          IN /\ makeEARead(c, i.mode, i.reg, i.sz) = read(r.c, r.e, i.sz)
             /\ IsMem(i.mode, i.reg)
                => makeEAMemAddr(c, i.mode, i.reg, i.sz) = At(r.c, r.e.addr)
      BY <2>2, BothEAs
    <2>4. /\ Charge(eaFetchConst(i.mode, i.reg), i.sz) = eaFetchCycles(i.mode, i.reg, i.sz)
          /\ (i.mode = 7 => i.reg < 2)
             => Charge(eaWriteConst(i.mode, i.reg), i.sz) = eaWriteCycles(i.mode, i.reg, i.sz)
      BY <2>2, ChargeFetch, ChargeWrite
    <2> QED
      BY <2>3, <2>4 DEF i, c
  <1> HIDE DEF Agree
  <1>2. Inv /\ [Next]_vars => [Agree]_vars
    BY <1>1
  <1> QED
    BY <1>2, InvariantHolds, PTL DEF Spec, EAsAgree, Agree

\* A handler ran on the state its fetch left.
LEMMA Computed ==
  ASSUME Inv, Next
  PROVE  \E d \in State :
           /\ Executes(Fetched(ran'.words), d, ran'.i)
           /\ cpu'.D = d.D /\ cpu'.ccr = d.ccr /\ cpu'.trap = d.trap
  <1>1. PICK d : Stepped(d)
    BY Stepping
  <1>2. d \in State
    BY <1>1 DEF Stepped, Executes, Done
  <1>3. cpu' = [d EXCEPT !.ext = <<>>] /\ Executes(Fetched(ran'.words), d, ran'.i)
    BY <1>1 DEF Stepped
  <1>4. cpu'.D = d.D /\ cpu'.ccr = d.ccr /\ cpu'.trap = d.trap
    BY <1>2, <1>3 DEF State
  <1> QED
    BY <1>2, <1>3, <1>4

LEMMA FetchedFields ==
  ASSUME Inv, NEW words
  PROVE  LET c == Fetched(words) IN c.D = cpu.D /\ c.ccr = cpu.ccr /\ c.trap = cpu.trap
  BY DEF Inv, Fetched, State

\* CMP Ds,Dd leaves condition codes that tell Bcc, DBcc and Scc how the two
\* registers compare at the size of the instruction, signed and unsigned.
THEOREM ConditionsTellOrder == Spec => ConditionsHold
  <1> DEFINE Told == LET i == ran'.i
                         s == Low(cpu.D[i.reg], i.sz)
                         d == Low(cpu.D[i.dn], i.sz)
                     IN i.op = "CMP" /\ i.mode = 0 => TellsOrder(cpu'.ccr, s, d, i.sz)
  <1>1. ASSUME Inv, Next, ran'.i.op = "CMP", ran'.i.mode = 0 PROVE Told
    <2> DEFINE i == ran'.i
               c == Fetched(ran'.words)
               s == Low(cpu.D[i.reg], i.sz)
               d == Low(cpu.D[i.dn], i.sz)
               t == By(i.sz, 4, 6) + FetchCost(i, i.sz)
               f == setFlagsCmp(c.ccr, s, d, d - s, i.sz)
    <2>1. PICK e \in State : Executes(c, e, i) /\ cpu'.ccr = e.ccr
      BY <1>1, Computed
    <2>2. c \in Started /\ Encodable(i)
      BY <1>1, StepEffect
    <2>3. c.D = cpu.D
      BY <1>1, FetchedFields
    <2>4. e = makeCMP(c, i)
      BY <1>1, <2>1 DEF Executes
    <2> HIDE DEF i, c
    <2>5. i.op = "CMP" /\ i.mode = 0
      BY <1>1 DEF i
    <2>6. i.sz \in Size /\ i.reg \in 0 .. 7 /\ i.dn \in 0 .. 7 /\ c \in State
      BY <2>2, Fields, Starts
    <2>7. makeEARead(c, i.mode, i.reg, i.sz) = At(c, s)
      BY <2>3, <2>5 DEF makeEARead
    <2>8. e = Spend(setCCR(c, f), t)
      BY <2>3, <2>4, <2>7 DEF makeCMP, Compared, At
    <2>9. cpu.D[i.reg] \in Int /\ cpu.D[i.dn] \in Int
      BY <2>3, <2>6, StateFields, Zenon
    <2>10. s \in 0 .. Top(i.sz) - 1 /\ d \in 0 .. Top(i.sz) - 1
      BY <2>6, <2>9, LowOK
    <2> HIDE DEF s, d, t
    <2>11. TellsOrder(f, s, d, i.sz)
      BY <2>6, <2>10, CompareOrders
    <2>12. e.ccr = f
      BY <2>6, <2>8 DEF Spend, setCCR, State
    <2> QED
      BY <2>1, <2>11, <2>12 DEF s, d, i
  <1>2. Inv /\ [Next]_vars => [Told]_vars
    BY <1>1
  <1> HIDE DEF Told
  <1> QED
    BY <1>2, InvariantHolds, PTL DEF Spec, ConditionsHold, Told

\* The register and the flags that wide leaves when the source is a register.
LEMMA WideEffect ==
  ASSUME NEW c \in State, NEW r \in 0 .. 7, NEW v \in Int, NEW f \in SUBSET CCRBits, NEW t \in Nat
  PROVE  LET d == Spend(setCCR(setD(c, r, 4, v), f), t)
         IN d.D[r] = Low(v, 4) /\ d.ccr = f /\ d.trap = c.trap
  <1> DEFINE l == 4
             e == setD(c, r, l, v)
             g == setCCR(e, f)
             d == Spend(g, t)
  <1>1. l \in Size
    BY DEF Size
  <1>2. c.D \in [0 .. 7 -> Register] /\ c.D[r] \in 0 .. Top(4) - 1 /\ Top(4) \in Nat
    BY StateFields, RegisterRange, Zenon DEF Registers
  <1>3. Low(c.D[r], l) = c.D[r] /\ Low(v, l) \in Int /\ c.D[r] \in Int
    <2> DEFINE x == c.D[r]
    <2>1. x \in 0 .. Top(l) - 1 /\ x \in Int
      BY <1>2
    <2> HIDE DEF l, x
    <2>2. Low(x, l) = x /\ Low(v, l) \in 0 .. Top(l) - 1 /\ Top(l) \in Nat
      BY <1>1, <2>1, LowSame, LowOK, Positive
    <2> QED
      BY <2>1, <2>2 DEF x
  <1>4. e.D[r] = c.D[r] - Low(c.D[r], l) + Low(v, l)
    BY <1>2 DEF setD, State
  <1>5. e.D[r] = Low(v, l)
    BY <1>3, <1>4
  <1>6. e \in State /\ e.trap = c.trap
    <2> HIDE DEF l
    <2> QED
      BY <1>1, setDOK, Zenon
  <1> HIDE DEF e
  <1>7. g \in State /\ g.D = e.D /\ g.ccr = f /\ g.trap = c.trap
    BY <1>6, setCCROK
  <1> HIDE DEF g
  <1>8. d.D = g.D /\ d.ccr = g.ccr /\ d.trap = g.trap
    BY <1>7 DEF Spend, State
  <1> QED
    BY <1>5, <1>7, <1>8 DEF l, e, g

LEMMA WideHandlers ==
  ASSUME NEW c \in Started, NEW i, Encodable(i), i.mode = 0
  PROVE  LET s == Low(c.D[i.reg], 2)
             n == c.D[i.dn]
         IN /\ makeMULU(c, i).D[i.dn] = Low(mulu(c.ccr, s, n).v, 4)
            /\ makeMULS(c, i).D[i.dn] = Low(muls(c.ccr, s, n).v, 4)
            /\ s # 0 => /\ makeDIVU(c, i).D[i.dn] = Low(divu(c.ccr, s, n).v, 4)
                        /\ makeDIVU(c, i).ccr = divu(c.ccr, s, n).f
                        /\ makeDIVS(c, i).D[i.dn] = Low(divs(c.ccr, s, n).v, 4)
                        /\ makeDIVS(c, i).ccr = divs(c.ccr, s, n).f
            /\ s = 0 => \A d \in {makeDIVU(c, i), makeDIVS(c, i)} :
                          d.trap = 5 /\ d.D = c.D /\ d.ccr = c.ccr
            /\ s \in 0 .. Top(2) - 1 /\ n \in 0 .. Top(4) - 1 /\ c.D[i.reg] \in Int
  <1> DEFINE z == 2
             s == Low(c.D[i.reg], z)
             n == c.D[i.dn]
             q == FetchCost(i, z)
             End(o, t) == Spend(setCCR(setD(c, i.dn, 4, o.v), o.f), t)
             m == 70 + q
             mu == 140 + q
             ms == 158 + q
  <1>1. i.dn \in 0 .. 7 /\ i.reg \in 0 .. 7 /\ Operands(i.mode, i.reg) /\ c.ccr \in SUBSET CCRBits
    BY Fields, Starts, Zenon
  <1>2. c \in State /\ z \in Size
    BY DEF Started, Size
  <1>3. makeEARead(c, i.mode, i.reg, 2) = At(c, s)
    BY DEF makeEARead
  <1>4. /\ makeMULU(c, i) = End(mulu(c.ccr, s, n), m)
        /\ makeMULS(c, i) = End(muls(c.ccr, s, n), m)
        /\ s # 0 => /\ makeDIVU(c, i) = End(divu(c.ccr, s, n), mu)
                    /\ makeDIVS(c, i) = End(divs(c.ccr, s, n), ms)
        /\ s = 0 => makeDIVU(c, i) = exception(c, 5) /\ makeDIVS(c, i) = exception(c, 5)
    <2> DEFINE a == makeEARead(c, i.mode, i.reg, 2)
    <2>1. a.c = c /\ a.v = s
      BY <1>3 DEF At
    <2> HIDE DEF a, s
    <2> QED
      BY <2>1, Zenon DEF makeMULU, makeMULS, makeDIVU, makeDIVS, ByZero, ZeroDivide, wide, a
  <1>5. exception(c, 5).trap = 5 /\ exception(c, 5).D = c.D /\ exception(c, 5).ccr = c.ccr
    BY <1>2 DEF exception, State
  <1>6. c.D[i.reg] \in Int /\ n \in 0 .. Top(4) - 1 /\ n \in Int
    BY <1>1, <1>2, StateFields, RegisterRange, Zenon
  <1> HIDE DEF z
  <1>7. s \in 0 .. Top(z) - 1 /\ s \in Int
    BY <1>2, <1>6, LowOK, LowInt
  <1>8. q \in Nat
    BY <1>1, <1>2, Source
  <1> HIDE DEF s, n, q
  <1>9. m \in Nat /\ mu \in Nat /\ ms \in Nat
    BY <1>8
  <1> HIDE DEF m, mu, ms
  <1>10. \A o : \A t \in Nat : Result(o) => End(o, t).D[i.dn] = Low(o.v, 4) /\ End(o, t).ccr = o.f
    <2> SUFFICES ASSUME NEW o, NEW t \in Nat, Result(o)
                 PROVE  End(o, t).D[i.dn] = Low(o.v, 4) /\ End(o, t).ccr = o.f
      OBVIOUS
    <2>1. o.v \in Int /\ o.f \in SUBSET CCRBits
      BY DEF Result
    <2> QED
      BY <1>1, <1>2, <2>1, WideEffect
  <1> HIDE DEF End
  <1>11. /\ makeMULU(c, i).D[i.dn] = Low(mulu(c.ccr, s, n).v, 4)
         /\ makeMULS(c, i).D[i.dn] = Low(muls(c.ccr, s, n).v, 4)
    BY <1>1, <1>4, <1>6, <1>7, <1>9, <1>10, Products
  <1>12. ASSUME s # 0
         PROVE  /\ makeDIVU(c, i).D[i.dn] = Low(divu(c.ccr, s, n).v, 4)
                /\ makeDIVU(c, i).ccr = divu(c.ccr, s, n).f
                /\ makeDIVS(c, i).D[i.dn] = Low(divs(c.ccr, s, n).v, 4)
                /\ makeDIVS(c, i).ccr = divs(c.ccr, s, n).f
    <2>1. s \in 1 .. Top(2) - 1
      <3>1. Top(2) \in Int
        BY Positive DEF Size
      <3> QED
        BY <1>7, <1>12, <3>1 DEF z
    <2> QED
      BY <1>1, <1>4, <1>6, <1>9, <1>10, <1>12, <2>1, Quotients
  <1> QED
    BY <1>4, <1>5, <1>6, <1>7, <1>11, <1>12, Zenon DEF s, n, z

\* MULU, MULS, DIVU and DIVS on registers: the product is exact; the quotient
\* and remainder are the truncated ones, V is set exactly when no word holds the
\* quotient, and then, as for a zero divisor, the register is kept.
THEOREM WideIsExact == Spec => WideExact
  <1> DEFINE Exact ==
        LET i == ran'.i
            signed == i.op \in {"MULS", "DIVS"}
            Val(v, sz) == IF signed THEN Signed(v, sz) ELSE Low(v, sz)
            s == Val(cpu.D[i.reg], 2)
            n == Val(cpu.D[i.dn], 4)
            new == cpu'.D[i.dn]
            Quotient(q, r) == /\ n = s * q + r /\ Magnitude(r) < Magnitude(s)
                              /\ r = 0 \/ (r < 0) = (n < 0)
        IN i.mode = 0 =>
           /\ i.op \in {"MULU", "MULS"} => Val(new, 4) = s * Val(cpu.D[i.dn], 2)
           /\ i.op \in {"DIVU", "DIVS"} =>
                IF s = 0 THEN cpu'.trap = 5 /\ new = cpu.D[i.dn] /\ cpu'.ccr = cpu.ccr
                ELSE IF flagV \notin cpu'.ccr
                THEN Quotient(Val(new, 2), Val(new \div Top(2), 2))
                ELSE /\ new = cpu.D[i.dn]
                     /\ \A w \in 0 .. Top(2) - 1 : ~Quotient(Val(w, 2), n - s * Val(w, 2))
  <1>1. ASSUME Inv, Next, ran'.i.mode = 0 PROVE Exact
    <2> DEFINE i == ran'.i
               c == Fetched(ran'.words)
               v == cpu.D[i.reg]
               s == Low(v, 2)
               n == cpu.D[i.dn]
               new == cpu'.D[i.dn]
    <2>1. PICK e \in State :
            Executes(c, e, i) /\ cpu'.D = e.D /\ cpu'.ccr = e.ccr /\ cpu'.trap = e.trap
      BY <1>1, Computed
    <2>2. c \in Started /\ Encodable(i)
      BY <1>1, StepEffect
    <2>3. c.D = cpu.D /\ c.ccr = cpu.ccr
      BY <1>1, FetchedFields
    <2>4. i.mode = 0
      BY <1>1
    <2> HIDE DEF i, c
    <2>5. /\ i.op = "MULU" => new = Low(mulu(cpu.ccr, s, n).v, 4)
          /\ i.op = "MULS" => new = Low(muls(cpu.ccr, s, n).v, 4)
          /\ s # 0 => /\ i.op = "DIVU" => /\ new = Low(divu(cpu.ccr, s, n).v, 4)
                                          /\ cpu'.ccr = divu(cpu.ccr, s, n).f
                      /\ i.op = "DIVS" => /\ new = Low(divs(cpu.ccr, s, n).v, 4)
                                          /\ cpu'.ccr = divs(cpu.ccr, s, n).f
          /\ s = 0 /\ i.op \in {"DIVU", "DIVS"} => cpu'.trap = 5 /\ new = n /\ cpu'.ccr = cpu.ccr
          /\ s \in 0 .. Top(2) - 1 /\ n \in 0 .. Top(4) - 1 /\ v \in Int
      <3> DEFINE u == Low(c.D[i.reg], 2)
                 w == c.D[i.dn]
      <3>1. /\ makeMULU(c, i).D[i.dn] = Low(mulu(c.ccr, u, w).v, 4)
            /\ makeMULS(c, i).D[i.dn] = Low(muls(c.ccr, u, w).v, 4)
            /\ u # 0 => /\ makeDIVU(c, i).D[i.dn] = Low(divu(c.ccr, u, w).v, 4)
                        /\ makeDIVU(c, i).ccr = divu(c.ccr, u, w).f
                        /\ makeDIVS(c, i).D[i.dn] = Low(divs(c.ccr, u, w).v, 4)
                        /\ makeDIVS(c, i).ccr = divs(c.ccr, u, w).f
            /\ u = 0 => \A d \in {makeDIVU(c, i), makeDIVS(c, i)} :
                          d.trap = 5 /\ d.D = c.D /\ d.ccr = c.ccr
            /\ u \in 0 .. Top(2) - 1 /\ w \in 0 .. Top(4) - 1 /\ c.D[i.reg] \in Int
        BY <2>2, <2>4, WideHandlers, Zenon
      <3>2. u = s /\ w = n /\ e.D[i.dn] = new /\ c.D[i.dn] = n /\ c.D[i.reg] = v
        BY <2>1, <2>3, Zenon
      <3> HIDE DEF u, w, s, n, new, v
      <3>3. /\ i.op = "MULU" => e = makeMULU(c, i)
            /\ i.op = "MULS" => e = makeMULS(c, i)
            /\ i.op = "DIVU" => e = makeDIVU(c, i)
            /\ i.op = "DIVS" => e = makeDIVS(c, i)
        BY <2>1, Zenon DEF Executes
      <3>4. s = 0 /\ i.op \in {"DIVU", "DIVS"} => cpu'.trap = 5 /\ new = n /\ cpu'.ccr = cpu.ccr
        BY <2>1, <2>3, <3>1, <3>2, <3>3, Zenon
      <3> QED
        BY <2>1, <2>3, <3>1, <3>2, <3>3, <3>4, Zenon
    <2> HIDE DEF v, n, new, s
    <2>6. /\ n \in Int /\ Top(2) \in Nat /\ Low(n, 4) = n /\ Low(s, 2) = s
          /\ s # 0 => s \in 1 .. Top(2) - 1
      <3>1. s \in 0 .. Top(2) - 1 /\ n \in 0 .. Top(4) - 1 /\ 2 \in Size /\ 4 \in Size
        BY <2>5, Zenon DEF Size
      <3>2. Low(n, 4) = n /\ Low(s, 2) = s
        BY <3>1, LowSame, Zenon
      <3>3. Top(2) \in Nat /\ Top(4) \in Nat
        BY <3>1, Positive
      <3> QED
        BY <3>1, <3>2, <3>3
    <2>7. Signed(s, 2) = Signed(v, 2)
      BY <2>5, SignedLow, Zenon DEF Size, s
    <2>8. s = 0 <=> Signed(v, 2) = 0
      BY <2>5, SignedZero, Zenon DEF s
    <2>9. CASE i.op = "MULU"
      <3>1. Low(new, 4) = s * Low(n, 2)
        BY <2>5, <2>6, <2>9, ProductsExact DEF s
      <3> QED
        BY <2>9, <3>1, Zenon DEF i, n, new, v, s
    <2>10. CASE i.op = "MULS"
      <3>1. Signed(new, 4) = Signed(v, 2) * Signed(n, 2)
        BY <2>5, <2>6, <2>10, ProductsExact DEF s
      <3> QED
        BY <2>10, <3>1, Zenon DEF i, n, new, v, s
    <2>11. CASE i.op = "DIVU"
      <3>1. CASE s = 0
        BY <2>5, <2>11, <3>1, Zenon DEF i, n, new, v, s
      <3>2. CASE s # 0
        <4>1. s \in 1 .. Top(2) - 1
          BY <2>6, <3>2, Zenon
        <4>2. IF flagV \notin cpu'.ccr THEN Truncates(n, s, Low(new, 2), Low(new \div Top(2), 2))
              ELSE /\ new = n
                   /\ \A w \in 0 .. Top(2) - 1 : ~Truncates(n, s, Low(w, 2), n - s * Low(w, 2))
          BY <2>5, <2>11, <3>2, <4>1, DivuExact, Zenon
        <4> QED
          BY <2>6, <2>11, <3>2, <4>2, Zenon DEF i, n, new, v, s, Truncates
      <3> QED
        BY <3>1, <3>2, Zenon
    <2>12. CASE i.op = "DIVS"
      <3>1. CASE s = 0
        BY <2>5, <2>8, <2>12, <3>1, Zenon DEF i, n, new, v, s
      <3>2. CASE s # 0
        <4> DEFINE x == Signed(v, 2)
                   y == Signed(n, 4)
        <4>1. s \in 1 .. Top(2) - 1
          BY <2>6, <3>2, Zenon
        <4>2. IF flagV \notin cpu'.ccr THEN Truncates(y, x, Signed(new, 2), Signed(new \div Top(2), 2))
              ELSE /\ new = n
                   /\ \A w \in 0 .. Top(2) - 1 : ~Truncates(y, x, Signed(w, 2), y - x * Signed(w, 2))
          BY <2>5, <2>7, <2>12, <3>2, <4>1, DivsExact
        <4> QED
          BY <2>8, <2>12, <3>2, <4>2, Zenon DEF i, n, new, v, s, Truncates
      <3> QED
        BY <3>1, <3>2, Zenon
    <2>13. CASE i.op \notin {"MULU", "MULS", "DIVU", "DIVS"}
      BY <2>13, Zenon DEF i, n, new, v, s
    <2> QED
      BY <2>9, <2>10, <2>11, <2>12, <2>13, Zenon
  <1>2. ASSUME ran'.i.mode # 0 PROVE Exact
    BY <1>2, Zenon
  <1> HIDE DEF Exact
  <1>3. Inv /\ [Next]_vars => [Exact]_vars
    BY <1>1, <1>2
  <1> QED
    BY <1>3, InvariantHolds, PTL DEF Spec, WideExact, Exact
===============================================================================
