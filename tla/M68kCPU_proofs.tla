--------------------------- MODULE M68kCPU_proofs ---------------------------
(*****************************************************************************)
(* The control path for every register and bus width, board, program and   *)
(* set of devices: types, the two stack pointers, and how supervisor mode  *)
(* is entered.  A lemma per primitive and per group of handlers says that  *)
(* it maps a CPU to a CPU; StepType puts them together.                    *)
(*****************************************************************************)
EXTENDS M68kCPU, TLAPS

-----------------------------------------------------------------------------
(***************************************************************************)
(* Types of the primitives.                                                *)
(***************************************************************************)
LEMMA AddType == ASSUME NEW x \in Int, NEW k \in Int PROVE Add(x, k) \in Addr
  BY Widths DEF Widths, Add, Addr

LEMMA AddrInt == Addr \subseteq Int /\ 0 \in Addr /\ 7 \in AReg
  BY Widths, Board DEF Widths, Board, Addr

LEMMA Fields ==
  ASSUME NEW c \in CPU
  PROVE  /\ c.pc \in Addr /\ c.prevPC \in Addr /\ c.sr \in Word
         /\ c.A \in [AReg -> Addr] /\ c.usp \in Addr /\ c.ssp \in Addr
         /\ c.stopped \in BOOLEAN /\ c.halted \in BOOLEAN
         /\ c.pendingIPL \in 0 .. 7 /\ c.pendingVec \in {nil} \cup (0 .. 255)
         /\ c.bus \in [RAM -> Cell]
  BY DEF CPU

LEMMA SetPC == ASSUME NEW c \in CPU, NEW v \in Addr PROVE [c EXCEPT !.pc = v] \in CPU
  BY DEF CPU
LEMMA SetWord == ASSUME NEW c \in CPU, NEW w \in Word PROVE [c EXCEPT !.sr = w] \in CPU
  BY DEF CPU
LEMMA SetHalted == ASSUME NEW c \in CPU, NEW h \in BOOLEAN PROVE [c EXCEPT !.halted = h] \in CPU
  BY DEF CPU
LEMMA SetA ==
  ASSUME NEW c \in CPU, NEW r \in AReg, NEW v \in Addr
  PROVE  [c EXCEPT !.A[r] = v] \in CPU
  BY DEF CPU

LEMMA SetStopped ==
  ASSUME NEW c \in CPU, NEW a \in Addr, NEW h \in BOOLEAN
  PROVE  [c EXCEPT !.stopped = h, !.pc = a] \in CPU /\ [c EXCEPT !.pc = a, !.stopped = h] \in CPU
  <1>1. [c EXCEPT !.stopped = h, !.pc = a] \in CPU
    BY Zenon DEF CPU
  <1>2. [c EXCEPT !.pc = a, !.stopped = h] \in CPU
    BY Zenon DEF CPU
  <1> QED
    BY <1>1, <1>2
LEMMA SetRequest ==
  ASSUME NEW c \in CPU, NEW l \in 0 .. 7, NEW v \in {nil} \cup (0 .. 255), NEW w \in Word
  PROVE  /\ [c EXCEPT !.pendingIPL = l, !.pendingVec = v] \in CPU
         /\ [c EXCEPT !.pendingIPL = l, !.pendingVec = v, !.sr = w] \in CPU
  <1>1. [c EXCEPT !.pendingIPL = l, !.pendingVec = v] \in CPU
    BY ZenonT(60) DEF CPU
  <1>2. [c EXCEPT !.pendingIPL = l, !.pendingVec = v, !.sr = w] \in CPU
    BY ZenonT(60) DEF CPU
  <1> QED
    BY <1>1, <1>2

LEMMA AccessedType == ASSUME NEW c \in CPU, NEW a \in Int PROVE Accessed(c, a) \in CPU
  <1>1. (c.halted \/ a % 2 # 0) \in BOOLEAN
    OBVIOUS
  <1> QED
    BY <1>1, SetHalted, Zenon DEF Accessed

LEMMA SetBus ==
  ASSUME NEW c \in CPU, NEW h \in BOOLEAN, NEW b \in [RAM -> Cell]
  PROVE  [c EXCEPT !.halted = h, !.bus = b] \in CPU
  BY Zenon DEF CPU

LEMMA WriteWordType ==
  ASSUME NEW c \in CPU, NEW a \in Int, NEW w \in Word PROVE WriteWord(c, a, w) \in CPU
  <1>1. (c.halted \/ a % 2 # 0) \in BOOLEAN
    OBVIOUS
  <1>2. WordCell(w) \in Cell
    BY AddrInt DEF WordCell, Cell
  <1>3. [p \in RAM |-> IF Live(c, a) /\ p = a % BusMod THEN WordCell(w) ELSE c.bus[p]] \in [RAM -> Cell]
    BY <1>2, Fields
  <1> QED
    BY <1>1, <1>3, SetBus, Zenon DEF WriteWord

LEMMA WriteLongType ==
  ASSUME NEW c \in CPU, NEW a \in Int, NEW v \in Addr PROVE WriteLong(c, a, v) \in CPU
  <1>1. (c.halted \/ a % 2 # 0) \in BOOLEAN
    OBVIOUS
  <1>2. HalfCell("hi", v) \in Cell /\ HalfCell("lo", v) \in Cell
    BY DEF HalfCell, Cell, Word
  <1>3. [p \in RAM |-> IF Live(c, a) /\ p = a % BusMod THEN HalfCell("hi", v)
                       ELSE IF Live(c, a) /\ p = (a + 2) % BusMod THEN HalfCell("lo", v)
                       ELSE c.bus[p]] \in [RAM -> Cell]
    BY <1>2, Fields
  <1> QED
    BY <1>1, <1>3, SetBus, Zenon DEF WriteLong

LEMMA PushType ==
  ASSUME NEW c \in CPU
  PROVE  /\ \A w \in Word : pushWord(c, w) \in CPU
         /\ \A v \in Addr : pushLong(c, v) \in CPU
  <1>0. c.A[7] \in Int
    <2>1. c.A[7] \in Addr
      BY Fields, AddrInt
    <2> QED
      BY <2>1, AddrInt, Zenon
  <1>1. Add(c.A[7], -2) \in Addr /\ Add(c.A[7], -4) \in Addr
    BY <1>0, AddType
  <1>2. [c EXCEPT !.A[7] = Add(c.A[7], -2)] \in CPU /\ [c EXCEPT !.A[7] = Add(c.A[7], -4)] \in CPU
    BY <1>1, SetA, AddrInt
  <1> QED
    BY <1>1, <1>2, WriteWordType, WriteLongType, AddrInt DEF pushWord, pushLong

LEMMA PoppedType == ASSUME NEW c \in CPU, NEW n \in Int PROVE popped(c, n) \in CPU
  <1>1. Accessed(c, c.A[7]) \in CPU
    BY AccessedType, AddrInt, Fields, Zenon
  <1>2. Add(Accessed(c, c.A[7]).A[7], n) \in Addr
    BY <1>1, AddType, AddrInt, Fields, Zenon
  <1> QED
    BY <1>1, <1>2, SetA, AddrInt, Zenon DEF popped

LEMMA FetchType == ASSUME NEW c \in CPU PROVE fetchPC(c) \in CPU /\ fetchPCLong(c) \in CPU
  <1>1. c.pc \in Int
    BY Fields, AddrInt, Zenon
  <1>2. Add(c.pc, 2) \in Addr /\ Add(c.pc, 4) \in Addr
    BY <1>1, AddType
  <1> QED
    BY <1>2, SetPC DEF fetchPC, fetchPCLong

LEMMA ReadType ==
  ASSUME NEW c \in CPU, NEW a \in Int
  PROVE  /\ \A j \in Word : ReadWord(c, a, j) \in Word
         /\ \A j \in Addr : ReadLong(c, a, j) \in Addr
         /\ \A v \in 0 .. 255 : ReadVector(c, v) \in Addr
  <1>1. \A p \in RAM : c.bus[p] \in Cell
    BY Fields
  <1>2. \A p \in RAM : c.bus[p].word \in Word /\ c.bus[p].long \in Addr
    BY <1>1 DEF Cell
  <1>3. ASSUME NEW j \in Word PROVE ReadWord(c, a, j) \in Word
    BY <1>2 DEF ReadWord, Word
  <1>4. ASSUME NEW j \in Addr PROVE ReadLong(c, a, j) \in Addr
    BY <1>2, AddrInt DEF ReadLong
  <1>5. ASSUME NEW v \in 0 .. 255 PROVE ReadVector(c, v) \in Addr
    BY AddrInt, Board, Zenon DEF ReadVector, Board
  <1> QED
    BY <1>3, <1>4, <1>5

LEMMA SetSRType == ASSUME NEW c \in CPU, NEW w \in Word PROVE setSR(c, w) \in CPU /\ setCCR(c, w) \in CPU
  <1>1. setCCR(c, w) \in CPU
    <2>1. (c.sr \ CCRBits) \cup (w \cap CCRBits) \in Word
      BY Fields, Zenon DEF Word
    <2> QED
      BY <2>1, SetWord DEF setCCR
  <1>2. setSR(c, w) \in CPU
    <2>1. w \cap ValidSR \in Word
      BY Zenon DEF Word
    <2>2. ASSUME NEW s \in Addr, NEW u \in Addr, NEW a \in Addr, NEW v \in Word
          PROVE  [c EXCEPT !.ssp = s, !.usp = u, !.A[7] = a, !.sr = v] \in CPU
      BY AddrInt, Zenon DEF CPU
    <2>3. c.A[7] \in Addr /\ c.usp \in Addr /\ c.ssp \in Addr
      BY Fields, AddrInt
    <2> QED
      BY <2>1, <2>2, <2>3, Zenon DEF setSR
  <1> QED
    BY <1>1, <1>2

LEMMA FlagsType == ASSUME NEW c \in CPU, NEW w PROVE setFlagsLogical(c, w) \in CPU
  <1>1. (c.sr \ {flagN, flagZ, flagV, flagC})
          \cup {f \in {flagZ} : w = {}} \cup {f \in {flagN} : 15 \in w} \in Word
    BY Fields DEF Word, flagN, flagZ
  <1> QED
    BY <1>1, SetWord DEF setFlagsLogical

LEMMA InstrFields ==
  ASSUME NEW i \in Instr
  PROVE  /\ i.r \in AReg /\ i.n \in 0 .. 15 /\ i.w \in Word /\ i.k \in Int /\ i.q \in Word
         /\ i.yes \in BOOLEAN
  BY DEF Instr

LEMMA AType == ASSUME NEW c \in CPU, NEW r \in AReg PROVE c.A[r] \in Addr /\ c.A[r] \in Int
  <1>1. c.A[r] \in Addr
    BY Fields
  <1> QED
    BY <1>1, AddrInt, Zenon

LEMMA PCInt == ASSUME NEW c \in CPU PROVE c.pc \in Addr /\ c.pc \in Int
  BY Fields, AddrInt, Zenon

LEMMA eaAddrType == ASSUME NEW c \in CPU, NEW i \in Instr PROVE eaAddr(c, i) \in Addr
  <1>1. i.r \in AReg /\ i.k \in Int
    BY InstrFields
  <1>2. c.A[i.r] \in Addr /\ Add(c.A[i.r], -2) \in Addr /\ Add(c.A[i.r], i.k) \in Addr
    BY <1>1, AType, AddType
  <1>3. Add(0, i.k) \in Addr /\ Add(c.pc, i.k) \in Addr
    BY <1>1, PCInt, AddType
  <1> QED
    BY <1>2, <1>3 DEF eaAddr

LEMMA eaDoneType == ASSUME NEW c \in CPU, NEW i \in Instr PROVE eaDone(c, i) \in CPU
  <1>1. i.r \in AReg
    BY InstrFields
  <1>2. Add(c.A[i.r], 2) \in Addr /\ Add(c.A[i.r], -2) \in Addr
    BY <1>1, AType, AddType
  <1>3. /\ [c EXCEPT !.A[i.r] = Add(c.A[i.r], 2)] \in CPU
        /\ [c EXCEPT !.A[i.r] = Add(c.A[i.r], -2)] \in CPU
    BY <1>1, <1>2, SetA
  <1>4. fetchPC(c) \in CPU /\ fetchPCLong(c) \in CPU
    BY FetchType
  <1> QED
    BY <1>3, <1>4 DEF eaDone

LEMMA eaReadType ==
  ASSUME NEW c \in CPU, NEW i \in Instr, NEW j \in Word
  PROVE  eaRead(c, i) \in CPU /\ eaValue(c, i, j) \in Word
  <1>1. eaDone(c, i) \in CPU /\ eaAddr(c, i) \in Int
    BY eaDoneType, eaAddrType, AddrInt, Zenon
  <1>2. Accessed(eaDone(c, i), eaAddr(c, i)) \in CPU
    BY <1>1, AccessedType
  <1>3. ReadWord(eaDone(c, i), eaAddr(c, i), j) \in Word
    BY <1>1, ReadType
  <1> QED
    BY <1>1, <1>2, <1>3, InstrFields DEF eaRead, eaValue

LEMMA stackFrameType ==
  ASSUME NEW c \in CPU, NEW pc \in Addr, NEW sr \in Word PROVE stackFrame(c, pc, sr) \in CPU
  BY PushType DEF stackFrame

LEMMA enterType == ASSUME NEW c \in CPU PROVE enterSupervisor(c) \in CPU
  <1>1. ASSUME NEW u \in Addr, NEW a \in Addr, NEW v \in Word
        PROVE  [c EXCEPT !.usp = u, !.A[7] = a, !.sr = v] \in CPU
    BY AddrInt, Zenon DEF CPU
  <1>2. c.A[7] \in Addr /\ c.usp \in Addr /\ c.ssp \in Addr
    BY Fields, AddrInt
  <1>3. (c.sr \cup {flagS}) \ {flagT} \in Word
    BY Fields DEF Word, flagS
  <1> QED
    BY <1>1, <1>2, <1>3, Zenon DEF enterSupervisor

LEMMA exceptionType ==
  ASSUME NEW c \in CPU, NEW v \in 0 .. 255 PROVE exception(c, v) \in CPU
  <1> DEFINE pushPC == IF v \in {vecIllegalInstruction, vecPrivilegeViolation, vecLineA, vecLineF}
                       THEN c.prevPC ELSE c.pc
             s == stackFrame(enterSupervisor(c), pushPC, c.sr)
             first == ReadVector(s, v)
             addr == IF first = 0 THEN ReadVector(s, vecUninitialized) ELSE first
  <1>1. pushPC \in Addr /\ c.sr \in Word
    BY Fields
  <1>2. s \in CPU
    <2> HIDE DEF pushPC
    <2> QED
      BY <1>1, enterType, stackFrameType
  <1>3. addr \in Addr
    <2> HIDE DEF s
    <2> QED
      BY <1>2, ReadType DEF vecUninitialized
  <1>4. [s EXCEPT !.halted = TRUE] \in CPU /\ [s EXCEPT !.pc = addr] \in CPU
    <2> HIDE DEF s, addr
    <2> QED
      BY <1>2, <1>3, SetHalted, SetPC, Zenon
  <1>5. exception(c, v) = IF addr = 0 THEN [s EXCEPT !.halted = TRUE] ELSE [s EXCEPT !.pc = addr]
    BY DEF exception
  <1> HIDE DEF s, addr
  <1> QED
    BY <1>4, <1>5

LEMMA LevelBitsType == ASSUME NEW l PROVE LevelBits(l) \subseteq MaskBits
  BY DEF LevelBits, MaskBits

LEMMA processInterruptType ==
  ASSUME NEW c \in CPU PROVE processInterrupt(c) \in CPU
  <1> DEFINE level == c.pendingIPL
             e == [enterSupervisor(c) EXCEPT !.pendingIPL = 0, !.pendingVec = nil,
                                             !.sr = (@ \ MaskBits) \cup LevelBits(level)]
             s == stackFrame(e, c.pc, c.sr)
             v == IF c.pendingVec # nil THEN c.pendingVec ELSE 24 + level
             first == ReadVector(s, v)
             addr == IF first = 0 THEN ReadVector(s, vecSpuriousInterrupt) ELSE first
  <1>1. e \in CPU
    <2>1. enterSupervisor(c) \in CPU
      BY enterType
    <2>2. (enterSupervisor(c).sr \ MaskBits) \cup LevelBits(level) \in Word
      BY <2>1, Fields, LevelBitsType DEF Word, MaskBits
    <2>3. ASSUME NEW x \in CPU, NEW w \in Word
          PROVE  [x EXCEPT !.pendingIPL = 0, !.pendingVec = nil, !.sr = w] \in CPU
      <3>1. 0 \in 0 .. 7 /\ nil \in {nil} \cup (0 .. 255)
        OBVIOUS
      <3> QED
        BY <3>1, SetRequest, Zenon
    <2> QED
      BY <2>1, <2>2, <2>3, Zenon
  <1>2. s \in CPU
    <2> HIDE DEF e
    <2> QED
      BY <1>1, Fields, stackFrameType
  <1>3. v \in 0 .. 255
    BY Fields
  <1>4. addr \in Addr
    <2> HIDE DEF s, v
    <2> QED
      BY <1>2, <1>3, ReadType DEF vecSpuriousInterrupt
  <1>5. processInterrupt(c) = [s EXCEPT !.pc = addr, !.stopped = FALSE]
    BY DEF processInterrupt
  <1> HIDE DEF s, addr
  <1> QED
    BY <1>2, <1>4, <1>5, SetStopped, Zenon

LEMMA PopType ==
  ASSUME NEW c \in CPU, NEW jw \in Word, NEW jl \in Addr
  PROVE  /\ popped(c, 2) \in CPU /\ ReadWord(c, c.A[7], jw) \in Word
         /\ popped(c, 4) \in CPU /\ ReadLong(c, c.A[7], jl) \in Addr
  <1>1. c.A[7] \in Int
    BY AddrInt, AType
  <1>2. ReadWord(c, c.A[7], jw) \in Word
    BY <1>1, ReadType
  <1>3. ReadLong(c, c.A[7], jl) \in Addr
    BY <1>1, ReadType
  <1> QED
    BY <1>2, <1>3, PoppedType

-----------------------------------------------------------------------------
(***************************************************************************)
(* Types of the handlers.                                                  *)
(***************************************************************************)
LEMMA PrivilegedType ==
  ASSUME NEW c \in CPU, NEW d \in CPU PROVE Privileged(c, d) \in CPU
  <1>1. exception(c, vecPrivilegeViolation) \in CPU
    BY exceptionType DEF vecPrivilegeViolation
  <1> QED
    BY <1>1 DEF Privileged

LEMMA ControlTypes ==
  ASSUME NEW c \in CPU, NEW i \in Instr, NEW jw \in Word, NEW jl \in Addr
  PROVE  /\ opSTOP(c, i) \in CPU /\ opRESET(c) \in CPU
         /\ opTRAP(c, i) \in CPU /\ opTRAPV(c) \in CPU
         /\ opLINK(c, i) \in CPU /\ opUNLK(c, i, jl) \in CPU
  <1>0. /\ i.r \in AReg /\ i.n \in 0 .. 15 /\ i.w \in Word /\ i.k \in Int
        /\ 7 \in AReg /\ fetchPC(c) \in CPU
    BY InstrFields, AddrInt, FetchType
  <1>1. opSTOP(c, i) \in CPU
    <2>1. setSR(fetchPC(c), i.w) \in CPU /\ c.prevPC \in Addr
      BY <1>0, SetSRType, Fields
    <2>2. [setSR(fetchPC(c), i.w) EXCEPT !.stopped = TRUE, !.pc = c.prevPC] \in CPU
      BY <2>1, SetStopped, Zenon
    <2> QED
      BY <2>2, PrivilegedType DEF opSTOP
  <1>2. opRESET(c) \in CPU
    BY PrivilegedType DEF opRESET
  <1>3. opTRAP(c, i) \in CPU /\ opTRAPV(c) \in CPU
    <2>1. i.n + vecTrap0 \in 0 .. 255 /\ vecTRAPV \in 0 .. 255
      BY <1>0 DEF vecTrap0, vecTRAPV
    <2> QED
      BY <2>1, exceptionType DEF opTRAP, opTRAPV
  <1>4. opLINK(c, i) \in CPU
    <2> DEFINE p == pushLong(fetchPC(c), c.A[i.r])
               f == [p EXCEPT !.A[i.r] = p.A[7]]
    <2>1. p \in CPU
      BY <1>0, AType, PushType
    <2>2. f \in CPU
      BY <1>0, <2>1, AType, SetA
    <2>3. [f EXCEPT !.A[7] = Add(f.A[7], i.k)] \in CPU
      <3> HIDE DEF f
      <3>1. Add(f.A[7], i.k) \in Addr
        BY <1>0, <2>2, AType, AddType
      <3> QED
        BY <1>0, <2>2, <3>1, SetA
    <2> QED
      BY <2>3 DEF opLINK
  <1>5. opUNLK(c, i, jl) \in CPU
    <2> DEFINE u == [c EXCEPT !.A[7] = c.A[i.r]]
    <2>1. u \in CPU
      BY <1>0, AType, SetA
    <2> HIDE DEF u
    <2>2. popped(u, 4) \in CPU /\ ReadLong(u, u.A[7], jl) \in Addr
      BY <2>1, PopType
    <2>3. [popped(u, 4) EXCEPT !.A[i.r] = ReadLong(u, u.A[7], jl)] \in CPU
      BY <1>0, <2>2, SetA
    <2> QED
      BY <2>3 DEF opUNLK, u
  <1> QED
    BY <1>1, <1>2, <1>3, <1>4, <1>5

LEMMA StatusTypes ==
  ASSUME NEW c \in CPU, NEW i \in Instr, NEW j \in Word
  PROVE  /\ opMOVEfromSR(c, i) \in CPU /\ opMOVEtoCCR(c, i, j) \in CPU
         /\ opMOVEtoSR(c, i, j) \in CPU
         /\ opMOVEtoUSP(c, i) \in CPU /\ opMOVEfromUSP(c, i) \in CPU
         /\ opANDItoCCR(c, i) \in CPU /\ opORItoCCR(c, i) \in CPU /\ opEORItoCCR(c, i) \in CPU
         /\ opANDItoSR(c, i) \in CPU /\ opORItoSR(c, i) \in CPU /\ opEORItoSR(c, i) \in CPU
  <1>0. /\ i.r \in AReg /\ i.w \in Word /\ c.sr \in Word /\ fetchPC(c) \in CPU
    BY InstrFields, FetchType, Fields
  <1>1. opMOVEfromSR(c, i) \in CPU
    <2>1. eaDone(c, i) \in CPU /\ eaAddr(c, i) \in Int
      BY eaDoneType, eaAddrType, AddrInt, Zenon
    <2>2. WriteWord(eaDone(c, i), eaAddr(c, i), c.sr) \in CPU
      BY <1>0, <2>1, WriteWordType
    <2> QED
      BY <2>2 DEF opMOVEfromSR
  <1>2. opMOVEtoCCR(c, i, j) \in CPU /\ opMOVEtoSR(c, i, j) \in CPU
    BY eaReadType, SetSRType, PrivilegedType DEF opMOVEtoCCR, opMOVEtoSR
  <1>3. opMOVEtoUSP(c, i) \in CPU
    <2>0. c.A[i.r] \in Addr
      BY <1>0, AType
    <2>1. [c EXCEPT !.usp = c.A[i.r]] \in CPU
      BY <2>0 DEF CPU
    <2> QED
      BY <2>1, PrivilegedType DEF opMOVEtoUSP
  <1>4. opMOVEfromUSP(c, i) \in CPU
    <2>1. [c EXCEPT !.A[i.r] = c.usp] \in CPU
      BY <1>0, Fields, SetA
    <2> QED
      BY <2>1, PrivilegedType DEF opMOVEfromUSP
  <1>5. /\ c.sr \cap i.w \in Word /\ c.sr \cup i.w \in Word
        /\ (c.sr \ i.w) \cup (i.w \ c.sr) \in Word
    BY <1>0 DEF Word
  <1>6. opANDItoCCR(c, i) \in CPU /\ opORItoCCR(c, i) \in CPU /\ opEORItoCCR(c, i) \in CPU
    BY <1>0, <1>5, SetSRType DEF opANDItoCCR, opORItoCCR, opEORItoCCR
  <1>7. opANDItoSR(c, i) \in CPU /\ opORItoSR(c, i) \in CPU /\ opEORItoSR(c, i) \in CPU
    BY <1>0, <1>5, SetSRType, PrivilegedType, Zenon DEF opANDItoSR, opORItoSR, opEORItoSR
  <1> QED
    BY <1>1, <1>2, <1>3, <1>4, <1>6, <1>7

LEMMA FlowTypes ==
  ASSUME NEW c \in CPU, NEW i \in Instr, NEW jw \in Word, NEW jl \in Addr
  PROVE  /\ opBcc(c, i) \in CPU /\ opBRA(c, i) \in CPU /\ opBSR(c, i) \in CPU
         /\ opDBcc(c, i) \in CPU /\ opJMP(c, i) \in CPU /\ opJSR(c, i) \in CPU
         /\ opRTS(c, jl) \in CPU /\ opRTE(c, jw, jl) \in CPU /\ opRTR(c, jw, jl) \in CPU
  <1>0. /\ i.k \in Int /\ 7 \in AReg
        /\ fetchPC(c) \in CPU /\ eaDone(c, i) \in CPU /\ eaAddr(c, i) \in Addr
    BY InstrFields, AddrInt, FetchType, eaDoneType, eaAddrType
  <1>1. /\ [c EXCEPT !.pc = Add(c.pc, i.k)] \in CPU
        /\ Add(c.pc, i.k) \in Addr
    BY <1>0, PCInt, AddType, SetPC
  <1>2. opBcc(c, i) \in CPU /\ opBRA(c, i) \in CPU
    BY <1>0, <1>1 DEF opBcc, opBRA
  <1>3. pushLong(eaDone(c, i), eaDone(c, i).pc) \in CPU
    BY <1>0, PCInt, PushType
  <1>4. opBSR(c, i) \in CPU /\ opJSR(c, i) \in CPU
    BY <1>0, <1>1, <1>3, SetPC DEF opBSR, opJSR
  <1>5. opDBcc(c, i) \in CPU
    <2>1. fetchPC(c).pc \in Int /\ i.k - 2 \in Int
      BY <1>0, PCInt
    <2>2. Add(fetchPC(c).pc, i.k - 2) \in Addr
      BY <2>1, AddType
    <2>3. [c EXCEPT !.pc = Add(fetchPC(c).pc, i.k - 2)] \in CPU
      BY <2>2, SetPC
    <2> QED
      BY <1>0, <2>3 DEF opDBcc
  <1>6. opJMP(c, i) \in CPU
    BY <1>0, SetPC DEF opJMP
  <1>7. opRTS(c, jl) \in CPU
    BY PopType, SetPC DEF opRTS
  <1>8. /\ popped(c, 2) \in CPU /\ ReadWord(c, c.A[7], jw) \in Word
    BY PopType
  <1>9. opRTE(c, jw, jl) \in CPU
    <2> DEFINE s == popped(c, 2)
               w == ReadWord(c, c.A[7], jw)
    <2>1. s \in CPU /\ w \in Word
      BY <1>8
    <2> HIDE DEF s, w
    <2>2. popped(s, 4) \in CPU /\ ReadLong(s, s.A[7], jl) \in Addr
      BY <2>1, PopType
    <2>3. [setSR(popped(s, 4), w) EXCEPT !.pc = ReadLong(s, s.A[7], jl)] \in CPU
      BY <2>1, <2>2, SetSRType, SetPC
    <2> QED
      BY <2>3, PrivilegedType DEF opRTE, s, w
  <1>10. opRTR(c, jw, jl) \in CPU
    <2> DEFINE s == setCCR(popped(c, 2), ReadWord(c, c.A[7], jw))
    <2>1. s \in CPU
      BY <1>8, SetSRType
    <2> HIDE DEF s
    <2>2. popped(s, 4) \in CPU /\ ReadLong(s, s.A[7], jl) \in Addr
      BY <2>1, PopType
    <2> QED
      BY <2>2, SetPC DEF opRTR, s
  <1> QED
    BY <1>2, <1>4, <1>5, <1>6, <1>7, <1>9, <1>10

LEMMA DataTypes ==
  ASSUME NEW c \in CPU, NEW i \in Instr, NEW j \in Word
  PROVE  /\ opDIVU(c, i, j) \in CPU /\ opCHK(c, i, j) \in CPU
         /\ opMOVE(c, i) \in CPU /\ opMOVEA(c, i) \in CPU
         /\ opPEA(c, i) \in CPU /\ opADD(c, i) \in CPU
  <1>0. /\ i.r \in AReg /\ i.k \in Int /\ i.w \in Word /\ i.q \in Word
        /\ eaRead(c, i) \in CPU /\ fetchPC(c) \in CPU /\ fetchPCLong(c) \in CPU
    BY InstrFields, eaReadType, FetchType
  <1>1. opDIVU(c, i, j) \in CPU
    <2> DEFINE r == eaRead(c, i)
    <2>1. exception(r, vecDivideByZero) \in CPU
      BY <1>0, exceptionType DEF vecDivideByZero
    <2>2. (r.sr \ {flagC, flagZ}) \cup {flagV, flagN} \in Word
      BY <1>0, Fields DEF Word, flagV, flagN
    <2>3. [r EXCEPT !.sr = (r.sr \ {flagC, flagZ}) \cup {flagV, flagN}] \in CPU
      BY <1>0, <2>2, SetWord
    <2>4. setFlagsLogical(r, i.q) \in CPU
      BY <1>0, FlagsType
    <2> QED
      BY <2>1, <2>3, <2>4 DEF opDIVU
  <1>2. opCHK(c, i, j) \in CPU
    <2> DEFINE r == eaRead(c, i)
               clear == r.sr \ {flagN, flagZ, flagV, flagC}
    <2>1. clear \cup (i.q \cap {flagN}) \in Word /\ clear \cup (i.q \cap {flagZ}) \in Word
      BY <1>0, Fields DEF Word
    <2> HIDE DEF clear
    <2>2. /\ [r EXCEPT !.sr = clear \cup (i.q \cap {flagN})] \in CPU
          /\ [r EXCEPT !.sr = clear \cup (i.q \cap {flagZ})] \in CPU
      BY <1>0, <2>1, SetWord, Zenon
    <2>3. exception([r EXCEPT !.sr = clear \cup (i.q \cap {flagN})], vecCHK) \in CPU
      BY <2>2, exceptionType DEF vecCHK
    <2> QED
      BY <2>2, <2>3 DEF opCHK, clear
  <1>3. opMOVE(c, i) \in CPU
    <2> DEFINE s == fetchPC(c)
    <2>1. eaDone(s, i) \in CPU /\ eaAddr(s, i) \in Int
      BY <1>0, eaDoneType, eaAddrType, AddrInt, Zenon
    <2>2. WriteWord(eaDone(s, i), eaAddr(s, i), i.w) \in CPU
      BY <1>0, <2>1, WriteWordType
    <2> QED
      BY <1>0, <2>2, FlagsType DEF opMOVE
  <1>4. opMOVEA(c, i) \in CPU
    BY <1>0, AddType, SetA DEF opMOVEA
  <1>5. opPEA(c, i) \in CPU
    BY eaDoneType, eaAddrType, PushType DEF opPEA
  <1>6. opADD(c, i) \in CPU
    BY <1>0, SetSRType DEF opADD
  <1> QED
    BY <1>1, <1>2, <1>3, <1>4, <1>5, <1>6

-----------------------------------------------------------------------------
(***************************************************************************)
(* Type correctness.                                                       *)
(***************************************************************************)
LEMMA FetchedType ==
  ASSUME TypeOK
  PROVE  /\ fetched \in CPU
         /\ \A op : Fetched(op) \subseteq Instr
  <1>1. cpu \in CPU
    BY DEF TypeOK
  <1>2. fetched \in CPU
    <2>1. cpu.pc \in Addr /\ Add(cpu.pc, 2) \in Addr
      BY <1>1, PCInt, AddType
    <2>2. \A a \in Addr, b \in Addr : [cpu EXCEPT !.prevPC = a, !.pc = b] \in CPU
      BY <1>1, ZenonT(60) DEF CPU
    <2> QED
      BY <2>1, <2>2, Zenon DEF fetched
  <1>3. cpu.pc % BusMod \in 0 .. BusMod - 1
    <2>1. cpu.pc \in Int
      BY <1>1, PCInt
    <2> QED
      BY <2>1, Widths DEF Widths
  <1>4. ASSUME NEW op PROVE Fetched(op) \subseteq Instr
    BY <1>3, Board, Zenon DEF Fetched, Board
  <1> QED
    BY <1>2, <1>4

LEMMA FinishType ==
  ASSUME NEW c \in CPU, Finish(c) PROVE TypeOK'
  <1>1. (c.halted \/ c.pc % 2 # 0) \in BOOLEAN
    OBVIOUS
  <1>2. cpu' \in CPU
    BY <1>1, SetHalted, Zenon DEF Finish
  <1>3. inStep' \in BOOLEAN
    BY Zenon DEF Finish
  <1> QED
    BY <1>2, <1>3 DEF TypeOK

LEMMA ResetRegs == [r \in AReg |-> IF r = 7 THEN Vector[0] ELSE 0] \in [AReg -> Addr]
  BY AddrInt, Board DEF Board

LEMMA InitType == Init => TypeOK
  <1> SUFFICES ASSUME Init PROVE TypeOK
    OBVIOUS
  <1>1. Vector[0] \in Addr /\ Vector[1] \in Addr
    BY Board DEF Board
  <1>2. {flagS} \cup MaskBits \in Word
    BY DEF flagS, MaskBits, Word
  <1>3. [a \in RAM |-> WordCell({})] \in [RAM -> Cell]
    BY AddrInt DEF WordCell, Cell, Word
  <1>4. ASSUME NEW w \in Word, NEW A \in [AReg -> Addr], NEW b \in [RAM -> Cell], NEW h \in BOOLEAN
        PROVE  [pc |-> Vector[1], prevPC |-> 0, sr |-> w, A |-> A, usp |-> 0,
                ssp |-> Vector[0], stopped |-> h, halted |-> h,
                pendingIPL |-> 0, pendingVec |-> nil, bus |-> b] \in CPU
    BY <1>1, AddrInt DEF CPU
  <1>5. cpu \in CPU
    BY <1>2, <1>3, <1>4, ResetRegs, Zenon DEF Init
  <1>6. inStep \in BOOLEAN
    BY Zenon DEF Init
  <1> QED
    BY <1>5, <1>6 DEF TypeOK

LEMMA StepType == ASSUME TypeOK, Step PROVE TypeOK'
  <1>1. cpu \in CPU /\ inStep \in BOOLEAN
    BY DEF TypeOK
  <1>2. fetched \in CPU /\ \A op : Fetched(op) \subseteq Instr
    BY FetchedType
  <1>3. JunkWord \subseteq Word /\ JunkLong \subseteq Addr
    BY Board, Zenon DEF Board
  <1>4. CASE HaltedStep
    BY <1>1, <1>4 DEF HaltedStep, vars, TypeOK
  <1>5. CASE StoppedStep
    BY <1>1, <1>5, processInterruptType DEF StoppedStep, TypeOK
  <1>6. CASE TakeInterrupt
    BY <1>1, <1>6, processInterruptType DEF TakeInterrupt, TypeOK
  <1>7. CASE OddPC
    <2>1. cpu' \in CPU
      BY <1>1, <1>7, SetHalted, Zenon DEF OddPC
    <2>2. inStep' \in BOOLEAN
      BY <1>7, Zenon DEF OddPC
    <2> QED
      BY <2>1, <2>2 DEF TypeOK
  <1>8. CASE PhantomORI
    <2>1. \A d : setFlagsLogical(fetchPC(fetched), d) \in CPU
      BY <1>2, FetchType, FlagsType
    <2> QED
      BY <1>8, <2>1, FinishType DEF PhantomORI
  <1>9. CASE Control
    <2>1. CASE ILLEGAL \/ LINEA \/ LINEF \/ NOP
      <3>1. \A v \in {vecIllegalInstruction, vecLineA, vecLineF} : exception(fetched, v) \in CPU
        BY <1>2, exceptionType DEF vecIllegalInstruction, vecLineA, vecLineF
      <3> QED
        BY <1>2, <2>1, <3>1, FinishType DEF ILLEGAL, LINEA, LINEF, NOP
    <2>2. CASE STOP \/ RESET \/ TRAP \/ TRAPV \/ LINK \/ UNLK
      <3>2. CASE STOP \/ RESET \/ TRAP \/ TRAPV \/ LINK
        <4>1. \A i \in Instr :
                /\ opSTOP(fetched, i) \in CPU /\ opRESET(fetched) \in CPU
                /\ opTRAP(fetched, i) \in CPU /\ opTRAPV(fetched) \in CPU
                /\ opLINK(fetched, i) \in CPU
          BY <1>2, ControlTypes, AddrInt, Zenon DEF Word
        <4> QED
          BY <1>2, <3>2, <4>1, FinishType DEF STOP, RESET, TRAP, TRAPV, LINK
      <3>3. CASE UNLK
        <4>1. \A i \in Instr, jl \in JunkLong : opUNLK(fetched, i, jl) \in CPU
          BY <1>2, <1>3, ControlTypes, Zenon DEF Word
        <4> QED
          BY <1>2, <3>3, <4>1, FinishType DEF UNLK
      <3> QED
        BY <2>2, <3>2, <3>3
    <2>3. CASE MOVEfromSR \/ MOVEtoUSP \/ MOVEfromUSP
      <3>1. \A i \in Instr : /\ opMOVEfromSR(fetched, i) \in CPU /\ opMOVEtoUSP(fetched, i) \in CPU
                             /\ opMOVEfromUSP(fetched, i) \in CPU
        BY <1>2, StatusTypes, Zenon DEF Word
      <3> QED
        BY <1>2, <2>3, <3>1, FinishType DEF MOVEfromSR, MOVEtoUSP, MOVEfromUSP
    <2>4. CASE MOVEtoCCR \/ MOVEtoSR
      <3>1. \A i \in Instr, j \in JunkWord : opMOVEtoCCR(fetched, i, j) \in CPU
                                            /\ opMOVEtoSR(fetched, i, j) \in CPU
        BY <1>2, <1>3, StatusTypes
      <3> QED
        BY <1>2, <2>4, <3>1, FinishType DEF MOVEtoCCR, MOVEtoSR
    <2>5. CASE ANDItoCCR \/ ORItoCCR \/ EORItoCCR \/ ANDItoSR \/ ORItoSR \/ EORItoSR
      <3>1. \A i \in Instr :
              /\ opANDItoCCR(fetched, i) \in CPU /\ opORItoCCR(fetched, i) \in CPU
              /\ opEORItoCCR(fetched, i) \in CPU /\ opANDItoSR(fetched, i) \in CPU
              /\ opORItoSR(fetched, i) \in CPU /\ opEORItoSR(fetched, i) \in CPU
        BY <1>2, StatusTypes, Zenon DEF Word
      <3> QED
        BY <1>2, <2>5, <3>1, FinishType
          DEF ANDItoCCR, ORItoCCR, EORItoCCR, ANDItoSR, ORItoSR, EORItoSR
    <2> QED
      BY <1>9, <2>1, <2>2, <2>3, <2>4, <2>5 DEF Control
  <1>10. CASE Flow
    <2>1. CASE Bcc \/ BRA \/ BSR \/ DBcc \/ JMP \/ JSR
      <3>1. \A i \in Instr :
              /\ opBcc(fetched, i) \in CPU /\ opBRA(fetched, i) \in CPU /\ opBSR(fetched, i) \in CPU
              /\ opDBcc(fetched, i) \in CPU /\ opJMP(fetched, i) \in CPU /\ opJSR(fetched, i) \in CPU
        BY <1>2, FlowTypes, AddrInt, Zenon DEF Word
      <3> QED
        BY <1>2, <2>1, <3>1, FinishType DEF Bcc, BRA, BSR, DBcc, JMP, JSR
    <2>2. CASE RTS
      <3>1. \A i \in Instr, j \in JunkLong : opRTS(fetched, j) \in CPU
        BY <1>2, <1>3, FlowTypes, Zenon DEF Word
      <3> QED
        BY <1>2, <2>2, <3>1, FinishType DEF RTS
    <2>3. CASE RTE \/ RTR
      <3>1. \A i \in Instr, jw \in JunkWord, jl \in JunkLong :
              opRTE(fetched, jw, jl) \in CPU /\ opRTR(fetched, jw, jl) \in CPU
        BY <1>2, <1>3, FlowTypes
      <3> QED
        BY <1>2, <2>3, <3>1, FinishType DEF RTE, RTR
    <2> QED
      BY <1>10, <2>1, <2>2, <2>3 DEF Flow
  <1>11. CASE Data
    <2>1. CASE DIVU \/ CHK
      <3>1. \A i \in Instr, j \in JunkWord : opDIVU(fetched, i, j) \in CPU /\ opCHK(fetched, i, j) \in CPU
        BY <1>2, <1>3, DataTypes
      <3> QED
        BY <1>2, <2>1, <3>1, FinishType DEF DIVU, CHK
    <2>2. CASE MOVE \/ MOVEA \/ PEA \/ ADD
      <3>1. \A i \in Instr : /\ opMOVE(fetched, i) \in CPU /\ opMOVEA(fetched, i) \in CPU
                             /\ opPEA(fetched, i) \in CPU /\ opADD(fetched, i) \in CPU
        BY <1>2, DataTypes, Zenon DEF Word
      <3> QED
        BY <1>2, <2>2, <3>1, FinishType DEF MOVE, MOVEA, PEA, ADD
    <2> QED
      BY <1>11, <2>1, <2>2 DEF Data
  <1> QED
    BY <1>4, <1>5, <1>6, <1>7, <1>8, <1>9, <1>10, <1>11 DEF Step

\* What Reset and SetState write.
LEMMA LoadType ==
  ASSUME NEW c \in CPU, NEW p \in Addr, NEW w \in Word, NEW A \in [AReg -> Addr],
         NEW u \in Addr, NEW s \in Addr, NEW h \in BOOLEAN
  PROVE  [c EXCEPT !.pc = p, !.sr = w, !.A = A, !.usp = u, !.ssp = s, !.stopped = h,
                   !.halted = h, !.pendingIPL = 0, !.pendingVec = nil] \in CPU
  <1>1. [c EXCEPT !.pc = p, !.sr = w, !.A = A, !.usp = u, !.ssp = s] \in CPU
    BY Zenon DEF CPU
  <1>2. ASSUME NEW d \in CPU, NEW l \in 0 .. 7, NEW v \in {nil} \cup (0 .. 255)
        PROVE  [d EXCEPT !.stopped = h, !.halted = h, !.pendingIPL = l, !.pendingVec = v] \in CPU
    BY ZenonT(60) DEF CPU
  <1>3. 0 \in 0 .. 7 /\ nil \in {nil} \cup (0 .. 255)
    OBVIOUS
  <1> QED
    BY <1>1, <1>2, <1>3, Zenon

LEMMA HostType == ASSUME TypeOK, Reset \/ Loaded \/ Device \/ Line PROVE TypeOK'
  <1>1. cpu \in CPU /\ inStep \in BOOLEAN
    BY DEF TypeOK
  <1>2. inStep' = inStep
    BY Zenon DEF Reset, Loaded, SetState, Device, Line, RequestInterrupt, SetIPL
  <1>3. CASE Reset
    <2>1. {flagS} \cup MaskBits \in Word /\ Vector[0] \in Addr /\ Vector[1] \in Addr /\ 0 \in Addr
      BY Board, AddrInt DEF Board, flagS, MaskBits, Word
    <2> DEFINE sr0 == {flagS} \cup MaskBits
               A0 == [r \in AReg |-> IF r = 7 THEN Vector[0] ELSE 0]
    <2>2. cpu' = [cpu EXCEPT !.pc = Vector[1], !.sr = sr0, !.A = A0, !.usp = 0, !.ssp = Vector[0],
                             !.stopped = FALSE, !.halted = FALSE, !.pendingIPL = 0, !.pendingVec = nil]
      BY <1>3 DEF Reset
    <2>3. sr0 \in Word /\ A0 \in [AReg -> Addr]
      BY <2>1, ResetRegs
    <2> HIDE DEF sr0, A0
    <2>4. cpu' \in CPU
      BY <1>1, <2>1, <2>2, <2>3, LoadType, Zenon
    <2> QED
      BY <1>1, <1>2, <2>4 DEF TypeOK
  <1>4. CASE Loaded
    <2>1. PICK regs \in Loads : SetState(regs)
      BY <1>4 DEF Loaded
    <2> DEFINE A1 == [regs.A EXCEPT ![7] = IF flagS \in regs.sr THEN regs.ssp ELSE regs.usp]
    <2>2. /\ regs.pc \in Addr /\ regs.sr \in Word /\ regs.A \in [AReg -> Addr]
          /\ regs.usp \in Addr /\ regs.ssp \in Addr
      BY Board, Zenon DEF Board
    <2>3. A1 \in [AReg -> Addr]
      BY <2>2, Zenon
    <2>4. cpu' = [cpu EXCEPT !.pc = regs.pc, !.sr = regs.sr, !.A = A1, !.usp = regs.usp,
                             !.ssp = regs.ssp, !.stopped = FALSE, !.halted = FALSE,
                             !.pendingIPL = 0, !.pendingVec = nil]
      BY <2>1 DEF SetState
    <2> HIDE DEF A1
    <2>5. cpu' \in CPU
      BY <1>1, <2>2, <2>3, <2>4, LoadType, Zenon
    <2> QED
      BY <1>1, <1>2, <2>5 DEF TypeOK
  <1>5. CASE Device \/ Line
    <2>1. \A l \in 0 .. 7, v \in {nil} \cup (0 .. 255) :
            [cpu EXCEPT !.pendingIPL = l, !.pendingVec = v] \in CPU
      BY <1>1, ZenonT(60) DEF CPU
    <2>2. PICK l \in {0} \cup Levels, v \in {nil} \cup DevVecs :
            cpu' = [cpu EXCEPT !.pendingIPL = l, !.pendingVec = v]
      BY <1>5, Zenon DEF Device, Line, RequestInterrupt, SetIPL
    <2>3. l \in 0 .. 7
      BY Board DEF Board
    <2>4. v \in {nil} \cup (0 .. 255)
      BY Board, Zenon DEF Board
    <2>5. cpu' \in CPU
      BY <2>1, <2>2, <2>3, <2>4, Zenon
    <2> QED
      BY <1>1, <1>2, <2>5 DEF TypeOK
  <1> QED
    BY <1>3, <1>4, <1>5

LEMMA NextType == TypeOK /\ [Next]_vars => TypeOK'
  <1>1. ASSUME TypeOK, Next PROVE TypeOK'
    BY <1>1, StepType, HostType DEF Next
  <1>2. ASSUME TypeOK, UNCHANGED vars PROVE TypeOK'
    BY <1>2 DEF vars, TypeOK
  <1> QED
    BY <1>1, <1>2

\* The CPU struct keeps its shape for every program, memory content and
\* sequence of host calls: registers stay in range, the pending level stays
\* in 0..7, and no handler, exception or reset leaves a field undefined.
THEOREM CPUTypeCorrect == Spec => []TypeOK
  BY InitType, NextType, PTL DEF Spec

-----------------------------------------------------------------------------
(***************************************************************************)
(* A halted CPU.                                                           *)
(***************************************************************************)
LEMMA HaltedFetches ==
  ASSUME cpu.halted, ~inStep PROVE ~Executing /\ \A op : Fetched(op) = {}
  BY DEF Executing, Fetched

LEMMA HaltedOnly == ASSUME cpu.halted, ~inStep, Step PROVE UNCHANGED vars
  <1>1. ~Executing /\ \A op : Fetched(op) = {}
    BY HaltedFetches
  <1>2. ~StoppedStep /\ ~TakeInterrupt /\ ~OddPC /\ ~PhantomORI
    BY <1>1 DEF StoppedStep, TakeInterrupt, OddPC, PhantomORI
  <1>3. ~Control
    BY <1>1 DEF Control, ILLEGAL, LINEA, LINEF, NOP, STOP, RESET, TRAP, TRAPV, LINK, UNLK,
                MOVEfromSR, MOVEtoCCR, MOVEtoSR, MOVEtoUSP, MOVEfromUSP, ANDItoCCR, ORItoCCR,
                EORItoCCR, ANDItoSR, ORItoSR, EORItoSR
  <1>4. ~Flow
    BY <1>1 DEF Flow, Bcc, BRA, BSR, DBcc, JMP, JSR, RTS, RTE, RTR
  <1>5. ~Data
    BY <1>1 DEF Data, DIVU, CHK, MOVE, MOVEA, PEA, ADD
  <1> QED
    BY <1>2, <1>3, <1>4, <1>5 DEF Step, HaltedStep

\* Once Step() has returned with the CPU halted, whatever the fault was, no
\* step and no request moves a register, the status register or memory, or
\* revives the CPU: only Reset and SetState do (the guard at the top of Step()).
THEOREM HaltedStays == Spec => HaltedUntilReset
  <1>1. ASSUME TypeOK, [Next]_vars, cpu.halted, ~inStep, ~Reset, ~Loaded
        PROVE  /\ cpu'.halted
               /\ [cpu' EXCEPT !.pendingIPL = 0, !.pendingVec = nil]
                    = [cpu EXCEPT !.pendingIPL = 0, !.pendingVec = nil]
    <2>1. CASE Step \/ UNCHANGED vars
      <3>1. cpu' = cpu
        BY <1>1, <2>1, HaltedOnly DEF vars
      <3> QED
        BY <1>1, <3>1
    <2>2. CASE Device \/ Line
      <3>1. PICK l, v : cpu' = [cpu EXCEPT !.pendingIPL = l, !.pendingVec = v]
        BY <2>2, Zenon DEF Device, Line, RequestInterrupt, SetIPL
      <3> QED
        BY <1>1, <3>1, Zenon DEF TypeOK, CPU
    <2> QED
      BY <1>1, <2>1, <2>2 DEF Next
  <1>2. TypeOK /\ [Next]_vars =>
          [cpu.halted /\ ~inStep /\ ~Reset /\ ~Loaded
             => /\ cpu'.halted
                /\ [cpu' EXCEPT !.pendingIPL = 0, !.pendingVec = nil]
                     = [cpu EXCEPT !.pendingIPL = 0, !.pendingVec = nil]]_vars
    BY <1>1
  <1> QED
    BY <1>2, CPUTypeCorrect, PTL DEF Spec, HaltedUntilReset

-----------------------------------------------------------------------------
(***************************************************************************)
(* M68kCPU implements M68kStacks: A[7], USP and SSP behave as two separate *)
(* stack pointers for every program, board and width.  A handler either    *)
(* keeps the saved pointers and the mode, or it is one of three exchanges: *)
(* an exception entering supervisor mode, setSR leaving it, or MOVE An,USP.*)
(***************************************************************************)
Keeps(c, d) == d.usp = c.usp /\ d.ssp = c.ssp /\ (flagS \in d.sr <=> flagS \in c.sr)
\* The exchanges, with the active pointer saved after it moved by k.
EntersBy(c, d, k) ==
  /\ flagS \notin c.sr /\ flagS \in d.sr
  /\ d.A[7] = (c.ssp - 6) % RegMod /\ d.usp = Add(c.A[7], k)
LeavesBy(c, d, k) ==
  /\ flagS \in c.sr /\ flagS \notin d.sr
  /\ d.A[7] = c.usp /\ d.ssp = Add(c.A[7], k)
Enters(c, d) == \E k \in {-2, 0, 2} : EntersBy(c, d, k)
Leaves(c, d) == \E k \in {-2, 0, 2, 6} : LeavesBy(c, d, k)
SetsUSP(c, d) == flagS \in c.sr /\ flagS \in d.sr /\ d.A[7] = c.A[7]
Exchange(c, d) == Keeps(c, d) \/ Enters(c, d) \/ Leaves(c, d)
\* An exchange that saves the active pointer as it stands.
ExchangeHere(c, d) == Keeps(c, d) \/ EntersBy(c, d, 0) \/ LeavesBy(c, d, 0)
\* What the operand of an instruction does before an exchange.
Near(c, d) == Keeps(c, d) /\ \E k \in {-2, 0, 2} : d.A[7] = Add(c.A[7], k)

LEMMA AddZero == ASSUME NEW x \in Addr PROVE Add(x, 0) = x
  <1>1. RegMod \in Nat /\ RegMod > 6 /\ x \in 0 .. RegMod - 1
    BY Widths DEF Widths, Addr
  <1> QED
    BY <1>1 DEF Add

LEMMA HereExchange == ASSUME NEW c, NEW d, ExchangeHere(c, d) PROVE Exchange(c, d)
  BY DEF ExchangeHere, Exchange, Enters, Leaves

LEMMA NearExchange ==
  ASSUME NEW c, NEW d \in CPU, NEW e, Near(c, d), ExchangeHere(d, e) PROVE Exchange(c, e)
  <1>1. Add(d.A[7], 0) = d.A[7]
    BY AType, AddrInt, AddZero
  <1> QED
    BY <1>1 DEF Near, Keeps, ExchangeHere, Exchange, Enters, Leaves, EntersBy, LeavesBy

\* Same A7, saved pointers and mode.
LEMMA SameNear ==
  ASSUME NEW c \in CPU, NEW d, Keeps(c, d), d.A = c.A PROVE Near(c, d)
  <1>1. Add(c.A[7], 0) = c.A[7]
    BY AType, AddrInt, AddZero
  <1> QED
    BY <1>1 DEF Near

LEMMA KeepsKeeps == ASSUME NEW c, NEW d, NEW e, Keeps(c, d), Keeps(d, e) PROVE Keeps(c, e)
  BY DEF Keeps

-----------------------------------------------------------------------------
(***************************************************************************)
(* The primitives keep both saved pointers.                                *)
(***************************************************************************)
LEMMA FramePointer == ASSUME NEW x \in Addr PROVE Add(Add(x, -4), -2) = (x - 6) % RegMod
  <1>1. RegMod \in Nat /\ RegMod > 6 /\ x \in 0 .. RegMod - 1
    BY Widths DEF Widths, Addr
  <1>2. CASE x >= 6
    BY <1>1, <1>2 DEF Add
  <1>3. CASE x >= 4 /\ x < 6
    BY <1>1, <1>3 DEF Add
  <1>4. CASE x < 4
    BY <1>1, <1>4 DEF Add
  <1> QED
    BY <1>1, <1>2, <1>3, <1>4

LEMMA SetKeeps ==
  ASSUME NEW c \in CPU
  PROVE  /\ \A v : Keeps(c, [c EXCEPT !.pc = v])
         /\ \A v : Keeps(c, [c EXCEPT !.halted = v])
         /\ \A r, v : Keeps(c, [c EXCEPT !.A[r] = v])
         /\ \A w : (flagS \in w <=> flagS \in c.sr) => Keeps(c, [c EXCEPT !.sr = w])
  BY DEF CPU, Keeps

LEMMA AccessedKeeps == ASSUME NEW c \in CPU, NEW a PROVE Keeps(c, Accessed(c, a))
  BY SetKeeps DEF Accessed

LEMMA WriteKeeps ==
  ASSUME NEW c \in CPU, NEW a, NEW w
  PROVE  /\ Keeps(c, WriteWord(c, a, w)) /\ WriteWord(c, a, w).A = c.A
         /\ Keeps(c, WriteLong(c, a, w)) /\ WriteLong(c, a, w).A = c.A
         /\ WriteWord(c, a, w).sr = c.sr /\ WriteLong(c, a, w).sr = c.sr
  BY DEF CPU, Keeps, WriteWord, WriteLong

LEMMA PushKeeps ==
  ASSUME NEW c \in CPU, NEW w
  PROVE  /\ Keeps(c, pushWord(c, w)) /\ pushWord(c, w).A[7] = Add(c.A[7], -2)
         /\ Keeps(c, pushLong(c, w)) /\ pushLong(c, w).A[7] = Add(c.A[7], -4)
  <1>1. c.A[7] \in Int /\ c.A \in [AReg -> Addr] /\ 7 \in AReg
    BY AType, Fields, AddrInt
  <1>2. Add(c.A[7], -2) \in Addr /\ Add(c.A[7], -4) \in Addr
    BY <1>1, AddType
  <1> DEFINE d == [c EXCEPT !.A[7] = Add(c.A[7], -2)]
             e == [c EXCEPT !.A[7] = Add(c.A[7], -4)]
  <1>3. /\ d \in CPU /\ Keeps(c, d) /\ d.A[7] = Add(c.A[7], -2)
        /\ e \in CPU /\ Keeps(c, e) /\ e.A[7] = Add(c.A[7], -4)
    <2>1. d \in CPU /\ e \in CPU
      BY <1>1, <1>2, SetA
    <2>2. Keeps(c, d) /\ Keeps(c, e)
      BY SetKeeps
    <2>3. \A v : [c EXCEPT !.A[7] = v].A[7] = v
      BY <1>1 DEF CPU
    <2> QED
      BY <2>1, <2>2, <2>3
  <1> HIDE DEF d, e
  <1>4. pushWord(c, w) = WriteWord(d, Add(c.A[7], -2), w)
    BY DEF pushWord, d
  <1>5. pushLong(c, w) = WriteLong(e, Add(c.A[7], -4), w)
    BY DEF pushLong, e
  <1> QED
    BY <1>3, <1>4, <1>5, WriteKeeps, KeepsKeeps

LEMMA PoppedKeeps == ASSUME NEW c \in CPU, NEW n PROVE Keeps(c, popped(c, n))
  <1>1. Accessed(c, c.A[7]) \in CPU /\ Keeps(c, Accessed(c, c.A[7]))
    BY AType, AddrInt, AccessedType, AccessedKeeps
  <1>2. Keeps(Accessed(c, c.A[7]), popped(c, n))
    BY <1>1, SetKeeps DEF popped
  <1> QED
    BY <1>1, <1>2, KeepsKeeps

LEMMA FetchKeeps ==
  ASSUME NEW c \in CPU PROVE Keeps(c, fetchPC(c)) /\ Keeps(c, fetchPCLong(c)) /\ Keeps(c, c)
  BY SetKeeps DEF fetchPC, fetchPCLong, Keeps

LEMMA eaKeeps ==
  ASSUME NEW c \in CPU, NEW i \in Instr
  PROVE  Keeps(c, eaDone(c, i)) /\ Keeps(c, eaRead(c, i))
  <1>1. Keeps(c, eaDone(c, i))
    BY FetchKeeps, SetKeeps, Zenon DEF eaDone
  <1>2. Keeps(eaDone(c, i), Accessed(eaDone(c, i), eaAddr(c, i)))
    BY eaDoneType, AccessedKeeps
  <1> QED
    BY <1>1, <1>2, KeepsKeeps DEF eaRead

LEMMA FetchNear ==
  ASSUME NEW c \in CPU PROVE Near(c, fetchPC(c)) /\ Near(c, fetchPCLong(c)) /\ Near(c, c)
  <1>1. \A v : [c EXCEPT !.pc = v].A = c.A
    BY DEF CPU
  <1> QED
    BY <1>1, FetchKeeps, SameNear, Zenon DEF fetchPC, fetchPCLong

\* A word operand moves A7 by a word at most.
LEMMA eaNear ==
  ASSUME NEW c \in CPU, NEW i \in Instr PROVE Near(c, eaRead(c, i))
  <1>1. c.A \in [AReg -> Addr] /\ 7 \in AReg /\ i.r \in AReg /\ c.A[7] \in Addr
    BY Fields, AddrInt, InstrFields, AType
  <1>2. \A k \in {-2, 2} : Near(c, [c EXCEPT !.A[i.r] = Add(c.A[i.r], k)])
    <2> TAKE k \in {-2, 2}
    <2> DEFINE d == [c EXCEPT !.A[i.r] = Add(c.A[i.r], k)]
    <2>1. Keeps(c, d)
      BY SetKeeps
    <2>2. d.A[7] = c.A[7] \/ d.A[7] = Add(c.A[7], k)
      BY <1>1 DEF CPU
    <2>3. c.A[7] = Add(c.A[7], 0)
      BY <1>1, AddZero
    <2> QED
      BY <2>1, <2>2, <2>3 DEF Near
  <1>3. Near(c, eaDone(c, i))
    BY <1>2, FetchNear DEF eaDone
  <1>4. \A a : Accessed(eaDone(c, i), a).A = eaDone(c, i).A
    BY eaDoneType DEF CPU, Accessed
  <1> QED
    BY <1>3, <1>4, eaKeeps DEF Near, eaRead

LEMMA setCCRKeeps ==
  ASSUME NEW c \in CPU, NEW w PROVE Keeps(c, setCCR(c, w)) /\ Keeps(c, setFlagsLogical(c, w))
  <1>1. flagS \notin CCRBits /\ flagS \notin {flagN, flagZ, flagV, flagC}
    BY DEF flagS, CCRBits, flagN, flagZ, flagV, flagC
  <1>2. Keeps(c, setCCR(c, w))
    BY <1>1, SetKeeps DEF setCCR
  <1>3. Keeps(c, setFlagsLogical(c, w))
    BY <1>1, SetKeeps DEF setFlagsLogical
  <1> QED
    BY <1>2, <1>3

-----------------------------------------------------------------------------
(***************************************************************************)
(* The three places that exchange pointers.                                *)
(***************************************************************************)
LEMMA enterFields ==
  ASSUME NEW c \in CPU
  PROVE  LET e == enterSupervisor(c)
         IN /\ flagS \in e.sr /\ e.ssp = c.ssp
            /\ flagS \in c.sr => e.usp = c.usp
            /\ flagS \notin c.sr => e.A[7] = c.ssp /\ e.usp = c.A[7]
  <1>1. c.A \in [AReg -> Addr] /\ 7 \in AReg
    BY Fields, AddrInt
  <1>2. flagS \in (c.sr \cup {flagS}) \ {flagT}
    BY DEF flagS, flagT
  <1>3. \A u, a, w : LET e == [c EXCEPT !.usp = u, !.A[7] = a, !.sr = w]
                    IN e.usp = u /\ e.A[7] = a /\ e.sr = w /\ e.ssp = c.ssp
    BY <1>1 DEF CPU
  <1> QED
    BY <1>2, <1>3 DEF enterSupervisor, supervisor

LEMMA frameFields ==
  ASSUME NEW e \in CPU, NEW pc \in Addr, NEW sr \in Word
  PROVE  LET s == stackFrame(e, pc, sr)
         IN Keeps(e, s) /\ s.A[7] = Add(Add(e.A[7], -4), -2)
  BY PushType, PushKeeps, KeepsKeeps DEF stackFrame

\* Stacking a frame from a state e that differs from enterSupervisor(c) in
\* neither pointer nor mode.
LEMMA EntryExchange ==
  ASSUME NEW c \in CPU, NEW e \in CPU, NEW pc \in Addr, NEW sr \in Word, NEW d,
         Keeps(enterSupervisor(c), e), e.A = enterSupervisor(c).A,
         Keeps(stackFrame(e, pc, sr), d), d.A = stackFrame(e, pc, sr).A
  PROVE  IF flagS \in c.sr THEN Keeps(c, d) ELSE EntersBy(c, d, 0)
  <1> DEFINE s == stackFrame(e, pc, sr)
  <1>1. Keeps(e, s) /\ s.A[7] = Add(Add(e.A[7], -4), -2)
    BY frameFields
  <1>2. Keeps(enterSupervisor(c), d)
    BY <1>1, KeepsKeeps
  <1>3. CASE flagS \in c.sr
    BY <1>2, <1>3, enterFields DEF Keeps
  <1>4. CASE flagS \notin c.sr
    <2>1. e.A[7] = c.ssp /\ c.ssp \in Addr
      BY <1>4, enterFields, Fields
    <2>2. d.A[7] = (c.ssp - 6) % RegMod
      BY <1>1, <2>1, FramePointer
    <2>3. flagS \in d.sr /\ d.usp = c.A[7]
      BY <1>2, <1>4, enterFields DEF Keeps
    <2>4. Add(c.A[7], 0) = c.A[7]
      BY AType, AddrInt, AddZero
    <2> QED
      BY <1>4, <2>2, <2>3, <2>4 DEF EntersBy
  <1> QED
    BY <1>3, <1>4

LEMMA exceptionExchange ==
  ASSUME NEW c \in CPU, NEW v \in 0 .. 255 PROVE ExchangeHere(c, exception(c, v))
  <1> DEFINE pushPC == IF v \in {vecIllegalInstruction, vecPrivilegeViolation, vecLineA, vecLineF}
                       THEN c.prevPC ELSE c.pc
             s == stackFrame(enterSupervisor(c), pushPC, c.sr)
             first == ReadVector(s, v)
             addr == IF first = 0 THEN ReadVector(s, vecUninitialized) ELSE first
  <1>1. pushPC \in Addr /\ c.sr \in Word /\ enterSupervisor(c) \in CPU
    BY Fields, enterType
  <1> HIDE DEF pushPC
  <1>2. s \in CPU
    BY <1>1, stackFrameType
  <1>3. exception(c, v) = IF addr = 0 THEN [s EXCEPT !.halted = TRUE] ELSE [s EXCEPT !.pc = addr]
    BY DEF exception, pushPC
  <1>4. /\ Keeps(s, [s EXCEPT !.halted = TRUE]) /\ [s EXCEPT !.halted = TRUE].A = s.A
        /\ Keeps(s, [s EXCEPT !.pc = addr]) /\ [s EXCEPT !.pc = addr].A = s.A
    <2> HIDE DEF s, addr
    <2> QED
      BY <1>2 DEF CPU, Keeps
  <1>5. Keeps(s, exception(c, v)) /\ exception(c, v).A = s.A
    <2> HIDE DEF s, addr
    <2> QED
      BY <1>3, <1>4
  <1>6. Keeps(enterSupervisor(c), enterSupervisor(c))
    BY DEF Keeps
  <1> QED
    BY <1>1, <1>5, <1>6, EntryExchange DEF ExchangeHere

LEMMA interruptExchange ==
  ASSUME NEW c \in CPU PROVE ExchangeHere(c, processInterrupt(c))
  <1> DEFINE level == c.pendingIPL
             e == [enterSupervisor(c) EXCEPT !.pendingIPL = 0, !.pendingVec = nil,
                                             !.sr = (@ \ MaskBits) \cup LevelBits(level)]
             s == stackFrame(e, c.pc, c.sr)
             first == ReadVector(s, IF c.pendingVec # nil THEN c.pendingVec ELSE 24 + level)
             addr == IF first = 0 THEN ReadVector(s, vecSpuriousInterrupt) ELSE first
  <1>1. enterSupervisor(c) \in CPU /\ c.pc \in Addr /\ c.sr \in Word
    BY enterType, Fields
  <1>2. (enterSupervisor(c).sr \ MaskBits) \cup LevelBits(level) \in Word
    BY <1>1, Fields, LevelBitsType DEF Word, MaskBits
  <1>3. ASSUME NEW x \in CPU, NEW w \in Word, flagS \in w <=> flagS \in x.sr
        PROVE  LET y == [x EXCEPT !.pendingIPL = 0, !.pendingVec = nil, !.sr = w]
               IN y \in CPU /\ Keeps(x, y) /\ y.A = x.A
    <2>1. 0 \in 0 .. 7 /\ nil \in {nil} \cup (0 .. 255)
      OBVIOUS
    <2>2. [x EXCEPT !.pendingIPL = 0, !.pendingVec = nil, !.sr = w] \in CPU
      BY <2>1, SetRequest, Zenon
    <2> QED
      BY <1>3, <2>2 DEF CPU, Keeps
  <1>4. flagS \notin MaskBits /\ flagS \notin LevelBits(level)
    BY LevelBitsType DEF flagS, MaskBits
  <1>5. flagS \in (enterSupervisor(c).sr \ MaskBits) \cup LevelBits(level)
          <=> flagS \in enterSupervisor(c).sr
    BY <1>4
  <1>6. e \in CPU /\ Keeps(enterSupervisor(c), e) /\ e.A = enterSupervisor(c).A
    BY <1>1, <1>2, <1>3, <1>5, Zenon
  <1> HIDE DEF e
  <1>7. s \in CPU
    BY <1>1, <1>6, stackFrameType
  <1>8. processInterrupt(c) = [s EXCEPT !.pc = addr, !.stopped = FALSE]
    BY DEF processInterrupt, e
  <1>9. Keeps(s, processInterrupt(c)) /\ processInterrupt(c).A = s.A
    <2> HIDE DEF s, addr
    <2> QED
      BY <1>7, <1>8 DEF CPU, Keeps
  <1> QED
    BY <1>1, <1>6, <1>9, EntryExchange DEF ExchangeHere

LEMMA setSRExchange ==
  ASSUME NEW c \in CPU, NEW w, flagS \in c.sr PROVE ExchangeHere(c, setSR(c, w))
  <1>1. c.A \in [AReg -> Addr] /\ 7 \in AReg
    BY Fields, AddrInt
  <1>2. flagS \in w \cap ValidSR <=> flagS \in w
    BY DEF flagS, ValidSR
  <1>3. \A s, u, a, v : LET e == [c EXCEPT !.ssp = s, !.usp = u, !.A[7] = a, !.sr = v]
                       IN e.ssp = s /\ e.usp = u /\ e.A[7] = a /\ e.sr = v
    BY <1>1 DEF CPU
  <1>4. Add(c.A[7], 0) = c.A[7]
    BY <1>1, AddZero
  <1> QED
    BY <1>2, <1>3, <1>4 DEF setSR, ExchangeHere, Keeps, LeavesBy

-----------------------------------------------------------------------------
(***************************************************************************)
(* The handlers.                                                           *)
(***************************************************************************)
Same(d, e) == e.A = d.A /\ e.usp = d.usp /\ e.ssp = d.ssp /\ e.sr = d.sr

LEMMA ExchangeSame ==
  ASSUME NEW c, NEW d, NEW e, Same(d, e), Exchange(c, d) PROVE Exchange(c, e)
  BY DEF Same, Exchange, Keeps, Enters, Leaves, EntersBy, LeavesBy

LEMMA SetSame ==
  ASSUME NEW c \in CPU
  PROVE  /\ \A v : Same(c, [c EXCEPT !.pc = v])
         /\ \A v : Same(c, [c EXCEPT !.halted = v])
         /\ \A h, v : Same(c, [c EXCEPT !.stopped = h, !.pc = v])
  BY DEF CPU, Same

LEMMA PrivilegedExchange ==
  ASSUME NEW c \in CPU, NEW d, flagS \in c.sr => Exchange(c, d)
  PROVE  Exchange(c, Privileged(c, d))
  <1>1. Exchange(c, exception(c, vecPrivilegeViolation))
    BY exceptionExchange, HereExchange DEF vecPrivilegeViolation
  <1> QED
    BY <1>1 DEF Privileged, supervisor

LEMMA setSRAfter ==
  ASSUME NEW c \in CPU, NEW d \in CPU, NEW w, Near(c, d), flagS \in c.sr
  PROVE  Exchange(c, setSR(d, w))
  <1>1. flagS \in d.sr
    BY DEF Keeps, Near
  <1> QED
    BY <1>1, setSRExchange, NearExchange

LEMMA ControlKeeps ==
  ASSUME NEW c \in CPU, NEW i \in Instr
  PROVE  /\ Exchange(c, opSTOP(c, i)) /\ Exchange(c, opRESET(c))
         /\ Exchange(c, opTRAP(c, i)) /\ Exchange(c, opTRAPV(c))
         /\ Exchange(c, opLINK(c, i))
  <1>0. /\ i.r \in AReg /\ i.n \in 0 .. 15 /\ i.w \in Word /\ i.k \in Int /\ 7 \in AReg
        /\ fetchPC(c) \in CPU /\ Keeps(c, fetchPC(c)) /\ Near(c, fetchPC(c)) /\ Keeps(c, c)
    BY InstrFields, AddrInt, FetchType, FetchKeeps, FetchNear
  <1>1. Exchange(c, opSTOP(c, i))
    <2> DEFINE s == setSR(fetchPC(c), i.w)
    <2>1. s \in CPU
      BY <1>0, SetSRType
    <2>2. flagS \in c.sr => Exchange(c, s)
      BY <1>0, setSRAfter
    <2>3. Same(s, [s EXCEPT !.stopped = TRUE, !.pc = c.prevPC])
      <3> HIDE DEF s
      <3> QED
        BY <2>1, SetSame, Zenon
    <2>4. flagS \in c.sr => Exchange(c, [s EXCEPT !.stopped = TRUE, !.pc = c.prevPC])
      <3> HIDE DEF s
      <3> QED
        BY <2>2, <2>3, ExchangeSame
    <2> QED
      BY <2>4, PrivilegedExchange DEF opSTOP
  <1>2. Exchange(c, opRESET(c))
    BY <1>0, PrivilegedExchange DEF opRESET, Exchange
  <1>3. Exchange(c, opTRAP(c, i)) /\ Exchange(c, opTRAPV(c))
    <2>1. i.n + vecTrap0 \in 0 .. 255 /\ vecTRAPV \in 0 .. 255
      BY <1>0 DEF vecTrap0, vecTRAPV
    <2>2. Exchange(c, exception(c, i.n + vecTrap0)) /\ Exchange(c, exception(c, vecTRAPV))
      BY <2>1, exceptionExchange, HereExchange
    <2> QED
      BY <1>0, <2>2 DEF opTRAP, opTRAPV, Exchange
  <1>4. Keeps(c, opLINK(c, i))
    <2> DEFINE p == pushLong(fetchPC(c), c.A[i.r])
               f == [p EXCEPT !.A[i.r] = p.A[7]]
    <2>1. p \in CPU /\ Keeps(fetchPC(c), p)
      BY <1>0, AType, PushType, PushKeeps
    <2> HIDE DEF p
    <2>2. f \in CPU /\ Keeps(p, f)
      BY <1>0, <2>1, AType, SetA, SetKeeps, Zenon
    <2> HIDE DEF f
    <2>3. Keeps(f, [f EXCEPT !.A[7] = Add(f.A[7], i.k)])
      BY <2>2, SetKeeps
    <2>4. Keeps(c, [f EXCEPT !.A[7] = Add(f.A[7], i.k)])
      BY <1>0, <2>1, <2>2, <2>3, KeepsKeeps
    <2> QED
      BY <2>4 DEF opLINK, f, p
  <1> QED
    BY <1>1, <1>2, <1>3, <1>4 DEF Exchange

LEMMA UNLKKeeps ==
  ASSUME NEW c \in CPU, NEW i \in Instr, NEW j \in Addr PROVE Exchange(c, opUNLK(c, i, j))
  <1> DEFINE u == [c EXCEPT !.A[7] = c.A[i.r]]
  <1>1. u \in CPU /\ Keeps(c, u)
    BY InstrFields, AddrInt, AType, SetA, SetKeeps, Zenon
  <1> HIDE DEF u
  <1>2. popped(u, 4) \in CPU /\ Keeps(u, popped(u, 4))
    BY <1>1, PoppedType, PoppedKeeps
  <1>3. Keeps(popped(u, 4), opUNLK(c, i, j))
    BY <1>2, SetKeeps DEF opUNLK, u
  <1> QED
    BY <1>1, <1>2, <1>3, KeepsKeeps DEF Exchange

LEMMA StatusKeeps ==
  ASSUME NEW c \in CPU, NEW i \in Instr
  PROVE  /\ Exchange(c, opMOVEfromSR(c, i)) /\ Exchange(c, opMOVEfromUSP(c, i))
         /\ Exchange(c, opMOVEtoUSP(c, i)) \/ SetsUSP(c, opMOVEtoUSP(c, i))
         /\ Exchange(c, opANDItoCCR(c, i)) /\ Exchange(c, opORItoCCR(c, i))
         /\ Exchange(c, opEORItoCCR(c, i)) /\ Exchange(c, opANDItoSR(c, i))
         /\ Exchange(c, opORItoSR(c, i)) /\ Exchange(c, opEORItoSR(c, i))
  <1>0. /\ i.r \in AReg /\ fetchPC(c) \in CPU /\ Keeps(c, fetchPC(c)) /\ Keeps(c, c)
        /\ Near(c, fetchPC(c))
    BY InstrFields, FetchType, FetchKeeps, FetchNear
  <1>1. Keeps(c, opMOVEfromSR(c, i))
    <2>1. eaDone(c, i) \in CPU /\ Keeps(c, eaDone(c, i))
      BY eaDoneType, eaKeeps
    <2>2. Keeps(c, WriteWord(eaDone(c, i), eaAddr(c, i), c.sr))
      BY <2>1, WriteKeeps, KeepsKeeps
    <2> QED
      BY <1>0, <2>2 DEF opMOVEfromSR
  <1>2. Exchange(c, opMOVEfromUSP(c, i))
    BY SetKeeps, PrivilegedExchange DEF opMOVEfromUSP, Exchange
  <1>3. Exchange(c, opMOVEtoUSP(c, i)) \/ SetsUSP(c, opMOVEtoUSP(c, i))
    <2>1. Exchange(c, exception(c, vecPrivilegeViolation))
      BY exceptionExchange, HereExchange DEF vecPrivilegeViolation
    <2>2. flagS \in c.sr => SetsUSP(c, [c EXCEPT !.usp = c.A[i.r]])
      BY DEF CPU, SetsUSP
    <2> QED
      BY <2>1, <2>2 DEF opMOVEtoUSP, Privileged, supervisor
  <1>4. \A w : Exchange(c, setCCR(fetchPC(c), w))
    BY <1>0, setCCRKeeps, KeepsKeeps DEF Exchange
  <1>5. \A w : Exchange(c, Privileged(c, setSR(fetchPC(c), w)))
    BY <1>0, setSRAfter, PrivilegedExchange
  <1> QED
    BY <1>1, <1>2, <1>3, <1>4, <1>5, Zenon
      DEF Exchange, opANDItoCCR, opORItoCCR, opEORItoCCR, opANDItoSR, opORItoSR, opEORItoSR

LEMMA MoveToStatusKeeps ==
  ASSUME NEW c \in CPU, NEW i \in Instr, NEW j \in Word
  PROVE  Exchange(c, opMOVEtoCCR(c, i, j)) /\ Exchange(c, opMOVEtoSR(c, i, j))
  <1>1. eaRead(c, i) \in CPU /\ Keeps(c, eaRead(c, i)) /\ Near(c, eaRead(c, i))
    BY eaReadType, eaKeeps, eaNear
  <1>2. Exchange(c, opMOVEtoCCR(c, i, j))
    BY <1>1, setCCRKeeps, KeepsKeeps DEF opMOVEtoCCR, Exchange
  <1>3. Exchange(c, opMOVEtoSR(c, i, j))
    BY <1>1, setSRAfter, PrivilegedExchange DEF opMOVEtoSR
  <1> QED
    BY <1>2, <1>3

LEMMA FlowKeeps ==
  ASSUME NEW c \in CPU, NEW i \in Instr
  PROVE  /\ Exchange(c, opBcc(c, i)) /\ Exchange(c, opBRA(c, i)) /\ Exchange(c, opBSR(c, i))
         /\ Exchange(c, opDBcc(c, i)) /\ Exchange(c, opJMP(c, i)) /\ Exchange(c, opJSR(c, i))
  <1>0. /\ Keeps(c, fetchPC(c)) /\ eaDone(c, i) \in CPU /\ Keeps(c, eaDone(c, i))
        /\ eaDone(c, i).pc \in Addr
    BY FetchKeeps, eaDoneType, eaKeeps, PCInt
  <1>1. \A v : Keeps(c, [c EXCEPT !.pc = v])
    BY SetKeeps
  <1>2. \A v : Keeps(c, [eaDone(c, i) EXCEPT !.pc = v])
    BY <1>0, SetKeeps, KeepsKeeps
  <1>3. \A v : Keeps(c, [pushLong(eaDone(c, i), eaDone(c, i).pc) EXCEPT !.pc = v])
    <2> DEFINE p == pushLong(eaDone(c, i), eaDone(c, i).pc)
    <2>1. p \in CPU /\ Keeps(c, p)
      BY <1>0, PushType, PushKeeps, KeepsKeeps
    <2> HIDE DEF p
    <2>2. \A v : Keeps(c, [p EXCEPT !.pc = v])
      BY <2>1, SetKeeps, KeepsKeeps
    <2> QED
      BY <2>2 DEF p
  <1> QED
    BY <1>0, <1>1, <1>2, <1>3 DEF Exchange, opBcc, opBRA, opBSR, opDBcc, opJMP, opJSR

LEMMA PoppedTwice ==
  ASSUME NEW c \in CPU, popped(c, 2) \in CPU PROVE popped(popped(c, 2), 4).A[7] = Add(c.A[7], 6)
  <1>1. RegMod \in Nat /\ RegMod > 6 /\ c.A[7] \in 0 .. RegMod - 1
    BY Widths, AType, AddrInt DEF Widths, Addr
  <1>2. \A d \in CPU, n \in {2, 4} : popped(d, n).A[7] = Add(d.A[7], n)
    BY AddrInt, Zenon DEF popped, Accessed, CPU
  <1>3. Add(Add(c.A[7], 2), 4) = Add(c.A[7], 6)
    <2>1. CASE c.A[7] + 6 < RegMod
      BY <1>1, <2>1 DEF Add
    <2>2. CASE c.A[7] + 6 >= RegMod /\ c.A[7] + 2 < RegMod
      BY <1>1, <2>2 DEF Add
    <2>3. CASE c.A[7] + 2 >= RegMod
      BY <1>1, <2>3 DEF Add
    <2> QED
      BY <1>1, <2>1, <2>2, <2>3
  <1> QED
    BY <1>2, <1>3

LEMMA ReturnKeeps ==
  ASSUME NEW c \in CPU, NEW jw \in Word, NEW jl \in Addr
  PROVE  /\ Exchange(c, opRTS(c, jl)) /\ Exchange(c, opRTE(c, jw, jl))
         /\ Exchange(c, opRTR(c, jw, jl))
  <1>1. /\ popped(c, 2) \in CPU /\ Keeps(c, popped(c, 2)) /\ ReadWord(c, c.A[7], jw) \in Word
        /\ popped(c, 4) \in CPU /\ Keeps(c, popped(c, 4))
    BY PopType, PoppedKeeps
  <1>2. Exchange(c, opRTS(c, jl))
    BY <1>1, SetKeeps, KeepsKeeps DEF opRTS, Exchange
  <1>3. Exchange(c, opRTE(c, jw, jl))
    <2> DEFINE s == popped(c, 2)
               d == setSR(popped(s, 4), ReadWord(c, c.A[7], jw))
    <2>1. popped(s, 4) \in CPU /\ Keeps(c, popped(s, 4))
      <3>1. popped(s, 4) \in CPU /\ Keeps(s, popped(s, 4))
        BY <1>1, PoppedType, PoppedKeeps
      <3> QED
        BY <1>1, <3>1, KeepsKeeps
    <2>2. d \in CPU /\ (flagS \in c.sr => Exchange(c, d))
      <3>1. popped(s, 4).A[7] = Add(c.A[7], 6)
        BY <1>1, PoppedTwice
      <3>2. Add(popped(s, 4).A[7], 0) = popped(s, 4).A[7]
        BY <2>1, AType, AddrInt, AddZero
      <3> HIDE DEF s
      <3>3. d \in CPU
        BY <1>1, <2>1, SetSRType
      <3>4. flagS \in c.sr => ExchangeHere(popped(s, 4), d)
        BY <2>1, setSRExchange DEF Keeps
      <3> HIDE DEF d
      <3> QED
        BY <2>1, <3>1, <3>2, <3>3, <3>4
          DEF ExchangeHere, Exchange, Keeps, EntersBy, LeavesBy, Enters, Leaves
    <2> HIDE DEF d
    <2>3. flagS \in c.sr => Exchange(c, [d EXCEPT !.pc = ReadLong(s, s.A[7], jl)])
      BY <2>2, SetSame, ExchangeSame, Zenon
    <2> QED
      BY <2>3, PrivilegedExchange DEF opRTE, d
  <1>4. Exchange(c, opRTR(c, jw, jl))
    <2> DEFINE s == setCCR(popped(c, 2), ReadWord(c, c.A[7], jw))
    <2>1. s \in CPU /\ Keeps(c, s)
      BY <1>1, SetSRType, setCCRKeeps, KeepsKeeps
    <2> HIDE DEF s
    <2>2. popped(s, 4) \in CPU /\ Keeps(c, popped(s, 4))
      BY <2>1, PoppedType, PoppedKeeps, KeepsKeeps
    <2> QED
      BY <2>2, SetKeeps, KeepsKeeps DEF opRTR, s, Exchange
  <1> QED
    BY <1>2, <1>3, <1>4

LEMMA DataKeeps ==
  ASSUME NEW c \in CPU, NEW i \in Instr
  PROVE  /\ Exchange(c, opMOVE(c, i)) /\ Exchange(c, opMOVEA(c, i))
         /\ Exchange(c, opPEA(c, i)) /\ Exchange(c, opADD(c, i))
  <1>1. Keeps(c, opMOVE(c, i))
    <2> DEFINE s == fetchPC(c)
               d == WriteWord(eaDone(s, i), eaAddr(s, i), i.w)
    <2>1. s \in CPU /\ Keeps(c, s) /\ i.w \in Word
      BY FetchType, FetchKeeps, InstrFields
    <2> HIDE DEF s
    <2>2. eaDone(s, i) \in CPU /\ Keeps(s, eaDone(s, i)) /\ eaAddr(s, i) \in Int
      BY <2>1, eaDoneType, eaKeeps, eaAddrType, AddrInt, Zenon
    <2>3. d \in CPU /\ Keeps(eaDone(s, i), d)
      BY <2>1, <2>2, WriteWordType, WriteKeeps
    <2>4. Keeps(c, d)
      <3> HIDE DEF d
      <3> QED
        BY <2>1, <2>2, <2>3, KeepsKeeps
    <2> HIDE DEF d
    <2>5. Keeps(c, setFlagsLogical(s, i.w)) /\ Keeps(c, setFlagsLogical(d, i.w))
      BY <2>1, <2>3, <2>4, setCCRKeeps, KeepsKeeps
    <2> QED
      BY <2>5 DEF opMOVE, s, d
  <1>2. Keeps(c, opMOVEA(c, i))
    BY FetchType, FetchKeeps, SetKeeps, KeepsKeeps, Zenon DEF opMOVEA
  <1>3. Keeps(c, opPEA(c, i))
    BY eaDoneType, eaKeeps, PushKeeps, KeepsKeeps DEF opPEA
  <1>4. Keeps(c, opADD(c, i))
    <2>1. {} \in Word
      BY DEF Word
    <2>2. eaRead(c, i) \in CPU /\ Keeps(c, eaRead(c, i))
      BY <2>1, eaReadType, eaKeeps
    <2> QED
      BY <2>2, setCCRKeeps, KeepsKeeps DEF opADD
  <1> QED
    BY <1>1, <1>2, <1>3, <1>4 DEF Exchange

LEMMA TestKeeps ==
  ASSUME NEW c \in CPU, NEW i \in Instr, NEW j \in Word
  PROVE  Exchange(c, opDIVU(c, i, j)) /\ Exchange(c, opCHK(c, i, j))
  <1> DEFINE r == eaRead(c, i)
  <1>1. r \in CPU /\ Keeps(c, r) /\ Near(c, r) /\ i.q \in Word
    BY eaReadType, eaKeeps, eaNear, InstrFields
  <1> HIDE DEF r
  <1>2. flagS \notin {flagN, flagZ, flagV, flagC}
    BY DEF flagS, flagN, flagZ, flagV, flagC
  <1>3. Exchange(c, opDIVU(c, i, j))
    <2>1. Exchange(c, exception(r, vecDivideByZero))
      BY <1>1, exceptionExchange, NearExchange DEF vecDivideByZero
    <2>2. Keeps(c, [r EXCEPT !.sr = (r.sr \ {flagC, flagZ}) \cup {flagV, flagN}])
      BY <1>1, <1>2, SetKeeps, KeepsKeeps
    <2>3. Keeps(c, setFlagsLogical(r, i.q))
      BY <1>1, setCCRKeeps, KeepsKeeps
    <2> QED
      BY <2>1, <2>2, <2>3 DEF opDIVU, r, Exchange
  <1>4. Exchange(c, opCHK(c, i, j))
    <2> DEFINE clear == r.sr \ {flagN, flagZ, flagV, flagC}
               x == [r EXCEPT !.sr = clear \cup (i.q \cap {flagN})]
               y == [r EXCEPT !.sr = clear \cup (i.q \cap {flagZ})]
    <2>1. clear \cup (i.q \cap {flagN}) \in Word
      BY <1>1, Fields DEF Word
    <2>2. x \in CPU /\ Near(c, x)
      <3>1. x \in CPU
        <4> HIDE DEF clear
        <4> QED
          BY <1>1, <2>1, SetWord
      <3>2. Keeps(r, x) /\ x.A = r.A
        BY <1>1, <1>2, SetKeeps DEF CPU
      <3> HIDE DEF x
      <3> QED
        BY <1>1, <3>1, <3>2, KeepsKeeps DEF Near
    <2>3. Keeps(c, y)
      <3>1. Keeps(r, y)
        BY <1>1, <1>2, SetKeeps
      <3> HIDE DEF y
      <3> QED
        BY <1>1, <3>1, KeepsKeeps
    <2>4. Exchange(c, exception(x, vecCHK))
      <3> HIDE DEF x
      <3> QED
        BY <2>2, exceptionExchange, NearExchange DEF vecCHK
    <2> QED
      BY <2>3, <2>4 DEF opCHK, r, Exchange
  <1> QED
    BY <1>3, <1>4

-----------------------------------------------------------------------------
(***************************************************************************)
(* Every step is a step of the abstract stacks.                            *)
(***************************************************************************)
BankStep(c, d) == Exchange(c, d) \/ SetsUSP(c, d)

LEMMA FinishStep ==
  ASSUME NEW c, NEW d \in CPU, BankStep(c, d), Finish(d) PROVE BankStep(c, cpu')
  <1>1. Same(d, cpu')
    BY SetSame, Zenon DEF Finish
  <1> QED
    BY <1>1, ExchangeSame DEF BankStep, SetsUSP, Same

LEMMA FetchedKeeps ==
  ASSUME TypeOK, NEW d, BankStep(fetched, d) PROVE BankStep(cpu, d)
  <1>1. Keeps(cpu, fetched) /\ fetched.A = cpu.A
    BY DEF TypeOK, CPU, fetched, Keeps
  <1>2. CASE Exchange(fetched, d)
    BY <1>1, <1>2 DEF BankStep, Exchange, Keeps, Enters, Leaves, EntersBy, LeavesBy
  <1>3. CASE SetsUSP(fetched, d)
    BY <1>1, <1>3 DEF SetsUSP, Keeps, BankStep
  <1> QED
    BY <1>2, <1>3 DEF BankStep

LEMMA HandlerStep ==
  ASSUME TypeOK, NEW d \in CPU, BankStep(fetched, d), Finish(d) PROVE BankStep(cpu, cpu')
  BY FetchedKeeps, FinishStep

LEMMA ControlBank == ASSUME TypeOK, Control PROVE BankStep(cpu, cpu')
  <1>2. fetched \in CPU /\ \A op : Fetched(op) \subseteq Instr
    BY FetchedType
  <1>3. JunkWord \subseteq Word /\ JunkLong \subseteq Addr
    BY Board, Zenon DEF Board
  <1>4. CASE ILLEGAL \/ LINEA \/ LINEF \/ NOP
    <2>1. \A v \in {vecIllegalInstruction, vecLineA, vecLineF} :
            exception(fetched, v) \in CPU /\ BankStep(fetched, exception(fetched, v))
      <3>1. {vecIllegalInstruction, vecLineA, vecLineF} \subseteq 0 .. 255
        BY DEF vecIllegalInstruction, vecLineA, vecLineF
      <3> QED
        BY <1>2, <3>1, exceptionType, exceptionExchange, HereExchange, ZenonT(60) DEF BankStep
    <2>2. BankStep(fetched, fetched)
      BY DEF BankStep, Exchange, Keeps
    <2> QED
      BY <1>2, <1>4, <2>1, <2>2, HandlerStep DEF ILLEGAL, LINEA, LINEF, NOP
  <1>5. CASE STOP \/ RESET \/ TRAP \/ TRAPV \/ LINK
    <2>1. \A i \in Instr :
            /\ opSTOP(fetched, i) \in CPU /\ opRESET(fetched) \in CPU
            /\ opTRAP(fetched, i) \in CPU /\ opTRAPV(fetched) \in CPU
            /\ opLINK(fetched, i) \in CPU
      BY <1>2, ControlTypes, AddrInt, Zenon DEF Word
    <2>2. \A i \in Instr :
            /\ BankStep(fetched, opSTOP(fetched, i)) /\ BankStep(fetched, opRESET(fetched))
            /\ BankStep(fetched, opTRAP(fetched, i)) /\ BankStep(fetched, opTRAPV(fetched))
            /\ BankStep(fetched, opLINK(fetched, i))
      BY <1>2, ControlKeeps DEF BankStep
    <2> QED
      BY <1>2, <1>5, <2>1, <2>2, HandlerStep DEF STOP, RESET, TRAP, TRAPV, LINK
  <1>6. CASE UNLK
    <2>1. \A i \in Instr, j \in JunkLong :
            opUNLK(fetched, i, j) \in CPU /\ BankStep(fetched, opUNLK(fetched, i, j))
      BY <1>2, <1>3, ControlTypes, UNLKKeeps, Zenon DEF Word, BankStep
    <2> QED
      BY <1>2, <1>6, <2>1, HandlerStep DEF UNLK
  <1>7. CASE MOVEfromSR \/ MOVEtoUSP \/ MOVEfromUSP
    <2>1. \A i \in Instr : /\ opMOVEfromSR(fetched, i) \in CPU /\ opMOVEtoUSP(fetched, i) \in CPU
                           /\ opMOVEfromUSP(fetched, i) \in CPU
      BY <1>2, StatusTypes, Zenon DEF Word
    <2>2. \A i \in Instr : /\ BankStep(fetched, opMOVEfromSR(fetched, i))
                           /\ BankStep(fetched, opMOVEtoUSP(fetched, i))
                           /\ BankStep(fetched, opMOVEfromUSP(fetched, i))
      BY <1>2, StatusKeeps DEF BankStep
    <2> QED
      BY <1>2, <1>7, <2>1, <2>2, HandlerStep DEF MOVEfromSR, MOVEtoUSP, MOVEfromUSP
  <1>8. CASE MOVEtoCCR \/ MOVEtoSR
    <2>1. \A i \in Instr, j \in JunkWord :
            /\ opMOVEtoCCR(fetched, i, j) \in CPU /\ BankStep(fetched, opMOVEtoCCR(fetched, i, j))
            /\ opMOVEtoSR(fetched, i, j) \in CPU /\ BankStep(fetched, opMOVEtoSR(fetched, i, j))
      BY <1>2, <1>3, StatusTypes, MoveToStatusKeeps DEF BankStep
    <2> QED
      BY <1>2, <1>8, <2>1, HandlerStep DEF MOVEtoCCR, MOVEtoSR
  <1>9. CASE ANDItoCCR \/ ORItoCCR \/ EORItoCCR \/ ANDItoSR \/ ORItoSR \/ EORItoSR
    <2>1. \A i \in Instr :
            /\ opANDItoCCR(fetched, i) \in CPU /\ opORItoCCR(fetched, i) \in CPU
            /\ opEORItoCCR(fetched, i) \in CPU /\ opANDItoSR(fetched, i) \in CPU
            /\ opORItoSR(fetched, i) \in CPU /\ opEORItoSR(fetched, i) \in CPU
      BY <1>2, StatusTypes, Zenon DEF Word
    <2>2. \A i \in Instr :
            /\ BankStep(fetched, opANDItoCCR(fetched, i)) /\ BankStep(fetched, opORItoCCR(fetched, i))
            /\ BankStep(fetched, opEORItoCCR(fetched, i)) /\ BankStep(fetched, opANDItoSR(fetched, i))
            /\ BankStep(fetched, opORItoSR(fetched, i)) /\ BankStep(fetched, opEORItoSR(fetched, i))
      BY <1>2, StatusKeeps DEF BankStep
    <2> QED
      BY <1>2, <1>9, <2>1, <2>2, HandlerStep
        DEF ANDItoCCR, ORItoCCR, EORItoCCR, ANDItoSR, ORItoSR, EORItoSR
  <1> QED
    BY <1>4, <1>5, <1>6, <1>7, <1>8, <1>9 DEF Control

LEMMA FlowBank == ASSUME TypeOK, Flow PROVE BankStep(cpu, cpu')
  <1>2. fetched \in CPU /\ \A op : Fetched(op) \subseteq Instr
    BY FetchedType
  <1>3. JunkWord \subseteq Word /\ JunkLong \subseteq Addr
    BY Board, Zenon DEF Board
  <1>4. CASE Bcc \/ BRA \/ BSR \/ DBcc \/ JMP \/ JSR
    <2>1. \A i \in Instr :
            /\ opBcc(fetched, i) \in CPU /\ opBRA(fetched, i) \in CPU /\ opBSR(fetched, i) \in CPU
            /\ opDBcc(fetched, i) \in CPU /\ opJMP(fetched, i) \in CPU /\ opJSR(fetched, i) \in CPU
      BY <1>2, FlowTypes, AddrInt, Zenon DEF Word
    <2>2. \A i \in Instr :
            /\ BankStep(fetched, opBcc(fetched, i)) /\ BankStep(fetched, opBRA(fetched, i))
            /\ BankStep(fetched, opBSR(fetched, i)) /\ BankStep(fetched, opDBcc(fetched, i))
            /\ BankStep(fetched, opJMP(fetched, i)) /\ BankStep(fetched, opJSR(fetched, i))
      BY <1>2, FlowKeeps DEF BankStep
    <2> QED
      BY <1>2, <1>4, <2>1, <2>2, HandlerStep DEF Bcc, BRA, BSR, DBcc, JMP, JSR
  <1>5. CASE RTS
    <2>1. \A i \in Instr, j \in JunkLong : opRTS(fetched, j) \in CPU /\ BankStep(fetched, opRTS(fetched, j))
      BY <1>2, <1>3, FlowTypes, ReturnKeeps, Zenon DEF Word, BankStep
    <2> QED
      BY <1>2, <1>5, <2>1, HandlerStep DEF RTS
  <1>6. CASE RTE \/ RTR
    <2>1. \A i \in Instr, jw \in JunkWord, jl \in JunkLong :
            /\ opRTE(fetched, jw, jl) \in CPU /\ BankStep(fetched, opRTE(fetched, jw, jl))
            /\ opRTR(fetched, jw, jl) \in CPU /\ BankStep(fetched, opRTR(fetched, jw, jl))
      BY <1>2, <1>3, FlowTypes, ReturnKeeps DEF BankStep
    <2> QED
      BY <1>2, <1>6, <2>1, HandlerStep DEF RTE, RTR
  <1> QED
    BY <1>4, <1>5, <1>6 DEF Flow

LEMMA DataBank == ASSUME TypeOK, Data PROVE BankStep(cpu, cpu')
  <1>2. fetched \in CPU /\ \A op : Fetched(op) \subseteq Instr
    BY FetchedType
  <1>3. JunkWord \subseteq Word
    BY Board DEF Board
  <1>4. CASE DIVU \/ CHK
    <2>1. \A i \in Instr, j \in JunkWord :
            /\ opDIVU(fetched, i, j) \in CPU /\ BankStep(fetched, opDIVU(fetched, i, j))
            /\ opCHK(fetched, i, j) \in CPU /\ BankStep(fetched, opCHK(fetched, i, j))
      BY <1>2, <1>3, DataTypes, TestKeeps DEF BankStep
    <2> QED
      BY <1>2, <1>4, <2>1, HandlerStep DEF DIVU, CHK
  <1>5. CASE MOVE \/ MOVEA \/ PEA \/ ADD
    <2>1. \A i \in Instr : /\ opMOVE(fetched, i) \in CPU /\ opMOVEA(fetched, i) \in CPU
                           /\ opPEA(fetched, i) \in CPU /\ opADD(fetched, i) \in CPU
      BY <1>2, DataTypes, Zenon DEF Word
    <2>2. \A i \in Instr : /\ BankStep(fetched, opMOVE(fetched, i)) /\ BankStep(fetched, opMOVEA(fetched, i))
                           /\ BankStep(fetched, opPEA(fetched, i)) /\ BankStep(fetched, opADD(fetched, i))
      BY <1>2, DataKeeps DEF BankStep
    <2> QED
      BY <1>2, <1>5, <2>1, <2>2, HandlerStep DEF MOVE, MOVEA, PEA, ADD
  <1> QED
    BY <1>4, <1>5 DEF Data

LEMMA StepBank == ASSUME TypeOK, Step PROVE BankStep(cpu, cpu')
  <1>1. cpu \in CPU /\ fetched \in CPU /\ BankStep(cpu, cpu)
    BY FetchedType DEF TypeOK, BankStep, Exchange, Keeps
  <1>2. CASE HaltedStep \/ StoppedStep \/ TakeInterrupt
    BY <1>1, <1>2, interruptExchange, HereExchange DEF HaltedStep, StoppedStep, TakeInterrupt, vars,
       BankStep
  <1>3. CASE OddPC
    BY <1>1, <1>3, SetKeeps DEF OddPC, BankStep, Exchange
  <1>4. CASE PhantomORI
    <2>1. \A d : /\ setFlagsLogical(fetchPC(fetched), d) \in CPU
                 /\ BankStep(fetched, setFlagsLogical(fetchPC(fetched), d))
      BY <1>1, FetchType, FlagsType, FetchKeeps, setCCRKeeps, KeepsKeeps DEF BankStep, Exchange
    <2> QED
      BY <1>4, <2>1, HandlerStep DEF PhantomORI
  <1> QED
    BY <1>2, <1>3, <1>4, ControlBank, FlowBank, DataBank DEF Step

LEMMA PointerType == ASSUME NEW c \in CPU PROVE USP(c) \in 0 .. RegMod - 1 /\ SSP(c) \in 0 .. RegMod - 1
  BY AType, AddrInt, Fields DEF USP, SSP, Addr

LEMMA InitStacks == Init => Stacks!Init
  <1> SUFFICES ASSUME Init PROVE Stacks!Init
    OBVIOUS
  <1>1. cpu.sr = {flagS} \cup MaskBits /\ cpu.usp = 0 /\ cpu.A[7] = Vector[0]
    BY AddrInt DEF Init
  <1>2. supervisor(cpu) = TRUE
    BY <1>1 DEF supervisor
  <1> QED
    BY <1>1, <1>2 DEF Stacks!Init, USP, SSP

LEMMA BankStacks ==
  ASSUME TypeOK, TypeOK', BankStep(cpu, cpu') PROVE Stacks!Next
  <1>1. /\ USP(cpu)' \in 0 .. RegMod - 1 /\ SSP(cpu)' \in 0 .. RegMod - 1
    <2>1. cpu' \in CPU
      BY DEF TypeOK
    <2>2. USP(cpu)' = USP(cpu') /\ SSP(cpu)' = SSP(cpu')
      BY DEF USP, SSP, supervisor
    <2> QED
      BY <2>1, <2>2, PointerType
  <1> USE DEF Stacks!Pointer
  <1>2. CASE Keeps(cpu, cpu') /\ flagS \in cpu.sr
    <2>1. supervisor(cpu) /\ supervisor(cpu)' /\ USP(cpu)' = USP(cpu)
      BY <1>2 DEF Keeps, USP, supervisor
    <2> QED
      BY <1>1, <2>1 DEF Stacks!Next, Stacks!SuperStep
  <1>3. CASE Keeps(cpu, cpu') /\ flagS \notin cpu.sr
    <2>1. ~supervisor(cpu) /\ ~supervisor(cpu)' /\ SSP(cpu)' = SSP(cpu)
      BY <1>3 DEF Keeps, SSP, supervisor
    <2>2. supervisor(cpu)' = supervisor(cpu)
      BY <1>3 DEF Keeps, supervisor
    <2> QED
      BY <1>1, <2>1, <2>2 DEF Stacks!Next, Stacks!UserStep
  <1>4. CASE Enters(cpu, cpu')
    <2>1. /\ ~supervisor(cpu) /\ supervisor(cpu)' /\ SSP(cpu)' = (SSP(cpu) - 6) % RegMod
          /\ \E k \in {-2, 0, 2} : USP(cpu)' = (USP(cpu) + k) % RegMod
      BY <1>4 DEF Enters, EntersBy, SSP, USP, supervisor, Add
    <2> QED
      BY <1>1, <2>1 DEF Stacks!Next, Stacks!Enter
  <1>5. CASE Leaves(cpu, cpu')
    <2>1. /\ supervisor(cpu) /\ ~supervisor(cpu)' /\ USP(cpu)' = USP(cpu)
          /\ \E k \in {-2, 0, 2, 6} : SSP(cpu)' = (SSP(cpu) + k) % RegMod
      BY <1>5 DEF Leaves, LeavesBy, USP, SSP, supervisor, Add
    <2> QED
      BY <1>1, <2>1 DEF Stacks!Next, Stacks!Leave
  <1>6. CASE SetsUSP(cpu, cpu')
    <2>1. supervisor(cpu) /\ supervisor(cpu)' /\ SSP(cpu)' = SSP(cpu)
      BY <1>6 DEF SetsUSP, SSP, supervisor
    <2> QED
      BY <1>1, <2>1 DEF Stacks!Next, Stacks!LoadUSP
  <1> QED
    BY <1>2, <1>3, <1>4, <1>5, <1>6 DEF BankStep, Exchange

LEMMA HostStacks ==
  ASSUME TypeOK, Reset \/ Loaded \/ Device \/ Line PROVE [Stacks!Next]_(Stacks!bank)
  <1>1. cpu \in CPU
    BY DEF TypeOK
  <1>2. CASE Reset
    <2>1. cpu'.sr = {flagS} \cup MaskBits /\ cpu'.usp = 0 /\ cpu'.A[7] = Vector[0]
      BY <1>1, <1>2, AddrInt DEF Reset, CPU
    <2>2. supervisor(cpu)' = TRUE
      BY <2>1 DEF supervisor
    <2>3. USP(cpu)' = 0 /\ SSP(cpu)' = Vector[0]
      BY <2>1, <2>2 DEF USP, SSP, supervisor
    <2> QED
      BY <2>2, <2>3 DEF Stacks!Next, Stacks!Reset
  <1>3. CASE Device \/ Line
    <2>1. cpu'.sr = cpu.sr /\ cpu'.A = cpu.A /\ cpu'.usp = cpu.usp /\ cpu'.ssp = cpu.ssp
      BY <1>1, <1>3, Zenon DEF Device, Line, RequestInterrupt, SetIPL, CPU
    <2>2. supervisor(cpu)' = supervisor(cpu)
      BY <2>1 DEF supervisor
    <2>3. USP(cpu)' = USP(cpu) /\ SSP(cpu)' = SSP(cpu)
      BY <2>1 DEF USP, SSP, supervisor
    <2> QED
      BY <2>2, <2>3 DEF Stacks!bank
  <1>4. CASE Loaded
    <2>1. PICK regs \in Loads : SetState(regs)
      BY <1>4 DEF Loaded
    <2> DEFINE A1 == [regs.A EXCEPT ![7] = IF flagS \in regs.sr THEN regs.ssp ELSE regs.usp]
    <2>2. regs.A \in [AReg -> Addr] /\ 7 \in AReg
      BY Board, Zenon DEF Board
    <2>3. A1[7] = IF flagS \in regs.sr THEN regs.ssp ELSE regs.usp
      BY <2>2
    <2>4. cpu'.sr = regs.sr /\ cpu'.usp = regs.usp /\ cpu'.ssp = regs.ssp /\ cpu'.A = A1
      BY <1>1, <2>1 DEF SetState, CPU
    <2> HIDE DEF A1
    <2>5. supervisor(cpu)' = (flagS \in regs.sr)
      BY <2>4 DEF supervisor
    <2>6. USP(cpu)' = regs.usp /\ SSP(cpu)' = regs.ssp
      BY <2>3, <2>4 DEF USP, SSP, supervisor
    <2>7. Stacks!Load
      <3> DEFINE l == [super |-> flagS \in regs.sr, usp |-> regs.usp, ssp |-> regs.ssp]
      <3>1. l \in {[super |-> flagS \in r.sr, usp |-> r.usp, ssp |-> r.ssp] : r \in Loads}
        OBVIOUS
      <3>2. supervisor(cpu)' = l.super /\ USP(cpu)' = l.usp /\ SSP(cpu)' = l.ssp
        BY <2>5, <2>6
      <3> QED
        BY <3>1, <3>2 DEF Stacks!Load
    <2> QED
      BY <2>7 DEF Stacks!Next
  <1> QED
    BY <1>2, <1>3, <1>4

\* A[7], USP and SSP implement two separate stack pointers, for every program,
\* vector table, memory and sequence of requests, resets and loads: the exchanges
\* written out in setSR, exception and processInterrupt agree.
THEOREM StacksAreBanked == Spec => BankedStacks
  <1>1. ASSUME TypeOK, TypeOK', [Next]_vars PROVE [Stacks!Next]_(Stacks!bank)
    <2>1. CASE Step
      BY <1>1, <2>1, StepBank, BankStacks
    <2>2. CASE Reset \/ Loaded \/ Device \/ Line
      BY <1>1, <2>2, HostStacks
    <2>3. CASE UNCHANGED vars
      BY <2>3 DEF vars, Stacks!bank, USP, SSP, supervisor
    <2> QED
      BY <1>1, <2>1, <2>2, <2>3 DEF Next
  <1> QED
    BY <1>1, InitStacks, CPUTypeCorrect, PTL DEF Spec, BankedStacks, Stacks!Spec

-----------------------------------------------------------------------------
(***************************************************************************)
(* How supervisor mode is entered: what exception and processInterrupt     *)
(* leave in SR, on the supervisor stack and in memory, for every program,  *)
(* board and width, and why no other handler touches the system byte in    *)
(* user mode.                                                              *)
(***************************************************************************)
-----------------------------------------------------------------------------
(***************************************************************************)
(* Addresses.  A register wraps at RegMod, the bus at BusMod, and RegMod   *)
(* is a multiple of BusMod.                                                *)
(***************************************************************************)
LEMMA Division ==
  ASSUME NEW B \in Nat \ {0}, NEW x \in Int
  PROVE  x \div B \in Int /\ x % B \in 0 .. B - 1 /\ x = B * (x \div B) + (x % B)
  OBVIOUS

\* The remainder is unique.
LEMMA Remainder ==
  ASSUME NEW B \in Nat \ {0}, NEW h \in Int, NEW r \in 0 .. B - 1
  PROVE  (B * h + r) % B = r
  <1> DEFINE x == B * h + r
             q == x \div B
             m == x % B
  <1>1. x = B * q + m /\ q \in Int /\ m \in 0 .. B - 1
    <2>1. x \in Int
      OBVIOUS
    <2> HIDE DEF x
    <2> QED
      BY <2>1, Division
  <1> HIDE DEF q, m
  <1>2. B * (h - q) = m - r
    BY <1>1
  <1>3. CASE h - q >= 1
    <2>1. B * (h - q) >= B
      BY <1>1, <1>3
    <2> QED
      BY <1>1, <1>2, <2>1
  <1>4. CASE h - q <= -1
    <2>1. B * (h - q) <= -B
      BY <1>1, <1>4
    <2> QED
      BY <1>1, <1>2, <2>1
  <1> QED
    BY <1>1, <1>2, <1>3, <1>4 DEF m

\* Adding multiples of the modulus changes nothing.
LEMMA WholeTurns ==
  ASSUME NEW B \in Nat \ {0}, NEW h \in Int, NEW y \in Int
  PROVE  (B * h + y) % B = y % B
  <1> DEFINE q == y \div B
             r == y % B
  <1>1. q \in Int /\ r \in 0 .. B - 1 /\ y = B * q + r
    BY Division
  <1> HIDE DEF q, r
  <1>2. B * h + y = B * (h + q) + r /\ h + q \in Int
    BY <1>1
  <1> QED
    BY <1>1, <1>2, Remainder, Zenon DEF r

\* An address reduced to a register and then to the bus.
LEMMA BusOfReg == ASSUME NEW x \in Int PROVE (x % RegMod) % BusMod = x % BusMod
  <1>1. BusMod \in Nat \ {0} /\ RegMod \in Nat \ {0} /\ RegMod % BusMod = 0
    BY Widths DEF Widths
  <1> DEFINE k == RegMod \div BusMod
             q == x \div RegMod
             r == x % RegMod
  <1>2. k \in Int /\ RegMod = BusMod * k
    BY <1>1, Division
  <1>3. q \in Int /\ r \in Int /\ x = RegMod * q + r
    BY <1>1, Division
  <1> HIDE DEF k, q, r
  <1>4. x = BusMod * (k * q) + r /\ k * q \in Int
    BY <1>1, <1>2, <1>3
  <1>5. x % BusMod = r % BusMod
    BY <1>1, <1>3, <1>4, WholeTurns, Zenon
  <1> QED
    BY <1>5 DEF r

\* Wrapping keeps an address odd or even.
LEMMA Parity ==
  ASSUME NEW x \in Int
  PROVE  (x % RegMod) % 2 = x % 2 /\ (x % BusMod) % 2 = x % 2
  <1>1. /\ BusMod \in Nat \ {0} /\ RegMod \in Nat \ {0}
        /\ RegMod % BusMod = 0 /\ BusMod % 2 = 0
    BY Widths DEF Widths
  <1>2. ASSUME NEW M \in Nat \ {0}, NEW m \in Int, M = 2 * m PROVE (x % M) % 2 = x % 2
    <2> DEFINE q == x \div M
               r == x % M
    <2>1. q \in Int /\ r \in Int /\ x = M * q + r
      BY Division
    <2> HIDE DEF q, r
    <2>2. x = 2 * (m * q) + r /\ m * q \in Int
      BY <1>2, <2>1
    <2> QED
      BY <2>1, <2>2, WholeTurns DEF r
  <1> DEFINE b == BusMod \div 2
             k == RegMod \div BusMod
  <1>3. b \in Int /\ BusMod = 2 * b
    BY <1>1
  <1>4. k \in Int /\ RegMod = BusMod * k
    BY <1>1, Division
  <1> HIDE DEF b, k
  <1>5. RegMod = 2 * (b * k) /\ b * k \in Int
    BY <1>3, <1>4
  <1> QED
    BY <1>1, <1>2, <1>3, <1>5

\* The three words of a frame are three different words of the bus.
LEMMA Apart ==
  ASSUME NEW x \in Int
  PROVE  /\ x % BusMod # (x + 2) % BusMod /\ x % BusMod # (x + 4) % BusMod
         /\ (x + 2) % BusMod # (x + 4) % BusMod
  <1>1. BusMod \in Nat \ {0} /\ BusMod > 6
    BY Widths DEF Widths
  <1> DEFINE q == x \div BusMod
             r == x % BusMod
  <1>2. q \in Int /\ r \in 0 .. BusMod - 1 /\ x = BusMod * q + r
    BY <1>1, Division
  <1>3. ASSUME NEW n \in Int PROVE (x + n) % BusMod = (r + n) % BusMod
    <2> HIDE DEF q, r
    <2>1. x + n = BusMod * q + (r + n) /\ r + n \in Int
      BY <1>1, <1>2
    <2>2. (BusMod * q + (r + n)) % BusMod = (r + n) % BusMod
      BY <1>1, <1>2, <2>1, WholeTurns, Zenon
    <2> QED
      BY <2>1, <2>2
  <1>4. ASSUME NEW n \in {2, 4}
        PROVE  (r + n) % BusMod = IF r + n < BusMod THEN r + n ELSE r + n - BusMod
    <2>1. ASSUME NEW t \in 0 .. 2 * BusMod - 1
          PROVE  t % BusMod = IF t < BusMod THEN t ELSE t - BusMod
      BY <1>1
    <2> HIDE DEF q, r
    <2>2. r + n \in 0 .. 2 * BusMod - 1
      BY <1>1, <1>2
    <2> QED
      BY <1>1, <1>2, <2>1, <2>2
  <1> HIDE DEF q
  <1> QED
    BY <1>1, <1>2, <1>3, <1>4

-----------------------------------------------------------------------------
(***************************************************************************)
(* The frame.  Stacked says what the three words above sp hold, as far as  *)
(* they lie in RAM.                                                        *)
(***************************************************************************)
Stacked(bus, sp, pc, sr) ==
  LET at(n) == Add(sp, n) % BusMod
  IN /\ at(0) \in RAM => bus[at(0)] = WordCell(sr)
     /\ at(2) \in RAM => bus[at(2)] = HalfCell("hi", pc)
     /\ at(4) \in RAM => bus[at(4)] = HalfCell("lo", pc)

\* What a push leaves: the address, the cells, and everything else as it was.
Unmoved(c, d) ==
  /\ d.sr = c.sr /\ d.pendingIPL = c.pendingIPL /\ d.usp = c.usp /\ d.ssp = c.ssp


LongBus(c, a, v) ==
  [p \in RAM |-> IF Live(c, a) /\ p = a % BusMod THEN HalfCell("hi", v)
                 ELSE IF Live(c, a) /\ p = (a + 2) % BusMod THEN HalfCell("lo", v)
                 ELSE c.bus[p]]
WordBus(c, a, v) ==
  [p \in RAM |-> IF Live(c, a) /\ p = a % BusMod THEN WordCell(v) ELSE c.bus[p]]

LEMMA Lowered ==
  ASSUME NEW c \in CPU, NEW a \in Addr
  PROVE  /\ [c EXCEPT !.A[7] = a] \in CPU /\ [c EXCEPT !.A[7] = a].A[7] = a
         /\ Unmoved(c, [c EXCEPT !.A[7] = a])
         /\ [c EXCEPT !.A[7] = a].halted = c.halted /\ [c EXCEPT !.A[7] = a].bus = c.bus
  <1>1. c.A \in [AReg -> Addr] /\ 7 \in AReg
    BY Fields, AddrInt
  <1>2. [c EXCEPT !.A[7] = a] \in CPU
    BY <1>1, SetA
  <1> QED
    BY <1>1, <1>2 DEF CPU, Unmoved

LEMMA LongPushed ==
  ASSUME NEW c \in CPU, NEW v, NEW a, a = Add(c.A[7], -4), NEW d, d = pushLong(c, v)
  PROVE  /\ a \in Addr /\ d.A[7] = a /\ Unmoved(c, d)
         /\ d.halted = (c.halted \/ a % 2 # 0) /\ d.bus = LongBus(c, a, v)
  <1> DEFINE e == [c EXCEPT !.A[7] = a]
  <1>1. a \in Addr
    BY AType, AddrInt, AddType
  <1>2. d = WriteLong(e, a, v)
    BY DEF pushLong
  <1>3. e \in CPU /\ e.A[7] = a /\ Unmoved(c, e) /\ e.halted = c.halted /\ e.bus = c.bus
    BY <1>1, Lowered
  <1> HIDE DEF e
  <1> DEFINE h == e.halted \/ a % 2 # 0
             b == LongBus(e, a, v)
  <1>5. d = [e EXCEPT !.halted = h, !.bus = b]
    BY <1>2 DEF WriteLong, LongBus
  <1>6. b = LongBus(c, a, v) /\ h = (c.halted \/ a % 2 # 0)
    <2>1. Live(e, a) = Live(c, a)
      BY <1>3 DEF Live
    <2>2. b = LongBus(c, a, v)
      BY <1>3, <2>1 DEF LongBus
    <2> QED
      BY <1>3, <2>2
  <1> HIDE DEF h, b
  <1>7. d.A = e.A /\ Unmoved(e, d) /\ d.halted = h /\ d.bus = b
    BY <1>3, <1>5 DEF CPU, Unmoved
  <1> QED
    BY <1>1, <1>3, <1>6, <1>7 DEF Unmoved

LEMMA WordPushed ==
  ASSUME NEW c \in CPU, NEW w, NEW a, a = Add(c.A[7], -2), NEW d, d = pushWord(c, w)
  PROVE  /\ a \in Addr /\ d.A[7] = a /\ Unmoved(c, d)
         /\ d.halted = (c.halted \/ a % 2 # 0) /\ d.bus = WordBus(c, a, w)
  <1> DEFINE e == [c EXCEPT !.A[7] = a]
  <1>1. a \in Addr
    BY AType, AddrInt, AddType
  <1>2. d = WriteWord(e, a, w)
    BY DEF pushWord
  <1>3. e \in CPU /\ e.A[7] = a /\ Unmoved(c, e) /\ e.halted = c.halted /\ e.bus = c.bus
    BY <1>1, Lowered
  <1> HIDE DEF e
  <1> DEFINE h == e.halted \/ a % 2 # 0
             b == WordBus(e, a, w)
  <1>5. d = [e EXCEPT !.halted = h, !.bus = b]
    BY <1>2 DEF WriteWord, WordBus
  <1>6. b = WordBus(c, a, w) /\ h = (c.halted \/ a % 2 # 0)
    <2>1. Live(e, a) = Live(c, a)
      BY <1>3 DEF Live
    <2>2. b = WordBus(c, a, w)
      BY <1>3, <2>1 DEF WordBus
    <2> QED
      BY <1>3, <2>2
  <1> HIDE DEF h, b
  <1>7. d.A = e.A /\ Unmoved(e, d) /\ d.halted = h /\ d.bus = b
    BY <1>3, <1>5 DEF CPU, Unmoved
  <1> QED
    BY <1>1, <1>3, <1>6, <1>7 DEF Unmoved

\* The words of a frame whose last push went to a: their bus addresses.
LEMMA FrameCells ==
  ASSUME NEW x \in Addr, NEW y, y = Add(x, -2)
  PROVE  /\ y \in Addr /\ Add(y, 0) = y
         /\ Add(y, 2) % BusMod = x % BusMod /\ Add(y, 4) % BusMod = (x + 2) % BusMod
         /\ y % BusMod # x % BusMod /\ y % BusMod # (x + 2) % BusMod
         /\ x % BusMod # (x + 2) % BusMod
         /\ y % 2 = x % 2
  <1>1. RegMod \in Nat /\ RegMod > 6 /\ x \in 0 .. RegMod - 1 /\ x \in Int
    BY Widths DEF Widths, Addr
  <1>2. y \in Addr /\ Add(y, 0) = y /\ y \in Int
    <2>1. y \in Addr
      BY <1>1, AddType
    <2> QED
      BY <2>1, AddZero, AddrInt
  <1>3. Add(y, 2) = x /\ Add(y, 4) = Add(x, 2)
    <2>1. CASE x < 2
      BY <1>1, <2>1 DEF Add
    <2>2. CASE x >= 2 /\ x + 2 < RegMod
      BY <1>1, <2>2 DEF Add
    <2>3. CASE x + 2 >= RegMod
      BY <1>1, <2>3 DEF Add
    <2> QED
      BY <1>1, <2>1, <2>2, <2>3
  <1>4. Add(y, 2) % BusMod = (y + 2) % BusMod /\ Add(y, 4) % BusMod = (y + 4) % BusMod
        /\ Add(x, 2) % BusMod = (x + 2) % BusMod
    BY <1>1, <1>2, BusOfReg DEF Add
  <1>5. y % 2 = (x - 2) % 2
    <2>1. x + -2 \in Int /\ y = (x + -2) % RegMod /\ x + -2 = x - 2
      BY <1>1 DEF Add
    <2> QED
      BY <2>1, Parity
  <1>6. (x - 2) % 2 = x % 2
    BY <1>1
  <1> QED
    BY <1>2, <1>3, <1>4, <1>5, <1>6, Apart

\* The bus addresses of the three words above sp.
CellsOf(sp) == {Add(sp, n) % BusMod : n \in {0, 2, 4}}

LEMMA FrameStacked ==
  ASSUME NEW e \in CPU, NEW pc \in Addr, NEW sr \in Word
  PROVE  LET s == stackFrame(e, pc, sr)
         IN /\ s \in CPU /\ Unmoved(e, s) /\ s.A[7] = (e.A[7] - 6) % RegMod
            /\ e.halted \/ e.A[7] % 2 # 0 => s.halted /\ s.bus = e.bus
            /\ ~s.halted => Stacked(s.bus, s.A[7], pc, sr)
            /\ \A p \in RAM \ CellsOf(s.A[7]) : s.bus[p] = e.bus[p]
  <1> DEFINE x == Add(e.A[7], -4)
             p == pushLong(e, pc)
             y == Add(x, -2)
             s == pushWord(p, sr)
  <1>1. stackFrame(e, pc, sr) = s
    BY DEF stackFrame
  <1>2. p \in CPU /\ s \in CPU
    BY PushType
  <1>3. /\ x \in Addr /\ p.A[7] = x /\ Unmoved(e, p)
        /\ p.halted = (e.halted \/ x % 2 # 0) /\ p.bus = LongBus(e, x, pc)
    BY LongPushed
  <1>4. /\ y \in Addr /\ s.A[7] = y /\ Unmoved(p, s)
        /\ s.halted = (p.halted \/ y % 2 # 0) /\ s.bus = WordBus(p, y, sr)
    <2> HIDE DEF p, x
    <2> QED
      BY <1>2, <1>3, WordPushed
  <1>5. /\ Add(y, 0) = y /\ Add(y, 2) % BusMod = x % BusMod /\ Add(y, 4) % BusMod = (x + 2) % BusMod
        /\ y % BusMod # x % BusMod /\ y % BusMod # (x + 2) % BusMod
        /\ x % BusMod # (x + 2) % BusMod /\ y % 2 = x % 2
    <2> HIDE DEF x
    <2> QED
      BY <1>3, FrameCells
  <1>6. e.A[7] \in Addr /\ e.A[7] \in Int /\ e.bus \in [RAM -> Cell]
    BY AType, AddrInt, Fields
  <1>7. y = (e.A[7] - 6) % RegMod
    BY <1>6, FramePointer
  <1>8. x % 2 = e.A[7] % 2
    <2>1. e.A[7] + -4 \in Int /\ (e.A[7] + -4) % 2 = e.A[7] % 2
      BY <1>6
    <2> QED
      BY <2>1, Parity DEF Add
  <1> HIDE DEF x, y, p, s
  <1>9. ASSUME e.halted \/ e.A[7] % 2 # 0 PROVE s.halted /\ s.bus = e.bus
    <2>1. p.halted /\ ~Live(e, x) /\ ~Live(p, y)
      BY <1>3, <1>8, <1>9, Zenon DEF Live
    <2>2. p.bus = e.bus
      BY <1>3, <1>6, <2>1 DEF LongBus
    <2> QED
      BY <1>4, <1>6, <2>1, <2>2, Zenon DEF WordBus
  <1>10. ASSUME ~s.halted PROVE Stacked(s.bus, y, pc, sr)
    <2>1. Live(e, x) /\ Live(p, y)
      <3>1. ~p.halted /\ ~(y % 2 # 0) /\ ~e.halted /\ ~(x % 2 # 0)
        BY <1>3, <1>4, <1>10, Zenon
      <3> QED
        BY <3>1 DEF Live
    <2>2. y % BusMod \in RAM => s.bus[y % BusMod] = WordCell(sr)
      BY <1>4, <2>1 DEF WordBus
    <2>3. \A a \in RAM : a # y % BusMod => s.bus[a] = p.bus[a]
      BY <1>4 DEF WordBus
    <2>4. x % BusMod \in RAM => p.bus[x % BusMod] = HalfCell("hi", pc)
      BY <1>3, <2>1 DEF LongBus
    <2>5. (x + 2) % BusMod \in RAM => p.bus[(x + 2) % BusMod] = HalfCell("lo", pc)
      BY <1>3, <1>5, <2>1 DEF LongBus
    <2> QED
      BY <1>5, <2>2, <2>3, <2>4, <2>5 DEF Stacked
  <1>11. ASSUME NEW a \in RAM \ CellsOf(y) PROVE s.bus[a] = e.bus[a]
    <2>1. a # y % BusMod /\ a # x % BusMod /\ a # (x + 2) % BusMod
      <3>1. \A n \in {0, 2, 4} : a # Add(y, n) % BusMod
        BY DEF CellsOf
      <3> QED
        BY <1>5, <3>1
    <2>2. s.bus[a] = p.bus[a]
      BY <1>4, <2>1 DEF WordBus
    <2>3. p.bus[a] = e.bus[a]
      BY <1>3, <2>1 DEF LongBus
    <2> QED
      BY <2>2, <2>3
  <1>12. Unmoved(e, s)
    BY <1>3, <1>4 DEF Unmoved
  <1> QED
    BY <1>1, <1>2, <1>4, <1>7, <1>9, <1>10, <1>11, <1>12

-----------------------------------------------------------------------------
(***************************************************************************)
(* The two ways in.  Entered relates the state before an exception or an   *)
(* interrupt to the one after it; pc is the saved program counter.         *)
(***************************************************************************)
Entered(c, d, pc) ==
  /\ flagS \in d.sr /\ flagT \notin d.sr
  /\ d.A[7] = (SSP(c) - 6) % RegMod
  /\ c.halted \/ SSP(c) % 2 # 0 => d.halted /\ d.bus = c.bus
  /\ ~d.halted => (\E v \in 0 .. 255 : d.pc = Vector[v]) /\ Stacked(d.bus, d.A[7], pc, c.sr)
  /\ \A p \in RAM \ CellsOf(d.A[7]) : d.bus[p] = c.bus[p]

SupervisorSR(sr) == (sr \cup {flagS}) \ {flagT}

LEMMA enterStack ==
  ASSUME NEW c \in CPU
  PROVE  /\ enterSupervisor(c).A[7] = SSP(c) /\ enterSupervisor(c).sr = SupervisorSR(c.sr)
         /\ enterSupervisor(c).halted = c.halted /\ enterSupervisor(c).bus = c.bus
         /\ enterSupervisor(c).pendingIPL = c.pendingIPL
         /\ enterSupervisor(c).usp = USP(c)
  <1>1. c.A \in [AReg -> Addr] /\ 7 \in AReg
    BY Fields, AddrInt
  <1>2. \A u, a, w : LET e == [c EXCEPT !.usp = u, !.A[7] = a, !.sr = w]
                    IN /\ e.A[7] = a /\ e.sr = w /\ e.halted = c.halted /\ e.bus = c.bus
                       /\ e.pendingIPL = c.pendingIPL /\ e.usp = u
    BY <1>1 DEF CPU
  <1> QED
    BY <1>2 DEF enterSupervisor, SSP, USP, SupervisorSR

\* The frame is stacked from a state e whose pointer, memory and halted flag
\* are those of entering from c; d differs from the result in pc, halted and
\* stopped only.
LEMMA EntryFrame ==
  ASSUME NEW c \in CPU, NEW e \in CPU, NEW pc \in Addr, NEW d,
         e.A[7] = SSP(c), e.bus = c.bus, e.halted = c.halted,
         flagS \in e.sr, flagT \notin e.sr,
         d.sr = stackFrame(e, pc, c.sr).sr, d.A = stackFrame(e, pc, c.sr).A,
         d.bus = stackFrame(e, pc, c.sr).bus,
         stackFrame(e, pc, c.sr).halted => d.halted,
         ~d.halted => \E v \in 0 .. 255 : d.pc = Vector[v]
  PROVE  Entered(c, d, pc)
  <1> DEFINE s == stackFrame(e, pc, c.sr)
  <1>1. c.sr \in Word
    BY Fields
  <1>2. /\ s \in CPU /\ Unmoved(e, s) /\ s.A[7] = (e.A[7] - 6) % RegMod
        /\ e.halted \/ e.A[7] % 2 # 0 => s.halted /\ s.bus = e.bus
        /\ ~s.halted => Stacked(s.bus, s.A[7], pc, c.sr)
        /\ \A p \in RAM \ CellsOf(s.A[7]) : s.bus[p] = e.bus[p]
    BY <1>1, FrameStacked, Zenon
  <1> HIDE DEF s
  <1>3. d.sr = e.sr /\ d.A[7] = s.A[7] /\ d.bus = s.bus /\ (s.halted => d.halted)
    BY <1>2, Zenon DEF s, Unmoved
  <1> QED
    BY <1>2, <1>3, Zenon DEF Entered

PushedPC(c, v) ==
  IF v \in {vecIllegalInstruction, vecPrivilegeViolation, vecLineA, vecLineF}
  THEN c.prevPC ELSE c.pc

LEMMA exceptionEntered ==
  ASSUME NEW c \in CPU, NEW v \in 0 .. 255
  PROVE  /\ Entered(c, exception(c, v), PushedPC(c, v))
         /\ exception(c, v).sr = SupervisorSR(c.sr)
         /\ exception(c, v).pendingIPL = c.pendingIPL
  <1> DEFINE pc == PushedPC(c, v)
             e == enterSupervisor(c)
             s == stackFrame(e, pc, c.sr)
             first == ReadVector(s, v)
             addr == IF first = 0 THEN ReadVector(s, vecUninitialized) ELSE first
             d == exception(c, v)
  <1>1. pc \in Addr /\ c.sr \in Word /\ e \in CPU
    BY Fields, enterType DEF PushedPC
  <1>2. /\ e.A[7] = SSP(c) /\ e.sr = SupervisorSR(c.sr) /\ e.halted = c.halted
        /\ e.bus = c.bus /\ e.pendingIPL = c.pendingIPL
    BY enterStack
  <1>3. d = IF addr = 0 THEN [s EXCEPT !.halted = TRUE] ELSE [s EXCEPT !.pc = addr]
    BY DEF exception, PushedPC
  <1>4. flagS \in e.sr /\ flagT \notin e.sr
    BY <1>2 DEF SupervisorSR, flagS, flagT
  <1> HIDE DEF e, pc, d
  <1>5. s \in CPU /\ Unmoved(e, s)
    BY <1>1, FrameStacked
  <1> HIDE DEF s
  <1>6. addr # 0 => ~s.halted /\ \E n \in 0 .. 255 : addr = Vector[n]
    <2>1. vecUninitialized \in 0 .. 255
      BY DEF vecUninitialized
    <2> QED
      BY <2>1, Zenon DEF ReadVector
  <1> HIDE DEF addr
  <1>7. d.sr = s.sr /\ d.A = s.A /\ d.bus = s.bus /\ d.pendingIPL = s.pendingIPL
    BY <1>3, <1>5 DEF CPU
  <1>8. CASE addr = 0
    <2>1. d.halted
      BY <1>3, <1>5, <1>8 DEF CPU
    <2> QED
      BY <1>1, <1>2, <1>4, <1>5, <1>7, <2>1, EntryFrame, Zenon DEF s, Unmoved, pc, d
  <1>9. CASE addr # 0
    <2>1. d.pc = addr /\ d.halted = s.halted
      BY <1>3, <1>5, <1>9 DEF CPU
    <2>2. Entered(c, d, pc)
      BY <1>1, <1>2, <1>4, <1>6, <1>7, <1>9, <2>1, EntryFrame, Zenon DEF s
    <2> QED
      BY <1>2, <1>5, <1>7, <2>2 DEF Unmoved, pc, d
  <1> QED
    BY <1>8, <1>9

LEMMA interruptEntered ==
  ASSUME NEW c \in CPU
  PROVE  LET d == processInterrupt(c)
         IN /\ Entered(c, d, c.pc)
            /\ d.sr = (SupervisorSR(c.sr) \ MaskBits) \cup LevelBits(c.pendingIPL)
            /\ d.pendingIPL = 0 /\ ~d.stopped
  <1> DEFINE level == c.pendingIPL
             sr == (SupervisorSR(c.sr) \ MaskBits) \cup LevelBits(level)
             n == enterSupervisor(c)
             e == [n EXCEPT !.pendingIPL = 0, !.pendingVec = nil, !.sr = sr]
             s == stackFrame(e, c.pc, c.sr)
             vec == IF c.pendingVec # nil THEN c.pendingVec ELSE 24 + level
             first == ReadVector(s, vec)
             addr == IF first = 0 THEN ReadVector(s, vecSpuriousInterrupt) ELSE first
             d == processInterrupt(c)
  <1>1. c.pc \in Addr /\ c.sr \in Word /\ n \in CPU
    BY Fields, enterType
  <1>2. /\ n.A[7] = SSP(c) /\ n.sr = SupervisorSR(c.sr) /\ n.halted = c.halted /\ n.bus = c.bus
    BY enterStack
  <1>3. sr \in Word /\ flagS \in sr /\ flagT \notin sr
    <2>1. LevelBits(level) \subseteq MaskBits
      BY LevelBitsType
    <2> QED
      BY <1>1, <2>1 DEF SupervisorSR, Word, flagS, flagT, MaskBits
  <1>4. d = [s EXCEPT !.pc = addr, !.stopped = FALSE]
    BY <1>2 DEF processInterrupt
  <1> HIDE DEF d, n, sr
  <1>5. /\ e \in CPU /\ e.A = n.A /\ e.halted = n.halted /\ e.bus = n.bus /\ e.sr = sr
        /\ e.pendingIPL = 0
    <2>1. 0 \in 0 .. 7 /\ nil \in {nil} \cup (0 .. 255)
      OBVIOUS
    <2>2. e \in CPU
      BY <1>1, <1>3, <2>1, SetRequest, Zenon
    <2> QED
      BY <1>1, <2>2 DEF CPU
  <1> HIDE DEF e
  <1>6. s \in CPU /\ Unmoved(e, s)
    BY <1>1, <1>5, FrameStacked
  <1> HIDE DEF s
  <1>7. vec \in 0 .. 255
    BY Fields
  <1> HIDE DEF vec
  <1>8. ~s.halted => \E v \in 0 .. 255 : addr = Vector[v]
    <2>1. vecSpuriousInterrupt \in 0 .. 255
      BY DEF vecSpuriousInterrupt
    <2> QED
      BY <1>7, <2>1 DEF ReadVector
  <1> HIDE DEF addr
  <1>9. /\ d.sr = s.sr /\ d.A = s.A /\ d.bus = s.bus /\ d.pendingIPL = s.pendingIPL
        /\ d.halted = s.halted /\ d.pc = addr /\ d.stopped = FALSE
    BY <1>4, <1>6 DEF CPU
  <1>10. Entered(c, d, c.pc)
    BY <1>1, <1>2, <1>3, <1>5, <1>8, <1>9, EntryFrame, Zenon DEF s
  <1> QED
    BY <1>5, <1>6, <1>9, <1>10 DEF Unmoved, d, sr

-----------------------------------------------------------------------------
(***************************************************************************)
(* What a handler does to the system byte.  A plain one keeps it; in user  *)
(* mode the others go through the vector table.                            *)
(***************************************************************************)
SameSystem(c, d) == d.sr \cap SystemBits = c.sr \cap SystemBits

VectorEntry(c, d) ==
  /\ flagS \in d.sr /\ flagT \notin d.sr
  /\ d.sr \cap MaskBits \in {c.sr \cap MaskBits, LevelBits(c.pendingIPL)}
  /\ \/ d.halted
     \/ /\ \E v \in 0 .. 255 : d.pc = Vector[v]
        /\ FrameAt(d, d.A[7])
        /\ d.A[7] % BusMod \in RAM => SavedSR(d, d.A[7]) \cap SystemBits = c.sr \cap SystemBits
  /\ c.ssp % 2 # 0 => d.bus = c.bus

Plain(c, d) ==
  /\ d.pendingIPL = c.pendingIPL /\ SameSystem(c, d)
  /\ c.sr \subseteq ValidSR => d.sr \subseteq ValidSR

Tame(c, d) ==
  /\ d.pendingIPL = c.pendingIPL
  /\ c.sr \subseteq ValidSR => d.sr \subseteq ValidSR
  /\ flagS \notin c.sr => SameSystem(c, d) \/ VectorEntry(c, d)

LEMMA EnteredByVector ==
  ASSUME NEW c \in CPU, NEW d \in CPU, NEW pc, Entered(c, d, pc), flagS \notin c.sr,
         d.sr \cap MaskBits \in {c.sr \cap MaskBits, LevelBits(c.pendingIPL)}
  PROVE  VectorEntry(c, d)
  <1>1. SSP(c) = c.ssp
    BY DEF SSP, supervisor
  <1>2. d.A[7] \in Addr /\ Add(d.A[7], 0) = d.A[7]
    BY AType, AddrInt, AddZero
  <1>3. \A w : WordCell(w).kind = "word" /\ WordCell(w).word = w
    BY DEF WordCell
  <1>4. \A h, v : HalfCell(h, v).kind = h
    BY DEF HalfCell
  <1>5. ASSUME ~d.halted
        PROVE  /\ \E v \in 0 .. 255 : d.pc = Vector[v]
               /\ FrameAt(d, d.A[7])
               /\ d.A[7] % BusMod \in RAM =>
                    SavedSR(d, d.A[7]) \cap SystemBits = c.sr \cap SystemBits
    <2>1. (\E v \in 0 .. 255 : d.pc = Vector[v]) /\ Stacked(d.bus, d.A[7], pc, c.sr)
      BY <1>5 DEF Entered
    <2>2. FrameAt(d, d.A[7])
      BY <1>3, <1>4, <2>1 DEF Stacked, FrameAt
    <2>3. d.A[7] % BusMod \in RAM => SavedSR(d, d.A[7]) = c.sr
      BY <1>2, <1>3, <2>1 DEF Stacked, SavedSR
    <2> QED
      BY <2>1, <2>2, <2>3
  <1> QED
    BY <1>1, <1>5, Zenon DEF Entered, VectorEntry

LEMMA exceptionTame ==
  ASSUME NEW c \in CPU, NEW v \in 0 .. 255 PROVE Tame(c, exception(c, v))
  <1> DEFINE d == exception(c, v)
  <1>1. d \in CPU /\ Entered(c, d, PushedPC(c, v)) /\ d.sr = SupervisorSR(c.sr)
        /\ d.pendingIPL = c.pendingIPL
    BY exceptionType, exceptionEntered, Zenon
  <1> HIDE DEF d
  <1>2. d.sr \cap MaskBits = c.sr \cap MaskBits
    BY <1>1 DEF SupervisorSR, MaskBits, flagS, flagT
  <1>3. c.sr \subseteq ValidSR => d.sr \subseteq ValidSR
    BY <1>1 DEF SupervisorSR, ValidSR, flagS
  <1>4. flagS \notin c.sr => VectorEntry(c, d)
    BY <1>1, <1>2, EnteredByVector
  <1> QED
    BY <1>1, <1>3, <1>4 DEF Tame, d

LEMMA interruptTame ==
  ASSUME NEW c \in CPU
  PROVE  LET d == processInterrupt(c)
         IN /\ c.sr \subseteq ValidSR => d.sr \subseteq ValidSR
            /\ flagS \notin c.sr => VectorEntry(c, d)
  <1> DEFINE d == processInterrupt(c)
  <1>1. d \in CPU /\ Entered(c, d, c.pc)
        /\ d.sr = (SupervisorSR(c.sr) \ MaskBits) \cup LevelBits(c.pendingIPL)
    BY processInterruptType, interruptEntered
  <1> HIDE DEF d
  <1>2. LevelBits(c.pendingIPL) \subseteq MaskBits
    BY LevelBitsType
  <1>3. d.sr \cap MaskBits = LevelBits(c.pendingIPL)
    BY <1>1, <1>2
  <1>4. c.sr \subseteq ValidSR => d.sr \subseteq ValidSR
    BY <1>1, <1>2 DEF SupervisorSR, ValidSR, flagS, MaskBits
  <1>5. flagS \notin c.sr => VectorEntry(c, d)
    BY <1>1, <1>3, EnteredByVector
  <1> QED
    BY <1>4, <1>5 DEF d

LEMMA PlainTame == ASSUME NEW c, NEW d, Plain(c, d) PROVE Tame(c, d)
  BY DEF Plain, Tame

LEMMA PlainPlain == ASSUME NEW c, NEW d, NEW e, Plain(c, d), Plain(d, e) PROVE Plain(c, e)
  BY DEF Plain, SameSystem

\* The state in which an instruction raises an exception after its operand.
Before(c, d) == Plain(c, d) /\ d.bus = c.bus /\ d.ssp = c.ssp

LEMMA SystemByte == flagS \in SystemBits
  BY DEF SystemBits

LEMMA BeforeTame ==
  ASSUME NEW c, NEW d, NEW e, Before(c, d), Tame(d, e) PROVE Tame(c, e)
  <1>1. flagS \in d.sr <=> flagS \in c.sr
    BY SystemByte DEF Before, Plain, SameSystem
  <1>2. d.sr \cap MaskBits = c.sr \cap MaskBits
    BY DEF Before, Plain, SameSystem, SystemBits
  <1>3. d.sr \cap SystemBits = c.sr \cap SystemBits /\ d.pendingIPL = c.pendingIPL
        /\ d.bus = c.bus /\ d.ssp = c.ssp
    BY DEF Before, Plain, SameSystem
  <1>4. VectorEntry(d, e) => VectorEntry(c, e)
    BY <1>2, <1>3, Zenon DEF VectorEntry
  <1>5. SameSystem(d, e) => SameSystem(c, e)
    BY <1>3 DEF SameSystem
  <1> QED
    BY <1>1, <1>4, <1>5 DEF Tame, Before, Plain

LEMMA SetPlain ==
  ASSUME NEW c \in CPU
  PROVE  /\ Before(c, c)
         /\ \A v : Before(c, [c EXCEPT !.pc = v])
         /\ \A v : Before(c, [c EXCEPT !.halted = v])
         /\ \A r, v : Before(c, [c EXCEPT !.A[r] = v])
         /\ \A v : Before(c, [c EXCEPT !.usp = v]) 
  BY DEF CPU, Before, Plain, SameSystem

LEMMA SetConditions ==
  ASSUME NEW c \in CPU, NEW w, w \cap SystemBits = c.sr \cap SystemBits,
         c.sr \subseteq ValidSR => w \subseteq ValidSR
  PROVE  Before(c, [c EXCEPT !.sr = w])
  BY DEF CPU, Before, Plain, SameSystem

LEMMA BeforeBefore == ASSUME NEW c, NEW d, NEW e, Before(c, d), Before(d, e) PROVE Before(c, e)
  BY PlainPlain DEF Before

LEMMA AccessedPlain == ASSUME NEW c \in CPU, NEW a PROVE Before(c, Accessed(c, a))
  BY SetPlain DEF Accessed

LEMMA WritePlain ==
  ASSUME NEW c \in CPU, NEW a, NEW w
  PROVE  Plain(c, WriteWord(c, a, w)) /\ Plain(c, WriteLong(c, a, w))
  BY DEF CPU, Plain, SameSystem, WriteWord, WriteLong

LEMMA PushPlain ==
  ASSUME NEW c \in CPU, NEW w PROVE Plain(c, pushWord(c, w)) /\ Plain(c, pushLong(c, w))
  <1>1. Unmoved(c, pushWord(c, w)) /\ Unmoved(c, pushLong(c, w))
    BY LongPushed, WordPushed
  <1> QED
    BY <1>1 DEF Unmoved, Plain, SameSystem

LEMMA PoppedPlain == ASSUME NEW c \in CPU, NEW n PROVE Before(c, popped(c, n))
  <1>1. Accessed(c, c.A[7]) \in CPU /\ Before(c, Accessed(c, c.A[7]))
    BY AType, AddrInt, AccessedType, AccessedPlain
  <1>2. Before(Accessed(c, c.A[7]), popped(c, n))
    BY <1>1, SetPlain DEF popped
  <1> QED
    BY <1>1, <1>2, BeforeBefore

LEMMA FetchPlain ==
  ASSUME NEW c \in CPU PROVE Before(c, fetchPC(c)) /\ Before(c, fetchPCLong(c))
  BY SetPlain DEF fetchPC, fetchPCLong

LEMMA eaPlain ==
  ASSUME NEW c \in CPU, NEW i \in Instr
  PROVE  Before(c, eaDone(c, i)) /\ Before(c, eaRead(c, i))
  <1>1. Before(c, eaDone(c, i))
    BY FetchPlain, SetPlain DEF eaDone
  <1>2. Before(eaDone(c, i), Accessed(eaDone(c, i), eaAddr(c, i)))
    BY eaDoneType, AccessedPlain
  <1> QED
    BY <1>1, <1>2, BeforeBefore DEF eaRead

LEMMA setCCRPlain ==
  ASSUME NEW c \in CPU, NEW w PROVE Before(c, setCCR(c, w)) /\ Before(c, setFlagsLogical(c, w))
  <1>1. CCRBits \cap SystemBits = {} /\ CCRBits \subseteq ValidSR
        /\ {flagN, flagZ, flagV, flagC} \subseteq CCRBits
    BY DEF SystemBits, MaskBits, ValidSR, flagS, flagT, CCRBits, flagX, flagN, flagZ, flagV, flagC
  <1> DEFINE u == (c.sr \ CCRBits) \cup (w \cap CCRBits)
             v == (c.sr \ {flagN, flagZ, flagV, flagC})
                  \cup {f \in {flagZ} : w = {}} \cup {f \in {flagN} : 15 \in w}
  <1>2. u \cap SystemBits = c.sr \cap SystemBits /\ (c.sr \subseteq ValidSR => u \subseteq ValidSR)
    BY <1>1
  <1>3. v \cap SystemBits = c.sr \cap SystemBits /\ (c.sr \subseteq ValidSR => v \subseteq ValidSR)
    BY <1>1
  <1>4. setCCR(c, w) = [c EXCEPT !.sr = u] /\ setFlagsLogical(c, w) = [c EXCEPT !.sr = v]
    BY DEF setCCR, setFlagsLogical
  <1> HIDE DEF u, v
  <1> QED
    BY <1>2, <1>3, <1>4, SetConditions

\* What a privileged handler may do in supervisor mode.
Ruled(c, d) == d.pendingIPL = c.pendingIPL /\ (c.sr \subseteq ValidSR => d.sr \subseteq ValidSR)

LEMMA setSRRuled == ASSUME NEW c, NEW d \in CPU, NEW w, Plain(c, d) PROVE Ruled(c, setSR(d, w))
  <1>1. \A x, u, a, v : LET e == [d EXCEPT !.ssp = x, !.usp = u, !.A[7] = a, !.sr = v]
                       IN e.sr = v /\ e.pendingIPL = d.pendingIPL
    BY DEF CPU
  <1>2. setSR(d, w).sr = w \cap ValidSR /\ setSR(d, w).pendingIPL = d.pendingIPL
    BY <1>1 DEF setSR
  <1> QED
    BY <1>2 DEF Ruled, Plain

LEMMA PrivilegedTame ==
  ASSUME NEW c \in CPU, NEW d, flagS \in c.sr => Ruled(c, d) PROVE Tame(c, Privileged(c, d))
  <1>1. Tame(c, exception(c, vecPrivilegeViolation))
    BY exceptionTame DEF vecPrivilegeViolation
  <1> QED
    BY <1>1 DEF Privileged, supervisor, Ruled, Tame

LEMMA ControlTame ==
  ASSUME NEW c \in CPU, NEW i \in Instr
  PROVE  /\ Tame(c, opSTOP(c, i)) /\ Tame(c, opRESET(c))
         /\ Tame(c, opTRAP(c, i)) /\ Tame(c, opTRAPV(c)) /\ Tame(c, opLINK(c, i))
  <1>0. /\ i.r \in AReg /\ i.n \in 0 .. 15 /\ i.w \in Word /\ i.k \in Int /\ 7 \in AReg
        /\ fetchPC(c) \in CPU /\ Plain(c, fetchPC(c)) /\ Plain(c, c)
    BY InstrFields, AddrInt, FetchType, FetchPlain, SetPlain DEF Before
  <1>1. Tame(c, opSTOP(c, i))
    <2> DEFINE s == setSR(fetchPC(c), i.w)
    <2>1. s \in CPU /\ Ruled(c, s)
      BY <1>0, SetSRType, setSRRuled
    <2> HIDE DEF s
    <2>2. Ruled(c, [s EXCEPT !.stopped = TRUE, !.pc = c.prevPC])
      BY <2>1 DEF Ruled, CPU
    <2> QED
      BY <2>2, PrivilegedTame DEF opSTOP, s
  <1>2. Tame(c, opRESET(c))
    BY <1>0, PrivilegedTame DEF opRESET, Ruled
  <1>3. Tame(c, opTRAP(c, i)) /\ Tame(c, opTRAPV(c))
    <2>1. i.n + vecTrap0 \in 0 .. 255 /\ vecTRAPV \in 0 .. 255
      BY <1>0 DEF vecTrap0, vecTRAPV
    <2>2. Tame(c, exception(c, i.n + vecTrap0)) /\ Tame(c, exception(c, vecTRAPV))
      BY <2>1, exceptionTame
    <2> QED
      BY <1>0, <2>2, PlainTame DEF opTRAP, opTRAPV
  <1>4. Plain(c, opLINK(c, i))
    <2> DEFINE p == pushLong(fetchPC(c), c.A[i.r])
               f == [p EXCEPT !.A[i.r] = p.A[7]]
    <2>1. p \in CPU /\ Plain(fetchPC(c), p)
      BY <1>0, AType, PushType, PushPlain
    <2> HIDE DEF p
    <2>2. f \in CPU /\ Plain(p, f)
      BY <1>0, <2>1, AType, SetA, SetPlain, Zenon DEF Before
    <2> HIDE DEF f
    <2>3. Plain(f, [f EXCEPT !.A[7] = Add(f.A[7], i.k)])
      BY <2>2, SetPlain DEF Before
    <2>4. Plain(c, [f EXCEPT !.A[7] = Add(f.A[7], i.k)])
      BY <1>0, <2>1, <2>2, <2>3, PlainPlain
    <2> QED
      BY <2>4 DEF opLINK, f, p
  <1> QED
    BY <1>1, <1>2, <1>3, <1>4, PlainTame

LEMMA UNLKTame ==
  ASSUME NEW c \in CPU, NEW i \in Instr, NEW j \in Addr PROVE Tame(c, opUNLK(c, i, j))
  <1> DEFINE u == [c EXCEPT !.A[7] = c.A[i.r]]
  <1>1. u \in CPU /\ Before(c, u)
    BY InstrFields, AddrInt, AType, SetA, SetPlain, Zenon
  <1> HIDE DEF u
  <1>2. popped(u, 4) \in CPU /\ Before(u, popped(u, 4))
    BY <1>1, PoppedType, PoppedPlain
  <1>3. Before(popped(u, 4), opUNLK(c, i, j))
    BY <1>2, SetPlain DEF opUNLK, u
  <1>4. Before(c, opUNLK(c, i, j))
    BY <1>1, <1>2, <1>3, BeforeBefore
  <1> QED
    BY <1>4, PlainTame DEF Before

LEMMA StatusTame ==
  ASSUME NEW c \in CPU, NEW i \in Instr
  PROVE  /\ Tame(c, opMOVEfromSR(c, i)) /\ Tame(c, opMOVEfromUSP(c, i))
         /\ Tame(c, opMOVEtoUSP(c, i))
         /\ Tame(c, opANDItoCCR(c, i)) /\ Tame(c, opORItoCCR(c, i)) /\ Tame(c, opEORItoCCR(c, i))
         /\ Tame(c, opANDItoSR(c, i)) /\ Tame(c, opORItoSR(c, i)) /\ Tame(c, opEORItoSR(c, i))
  <1>0. fetchPC(c) \in CPU /\ Before(c, fetchPC(c)) /\ Plain(c, c)
    BY FetchType, FetchPlain, SetPlain DEF Before
  <1>1. Tame(c, opMOVEfromSR(c, i))
    <2>1. eaDone(c, i) \in CPU /\ Plain(c, eaDone(c, i))
      BY eaDoneType, eaPlain DEF Before
    <2>2. Plain(c, WriteWord(eaDone(c, i), eaAddr(c, i), c.sr))
      BY <2>1, WritePlain, PlainPlain
    <2> QED
      BY <1>0, <2>2, PlainTame DEF opMOVEfromSR
  <1>2. Tame(c, opMOVEfromUSP(c, i)) /\ Tame(c, opMOVEtoUSP(c, i))
    <2>1. Ruled(c, [c EXCEPT !.A[i.r] = c.usp]) /\ Ruled(c, [c EXCEPT !.usp = c.A[i.r]])
      BY SetPlain DEF Before, Plain, Ruled
    <2> QED
      BY <2>1, PrivilegedTame DEF opMOVEfromUSP, opMOVEtoUSP
  <1>3. \A w : Tame(c, setCCR(fetchPC(c), w))
    <2>1. \A w : Before(c, setCCR(fetchPC(c), w))
      BY <1>0, setCCRPlain, BeforeBefore
    <2> QED
      BY <2>1, PlainTame DEF Before
  <1>4. \A w : Tame(c, Privileged(c, setSR(fetchPC(c), w)))
    BY <1>0, setSRRuled, PrivilegedTame DEF Before
  <1> QED
    BY <1>1, <1>2, <1>3, <1>4, Zenon
      DEF opANDItoCCR, opORItoCCR, opEORItoCCR, opANDItoSR, opORItoSR, opEORItoSR

LEMMA MoveToStatusTame ==
  ASSUME NEW c \in CPU, NEW i \in Instr, NEW j \in Word
  PROVE  Tame(c, opMOVEtoCCR(c, i, j)) /\ Tame(c, opMOVEtoSR(c, i, j))
  <1>1. eaRead(c, i) \in CPU /\ Before(c, eaRead(c, i))
    BY eaReadType, eaPlain
  <1>2. Tame(c, opMOVEtoCCR(c, i, j))
    <2>1. Before(c, opMOVEtoCCR(c, i, j))
      BY <1>1, setCCRPlain, BeforeBefore DEF opMOVEtoCCR
    <2> QED
      BY <2>1, PlainTame DEF Before
  <1>3. Tame(c, opMOVEtoSR(c, i, j))
    BY <1>1, setSRRuled, PrivilegedTame DEF opMOVEtoSR, Before
  <1> QED
    BY <1>2, <1>3

LEMMA FlowTame ==
  ASSUME NEW c \in CPU, NEW i \in Instr
  PROVE  /\ Tame(c, opBcc(c, i)) /\ Tame(c, opBRA(c, i)) /\ Tame(c, opBSR(c, i))
         /\ Tame(c, opDBcc(c, i)) /\ Tame(c, opJMP(c, i)) /\ Tame(c, opJSR(c, i))
  <1>0. /\ Plain(c, fetchPC(c)) /\ eaDone(c, i) \in CPU /\ Plain(c, eaDone(c, i))
        /\ eaDone(c, i).pc \in Addr
    BY FetchPlain, eaDoneType, eaPlain, PCInt DEF Before
  <1>1. \A v : Plain(c, [c EXCEPT !.pc = v])
    BY SetPlain DEF Before
  <1>2. \A v : Plain(c, [eaDone(c, i) EXCEPT !.pc = v])
    BY <1>0, SetPlain, PlainPlain DEF Before
  <1>3. \A v : Plain(c, [pushLong(eaDone(c, i), eaDone(c, i).pc) EXCEPT !.pc = v])
    <2> DEFINE p == pushLong(eaDone(c, i), eaDone(c, i).pc)
    <2>1. p \in CPU /\ Plain(c, p)
      BY <1>0, PushType, PushPlain, PlainPlain
    <2> HIDE DEF p
    <2>2. \A v : Plain(c, [p EXCEPT !.pc = v])
      BY <2>1, SetPlain, PlainPlain DEF Before
    <2> QED
      BY <2>2 DEF p
  <1>4. /\ Plain(c, opBcc(c, i)) /\ Plain(c, opBRA(c, i)) /\ Plain(c, opBSR(c, i))
        /\ Plain(c, opDBcc(c, i)) /\ Plain(c, opJMP(c, i)) /\ Plain(c, opJSR(c, i))
    BY <1>0, <1>1, <1>2, <1>3 DEF opBcc, opBRA, opBSR, opDBcc, opJMP, opJSR
  <1> QED
    BY <1>4, PlainTame

LEMMA ReturnTame ==
  ASSUME NEW c \in CPU, NEW jw \in Word, NEW jl \in Addr
  PROVE  Tame(c, opRTS(c, jl)) /\ Tame(c, opRTE(c, jw, jl)) /\ Tame(c, opRTR(c, jw, jl))
  <1>1. /\ popped(c, 2) \in CPU /\ Before(c, popped(c, 2)) /\ ReadWord(c, c.A[7], jw) \in Word
        /\ popped(c, 4) \in CPU /\ Before(c, popped(c, 4))
    BY PopType, PoppedPlain
  <1>2. Tame(c, opRTS(c, jl))
    <2>1. Before(c, opRTS(c, jl))
      BY <1>1, SetPlain, BeforeBefore DEF opRTS
    <2> QED
      BY <2>1, PlainTame DEF Before
  <1>3. Tame(c, opRTE(c, jw, jl))
    <2> DEFINE s == popped(c, 2)
               d == setSR(popped(s, 4), ReadWord(c, c.A[7], jw))
    <2>1. popped(s, 4) \in CPU /\ Before(c, popped(s, 4))
      BY <1>1, PoppedType, PoppedPlain, BeforeBefore
    <2>2. d \in CPU /\ Ruled(c, d)
      <3> HIDE DEF s
      <3> QED
        BY <1>1, <2>1, SetSRType, setSRRuled DEF Before
    <2> HIDE DEF d
    <2>3. Ruled(c, [d EXCEPT !.pc = ReadLong(s, s.A[7], jl)])
      <3> HIDE DEF s
      <3> QED
        BY <2>2 DEF Ruled, CPU
    <2> QED
      BY <2>3, PrivilegedTame DEF opRTE, d
  <1>4. Tame(c, opRTR(c, jw, jl))
    <2> DEFINE s == setCCR(popped(c, 2), ReadWord(c, c.A[7], jw))
    <2>1. s \in CPU /\ Before(c, s)
      BY <1>1, SetSRType, setCCRPlain, BeforeBefore
    <2> HIDE DEF s
    <2>2. popped(s, 4) \in CPU /\ Before(c, popped(s, 4))
      BY <2>1, PoppedType, PoppedPlain, BeforeBefore
    <2>3. Before(c, opRTR(c, jw, jl))
      BY <2>2, SetPlain, BeforeBefore DEF opRTR, s
    <2> QED
      BY <2>3, PlainTame DEF Before
  <1> QED
    BY <1>2, <1>3, <1>4

LEMMA DataTame ==
  ASSUME NEW c \in CPU, NEW i \in Instr
  PROVE  /\ Tame(c, opMOVE(c, i)) /\ Tame(c, opMOVEA(c, i))
         /\ Tame(c, opPEA(c, i)) /\ Tame(c, opADD(c, i))
  <1>1. Plain(c, opMOVE(c, i))
    <2> DEFINE s == fetchPC(c)
               d == WriteWord(eaDone(s, i), eaAddr(s, i), i.w)
    <2>1. s \in CPU /\ Plain(c, s) /\ i.w \in Word
      BY FetchType, FetchPlain, InstrFields DEF Before
    <2> HIDE DEF s
    <2>2. eaDone(s, i) \in CPU /\ Plain(s, eaDone(s, i)) /\ eaAddr(s, i) \in Int
      BY <2>1, eaDoneType, eaPlain, eaAddrType, AddrInt, Zenon DEF Before
    <2>3. d \in CPU /\ Plain(eaDone(s, i), d)
      BY <2>1, <2>2, WriteWordType, WritePlain
    <2>4. Plain(c, d)
      <3> HIDE DEF d
      <3> QED
        BY <2>1, <2>2, <2>3, PlainPlain
    <2> HIDE DEF d
    <2>5. Plain(c, setFlagsLogical(s, i.w)) /\ Plain(c, setFlagsLogical(d, i.w))
      BY <2>1, <2>3, <2>4, setCCRPlain, PlainPlain DEF Before
    <2> QED
      BY <2>5 DEF opMOVE, s, d
  <1>2. Plain(c, opMOVEA(c, i))
    BY FetchType, FetchPlain, SetPlain, PlainPlain, Zenon DEF opMOVEA, Before
  <1>3. Plain(c, opPEA(c, i))
    BY eaDoneType, eaPlain, PushPlain, PlainPlain DEF opPEA, Before
  <1>4. Plain(c, opADD(c, i))
    <2>1. {} \in Word
      BY DEF Word
    <2>2. eaRead(c, i) \in CPU /\ Plain(c, eaRead(c, i))
      BY <2>1, eaReadType, eaPlain DEF Before
    <2> QED
      BY <2>2, setCCRPlain, PlainPlain DEF opADD, Before
  <1> QED
    BY <1>1, <1>2, <1>3, <1>4, PlainTame

LEMMA TestTame ==
  ASSUME NEW c \in CPU, NEW i \in Instr, NEW j \in Word
  PROVE  Tame(c, opDIVU(c, i, j)) /\ Tame(c, opCHK(c, i, j))
  <1> DEFINE r == eaRead(c, i)
             four == {flagN, flagZ, flagV, flagC}
  <1>1. r \in CPU /\ Before(c, r) /\ i.q \in Word /\ r.sr \in Word
    BY eaReadType, eaPlain, InstrFields, Fields, Zenon
  <1> HIDE DEF r
  <1>2. four \cap SystemBits = {} /\ four \subseteq ValidSR /\ four \subseteq 0 .. 15
    BY DEF SystemBits, MaskBits, ValidSR, flagS, flagT, flagN, flagZ, flagV, flagC
  <1>3. ASSUME NEW k \in SUBSET four, NEW m \in SUBSET four
        PROVE  LET w == (r.sr \ k) \cup m
               IN w \in Word /\ Before(r, [r EXCEPT !.sr = w])
    <2>1. /\ (r.sr \ k) \cup m \in Word
          /\ ((r.sr \ k) \cup m) \cap SystemBits = r.sr \cap SystemBits
          /\ r.sr \subseteq ValidSR => (r.sr \ k) \cup m \subseteq ValidSR
      BY <1>1, <1>2 DEF Word
    <2> QED
      BY <1>1, <2>1, SetConditions
  <1>4. Tame(c, opDIVU(c, i, j))
    <2>1. Tame(c, exception(r, vecDivideByZero))
      BY <1>1, exceptionTame, BeforeTame DEF vecDivideByZero
    <2>2. Before(c, [r EXCEPT !.sr = (r.sr \ {flagC, flagZ}) \cup {flagV, flagN}])
      BY <1>1, <1>3, BeforeBefore, Zenon
    <2>3. Before(c, setFlagsLogical(r, i.q))
      BY <1>1, setCCRPlain, BeforeBefore
    <2> QED
      BY <2>1, <2>2, <2>3, PlainTame DEF opDIVU, r, Before
  <1>5. Tame(c, opCHK(c, i, j))
    <2> DEFINE clear == r.sr \ {flagN, flagZ, flagV, flagC}
               x == [r EXCEPT !.sr = clear \cup (i.q \cap {flagN})]
               y == [r EXCEPT !.sr = clear \cup (i.q \cap {flagZ})]
    <2>1. clear \cup (i.q \cap {flagN}) \in Word /\ Before(r, x) /\ Before(r, y)
      BY <1>3, Zenon
    <2>2. x \in CPU
      <3> HIDE DEF clear
      <3> QED
        BY <1>1, <2>1, SetWord
    <2>3. Before(c, x) /\ Before(c, y)
      <3> HIDE DEF x, y
      <3> QED
        BY <1>1, <2>1, BeforeBefore
    <2>4. Tame(c, exception(x, vecCHK)) /\ Tame(c, y)
      <3> HIDE DEF x, y
      <3> QED
        BY <2>2, <2>3, exceptionTame, BeforeTame, PlainTame DEF vecCHK, Before
    <2> QED
      BY <2>4 DEF opCHK, r
  <1> QED
    BY <1>4, <1>5

-----------------------------------------------------------------------------
(***************************************************************************)
(* The steps.                                                              *)
(***************************************************************************)
LEMMA HaltTame ==
  ASSUME NEW c, NEW d \in CPU, NEW h \in BOOLEAN, d.halted => h, Tame(c, d)
  PROVE  Tame(c, [d EXCEPT !.halted = h])
  <1> DEFINE e == [d EXCEPT !.halted = h]
  <1>1. /\ e.sr = d.sr /\ e.pendingIPL = d.pendingIPL /\ e.pc = d.pc /\ e.A = d.A
        /\ e.bus = d.bus /\ e.halted = h
    BY DEF CPU
  <1> HIDE DEF e
  <1>2. SameSystem(c, d) => SameSystem(c, e)
    BY <1>1 DEF SameSystem
  <1>3. VectorEntry(c, d) => VectorEntry(c, e)
    BY <1>1, Zenon DEF VectorEntry, FrameAt, SavedSR
  <1> QED
    BY <1>1, <1>2, <1>3 DEF Tame, e

LEMMA FetchedPlain == ASSUME TypeOK PROVE Before(cpu, fetched)
  BY DEF TypeOK, CPU, fetched, Before, Plain, SameSystem

LEMMA HandlerTame ==
  ASSUME TypeOK, NEW d \in CPU, Tame(fetched, d), Finish(d) PROVE Tame(cpu, cpu')
  <1>1. Tame(cpu, d)
    BY FetchedPlain, BeforeTame
  <1> DEFINE h == d.halted \/ d.pc % 2 # 0
  <1>2. cpu' = [d EXCEPT !.halted = h] /\ h \in BOOLEAN /\ (d.halted => h)
    BY DEF Finish
  <1> HIDE DEF h
  <1> QED
    BY <1>1, <1>2, HaltTame

LEMMA ControlSteps == ASSUME TypeOK, Control PROVE Tame(cpu, cpu')
  <1>2. fetched \in CPU /\ \A op : Fetched(op) \subseteq Instr
    BY FetchedType
  <1>3. JunkWord \subseteq Word /\ JunkLong \subseteq Addr
    BY Board, Zenon DEF Board
  <1>4. CASE ILLEGAL \/ LINEA \/ LINEF \/ NOP
    <2>1. \A v \in {vecIllegalInstruction, vecLineA, vecLineF} :
            exception(fetched, v) \in CPU /\ Tame(fetched, exception(fetched, v))
      <3>1. {vecIllegalInstruction, vecLineA, vecLineF} \subseteq 0 .. 255
        BY DEF vecIllegalInstruction, vecLineA, vecLineF
      <3> QED
        BY <1>2, <3>1, exceptionType, exceptionTame, ZenonT(60)
    <2>2. Tame(fetched, fetched)
      BY <1>2, SetPlain, PlainTame DEF Before
    <2> QED
      BY <1>2, <1>4, <2>1, <2>2, HandlerTame DEF ILLEGAL, LINEA, LINEF, NOP
  <1>5. CASE STOP \/ RESET \/ TRAP \/ TRAPV \/ LINK
    <2>1. \A i \in Instr :
            /\ opSTOP(fetched, i) \in CPU /\ opRESET(fetched) \in CPU
            /\ opTRAP(fetched, i) \in CPU /\ opTRAPV(fetched) \in CPU
            /\ opLINK(fetched, i) \in CPU
      BY <1>2, ControlTypes, AddrInt, Zenon DEF Word
    <2>2. \A i \in Instr :
            /\ Tame(fetched, opSTOP(fetched, i)) /\ Tame(fetched, opRESET(fetched))
            /\ Tame(fetched, opTRAP(fetched, i)) /\ Tame(fetched, opTRAPV(fetched))
            /\ Tame(fetched, opLINK(fetched, i))
      BY <1>2, ControlTame
    <2> QED
      BY <1>2, <1>5, <2>1, <2>2, HandlerTame DEF STOP, RESET, TRAP, TRAPV, LINK
  <1>6. CASE UNLK
    <2>1. \A i \in Instr, j \in JunkLong :
            opUNLK(fetched, i, j) \in CPU /\ Tame(fetched, opUNLK(fetched, i, j))
      BY <1>2, <1>3, ControlTypes, UNLKTame, Zenon DEF Word
    <2> QED
      BY <1>2, <1>6, <2>1, HandlerTame DEF UNLK
  <1>7. CASE MOVEfromSR \/ MOVEtoUSP \/ MOVEfromUSP
    <2>1. \A i \in Instr : /\ opMOVEfromSR(fetched, i) \in CPU /\ opMOVEtoUSP(fetched, i) \in CPU
                           /\ opMOVEfromUSP(fetched, i) \in CPU
      BY <1>2, StatusTypes, Zenon DEF Word
    <2>2. \A i \in Instr : /\ Tame(fetched, opMOVEfromSR(fetched, i))
                           /\ Tame(fetched, opMOVEtoUSP(fetched, i))
                           /\ Tame(fetched, opMOVEfromUSP(fetched, i))
      BY <1>2, StatusTame
    <2> QED
      BY <1>2, <1>7, <2>1, <2>2, HandlerTame DEF MOVEfromSR, MOVEtoUSP, MOVEfromUSP
  <1>8. CASE MOVEtoCCR \/ MOVEtoSR
    <2>1. \A i \in Instr, j \in JunkWord :
            /\ opMOVEtoCCR(fetched, i, j) \in CPU /\ Tame(fetched, opMOVEtoCCR(fetched, i, j))
            /\ opMOVEtoSR(fetched, i, j) \in CPU /\ Tame(fetched, opMOVEtoSR(fetched, i, j))
      BY <1>2, <1>3, StatusTypes, MoveToStatusTame
    <2> QED
      BY <1>2, <1>8, <2>1, HandlerTame DEF MOVEtoCCR, MOVEtoSR
  <1>9. CASE ANDItoCCR \/ ORItoCCR \/ EORItoCCR \/ ANDItoSR \/ ORItoSR \/ EORItoSR
    <2>1. \A i \in Instr :
            /\ opANDItoCCR(fetched, i) \in CPU /\ opORItoCCR(fetched, i) \in CPU
            /\ opEORItoCCR(fetched, i) \in CPU /\ opANDItoSR(fetched, i) \in CPU
            /\ opORItoSR(fetched, i) \in CPU /\ opEORItoSR(fetched, i) \in CPU
      BY <1>2, StatusTypes, Zenon DEF Word
    <2>2. \A i \in Instr :
            /\ Tame(fetched, opANDItoCCR(fetched, i)) /\ Tame(fetched, opORItoCCR(fetched, i))
            /\ Tame(fetched, opEORItoCCR(fetched, i)) /\ Tame(fetched, opANDItoSR(fetched, i))
            /\ Tame(fetched, opORItoSR(fetched, i)) /\ Tame(fetched, opEORItoSR(fetched, i))
      BY <1>2, StatusTame
    <2> QED
      BY <1>2, <1>9, <2>1, <2>2, HandlerTame
        DEF ANDItoCCR, ORItoCCR, EORItoCCR, ANDItoSR, ORItoSR, EORItoSR
  <1> QED
    BY <1>4, <1>5, <1>6, <1>7, <1>8, <1>9 DEF Control

LEMMA FlowSteps == ASSUME TypeOK, Flow PROVE Tame(cpu, cpu')
  <1>2. fetched \in CPU /\ \A op : Fetched(op) \subseteq Instr
    BY FetchedType
  <1>3. JunkWord \subseteq Word /\ JunkLong \subseteq Addr
    BY Board, Zenon DEF Board
  <1>4. CASE Bcc \/ BRA \/ BSR \/ DBcc \/ JMP \/ JSR
    <2>1. \A i \in Instr :
            /\ opBcc(fetched, i) \in CPU /\ opBRA(fetched, i) \in CPU /\ opBSR(fetched, i) \in CPU
            /\ opDBcc(fetched, i) \in CPU /\ opJMP(fetched, i) \in CPU /\ opJSR(fetched, i) \in CPU
      BY <1>2, FlowTypes, AddrInt, Zenon DEF Word
    <2>2. \A i \in Instr :
            /\ Tame(fetched, opBcc(fetched, i)) /\ Tame(fetched, opBRA(fetched, i))
            /\ Tame(fetched, opBSR(fetched, i)) /\ Tame(fetched, opDBcc(fetched, i))
            /\ Tame(fetched, opJMP(fetched, i)) /\ Tame(fetched, opJSR(fetched, i))
      BY <1>2, FlowTame
    <2> QED
      BY <1>2, <1>4, <2>1, <2>2, HandlerTame DEF Bcc, BRA, BSR, DBcc, JMP, JSR
  <1>5. CASE RTS
    <2>1. \A i \in Instr, j \in JunkLong : opRTS(fetched, j) \in CPU /\ Tame(fetched, opRTS(fetched, j))
      BY <1>2, <1>3, FlowTypes, ReturnTame, Zenon DEF Word
    <2> QED
      BY <1>2, <1>5, <2>1, HandlerTame DEF RTS
  <1>6. CASE RTE \/ RTR
    <2>1. \A i \in Instr, jw \in JunkWord, jl \in JunkLong :
            /\ opRTE(fetched, jw, jl) \in CPU /\ Tame(fetched, opRTE(fetched, jw, jl))
            /\ opRTR(fetched, jw, jl) \in CPU /\ Tame(fetched, opRTR(fetched, jw, jl))
      BY <1>2, <1>3, FlowTypes, ReturnTame
    <2> QED
      BY <1>2, <1>6, <2>1, HandlerTame DEF RTE, RTR
  <1> QED
    BY <1>4, <1>5, <1>6 DEF Flow

LEMMA DataSteps == ASSUME TypeOK, Data PROVE Tame(cpu, cpu')
  <1>2. fetched \in CPU /\ \A op : Fetched(op) \subseteq Instr
    BY FetchedType
  <1>3. JunkWord \subseteq Word
    BY Board DEF Board
  <1>4. CASE DIVU \/ CHK
    <2>1. \A i \in Instr, j \in JunkWord :
            /\ opDIVU(fetched, i, j) \in CPU /\ Tame(fetched, opDIVU(fetched, i, j))
            /\ opCHK(fetched, i, j) \in CPU /\ Tame(fetched, opCHK(fetched, i, j))
      BY <1>2, <1>3, DataTypes, TestTame
    <2> QED
      BY <1>2, <1>4, <2>1, HandlerTame DEF DIVU, CHK
  <1>5. CASE MOVE \/ MOVEA \/ PEA \/ ADD
    <2>1. \A i \in Instr : /\ opMOVE(fetched, i) \in CPU /\ opMOVEA(fetched, i) \in CPU
                           /\ opPEA(fetched, i) \in CPU /\ opADD(fetched, i) \in CPU
      BY <1>2, DataTypes, Zenon DEF Word
    <2>2. \A i \in Instr : /\ Tame(fetched, opMOVE(fetched, i)) /\ Tame(fetched, opMOVEA(fetched, i))
                           /\ Tame(fetched, opPEA(fetched, i)) /\ Tame(fetched, opADD(fetched, i))
      BY <1>2, DataTame
    <2> QED
      BY <1>2, <1>5, <2>1, <2>2, HandlerTame DEF MOVE, MOVEA, PEA, ADD
  <1> QED
    BY <1>4, <1>5 DEF Data

LEMMA StepTame ==
  ASSUME TypeOK, Step
  PROVE  \/ Tame(cpu, cpu')
         \/ (StoppedStep \/ TakeInterrupt) /\ Takes(cpu) /\ cpu' = processInterrupt(cpu)
  <1>1. cpu \in CPU /\ fetched \in CPU /\ Tame(cpu, cpu)
    BY FetchedType, SetPlain, PlainTame DEF TypeOK, Before
  <1>2. CASE HaltedStep \/ StoppedStep \/ TakeInterrupt
    BY <1>1, <1>2 DEF HaltedStep, StoppedStep, TakeInterrupt, vars
  <1>3. CASE OddPC
    BY <1>1, <1>3, SetPlain, PlainTame DEF OddPC, Before
  <1>4. CASE PhantomORI
    <2>1. \A d : /\ setFlagsLogical(fetchPC(fetched), d) \in CPU
                 /\ Before(fetched, setFlagsLogical(fetchPC(fetched), d))
      BY <1>1, FetchType, FlagsType, FetchPlain, setCCRPlain, BeforeBefore
    <2>2. \A d : Tame(fetched, setFlagsLogical(fetchPC(fetched), d))
      BY <2>1, PlainTame DEF Before
    <2> QED
      BY <1>4, <2>1, <2>2, HandlerTame DEF PhantomORI
  <1> QED
    BY <1>2, <1>3, <1>4, ControlSteps, FlowSteps, DataSteps DEF Step

\* User code changes the system byte of SR only by way of the vector table, for
\* every program, memory and sequence of requests: every handler that could
\* write it asks supervisor() first, and what exception and processInterrupt
\* leave behind is a complete frame with the user's SR in it.
THEOREM UserIsConfined == Spec => UserConfined
  <1>1. ASSUME TypeOK, [Next]_vars, ~supervisor(cpu),
               cpu'.sr \cap SystemBits # cpu.sr \cap SystemBits, ~Reset, ~Loaded
        PROVE  EntersByVector
    <2>1. cpu \in CPU /\ flagS \notin cpu.sr
      BY <1>1 DEF TypeOK, supervisor
    <2>2. CASE Step
      <3>1. VectorEntry(cpu, cpu')
        BY <1>1, <2>1, <2>2, StepTame, interruptTame DEF Tame, SameSystem
      <3> QED
        BY <3>1, Zenon DEF VectorEntry, EntersByVector, supervisor
    <2>3. CASE Device \/ Line
      <3>1. cpu'.sr = cpu.sr
        BY <2>1, <2>3, Zenon DEF Device, Line, RequestInterrupt, SetIPL, CPU
      <3> QED
        BY <1>1, <3>1
    <2>4. CASE UNCHANGED vars
      BY <1>1, <2>4 DEF vars
    <2> QED
      BY <1>1, <2>2, <2>3, <2>4 DEF Next
  <1>2. TypeOK /\ [Next]_vars =>
          [~supervisor(cpu) /\ cpu'.sr \cap SystemBits # cpu.sr \cap SystemBits
             => EntersByVector \/ Reset \/ Loaded]_vars
    BY <1>1
  <1> QED
    BY <1>2, CPUTypeCorrect, PTL DEF Spec, UserConfined

\* A Step() that starts, or goes on, halted executes at most the phantom ORI.
LEMMA HaltedBus ==
  ASSUME TypeOK, Step, cpu.halted PROVE cpu'.bus = cpu.bus /\ cpu'.halted
  <1>1. cpu \in CPU /\ \A op : Fetched(op) = {}
    BY DEF TypeOK, Fetched
  <1>2. ~StoppedStep /\ ~TakeInterrupt
    BY DEF StoppedStep, TakeInterrupt
  <1>3. ~Control
    BY <1>1 DEF Control, ILLEGAL, LINEA, LINEF, NOP, STOP, RESET, TRAP, TRAPV, LINK, UNLK,
                MOVEfromSR, MOVEtoCCR, MOVEtoSR, MOVEtoUSP, MOVEfromUSP, ANDItoCCR, ORItoCCR,
                EORItoCCR, ANDItoSR, ORItoSR, EORItoSR
  <1>4. ~Flow /\ ~Data
    BY <1>1 DEF Flow, Bcc, BRA, BSR, DBcc, JMP, JSR, RTS, RTE, RTR,
                Data, DIVU, CHK, MOVE, MOVEA, PEA, ADD
  <1>5. CASE HaltedStep \/ OddPC
    BY <1>1, <1>5 DEF HaltedStep, OddPC, vars, CPU
  <1>6. CASE PhantomORI
    <2>1. fetched \in CPU /\ fetchPC(fetched) \in CPU /\ fetched.bus = cpu.bus
      BY FetchedType, FetchType, FetchedPlain DEF Before
    <2>0. fetchPC(fetched).halted
      <3>1. fetched.halted = cpu.halted
        BY <1>1, Zenon DEF fetched, CPU
      <3> QED
        BY <2>1, <3>1, Zenon DEF fetchPC, CPU
    <2>2. PICK d : Finish(setFlagsLogical(fetchPC(fetched), d))
      BY <1>6 DEF PhantomORI
    <2> DEFINE c == setFlagsLogical(fetchPC(fetched), d)
    <2>3. c \in CPU /\ c.bus = cpu.bus
      BY <2>1, FlagsType, FetchPlain, setCCRPlain DEF Before
    <2>5. c.halted
      BY <2>0, <2>1 DEF setFlagsLogical, CPU
    <2> HIDE DEF c
    <2>4. cpu' = [c EXCEPT !.halted = c.halted \/ c.pc % 2 # 0]
      BY <2>2 DEF Finish, c
    <2> QED
      BY <2>3, <2>4, <2>5 DEF CPU
  <1> QED
    BY <1>2, <1>3, <1>4, <1>5, <1>6 DEF Step

LEMMA HostBus == ASSUME TypeOK, Reset \/ Loaded \/ Device \/ Line PROVE cpu'.bus = cpu.bus
  BY Zenon DEF TypeOK, CPU, Reset, Loaded, SetState, Device, Line, RequestInterrupt, SetIPL

\* A frame is stacked whole or not at all: a step that starts halted, or that
\* enters supervisor mode on an odd supervisor stack, leaves every word of
\* memory as it was, for every program, board and width.
THEOREM MemorySurvivesFaults == Spec => FaultsLeaveMemory
  <1>1. ASSUME TypeOK, [Next]_vars, cpu.halted PROVE cpu'.bus = cpu.bus
    BY <1>1, HaltedBus, HostBus DEF Next, vars
  <1>2. ASSUME TypeOK, [Next]_vars, ~supervisor(cpu), supervisor(cpu)', cpu.ssp % 2 # 0
        PROVE  cpu'.bus = cpu.bus
    <2>1. cpu \in CPU /\ flagS \notin cpu.sr /\ flagS \in cpu'.sr
      BY <1>2 DEF TypeOK, supervisor
    <2>2. CASE Step
      <3>1. ~SameSystem(cpu, cpu')
        BY <2>1, SystemByte DEF SameSystem
      <3>2. VectorEntry(cpu, cpu')
        BY <1>2, <2>1, <2>2, <3>1, StepTame, interruptTame DEF Tame
      <3> QED
        BY <1>2, <3>2 DEF VectorEntry
    <2> QED
      BY <1>2, <2>2, HostBus DEF Next, vars
  <1>3. TypeOK /\ [Next]_vars =>
          [/\ cpu.halted => cpu'.bus = cpu.bus
           /\ ~supervisor(cpu) /\ supervisor(cpu)' /\ cpu.ssp % 2 # 0 => cpu'.bus = cpu.bus]_vars
    BY <1>1, <1>2
  <1> QED
    BY <1>3, CPUTypeCorrect, PTL DEF Spec, FaultsLeaveMemory
=============================================================================
