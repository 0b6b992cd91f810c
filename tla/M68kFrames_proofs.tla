--------------------------- MODULE M68kFrames_proofs ---------------------------
(***************************************************************************)
(* Nesting and returning.  For every program that keeps its stacks apart,  *)
(* board and width: open frames stay intact, RTE restores exactly what was *)
(* interrupted, and interrupts nest by priority.  For every program at     *)
(* all: a level-driven interrupt is acknowledged only while it is driven.  *)
(***************************************************************************)
EXTENDS M68kLive, M68kCPU_proofs, SequenceTheorems

-----------------------------------------------------------------------------
(***************************************************************************)
(* The interrupt mask.                                                     *)
(***************************************************************************)
LEMMA MaskRange == ASSUME NEW sr PROVE Mask(sr) \in 0 .. 7
  BY DEF Mask

\* Only bits 10..8 count.
LEMMA SameMask ==
  ASSUME NEW s, NEW t, s \cap MaskBits = t \cap MaskBits PROVE Mask(s) = Mask(t)
  <1>1. /\ 10 \in s <=> 10 \in t
        /\ 9 \in s <=> 9 \in t
        /\ 8 \in s <=> 8 \in t
    BY DEF MaskBits
  <1> QED
    BY <1>1 DEF Mask

\* What processInterrupt writes into the mask reads back as the level.
LEMMA MaskOfLevel ==
  ASSUME NEW s, NEW l \in 0 .. 7 PROVE Mask((s \ MaskBits) \cup LevelBits(l)) = l
  <1> DEFINE w == (s \ MaskBits) \cup LevelBits(l)
  <1>1. /\ 8 \in w <=> l % 2 = 1
        /\ 9 \in w <=> l \in {2, 3, 6, 7}
        /\ 10 \in w <=> l >= 4
    BY DEF LevelBits, MaskBits
  <1> HIDE DEF w
  <1>2. l \in {0, 1, 2, 3, 4, 5, 6, 7}
    OBVIOUS
  <1>3. Mask(w) = l
    BY <1>1, <1>2 DEF Mask
  <1> QED
    BY <1>3 DEF w

\* A step leaves the request alone unless it acknowledges it, and then the
\* mask is its level.
LEMMA Acknowledged ==
  ASSUME TypeOK, Step
  PROVE  \/ cpu'.pendingIPL = cpu.pendingIPL
         \/ cpu'.pendingIPL = 0 /\ Mask(cpu'.sr) = cpu.pendingIPL
  <1>1. cpu \in CPU /\ cpu.pendingIPL \in 0 .. 7
    BY Fields DEF TypeOK
  <1>2. CASE cpu' = processInterrupt(cpu)
    <2>1. /\ cpu'.sr = (SupervisorSR(cpu.sr) \ MaskBits) \cup LevelBits(cpu.pendingIPL)
          /\ cpu'.pendingIPL = 0
      BY <1>1, <1>2, interruptEntered
    <2> QED
      BY <1>1, <2>1, MaskOfLevel, Zenon
  <1> QED
    BY <1>2, StepTame DEF Tame

-----------------------------------------------------------------------------
(***************************************************************************)
(* Driven lines.  A pending request is the level the devices last drove.   *)
(***************************************************************************)
Driven == TypeOK /\ (line # nil => cpu.pendingIPL \in {0, line})

LEMMA DrivenInit == LInit => Driven
  BY InitType DEF LInit, FInit, Init, Driven

LEMMA DrivenStep == ASSUME Driven, [LNext]_lvars PROVE Driven'
  <1>1. TypeOK /\ cpu \in CPU /\ (line # nil => cpu.pendingIPL \in {0, line})
    BY DEF Driven, TypeOK
  <1>2. CASE CallStep
    <2>1. Step /\ line' = line
      BY <1>2 DEF CallStep, FStep
    <2> QED
      BY <1>1, <2>1, StepType, Acknowledged DEF Driven
  <1>3. CASE Queue
    <2>1. Device /\ line' = nil
      BY <1>3 DEF Queue
    <2> QED
      BY <1>1, <2>1, HostType DEF Driven
  <1>4. CASE ResetAll
    <2>1. Reset /\ cpu'.pendingIPL = 0
      BY <1>1, <1>4 DEF ResetAll, Reset, CPU
    <2> QED
      BY <1>1, <2>1, HostType DEF Driven
  <1>5. ASSUME NEW level \in {0} \cup Levels, Drive(level) PROVE Driven'
    <2>1. SetIPL(level, nil) /\ line' = level
      BY <1>5 DEF Drive
    <2>2. Line
      BY <2>1 DEF Line
    <2>3. cpu'.pendingIPL = level
      BY <1>1, <2>1 DEF SetIPL, CPU
    <2> QED
      BY <1>1, <2>1, <2>2, <2>3, HostType DEF Driven
  <1>6. CASE UNCHANGED lvars
    BY <1>1, <1>6 DEF lvars, Driven, TypeOK
  <1> QED
    BY <1>2, <1>3, <1>4, <1>5, <1>6 DEF LNext

\* For every program, an interrupt that a level-driving system acknowledges
\* has the level its devices drive at that moment, and that level becomes the
\* mask: SetIPL replaces the request, and nothing but processInterrupt
\* consumes it.
THEOREM AcknowledgeIsCurrent == LSpec => NoStaleAck
  <1>1. ASSUME Driven, [LNext]_lvars, line # nil, cpu.pendingIPL # 0, cpu'.pendingIPL = 0,
               turn' # turn
        PROVE  cpu.pendingIPL = line /\ Mask(cpu'.sr) = line
    <2>1. Step
      BY <1>1 DEF LNext, CallStep, FStep, Queue, ResetAll, Drive, lvars
    <2> QED
      BY <1>1, <2>1, Acknowledged DEF Driven
  <1>2. Driven /\ [LNext]_lvars =>
          [line # nil /\ cpu.pendingIPL # 0 /\ cpu'.pendingIPL = 0 /\ turn' # turn
             => cpu.pendingIPL = line /\ Mask(cpu'.sr) = line]_lvars
    BY <1>1
  <1>3. Driven /\ [LNext]_lvars => Driven'
    BY DrivenStep
  <1> QED
    BY <1>2, <1>3, DrivenInit, PTL DEF LSpec, NoStaleAck

-----------------------------------------------------------------------------
(***************************************************************************)
(* What a step that stacks frame f does, seen from the state before it.    *)
(***************************************************************************)
FrameType == [pc : Addr, sr : Word, sp : Addr, level : 0 .. 7, resume : Addr]

Pushes(f) ==
  /\ f \in FrameType
  /\ cpu.sr \subseteq ValidSR => f.sr \subseteq ValidSR /\ cpu'.sr \subseteq ValidSR
  /\ ~cpu'.halted => ~cpu.halted /\ Stacked(cpu'.bus, Add(f.sp, -6), f.pc, f.sr)
  /\ \A p \in RAM \ CellsOf(Add(f.sp, -6)) : cpu'.bus[p] = cpu.bus[p]
  /\ Mask(f.sr) = Mask(cpu.sr)
  /\ IF f.level = 0 THEN Mask(cpu'.sr) = Mask(cpu.sr)
     ELSE Mask(cpu'.sr) = f.level /\ (f.level > Mask(cpu.sr) \/ f.level = 7)

LEMMA FrameFields ==
  ASSUME NEW c \in CPU, NEW pc \in Addr, NEW level \in 0 .. 7, NEW resume \in Addr
  PROVE  LET f == Frame(c, pc, level, resume)
         IN /\ f \in FrameType /\ f.pc = pc /\ f.sr = c.sr /\ f.sp = SSP(c) /\ f.level = level
            /\ Add(f.sp, -6) = (SSP(c) - 6) % RegMod
  <1>1. SSP(c) \in Addr /\ c.sr \in Word
    BY Fields, AType, AddrInt DEF SSP
  <1>2. SSP(c) \in Int /\ Add(SSP(c), -6) = (SSP(c) - 6) % RegMod
    BY <1>1, AddrInt, Zenon DEF Add
  <1> QED
    BY <1>1, <1>2 DEF Frame, FrameType

\* A handler that raises an exception in a state c whose mask and memory are
\* still those of the step's beginning.
LEMMA ExceptionPushes ==
  ASSUME TypeOK, NEW c \in CPU, NEW v \in 0 .. 255, Before(cpu, c), cpu.halted => c.halted,
         Finish(exception(c, v)), NEW pc, pc = PushedPC(c, v)
  PROVE  Pushes(Frame(c, pc, 0, pc))
  <1> DEFINE d == exception(c, v)
             f == Frame(c, pc, 0, pc)
  <1>1. d \in CPU /\ Entered(c, d, pc) /\ d.sr = SupervisorSR(c.sr)
    BY exceptionType, exceptionEntered, Zenon
  <1>2. cpu' = [d EXCEPT !.halted = d.halted \/ d.pc % 2 # 0]
    BY DEF Finish
  <1> HIDE DEF d
  <1>3. cpu'.sr = d.sr /\ cpu'.bus = d.bus /\ (d.halted => cpu'.halted)
    BY <1>1, <1>2 DEF CPU
  <1>4. pc \in Addr /\ 0 \in 0 .. 7
    BY Fields DEF PushedPC
  <1>5. /\ f \in FrameType /\ f.pc = pc /\ f.sr = c.sr /\ f.level = 0
        /\ Add(f.sp, -6) = d.A[7]
    <2>1. d.A[7] = (SSP(c) - 6) % RegMod
      BY <1>1 DEF Entered
    <2> QED
      BY <1>4, <2>1, FrameFields
  <1> HIDE DEF f
  <1>6. /\ c.sr \cap MaskBits = cpu.sr \cap MaskBits /\ c.bus = cpu.bus
        /\ cpu.sr \subseteq ValidSR => c.sr \subseteq ValidSR
    BY DEF Before, Plain, SameSystem, SystemBits
  <1>7. d.sr \cap MaskBits = c.sr \cap MaskBits /\ (c.sr \subseteq ValidSR => d.sr \subseteq ValidSR)
    BY <1>1 DEF SupervisorSR, MaskBits, ValidSR, flagS, flagT
  <1>8. Mask(f.sr) = Mask(cpu.sr) /\ Mask(cpu'.sr) = Mask(cpu.sr)
    BY <1>3, <1>5, <1>6, <1>7, SameMask
  <1>9. ~cpu'.halted => ~cpu.halted /\ Stacked(cpu'.bus, d.A[7], pc, c.sr)
    BY <1>1, <1>3 DEF Entered
  <1>10. \A p \in RAM \ CellsOf(d.A[7]) : cpu'.bus[p] = cpu.bus[p]
    BY <1>1, <1>3, <1>6 DEF Entered
  <1>11. Pushes(f)
    BY <1>3, <1>5, <1>6, <1>7, <1>8, <1>9, <1>10 DEF Pushes
  <1> QED
    BY <1>11 DEF f

LEMMA InterruptPushes == ASSUME TypeOK, Interrupted PROVE Pushes(InterruptFrame)
  <1> DEFINE d == processInterrupt(cpu)
             f == InterruptFrame
  <1>1. cpu \in CPU /\ cpu' = d /\ Takes(cpu)
    BY DEF TypeOK, Interrupted, TakeInterrupt, StoppedStep
  <1>2. /\ Entered(cpu, d, cpu.pc) /\ d \in CPU
        /\ d.sr = (SupervisorSR(cpu.sr) \ MaskBits) \cup LevelBits(cpu.pendingIPL)
    BY <1>1, interruptEntered, processInterruptType
  <1> HIDE DEF d
  <1>3. cpu.pc \in Addr /\ Add(cpu.pc, 4) \in Addr /\ cpu.pendingIPL \in 0 .. 7
    BY <1>1, Fields, PCInt, AddType
  <1>4. /\ f \in FrameType /\ f.pc = cpu.pc /\ f.sr = cpu.sr /\ f.level = cpu.pendingIPL
        /\ Add(f.sp, -6) = d.A[7]
    <2>1. d.A[7] = (SSP(cpu) - 6) % RegMod
      BY <1>2 DEF Entered
    <2> DEFINE resume == IF cpu.stopped THEN Add(cpu.pc, 4) ELSE cpu.pc
    <2>2. f = Frame(cpu, cpu.pc, cpu.pendingIPL, resume) /\ resume \in Addr
      BY <1>3 DEF InterruptFrame
    <2> HIDE DEF f, resume
    <2> QED
      BY <1>1, <1>3, <2>1, <2>2, FrameFields
  <1> HIDE DEF f
  <1>5. Mask(d.sr) = cpu.pendingIPL
    BY <1>2, <1>3, MaskOfLevel, Zenon
  <1>6. cpu.sr \subseteq ValidSR => d.sr \subseteq ValidSR
    BY <1>1, interruptTame DEF d
  <1>7. ~cpu'.halted => ~cpu.halted /\ Stacked(cpu'.bus, d.A[7], cpu.pc, cpu.sr)
    BY <1>1, <1>2 DEF Entered
  <1>8. \A p \in RAM \ CellsOf(d.A[7]) : cpu'.bus[p] = cpu.bus[p]
    BY <1>1, <1>2 DEF Entered
  <1>9. Pushes(f)
    BY <1>1, <1>4, <1>5, <1>6, <1>7, <1>8 DEF Pushes, Takes
  <1> QED
    BY <1>9 DEF f

\* fetched differs from cpu in pc and prevPC.
LEMMA FetchedFields ==
  ASSUME TypeOK
  PROVE  /\ fetched \in CPU /\ Before(cpu, fetched) /\ fetched.halted = cpu.halted
         /\ fetched.prevPC = cpu.pc /\ fetched.sr = cpu.sr /\ fetched.A = cpu.A
         /\ fetched.ssp = cpu.ssp /\ fetched.usp = cpu.usp /\ fetched.bus = cpu.bus
         /\ \A pc, level, resume : Frame(fetched, pc, level, resume) = Frame(cpu, pc, level, resume)
  <1>1. cpu \in CPU /\ fetched \in CPU /\ Before(cpu, fetched)
    BY FetchedType, FetchedPlain DEF TypeOK
  <1>2. /\ fetched.halted = cpu.halted /\ fetched.prevPC = cpu.pc /\ fetched.sr = cpu.sr
        /\ fetched.A = cpu.A /\ fetched.ssp = cpu.ssp /\ fetched.usp = cpu.usp
        /\ fetched.bus = cpu.bus
    BY <1>1 DEF fetched, CPU
  <1> QED
    BY <1>1, <1>2 DEF Frame, SSP, supervisor

LEMMA FaultPushes == ASSUME TypeOK, Faulted PROVE Pushes(FaultFrame)
  <1>1. /\ fetched \in CPU /\ Before(cpu, fetched) /\ fetched.halted = cpu.halted
        /\ fetched.prevPC = cpu.pc
        /\ \A pc, level, resume : Frame(fetched, pc, level, resume) = Frame(cpu, pc, level, resume)
        /\ supervisor(fetched) <=> supervisor(cpu)
    BY FetchedFields DEF supervisor
  <1>2. ASSUME NEW v \in {vecIllegalInstruction, vecPrivilegeViolation, vecLineA, vecLineF},
               Finish(exception(fetched, v))
        PROVE  Pushes(FaultFrame)
    <2>1. v \in 0 .. 255
      BY <1>2 DEF vecIllegalInstruction, vecPrivilegeViolation, vecLineA, vecLineF
    <2>2. PushedPC(fetched, v) = cpu.pc
      BY <1>1, <1>2 DEF PushedPC
    <2>3. Pushes(Frame(fetched, cpu.pc, 0, cpu.pc))
      BY <1>1, <1>2, <2>1, <2>2, ExceptionPushes
    <2> QED
      BY <1>1, <2>3 DEF FaultFrame
  <1>3. CASE ILLEGAL \/ LINEA \/ LINEF
    BY <1>2, <1>3 DEF ILLEGAL, LINEA, LINEF
  <1>4. CASE Refused
    <2>1. ~supervisor(fetched)
      BY <1>1, <1>4 DEF Refused
    <2>2. \A d : Privileged(fetched, d) = exception(fetched, vecPrivilegeViolation)
      BY <2>1 DEF Privileged
    <2>3. \/ STOP \/ RESET \/ MOVEtoSR \/ MOVEtoUSP \/ MOVEfromUSP
          \/ ANDItoSR \/ ORItoSR \/ EORItoSR \/ RTE
      BY <1>4 DEF Refused
    <2>4. Finish(exception(fetched, vecPrivilegeViolation))
      <3>1. CASE STOP \/ RESET \/ MOVEtoSR \/ MOVEtoUSP \/ MOVEfromUSP
        BY <2>2, <3>1, Zenon DEF STOP, RESET, MOVEtoSR, MOVEtoUSP, MOVEfromUSP,
             opSTOP, opRESET, opMOVEtoSR, opMOVEtoUSP, opMOVEfromUSP
      <3>2. CASE ANDItoSR \/ ORItoSR \/ EORItoSR \/ RTE
        BY <2>2, <3>2, Zenon DEF ANDItoSR, ORItoSR, EORItoSR, RTE, opANDItoSR, opORItoSR, opEORItoSR,
           opRTE
      <3> QED
        BY <2>3, <3>1, <3>2
    <2> QED
      BY <1>2, <2>4
  <1> QED
    BY <1>3, <1>4 DEF Faulted

LEMMA TrapPushes == ASSUME TypeOK, Trapped PROVE Pushes(TrapFrame(fetched))
  <1>1. /\ fetched \in CPU /\ Before(cpu, fetched) /\ fetched.halted = cpu.halted
        /\ fetched.sr = cpu.sr
    BY FetchedFields
  <1>2. ASSUME NEW v \in 0 .. 255, Finish(exception(fetched, v)),
               v \notin {vecIllegalInstruction, vecPrivilegeViolation, vecLineA, vecLineF}
        PROVE  Pushes(TrapFrame(fetched))
    <2>1. PushedPC(fetched, v) = fetched.pc
      BY <1>2 DEF PushedPC
    <2> QED
      BY <1>1, <1>2, <2>1, ExceptionPushes DEF TrapFrame
  <1>3. CASE TRAP
    <2>1. PICK i \in Fetched("TRAP") : Finish(exception(fetched, i.n + vecTrap0))
      BY <1>3 DEF TRAP, opTRAP
    <2>2. i.n \in 0 .. 15
      BY FetchedType, InstrFields
    <2> QED
      BY <1>2, <2>1, <2>2
        DEF vecTrap0, vecIllegalInstruction, vecPrivilegeViolation, vecLineA, vecLineF
  <1>4. CASE TRAPV /\ flagV \in cpu.sr
    <2>1. Finish(exception(fetched, vecTRAPV))
      BY <1>1, <1>4 DEF TRAPV, opTRAPV
    <2> QED
      BY <1>2, <2>1
        DEF vecTRAPV, vecIllegalInstruction, vecPrivilegeViolation, vecLineA, vecLineF
  <1> QED
    BY <1>3, <1>4 DEF Trapped

\* The operand of DIVU or CHK may move A7 and halt the CPU, but it touches
\* neither SR nor memory.
LEMMA OperandBefore ==
  ASSUME TypeOK, NEW i \in Instr
  PROVE  LET r == eaRead(fetched, i)
         IN r \in CPU /\ Before(cpu, r) /\ (cpu.halted => r.halted)
  <1>1. fetched \in CPU /\ Before(cpu, fetched) /\ fetched.halted = cpu.halted
    BY FetchedFields
  <1>2. eaRead(fetched, i) \in CPU /\ Before(fetched, eaRead(fetched, i))
    BY <1>1, eaReadType, eaPlain, Zenon DEF Word
  <1>3. eaDone(fetched, i) \in CPU /\ eaDone(fetched, i).halted = fetched.halted
    <2>1. eaDone(fetched, i) \in CPU
      BY <1>1, eaDoneType
    <2>2. /\ \A v : [fetched EXCEPT !.A[i.r] = v].halted = fetched.halted
          /\ \A v : [fetched EXCEPT !.pc = v].halted = fetched.halted
      BY <1>1 DEF CPU
    <2> QED
      BY <2>1, <2>2 DEF eaDone, fetchPC, fetchPCLong
  <1>4. fetched.halted => Accessed(eaDone(fetched, i), eaAddr(fetched, i)).halted
    BY <1>3, Zenon DEF Accessed, CPU
  <1> QED
    BY <1>1, <1>2, <1>3, <1>4, BeforeBefore DEF eaRead

LEMMA DividePushes == ASSUME TypeOK, NEW f \in DivideFrames PROVE Pushes(f)
  <1>1. PICK i \in Fetched("DIVU") :
          /\ f = TrapFrame(eaRead(fetched, i))
          /\ \E j \in JunkWord : eaValue(fetched, i, j) = {} /\ Finish(opDIVU(fetched, i, j))
    BY DEF DivideFrames
  <1> DEFINE r == eaRead(fetched, i)
  <1>2. i \in Instr
    BY FetchedType
  <1>3. r \in CPU /\ Before(cpu, r) /\ (cpu.halted => r.halted)
    BY <1>2, OperandBefore
  <1>4. Finish(exception(r, vecDivideByZero))
    BY <1>1 DEF opDIVU
  <1>5. f = TrapFrame(r)
    BY <1>1
  <1> HIDE DEF r
  <1>6. PushedPC(r, vecDivideByZero) = r.pc /\ vecDivideByZero \in 0 .. 255
    BY DEF PushedPC, vecDivideByZero, vecIllegalInstruction, vecPrivilegeViolation, vecLineA, vecLineF
  <1> QED
    BY <1>3, <1>4, <1>5, <1>6, ExceptionPushes DEF TrapFrame

LEMMA CheckPushes == ASSUME TypeOK, NEW f \in CheckFrames PROVE Pushes(f)
  <1>1. PICK i \in Fetched("CHK") :
          /\ f = TrapFrame(Tested(i))
          /\ \E j \in JunkWord : /\ i.yes \/ 15 \in eaValue(fetched, i, j)
                                 /\ Finish(opCHK(fetched, i, j))
    BY DEF CheckFrames
  <1> DEFINE r == eaRead(fetched, i)
             w == (r.sr \ {flagN, flagZ, flagV, flagC}) \cup (i.q \cap {flagN})
             t == [r EXCEPT !.sr = w]
  <1>2. i \in Instr
    BY FetchedType
  <1>3. r \in CPU /\ Before(cpu, r) /\ (cpu.halted => r.halted)
    BY <1>2, OperandBefore
  <1>4. Finish(exception(t, vecCHK)) /\ f = TrapFrame(t)
    BY <1>1 DEF opCHK, Tested
  <1> HIDE DEF r
  <1>5. /\ w \in Word /\ w \cap SystemBits = r.sr \cap SystemBits
        /\ r.sr \subseteq ValidSR => w \subseteq ValidSR
    <2>1. r.sr \in Word
      BY <1>3, Fields
    <2> QED
      BY <2>1 DEF Word, SystemBits, MaskBits, ValidSR, flagS, flagT, flagN, flagZ, flagV, flagC
  <1> HIDE DEF w
  <1>6. t \in CPU /\ Before(r, t) /\ t.halted = r.halted
    <2>1. t \in CPU
      BY <1>3, <1>5, SetWord
    <2>2. Before(r, t)
      BY <1>3, <1>5, SetConditions
    <2> QED
      BY <1>3, <2>1, <2>2 DEF CPU
  <1> HIDE DEF t
  <1>7. Before(cpu, t) /\ (cpu.halted => t.halted)
    BY <1>3, <1>6, BeforeBefore
  <1>8. PushedPC(t, vecCHK) = t.pc /\ vecCHK \in 0 .. 255
    BY DEF PushedPC, vecCHK, vecIllegalInstruction, vecPrivilegeViolation, vecLineA, vecLineF
  <1> QED
    BY <1>4, <1>6, <1>7, <1>8, ExceptionPushes DEF TrapFrame

-----------------------------------------------------------------------------
(***************************************************************************)
(* The history as a stack.                                                 *)
(***************************************************************************)
LEMMA Stacking1 ==
  ASSUME NEW S, NEW s \in Seq(S), NEW f \in S
  PROVE  LET t == <<f>> \o s
         IN /\ t \in Seq(S) /\ Len(t) = Len(s) + 1 /\ t[1] = f /\ Head(t) = f
            /\ \A n \in 2 .. Len(t) : t[n] = s[n - 1] /\ n - 1 \in 1 .. Len(s)
  <1>1. <<f>> \in Seq(S) /\ Len(<<f>>) = 1 /\ Len(s) \in Nat
    OBVIOUS
  <1>2. <<f>> \o s \in Seq(S) /\ Len(<<f>> \o s) = Len(s) + 1
    BY <1>1
  <1>3. \A n \in 1 .. Len(s) + 1 : (<<f>> \o s)[n] = IF n = 1 THEN f ELSE s[n - 1]
    BY <1>1
  <1> QED
    BY <1>1, <1>2, <1>3

LEMMA Unstacking ==
  ASSUME NEW S, NEW s \in Seq(S), s # << >>
  PROVE  /\ Tail(s) \in Seq(S) /\ Len(Tail(s)) = Len(s) - 1 /\ Head(s) = s[1] /\ Head(s) \in S
         /\ Len(s) \in Nat /\ Len(s) > 0
         /\ \A n \in 1 .. Len(Tail(s)) : Tail(s)[n] = s[n + 1] /\ n + 1 \in 1 .. Len(s)
  <1>1. Len(s) \in Nat /\ Len(s) > 0
    BY EmptySeq
  <1> QED
    BY <1>1

\* A step stacks one frame, drops the newest or leaves the history alone, and
\* it drops one only by returning.
LEMMA FrameSteps ==
  ASSUME TypeOK, FStep
  PROVE  \/ \E f : Pushes(f) /\ frames' = <<f>> \o frames
         \/ Returned /\ frames' = Tail(frames)
         \/ ~Returned /\ frames' = frames
  <1>1. frames' \in NextFrames
    BY DEF FStep
  <1>2. \/ Interrupted /\ frames' \in Stack({InterruptFrame})
        \/ Faulted /\ frames' \in Stack({FaultFrame})
        \/ Trapped /\ frames' \in Stack({TrapFrame(fetched)})
        \/ frames' \in Stack(DivideFrames)
        \/ frames' \in Stack(CheckFrames)
        \/ Returned /\ frames' = Tail(frames)
        \/ ~Returned /\ frames' = frames
    BY <1>1 DEF NextFrames
  <1> QED
    BY <1>2, InterruptPushes, FaultPushes, TrapPushes, DividePushes, CheckPushes, Zenon DEF Stack

-----------------------------------------------------------------------------
(***************************************************************************)
(* The words of a frame.                                                   *)
(***************************************************************************)
LEMMA FrameWords ==
  ASSUME NEW x \in Addr, NEW y, y = Add(x, -6)
  PROVE  /\ y \in Addr /\ Add(y, 0) = y
         /\ Add(y, 2) = Add(x, -4) /\ Add(y, 4) = Add(x, -2) /\ Add(y, 6) = x
  <1>1. RegMod \in Nat /\ RegMod > 6 /\ x \in 0 .. RegMod - 1 /\ x \in Int
    BY Widths DEF Widths, Addr
  <1>2. y \in Addr /\ Add(y, 0) = y
    <2>1. y \in Addr
      BY <1>1, AddType
    <2> QED
      BY <2>1, AddZero
  <1>3. CASE x >= 6
    <2>1. y = x - 6
      BY <1>1, <1>3 DEF Add
    <2> QED
      BY <1>1, <1>2, <1>3, <2>1 DEF Add
  <1>4. CASE x < 6
    <2>1. y = x - 6 + RegMod
      BY <1>1, <1>4 DEF Add
    <2>2. Add(y, 2) = Add(x, -4)
      <3>1. CASE x < 4
        BY <1>1, <2>1, <3>1 DEF Add
      <3>2. CASE x >= 4
        BY <1>1, <1>4, <2>1, <3>2 DEF Add
      <3> QED
        BY <1>1, <3>1, <3>2
    <2>3. Add(y, 4) = Add(x, -2)
      <3>1. CASE x < 2
        BY <1>1, <2>1, <3>1 DEF Add
      <3>2. CASE x >= 2
        BY <1>1, <1>4, <2>1, <3>2 DEF Add
      <3> QED
        BY <1>1, <3>1, <3>2
    <2>4. Add(y, 6) = x
      BY <1>1, <1>4, <2>1 DEF Add
    <2> QED
      BY <1>2, <2>2, <2>3, <2>4
  <1> QED
    BY <1>1, <1>3, <1>4

Intact(bus, f) ==
  LET at(k) == Add(f.sp, k) % BusMod
  IN /\ bus[at(-6)] = WordCell(f.sr)
     /\ bus[at(-4)] = HalfCell("hi", f.pc)
     /\ bus[at(-2)] = HalfCell("lo", f.pc)

LEMMA CellsWhere ==
  ASSUME NEW f \in FrameType
  PROVE  /\ Cells(f) = CellsOf(Add(f.sp, -6))
         /\ \A k \in {-6, -4, -2} : Add(f.sp, k) % BusMod \in Cells(f)
  <1>1. f.sp \in Addr
    BY DEF FrameType
  <1> DEFINE y == Add(f.sp, -6)
  <1>2. Add(y, 0) = Add(f.sp, -6) /\ Add(y, 2) = Add(f.sp, -4) /\ Add(y, 4) = Add(f.sp, -2)
    BY <1>1, FrameWords
  <1> HIDE DEF y
  <1>3. CellsOf(y) = {Add(y, 0) % BusMod, Add(y, 2) % BusMod, Add(y, 4) % BusMod}
    BY DEF CellsOf
  <1>4. Cells(f) = {Add(f.sp, -6) % BusMod, Add(f.sp, -4) % BusMod, Add(f.sp, -2) % BusMod}
    BY DEF Cells
  <1> QED
    BY <1>2, <1>3, <1>4 DEF y

\* Stacking in RAM leaves the frame intact.
LEMMA StackedIntact ==
  ASSUME NEW f \in FrameType, NEW bus, Cells(f) \subseteq RAM,
         Stacked(bus, Add(f.sp, -6), f.pc, f.sr)
  PROVE  Intact(bus, f)
  <1>1. f.sp \in Addr
    BY DEF FrameType
  <1> DEFINE y == Add(f.sp, -6)
  <1>2. Add(y, 0) = Add(f.sp, -6) /\ Add(y, 2) = Add(f.sp, -4) /\ Add(y, 4) = Add(f.sp, -2)
    BY <1>1, FrameWords
  <1>3. \A k \in {-6, -4, -2} : Add(f.sp, k) % BusMod \in RAM
    BY CellsWhere
  <1>4. Stacked(bus, y, f.pc, f.sr)
    OBVIOUS
  <1> HIDE DEF y
  <1> QED
    BY <1>2, <1>3, <1>4 DEF Stacked, Intact

LEMMA IntactKept ==
  ASSUME NEW f \in FrameType, NEW b, NEW c, Intact(b, f), \A a \in Cells(f) : c[a] = b[a]
  PROVE  Intact(c, f)
  BY CellsWhere DEF Intact

-----------------------------------------------------------------------------
(***************************************************************************)
(* Open frames stay intact.  The invariant adds to FramesIntact that open  *)
(* frames lie in RAM, so that what was stacked can be read back, and that  *)
(* SR never holds a bit that RTE would not restore.                        *)
(***************************************************************************)
Sound ==
  /\ TypeOK /\ cpu.sr \subseteq ValidSR
  /\ frames \in Seq(FrameType)
  /\ \A n \in 1 .. Len(frames) :
       /\ frames[n].sr \subseteq ValidSR /\ Cells(frames[n]) \subseteq RAM
       /\ ~cpu.halted => Intact(cpu.bus, frames[n])

LEMMA SoundIntact == Sound => FramesIntact
  BY DEF Sound, FramesIntact, Intact

LEMMA SoundInit == FInit => Sound
  <1> SUFFICES ASSUME FInit PROVE Sound
    OBVIOUS
  <1>1. TypeOK /\ frames = << >> /\ frames \in Seq(FrameType) /\ Len(frames) = 0
    BY InitType, EmptySeq DEF FInit
  <1>2. cpu.sr \subseteq ValidSR
    BY DEF FInit, Init, flagS, MaskBits, ValidSR
  <1> QED
    BY <1>1, <1>2 DEF Sound

LEMMA StepValid == ASSUME TypeOK, Step, cpu.sr \subseteq ValidSR PROVE cpu'.sr \subseteq ValidSR
  BY StepTame, interruptTame DEF Tame, TypeOK

\* A stuttering step keeps the rules as well.
LEMMA RulesKept ==
  ASSUME [StackRules]_fvars, ~Stacking
  PROVE  \A n \in 1 .. Len(frames) : \A a \in Cells(frames[n]) : cpu'.bus[a] = cpu.bus[a]
  BY DEF StackRules, fvars

LEMMA SoundPush ==
  ASSUME Sound, TypeOK', [StackRules]_fvars, NEW f, Pushes(f), frames' = <<f>> \o frames
  PROVE  Sound'
  <1>1. frames \in Seq(FrameType) /\ f \in FrameType /\ Len(frames) \in Nat
    BY DEF Sound, Pushes
  <1>2. /\ frames' \in Seq(FrameType) /\ Len(frames') = Len(frames) + 1
        /\ frames'[1] = f /\ Head(frames') = f
        /\ \A n \in 2 .. Len(frames') : frames'[n] = frames[n - 1] /\ n - 1 \in 1 .. Len(frames)
    BY <1>1, Stacking1
  <1>3. Stacking /\ StackRules
    BY <1>1, <1>2 DEF Stacking, fvars
  <1>4. /\ Cells(f) \subseteq RAM
        /\ \A n \in 1 .. Len(frames) : Cells(f) \cap Cells(frames[n]) = {}
    BY <1>2, <1>3 DEF StackRules
  <1>5. cpu'.sr \subseteq ValidSR /\ f.sr \subseteq ValidSR
    BY DEF Sound, Pushes
  <1>6. ~cpu'.halted => ~cpu.halted /\ Intact(cpu'.bus, f)
    BY <1>1, <1>4, StackedIntact DEF Pushes
  <1>7. ASSUME NEW n \in 1 .. Len(frames), ~cpu'.halted PROVE Intact(cpu'.bus, frames[n])
    <2>1. frames[n] \in FrameType /\ Cells(frames[n]) \subseteq RAM /\ Intact(cpu.bus, frames[n])
      BY <1>1, <1>6, <1>7, ElementOfSeq DEF Sound
    <2>2. \A a \in Cells(frames[n]) : a \in RAM \ CellsOf(Add(f.sp, -6))
      BY <1>1, <1>4, <2>1, CellsWhere
    <2> QED
      BY <2>1, <2>2, IntactKept, Zenon DEF Pushes
  <1>8. ASSUME NEW n \in 1 .. Len(frames')
        PROVE  /\ frames'[n].sr \subseteq ValidSR /\ Cells(frames'[n]) \subseteq RAM
               /\ ~cpu'.halted => Intact(cpu'.bus, frames'[n])
    <2>1. CASE n = 1
      BY <1>2, <1>4, <1>5, <1>6, <2>1
    <2>2. CASE n # 1
      <3>1. frames'[n] = frames[n - 1] /\ n - 1 \in 1 .. Len(frames)
        BY <1>1, <1>2, <2>2
      <3> QED
        BY <1>7, <3>1 DEF Sound
    <2> QED
      BY <2>1, <2>2
  <1>9. (\A n \in 1 .. Len(frames) :
           /\ frames[n].sr \subseteq ValidSR /\ Cells(frames[n]) \subseteq RAM
           /\ ~cpu.halted => Intact(cpu.bus, frames[n]))'
    BY <1>8, Zenon DEF Cells, Intact
  <1> QED
    BY <1>2, <1>5, <1>9 DEF Sound

\* A step that stacks nothing: every frame that stays open was open.
LEMMA SoundDrop ==
  ASSUME Sound, TypeOK', [StackRules]_fvars, cpu'.sr \subseteq ValidSR, cpu.halted => cpu'.halted,
         \/ frames # << >> /\ frames' = Tail(frames)
         \/ frames' = frames
  PROVE  Sound'
  <1>1. frames \in Seq(FrameType) /\ Len(frames) \in Nat
    BY DEF Sound
  <1>2. /\ frames' \in Seq(FrameType) /\ Len(frames') \in Nat /\ ~(Len(frames') > Len(frames))
        /\ \A n \in 1 .. Len(frames') : \E m \in 1 .. Len(frames) : frames'[n] = frames[m]
    <2>1. CASE frames # << >> /\ frames' = Tail(frames)
      <3>1. /\ Tail(frames) \in Seq(FrameType) /\ Len(Tail(frames)) = Len(frames) - 1
            /\ Len(frames) \in Nat /\ Len(frames) > 0
            /\ \A n \in 1 .. Len(Tail(frames)) :
                 Tail(frames)[n] = frames[n + 1] /\ n + 1 \in 1 .. Len(frames)
        BY <1>1, <2>1, Unstacking
      <3>2. \A n \in 1 .. Len(Tail(frames)) : \E m \in 1 .. Len(frames) : Tail(frames)[n] = frames[m]
        BY <3>1, Zenon
      <3>3. Len(Tail(frames)) \in Nat /\ ~(Len(Tail(frames)) > Len(frames))
        BY <3>1
      <3> QED
        BY <2>1, <3>1, <3>2, <3>3, Zenon
    <2>2. CASE frames' = frames
      BY <1>1, <2>2
    <2> QED
      BY <2>1, <2>2
  <1>3. \A n \in 1 .. Len(frames) : \A a \in Cells(frames[n]) : cpu'.bus[a] = cpu.bus[a]
    BY <1>2, RulesKept DEF Stacking
  <1>4. ASSUME NEW n \in 1 .. Len(frames')
        PROVE  /\ frames'[n].sr \subseteq ValidSR /\ Cells(frames'[n]) \subseteq RAM
               /\ ~cpu'.halted => Intact(cpu'.bus, frames'[n])
    <2>1. PICK m \in 1 .. Len(frames) : frames'[n] = frames[m]
      BY <1>2
    <2>2. frames[m] \in FrameType
      BY <1>1, ElementOfSeq
    <2>3. ~cpu'.halted => Intact(cpu'.bus, frames[m])
      BY <1>3, <2>2, IntactKept, Zenon DEF Sound
    <2> QED
      BY <2>1, <2>3 DEF Sound
  <1>5. (\A n \in 1 .. Len(frames) :
           /\ frames[n].sr \subseteq ValidSR /\ Cells(frames[n]) \subseteq RAM
           /\ ~cpu.halted => Intact(cpu.bus, frames[n]))'
    BY <1>4 DEF Cells, Intact
  <1> QED
    BY <1>2, <1>5 DEF Sound

LEMMA SoundStep == ASSUME Sound, [FNext]_fvars, [StackRules]_fvars PROVE Sound'
  <1>1. TypeOK /\ cpu \in CPU /\ cpu.sr \subseteq ValidSR /\ frames \in Seq(FrameType)
    BY DEF Sound, TypeOK
  <1>2. CASE FStep
    <2>1. Step
      BY <1>2 DEF FStep
    <2>2. TypeOK' /\ cpu'.sr \subseteq ValidSR /\ (cpu.halted => cpu'.halted)
      BY <1>1, <2>1, StepType, StepValid, HaltedBus
    <2>3. CASE \E f : Pushes(f) /\ frames' = <<f>> \o frames
      BY <2>2, <2>3, SoundPush
    <2>4. CASE (Returned /\ frames' = Tail(frames)) \/ frames' = frames
      BY <2>2, <2>4, SoundDrop DEF Returned
    <2> QED
      BY <1>1, <1>2, <2>3, <2>4, FrameSteps, Zenon
  <1>3. CASE Device /\ UNCHANGED frames
    <2>1. TypeOK'
      BY <1>1, <1>3, HostType
    <2>2. cpu'.sr = cpu.sr /\ cpu'.halted = cpu.halted
      BY <1>1, <1>3 DEF Device, RequestInterrupt, CPU
    <2> QED
      BY <1>1, <1>3, <2>1, <2>2, SoundDrop
  <1>4. CASE Reset /\ frames' = << >>
    <2>1. TypeOK'
      BY <1>1, <1>4, HostType
    <2>2. cpu'.sr \subseteq ValidSR
      <3>1. cpu'.sr = {flagS} \cup MaskBits
        BY <1>1, <1>4 DEF Reset, CPU
      <3> QED
        BY <3>1 DEF flagS, MaskBits, ValidSR
    <2>3. frames' \in Seq(FrameType) /\ Len(frames') = 0
      BY <1>4, EmptySeq
    <2> QED
      BY <2>1, <2>2, <2>3 DEF Sound
  <1>5. CASE UNCHANGED fvars
    <2>1. UNCHANGED <<cpu, inStep, frames>>
      BY <1>5 DEF fvars
    <2> QED
      BY <1>1, <2>1, SoundDrop DEF TypeOK
  <1> QED
    BY <1>2, <1>3, <1>4, <1>5 DEF FNext, FHost

\* For every program that keeps its stacks apart, the frames still to be
\* returned from lie unharmed on the supervisor stack: what exception and
\* processInterrupt push, and everything pushed over it, goes where A7 says
\* the supervisor stack is.
THEOREM FramesStayIntact == FSpec /\ StacksDisciplined => []FramesIntact
  <1>1. Sound /\ [FNext]_fvars /\ [StackRules]_fvars => Sound'
    BY SoundStep
  <1> QED
    BY <1>1, SoundInit, SoundIntact, PTL DEF FSpec, StacksDisciplined

-----------------------------------------------------------------------------
(***************************************************************************)
(* Returning.                                                              *)
(***************************************************************************)
LEMMA PoppedFields ==
  ASSUME NEW c \in CPU, NEW n \in Int
  PROVE  LET p == popped(c, n)
         IN /\ p \in CPU /\ p.A[7] = Add(c.A[7], n) /\ p.halted = (c.halted \/ c.A[7] % 2 # 0)
            /\ p.bus = c.bus /\ p.sr = c.sr /\ p.usp = c.usp /\ p.ssp = c.ssp
  <1> DEFINE h == c.halted \/ c.A[7] % 2 # 0
             d == [c EXCEPT !.halted = h]
  <1>1. h \in BOOLEAN /\ popped(c, n) = [d EXCEPT !.A[7] = Add(d.A[7], n)]
    BY DEF popped, Accessed
  <1>2. popped(c, n) \in CPU /\ c.A \in [AReg -> Addr] /\ 7 \in AReg
    BY PoppedType, Fields, AddrInt
  <1> HIDE DEF h
  <1>3. /\ d \in CPU /\ d.A = c.A /\ d.halted = h /\ d.bus = c.bus /\ d.sr = c.sr
        /\ d.usp = c.usp /\ d.ssp = c.ssp
    <2>1. d \in CPU
      BY <1>1, SetHalted
    <2> QED
      BY <2>1 DEF CPU
  <1> HIDE DEF d
  <1>4. LET p == [d EXCEPT !.A[7] = Add(d.A[7], n)]
        IN /\ p.A[7] = Add(d.A[7], n) /\ p.halted = d.halted /\ p.bus = d.bus /\ p.sr = d.sr
           /\ p.usp = d.usp /\ p.ssp = d.ssp
    BY <1>2, <1>3 DEF CPU
  <1> QED
    BY <1>1, <1>2, <1>3, <1>4 DEF h

\* Writing SR in supervisor mode exchanges A7 but moves neither stack.
LEMMA setSRStacks ==
  ASSUME NEW c \in CPU, NEW w \in Word, flagS \in c.sr
  PROVE  LET e == setSR(c, w)
         IN /\ e \in CPU /\ e.sr = w \cap ValidSR
            /\ SSP(e) = c.A[7] /\ USP(e) = c.usp
  <1>1. setSR(c, w) \in CPU /\ c.A \in [AReg -> Addr] /\ 7 \in AReg
    BY SetSRType, Fields, AddrInt, Zenon
  <1>2. flagS \in w \cap ValidSR <=> flagS \in w
    BY DEF flagS, ValidSR
  <1>3. \A s, u, a, v : LET e == [c EXCEPT !.ssp = s, !.usp = u, !.A[7] = a, !.sr = v]
                       IN e.ssp = s /\ e.usp = u /\ e.A[7] = a /\ e.sr = v
    BY <1>1 DEF CPU
  <1>4. CASE flagS \in w
    <2>1. /\ setSR(c, w).usp = c.usp /\ setSR(c, w).A[7] = c.A[7]
          /\ setSR(c, w).sr = w \cap ValidSR
      BY <1>3, <1>4 DEF setSR
    <2> QED
      BY <1>1, <1>2, <1>4, <2>1 DEF SSP, USP, supervisor
  <1>5. CASE flagS \notin w
    <2>1. /\ setSR(c, w).ssp = c.A[7] /\ setSR(c, w).A[7] = c.usp
          /\ setSR(c, w).sr = w \cap ValidSR
      BY <1>3, <1>5 DEF setSR
    <2> QED
      BY <1>1, <1>2, <1>5, <2>1 DEF SSP, USP, supervisor
  <1> QED
    BY <1>4, <1>5

\* What RTE pops is what lies in the frame under A7.
LEMMA FrameRead ==
  ASSUME NEW c \in CPU, NEW f \in FrameType, ~c.halted, c.A[7] = Add(f.sp, -6),
         Cells(f) \subseteq RAM, Intact(c.bus, f), NEW jw, NEW jl
  PROVE  LET s == popped(c, 2)
         IN /\ ReadWord(c, c.A[7], jw) = f.sr /\ ReadLong(s, s.A[7], jl) = f.pc
            /\ ~s.halted /\ s.A[7] % 2 = 0 /\ Add(s.A[7], 4) = f.sp
  <1> DEFINE s == popped(c, 2)
             y == c.A[7]
  <1>1. f.sp \in Addr
    BY DEF FrameType
  <1>2. /\ y \in Addr /\ Add(y, 0) = y
        /\ Add(y, 2) = Add(f.sp, -4) /\ Add(y, 4) = Add(f.sp, -2) /\ Add(y, 6) = f.sp
    BY <1>1, FrameWords
  <1>3. y \in Int /\ RegMod \in Nat /\ RegMod > 6 /\ BusMod \in Nat /\ BusMod > 6 /\ y \in 0 .. RegMod - 1
    BY <1>2, AddrInt, Widths DEF Widths, Addr
  <1>4. /\ y % BusMod \in RAM /\ Add(y, 2) % BusMod \in RAM /\ Add(y, 4) % BusMod \in RAM
    BY <1>2, CellsWhere
  <1>5. /\ c.bus[y % BusMod] = WordCell(f.sr)
        /\ c.bus[Add(y, 2) % BusMod] = HalfCell("hi", f.pc)
        /\ c.bus[Add(y, 4) % BusMod] = HalfCell("lo", f.pc)
    BY <1>2 DEF Intact
  <1>6. y % 2 = 0
    <2>1. (y % BusMod) % 2 = 0
      BY <1>4, Board, Zenon DEF Board, BusAddr
    <2> QED
      BY <1>3, <2>1, Parity
  <1>7. s \in CPU /\ s.A[7] = Add(y, 2) /\ ~s.halted /\ s.bus = c.bus
    <2>1. /\ s \in CPU /\ s.A[7] = Add(y, 2) /\ s.bus = c.bus
          /\ s.halted = (c.halted \/ y % 2 # 0)
      BY PoppedFields
    <2> HIDE DEF s, y
    <2> QED
      BY <1>6, <2>1, Zenon
  <1>8. Add(y, 2) % 2 = 0 /\ Add(Add(y, 2), 4) = f.sp /\ Add(y, 2) \in Int
        /\ (Add(y, 2) + 2) % BusMod = Add(y, 4) % BusMod
    <2>1. Add(y, 2) \in Addr /\ Add(y, 2) \in Int
      <3>1. Add(y, 2) \in Addr
        BY <1>3, AddType
      <3> QED
        BY <3>1, AddrInt, Zenon
    <2>2. Add(y, 2) % 2 = 0
      <3>1. y + 2 \in Int /\ (y + 2) % 2 = 0
        BY <1>3, <1>6
      <3> QED
        BY <3>1, Parity DEF Add
    <2>3. Add(Add(y, 2), 4) = Add(y, 6) /\ Add(Add(y, 2), 2) = Add(y, 4)
      <3>1. CASE y + 2 < RegMod
        <4>1. Add(y, 2) = y + 2
          BY <1>3, <3>1 DEF Add
        <4> QED
          BY <1>3, <4>1 DEF Add
      <3>2. CASE y + 2 >= RegMod
        <4>1. Add(y, 2) = y + 2 - RegMod
          BY <1>3, <3>2 DEF Add
        <4>2. Add(y, 4) = y + 4 - RegMod /\ Add(y, 6) = y + 6 - RegMod
          BY <1>3, <3>2 DEF Add
        <4> QED
          BY <1>3, <3>2, <4>1, <4>2 DEF Add
      <3> QED
        BY <1>3, <3>1, <3>2
    <2>4. Add(Add(y, 2), 2) % BusMod = (Add(y, 2) + 2) % BusMod
      <3> DEFINE x == Add(y, 2)
      <3>1. x + 2 \in Int
        BY <2>1
      <3> HIDE DEF x
      <3>2. Add(x, 2) % BusMod = (x + 2) % BusMod
        BY <3>1, BusOfReg DEF Add
      <3> QED
        BY <3>2 DEF x
    <2> QED
      BY <1>2, <2>1, <2>2, <2>3, <2>4
  <1> HIDE DEF s, y
  <1>9. ReadWord(c, y, jw) = f.sr
    BY <1>4, <1>5, <1>6 DEF ReadWord, Live, WordCell
  <1>10. ReadLong(s, s.A[7], jl) = f.pc
    <2> DEFINE x == Add(y, 2)
               b == c.bus
    <2>1. /\ b[x % BusMod].kind = "hi" /\ b[x % BusMod].long = f.pc
          /\ b[Add(y, 4) % BusMod].kind = "lo" /\ b[Add(y, 4) % BusMod].long = f.pc
      BY <1>5 DEF HalfCell
    <2>2. s.A[7] = x /\ s.bus = b /\ Live(s, x) /\ (x + 2) % BusMod = Add(y, 4) % BusMod
      BY <1>7, <1>8 DEF Live
    <2>3. x % BusMod \in RAM /\ Add(y, 4) % BusMod \in RAM
      BY <1>4
    <2> HIDE DEF x, b
    <2> QED
      BY <2>1, <2>2, <2>3 DEF ReadLong
  <1> QED
    BY <1>7, <1>8, <1>9, <1>10 DEF s, y

LEMMA Restored ==
  ASSUME Sound, Returned, cpu.A[7] = Add(Head(frames).sp, -6)
  PROVE  /\ cpu'.pc = Head(frames).pc /\ cpu'.sr = Head(frames).sr
         /\ SSP(cpu') = Head(frames).sp /\ USP(cpu') = USP(cpu)
  <1> DEFINE f == Head(frames)
  <1>1. PICK i \in Fetched("RTE"), jw \in JunkWord, jl \in JunkLong : Finish(opRTE(fetched, jw, jl))
    BY DEF Returned, RTE
  <1>2. ~cpu.halted /\ flagS \in cpu.sr
    BY <1>1 DEF Fetched, Returned, supervisor
  <1>3. /\ f \in FrameType /\ f.sr \subseteq ValidSR /\ Cells(f) \subseteq RAM
        /\ Intact(cpu.bus, f) /\ f.sr \in Word /\ f.pc \in Addr
    <2>1. frames \in Seq(FrameType) /\ frames # << >>
      BY DEF Sound, Returned
    <2>2. f = frames[1] /\ 1 \in 1 .. Len(frames) /\ f \in FrameType
      BY <2>1, Unstacking
    <2> HIDE DEF f
    <2> QED
      BY <1>2, <2>2 DEF Sound, FrameType
  <1> HIDE DEF f
  <1>4. /\ fetched \in CPU /\ ~fetched.halted /\ fetched.A = cpu.A /\ fetched.bus = cpu.bus
        /\ fetched.sr = cpu.sr /\ fetched.usp = cpu.usp
    BY <1>2, FetchedFields DEF Sound
  <1> DEFINE c == fetched
             s == popped(c, 2)
             p == popped(s, 4)
             d == setSR(p, f.sr)
  <1>5. /\ ReadWord(c, c.A[7], jw) = f.sr /\ ReadLong(s, s.A[7], jl) = f.pc
        /\ Add(s.A[7], 4) = f.sp
    <2>1. c.A[7] = Add(f.sp, -6) /\ Intact(c.bus, f)
      BY <1>3, <1>4 DEF f
    <2> QED
      BY <1>3, <1>4, <2>1, FrameRead
  <1> HIDE DEF c
  <1>6. s \in CPU /\ s.sr = c.sr /\ s.usp = c.usp
    BY <1>4, PoppedFields DEF c
  <1>7. p \in CPU /\ p.sr = c.sr /\ p.usp = c.usp /\ p.A[7] = f.sp
    <2> HIDE DEF s
    <2>1. p \in CPU /\ p.sr = s.sr /\ p.usp = s.usp /\ p.A[7] = Add(s.A[7], 4)
      BY <1>6, PoppedFields
    <2> HIDE DEF p
    <2> QED
      BY <1>5, <1>6, <2>1
  <1> HIDE DEF p
  <1>8. d \in CPU /\ d.sr = f.sr /\ SSP(d) = f.sp /\ USP(d) = cpu.usp
    <2>1. d \in CPU /\ d.sr = f.sr \cap ValidSR /\ SSP(d) = p.A[7] /\ USP(d) = p.usp
      BY <1>2, <1>3, <1>4, <1>7, setSRStacks DEF c
    <2> HIDE DEF d
    <2> QED
      BY <1>3, <1>4, <1>7, <2>1 DEF c
  <1>9. opRTE(fetched, jw, jl) = [d EXCEPT !.pc = f.pc]
    <2>1. supervisor(fetched)
      BY <1>2, <1>4 DEF supervisor
    <2> QED
      BY <1>5, <2>1 DEF opRTE, Privileged, c, d, p
  <1> HIDE DEF d
  <1> DEFINE e == [d EXCEPT !.pc = f.pc]
  <1>10. /\ e \in CPU /\ e.pc = f.pc /\ e.sr = d.sr /\ e.A = d.A /\ e.usp = d.usp /\ e.ssp = d.ssp
    BY <1>3, <1>8 DEF CPU
  <1>11. cpu' = [e EXCEPT !.halted = e.halted \/ e.pc % 2 # 0]
    BY <1>1, <1>9 DEF Finish
  <1> HIDE DEF e
  <1>12. /\ cpu'.pc = e.pc /\ cpu'.sr = e.sr /\ cpu'.A = e.A /\ cpu'.usp = e.usp
         /\ cpu'.ssp = e.ssp
    BY <1>10, <1>11 DEF CPU
  <1>13. SSP(cpu') = SSP(d) /\ USP(cpu') = USP(d) /\ USP(cpu) = cpu.usp
    BY <1>2, <1>10, <1>12 DEF SSP, USP, supervisor
  <1> QED
    BY <1>8, <1>10, <1>12, <1>13 DEF f

\* For every program that keeps its stacks apart, RTE gives back exactly the
\* context that its exception or interrupt saved: PC, the whole of SR and the
\* supervisor stack pointer, with the user's untouched.
THEOREM RTERestores == FSpec /\ StacksDisciplined => ReturnRestores
  <1>1. Sound /\ [FNext]_fvars /\ [StackRules]_fvars => Sound'
    BY SoundStep
  <1>2. Sound /\ [StackRules]_fvars =>
          [Returned => /\ cpu'.pc = Head(frames).pc /\ cpu'.sr = Head(frames).sr
                       /\ SSP(cpu') = Head(frames).sp /\ USP(cpu') = USP(cpu)]_fvars
    BY Restored DEF StackRules
  <1> QED
    BY <1>1, <1>2, SoundInit, PTL DEF FSpec, StacksDisciplined, ReturnRestores

-----------------------------------------------------------------------------
(***************************************************************************)
(* Nesting.  The invariant adds to NestByPriority that the mask in force,  *)
(* and the one each frame will restore, is at least the level of every     *)
(* handler below it: it is what keeps checkInterrupt from letting a lower  *)
(* level in after a return.                                                *)
(***************************************************************************)
Above(f, g) ==
  /\ Mask(f.sr) >= g.level
  /\ f.level # 0 /\ g.level # 0 => f.level > g.level \/ f.level = 7

Nested ==
  \A n \in 1 .. Len(frames) :
    /\ Mask(cpu.sr) >= frames[n].level
    /\ \A m \in 1 .. Len(frames) : m < n => Above(frames[m], frames[n])

LEMMA FrameLevels ==
  ASSUME frames \in Seq(FrameType) PROVE \A n \in 1 .. Len(frames) : frames[n].level \in 0 .. 7
  <1>1. \A n \in 1 .. Len(frames) : frames[n] \in FrameType
    BY ElementOfSeq
  <1>2. \A f \in FrameType : f.level \in 0 .. 7
    BY DEF FrameType
  <1> QED
    BY <1>1, <1>2

LEMMA NestedPush ==
  ASSUME Sound, Nested, NEW f, Pushes(f), frames' = <<f>> \o frames PROVE Nested'
  <1>1. frames \in Seq(FrameType) /\ f \in FrameType /\ Len(frames) \in Nat
    BY DEF Sound, Pushes
  <1>2. /\ Len(frames') = Len(frames) + 1 /\ frames'[1] = f
        /\ \A n \in 2 .. Len(frames') : frames'[n] = frames[n - 1] /\ n - 1 \in 1 .. Len(frames)
    BY <1>1, Stacking1
  <1>3. /\ \A n \in 1 .. Len(frames) : frames[n].level \in 0 .. 7
        /\ Mask(cpu.sr) \in 0 .. 7 /\ Mask(cpu'.sr) \in 0 .. 7 /\ f.level \in 0 .. 7
    <2>1. f.level \in 0 .. 7
      BY <1>1 DEF FrameType
    <2> QED
      BY <1>1, <2>1, FrameLevels, MaskRange
  <1>8. /\ Mask(f.sr) = Mask(cpu.sr)
        /\ f.level = 0 => Mask(cpu'.sr) = Mask(cpu.sr)
        /\ f.level # 0 => Mask(cpu'.sr) = f.level /\ (f.level > Mask(cpu.sr) \/ f.level = 7)
    BY DEF Pushes
  <1>4. ASSUME NEW n \in 1 .. Len(frames)
        PROVE  Mask(cpu'.sr) >= frames[n].level /\ Above(f, frames[n])
    <2>1. Mask(cpu.sr) >= frames[n].level /\ frames[n].level \in 0 .. 7
      BY <1>3 DEF Nested
    <2>2. Mask(cpu'.sr) >= frames[n].level
      BY <1>3, <1>8, <2>1
    <2>3. f.level # 0 => f.level > frames[n].level \/ f.level = 7
      BY <1>3, <1>8, <2>1
    <2> QED
      BY <1>8, <2>1, <2>2, <2>3 DEF Above
  <1>5. Mask(cpu'.sr) >= f.level
    BY <1>3, <1>8
  <1>6. ASSUME NEW n \in 1 .. Len(frames'), NEW m \in 1 .. Len(frames'), m < n
        PROVE  Above(frames'[m], frames'[n])
    <2>1. n \in 2 .. Len(frames')
      BY <1>1, <1>2, <1>6
    <2>2. frames'[n] = frames[n - 1] /\ n - 1 \in 1 .. Len(frames)
      BY <1>2, <2>1
    <2>3. CASE m = 1
      BY <1>2, <1>4, <2>2, <2>3
    <2>4. CASE m # 1
      <3>1. m \in 2 .. Len(frames')
        BY <1>1, <1>2, <2>4
      <3>2. frames'[m] = frames[m - 1] /\ m - 1 \in 1 .. Len(frames) /\ m - 1 < n - 1
        BY <1>1, <1>2, <1>6, <3>1
      <3> QED
        BY <2>2, <3>2 DEF Nested
    <2> QED
      BY <2>3, <2>4
  <1>7. ASSUME NEW n \in 1 .. Len(frames') PROVE Mask(cpu'.sr) >= frames'[n].level
    <2>1. CASE n = 1
      BY <1>2, <1>5, <2>1
    <2>2. CASE n # 1
      <3>1. n \in 2 .. Len(frames')
        BY <1>1, <1>2, <2>2
      <3> QED
        BY <1>2, <1>4, <3>1
    <2> QED
      BY <2>1, <2>2
  <1> QED
    BY <1>6, <1>7 DEF Nested, Above, Mask

LEMMA NestedReturn ==
  ASSUME Sound, Nested, frames # << >>, cpu'.sr = Head(frames).sr, frames' = Tail(frames)
  PROVE  Nested'
  <1>1. frames \in Seq(FrameType)
    BY DEF Sound
  <1>2. /\ Len(Tail(frames)) = Len(frames) - 1 /\ Head(frames) = frames[1]
        /\ Len(frames) \in Nat /\ Len(frames) > 0
        /\ \A n \in 1 .. Len(Tail(frames)) :
             Tail(frames)[n] = frames[n + 1] /\ n + 1 \in 1 .. Len(frames)
    BY <1>1, Unstacking
  <1>3. ASSUME NEW n \in 1 .. Len(frames')
        PROVE  /\ frames'[n] = frames[n + 1] /\ n + 1 \in 1 .. Len(frames)
               /\ 1 \in 1 .. Len(frames) /\ 1 < n + 1
    BY <1>2
  <1>4. ASSUME NEW n \in 1 .. Len(frames') PROVE Mask(cpu'.sr) >= frames'[n].level
    <2>1. Above(frames[1], frames[n + 1])
      BY <1>3 DEF Nested
    <2> QED
      BY <1>2, <1>3, <2>1 DEF Above
  <1>5. ASSUME NEW n \in 1 .. Len(frames'), NEW m \in 1 .. Len(frames'), m < n
        PROVE  Above(frames'[m], frames'[n])
    <2>1. m + 1 < n + 1
      BY <1>2, <1>5
    <2> QED
      BY <1>3, <2>1 DEF Nested
  <1> QED
    BY <1>4, <1>5 DEF Nested, Above, Mask

LEMMA NestedSame ==
  ASSUME Sound, Nested, frames' = frames, frames = << >> \/ Mask(cpu'.sr) >= Mask(cpu.sr)
  PROVE  Nested'
  <1>1. frames \in Seq(FrameType) /\ Mask(cpu.sr) \in 0 .. 7 /\ Mask(cpu'.sr) \in 0 .. 7
    BY MaskRange DEF Sound
  <1>2. ASSUME NEW n \in 1 .. Len(frames) PROVE Mask(cpu'.sr) >= frames[n].level
    <2>1. frames[n].level \in 0 .. 7 /\ Mask(cpu.sr) >= frames[n].level
      BY <1>1, FrameLevels DEF Nested
    <2>2. frames # << >>
      BY EmptySeq
    <2> QED
      BY <1>1, <2>1, <2>2
  <1> QED
    BY <1>2 DEF Nested, Above, Mask

LEMMA NestedStep ==
  ASSUME Sound, Nested, [FNext]_fvars, [StackRules]_fvars, [MaskRule]_fvars PROVE Nested'
  <1>1. TypeOK /\ cpu \in CPU /\ frames \in Seq(FrameType)
    BY DEF Sound, TypeOK
  <1>2. Mask(cpu.sr) \in 0 .. 7 /\ Mask(cpu'.sr) \in 0 .. 7
    BY MaskRange
  <1>3. CASE UNCHANGED fvars
    <2>1. frames' = frames /\ cpu' = cpu
      BY <1>3 DEF fvars
    <2>2. Mask(cpu'.sr) = Mask(cpu.sr)
      BY <2>1
    <2> QED
      BY <1>2, <2>1, <2>2, NestedSame
  <1>4. CASE FStep /\ StackRules /\ MaskRule
    <2>1. CASE \E f : Pushes(f) /\ frames' = <<f>> \o frames
      BY <2>1, NestedPush
    <2>2. CASE Returned /\ frames' = Tail(frames)
      <3>1. cpu'.sr = Head(frames).sr /\ frames # << >>
        BY <1>4, <2>2, Restored DEF StackRules, Returned
      <3> QED
        BY <2>2, <3>1, NestedReturn
    <2>3. CASE ~Returned /\ frames' = frames
      BY <1>2, <1>4, <2>3, NestedSame DEF MaskRule
    <2> QED
      BY <1>1, <1>4, <2>1, <2>2, <2>3, FrameSteps, Zenon
  <1>5. CASE Device /\ UNCHANGED frames
    <2>1. cpu'.sr = cpu.sr
      BY <1>1, <1>5 DEF Device, RequestInterrupt, CPU
    <2> QED
      BY <1>2, <1>5, <2>1, NestedSame
  <1>6. CASE Reset /\ frames' = << >>
    <2>1. Len(frames') = 0
      BY <1>6, EmptySeq
    <2> QED
      BY <2>1 DEF Nested
  <1> QED
    BY <1>3, <1>4, <1>5, <1>6 DEF FNext, FHost

LEMMA NestedInit == FInit => Nested
  <1>1. FInit => Len(frames) = 0
    BY EmptySeq DEF FInit
  <1> QED
    BY <1>1 DEF Nested

\* For every program whose handlers keep their stacks apart and leave the mask
\* to entry and return, interrupts nest by priority: a level below 7 is never
\* taken inside the handler of its own or a higher level, however requests,
\* traps and returns interleave.
THEOREM InterruptsNest == FSpec /\ StacksDisciplined /\ MaskDisciplined => []NestByPriority
  <1>1. Sound /\ [FNext]_fvars /\ [StackRules]_fvars => Sound'
    BY SoundStep
  <1>2. Sound /\ Nested /\ [FNext]_fvars /\ [StackRules]_fvars /\ [MaskRule]_fvars => Nested'
    BY NestedStep
  <1>3. Nested => NestByPriority
    BY DEF Nested, Above, NestByPriority
  <1> QED
    BY <1>1, <1>2, <1>3, SoundInit, NestedInit, PTL DEF FSpec, StacksDisciplined, MaskDisciplined
=============================================================================
