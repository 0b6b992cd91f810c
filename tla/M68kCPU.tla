------------------------------- MODULE M68kCPU -------------------------------
(***************************************************************************)
(* The control core of the emulator: Step() with its interrupt and odd-PC  *)
(* checks, exception and interrupt stacking, the status register, the two  *)
(* stack pointers behind A7, the control-flow and system-control handlers, *)
(* and the host calls Reset, SetState, RequestInterrupt and SetIPL.        *)
(*                                                                         *)
(* The variable cpu is the Go struct CPU: a handler that mutates *CPU is   *)
(* an operator from a cpu record to a cpu record.  Cycle accounting is in  *)
(* M68kBudget, opcode decoding in M68kDecode.                              *)
(*                                                                         *)
(* Abstractions of data.  A 16-bit word is the set of its one bits, so SR  *)
(* is exact.  Registers are RegMod wide and the bus BusMod (2^32 and 2^24  *)
(* in the code).  The bus holds, per even address of RAM, either a word or *)
(* one half of a stored register; reading half a register as a word, or    *)
(* two words that are not the halves of one register as a long, gives any  *)
(* value of JunkWord or JunkLong.  Data registers are left out: where they *)
(* decide, the instruction record holds the outcome.                       *)
(*                                                                         *)
(* A definition introduced as "Mutant" is a plausible mistake in the one   *)
(* that follows it; nothing else uses it.                                  *)
(***************************************************************************)
EXTENDS Integers, M68kFlags

CONSTANTS
  RegMod,      \* number of register values
  BusMod,      \* number of bus addresses
  AReg,        \* the address registers modelled, 7 among them
  RAM,         \* the even bus addresses where a write is retained
  Vector,      \* the vector table: the long at 4*v, for v in 0..255
  Code,        \* the instructions a fetch from a bus address can meet
  Levels,      \* the interrupt levels devices use
  DevVecs,     \* the vector numbers devices supply
  Loads,       \* the registers a host gives to SetState
  JunkWord,    \* values of a word read that is not a stored word
  JunkLong     \* values of a long read that is not a stored register

VARIABLES
  cpu,         \* the CPU struct, bus included
  inStep       \* Step() has taken an interrupt and has yet to execute

vars == <<cpu, inStep>>

Addr == 0 .. RegMod - 1
BusAddr == {a \in 0 .. BusMod - 1 : a % 2 = 0}
Word == SUBSET (0 .. 15)
nil == -1

Cell == [kind : {"word", "hi", "lo"}, word : Word, long : Addr]

(***************************************************************************)
(* An instruction: handler, effective-address mode, register field,        *)
(* condition or trap number, immediate word, displacement or address; and, *)
(* standing for the data registers, the word q an operation on them        *)
(* computes and the outcome of a test on them (bound or quotient exceeded, *)
(* counter run out).                                                       *)
(***************************************************************************)
EAMode == {"Dn", "(An)", "(An)+", "-(An)", "d(An)", "abs.W", "abs.L", "(PC)", "imm"}
Instr == [op : STRING, ea : EAMode, r : AReg, n : 0 .. 15, w : Word, k : Int,
          q : Word, yes : BOOLEAN]

ASSUME Widths ==
  /\ BusMod \in Nat /\ BusMod > 6 /\ BusMod % 2 = 0
  /\ RegMod \in Nat /\ RegMod >= BusMod /\ RegMod % BusMod = 0
ASSUME Board ==
  /\ 7 \in AReg
  /\ RAM \subseteq BusAddr
  /\ Vector \in [0 .. 255 -> Addr]
  /\ Code \in [0 .. BusMod - 1 -> SUBSET Instr]
  /\ Levels \subseteq 1 .. 7
  /\ DevVecs \subseteq 0 .. 255
  /\ Loads \subseteq [pc : Addr, sr : Word, A : [AReg -> Addr], usp : Addr, ssp : Addr]
  /\ JunkWord \subseteq Word
  /\ JunkLong \subseteq Addr

CPU == [pc : Addr, prevPC : Addr, sr : Word, A : [AReg -> Addr], usp : Addr,
        ssp : Addr, stopped : BOOLEAN, halted : BOOLEAN, pendingIPL : 0 .. 7,
        pendingVec : {nil} \cup (0 .. 255), bus : [RAM -> Cell]]

-----------------------------------------------------------------------------
(***************************************************************************)
(* The status register; the mask is bits 10..8.                            *)
(***************************************************************************)
ValidSR == {15, 13, 10, 9, 8, 4, 3, 2, 1, 0}
MaskBits == {8, 9, 10}

supervisor(c) == flagS \in c.sr

Mask(sr) == (IF 10 \in sr THEN 4 ELSE 0) + (IF 9 \in sr THEN 2 ELSE 0)
            + (IF 8 \in sr THEN 1 ELSE 0)

LevelBits(level) == {b \in {8} : level % 2 = 1} \cup {b \in {9} : level \in {2, 3, 6, 7}}
                    \cup {b \in {10} : level >= 4}

setFlagsLogical(c, w) ==
  [c EXCEPT !.sr = (@ \ {flagN, flagZ, flagV, flagC})
                   \cup {f \in {flagZ} : w = {}} \cup {f \in {flagN} : 15 \in w}]

\* Mutant: only the mode survives of the system byte.
setCCRDropsMask(c, w) == [c EXCEPT !.sr = (@ \cap {flagS}) \cup (w \cap CCRBits)]
setCCR(c, w) == [c EXCEPT !.sr = (@ \ CCRBits) \cup (w \cap CCRBits)]

\* Mutant: leaving supervisor mode does not save its pointer.
setSRLosesSSP(c, w) ==
  LET leave == flagS \in c.sr /\ flagS \notin w
      enter == flagS \notin c.sr /\ flagS \in w
  IN [c EXCEPT !.usp  = IF enter THEN c.A[7] ELSE @,
               !.A[7] = IF leave THEN c.usp ELSE IF enter THEN c.ssp ELSE @,
               !.sr   = w \cap ValidSR]
\* Mutant: the interrupt mask is not part of what is written.
setSRKeepsMask(c, w) ==
  LET leave == flagS \in c.sr /\ flagS \notin w
      enter == flagS \notin c.sr /\ flagS \in w
  IN [c EXCEPT !.ssp  = IF leave THEN c.A[7] ELSE @,
               !.usp  = IF enter THEN c.A[7] ELSE @,
               !.A[7] = IF leave THEN c.usp ELSE IF enter THEN c.ssp ELSE @,
               !.sr   = ((w \cap ValidSR) \ MaskBits) \cup (@ \cap MaskBits)]
setSR(c, w) ==
  LET leave == flagS \in c.sr /\ flagS \notin w
      enter == flagS \notin c.sr /\ flagS \in w
  IN [c EXCEPT !.ssp  = IF leave THEN c.A[7] ELSE @,
               !.usp  = IF enter THEN c.A[7] ELSE @,
               !.A[7] = IF leave THEN c.usp ELSE IF enter THEN c.ssp ELSE @,
               !.sr   = w \cap ValidSR]

-----------------------------------------------------------------------------
(***************************************************************************)
(* The bus.  An odd word or long access halts the CPU; once it is halted a *)
(* read gives zero and a write is suppressed.                              *)
(***************************************************************************)
\* Mutant: arithmetic that does not wrap.
AddUnwrapped(x, k) == x + k
Add(x, k) == (x + k) % RegMod
Live(c, addr) == ~c.halted /\ addr % 2 = 0
Accessed(c, addr) == [c EXCEPT !.halted = @ \/ addr % 2 # 0]

WordCell(w) == [kind |-> "word", word |-> w, long |-> 0]
HalfCell(half, v) == [kind |-> half, word |-> {}, long |-> v]

ReadWord(c, addr, junk) ==
  LET p == addr % BusMod
  IN IF ~Live(c, addr) THEN {}
     ELSE IF p \in RAM /\ c.bus[p].kind = "word" THEN c.bus[p].word ELSE junk

ReadLong(c, addr, junk) ==
  LET p == addr % BusMod
      q == (addr + 2) % BusMod
  IN IF ~Live(c, addr) THEN 0
     ELSE IF /\ p \in RAM /\ c.bus[p].kind = "hi"
             /\ q \in RAM /\ c.bus[q].kind = "lo"
             /\ c.bus[p].long = c.bus[q].long
          THEN c.bus[p].long ELSE junk

ReadVector(c, v) == IF c.halted THEN 0 ELSE Vector[v]

WriteWord(c, addr, w) ==
  [c EXCEPT !.halted = @ \/ addr % 2 # 0,
            !.bus = [a \in RAM |-> IF Live(c, addr) /\ a = addr % BusMod
                                   THEN WordCell(w) ELSE c.bus[a]]]

\* Mutant: the alignment check comes after the bus access.
WriteLongFirst(c, addr, v) ==
  LET even == addr - (addr % 2)
  IN [c EXCEPT !.halted = @ \/ addr % 2 # 0,
               !.bus = [a \in RAM |->
                  IF ~c.halted /\ a = even % BusMod THEN HalfCell("hi", v)
                  ELSE IF ~c.halted /\ a = (even + 2) % BusMod THEN HalfCell("lo", v)
                  ELSE c.bus[a]]]
WriteLong(c, addr, v) ==
  [c EXCEPT !.halted = @ \/ addr % 2 # 0,
            !.bus = [a \in RAM |->
               IF Live(c, addr) /\ a = addr % BusMod THEN HalfCell("hi", v)
               ELSE IF Live(c, addr) /\ a = (addr + 2) % BusMod THEN HalfCell("lo", v)
               ELSE c.bus[a]]]

pushWord(c, w) == LET sp == Add(c.A[7], -2) IN WriteWord([c EXCEPT !.A[7] = sp], sp, w)
pushLong(c, v) == LET sp == Add(c.A[7], -4) IN WriteLong([c EXCEPT !.A[7] = sp], sp, v)
popped(c, n) == [Accessed(c, c.A[7]) EXCEPT !.A[7] = Add(@, n)]
fetchPC(c) == [c EXCEPT !.pc = Add(@, 2)]
fetchPCLong(c) == [c EXCEPT !.pc = Add(@, 4)]

-----------------------------------------------------------------------------
(***************************************************************************)
(* Effective addresses of word operands.  d(An) and (PC) stand for the     *)
(* indexed modes too: k is then the displacement plus the index register.  *)
(***************************************************************************)
eaAddr(c, i) ==
  CASE i.ea = "-(An)" -> Add(c.A[i.r], -2)
    [] i.ea = "d(An)" -> Add(c.A[i.r], i.k)
    [] i.ea \in {"abs.W", "abs.L"} -> Add(0, i.k)
    [] i.ea = "(PC)"  -> Add(c.pc, i.k)
    [] OTHER          -> c.A[i.r]

eaDone(c, i) ==
  CASE i.ea = "(An)+"            -> [c EXCEPT !.A[i.r] = Add(@, 2)]
    [] i.ea = "-(An)"            -> [c EXCEPT !.A[i.r] = Add(@, -2)]
    [] i.ea = "abs.L"            -> fetchPCLong(c)
    [] i.ea \in {"d(An)", "abs.W", "(PC)", "imm"} -> fetchPC(c)
    [] OTHER                     -> c

eaRead(c, i) == IF i.ea \in {"Dn", "imm"} THEN eaDone(c, i)
                ELSE Accessed(eaDone(c, i), eaAddr(c, i))

eaValue(c, i, junk) == IF i.ea \in {"Dn", "imm"} THEN i.w
                       ELSE ReadWord(eaDone(c, i), eaAddr(c, i), junk)

-----------------------------------------------------------------------------
(***************************************************************************)
(* Exceptions and interrupts.                                              *)
(***************************************************************************)
vecIllegalInstruction == 4
vecDivideByZero == 5
vecCHK == 6
vecTRAPV == 7
vecPrivilegeViolation == 8
vecLineA == 10
vecLineF == 11
vecUninitialized == 15
vecSpuriousInterrupt == 24
vecTrap0 == 32

\* Mutant: the user's pointer is not saved.
enterSupervisorLosesUSP(c) ==
  [c EXCEPT !.A[7] = IF supervisor(c) THEN @ ELSE c.ssp,
            !.sr   = (@ \cup {flagS}) \ {flagT}]
\* Mutant: the frame goes to the user's stack.
enterSupervisorInPlace(c) == [c EXCEPT !.sr = (@ \cup {flagS}) \ {flagT}]
enterSupervisor(c) ==
  [c EXCEPT !.usp  = IF supervisor(c) THEN @ ELSE c.A[7],
            !.A[7] = IF supervisor(c) THEN @ ELSE c.ssp,
            !.sr   = (@ \cup {flagS}) \ {flagT}]

\* Mutant: SR is pushed before PC.
stackFrameSwapped(c, pc, sr) == pushLong(pushWord(c, sr), pc)
stackFrame(c, pc, sr) == pushWord(pushLong(c, pc), sr)

exception(c, vector) ==
  LET pushPC == IF vector \in {vecIllegalInstruction, vecPrivilegeViolation,
                               vecLineA, vecLineF}
                THEN c.prevPC ELSE c.pc
      s == stackFrame(enterSupervisor(c), pushPC, c.sr)
      first == ReadVector(s, vector)
      addr == IF first = 0 THEN ReadVector(s, vecUninitialized) ELSE first
  IN IF addr = 0 THEN [s EXCEPT !.halted = TRUE] ELSE [s EXCEPT !.pc = addr]

\* Mutant: the CPU stays stopped.
processInterruptStaysStopped(c) ==
  LET e == [enterSupervisor(c) EXCEPT !.pendingIPL = 0, !.pendingVec = nil,
                                      !.sr = (@ \ MaskBits) \cup LevelBits(c.pendingIPL)]
      s == stackFrame(e, c.pc, c.sr)
  IN [s EXCEPT !.pc = ReadVector(s, 24 + c.pendingIPL)]
processInterrupt(c) ==
  LET level == c.pendingIPL
      e == [enterSupervisor(c) EXCEPT !.pendingIPL = 0, !.pendingVec = nil,
                                      !.sr = (@ \ MaskBits) \cup LevelBits(level)]
      s == stackFrame(e, c.pc, c.sr)
      first == ReadVector(s, IF c.pendingVec # nil THEN c.pendingVec ELSE 24 + level)
      addr == IF first = 0 THEN ReadVector(s, vecSpuriousInterrupt) ELSE first
  IN [s EXCEPT !.pc = addr, !.stopped = FALSE]

\* Mutant: a request at the level of the mask is taken.
TakesEqual(c) == c.pendingIPL # 0 /\ c.pendingIPL >= Mask(c.sr)

\* Mutant: the mask is not looked at.
TakesUnmasked(c) == c.pendingIPL # 0

\* checkInterrupt: level 7 is not maskable, any other must exceed the mask.
Takes(c) == c.pendingIPL # 0 /\ (c.pendingIPL > Mask(c.sr) \/ c.pendingIPL = 7)

-----------------------------------------------------------------------------
(***************************************************************************)
(* Instruction handlers: from the state after the opcode fetch to the      *)
(* state the handler leaves.                                               *)
(***************************************************************************)
Privileged(c, done) == IF supervisor(c) THEN done ELSE exception(c, vecPrivilegeViolation)

opSTOP(c, i) ==
  Privileged(c, [setSR(fetchPC(c), i.w) EXCEPT !.stopped = TRUE, !.pc = c.prevPC])
opRESET(c) == Privileged(c, c)
opTRAP(c, i) == exception(c, i.n + vecTrap0)
opTRAPV(c) == IF flagV \in c.sr THEN exception(c, vecTRAPV) ELSE c

opLINK(c, i) ==
  LET p == pushLong(fetchPC(c), c.A[i.r])
      f == [p EXCEPT !.A[i.r] = p.A[7]]
  IN [f EXCEPT !.A[7] = Add(@, i.k)]
opUNLK(c, i, junk) ==
  LET u == [c EXCEPT !.A[7] = c.A[i.r]]
  IN [popped(u, 4) EXCEPT !.A[i.r] = ReadLong(u, u.A[7], junk)]

opMOVEfromSR(c, i) ==
  IF i.ea = "Dn" THEN c ELSE WriteWord(eaDone(c, i), eaAddr(c, i), c.sr)
opMOVEtoCCR(c, i, junk) == setCCR(eaRead(c, i), eaValue(c, i, junk))
opMOVEtoSR(c, i, junk) == Privileged(c, setSR(eaRead(c, i), eaValue(c, i, junk)))
opMOVEtoUSP(c, i) == Privileged(c, [c EXCEPT !.usp = c.A[i.r]])
opMOVEfromUSP(c, i) == Privileged(c, [c EXCEPT !.A[i.r] = c.usp])

opANDItoCCR(c, i) == setCCR(fetchPC(c), c.sr \cap i.w)
opORItoCCR(c, i) == setCCR(fetchPC(c), c.sr \cup i.w)
opEORItoCCR(c, i) == setCCR(fetchPC(c), (c.sr \ i.w) \cup (i.w \ c.sr))
opANDItoSR(c, i) == Privileged(c, setSR(fetchPC(c), c.sr \cap i.w))
opORItoSR(c, i) == Privileged(c, setSR(fetchPC(c), c.sr \cup i.w))
opEORItoSR(c, i) == Privileged(c, setSR(fetchPC(c), (c.sr \ i.w) \cup (i.w \ c.sr)))

\* A branch with a 16-bit displacement has mode "imm", one with 8 bits "Dn".
opBcc(c, i) == IF testCondition(c.sr, i.n) THEN [c EXCEPT !.pc = Add(c.pc, i.k)] ELSE eaDone(c, i)
opBRA(c, i) == [c EXCEPT !.pc = Add(c.pc, i.k)]
opBSR(c, i) == [pushLong(eaDone(c, i), eaDone(c, i).pc) EXCEPT !.pc = Add(c.pc, i.k)]
opDBcc(c, i) == IF testCondition(c.sr, i.n) \/ i.yes THEN fetchPC(c)
                ELSE [c EXCEPT !.pc = Add(fetchPC(c).pc, i.k - 2)]
opJMP(c, i) == [eaDone(c, i) EXCEPT !.pc = eaAddr(c, i)]
opJSR(c, i) == [pushLong(eaDone(c, i), eaDone(c, i).pc) EXCEPT !.pc = eaAddr(c, i)]
opRTS(c, junk) == [popped(c, 4) EXCEPT !.pc = ReadLong(c, c.A[7], junk)]
\* Mutant: SR, and with it the stack, is switched before PC is popped.
opRTESwitchesFirst(c, jw, jl) ==
  LET s == setSR(popped(c, 2), ReadWord(c, c.A[7], jw))
  IN Privileged(c, [popped(s, 4) EXCEPT !.pc = ReadLong(s, s.A[7], jl)])
opRTE(c, jw, jl) ==
  LET s == popped(c, 2)
  IN Privileged(c, [setSR(popped(s, 4), ReadWord(c, c.A[7], jw)) EXCEPT
                      !.pc = ReadLong(s, s.A[7], jl)])
opRTR(c, jw, jl) ==
  LET s == setCCR(popped(c, 2), ReadWord(c, c.A[7], jw))
  IN [popped(s, 4) EXCEPT !.pc = ReadLong(s, s.A[7], jl)]

opDIVU(c, i, junk) ==
  LET r == eaRead(c, i)
  IN IF eaValue(c, i, junk) = {} THEN exception(r, vecDivideByZero)
     ELSE IF i.yes THEN [r EXCEPT !.sr = (@ \ {flagC, flagZ}) \cup {flagV, flagN}]
     ELSE setFlagsLogical(r, i.q)
opCHK(c, i, junk) ==
  LET r == eaRead(c, i)
      clear == r.sr \ {flagN, flagZ, flagV, flagC}
  IN IF i.yes \/ 15 \in eaValue(c, i, junk)
     THEN exception([r EXCEPT !.sr = clear \cup (i.q \cap {flagN})], vecCHK)
     ELSE [r EXCEPT !.sr = clear \cup (i.q \cap {flagZ})]
\* Of the sources of MOVE and MOVEA, the immediate one: MOVE.W #w,<ea> and
\* MOVEA.L #k,An.
opMOVE(c, i) ==
  LET s == fetchPC(c)
  IN setFlagsLogical(IF i.ea = "Dn" THEN s
                     ELSE WriteWord(eaDone(s, i), eaAddr(s, i), i.w), i.w)
opMOVEA(c, i) == [fetchPCLong(c) EXCEPT !.A[i.r] = Add(0, i.k)]
opPEA(c, i) == pushLong(eaDone(c, i), eaAddr(c, i))
\* ADD.W <ea>,Dn: the sum goes to a data register, q is its XNZVC.
opADD(c, i) == setCCR(eaRead(c, i), i.q)

-----------------------------------------------------------------------------
(***************************************************************************)
(* Step().  A step that takes an interrupt goes on to execute the first    *)
(* instruction of the handler in the same call; inStep separates the two   *)
(* parts, so that a device called back by a bus access can raise its line  *)
(* between them.  The host calls nothing else until Step() returns.        *)
(***************************************************************************)
Init ==
  /\ cpu = [pc |-> Vector[1], prevPC |-> 0, sr |-> {flagS} \cup MaskBits,
            A |-> [r \in AReg |-> IF r = 7 THEN Vector[0] ELSE 0], usp |-> 0,
            ssp |-> Vector[0], stopped |-> FALSE, halted |-> FALSE,
            pendingIPL |-> 0, pendingVec |-> nil,
            bus |-> [a \in RAM |-> WordCell({})]]
  /\ inStep = FALSE

\* Mutant: interrupts are checked before halted.
HaltedStepTakes ==
  /\ ~inStep /\ cpu.halted
  /\ cpu' = IF Takes(cpu) THEN processInterrupt(cpu) ELSE cpu
  /\ UNCHANGED inStep

HaltedStep ==
  /\ ~inStep /\ cpu.halted
  /\ UNCHANGED vars

StoppedStep ==
  /\ ~inStep /\ ~cpu.halted /\ cpu.stopped
  /\ cpu' = IF Takes(cpu) THEN processInterrupt(cpu) ELSE cpu
  /\ UNCHANGED inStep

TakeInterrupt ==
  /\ ~inStep /\ ~cpu.halted /\ ~cpu.stopped /\ Takes(cpu)
  /\ cpu' = processInterrupt(cpu)
  /\ inStep' = TRUE

Executing == inStep \/ (~cpu.halted /\ ~cpu.stopped /\ ~Takes(cpu))

OddPC ==
  /\ Executing /\ cpu.pc % 2 # 0
  /\ cpu' = [cpu EXCEPT !.halted = TRUE]
  /\ inStep' = FALSE

Fetched(op) == IF Executing /\ ~cpu.halted /\ cpu.pc % 2 = 0
               THEN {i \in Code[cpu.pc % BusMod] : i.op = op} ELSE {}
fetched == [cpu EXCEPT !.prevPC = cpu.pc, !.pc = Add(cpu.pc, 2)]
Finish(c) ==
  /\ cpu' = [c EXCEPT !.halted = @ \/ c.pc % 2 # 0]
  /\ inStep' = FALSE

\* Stacking the interrupt frame halted the CPU, and Step() does not look: the
\* fetch gives 0, which is ORI.B #0,D0; D0 is zero, positive or negative.
PhantomORI ==
  /\ inStep /\ cpu.halted /\ cpu.pc % 2 = 0
  /\ \E d \in {{}, {0}, {15}} : Finish(setFlagsLogical(fetchPC(fetched), d))

ILLEGAL == \E i \in Fetched("ILLEGAL") : Finish(exception(fetched, vecIllegalInstruction))
LINEA == \E i \in Fetched("LINEA") : Finish(exception(fetched, vecLineA))
LINEF == \E i \in Fetched("LINEF") : Finish(exception(fetched, vecLineF))
NOP == \E i \in Fetched("NOP") : Finish(fetched)
RESET == \E i \in Fetched("RESET") : Finish(opRESET(fetched))
TRAPV == \E i \in Fetched("TRAPV") : Finish(opTRAPV(fetched))
TRAP == \E i \in Fetched("TRAP") : Finish(opTRAP(fetched, i))
LINK == \E i \in Fetched("LINK") : Finish(opLINK(fetched, i))
MOVEfromSR == \E i \in Fetched("MOVEfromSR") : Finish(opMOVEfromSR(fetched, i))
MOVEtoUSP == \E i \in Fetched("MOVEtoUSP") : Finish(opMOVEtoUSP(fetched, i))
MOVEfromUSP == \E i \in Fetched("MOVEfromUSP") : Finish(opMOVEfromUSP(fetched, i))
ANDItoCCR == \E i \in Fetched("ANDItoCCR") : Finish(opANDItoCCR(fetched, i))
ORItoCCR == \E i \in Fetched("ORItoCCR") : Finish(opORItoCCR(fetched, i))
EORItoCCR == \E i \in Fetched("EORItoCCR") : Finish(opEORItoCCR(fetched, i))
ANDItoSR == \E i \in Fetched("ANDItoSR") : Finish(opANDItoSR(fetched, i))
ORItoSR == \E i \in Fetched("ORItoSR") : Finish(opORItoSR(fetched, i))
EORItoSR == \E i \in Fetched("EORItoSR") : Finish(opEORItoSR(fetched, i))
STOP == \E i \in Fetched("STOP") : Finish(opSTOP(fetched, i))
Bcc == \E i \in Fetched("Bcc") : Finish(opBcc(fetched, i))
BRA == \E i \in Fetched("BRA") : Finish(opBRA(fetched, i))
BSR == \E i \in Fetched("BSR") : Finish(opBSR(fetched, i))
DBcc == \E i \in Fetched("DBcc") : Finish(opDBcc(fetched, i))
JMP == \E i \in Fetched("JMP") : Finish(opJMP(fetched, i))
JSR == \E i \in Fetched("JSR") : Finish(opJSR(fetched, i))
MOVE == \E i \in Fetched("MOVE") : Finish(opMOVE(fetched, i))
MOVEA == \E i \in Fetched("MOVEA") : Finish(opMOVEA(fetched, i))
PEA == \E i \in Fetched("PEA") : Finish(opPEA(fetched, i))
ADD == \E i \in Fetched("ADD") : Finish(opADD(fetched, i))
MOVEtoCCR == \E i \in Fetched("MOVEtoCCR"), j \in JunkWord : Finish(opMOVEtoCCR(fetched, i, j))
MOVEtoSR == \E i \in Fetched("MOVEtoSR"), j \in JunkWord : Finish(opMOVEtoSR(fetched, i, j))
DIVU == \E i \in Fetched("DIVU"), j \in JunkWord : Finish(opDIVU(fetched, i, j))
CHK == \E i \in Fetched("CHK"), j \in JunkWord : Finish(opCHK(fetched, i, j))
UNLK == \E i \in Fetched("UNLK"), j \in JunkLong : Finish(opUNLK(fetched, i, j))
RTS == \E i \in Fetched("RTS"), j \in JunkLong : Finish(opRTS(fetched, j))
RTE == \E i \in Fetched("RTE"), jw \in JunkWord, jl \in JunkLong : Finish(opRTE(fetched, jw, jl))
RTR == \E i \in Fetched("RTR"), jw \in JunkWord, jl \in JunkLong : Finish(opRTR(fetched, jw, jl))

Control ==
  \/ ILLEGAL \/ LINEA \/ LINEF \/ NOP \/ STOP \/ RESET \/ TRAP \/ TRAPV \/ LINK \/ UNLK
  \/ MOVEfromSR \/ MOVEtoCCR \/ MOVEtoSR \/ MOVEtoUSP \/ MOVEfromUSP
  \/ ANDItoCCR \/ ORItoCCR \/ EORItoCCR \/ ANDItoSR \/ ORItoSR \/ EORItoSR
Flow ==
  \/ Bcc \/ BRA \/ BSR \/ DBcc \/ JMP \/ JSR \/ RTS \/ RTE \/ RTR
Data ==
  \/ DIVU \/ CHK \/ MOVE \/ MOVEA \/ PEA \/ ADD

Step ==
  \/ HaltedStep \/ StoppedStep \/ TakeInterrupt \/ OddPC \/ PhantomORI
  \/ Control \/ Flow \/ Data

-----------------------------------------------------------------------------
(***************************************************************************)
(* Host and device calls.                                                  *)
(***************************************************************************)
Reset ==
  /\ ~inStep
  /\ cpu' = [cpu EXCEPT !.pc = Vector[1], !.sr = {flagS} \cup MaskBits,
                        !.A = [r \in AReg |-> IF r = 7 THEN Vector[0] ELSE 0],
                        !.usp = 0, !.ssp = Vector[0], !.stopped = FALSE,
                        !.halted = FALSE, !.pendingIPL = 0, !.pendingVec = nil]
  /\ UNCHANGED inStep

\* A[7] of the argument is not used.
SetState(regs) ==
  /\ ~inStep
  /\ cpu' = [cpu EXCEPT !.pc = regs.pc, !.sr = regs.sr,
                        !.A = [regs.A EXCEPT ![7] = IF flagS \in regs.sr THEN regs.ssp ELSE regs.usp],
                        !.usp = regs.usp, !.ssp = regs.ssp, !.stopped = FALSE,
                        !.halted = FALSE, !.pendingIPL = 0, !.pendingVec = nil]
  /\ UNCHANGED inStep

RequestInterrupt(level, vec) ==
  /\ level > cpu.pendingIPL
  /\ cpu' = [cpu EXCEPT !.pendingIPL = level, !.pendingVec = vec]
  /\ UNCHANGED inStep

\* Mutant: the level is only ever raised.
SetIPLRaises(level, vec) ==
  /\ cpu' = IF level > cpu.pendingIPL
             THEN [cpu EXCEPT !.pendingIPL = level, !.pendingVec = vec] ELSE cpu
  /\ UNCHANGED inStep

SetIPL(level, vec) ==
  /\ cpu' = [cpu EXCEPT !.pendingIPL = level, !.pendingVec = vec]
  /\ UNCHANGED inStep

Device == \E level \in Levels, vec \in {nil} \cup DevVecs : RequestInterrupt(level, vec)
Line == \E level \in {0} \cup Levels, vec \in {nil} \cup DevVecs : SetIPL(level, vec)

Loaded == \E regs \in Loads : SetState(regs)

Next == Step \/ Reset \/ Loaded \/ Device \/ Line

Spec == Init /\ [][Next]_vars

-----------------------------------------------------------------------------
USP(c) == IF supervisor(c) THEN c.usp ELSE c.A[7]
SSP(c) == IF supervisor(c) THEN c.A[7] ELSE c.ssp

Stacks == INSTANCE M68kStacks WITH
            super <- supervisor(cpu), usp <- USP(cpu), ssp <- SSP(cpu),
            FrameSize <- 6, ResetSSP <- Vector[0],
            Loads <- {[super |-> flagS \in r.sr, usp |-> r.usp, ssp |-> r.ssp] : r \in Loads}

\* The CPU struct keeps its shape whatever the host, the devices and the
\* program do.
TypeOK == cpu \in CPU /\ inStep \in BOOLEAN

\* A[7], USP and SSP implement two separate stack pointers: user code never
\* moves the supervisor's, entering supervisor mode costs it exactly one
\* frame, and returning gives the user pointer back (setSR, exception and
\* processInterrupt, cpu.go:318, exception.go:47, interrupt.go:29).
BankedStacks == Stacks!Spec

SystemBits == {flagT, flagS} \cup MaskBits

\* The frame on top of the supervisor stack, as far as it lies in RAM: the
\* saved SR, then the two halves of the saved PC.
FrameAt(c, sp) ==
  LET at(n) == Add(sp, n) % BusMod
  IN /\ at(0) \in RAM => c.bus[at(0)].kind = "word"
     /\ at(2) \in RAM => c.bus[at(2)].kind = "hi"
     /\ at(4) \in RAM => c.bus[at(4)].kind = "lo"
SavedSR(c, sp) == c.bus[sp % BusMod].word

\* User code changes the system byte of SR only by way of the vector table:
\* such a step either halts or ends in a handler named by the table, in
\* supervisor mode with tracing off, over a complete frame whose saved system
\* byte is the one the user had, and the mask rises only to the level of the
\* interrupt acknowledged (the supervisor() guards of ops_ctrl.go and
\* ops_branch.go, exception.go:27, interrupt.go:20).
EntersByVector ==
  /\ supervisor(cpu)' /\ flagT \notin cpu'.sr
  /\ cpu'.sr \cap MaskBits \in {cpu.sr \cap MaskBits, LevelBits(cpu.pendingIPL)}
  /\ \/ cpu'.halted
     \/ /\ \E v \in 0 .. 255 : cpu'.pc = Vector[v]
        /\ FrameAt(cpu', cpu'.A[7])
        /\ cpu'.A[7] % BusMod \in RAM =>
             SavedSR(cpu', cpu'.A[7]) \cap SystemBits = cpu.sr \cap SystemBits
UserConfined ==
  [][~supervisor(cpu) /\ cpu'.sr \cap SystemBits # cpu.sr \cap SystemBits
       => EntersByVector \/ Reset \/ Loaded]_vars

\* A frame is stacked whole or not at all, and a halted CPU never touches the
\* bus again: no step that starts halted, or that stacks on an odd supervisor
\* stack, changes memory (readBus and writeBus, cpu.go:226 and cpu.go:250).
FaultsLeaveMemory ==
  [][/\ cpu.halted => cpu'.bus = cpu.bus
     /\ ~supervisor(cpu) /\ supervisor(cpu)' /\ cpu.ssp % 2 # 0 => cpu'.bus = cpu.bus]_vars

\* Once Step() has returned with the CPU halted, only Reset or SetState moves it: the
\* registers stay as the fault left them and requests wait (cpu.go:93).
HaltedUntilReset ==
  [][cpu.halted /\ ~inStep /\ ~Reset /\ ~Loaded
       => /\ cpu'.halted
          /\ [cpu' EXCEPT !.pendingIPL = 0, !.pendingVec = nil]
               = [cpu EXCEPT !.pendingIPL = 0, !.pendingVec = nil]]_vars
=============================================================================
