------------------------------ MODULE M68kFrames ------------------------------
(***************************************************************************)
(* M68kCPU with a history variable: the frames stacked by exceptions and   *)
(* interrupts and not yet returned from, newest first.  Each records the   *)
(* context that was interrupted, from the state before the step, never     *)
(* from the memory the CPU wrote.  It serves to state what nesting and     *)
(* returning must preserve for a program that keeps its stacks apart.      *)
(***************************************************************************)
EXTENDS M68kCPU, Sequences

CONSTANT MaxFrames   \* devices raise no new request beyond this depth

VARIABLE frames

fvars == <<cpu, inStep, frames>>

\* The frame stacked from c; resume is the address of the next instruction of
\* the interrupted program.
Frame(c, pc, level, resume) ==
  [pc |-> pc, sr |-> c.sr, sp |-> SSP(c), level |-> level, resume |-> resume]

\* STOP #imm is four bytes long and leaves PC on itself.
InterruptFrame ==
  Frame(cpu, cpu.pc, cpu.pendingIPL, IF cpu.stopped THEN Add(cpu.pc, 4) ELSE cpu.pc)
FaultFrame == Frame(cpu, cpu.pc, 0, cpu.pc)

\* A trap resumes after the instruction.
TrapFrame(c) == Frame(c, c.pc, 0, c.pc)

\* The kinds of step that stack a frame or return from one.
Interrupted == TakeInterrupt \/ (StoppedStep /\ Takes(cpu))
Refused ==
  /\ ~supervisor(cpu)
  /\ \/ STOP \/ RESET \/ MOVEtoSR \/ MOVEtoUSP \/ MOVEfromUSP
     \/ ANDItoSR \/ ORItoSR \/ EORItoSR \/ RTE
Faulted == ILLEGAL \/ LINEA \/ LINEF \/ Refused
Trapped == TRAP \/ (TRAPV /\ flagV \in cpu.sr)
Returned == RTE /\ supervisor(cpu) /\ frames # <<>>

\* DIVU and CHK trap after they have read their operand, which may move A7;
\* CHK has set the condition codes by then.
DivideFrames ==
  {TrapFrame(eaRead(fetched, i)) :
     i \in {x \in Fetched("DIVU") : \E j \in JunkWord :
              eaValue(fetched, x, j) = {} /\ Finish(opDIVU(fetched, x, j))}}
Tested(i) ==
  [eaRead(fetched, i) EXCEPT !.sr = (@ \ {flagN, flagZ, flagV, flagC}) \cup (i.q \cap {flagN})]
CheckFrames ==
  {TrapFrame(Tested(i)) :
     i \in {x \in Fetched("CHK") : \E j \in JunkWord :
              /\ x.yes \/ 15 \in eaValue(fetched, x, j)
              /\ Finish(opCHK(fetched, x, j))}}

Stack(new) == {<<f>> \o frames : f \in new}

NextFrames ==
  CASE Interrupted       -> Stack({InterruptFrame})
    [] Faulted           -> Stack({FaultFrame})
    [] Trapped           -> Stack({TrapFrame(fetched)})
    [] DivideFrames # {} -> Stack(DivideFrames)
    [] CheckFrames # {}  -> Stack(CheckFrames)
    [] Returned          -> {Tail(frames)}
    [] OTHER             -> {frames}

FInit == Init /\ frames = <<>>

FStep == Step /\ frames' \in NextFrames

FHost ==
  \/ Len(frames) < MaxFrames /\ Device /\ UNCHANGED frames
  \/ Reset /\ frames' = <<>>

FNext == FStep \/ FHost

FSpec == FInit /\ [][FNext]_fvars

-----------------------------------------------------------------------------
\* The bus addresses of the three words of a frame.
Cells(f) == {Add(f.sp, k) % BusMod : k \in {-6, -4, -2}}

Stacking == Len(frames') > Len(frames)

\* A program that keeps its stacks apart: a frame is stacked in RAM and clear
\* of the frames still open, nothing but stacking writes to an open frame,
\* and a handler returns with the stack pointer where its entry left it.
\* The task, its subroutines and the handlers, the nested ones included, must
\* keep to this between them (LINK, UNLK, BSR, RTS, PEA and RTE balance on
\* either stack: ops_ctrl.go:102, ops_branch.go:81).
StackRules ==
  /\ Stacking => LET new == Cells(Head(frames'))
                 IN new \subseteq RAM /\ \A n \in 1 .. Len(frames) : new \cap Cells(frames[n]) = {}
  /\ ~Stacking => \A n \in 1 .. Len(frames) : \A a \in Cells(frames[n]) : cpu'.bus[a] = cpu.bus[a]
  /\ Returned => cpu.A[7] = Add(Head(frames).sp, -6)
StacksDisciplined == [][StackRules]_fvars

\* A program whose handlers leave the interrupt mask to entry and return: in a
\* handler it falls only by RTE, never because a lower level is let in
\* (interrupt.go:13, interrupt.go:34).
MaskRule == Mask(cpu'.sr) < Mask(cpu.sr) => frames = <<>> \/ Returned
MaskDisciplined == [][MaskRule]_fvars

\* Every frame still to be returned from lies unharmed on the supervisor
\* stack, whatever stacked above it and whatever the user stack did:
\* exception, processInterrupt, BSR, LINK, RTE and setSR agree on which stack
\* A7 is (exception.go:47, interrupt.go:29, cpu.go:318).
FramesIntact ==
  \A n \in 1 .. Len(frames) :
    LET f == frames[n]
        at(k) == Add(f.sp, k) % BusMod
    IN ~cpu.halted =>
         /\ cpu.bus[at(-6)] = WordCell(f.sr)
         /\ cpu.bus[at(-4)] = HalfCell("hi", f.pc)
         /\ cpu.bus[at(-2)] = HalfCell("lo", f.pc)

\* RTE gives back exactly the context that its exception or interrupt saved:
\* PC, the whole of SR and the supervisor stack pointer, with the user
\* pointer untouched (opRTE, ops_branch.go:234).
ReturnRestores ==
  [][Returned
       => /\ cpu'.pc = Head(frames).pc /\ cpu'.sr = Head(frames).sr
          /\ SSP(cpu') = Head(frames).sp /\ USP(cpu') = USP(cpu)]_fvars

\* Interrupts nest by priority: a level below 7 is never taken inside the
\* handler of its own or a higher level, however requests and returns
\* interleave (checkInterrupt, interrupt.go:13, and the mask set at
\* interrupt.go:34).
NestByPriority ==
  \A m, n \in 1 .. Len(frames) :
    m < n /\ frames[m].level # 0 /\ frames[n].level # 0
      => frames[m].level > frames[n].level \/ frames[m].level = 7

\* The frame of an interrupt names the next instruction of the interrupted
\* program.
FrameResumes == \A n \in 1 .. Len(frames) : frames[n].pc = frames[n].resume
=============================================================================
