------------------------------- MODULE M68kLive -------------------------------
(***************************************************************************)
(* M68kFrames under a host that calls Step() for ever.  turn changes with  *)
(* every part of a Step(), so that one that leaves the CPU as it was (it   *)
(* is halted, or stopped with nothing to take) is a step all the same.     *)
(*                                                                         *)
(* Devices queue interrupts through RequestInterrupt, or they drive the    *)
(* IPL inputs through SetIPL and nothing else; line is the level they last *)
(* drove.                                                                  *)
(***************************************************************************)
EXTENDS M68kFrames

VARIABLES
  turn,
  line        \* nil in a system whose devices queue

lvars == <<cpu, inStep, frames, turn, line>>

LInit == FInit /\ turn = FALSE /\ line \in {nil, 0}

CallStep == FStep /\ turn' = ~turn /\ UNCHANGED line

Queue ==
  /\ line = nil /\ Len(frames) < MaxFrames /\ Device
  /\ UNCHANGED <<frames, turn, line>>

Drive(level) ==
  /\ line # nil /\ (level = 0 \/ Len(frames) < MaxFrames)
  /\ SetIPL(level, nil) /\ line' = level
  /\ UNCHANGED <<frames, turn>>

\* The host resets its devices with the CPU.
ResetAll ==
  /\ Reset /\ frames' = <<>> /\ line' \in {nil, 0} /\ (line' = nil <=> line = nil)
  /\ UNCHANGED turn

LNext ==
  \/ CallStep \/ Queue \/ ResetAll
  \/ \E level \in {0} \cup Levels : Drive(level)

\* Step() is always callable, so calling it for ever is its weak fairness.
\* Nothing obliges a device to request or the host to reset.
LSpec == LInit /\ [][LNext]_lvars /\ []<><<turn' # turn>>_lvars

\* A stopped CPU with a queued request above its mask is woken by a later
\* Step() (cpu.go:99, interrupt.go:56).
StopWakes == (line = nil /\ cpu.stopped /\ Takes(cpu)) ~> ~cpu.stopped

\* No request stays pending for ever: handlers end in RTE, which restores the
\* lower mask, and the request is taken at the next instruction boundary
\* unless its device withdraws or another replaces it (interrupt.go:5,
\* cpu.go:203).
RequestsDrain == \A level \in Levels : cpu.pendingIPL = level ~> cpu.pendingIPL # level

\* An interrupt is acknowledged only at the level its device asserts at that
\* moment: a request withdrawn or lowered before the instruction boundary is
\* not taken (SetIPL, cpu.go:218; TestSetIPLLevelSensitive).
NoStaleAck ==
  [][line # nil /\ cpu.pendingIPL # 0 /\ cpu'.pendingIPL = 0 /\ turn' # turn
       => cpu.pendingIPL = line /\ Mask(cpu'.sr) = line]_lvars

\* A level still asserted above the mask at an instruction boundary is taken
\* there.
LineHonoured ==
  line # nil /\ ~inStep /\ ~cpu.halted /\ line > Mask(cpu.sr) => Takes(cpu)
=============================================================================
