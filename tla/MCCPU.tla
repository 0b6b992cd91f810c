------------------------------- MODULE MCCPU -------------------------------
(***************************************************************************)
(* A small board for M68kCPU: 16 bus bytes, three RAM words shared by both *)
(* stacks, and a program whose addresses can hold several instructions, so *)
(* that legal, faulting and privileged code meet in every mode.            *)
(***************************************************************************)
EXTENDS M68kCPU, MCBoard

\* A handler at 8, odd handlers for TRAP #2 and for a device, and no
\* handler for the others.
SmallVector ==
  [v \in 0 .. 255 |-> CASE v = 0 -> 14 [] v = 1 -> 0 [] v \in {8, 25, 33} -> 8
                        [] v = 34 -> 3 [] OTHER -> 0]

Mixed ==
  [a \in 0 .. BusMod - 1 |->
     CASE a = 0 -> {InsW("MOVEtoSR", "imm", 7, {}), [Ins("MOVEA") EXCEPT !.k = 15]}
       [] a = 4 -> {[Ins("TRAP") EXCEPT !.n = 1], InsA("MOVEtoUSP", 7)}
       [] a = 6 -> {InsW("MOVEtoSR", "imm", 7, {})}
       [] a = 8 -> {Ins("RTE")}
       [] a = 10 -> {[Ins("TRAP") EXCEPT !.n = 2], [Ins("TRAP") EXCEPT !.n = 0], Ins("NOP")}
       [] a = 12 -> {InsW("STOP", "imm", 7, {13}), InsK("BRA", "Dn", -10)}
       [] OTHER -> {Ins("NOP")}]

\* A host puts the CPU into user mode, its two pointers apart.
SmallLoads == {[pc |-> 10, sr |-> {}, A |-> [r \in AReg |-> 0], usp |-> 12, ssp |-> 14]}

SmallJunkWord == {{13, 0}}
SmallJunkLong == {2}
=============================================================================
