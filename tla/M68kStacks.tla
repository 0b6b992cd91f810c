------------------------------ MODULE M68kStacks ------------------------------
(***************************************************************************)
(* What the banked register A7 promises: two stack pointers, of which only *)
(* the one of the current mode is in use.  The CPU keeps the active one in *)
(* A[7] and a saved one in USP or SSP; setSR, exception and                *)
(* processInterrupt each move values between the three on their own.       *)
(***************************************************************************)
EXTENDS Integers

CONSTANTS
  RegMod,      \* number of register values
  FrameSize,   \* bytes an exception or interrupt pushes: PC and SR
  ResetSSP,    \* the long at address 0
  Loads        \* what a host may set: a mode and both pointers

VARIABLES super, usp, ssp

bank == <<super, usp, ssp>>

Pointer == 0 .. RegMod - 1

Init ==
  /\ super = TRUE
  /\ usp = 0
  /\ ssp = ResetSSP

\* User code moves its own pointer only.
UserStep ==
  /\ ~super
  /\ usp' \in Pointer
  /\ UNCHANGED <<super, ssp>>

\* An exception or interrupt stacks one frame on the supervisor stack.  The
\* word operand of DIVU or CHK may have moved the user pointer before it.
Enter ==
  /\ ~super /\ super'
  /\ ssp' = (ssp - FrameSize) % RegMod
  /\ \E k \in {-2, 0, 2} : usp' = (usp + k) % RegMod

SuperStep ==
  /\ super /\ super'
  /\ ssp' \in Pointer
  /\ UNCHANGED usp

\* MOVE An,USP is the only supervisor instruction that moves the user pointer.
LoadUSP ==
  /\ super /\ super'
  /\ usp' \in Pointer
  /\ UNCHANGED ssp

\* Returning to user mode gives the user its pointer back and keeps the
\* supervisor's, after the frame of RTE or the word operand of MOVE to SR.
Leave ==
  /\ super /\ ~super'
  /\ \E k \in {-2, 0, 2, FrameSize} : ssp' = (ssp + k) % RegMod
  /\ UNCHANGED usp

Reset ==
  /\ super' = TRUE
  /\ usp' = 0
  /\ ssp' = ResetSSP

Load ==
  \E l \in Loads : super' = l.super /\ usp' = l.usp /\ ssp' = l.ssp

Next == UserStep \/ Enter \/ SuperStep \/ LoadUSP \/ Leave \/ Reset \/ Load

Spec == Init /\ [][Next]_bank
=============================================================================
