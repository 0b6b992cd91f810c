------------------------------ MODULE M68kFlags ------------------------------
(***************************************************************************)
(* The status-register bits and the sixteen conditions that Bcc, DBcc and  *)
(* Scc test.  A status register is the set of its one bits.                *)
(***************************************************************************)
EXTENDS Integers

flagT == 15
flagS == 13
flagX == 4
flagN == 3
flagZ == 2
flagV == 1
flagC == 0
CCRBits == 0 .. 4

\* Mutant: GE and LT look at N alone, as if no subtraction overflowed.
testConditionNoV(sr, cc) ==
  LET N == flagN \in sr
      Z == flagZ \in sr
      V == flagV \in sr
      C == flagC \in sr
  IN CASE cc = 0 -> TRUE          [] cc = 1 -> FALSE
       [] cc = 2 -> ~C /\ ~Z      [] cc = 3 -> C \/ Z
       [] cc = 4 -> ~C            [] cc = 5 -> C
       [] cc = 6 -> ~Z            [] cc = 7 -> Z
       [] cc = 8 -> ~V            [] cc = 9 -> V
       [] cc = 10 -> ~N           [] cc = 11 -> N
       [] cc = 12 -> ~N           [] cc = 13 -> N
       [] cc = 14 -> N = V /\ ~Z  [] cc = 15 -> Z \/ N # V

testCondition(sr, cc) ==
  LET N == flagN \in sr
      Z == flagZ \in sr
      V == flagV \in sr
      C == flagC \in sr
  IN CASE cc = 0 -> TRUE          [] cc = 1 -> FALSE
       [] cc = 2 -> ~C /\ ~Z      [] cc = 3 -> C \/ Z
       [] cc = 4 -> ~C            [] cc = 5 -> C
       [] cc = 6 -> ~Z            [] cc = 7 -> Z
       [] cc = 8 -> ~V            [] cc = 9 -> V
       [] cc = 10 -> ~N           [] cc = 11 -> N
       [] cc = 12 -> N = V        [] cc = 13 -> N # V
       [] cc = 14 -> N = V /\ ~Z  [] cc = 15 -> Z \/ N # V
=============================================================================
