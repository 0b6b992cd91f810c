------------------------------ MODULE M68kBudget ------------------------------
(***************************************************************************)
(* Cycle accounting: what Step() adds to the cycle counter and returns,    *)
(* StepCycles() with the deficit it carries from one call to the next,     *)
(* AddCycles(), and the loop a host runs around StepCycles() to spend the  *)
(* budget of one time slice (TestStepCycles, "scanline boundary            *)
(* simulation").  What an instruction does is left out; what it costs is   *)
(* any value of InstrCost, exceptions included.                            *)
(*                                                                         *)
(* A definition introduced as "Mutant" is a plausible mistake in the one   *)
(* that follows it; nothing else uses it.                                  *)
(***************************************************************************)
EXTENDS Integers

CONSTANTS
  InstrCost,   \* cycles a handler can add
  MaxCost,     \* a bound on InstrCost and StopCost
  IRQCost,     \* cycles of interrupt processing, 44
  StopCost,    \* cycles of a step of a stopped CPU, 4
  Slices,      \* the budgets a host grants
  Holds,       \* the bus-hold periods given to AddCycles
  MaxGrants    \* bound on the slices, holds and restores of a behaviour

VARIABLES
  cycles, deficit, halted, stopped,   \* fields of CPU
  budget,                             \* what is left of the host's slice
  granted, charged, stepped, held,    \* totals since the last reset: budgets,
                                      \* StepCycles() and Step() results, holds
  grants                              \* slices, holds and restores so far

cpuVars == <<cycles, deficit, halted, stopped>>
ledger == <<granted, charged, stepped, held>>
vars == <<cpuVars, budget, ledger, grants>>

ASSUME Costs ==
  /\ InstrCost \subseteq Nat \ {0}
  /\ IRQCost \in Nat \ {0} /\ StopCost \in Nat \ {0}
  /\ MaxCost \in Nat /\ \A n \in InstrCost \cup {StopCost} : n <= MaxCost
ASSUME Host ==
  /\ Slices \subseteq Nat \ {0} /\ Holds \subseteq Nat
  /\ MaxGrants \in Nat

Init ==
  /\ cycles = 0 /\ deficit = 0 /\ halted = FALSE /\ stopped = FALSE
  /\ budget = 0
  /\ granted = 0 /\ charged = 0 /\ stepped = 0 /\ held = 0
  /\ grants = 0

-----------------------------------------------------------------------------
(***************************************************************************)
(* Outcomes of Step() on a CPU that is not halted: cycles consumed, cycles *)
(* returned, and the flags it leaves.                                      *)
(***************************************************************************)
Outcome == [consumed : Nat, returned : Nat, halted : BOOLEAN, stopped : BOOLEAN]

\* Mutant: a stopped step costs nothing.
StoppedOutcomesFree(irq) ==
  {[consumed |-> 0, returned |-> 0, halted |-> FALSE, stopped |-> TRUE]}

\* Stopped: no interrupt, or one that wakes the CPU (its stacking may fault).
StoppedOutcomes(irq) ==
  IF irq = 0
  THEN {[consumed |-> StopCost, returned |-> StopCost, halted |-> FALSE, stopped |-> TRUE]}
  ELSE {[consumed |-> StopCost + irq, returned |-> StopCost + irq,
         halted |-> h, stopped |-> FALSE] : h \in BOOLEAN}

\* Running, after an interrupt that cost irq (0 if none was taken): an odd PC
\* returns 0 on the spot; a double fault in exception() adds nothing; a
\* handler adds its cost and runs on, faults (or jumps to an odd address) or
\* stops.
OddPCOutcomes(irq) == {[consumed |-> irq, returned |-> 0, halted |-> TRUE, stopped |-> FALSE]}
DoubleFaultOutcomes(irq) == {[consumed |-> irq, returned |-> irq, halted |-> TRUE, stopped |-> FALSE]}
HandlerOutcomes(irq) ==
  {[consumed |-> irq + n, returned |-> irq + n, halted |-> h, stopped |-> FALSE] :
     n \in InstrCost, h \in BOOLEAN}
  \cup {[consumed |-> irq + n, returned |-> irq + n, halted |-> FALSE, stopped |-> TRUE] :
          n \in InstrCost}

Outcomes(irq) ==
  IF stopped THEN StoppedOutcomes(irq)
  ELSE OddPCOutcomes(irq) \cup DoubleFaultOutcomes(irq) \cup HandlerOutcomes(irq)

StepOutcomes == UNION {Outcomes(irq) : irq \in {0, IRQCost}}

Stepped(o) ==
  /\ cycles' = cycles + o.consumed
  /\ halted' = o.halted
  /\ stopped' = o.stopped
  /\ stepped' = stepped + o.returned

Return(n) == charged' = charged + n /\ budget' = budget - n

-----------------------------------------------------------------------------
(***************************************************************************)
(* One iteration of the host's loop: budget -= StepCycles(budget).         *)
(***************************************************************************)
StepCyclesHalted ==
  /\ budget > 0 /\ halted
  /\ UNCHANGED vars

\* Mutant: the whole deficit is charged to one slice.
PayDownWhole ==
  /\ budget > 0 /\ ~halted /\ deficit > 0
  /\ deficit' = 0 /\ Return(deficit)
  /\ UNCHANGED <<cycles, halted, stopped, granted, stepped, held, grants>>

PayDown ==
  /\ budget > 0 /\ ~halted /\ deficit > 0
  /\ LET n == IF budget >= deficit THEN deficit ELSE budget
     IN deficit' = deficit - n /\ Return(n)
  /\ UNCHANGED <<cycles, halted, stopped, granted, stepped, held, grants>>

\* Mutant: an instruction runs although cycles are owed.
ExecuteInDebt(outcomes) ==
  /\ budget > 0 /\ ~halted
  /\ \E o \in outcomes :
       /\ Stepped(o)
       /\ IF o.returned <= budget
          THEN Return(o.returned) /\ UNCHANGED deficit
          ELSE Return(budget) /\ deficit' = deficit + o.returned - budget
  /\ UNCHANGED <<granted, held, grants>>

ExecuteOne(outcomes) ==
  /\ budget > 0 /\ ~halted /\ deficit <= 0
  /\ \E o \in outcomes :
       /\ Stepped(o)
       /\ IF o.returned <= budget
          THEN Return(o.returned) /\ UNCHANGED deficit
          ELSE Return(budget) /\ deficit' = o.returned - budget
  /\ UNCHANGED <<granted, held, grants>>

Execute == ExecuteOne(StepOutcomes)

StepCycles == StepCyclesHalted \/ PayDown \/ Execute

\* The loop has ended; the host grants the next slice.
Grant(n) ==
  /\ budget <= 0 /\ grants < MaxGrants
  /\ budget' = budget + n /\ granted' = granted + n /\ grants' = grants + 1
  /\ UNCHANGED <<cpuVars, charged, stepped, held>>

\* Mutant: the counter is set, not advanced.
AddCyclesSets(n) ==
  /\ grants < MaxGrants
  /\ cycles' = n /\ held' = held + n /\ grants' = grants + 1
  /\ UNCHANGED <<deficit, halted, stopped, budget, granted, charged, stepped>>

AddCycles(n) ==
  /\ grants < MaxGrants
  /\ cycles' = cycles + n /\ held' = held + n /\ grants' = grants + 1
  /\ UNCHANGED <<deficit, halted, stopped, budget, granted, charged, stepped>>

\* The host gives up its slice and resets; the totals start again.
Reset ==
  /\ cycles' = 0 /\ deficit' = 0 /\ halted' = FALSE /\ stopped' = FALSE
  /\ budget' = 0
  /\ granted' = 0 /\ charged' = 0 /\ stepped' = 0 /\ held' = 0
  /\ UNCHANGED grants

Next ==
  \/ StepCycles \/ Reset
  \/ \E n \in Slices : Grant(n)
  \/ \E n \in Holds : AddCycles(n)

Spec == Init /\ [][Next]_vars

-----------------------------------------------------------------------------
TypeOK ==
  /\ cycles \in Nat /\ deficit \in Nat /\ halted \in BOOLEAN /\ stopped \in BOOLEAN
  /\ budget \in Nat /\ grants \in Nat
  /\ granted \in Nat /\ charged \in Nat /\ stepped \in Nat /\ held \in Nat

\* Every cycle Step() reports is charged to some slice exactly once or still
\* owed as deficit, and every cycle granted is charged or still in the slice:
\* StepCycles() neither loses nor invents cycles, however costs straddle
\* slices, and never takes more than it was offered (cpu.go:151).
LedgerBalances ==
  /\ stepped = charged + deficit
  /\ granted = charged + budget

\* When a slice ends with the CPU running, emulated time has caught up with
\* the time granted and is ahead of it by less than the longest step.
InStepWithHost ==
  budget = 0 /\ ~halted
    => granted <= stepped /\ stepped < granted + IRQCost + MaxCost

\* The counter read through Cycles() is what Step() reported plus the bus
\* holds; a step that halts the CPU hides at most one interrupt (cpu.go:106
\* to cpu.go:112).
CounterAgrees ==
  /\ ~halted => cycles = stepped + held
  /\ cycles \in {stepped + held, stepped + held + IRQCost}

\* The host's loop ends, unless the CPU halts: every StepCycles() makes
\* progress.
SliceEnds == budget > 0 ~> (budget = 0 \/ halted)

\* Step() returns the number of cycles consumed.
StepReturnsConsumed == cycles = stepped + held
=============================================================================
