------------------------- MODULE M68kSnapshot_proofs -------------------------
(***************************************************************************)
(* The accounting invariants of M68kBudget for any costs, slices and       *)
(* bounds; they survive saving, restarting and restoring, and so does a    *)
(* pending interrupt, for any vectors.                                     *)
(***************************************************************************)
EXTENDS M68kSnapshot, TLAPS

-----------------------------------------------------------------------------
(***************************************************************************)
(* The budget.                                                             *)
(***************************************************************************)
\* What the provers need to know of an outcome of Step().
OutcomeOK(o) ==
  /\ o \in Outcome
  /\ o.returned <= IRQCost + MaxCost
  /\ o.consumed = o.returned \/ (o.halted /\ o.consumed = o.returned + IRQCost)

LEMMA OutcomesOK == \A o \in StepOutcomes : OutcomeOK(o)
  <1> USE DEF OutcomeOK, Outcome
  <1>1. ASSUME NEW irq \in {0, IRQCost}, NEW o \in StoppedOutcomes(irq) PROVE OutcomeOK(o)
    <2>1. CASE o = [consumed |-> StopCost, returned |-> StopCost, halted |-> FALSE, stopped |-> TRUE]
      BY <2>1, Costs DEF Costs
    <2>2. ASSUME NEW h \in BOOLEAN,
                 o = [consumed |-> StopCost + irq, returned |-> StopCost + irq,
                      halted |-> h, stopped |-> FALSE]
          PROVE  OutcomeOK(o)
      BY <2>2, Costs DEF Costs
    <2> QED
      BY <1>1, <2>1, <2>2 DEF StoppedOutcomes
  <1>2. ASSUME NEW irq \in {0, IRQCost}
        PROVE  \A o \in OddPCOutcomes(irq) \cup DoubleFaultOutcomes(irq) \cup HandlerOutcomes(irq) :
                 OutcomeOK(o)
    <2>1. OutcomeOK([consumed |-> irq, returned |-> 0, halted |-> TRUE, stopped |-> FALSE])
      BY Costs DEF Costs
    <2>2. OutcomeOK([consumed |-> irq, returned |-> irq, halted |-> TRUE, stopped |-> FALSE])
      BY Costs DEF Costs
    <2>3. ASSUME NEW n \in InstrCost, NEW h \in BOOLEAN, NEW s \in BOOLEAN
          PROVE  OutcomeOK([consumed |-> irq + n, returned |-> irq + n, halted |-> h, stopped |-> s])
      BY Costs DEF Costs
    <2> HIDE DEF OutcomeOK
    <2>4. \A o \in OddPCOutcomes(irq) \cup DoubleFaultOutcomes(irq) : OutcomeOK(o)
      BY <2>1, <2>2, Zenon DEF OddPCOutcomes, DoubleFaultOutcomes
    <2>5. \A o \in HandlerOutcomes(irq) : OutcomeOK(o)
      <3> SUFFICES ASSUME NEW o \in HandlerOutcomes(irq) PROVE OutcomeOK(o)
        OBVIOUS
      <3>1. CASE \E n \in InstrCost, h \in BOOLEAN :
                   o = [consumed |-> irq + n, returned |-> irq + n, halted |-> h, stopped |-> FALSE]
        BY <2>3, <3>1
      <3>2. CASE \E n \in InstrCost :
                   o = [consumed |-> irq + n, returned |-> irq + n, halted |-> FALSE, stopped |-> TRUE]
        BY <2>3, <3>2
      <3> QED
        BY <3>1, <3>2 DEF HandlerOutcomes
    <2> QED
      BY <2>4, <2>5
  <1> HIDE DEF OutcomeOK
  <1> QED
    BY <1>1, <1>2 DEF StepOutcomes, Outcomes

\* TypeOK is split because the provers treat numbers and truth values apart.
Flags == halted \in BOOLEAN /\ stopped \in BOOLEAN

Counters ==
  /\ cycles \in Nat /\ deficit \in Nat /\ budget \in Nat /\ grants \in Nat
  /\ granted \in Nat /\ charged \in Nat /\ stepped \in Nat /\ held \in Nat

\* The deficit is always less than the longest step: with the balance it gives
\* InStepWithHost.
Balance ==
  /\ Counters
  /\ LedgerBalances
  /\ CounterAgrees
  /\ deficit < IRQCost + MaxCost

Inv == Flags /\ Balance

LEMMA InitInv == Init => Inv
  <1>1. Init => Flags
    BY Zenon DEF Init, Flags
  <1>2. Init => Balance
    BY Costs DEF Costs, Init, Balance, Counters, LedgerBalances, CounterAgrees
  <1> QED
    BY <1>1, <1>2 DEF Inv

LEMMA NextInv == Inv /\ [Next]_vars => Inv'
  <1> SUFFICES ASSUME Inv, [Next]_vars PROVE Flags' /\ Balance'
    BY DEF Inv
  <1> USE DEF Balance, Counters, LedgerBalances, CounterAgrees
  <1>0. Flags /\ Balance
    BY DEF Inv
  <1>1. CASE StepCyclesHalted \/ UNCHANGED vars
    BY <1>0, <1>1 DEF StepCyclesHalted, vars, cpuVars, ledger, Flags
  <1>2. CASE PayDown
    <2>1. Flags'
      BY <1>0, <1>2 DEF PayDown, Flags
    <2>2. PICK n \in Nat : /\ n <= deficit /\ n <= budget
                          /\ deficit' = deficit - n /\ charged' = charged + n
                          /\ budget' = budget - n
      <3>1. CASE budget >= deficit
        BY <1>0, <1>2, <3>1 DEF PayDown, Return
      <3>2. CASE ~(budget >= deficit)
        BY <1>0, <1>2, <3>2 DEF PayDown, Return
      <3> QED
        BY <3>1, <3>2
    <2>3. UNCHANGED <<cycles, halted, granted, stepped, held, grants>>
      BY <1>2 DEF PayDown
    <2>4. Counters' /\ LedgerBalances' /\ deficit' < IRQCost + MaxCost
      BY <1>0, <2>2, <2>3, Costs DEF Costs
    <2>5. CounterAgrees'
      BY <1>0, <2>3
    <2> QED
      BY <2>1, <2>4, <2>5
  <1>3. CASE Execute
    <2>1. PICK o \in StepOutcomes :
            /\ Stepped(o)
            /\ IF o.returned <= budget
               THEN Return(o.returned) /\ UNCHANGED deficit
               ELSE Return(budget) /\ deficit' = o.returned - budget
      BY <1>3 DEF Execute, ExecuteOne
    <2>2. OutcomeOK(o)
      BY OutcomesOK
    <2>3. o.returned \in Nat /\ o.consumed \in Nat /\ o.halted \in BOOLEAN /\ o.stopped \in BOOLEAN
      BY <2>2 DEF OutcomeOK, Outcome
    <2>4. /\ budget > 0 /\ ~halted /\ deficit = 0
          /\ UNCHANGED <<granted, held, grants>>
      BY <1>0, <1>3 DEF Execute, ExecuteOne
    <2>5. Flags'
      BY <2>1, <2>3 DEF Stepped, Flags
    <2>6. Counters' /\ LedgerBalances' /\ deficit' < IRQCost + MaxCost
      <3>1. o.returned <= IRQCost + MaxCost /\ cycles' = cycles + o.consumed
            /\ stepped' = stepped + o.returned
        BY <2>1, <2>2 DEF OutcomeOK, Stepped
      <3>2. CASE o.returned <= budget
        BY <1>0, <2>1, <2>3, <2>4, <3>1, <3>2, Costs DEF Return, Costs
      <3>3. CASE ~(o.returned <= budget)
        BY <1>0, <2>1, <2>3, <2>4, <3>1, <3>3, Costs DEF Return, Costs
      <3> QED
        BY <3>2, <3>3
    <2>7. CounterAgrees'
      BY <1>0, <2>1, <2>2, <2>3, <2>4, Costs DEF OutcomeOK, Stepped, Costs
    <2> QED
      BY <2>5, <2>6, <2>7
  <1>4. CASE Reset
    <2>1. Flags'
      BY <1>4, Zenon DEF Reset, Flags
    <2>2. /\ cycles' = 0 /\ deficit' = 0 /\ budget' = 0 /\ grants' = grants
          /\ granted' = 0 /\ charged' = 0 /\ stepped' = 0 /\ held' = 0
      BY <1>4 DEF Reset
    <2> QED
      BY <1>0, <2>1, <2>2, Costs DEF Costs
  <1>5. ASSUME NEW n \in Slices, Grant(n) PROVE Flags' /\ Balance'
    <2>1. n \in Nat
      BY Host DEF Host
    <2>2. UNCHANGED <<cycles, deficit, halted, stopped, charged, stepped, held>>
      BY <1>5 DEF Grant, cpuVars
    <2>3. budget' = budget + n /\ granted' = granted + n /\ grants' = grants + 1
      BY <1>5 DEF Grant
    <2>4. Flags' /\ CounterAgrees'
      BY <1>0, <2>2 DEF Flags
    <2> QED
      BY <1>0, <2>1, <2>2, <2>3, <2>4
  <1>6. ASSUME NEW n \in Holds, AddCycles(n) PROVE Flags' /\ Balance'
    <2>1. n \in Nat
      BY Host DEF Host
    <2>2. UNCHANGED <<deficit, halted, stopped, budget, granted, charged, stepped>>
      BY <1>6 DEF AddCycles
    <2>3. cycles' = cycles + n /\ held' = held + n /\ grants' = grants + 1
      BY <1>6 DEF AddCycles
    <2>4. Flags'
      BY <1>0, <2>2 DEF Flags
    <2> QED
      BY <1>0, <2>1, <2>2, <2>3, <2>4, Costs DEF Costs
  <1> QED
    BY <1>1, <1>2, <1>3, <1>4, <1>5, <1>6 DEF Next, StepCycles

LEMMA InvHolds == Spec => []Inv
  BY InitInv, NextInv, PTL DEF Spec

\* Every counter and ledger stays a natural number: in particular the host's
\* budget and the deficit never go negative in StepCycles().
THEOREM BudgetTypeCorrect == Spec => []TypeOK
  <1>1. Inv => TypeOK
    BY DEF Inv, Balance, Counters, Flags, TypeOK
  <1> QED
    BY <1>1, InvHolds, PTL

\* StepCycles() conserves cycles: what Step() reports is charged once or owed,
\* what the host grants is charged or left.
THEOREM CyclesConserved == Spec => []LedgerBalances
  <1>1. Inv => LedgerBalances
    BY DEF Inv, Balance
  <1> QED
    BY <1>1, InvHolds, PTL

\* At the end of a slice the CPU is level with the host up to one step.
THEOREM HostInStep == Spec => []InStepWithHost
  <1>1. Inv => InStepWithHost
    BY Costs DEF Costs, Inv, Balance, Counters, Flags, LedgerBalances, InStepWithHost
  <1> QED
    BY <1>1, InvHolds, PTL

\* Cycles() agrees with the results of Step() on a running CPU.
THEOREM CounterCorrect == Spec => []CounterAgrees
  <1>1. Inv => CounterAgrees
    BY DEF Inv, Balance
  <1> QED
    BY <1>1, InvHolds, PTL

-----------------------------------------------------------------------------
(***************************************************************************)
(* Saving and restoring.                                                   *)
(***************************************************************************)
\* What the image says of the accounting is what Inv says of the CPU it was
\* taken from; the deficit's four bytes hold it unchanged.
ImageBalanced ==
  /\ image.cycles \in Nat /\ image.deficit \in Nat /\ image.budget \in Nat
  /\ image.granted \in Nat /\ image.charged \in Nat
  /\ image.stepped \in Nat /\ image.held \in Nat
  /\ image.deficit < IRQCost + MaxCost
  /\ image.stepped = image.charged + image.deficit
  /\ image.granted = image.charged + image.budget
  /\ ~(image.halted # 0) => image.cycles = image.stepped + image.held
  /\ image.cycles \in {image.stepped + image.held, image.stepped + image.held + IRQCost}

\* The level, flag and vector bytes tell which request was pending.
ImageRequest ==
  image.due # None =>
    /\ image.due.level = image.pendingIPL
    /\ image.due.vec = (IF image.hasVec # 0 THEN image.vec ELSE None)

ImageOK == image # None => ImageBalanced /\ ImageRequest

\* A restored request no longer depends on the device's variable.
Private ==
  due # None => /\ pendingVec.ptr = FALSE
                /\ pendingIPL = due.level /\ pendingVec.num = due.vec

SnapInv == Inv /\ ImageOK /\ Private

LEMMA BoolByte == \A b \in BOOLEAN : (boolByte(b) # 0) <=> b
  BY DEF boolByte

\* Every step of a host or a device between saves is a step of M68kBudget.
Between ==
  \/ CallStepCycles \/ GrantSlice \/ HoldBus \/ HardReset
  \/ RequestInterrupt \/ SetIPL \/ DeviceWrites \/ Restart

LEMMA BetweenIsBudget == Between => [Next]_vars /\ UNCHANGED image
  <1>1. ASSUME NEW irq \in {0, IRQCost}, ExecuteOne(Outcomes(irq)) PROVE Next
    <2>1. Outcomes(irq) \subseteq StepOutcomes
      BY DEF StepOutcomes
    <2>2. Execute
      BY <1>1, <2>1, Zenon DEF Execute, ExecuteOne
    <2> QED
      BY <2>2 DEF Next, StepCycles
  <1>2. ServeInterrupt \/ RunOn => Next /\ UNCHANGED image
    BY <1>1 DEF ServeInterrupt, RunOn, Elsewhere
  <1>3. Pay \/ CallHalted => Next /\ UNCHANGED image
    BY DEF Pay, CallHalted, Elsewhere, Next, StepCycles
  <1>4. GrantSlice \/ HoldBus => Next /\ UNCHANGED image
    BY DEF GrantSlice, HoldBus, Elsewhere, Next
  <1>5. HardReset \/ Restart => Next /\ UNCHANGED image
    BY DEF HardReset, Restart, Next
  <1>6. RequestInterrupt \/ SetIPL \/ DeviceWrites => UNCHANGED vars /\ UNCHANGED image
    BY DEF RequestInterrupt, SetIPL, DeviceWrites
  <1> QED
    BY <1>2, <1>3, <1>4, <1>5, <1>6 DEF Between, CallStepCycles

LEMMA BetweenPrivate == Private /\ Between => Private'
  <1> SUFFICES ASSUME Private, Between PROVE Private'
    OBVIOUS
  <1>1. CASE due' = None
    BY <1>1 DEF Private
  <1>2. CASE UNCHANGED <<request, due>>
    BY <1>2 DEF Private, request
  <1>3. due' = None \/ UNCHANGED <<request, due>>
    BY DEF Between, CallStepCycles, ServeInterrupt, RunOn, Pay, CallHalted, GrantSlice, HoldBus,
       HardReset,
           RequestInterrupt, SetIPL, DeviceWrites, Restart, Elsewhere
  <1> QED
    BY <1>1, <1>2, <1>3

LEMMA SaveInv == SnapInv /\ Save => SnapInv'
  <1> SUFFICES ASSUME SnapInv, Save PROVE SnapInv'
    OBVIOUS
  <1>1. Inv'
    <2>1. UNCHANGED vars
      BY DEF Save
    <2> QED
      BY <2>1, NextInv DEF SnapInv
  <1>2. Private'
    BY DEF SnapInv, Private, Save, request
  <1>3. deficit \in Nat /\ deficit < IRQCost + MaxCost
    BY DEF SnapInv, Inv, Balance, Counters
  <1>4. deficit % DeficitMod = deficit
    BY <1>3, Int32, Costs DEF Int32, Costs
  <1>5. ImageBalanced'
    <2>1. /\ image'.cycles = cycles /\ image'.deficit = deficit /\ image'.budget = budget
          /\ image'.granted = granted /\ image'.charged = charged
          /\ image'.stepped = stepped /\ image'.held = held
          /\ image'.halted = boolByte(halted)
      BY <1>4 DEF Save
    <2>2. (image'.halted # 0) <=> halted
      BY <2>1, BoolByte DEF SnapInv, Inv, Flags
    <2>3. Balance
      BY DEF SnapInv, Inv
    <2> QED
      BY <2>1, <2>2, <2>3 DEF ImageBalanced, Balance, Counters, LedgerBalances, CounterAgrees
  <1>6. ImageRequest'
    <2>1. /\ image'.pendingIPL = pendingIPL
          /\ image'.hasVec = boolByte(Supplied # None)
          /\ image'.vec = (IF Supplied # None THEN Supplied ELSE 0)
          /\ image'.due = (IF pendingIPL = 0 THEN None
                           ELSE [level |-> pendingIPL, vec |-> Supplied])
      BY DEF Save
    <2>2. (image'.hasVec # 0) <=> Supplied # None
      BY <2>1 DEF boolByte
    <2> QED
      BY <2>1, <2>2 DEF ImageRequest
  <1> QED
    BY <1>1, <1>2, <1>5, <1>6 DEF SnapInv, ImageOK

LEMMA LoadInv == SnapInv /\ Load => SnapInv'
  <1> SUFFICES ASSUME SnapInv, Load PROVE SnapInv'
    OBVIOUS
  <1>1. ImageBalanced /\ ImageRequest /\ UNCHANGED image
    BY DEF SnapInv, ImageOK, Load
  <1>2. RestoredDeficit = image.deficit
    BY <1>1, Int32, Costs DEF RestoredDeficit, ImageBalanced, Int32, Costs
  <1>3. Flags' /\ (halted' <=> image.halted # 0)
    BY DEF Load, Flags
  <1>4. Balance'
    <2>1. /\ cycles' = image.cycles /\ deficit' = image.deficit /\ budget' = image.budget
          /\ granted' = image.granted /\ charged' = image.charged
          /\ stepped' = image.stepped /\ held' = image.held
      BY <1>2 DEF Load
    <2>2. grants' \in Nat
      BY DEF SnapInv, Inv, Balance, Counters, Load
    <2>3. Counters' /\ LedgerBalances' /\ deficit' < IRQCost + MaxCost
      BY <1>1, <2>1, <2>2 DEF ImageBalanced, Counters, LedgerBalances
    <2>4. CounterAgrees'
      BY <1>1, <1>3, <2>1 DEF ImageBalanced, CounterAgrees
    <2> QED
      BY <2>3, <2>4 DEF Balance
  <1>5. Private'
    <2>1. pendingIPL' = image.pendingIPL /\ pendingVec' = RestoredVec /\ due' = image.due
      BY DEF Load
    <2>2. RestoredVec.ptr = FALSE
          /\ RestoredVec.num = (IF image.hasVec # 0 THEN image.vec ELSE None)
      BY DEF RestoredVec, Copy, NoVec
    <2> QED
      BY <1>1, <2>1, <2>2 DEF ImageRequest, Private
  <1>6. ImageOK'
    BY <1>1 DEF ImageOK, ImageBalanced, ImageRequest
  <1> QED
    BY <1>3, <1>4, <1>5, <1>6 DEF SnapInv, Inv

LEMMA SnapInvHolds == SnapSpec => []SnapInv
  <1>1. SnapInit => SnapInv
    BY InitInv DEF SnapInit, SnapInv, ImageOK, Private
  <1>2. SnapInv /\ [SnapNext]_snapVars => SnapInv'
    <2> SUFFICES ASSUME SnapInv, [SnapNext]_snapVars PROVE SnapInv'
      OBVIOUS
    <2>1. CASE Between
      <3>1. Inv'
        BY <2>1, BetweenIsBudget, NextInv DEF SnapInv
      <3>2. Private'
        BY <2>1, BetweenPrivate DEF SnapInv
      <3>3. ImageOK'
        BY <2>1, BetweenIsBudget DEF SnapInv, ImageOK, ImageBalanced, ImageRequest
      <3> QED
        BY <3>1, <3>2, <3>3 DEF SnapInv
    <2>2. CASE UNCHANGED snapVars
      <3>1. Inv'
        BY <2>2, NextInv DEF SnapInv, snapVars
      <3> QED
        BY <2>2, <3>1 DEF SnapInv, snapVars, request, ImageOK, ImageBalanced, ImageRequest, Private
    <2> QED
      BY <2>1, <2>2, SaveInv, LoadInv DEF SnapNext, Between
  <1> QED
    BY <1>1, <1>2, PTL DEF SnapSpec

\* No cycle is lost or charged twice by saving at any point of a slice,
\* restarting and restoring: the deficit's int32 round trip is exact.
THEOREM SavesConserveCycles == SnapSpec => []LedgerBalances
  <1>1. SnapInv => LedgerBalances
    BY DEF SnapInv, Inv, Balance
  <1> QED
    BY <1>1, SnapInvHolds, PTL

\* A restored CPU is level with its host up to one step.
THEOREM SavesKeepHostInStep == SnapSpec => []InStepWithHost
  <1>1. SnapInv => InStepWithHost
    BY Costs DEF Costs, SnapInv, Inv, Balance, Counters, Flags, LedgerBalances, InStepWithHost
  <1> QED
    BY <1>1, SnapInvHolds, PTL

\* The counter a restored CPU shows through Cycles() still agrees with what
\* Step() reported.
THEOREM SavesKeepCounter == SnapSpec => []CounterAgrees
  <1>1. SnapInv => CounterAgrees
    BY DEF SnapInv, Inv, Balance
  <1> QED
    BY <1>1, SnapInvHolds, PTL

\* A request pending at the save is the request pending after the restore,
\* independent of the device whose variable held the vector.
THEOREM RequestsSurvive == SnapSpec => []RequestSurvives
  <1>1. SnapInv => RequestSurvives
    BY DEF SnapInv, Private, RequestSurvives, Supplied
  <1> QED
    BY <1>1, SnapInvHolds, PTL
=============================================================================
