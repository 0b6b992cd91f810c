---------------------------- MODULE M68kSnapshot ----------------------------
(***************************************************************************)
(* Save states: Serialize() and Deserialize() under a host that spends its *)
(* budget with StepCycles(), a device that requests interrupts, and a      *)
(* process that may end and start again between any two calls.  The image  *)
(* is what Serialize() writes, with its conversions; the host keeps its    *)
(* own state next to it.  A requested vector is a pointer into the device, *)
(* read when the interrupt is served or the CPU saved; Deserialize() gives *)
(* the CPU a copy of its own.                                              *)
(*                                                                         *)
(* The registers are left out: Serialize() writes each whole.  The mask is *)
(* left out too: a pending level below 7 may be served or not.             *)
(*                                                                         *)
(* A definition introduced as "Mutant" is a plausible mistake in the one   *)
(* that follows it; nothing else uses it.                                  *)
(***************************************************************************)
EXTENDS M68kBudget

CONSTANTS
  Levels,       \* the interrupt levels a device requests
  Vectors,      \* the vector numbers it supplies
  DeficitMod,   \* 2^32, the values the four bytes of the deficit hold
  None

VARIABLES
  pendingIPL, pendingVec,  \* fields of CPU; a vector is None, [ptr |-> TRUE] for
                           \* the device's variable, or a copy
  device,       \* the device's variable, that it lends to requests
  image,        \* what the last Serialize() wrote, with the host's state
  due           \* history: the request that was pending when the state now
                \* restored was saved, until it is served or replaced

request == <<pendingIPL, pendingVec>>
snapVars == <<vars, request, device, image, due>>

ASSUME Requests ==
  /\ Levels \subseteq 1 .. 7 /\ Vectors \subseteq Nat
  /\ None \notin Vectors
\* The deficit is less than the longest step (M68kSnapshot_proofs).
ASSUME Int32 == DeficitMod \in Nat /\ 2 * (IRQCost + MaxCost) <= DeficitMod

Pointer == [ptr |-> TRUE, num |-> 0]
Copy(n) == [ptr |-> FALSE, num |-> n]
NoVec == [ptr |-> FALSE, num |-> None]

\* *pendingVec, None for an auto-vector.
Supplied == IF pendingVec.ptr THEN device ELSE pendingVec.num

SnapInit ==
  /\ Init
  /\ pendingIPL = 0 /\ pendingVec = NoVec
  /\ device \in Vectors
  /\ image = None /\ due = None

-----------------------------------------------------------------------------
(***************************************************************************)
(* The host and the device between saves.                                  *)
(***************************************************************************)
\* Step() serves the pending interrupt, if the mask lets it.
ServeInterrupt ==
  /\ pendingIPL > 0
  /\ ExecuteOne(Outcomes(IRQCost))
  /\ pendingIPL' = 0 /\ pendingVec' = NoVec /\ due' = None
  /\ UNCHANGED <<device, image>>

Elsewhere == UNCHANGED <<request, device, image, due>>

RunOn == pendingIPL # 7 /\ ExecuteOne(Outcomes(0)) /\ Elsewhere

Pay == PayDown /\ Elsewhere
CallHalted == StepCyclesHalted /\ Elsewhere
CallStepCycles == ServeInterrupt \/ RunOn \/ Pay \/ CallHalted

GrantSlice == (\E n \in Slices : Grant(n)) /\ Elsewhere
HoldBus == (\E n \in Holds : AddCycles(n)) /\ Elsewhere

HardReset ==
  /\ Reset
  /\ pendingIPL' = 0 /\ pendingVec' = NoVec /\ due' = None
  /\ UNCHANGED <<device, image>>

RequestInterrupt ==
  /\ \E level \in Levels, v \in {NoVec, Pointer} :
       level > pendingIPL /\ pendingIPL' = level /\ pendingVec' = v
  /\ due' = None
  /\ UNCHANGED <<vars, device, image>>

SetIPL ==
  /\ \E level \in Levels \cup {0}, v \in {NoVec, Pointer} : pendingIPL' = level /\ pendingVec' = v
  /\ due' = None
  /\ UNCHANGED <<vars, device, image>>

\* The device uses its variable for something else.
DeviceWrites ==
  /\ device' \in Vectors
  /\ UNCHANGED <<vars, request, image, due>>

-----------------------------------------------------------------------------
(***************************************************************************)
(* Save states.                                                            *)
(***************************************************************************)
boolByte(b) == IF b THEN 1 ELSE 0

Save ==
  /\ image' = [cycles |-> cycles, deficit |-> deficit % DeficitMod,
               stopped |-> boolByte(stopped), halted |-> boolByte(halted),
               pendingIPL |-> pendingIPL,
               hasVec |-> boolByte(Supplied # None),
               vec |-> IF Supplied # None THEN Supplied ELSE 0,
               budget |-> budget, granted |-> granted, charged |-> charged,
               stepped |-> stepped, held |-> held,
               due |-> IF pendingIPL = 0 THEN None
                       ELSE [level |-> pendingIPL, vec |-> Supplied]]
  /\ UNCHANGED <<vars, request, device, due>>

\* Mutant: the vector byte is looked at, not the flag before it.
RestoredVecNoFlag == Copy(image.vec)
RestoredVec == IF image.hasVec # 0 THEN Copy(image.vec) ELSE NoVec

\* Mutant: the deficit is not restored.
RestoredDeficitForgets == 0
RestoredDeficit ==
  IF 2 * image.deficit >= DeficitMod THEN image.deficit - DeficitMod ELSE image.deficit

Load ==
  /\ image # None /\ grants < MaxGrants
  /\ cycles' = image.cycles /\ deficit' = RestoredDeficit
  /\ stopped' = (image.stopped # 0) /\ halted' = (image.halted # 0)
  /\ pendingIPL' = image.pendingIPL /\ pendingVec' = RestoredVec
  /\ budget' = image.budget /\ granted' = image.granted /\ charged' = image.charged
  /\ stepped' = image.stepped /\ held' = image.held
  /\ due' = image.due
  /\ grants' = grants + 1
  /\ UNCHANGED <<device, image>>

\* The process ends and starts again with New(); only the image is left.
Restart ==
  /\ Reset
  /\ pendingIPL' = 0 /\ pendingVec' = NoVec /\ due' = None
  /\ device' \in Vectors
  /\ UNCHANGED image

SnapNext ==
  \/ CallStepCycles \/ GrantSlice \/ HoldBus \/ HardReset
  \/ RequestInterrupt \/ SetIPL \/ DeviceWrites
  \/ Save \/ Load \/ Restart

SnapSpec == SnapInit /\ [][SnapNext]_snapVars

\* A host in its loop keeps calling StepCycles().
FairSnapSpec == SnapSpec /\ WF_snapVars(CallStepCycles)

-----------------------------------------------------------------------------
\* A request that was pending when the CPU was saved is pending after the
\* restore at the same level and with the vector number it had then, auto-vector
\* or not, whatever the device does to its variable meanwhile.
RequestSurvives == due # None => pendingIPL = due.level /\ Supplied = due.vec
=============================================================================
