\* The data path.
SPECIFICATION Spec
CONSTANTS
  Unit = 4
  MSB <- NarrowBits
  Nib = 4
  Base = 3
  BusMod = 64
  Index <- IndexWords
  MaskOf <- ListWords
  Programs <- DataPrograms
INVARIANTS
  TypeOK
  BusTime
PROPERTIES
  EAsAgree
  FaultLeavesMemory
  StackAligned
  RestOfRegisterKept
  WideExact
  ConditionsHold
  ShiftBySteps
  SavedRestored
CHECK_DEADLOCK FALSE
