SPECIFICATION FairSnapSpec
CONSTANTS
  InstrCost = {2}
  MaxCost = 2
  IRQCost = 6
  StopCost = 2
  Slices = {3}
  Holds = {2}
  MaxGrants = 3
  Levels = {1, 7}
  Vectors = {0, 64}
  DeficitMod = 16
  None = None
INVARIANTS
  TypeOK
  LedgerBalances
  InStepWithHost
  CounterAgrees
  RequestSurvives
PROPERTY SliceEnds
