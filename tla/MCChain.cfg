\* Multi-precision binary and decimal arithmetic.
SPECIFICATION Spec
CONSTANTS
  MSB <- Widths
  Nib = 16
  Base = 10
  Programs <- Kinds
  Limbs <- LimbValues
  MaxLimbs <- Lengths
INVARIANTS
  TypeOK
  ChainExact
  ZeroOfWhole
  FlagsOfWhole
CHECK_DEADLOCK FALSE
