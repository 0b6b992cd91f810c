SPECIFICATION Spec
CONSTANTS
  RegMod = 16
  BusMod = 16
  AReg = {7}
  RAM = {10, 12, 14}
  Vector <- SmallVector
  Code <- Mixed
  Levels = {1, 7}
  DevVecs = {34}
  Loads <- SmallLoads
  JunkWord <- SmallJunkWord
  JunkLong <- SmallJunkLong
PROPERTIES
  BankedStacks
  UserConfined
  FaultsLeaveMemory
  HaltedUntilReset
