SPECIFICATION Spec
CONSTANTS
  RegMod = 128
  BusMod = 128
  AReg = {6, 7}
  RAM <- TourRAM
  Vector <- TourVector
  Code <- Tour
  Levels = {}
  DevVecs = {}
  Loads = {}
  JunkWord <- SysJunkWord
  JunkLong <- TourJunkLong
INVARIANTS TypeOK
PROPERTIES
  BankedStacks
  UserConfined
