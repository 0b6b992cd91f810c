SPECIFICATION FSpec
CONSTANTS
  RegMod = 256
  BusMod = 128
  AReg = {6, 7}
  RAM <- SysRAM
  Vector <- SysVector
  Code <- System
  Levels = {1, 2, 7}
  DevVecs = {}
  Loads = {}
  JunkWord <- SysJunkWord
  JunkLong <- SysJunkLong
  MaxFrames = 2
INVARIANTS
  FramesIntact
  NestByPriority
PROPERTIES
  StacksDisciplined
  MaskDisciplined
  ReturnRestores
