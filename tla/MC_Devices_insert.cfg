CONSTANTS
  Descriptors <- MCDescriptors
  Geometry <- MCGeometry
  Bytes = 2
  Data = {d0, d1}
  BusyCycles = 3
  MaxStale = 1
  OldHeader = 1
  NewHeader = 2
  SectorSize = 2
  MaxSectors = 3
  BSIZE = 2
  ModKey = {"lshift", "rshift"}
  ModOf <- MCModOf
  OtherKey = {"enter"}
  CharKey = {"x"}
  NoKey = "none"
  MaxEvents = 4
  Slot = {0, 1}
  Device = {"dev0", "dev1"}
  NoSlot = 99
  NoDev = "nodev"
  AddrSpace = 24
  RamSize = 5
  RomStart = 6
  RomEnd = 7
  SlotBase = 10
  SlotStep = 4
  EnumCtrlBlkSize = 1
  Embedded <- MCEmbedded
  HostRange <- MCHostRange
  Registers = 2
  ByteValue = {0, 1}
  Unwritten = unwritten
  NvramSize = 2
  NvramValue = {0, 1}
  ZeroValue = 0
  MaxStarts = 2
  W = 4
  WidthChars = 2
  HeightChars = 2
  CharSize = 2
  FontSize = 2
  TdaSpace = 24
  TdaRomStart = 12
  Chan = {0, 1}
  Modulus = 3
  Addr = {entry, loop, handler}
  Entry = entry
  Nowhere = nowhere
  MaxCost = 2
SPECIFICATION Spec
PROPERTY CompletionIsWhole
CHECK_DEADLOCK FALSE
