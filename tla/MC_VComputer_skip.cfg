CONSTANTS
  trap = trap
  tmr0 = tmr0
  serial = serial
  floppy = floppy
  Msg = {trap, tmr0, serial, floppy}
  NullVector = {}
  Program <- MCWaiting
  MaxCost = 2
  Chan = {0}
  NSlots = 2
  Level = {0}
  DevMsg <- MCDevMsg
  TmrMsg <- MCTmrMsg
  TrapMsg = trap
  MaxCycles = 1
SPECIFICATION Spec
PROPERTY SkipStaysInProgram
