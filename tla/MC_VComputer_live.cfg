CONSTANTS
  trap = trap
  tmr0 = tmr0
  serial = serial
  floppy = floppy
  Msg = {tmr0, serial}
  NullVector = {}
  Program <- MCWaiting
  MaxCost = 2
  Chan = {0}
  NSlots = 1
  Level = {0}
  DevMsg <- MCDevMsg
  TmrMsg <- MCTmrMsg
  TrapMsg = serial
  MaxCycles = 1
SPECIFICATION FairSpec
PROPERTIES SleepEnds AcceptedIsProcessed
