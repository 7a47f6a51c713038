CONSTANTS
  msg0 = msg0
  msg1 = msg1
  Msg = {msg0, msg1}
  HaltMsg = msg0
  NoMsg = nomsg
  QSize = 2
  Program <- MCProgram
  HcfCycles = 3
  MaxSlice = 2
SPECIFICATION DcpuSpec
PROPERTY InOrderOnce
