SPECIFICATION PipeSpec
CONSTANTS
  Channels = {ch1, ch2}
  ModbusAddresses = {d1, d2}
  MeterAddresses = {m1, m2}
  FunCodes = {3}
  Registers = {1, 2, 3, 4, 5}
  CodeLists <- SomeCodeLists
  NumLimit = 2
  MaxDevices = 2
  MaxRegisters = 4
SYMMETRY Symmetry
INVARIANTS
  PipeTypeOK
  
  RegistersSorted

  
