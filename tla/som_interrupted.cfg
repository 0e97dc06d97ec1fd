CONSTANTS
  LoopCommands <- OnOff
  SpiCommands <- OnOff
  MaxLost = 1
SPECIFICATION Spec
INVARIANTS InterruptedPowerAgrees
