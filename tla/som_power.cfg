CONSTANTS
  LoopCommands <- SomeLoopCommands
  SpiCommands <- SomeSpiCommands
  MaxLost = 1
SPECIFICATION Spec
INVARIANTS SomPowerTypeOK FlagsAgree OffIsOff NoOrphanRails SupplyIsHost
PROPERTIES WarmBootKeepsRails
