CONSTANTS
  SpiCommands <- AllCommands
  MaxChunks = 2
SPECIFICATION FairSpec
INVARIANTS InterruptsTypeOK OnlyChargerStrays MessagesWhole
PROPERTIES SomHeard NoLostWork
