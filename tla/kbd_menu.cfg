CONSTANTS
  Positions <- SomeKeys
  MaxDown = 2
  LongPress = 2
  PowerOffs = {FALSE, TRUE}
SPECIFICATION FairSpec
INVARIANTS KbdTypeOK MenuKeysStayInMenu ConsoleTypesItsOwnKeys
PROPERTIES OpeningPressIsLong EscapeLeavesConsole
