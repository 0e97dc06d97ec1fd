\* One voltage pdvolt must refuse, one that changes nothing: what lower ones do
\* is proved in ChargerProofs.
CONSTANTS
  CapLists <- Sources
  MaxVoltages = {20, 24}
  ResetLimit = 60
SPECIFICATION FairSpec
INVARIANTS ChargerTypeOK PickIsBest OnlyWhenAllowed DrawsNoMoreThanGranted
PROPERTIES ChipFollows
