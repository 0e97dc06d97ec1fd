CONSTANTS
  MaxWire = 3
SPECIFICATION FairSpec
INVARIANTS DisplayTypeOK HpdMeansPicture
PROPERTIES DisplayComesUp
