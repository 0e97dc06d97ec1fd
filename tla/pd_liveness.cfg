\* A smaller instance than pd_session: one offer, and the SOM stays as it is.
CONSTANTS
  Messages = {}
  Commands = {"set-rail"}
  Currents = {400}
  CapPeriod = 1
  DetachPeriod = 1
  AckPeriod = 2
  SrcSettle = 1
  SrcTimeout = 1
  SrcReadTimeout = 2
  VbusTimeout = 1
  SoftResetAfter = 1
  HandshakeTimeout = 2
  TMax = 3
  TWrap = 2
  MaxAttempts = 0
SPECIFICATION FairSessionSpec
PROPERTIES PartnerGoneQuiet SinkHandshakeEnds SourceHandshakeEnds
