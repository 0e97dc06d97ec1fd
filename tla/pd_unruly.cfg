\* Timers are scaled down; the order of the real ones is kept.
CONSTANTS
  Messages <- AnyMessages
  Commands = {"pdreset"}
  CapPeriod = 1
  DetachPeriod = 2
  AckPeriod = 2
  SrcSettle = 1
  SrcTimeout = 2
  SrcReadTimeout = 3
  VbusTimeout = 1
  SoftResetAfter = 1
  HandshakeTimeout = 3
  TMax = 5
  TWrap = 2
  MaxAttempts = 0
SPECIFICATION Spec
INVARIANTS TypeOK SinkStopsSourcing SoftResetFirst
