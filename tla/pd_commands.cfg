\* Every command at every moment; the timers are as short as they can be.
CONSTANTS
  Messages <- SomeMessages
  Commands <- CommandNames
  CapPeriod = 1
  DetachPeriod = 1
  AckPeriod = 1
  SrcSettle = 1
  SrcTimeout = 1
  SrcReadTimeout = 2
  VbusTimeout = 1
  SoftResetAfter = 1
  HandshakeTimeout = 2
  TMax = 3
  TWrap = 1
  MaxAttempts = 0
SPECIFICATION Spec
INVARIANTS FreshSession RoleMatchesState
PROPERTIES PortSpec
