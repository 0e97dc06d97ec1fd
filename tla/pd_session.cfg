CONSTANTS
  Messages = {}
  Commands = {"set-rail"}
  Currents = {50, 400}
  CapPeriod = 2
  DetachPeriod = 3
  AckPeriod = 6
  SrcSettle = 1
  SrcTimeout = 2
  SrcReadTimeout = 3
  VbusTimeout = 1
  SoftResetAfter = 1
  HandshakeTimeout = 3
  TMax = 9
  TWrap = 6
  MaxAttempts = 0
SPECIFICATION SessionSpec
INVARIANTS ContractAgreed DataRolesDiffer NoBackfeed
PROPERTIES PsReadyAnswersRequest
