CONSTANTS
  Confs <- SafetyConfs
  CallerNames <- ThreeCallers
  MaxOpenRequests = 2
  Mechanisms <- AllMechanisms
  MaxRequests = 3
  MaxBrokerFaults = 2
SPECIFICATION ClientSpec
INVARIANTS AnsweredOnce OrderKept AcknowledgedIsStored NoDuplicates
INVARIANTS NoCrossedReply AuthFirst ClosedOwesNothing
CHECK_DEADLOCK FALSE
