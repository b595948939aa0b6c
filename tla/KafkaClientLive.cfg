CONSTANTS
  Confs <- LiveConfs
  CallerNames <- TwoCallers
  MaxOpenRequests = 1
  Mechanisms = {"none", "SCRAM"}
  MaxRequests = 3
  MaxBrokerFaults = 1
SPECIFICATION FairClientSpec
PROPERTIES CallersReturn CloseReturns
CHECK_DEADLOCK FALSE
