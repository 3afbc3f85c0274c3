CONSTANTS
  Service <- MCService
  ServiceFlag <- MCServiceFlags
  Workload <- MCWorkloads
SPECIFICATION Spec
INVARIANTS
  NoConnectionLeft
  ReadsFollowWrites
  ResultsCountEveryKey
