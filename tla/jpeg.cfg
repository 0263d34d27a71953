CONSTANTS
  Clients = {c1, c2}
  MaxJobs = 2
  MaxAborts = 1
  BadConfigs = {FALSE, TRUE}
SPECIFICATION FairSpec
CHECK_DEADLOCK FALSE
INVARIANT TypeOK
INVARIANT JobsAccountedFor
INVARIANT ResultIsOfTheJob
PROPERTY JobsEnd
PROPERTY CallsReturn
