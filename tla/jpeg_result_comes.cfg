CONSTANTS
  Clients = {c1}
  MaxJobs = 3
  MaxAborts = 0
  BadConfigs = {FALSE, TRUE}
SPECIFICATION FairSpec
CHECK_DEADLOCK FALSE
PROPERTY ResultComes
