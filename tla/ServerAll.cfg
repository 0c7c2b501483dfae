SPECIFICATION FairSpec
CONSTANTS
  Servers = {s1, s2}
  Clients = {c1}
  NoQueue = NoQueue
  BluedServers = {s1}
  Commands = {"reclassify", "shutdown"}
  MaxMessages = 1
INVARIANTS ServerIsReachable QueueGoesWithServer ExitIsClean
PROPERTY ShutdownIsObeyed
CHECK_DEADLOCK FALSE
