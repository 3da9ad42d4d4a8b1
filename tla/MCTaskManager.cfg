SPECIFICATION FairSpec
CONSTANTS
  s1 = s1
  s2 = s2
  t1 = t1
  t2 = t2
  t3 = t3
  NoTask = notask
  NoServer = noserver
  Servers <- MCTwoServers
  Tasks <- MCTwoTasks
  MaxConcurrent = 1
  SaveMayFail = TRUE
INVARIANTS
  BoundedActive
  NoneStranded
PROPERTIES
  Lifecycle
  
