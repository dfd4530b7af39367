CONSTANTS
  w1 = w1
  w2 = w2
  p = p
  c = c
  x = x
  y = y
  NoTask = NoTask
  Owner = Owner
  Workers <- TwoWorkers
  Tasks <- FourTasks
  Parent <- MCParent
  MayWait <- MCMayWait
SPECIFICATION FairSpec
INVARIANTS TakenInOrder EachTaskOnce NoSleeperLeftBehind DrainedWhenDestroyed
PROPERTIES TasksAreRun DestructorReturns
CHECK_DEADLOCK FALSE
