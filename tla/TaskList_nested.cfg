CONSTANTS
  root = root
  t1 = t1
  t2 = t2
  s1 = s1
  s2 = s2
  s3 = s3
  Root = root
  Steps <- TwoTasks
  Nested <- NestedDeeper
  Optional = {s1}
  Reports = 2
SPECIFICATION LiveSpec
INVARIANTS FinishPageIsEarned StopIsNotLost
PROPERTIES NothingStartsAfterCancel StopsOnlyProgressPage RunTasksEnds QuitEnds
CHECK_DEADLOCK FALSE
