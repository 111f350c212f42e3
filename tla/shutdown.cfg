SPECIFICATION FairSpec
CONSTANTS
  Configs <- MCConfigs
  ReadDeadlines = {1, 2, 3, 4}
  WriteDeadline = 1
  CancelSleep = 4
  multicastGroups <- MCGroups
INVARIANTS DrainBound GracefulExit OneMore
PROPERTIES EndsAfterSignal
\* A process that has ended takes no step.
CHECK_DEADLOCK FALSE
