CONSTANTS
  N <- MCN
  H1 = H1
  H2 = H2
  C = C
  NoFile = NoFile
  NoList = NoList
  FirstTid = 1
  Snapshots <- MCSnapshots
  NoRus = NoRus
  StartMayFail = FALSE
  WaitMayFail = TRUE
  RusageMayFail = TRUE
SPECIFICATION Spec
CHECK_DEADLOCK FALSE
INVARIANT TypeOK
INVARIANT FrameMatchesSnapshots
INVARIANT ReturnsOnlyWhenTasksEnded
INVARIANT BlaunchMatchesSpec
PROPERTY LaunchReturns
