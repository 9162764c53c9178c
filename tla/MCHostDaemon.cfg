CONSTANTS
  p1 = p1  p2 = p2
  Qs = Qs  Qx = Qx
  NoWindows = NoWindows
  jobQueHead = jobQueHead  Null = Null
  NumCores = 2
  Queues <- MCQueues
  Pids <- MCPids
  PidQueue <- MCPidQueue
  NumCpu <- MCNumCpu
  Shares <- MCShares
  MaxRestarts = 1
  MasterReconfig <- MCMasterReconfig
  MasterNull <- MCMasterNull
  MbdStatuses <- MCMbdStatuses
  MaxMbdExits = 2
SPECIFICATION Spec
INVARIANT TypeOK
INVARIANT BoundMatchesBindings
INVARIANT LiveJobCardReachable
INVARIANT WalkEndsAtHead
INVARIANT WindowOkMatchesSchedule
INVARIANT ActiveAheadOfClose
PROPERTY ExitedEventuallyReaped
PROPERTY JobExitFreesCores
