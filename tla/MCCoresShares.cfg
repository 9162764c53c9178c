CONSTANTS
  p1 = p1  p2 = p2  p3 = p3  p4 = p4
  Qs = Qs  Qx = Qx
  NumCores = 4
  Queues <- MCQueues
  Pids <- MCPids
  PidQueue <- MCPidQueue
  NumCpu <- MCNumCpu
  Shares <- MCSharesTwoQueues
  MaxRestarts = 0
SPECIFICATION Spec
INVARIANT ShareCoresDisjoint
