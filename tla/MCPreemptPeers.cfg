CONSTANTS
  Ja = Ja  Jb = Jb  V1 = V1  V2 = V2
  Qa = Qa  Qb = Qb  Ql = Ql
  H1 = H1  H2 = H2
  NoJob = NoJob
  NoResVal = NoResVal
  Jobs <- MCJobs
  Queues <- MCQueues
  Hosts <- MCHosts
  Resources = {}
  Prio <- MCPrio
  Preemptable <- MCPreemptable
  JobQueue <- MCJobQueue
  NumProc <- MCNumProc
  JobHosts <- MCJobHosts
  SlotOnly <- MCSlotOnly
  JobRusage <- MCJobRusage
  QueueRusage <- MCQueueRusage
  PendReasons <- MCPendReasons
  PreemptableResources = NoResVal
  MaxPreemptJobs = 1
  TotalSlots = 2
  InitPJL <- MCInitPJL
  InitSJL <- MCInitSJL
  MaxSigFail = 1
SPECIFICATION Spec
PROPERTY ElectServesOwnQueue
