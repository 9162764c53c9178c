CONSTANTS
  Jh = Jh  Jm = Jm  M1 = M1  V1 = V1  V2 = V2
  Qh = Qh  Qm = Qm  Ql = Ql
  H1 = H1  H2 = H2  H3 = H3  Lic = Lic
  NoJob = NoJob
  NoResVal = NoResVal
  Jobs <- MCJobs
  Queues <- MCQueues
  Hosts <- MCHosts
  Resources = {Lic}
  Prio <- MCPrio
  Preemptable <- MCPreemptable
  JobQueue <- MCJobQueue
  NumProc <- MCNumProc
  JobHosts <- MCJobHosts
  SlotOnly <- MCSlotOnly
  JobRusage <- MCJobRusage
  QueueRusage <- MCQueueRusage
  PendReasons <- MCPendReasons
  PreemptableResources = NoResVal
  MaxPreemptJobs = 1
  TotalSlots = 3
  InitPJL <- MCInitPJL
  InitSJL <- MCInitSJL
  MaxSigFail = 1
SPECIFICATION Spec
PROPERTY ElectionFailureMutatesNothing
