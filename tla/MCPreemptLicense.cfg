CONSTANTS
  Jh = Jh  V1 = V1  V2 = V2
  Qh = Qh  Ql = Ql
  H1 = H1  H2 = H2  Lic = Lic  Scratch = Scratch
  NoJob = NoJob
  NoResVal = NoResVal
  Jobs <- MCJobs
  Queues <- MCQueues
  Hosts <- MCHosts
  Resources = {Lic, Scratch}
  Prio <- MCPrio
  Preemptable <- MCPreemptable
  JobQueue <- MCJobQueue
  NumProc <- MCNumProc
  JobHosts <- MCJobHosts
  SlotOnly <- MCSlotOnly
  JobRusage <- MCJobRusage
  QueueRusage <- MCQueueRusage
  PendReasons <- MCPendReasons
  PreemptableResources = {Lic}
  MaxPreemptJobs = 1
  TotalSlots = 2
  InitPJL <- MCInitPJL
  InitSJL <- MCInitSJL
  MaxSigFail = 1
SPECIFICATION Spec
PROPERTY LicenseTriggerNeedsPreemptableResource
