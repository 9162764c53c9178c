CONSTANTS
  Pids <- MCPids
  InitPid = 1
  P = 2
  Self = 5
  Tables <- MCTables
  RssOf <- MCRss
  UtimeOf <- MCUtime
  Page = 4096
  Jifs = 2
  OpendirMayFail = TRUE
  ReadMayFail = TRUE
  CommMayHaveBlank = TRUE
SPECIFICATION Spec
CHECK_DEADLOCK FALSE
INVARIANT TypeOK
INVARIANT HarvestMatchesSpec
INVARIANT HarvestSound
