CONSTANTS
  Files <- MCFiles
  Clients <- MCClients
  AgentFiles <- MCAgentFiles
  Taken = {80}
  MaxPeek = 5
SPECIFICATION Spec
INVARIANTS TypeOK RightService RightCertificate NothingSwallowed StartWhole
PROPERTIES NoNeedlessWait
CHECK_DEADLOCK FALSE
