CONSTANTS
  Conn = {c1, c2}
  Agent = {a}
  MaxDrops = 2
SPECIFICATION FairSpec
INVARIANTS TypeOK ReplacedIsDoomed HubNotStranded GaugeUpIsWatched
PROPERTIES ReplacedCloses DeadSessionCleared AgentReturns
CHECK_DEADLOCK FALSE
