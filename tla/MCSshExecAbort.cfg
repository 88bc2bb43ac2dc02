SPECIFICATION ExecFairSpec
CONSTANTS
  Ids = {i1}
  Connects = {c1}
  UiConnects = {}
  Disconnects = {}
  Tunnelled = {}
  UserPrompts = {}
  AiIds = {i1}
  Bastions = {i1}
  Calls = {t1}
  Listers = {l1}
  Nobody = Nobody
  NoEntry = NoEntry
PROPERTY AbortedExecEnds
CHECK_DEADLOCK FALSE
