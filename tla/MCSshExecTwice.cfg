SPECIFICATION ExecSpec
CONSTANTS
  Ids = {i1}
  Connects = {c1, c2}
  UiConnects = {}
  Disconnects = {}
  Tunnelled = {}
  UserPrompts = {}
  AiIds = {i1}
  Bastions = {}
  Calls = {t1}
  Listers = {}
  Nobody = Nobody
  NoEntry = NoEntry
INVARIANT NeverRunTwice
CHECK_DEADLOCK FALSE
