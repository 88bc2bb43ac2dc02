SPECIFICATION ExecSpec
CONSTANTS
  Ids = {i1}
  Connects = {c1, c2}
  UiConnects = {}
  Disconnects = {}
  Tunnelled = {}
  UserPrompts = {}
  AiIds = {i1}
  Bastions = {i1}
  Calls = {t1, t2}
  Listers = {l1}
  Nobody = Nobody
  NoEntry = NoEntry
SYMMETRY ExecSymmetry
INVARIANTS PtyLeavesNothing RetryLeavesFailed
PROPERTIES HangSparesRunning
CHECK_DEADLOCK FALSE
