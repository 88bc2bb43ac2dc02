SPECIFICATION FairSpec
CONSTANTS
  Tools = {t1}
  UiCalls = {u1}
  Calls <- MCCalls
  Procs = {p1, p2}
  Family = "es"
  Kinds = {"elasticsearch"}
  Replies = {"ok", "bad"}
  QueueCap = 1
  Nobody = Nobody
INVARIANTS RunningIsRegistered PendingIsAwaited SuccessLeavesNothing
PROPERTIES AtMostOnce ToolsEnd
CHECK_DEADLOCK FALSE
