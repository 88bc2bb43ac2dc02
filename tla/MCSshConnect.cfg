SPECIFICATION FairSpec
CONSTANTS
  Ids = {i1}
  Connects = {c1, c2}
  UiConnects = {c1, c2}
  Disconnects = {d1}
  Tunnelled = {c2}
  UserPrompts = {"hostkey", "kb"}
  AiIds = {}
  Calls = {}
  Listers = {}
  Nobody = Nobody
  NoEntry = NoEntry
INVARIANTS SupersededByName FailureLeavesNothing ChannelHasReader PromptIsAwaited
PROPERTIES CurrentKeepsChannel CallsReturn
