SPECIFICATION MCSpec
CONSTANTS
  Ids = {i1}
  Handles = {h1, h2}
  Tokens = {}
  Openers = {p1}
  HasServer = TRUE
  UsizeMod = 5
  NoId = NoId
  NoChannel = NoChannel
  Unissued = Unissued
  Spent = Spent
  Pump = Pump
  Scrcpy = Scrcpy
  Viewers = {v1}
  Size <- MCSize
  RingCap = 5
  BufferCap = 3
  MaxFrames = 6
SYMMETRY SourceSymmetry
INVARIANTS OnRecordUntilRecycled ModeIsHonest NoGapWhileWatching
