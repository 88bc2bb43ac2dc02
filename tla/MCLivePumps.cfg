SPECIFICATION MCSpec
CONSTANTS
  Ids = {i1}
  Handles = {h1, h2}
  Tokens = {}
  Openers = {o1, o2}
  Panels = {p1}
  Calls = {c1}
  Gestures = {g1, g2}
  NoGesture = NoGesture
  HasServer = FALSE
  UsizeMod = 5
  NoId = NoId
  NoChannel = NoChannel
  Unissued = Unissued
  Spent = Spent
INVARIANTS NoGestureLost
PROPERTIES PumpsEnd GesturesArePerformed TakeoverSilencesCalls
