SPECIFICATION FairSpec
CONSTANTS
  Ids = {i1, i2}
  Handles = {h1, h2}
  Tokens = {t1, t2}
  Callers = {p1, p2}
  Conns = {k1, k2}
  UsizeMod = 5
  NoId = NoId
  NoChannel = NoChannel
  NoToken = NoToken
  Unissued = Unissued
  Spent = Spent
INVARIANTS RegistryConsistent CountIsViewers AdmittedToIssued
PROPERTIES LastLeaverCloses
