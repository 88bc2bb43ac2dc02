SPECIFICATION MCSpec
CONSTANTS
  Tools = {t1}
  Asks = {t1}
  Binds = {b1, b2}
  Strays = {}
  Silent = {}
  Assets = {a1, a2}
  None = None
INVARIANTS BindingsAreCurrent
PROPERTIES RequestsAnswered
CHECK_DEADLOCK FALSE
