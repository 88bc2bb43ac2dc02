SPECIFICATION MCSpec
CONSTANTS
  Adds = {a1, a2, a3}
  Drops = {d1}
  Keep = 2
  Upserts = {u1, u2}
  Removes = {r1}
  Others = {o1}
  Ids = {x, y}
  Nobody = Nobody
SYMMETRY Alike
INVARIANTS RowsStay RecordsFindSecrets CreatedStays
CHECK_DEADLOCK FALSE
