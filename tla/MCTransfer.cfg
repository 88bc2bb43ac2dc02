SPECIFICATION MCSpec
CONSTANTS
  Transfers = {a, b}
  Uploads = {a}
  Users = {u1, u2}
  FileSizes <- MCFileSizes
  Listings = {TRUE, FALSE}
  MaxRuns <- MCMaxRuns
  a = a
  b = b
  MaxRetained = 1
INVARIANTS ActiveHasOneWorker UploadsAreWhole
PROPERTIES StatusFollows
CHECK_DEADLOCK FALSE
SYMMETRY Symmetry
