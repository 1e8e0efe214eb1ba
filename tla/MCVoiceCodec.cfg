SPECIFICATION FairSpec
CONSTANTS
  Cancelers = {c1, c2, c3, c4}
  Detectors = {d1, d2}
  Nil = Nil
  Quiet = TRUE
INVARIANTS CancelerAlive DetectorAlive DeletedOnce CodecInv
PROPERTIES LostOnlyWhilePending PendingIsDropped
CHECK_DEADLOCK FALSE
