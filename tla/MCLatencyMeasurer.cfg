SPECIFICATION FairSpec
CONSTANTS
  SPF = 3
  Rate = 6
  Rounds = {0, 3}
  MaxObjects = 2
INVARIANTS ResultSound OneThreadSafe MeasurerInv
PROPERTIES MeasurementEnds
