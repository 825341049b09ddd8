\* Two calls, any number of invalidations.
CONSTANTS
  c1 = c1
  c2 = c2
  Calls = {c1, c2}
  Offered <- AnyAndAnother
  None = None
  MaxId = 5
  MaxPolls = 1
SPECIFICATION FairSpec
INVARIANTS
  TypeOK
  ClimateAfterCharge
  ChargeRepeatsOnce
  OneFaultIsInvisible
  FailedIsNotApplied
PROPERTY
  CallsReturn
CHECK_DEADLOCK FALSE
