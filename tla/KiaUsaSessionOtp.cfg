\* A repair of a session whose remember-me token has expired.
CONSTANTS
  Calls = {c1}
  Vehicles = {v1}
  Tokens = {t1, t2}
  MaxSid = 2
SPECIFICATION Spec
INVARIANT OtpIsSurfaced
CHECK_DEADLOCK FALSE
