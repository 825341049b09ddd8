\* Two overlapping calls on two vehicles, up to four sessions.
CONSTANTS
  Calls = {c1, c2}
  Vehicles = {v1, v2}
  Tokens = {t1, t2, t3}
  MaxSid = 4
SPECIFICATION Spec
SYMMETRY Symmetry
INVARIANTS
  TypeOK
  LoginBudget
  SoloCallSucceeds
  RefreshRealigns
  RepairSendsOneSession
PROPERTY
  ActsAtMostOnce
CHECK_DEADLOCK FALSE
