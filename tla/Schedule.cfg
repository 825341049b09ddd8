\* Every client, two calls and a change in the app.
CONSTANTS
  Platforms = {"type1", "eu", "ccs2", "ev5", "gspa"}
  Settings <- TheSettings
  Reports <- TheReports
  Requests <- TheRequests
  MaxApps = 1
  MaxPolls = 1
  MaxCalls = 2
SPECIFICATION Spec
INVARIANTS
  TypeOK
  ExplicitIsWritten
  SilentScopeIsUntouched
  DefaultIsGuarded
PROPERTY
  UnaskedIsUnchanged
CHECK_DEADLOCK FALSE
