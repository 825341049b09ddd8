\* One call for a car that does not report its temperatures.
CONSTANTS
  Platforms = {"type1"}
  Settings <- TheSettings
  Reports <- TheReports
  Requests <- TheRequests
  MaxApps = 0
  MaxPolls = 1
  MaxCalls = 1
SPECIFICATION Spec
INVARIANT
  TemperatureIsNotInvented
CHECK_DEADLOCK FALSE
