SPECIFICATION SessionSpec
CONSTANTS
  MaxRuns = 3
  MaxFaults = 2
INVARIANTS
  AlwaysAdministered
  HandedOver
  RecordedStack
  LoggedIsGoverned
  OwnGovernorOnly
PROPERTIES
  EventuallyDeployed
CHECK_DEADLOCK FALSE
