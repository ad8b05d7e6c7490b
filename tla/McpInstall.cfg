CONSTANTS
  Run = {r1, r2, r3}
  MaxEdits = 2
  MaxFaults = 1
SPECIFICATION McpSpec
INVARIANTS SettingsKept ReportIsTrue
CHECK_DEADLOCK FALSE
