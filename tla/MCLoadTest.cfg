SPECIFICATION FairSpec
CONSTANTS
  PipelineRuns <- MCPipelineRuns
  Registry <- MCRegistry
  Settings <- MCSettings
  SleepDigits = {1, 2}
INVARIANTS NoMapRace LooksLikeInput ReportIsTrue
PROPERTY Terminates
CHECK_DEADLOCK FALSE
