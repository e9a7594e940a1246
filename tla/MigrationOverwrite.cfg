SPECIFICATION MigrationSpec
CONSTANTS
    PlainRows = {x}
    MaxImage = 1
    BatchSize = 1
    MaxRuns = 1
INVARIANT OverwriteLosesNothing
CHECK_DEADLOCK FALSE
