SPECIFICATION RSpec
CONSTANTS
    Size = 4
    Limit = 4
    Threshold = 2
    Budget = 2
    MaxBufs = 10
INVARIANTS PagesIntact DevicePagesHeld DryOnlyByFailures
PROPERTIES ImplementsChannel
