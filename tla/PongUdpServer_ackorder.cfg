\* Three clients with two inputs each; the tick thread runs forever.
CONSTANTS
    c1 = c1
    c2 = c2
    c3 = c3
    NoClient = NoClient
    Client <- MCClient
    MaxInputs = 2
    Period = 2
    MaxClock = 10
    Readings = 6
    BucketBounds = {1, 2}
    HistValues = {0, 1, 2, 3}
    MaxObserved = 4
    Second = 7
    SampleWindow = 3
    Reasons = {"duplicates", "old", "window"}
    MaxCount = 1
SPECIFICATION Spec
INVARIANT AckBeforeSnapshot
