\* Five files, four devices at a time: every gap in the numbers occurs.
CONSTANTS
    f1 = f1
    f2 = f2
    f3 = f3
    f4 = f4
    f5 = f5
    File = {f1, f2, f3, f4, f5}
    NumDevices = 4
    MaxReset = 1
SPECIFICATION ListSpec
INVARIANT FindsOwnDevice
INVARIANT CountAgrees
PROPERTY KeepsPromise
