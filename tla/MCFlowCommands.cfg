\* A dump of flows that come and go; there are more keys than positions.
CONSTANTS
    k1 = k1
    k2 = k2
    k3 = k3
    Key = {k1, k2, k3}
    NoKey = NoKey
    MaxFlows = 3
    Bucket <- Overlapping
    Dump = {d1}
    MaxPackets = 1
SPECIFICATION FairSpec
INVARIANT DumpComplete
INVARIANT DumpOnce
INVARIANT CreatedIsThere
INVARIANT LastStats
PROPERTY DumpEnds
