\* Two positions, two keys in one bucket, two cores.
CONSTANTS
    Key = {k1, k2}
    Action = {a1, a2}
    Core = {c1, c2}
    MaxFlows = 2
    Bucket <- MCBucket
    MaxPackets = 2
    NoKey = NoKey
    NoActions = NoActions
SPECIFICATION FairSpec
INVARIANT TableConsistent
INVARIANT NoPhantomPackets
INVARIANT SwitchedByOwnFlow
PROPERTY ImplementsFlowMap
PROPERTY CallsReturn
