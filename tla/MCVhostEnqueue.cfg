\* Two cores, a ring of two descriptors, indices modulo 4, one retry.
CONSTANTS
    Core = {c1, c2}
    Size = 2
    IdxMod = 4
    Burst = 2
    RetryNum = 1
    MaxPosted = 6
SPECIFICATION FairSpec
INVARIANT ReservedOnce
INVARIANT PublishedComplete
INVARIANT DescriptorsConserved
PROPERTY EnqueueReturns
