\* A ring of three descriptors, two to a cache line; the indices wrap at 6, and
\* the mbuf pool is found empty up to twice.
CONSTANTS
    Size = 3
    IdxMod = 6
    Burst = 3
    Cacheline = 2
    MaxPosted = 6
    MaxFail = 2
SPECIFICATION FairSpec
INVARIANT DeliveredOnce
INVARIANT NoLostWakeup
PROPERTY EverythingTaken
PROPERTY GuestResumes
