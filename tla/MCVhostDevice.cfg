\* Two devices compete for one vport; two lcores; one renaming or remapping.
CONSTANTS
    d1 = d1
    d2 = d2
    n1 = n1
    n2 = n2
    c1 = c1
    c2 = c2
    Dev = {d1, d2}
    NoDev = NoDev
    NumVhost = 2
    Name = {n1, n2}
    Tap <- SameTap
    Lcore = {c1, c2}
    vswitchd_core = c1
    NumDevices = 2
    MaxBypass = 1
SPECIFICATION FairSpec
INVARIANT MappedWhileUsed
INVARIANT AttachedIsRunning
PROPERTY RemovalReturns
