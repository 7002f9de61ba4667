\* Two cores; the ring fills up, and the socket is larger than what is ever
\* in it.
CONSTANTS
    c1 = c1
    c2 = c2
    Core = {c1, c2}
    RingSize = 4
    SockSize = 6
SPECIFICATION FairSpec
INVARIANT SignalsBounded
PROPERTY SleeperIsWoken
