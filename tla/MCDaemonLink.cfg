\* Rings that run full, a pool that runs empty, and bulks of two packets.
CONSTANTS
    t1 = t1
    t2 = t2
    m1 = m1
    m2 = m2
    m3 = m3
    m4 = m4
    Thread = {t1, t2}
    Mbuf = {m1, m2, m3}
    NoMbuf = NoMbuf
    RingSize = 2
    Threshold = 2
    Burst = 1
    MaxBulk = 2
    MaxBusy = 1
    MaxRequest = 2
SPECIFICATION FairSpec
INVARIANT RepliesOwed
INVARIANT MbufsConserved
INVARIANT OwnReply
INVARIANT AllOrNothing
PROPERTY RequestServed
PROPERTY AllocLoopEnds
