\* Two threads that wait at the same time, and room for all they send.
CONSTANTS
    t1 = t1
    t2 = t2
    m1 = m1
    m2 = m2
    m3 = m3
    m4 = m4
    Thread = {t1, t2}
    Mbuf = {m1, m2, m3, m4}
    NoMbuf = NoMbuf
    RingSize = 2
    Threshold = 1
    Burst = 1
    MaxBulk = 1
    MaxBusy = 0
    MaxRequest = 2
SPECIFICATION Spec
INVARIANT ReplyToSender
