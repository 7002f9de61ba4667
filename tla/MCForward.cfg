\* Two cores; the caches and the rings fill up, and clones fail.
CONSTANTS
    c1 = c1
    c2 = c2
    p1 = p1
    k1 = k1
    v1 = v1
    n1 = n1
    o1 = o1
    Core = {c1, c2}
    Phy = {p1}
    Client = {k1}
    Vhost = {v1}
    Kni = {n1}
    Other = {o1}
    NoPort = NoPort
    PortOf <- OnePort
    Mbuf = {m1, m2, m3}
    NoMbuf = NoMbuf
    Lists <- SomeLists
    Contents = 2
    Burst = 2
    CacheSize = 2
    RingSize <- Sizes
SPECIFICATION FairSpec
 
 
PROPERTY CacheDrains
PROPERTY TxDrains
