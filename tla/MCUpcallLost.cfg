\* One core.
CONSTANTS
    c1 = c1
    c2 = c2
    Core = {c1}
    RingSize = 2
    SockSize = 2
SPECIFICATION FairSpec
PROPERTY PacketIsRead
