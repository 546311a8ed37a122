SPECIFICATION Spec
CONSTANTS
    p1 = p1  p2 = p2  c1 = c1  c2 = c2
    Peers = {p1, p2}
    MaxLinks = 2
    PeerOf <- OnePeerOf
    Inbound = {}
    Stream <- LossStream
    Clients = {c1}
    QueueSize = 2
    Nobody = Nobody
CHECK_DEADLOCK FALSE
INVARIANTS TypeOK UpIsRegistered BurstIsSubscribed BurstPrecedesEvents
