SPECIFICATION FairSpec
CONSTANTS
    p1 = p1  p2 = p2  c1 = c1  c2 = c2
    Peers = {p1}
    MaxLinks = 2
    PeerOf <- OnePeerOf
    Inbound = {}
    Stream <- OneStream
    Clients = {}
    QueueSize = 20
    Nobody = Nobody
CHECK_DEADLOCK FALSE
PROPERTIES ShutdownDrains
