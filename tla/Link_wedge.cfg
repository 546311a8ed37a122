SPECIFICATION Spec
CONSTANTS
    p1 = p1  p2 = p2  c1 = c1  c2 = c2
    Peers = {p1}
    MaxLinks = 1
    PeerOf <- OnePeerOf
    Inbound = {}
    Stream <- OneStream
    Clients = {c1, c2}
    QueueSize = 1
    Nobody = Nobody
CHECK_DEADLOCK FALSE
INVARIANTS SendNeverBlocks
