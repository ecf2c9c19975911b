SPECIFICATION Spec
CONSTANTS
    a1 = a1
    a2 = a2
    a3 = a3
    a4 = a4
    ip1 = ip1
    ip2 = ip2
    ip3 = ip3
    n0 = n0
    n1 = n1
    None = None
    Addr = {a1, a2, a3, a4}
    IP = {ip1, ip2, ip3}
    IpOf <- MCIpOf
    MaxPeers = 2
    MaxPeersPerIp = 1
    ConnectTimes = {1, 2}
    ConnectionNumbers = {n0, n1}
    Timeout = 2
    MaxIdle = 4
    MaxGeneration = 3
    MaxPollPackets = 2
    MaxPollScans = 2
    MaxPollTimeouts = 1
    MaxPollCleanups = 1
SYMMETRY MCSymmetry
INVARIANTS
    SlotsMatchPeers
    FreeQueueExact
    PeerLimits
    BatchKeepsIds
    CallerAgrees
    WatermarksQueued
    NoDueWatermarkLeft
PROPERTIES
    ImplementsPool
    ConnectTimeMonotone
