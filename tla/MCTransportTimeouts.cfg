SPECIFICATION Spec
CONSTANTS
    a1 = a1
    a2 = a2
    a3 = a3
    a4 = a4
    ip1 = ip1
    ip2 = ip2
    ip3 = ip3
    n0 = n0
    n1 = n1
    None = None
    Addr = {a1, a2, a3, a4}
    IP = {ip1, ip2, ip3}
    IpOf <- MCIpOf
    MaxPeers = 4
    MaxPeersPerIp = 4
    ConnectTimes = {1}
    ConnectionNumbers = {n0}
    Timeout = 2
    MaxIdle = 6
    MaxGeneration = 3
    MaxPollPackets = 1
    MaxPollScans = 2
    MaxPollTimeouts = 1
    MaxPollCleanups = 1
INVARIANTS
    SilentPeerDropped
