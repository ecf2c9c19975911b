SPECIFICATION FairSpec
CONSTANTS
    Client = {a, b}
    Source = {s, t}
    HelloRetry = 1
    DefaultReconnect = 4
    MaxReconnect = 32
    HelloInterval = 1
    NewInterval = 4
    SourceInterval = 9
    MaxDelay = 1
    MaxFaults = 1
PROPERTIES
    Connected
