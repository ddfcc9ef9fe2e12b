CONSTANTS
    Lcores = {0, 1}
    Master = 0
    MaxLcore = 2
    PortSets <- MCPortSets
    MAX_PORTS = 2
    WaitCounter = 2
    BondIp = "bond-ip"
    BondMac = "bond-mac"
    Peers = {"ip"}
    Broadcast = "ones"
    Zero = "zero"
    None = None
    Behind = {"WAIT"}
    Packets <- MCPackets
    MaxBurst = 2
    MaxPackets = 2
    MaxCommands = 0
SPECIFICATION Spec
INVARIANT ProcessedPacketsFreed
CHECK_DEADLOCK FALSE
