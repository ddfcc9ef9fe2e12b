CONSTANTS
    Lcores = {0, 1}
    Master = 0
    MaxLcore = 2
    PortSets <- MCPortSets
    MAX_PORTS = 2
    WaitCounter = 2
    BondIp = "bond-ip"
    BondMac = "bond-mac"
    Peers = {"ip"}
    Broadcast = "ones"
    Zero = "zero"
    None = None
    Behind = {"WAIT", "RUNNING"}
    Packets <- MCArriving
    MaxBurst = 2
    MaxPackets = 2
    MaxCommands = 2
SPECIFICATION Spec
INVARIANT CountersNeverAhead
INVARIANT ExactUnlessContended
INVARIANT SlavesAreThePorts
INVARIANT OwnQueue
INVARIANT AnswerReturns
PROPERTY StopIsSeen
CHECK_DEADLOCK FALSE
