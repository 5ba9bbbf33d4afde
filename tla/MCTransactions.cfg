SPECIFICATION Spec
CONSTANTS
    a1 = a1
    a2 = a2
    d1 = d1
    d2 = d2
    NoAddr = NoAddr
    BadIp = BadIp
    Unbound = Unbound
    Addrs = {a1, a2}
    Devices = {d1}
    Targets <- GoodAndBadAddress
    IAmSources <- DeviceMoves
    CrowdedNetwork = TRUE
    IdMax = 2
    MaxLag = 1
    ReplyKinds = {"ack"}
    ProbeKinds = {"ack"}
    MayDuplicate = TRUE
    Reachability = {FALSE}
    OfflineThreshold = 2
    TimeoutCap = 2
INVARIANTS
    TypeOK
    IInv
    SlotNeverLeaks
PROPERTIES
    LateAnswersAreIgnored
