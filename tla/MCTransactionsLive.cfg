SPECIFICATION FairSpec
CONSTANTS
    a1 = a1
    a2 = a2
    d1 = d1
    d2 = d2
    NoAddr = NoAddr
    BadIp = BadIp
    Unbound = Unbound
    Addrs = {a1, a2}
    Devices = {d1}
    Targets <- OneTarget
    IAmSources <- NobodyAnnounces
    CrowdedNetwork = FALSE
    IdMax = 2
    MaxLag = 1
    ReplyKinds = {"ack", "error", "abort", "reject", "badAck", "undecodable"}
    ProbeKinds = {"ack"}
    MayDuplicate = FALSE
    Reachability = {TRUE, FALSE}
    OfflineThreshold = 3
    TimeoutCap = 3
INVARIANTS
    AnswerIsForThisRequest
    HealthMatchesTimeouts
PROPERTIES
    Recovery
    TransactionsAreAtomic
