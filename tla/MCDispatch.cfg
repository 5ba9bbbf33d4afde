SPECIFICATION Spec
CONSTANTS
    poller = poller
    writer = writer
    web = web
    h1 = h1
    h2 = h2
    h3 = h3
    NoHandle = NoHandle
    NoRequest = NoRequest
    Tasks = {poller, writer, web}
    Ops <- WebDiscovers
    Handles = {h1, h2, h3}
    Impatient = {poller, writer, web}
    HighDepth = 1
    NormalDepth = 1
    OfflineThreshold = 2
    TimeoutCap = 2
SYMMETRY HandlePermutations
INVARIANTS
    TypeOK
    NoCallIsLost
    SemaphoresAreAccountedFor
    HighOvertakenAtMostOnce
