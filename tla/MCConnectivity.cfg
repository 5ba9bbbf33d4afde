SPECIFICATION FairSpec
CHECK_DEADLOCK FALSE
CONSTANTS
    STA_MAX_RETRIES = 1
    MaxEvents = 2
    MaxFaults = 1
    Watchers = {w1}
    MaxClients = 2
    WebActions = {"config", "switch", "wizard"}
    MaxWebActions = 2
INVARIANTS
    TypeOK
    ReconnectIsArmed
    OutageIsTimed
    StationInv
PROPERTIES
    StationComesBack
    MqttComesBack
