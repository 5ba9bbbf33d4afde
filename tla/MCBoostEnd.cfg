\* MQTT was not chosen at boot: there is no state task
SPECIFICATION FairSpec
CONSTANTS
    Users = {u1}
    HasStateTask = FALSE
    MaxEvents = 2
CHECK_DEADLOCK FALSE
PROPERTIES
    SelfBoostEnds
