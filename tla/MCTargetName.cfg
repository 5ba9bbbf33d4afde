SPECIFICATION TargetSpec
CONSTANTS
    Announcers = {dev1, dev2, dev3}
    None = None
    MaxDevices = 2
    MaxDevs = 2
    MaxAnnouncements = 2
    MaxChoices = 2
    MaxFaults = 1
\* when the bounds are used up nothing is left to do
CHECK_DEADLOCK FALSE
INVARIANTS
    NameIsOfTheTarget
