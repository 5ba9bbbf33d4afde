SPECIFICATION Spec
CONSTANTS
    MaxRequests = 3
    MaxRestarts = 2
    MaxFaults = 1
\* when the bounds are used up and the window is closed, nothing is left to do
CHECK_DEADLOCK FALSE
INVARIANTS
    TypeOK
    TimedOutBootStaysClosed
    AwaitingEndsWithWindow
PROPERTIES
    PairedIsNotTimedOut
