CONSTANTS
    Users = {u1}
    Managers = {u1}
    Enrollers = {u1}
    Keys = {k1}
    NoUser = NoUser
    NoKey = NoKey
    Machines = {m1}
    WorkIds = {w1}
    RunIds = {r1, r2}
    AttemptIds = {a1, a2, a3}
    NoAttempt = NoAttempt
    Sizes = {1}
    MaxInputMessages = 1
    MaxInputTextBytes = 2
    LeaseTicks = 2
    MaxHead = 1
    MaxFaults = 1
SPECIFICATION HostSpec
PROPERTIES
    InputIsHandled
CHECK_DEADLOCK FALSE
