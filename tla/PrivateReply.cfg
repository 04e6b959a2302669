CONSTANTS
    Users = {u1, u2}
    Managers = {u1, u2}
    Enrollers = {u1, u2}
    Keys = {k1, k2}
    NoUser = NoUser
    NoKey = NoKey
    Machines = {m1, m2}
    NoMachine = NoMachine
    WorkIds = {w1, w2}
    NoWork = NoWork
    Sizes = {1, 2}
    NoCandidate = NoCandidate
    MaxContextMessages = 2
    MaxContextTextBytes = 3
    LeaseTicks = 1
    MaxMessages = 3
    MaxFence = 2
SYMMETRY Symmetry
SPECIFICATION Spec
INVARIANTS
    DelegatesOnce ClaimableContextIsValid
PROPERTIES
    RemovedMemberIsSilent ImplementsDialogue
CHECK_DEADLOCK FALSE
