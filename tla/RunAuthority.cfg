CONSTANTS
    Users = {u1}
    Managers = {u1}
    Enrollers = {u1}
    Keys = {k1, k2}
    NoUser = NoUser
    NoKey = NoKey
    Machines = {m1, m2}
    WorkIds = {w1}
    RunIds = {r1, r2, r3}
    AttemptIds = {a1, a2, a3}
    NoAttempt = NoAttempt
    Sizes = {1}
    MaxInputMessages = 1
    MaxInputTextBytes = 2
    LeaseTicks = 2
    MaxHead = 2
SYMMETRY Symmetry
SPECIFICATION Spec
INVARIANTS
    SingleWriter HolderIsCurrent
PROPERTIES
    NothingAppliedWithoutRetry ImplementsProgress
CHECK_DEADLOCK FALSE
