CONSTANTS
    Users = {u1, u2}
    Managers = {u1, u2}
    Enrollers = {u1}
    Keys = {k1, k2}
    NoUser = NoUser
    NoKey = NoKey
    Machines = {m1}
    WorkIds = {w1}
    RunIds = {r1, r2}
    AttemptIds = {a1, a2}
    NoAttempt = NoAttempt
    Sizes = {1, 2}
    MaxInputMessages = 2
    MaxInputTextBytes = 2
    LeaseTicks = 1
    MaxHead = 3
SYMMETRY Symmetry
SPECIFICATION Spec
INVARIANTS
    InputAppliedOnce InputIsContiguous OpenWorkHasActiveOwner SpaceStaysGoverned
PROPERTIES
    AcceptedReviewCoversAllInput
CHECK_DEADLOCK FALSE
