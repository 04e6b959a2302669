CONSTANTS
    Users = {u1, u2}
    Managers = {u1}
    Enrollers = {u1, u2}
    Keys = {k1}
    NoUser = NoUser
    NoKey = NoKey
    RequestIds = {r1, r2}
    MachineIds = {m1, m2}
    NoMachine = NoMachine
    Sources = {s1}
    MaxLiveForSource = 1
    MaxLive = 2
    Lifetime = 2
    ReplayLifetime = 2
    InitialInterval = 1
    IntervalStep = 1
    MaxInterval = 2
    NoRequest = NoRequest
    MaxFaults = 2
SPECIFICATION FairSpec
INVARIANTS
    KeyIsKept RevocationIsConfirmed OneMachinePerRequest
PROPERTIES
    RevocationIsFinal ImplementsGrant PendingSettles
