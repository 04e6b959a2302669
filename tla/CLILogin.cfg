SPECIFICATION Spec
CONSTANTS
    Users = {u1, u2}
    Requests = {r1, r2}
    MaxLive = 1
    NoUser = NoUser
    NoRequest = NoRequest
INVARIANTS ReplacementIsSwap CredentialIsRecoverable
PROPERTIES ImplementsGrant LoginEnds
CHECK_DEADLOCK FALSE
