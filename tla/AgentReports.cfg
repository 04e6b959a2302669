CONSTANTS
    Users = {u1, u2}
    Managers = {u1}
    Enrollers = {u1, u2}
    Keys = {k1}
    NoUser = NoUser
    NoKey = NoKey
    Machines = {m1}
    Copies = {p1, p2}
    Occurrences = {pi}
    MaxReports = 2
    MaxTransactions = 3
SYMMETRY Symmetry
SPECIFICATION Spec
INVARIANTS
    PresenceIsLastReport ActiveAgentsAreBacked
PROPERTIES
    NewestObservationWins
CHECK_DEADLOCK FALSE
