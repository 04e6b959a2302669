CONSTANTS
    Users = {u1, u2}
    Managers = {u1}
    Enrollers = {u1, u2}
    Keys = {k1}
    NoUser = NoUser
    NoKey = NoKey
    Machines = {m1}
    Copies = {p1}
    Occurrences = {pi}
    MaxReports = 1
    MaxTransactions = 1
SPECIFICATION Spec
INVARIANTS
    RemovalsDoNotFail
CHECK_DEADLOCK FALSE
