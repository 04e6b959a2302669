SPECIFICATION LocksSpec
CONSTANTS
    Users = {1, 2}
    Emails = {1, 2}
    Accounts = {1}
    Transactions = {t1, t2, t3}
    NoOperation = NoOperation
SYMMETRY Symmetry
INVARIANTS
    OnlyRepliesAndAcceptancesDeadlock OnlyNewCodesDeadlock
