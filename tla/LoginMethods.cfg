CONSTANTS
    Users = {u1, u2}
    Emails = {e1}
    GoogleAccounts = {g1}
    GitHubAccounts = {h1}
    Sessions = {s1, s2, s3, s4}
    Challenges = {c1, c2}
    Transactions = {t1, t2}
    MaxAttempts = 2
    MaxProofs = 3
    NoUser = NoUser
    NoSession = NoSession
    NoProof = NoProof
SYMMETRY Symmetry
SPECIFICATION Spec
INVARIANTS
    EveryUserCanLogIn SessionProofIsLinked ProofIsUsedOnce OneUsableCode
PROPERTIES
    EndedSessionHasNoSuccessor
CHECK_DEADLOCK FALSE
