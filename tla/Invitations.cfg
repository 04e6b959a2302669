SPECIFICATION Spec
CONSTANTS
    Users = {u1, u2, u3}
    Managers = {}
    Enrollers = {}
    Keys = {k1}
    NoUser = NoUser
    NoKey = NoKey
    Emails = {e1}
    Invitations = {i1, i2}
    Submissions = {s1, s2}
    Handlers = {h1, h2}
    NoEmail = NoEmail
    NoInvitation = NoInvitation
    NoSubmission = NoSubmission
SYMMETRY Symmetry
INVARIANTS AuthorityIsHandedDown
PROPERTIES RemovedMemberStaysOut InvitationEndsOnce DeliveryRecordIsFinal
