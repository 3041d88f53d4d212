\* Two accounts; two sign-ins and a sign-out may overlap, and the application
\* may be killed once.
CONSTANTS
    Emails = {e1, e2}
    Names = {n1}
    None = None
    Calls = {c1, c2}
    MaxEvents = 2
    MaxOuts = 1
    MaxStarts = 1
SPECIFICATION FairSpec
INVARIANTS
    HomeStays
    SuccessFreesScreen
PROPERTIES
    OwnerWrites
    HomeFollowsUser
\* Announcements under way are bounded: a call may wait for room.
CHECK_DEADLOCK FALSE
