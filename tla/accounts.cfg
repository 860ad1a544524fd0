SPECIFICATION FairSpec
CONSTANTS
    r1 = r1
    r2 = r2
    r3 = r3
    r4 = r4
    Requests = {r1, r2, r3, r4}
    May <- MCMay
    Emails = {e1}
    Passwords = {p1, p2}
    None = None
    Lifetime = 1
    MaxClock = 1
    MaxRestarts = 1
INVARIANTS
    LogoutIsFinal
PROPERTIES
    LiveSessionsSurvive
    SignedInStays
    EveryRequestIsAnswered
CHECK_DEADLOCK FALSE
