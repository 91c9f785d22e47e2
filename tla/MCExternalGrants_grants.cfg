\* Two people, one connected before; one may be deactivated; one more link.
SPECIFICATION FairSpec
CONSTANTS
    s1 = s1
    s2 = s2
    a1 = a1
    a2 = a2
    Staff = {s1, s2}
    Accounts = {a1, a2}
    Unknown = Unknown
    Requests = {q1, q2}
    Cleaner = Cleaner
    Leavers = {s1}
    Before <- FirstBefore
    MaxLinks = 1
    MaxTokens <- TokensEach
INVARIANTS TypeOK LinksOpenOnce
PROPERTIES SettledKeepTheirGrant LeftBehindOnlyByMishap InactiveLoseTheirs
