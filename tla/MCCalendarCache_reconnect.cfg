\* One load and a reconnect: the failure of the old token meets the new one.
SPECIFICATION Spec
CONSTANTS
    Loads = {l1}
    Calendars = {work}
    Primary = work
    MaxConnects = 2
    MaxTime = 2
    BrowseTtl = 1
    CommitTtl = 0
    MaxStale = 1
    Backoff = 0
    ClaimLife = 1
    Retention = 1
INVARIANT RevokedMeansWithdrawn
