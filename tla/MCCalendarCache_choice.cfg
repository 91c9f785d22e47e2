\* One load, two calendars, one connect: a late save meets a new choice.
SPECIFICATION Spec
CONSTANTS
    Loads = {l1}
    Calendars = {work, home}
    Primary = work
    MaxConnects = 1
    MaxTime = 2
    BrowseTtl = 1
    CommitTtl = 0
    MaxStale = 1
    Backoff = 0
    ClaimLife = 1
    Retention = 1
INVARIANT CacheDescribesTheChoice
