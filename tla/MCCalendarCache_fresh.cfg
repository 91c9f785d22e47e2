\* Two loads, one reconnect, three instants with time-outs of at most one.
SPECIFICATION Spec
CONSTANTS
    Loads = {l1, l2}
    Calendars = {work}
    Primary = work
    MaxConnects = 2
    MaxTime = 2
    BrowseTtl = 1
    CommitTtl = 0
    MaxStale = 1
    Backoff = 0
    ClaimLife = 1
    Retention = 1
SYMMETRY LoadSymmetry
INVARIANTS TypeOK CacheNoOlderThanItSays AnswersAreRecent WithdrawalBlocks
PROPERTIES OnlyLateSavesMixChoices OnlyLateFailuresRevoke
