SPECIFICATION Spec
CONSTANTS
    Leads = {l1}
    NoLead = NoLead
    r1 = r1
    r2 = r2
    r3 = r3
    Requests <- AllRequests
    Owners <- TwoOwners
    Amounts = {1, 2}
    MaxQuotes = 2
    MaxJobs = 2
    MaxProjects = 1
    MaxEdits = 2
SYMMETRY OwnerSymmetry
INVARIANTS
    TypeOK
    JobMeansAccepted
    OwnersRetrySafely
    CreatedOnce
    AuditedOnce
PROPERTY PricedAsAccepted
CHECK_DEADLOCK FALSE
