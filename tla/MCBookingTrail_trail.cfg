SPECIFICATION Spec
CONSTANTS
    Appointments = {b1}
    Clients = {c1}
    Invoices = {i1}
    Entries = {w1}
    None = None
    Starts = {1, 2}
    Statuses = {"confirmed", "completed"}
    Requests = {r1, r2}
    MaxTx = 3
SYMMETRY RequestSymmetry
INVARIANTS
    TypeOK
    NamesForgotten
    MovesAddUp
PROPERTY LinksNeverCut
CHECK_DEADLOCK FALSE
