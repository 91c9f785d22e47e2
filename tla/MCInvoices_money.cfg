\* Two invoices, two requests that read before they write.
SPECIFICATION Spec
CONSTANTS
    i1 = i1
    i2 = i2
    Invoices = {i1, i2}
    Requests = {q1, q2}
    Totals = {0, 1, 2}
    Amounts = {1}
    MaxLists <- TwoAndNone
    MaxPayments = 2
    MaxNumber = 2
SYMMETRY RequestSymmetry
INVARIANTS TypeOK AmountIsItsLines StatusTellsThePayments NumbersGapless
PROPERTY KeepsTheLedger
