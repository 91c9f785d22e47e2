\* Two appointments, two people sharing a chair: collisions between writers.
SPECIFICATION Spec
CONSTANTS
    cut = cut  chair = chair
    anna = anna  bob = bob  mia = mia  leo = leo
    NoResource = NoResource
    Appts = {a1, a2}
    Services = {cut}
    Places <- TwoPeopleOneChair
    Sessions = {mia}
    Role <- OwnerAlone
    PlacesFor <- CutAnywhere
    Lengths = {1}
    Duration <- CutTakesOne
    BufferChoices <- TightOrWide
    Starts = {1, 2}
    OpenStarts = {1, 2}
    AskedStatuses = {"confirmed"}
    Patches = {{"status", "place"}}
    MaxTime = 2
    DayLength = 2
    MinNotice = 1
    MaxHorizon = 1
    CancelDeadline = 1
    RescheduleDeadline = 1
    AutoConfirm = TRUE
SYMMETRY ApptSymmetry
INVARIANTS TypeOK NoDoubleBooking WindowMatchesRow
PROPERTY ImplementsCalendar
