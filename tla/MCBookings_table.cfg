\* One appointment, its client, an owner and a staff member: stale reads.
SPECIFICATION Spec
CONSTANTS
    cut = cut  chair = chair
    anna = anna  bob = bob  mia = mia  leo = leo
    NoResource = NoResource
    Appts = {a1}
    Services = {cut}
    Places <- OneChair
    Sessions = {mia, leo}
    Role <- OwnerAndStaff
    PlacesFor <- CutAnywhere
    Lengths = {1}
    Duration <- CutTakesOne
    BufferChoices <- Tight
    Starts = {1, 2}
    OpenStarts = {1, 2}
    AskedStatuses = {"pending", "confirmed", "checked_in", "completed", "no_show", "cancelled"}
    Patches = {{"status"}, {"status", "service", "start", "length", "place"}}
    MaxTime = 2
    DayLength = 2
    MinNotice = 1
    MaxHorizon = 1
    CancelDeadline = 1
    RescheduleDeadline = 1
    AutoConfirm = FALSE
PROPERTY TransitionsFollowTheTable
