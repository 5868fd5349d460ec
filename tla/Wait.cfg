SPECIFICATION FairSpec
CONSTANTS
    MaxEvents = 2
    PageSize = 1
    MaxFaults = 2
INVARIANTS TypeOK SkippedOnlyInFlight ReturnedOnce
PROPERTIES OffersSurface NotesArrive
