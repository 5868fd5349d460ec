SPECIFICATION FairSeatSpec
CONSTANTS
    Tickets = {t1, t2}
    Agents = {w1, h1}
    Workers = {w1}
    Reviewers = {}
    NoAgent = NoAgent
    NoTicket = NoTicket
    MayReview <- OwnPrincipals
    MaxFaults = 2
    MaxRestarts = 1
INVARIANTS SeatTypeOK OneClaimPerWorker ReviewedIndependently
PROPERTIES UnsubmittedWorkKept ClaimsEnd NoTakeover LapsedIsLost
CHECK_DEADLOCK FALSE
