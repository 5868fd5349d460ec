SPECIFICATION Spec
CONSTANTS
    a1 = a1
    a2 = a2
    a3 = a3
    t1 = t1
    t2 = t2
    NoAgent = NoAgent
    Agents = {a1, a2, a3}
    Created <- TwoTickets
    Queue <- Backwards
    Principal <- OwnPrincipals
    Admins = {a3}
    Coordinators = {a3}
    Workers = {a1, a2}
    Reviewers = {}
    Explicit = {a1, a2}
    Managed = {}
    Strict = TRUE
    Fallback = 2
    CreatedBy <- CreatedByThird
    Pins = {NoAgent, a1}
    Firsts <- SameFirst
    Ops = {"create", "claim", "due", "park", "assign", "lapse_offer", "reaper", "reap"}
INVARIANTS
    TypeOK
    OneJobPerSeat
    OffersGoToTheRightSeat
