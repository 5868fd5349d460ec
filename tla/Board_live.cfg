SPECIFICATION FairSpec
CONSTANTS
    a1 = a1
    a2 = a2
    a3 = a3
    t1 = t1
    t2 = t2
    NoAgent = NoAgent
    Agents = {a1, a2, a3}
    Created <- OneTicket
    Queue <- OneTicket
    Principal <- OwnPrincipals
    Admins = {}
    Coordinators = {}
    Workers = {a1, a2}
    Reviewers = {a1, a2, a3}
    Explicit = {a1, a2, a3}
    Managed = {}
    Strict = TRUE
    Fallback = 2
    CreatedBy <- CreatedByThird
    Pins = {NoAgent}
    Firsts <- SameFirst
    Ops = {"create", "claim", "submit", "review_claim", "lapse", "lapse_offer", "due", "heartbeat", "reaper"}
PROPERTIES
    LapsedLeasesEnd
    UnansweredFallsBack
