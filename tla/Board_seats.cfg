SPECIFICATION Spec
CONSTANTS
    a1 = a1
    a2 = a2
    a3 = a3
    t1 = t1
    t2 = t2
    NoAgent = NoAgent
    Agents = {a1, a2}
    Created <- TwoTickets
    Queue <- Backwards
    Principal <- OwnPrincipals
    Admins = {}
    Coordinators = {}
    Workers = {a1, a2}
    Reviewers = {}
    Explicit = {a1, a2}
    Managed = {a2}
    Strict = TRUE
    Fallback = 1
    CreatedBy <- CreatedByFirst
    Pins = {NoAgent}
    Firsts <- SameFirst
    Ops = {"create", "claim", "handoff", "join", "dark", "idle", "retire", "lapse_offer", "reaper", "readiness", "unready"}
INVARIANTS
    OfferCanBeTaken
PROPERTIES
    ReaperSettles
