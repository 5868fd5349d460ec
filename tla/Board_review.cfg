SPECIFICATION Spec
CONSTANTS
    a1 = a1
    a2 = a2
    a3 = a3
    t1 = t1
    t2 = t2
    NoAgent = NoAgent
    Agents = {a1, a2, a3}
    Created <- OneTicket
    Queue <- OneTicket
    Principal <- SharedPrincipal
    Admins = {a3}
    Coordinators = {}
    Workers = {a1, a2}
    Reviewers = {a2, a3}
    Explicit = {a1, a2, a3}
    Managed = {}
    Strict = TRUE
    Fallback = 1
    CreatedBy <- CreatedByThird
    Pins = {NoAgent}
    Firsts <- SameFirst
    Ops = {"create", "claim", "unclaim", "submit", "renew", "cancel", "human", "review_claim", "review", "reap", "lapse", "reaper"}
PROPERTIES
    ImplementsTicketLease
