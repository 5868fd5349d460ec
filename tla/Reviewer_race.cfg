SPECIFICATION ReviewSpec
CONSTANTS
    Tickets = {t1}
    Agents = {w1, r1, h1}
    Workers = {w1}
    Reviewers = {r1}
    MaxRev = 2
    NoAgent = NoAgent
    NoTicket = NoTicket
    MayReview <- OwnPrincipals
    MaxFaults = 0
    MaxRestarts = 0
INVARIANT VerdictBound
CHECK_DEADLOCK FALSE
