SPECIFICATION FairSpec
CONSTANTS
    Questions = {q1}
    Humans = {h1}
    Butler = Butler
    NoOne = NoOne
    VetoLimit = 1
    FailureLimit = 1
    MaxAttempts = 2
    MaxControls = 2
    MaxFaults = 1
INVARIANTS TypeOK  AuditIsTrue
PROPERTIES StopsAreHonoured PlansSettle
CHECK_DEADLOCK FALSE
