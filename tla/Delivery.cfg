SPECIFICATION Spec
CONSTANTS
    Tickets = {t1, t2}
    Policies = {"frozen", "rolling", "branch_only"}
    None = None
    MaxBatches = 2
    MaxEdits = 1
    MaxPrs <- OneOrTwo
INVARIANTS TypeOK LedgerIsTrue ManifestIsTrue
PROPERTIES SnapshotsNeverMove
SYMMETRY AnyTicket
CHECK_DEADLOCK FALSE
