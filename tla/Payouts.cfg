\* Two nodes that may each be paid twice, one fault of any kind.
CONSTANTS
    n1 = n1
    n2 = n2
    Nodes = {n1, n2}
    NoNode = NoNode
    Msat = 2
    MinThreshold = 1
    Thresholds = {0, 1, 2}
    MaxPerHour = 2
    Hour = 1
    MaxEarned = 6
    Gains = {3}
    Faults = {"ambiguous", "db", "crash"}
    MaxFaults = 1
SPECIFICATION FairSpec
INVARIANTS
    PayoutsInv
    NoPhantomPayout
    RecordedWithinEarned
    AskedWithinEarned
    HourCap
PROPERTIES
    ImplementsPayoutLedger
    DueIsPaid
