SPECIFICATION FairSpec
CONSTANTS
    Periods = 2
    Parts = 2
    Commands <- SomeCommands
    Deactivable <- SomeDeactivable
    Troubles = {"none", "late", "split"}
INVARIANTS SessionSound TotalsDelivered AcknowledgedRuns
PROPERTIES CommandOnce  SequenceEnds
