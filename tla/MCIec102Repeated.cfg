SPECIFICATION Spec
CONSTANTS
    Periods = 2
    Parts = 2
    Commands <- OnlyRange
    Deactivable <- NoDeactivable
    Troubles = {"late"}
INVARIANT DataInOrder
