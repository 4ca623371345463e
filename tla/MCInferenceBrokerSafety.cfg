SPECIFICATION Spec
CONSTANTS
    Tasks = {t1, t2}
    Brokers = {b1, b2}
    Unit = {}
    Months = 2
    MaxTurns = 2
    TurnReserve = 1
    TaskBudget = 2
    MonthBudget = 1
    Retention = 2
    None = None
SYMMETRY Symmetry
INVARIANTS
    TypeOK
    BudgetsHold
    LiveSessionIsReserved
    CompleteIsAccounted
    EndIsHeard
PROPERTY ImplementsAccount
