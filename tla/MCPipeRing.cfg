CONSTANTS
    MAX_NODE = 5
    FileLines <- MCFileLines
SPECIFICATION Spec
INVARIANTS
    TypeOK
    OnePrinter
    TurnsInOrder
    EndOfPipeOnlyAfterKill
    FinishedJobNeverReturns
    PipesStayShort
    OnlyFarewellsUnread
PROPERTY ImplementsTurnTaking
