CONSTANTS
    Name = {x, y, z}
    ZERO = ZERO
    MEM = 8
    SizeOf <- MCSizeOf
    MaxMembers = 3
SPECIFICATION Spec
SYMMETRY Names
INVARIANTS
    TypeOK
    UniqueNames
    ListFits
    ValuesIntact
    OneCopy
PROPERTY RemovalTakesItsBytes
