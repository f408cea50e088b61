CONSTANTS
    Name = {x, y, z}
    ZERO = ZERO
    MEM = 8
    SizeOf <- MCSizeOf
    MaxMembers = 3
SPECIFICATION Spec
SYMMETRY Names
INVARIANT ReportedBytesAreFree
