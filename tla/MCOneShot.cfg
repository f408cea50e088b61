CONSTANTS
    BYTE = 2
    SizeOfType <- MCSizes
    Inputs <- MCInputs
    Stack <- MCStack
    HEAP = HEAP
    WORD <- MCWord
    resString <- MCResString
    NUL = 0
    JUNK = 99
    EHSIZE = 1
    SHSIZE = 1
    Images <- MCImages
    Behind <- MCBehind
    ZERO = 100
SPECIFICATION OneShotSpec
INVARIANTS
    DecoderTypeOK
    ShowsTheBits
    OneElementBehind
    PatcherTypeOK
    OnlyRodataChanges
    RejectedUntouched
    SectionsPatched
    TestsPass
PROPERTY
    ShowsAllTypes
