CONSTANTS
    MAX_NODE = 5
    FileLines <- MCFileLines
SPECIFICATION Spec
INVARIANT SignalHasReceiver
