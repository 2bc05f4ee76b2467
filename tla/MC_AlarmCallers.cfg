CONSTANTS
    a = a
    b = b
    reader = reader
    poll = poll
    Contents <- MCContents
    Callers <- MCCallers
    RepeatWindow = 2
    MaxPerWindow = 2
    Steps = {1, 2}
    MaxTime = 4
SPECIFICATION CSpec
SYMMETRY CallerSymmetry
INVARIANTS RepeatBounded RememberedWasSent
