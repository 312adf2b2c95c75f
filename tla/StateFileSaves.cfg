SPECIFICATION Spec
CONSTANTS
    Loop = Loop
    Handler = Handler
    Main = Main
    None = None
    RenameMayFail = FALSE
    ReadMayFail = FALSE
    MaxVersion = 3
    MaxStarts = 2
SYMMETRY SaverSymmetry
INVARIANTS TypeOK AcknowledgedKept
PROPERTY Implements
CHECK_DEADLOCK FALSE
