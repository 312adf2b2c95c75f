SPECIFICATION Spec
CONSTANTS
    Jobs = {j1, j2}
    Tool = Tool
    WithTool = TRUE
    PowerMayFail = TRUE
    NumSources = 1
    MaxVersion = 2
    MaxStarts = 1
SYMMETRY JobSymmetry
INVARIANTS TypeOK EtagVouchesForFile
CHECK_DEADLOCK FALSE
