SPECIFICATION FairSpec
CONSTANTS
    Jobs = {j1}
    Tool = Tool
    WithTool = FALSE
    PowerMayFail = FALSE
    NumSources = 2
    MaxVersion = 2
    MaxStarts = 2
INVARIANTS EtagVouchesForFile LookupsUseFiles
PROPERTY UpdatesArrive
CHECK_DEADLOCK FALSE
