SPECIFICATION ServerSpec
CONSTANTS
    Short = 4
    Base = 4
    Scripts <- MCScripts
    CutWrites = FALSE
    MayClose = FALSE
    Requests <- MCRequests
    MaxRequests = 3
INVARIANTS
    ServerTypeOK
    
 
CHECK_DEADLOCK FALSE
