CONSTANTS
    Modes = {"list", "download", "upload", "resumetest"}
    Establish = {"active", "passive"}
    TlsSet = {FALSE, TRUE}
    CoopSet = {FALSE, TRUE}
    CapInit = {"unknown", "yes", "no"}
    NChunks = 3
    BufCap = 2
    MaxStalls = 2

SPECIFICATION Spec

INVARIANT TypeOK
INVARIANT ResumptionPolicy
 
INVARIANT SuccessMeansComplete
INVARIANT RetryBound
INVARIANT NoNullLayerAccess
PROPERTY Termination
