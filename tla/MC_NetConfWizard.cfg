CONSTANTS
    Resolvers = {"wiz"}
    Families = {"v4", "v6"}
    HopCounts = {0, 1}
    SpecHops = 6
    MaxCalls = 1
    Ends = {"neterr", "v4", "v6"}
    Wiz = "wiz"
    MaxTests = 1
    MaxStalls = 1
    MaxQueue = 3
    TrustServer = TRUE
SPECIFICATION Spec
INVARIANT TypeOK
INVARIANT OneCommandOutstanding
PROPERTY TestEnds
