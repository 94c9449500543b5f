CONSTANTS
    Resolvers = {"r1", "r2"}
    Families = {"v4", "v6"}
    HopCounts = {0, 5, 6}
    SpecHops = 5
    MaxCalls = 1
    Ends = {"badloc", "neterr", "v4", "[v6]"}
SPECIFICATION Spec
INVARIANT TypeOK
INVARIANT ResolutionMatchesServer
PROPERTY WaitAnswered
