CONSTANTS
    a = a
    b = b
    c1 = c1
    c2 = c2
    NoPath = NoPath
    MaxDepth = 2
    Segs <- MC_Segs
    Conns <- MC_Conns
    InitDirs <- MC_InitDirs
    Files <- MC_Files
    NoEnter <- MC_NoEnter
    NoCreate <- MC_NoCreate
    Phrases <- MC_Phrases
    SegPhrases <- MC_SegPhrases
    ExistsReplies <- MC_ExistsReplies
    CacheKnowsFiles = FALSE

SPECIFICATION Spec

INVARIANT OkMeansDirectory
