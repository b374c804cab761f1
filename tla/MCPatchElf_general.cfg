SPECIFICATION Spec
CONSTANTS
    Word = 2
    LoReserve = 200
    Alphabet <- MCAlphabet
    UIntRange = 65536
    MaxGrowth = 512
    Absolute = {"/"}
    Provides <- MCProvides
    Cases <- MCCases
    PageSize = 8
    OtherPageSize = 16
    MaxRuns = 2
    WriteFails = TRUE
    Kinds = {"exec", "early", "wide", "lib", "big", "pie", "shared", "both", "print", "cut", "object"}
CHECK_DEADLOCK FALSE
INVARIANT TypeOK
INVARIANT Loadable
INVARIANT HeadersInMemory
INVARIANT NothingOverlaps
INVARIANT NoAssertFails
INVARIANT PrintedIsSeen
INVARIANT ReferencesKept
INVARIANT StaysWellFormed
PROPERTY Implements
PROPERTY IdleRunKeepsFile
