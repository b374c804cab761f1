SPECIFICATION Spec
CONSTANTS
    Word = 2
    LoReserve = 200
    Alphabet <- MCAlphabet
    UIntRange = 65536
    MaxGrowth = 512
    Absolute = {"/"}
    Provides <- MCProvides
    Cases <- MCCases
    PageSize = 8
    OtherPageSize = 16
    MaxRuns = 1
    WriteFails = FALSE
    Kinds = {"forced"}
CHECK_DEADLOCK FALSE
INVARIANT PathIsSet
