\* Every output of at most seven bytes in every chunking, against a cap of
\* four: lines shorter than, as long as and longer than the cap.
CONSTANTS
    Bytes = {"x", "s", "t", "n"}
    Newline = "n"
    Symbols = {"x", "s", "t", "n", "[", "]"}
    PatternLists = {"short", "long", "both", "lines", "anchored"}
    Redact <- MCRedact
    MaxOutput = 4
    ChunkMax = 3
    Limit = 7
SPECIFICATION Spec
INVARIANTS
    TypeOK
    RedactedThenCut
    MemoryBounded
    NothingLost
