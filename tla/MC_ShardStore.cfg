\* Block numbers straddle the 1-byte boundary (255/256) and the 2-byte
\* boundary (65535/65536); a page of 2 forces scans of three pages.
CONSTANTS
    BlockNumbers = {1, 255, 256, 65535, 65536}
    Payloads = {p1, p2}
    RootPrefixShard = 9
    PageSize = 2
    None = None
INIT Init
NEXT Next
INVARIANTS
    TypeOK
    LastChunkIsHighest
    PagedScanMatchesRange
