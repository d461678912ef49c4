\* Peers decide a height this node never saw the proposal of; catch-up allowed.
CONSTANTS
    DataShards = {1, 2}
    MaxHeight = 2
    MaxRound = 0
    t1 = t1
    t2 = t2
    TxBatches = {t1}
    Times = {0}
    ChanCap = 2
    GenesisHash = GenesisHash
    None = None
    Self = Self
    Peer = Peer
    MaxCatchups = 1
    ByzantinePeers = FALSE
    StorageMayFail = FALSE
    BlockPeers = FALSE
    MaxRestarts = 0
INIT Init
NEXT Next
INVARIANTS
    ShardLogGapless
