\* A restart between two heights of a shard.
CONSTANTS
    DataShards = {1, 2}
    MaxHeight = 2
    MaxRound = 0
    t1 = t1
    t2 = t2
    TxBatches = {t1}
    Times = {0}
    ChanCap = 2
    GenesisHash = GenesisHash
    None = None
    Self = Self
    Peer = Peer
    MaxCatchups = 0
    ByzantinePeers = FALSE
    StorageMayFail = FALSE
    BlockPeers = FALSE
    MaxRestarts = 1
INIT Init
NEXT Next
INVARIANTS
    ChainLinked
