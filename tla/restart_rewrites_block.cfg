\* One data shard and one restart: after it block consensus runs height 1 again.
CONSTANTS
    DataShards = {1}
    MaxHeight = 2
    MaxRound = 0
    t1 = t1
    t2 = t2
    TxBatches = {t1}
    Times = {0}
    ChanCap = 1
    GenesisHash = GenesisHash
    None = None
    Self = Self
    Peer = Peer
    MaxCatchups = 0
    ByzantinePeers = FALSE
    StorageMayFail = FALSE
    BlockPeers = FALSE
    MaxRestarts = 1
INIT Init
NEXT Next
PROPERTY
    BlockWriteOnce
