\* One data shard whose storage writes may fail.
CONSTANTS
    DataShards = {1}
    MaxHeight = 2
    MaxRound = 0
    t1 = t1
    t2 = t2
    TxBatches = {t1}
    Times = {0}
    ChanCap = 1
    GenesisHash = GenesisHash
    None = None
    Self = Self
    Peer = Peer
    MaxCatchups = 0
    ByzantinePeers = FALSE
    StorageMayFail = TRUE
    BlockPeers = FALSE
    MaxRestarts = 0
INIT Init
NEXT Next
INVARIANT
    DecidedChunksStored
