\* One data shard, heights 1..2, one round, one batch and one restart: the restart
\* may fall while decide of a block awaits the send on block_tx.
CONSTANTS
    DataShards = {1}
    MaxHeight = 2
    MaxRound = 0
    t1 = t1
    t2 = t2
    TxBatches = {t1}
    Times = {0}
    ChanCap = 1
    GenesisHash = GenesisHash
    None = None
    Self = Self
    Peer = Peer
    MaxCatchups = 0
    ByzantinePeers = FALSE
    StorageMayFail = FALSE
    BlockPeers = FALSE
    MaxRestarts = 1
INIT Init
NEXT Next
INVARIANT
    StoredBlocksDelivered
