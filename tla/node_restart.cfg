\* One data shard, heights 1..2, two rounds at each height, one transaction batch,
\* a channel of 1, one restart after which consensus starts again at height 1, and
\* puts that may fail: round timeouts, a later round decided, a full channel.
CONSTANTS
    DataShards = {1}
    MaxHeight = 2
    MaxRound = 1
    t1 = t1
    t2 = t2
    TxBatches = {t1}
    Times = {0}
    ChanCap = 1
    GenesisHash = GenesisHash
    None = None
    Self = Self
    Peer = Peer
    MaxCatchups = 0
    ByzantinePeers = FALSE
    StorageMayFail = TRUE
    BlockPeers = FALSE
    MaxRestarts = 1
INIT Init
NEXT Next
INVARIANTS
    TypeOK
    BlockChunksDecided
