\* Other validators in the block shard decide a block without this node; its
\* decide is a no-op, and its next proposal takes the parent from its own store.
CONSTANTS
    DataShards = {1}
    MaxHeight = 2
    MaxRound = 0
    t1 = t1
    t2 = t2
    TxBatches = {t1}
    Times = {0}
    ChanCap = 1
    GenesisHash = GenesisHash
    None = None
    Self = Self
    Peer = Peer
    MaxCatchups = 0
    ByzantinePeers = FALSE
    StorageMayFail = FALSE
    BlockPeers = TRUE
    MaxRestarts = 0
INIT Init
NEXT Next
INVARIANTS
    BlockChainLinked
