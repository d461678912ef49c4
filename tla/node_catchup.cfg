\* One data shard, heights 1..2, one round, a channel of 1; other validators in the
\* block shard (peer proposals, decisions without this node) and one catch-up per proposer.
CONSTANTS
    DataShards = {1}
    MaxHeight = 2
    MaxRound = 0
    t1 = t1
    t2 = t2
    TxBatches = {t1}
    Times = {0}
    ChanCap = 1
    GenesisHash = GenesisHash
    None = None
    Self = Self
    Peer = Peer
    MaxCatchups = 1
    ByzantinePeers = FALSE
    StorageMayFail = FALSE
    BlockPeers = TRUE
    MaxRestarts = 0
INIT Init
NEXT Next
INVARIANTS
    ShardLogMatchesDecisions
    BlockChunksDecided
