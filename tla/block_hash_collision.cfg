\* Two rounds per height of the block shard, one timestamp value.
CONSTANTS
    DataShards = {1, 2}
    MaxHeight = 2
    MaxRound = 1
    t1 = t1
    t2 = t2
    TxBatches = {t1}
    Times = {0}
    ChanCap = 2
    GenesisHash = GenesisHash
    None = None
    Self = Self
    Peer = Peer
    MaxCatchups = 0
    ByzantinePeers = FALSE
    StorageMayFail = FALSE
    BlockPeers = FALSE
    MaxRestarts = 0
INIT Init
NEXT Next
INVARIANTS
    BlockIsDecidedProposal
