\* Liveness under the fairness of Spec: two shards, heights 1..2, one round,
\* no restart and no catch-up (both bounded actions that are not fair); the
\* node is also checked to implement AbstractChain.
CONSTANTS
    DataShards = {1, 2}
    MaxHeight = 2
    MaxRound = 0
    t1 = t1
    t2 = t2
    TxBatches = {t1}
    Times = {0}
    ChanCap = 2
    GenesisHash = GenesisHash
    None = None
    Self = Self
    Peer = Peer
    MaxCatchups = 0
    ByzantinePeers = FALSE
    StorageMayFail = FALSE
    BlockPeers = FALSE
    MaxRestarts = 0
SPECIFICATION Spec
PROPERTIES
    AllBlocksDecided
    ChainRefinement
