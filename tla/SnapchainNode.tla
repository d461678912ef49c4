---------------------------- MODULE SnapchainNode ----------------------------
(***************************************************************************)
(* One node (src/src/node/snapchain_node.rs): a ShardProposer and a        *)
(* consensus task for every configured data shard, one BlockProposer and   *)
(* consensus task for the block shard, and the single bounded channel of   *)
(* capacity ChanCap (100 in SnapchainNode::create) that carries every      *)
(* decided shard chunk from all shard proposers to the block proposer.     *)
(*                                                                         *)
(* A restart of the process keeps the stores (RocksDB) and loses every     *)
(* in-memory structure: proposer tables, `chunks`, `pending_chunks`, the   *)
(* channel and a decide or catch-up in progress.  Consensus starts again   *)
(* at height 1 (snapchain_node.rs 73-74 and 136-137).                      *)
(***************************************************************************)
EXTENDS SnapchainTypes

CONSTANTS
    MaxCatchups,
    ByzantinePeers,
    StorageMayFail,
    BlockPeers,
    MaxRestarts      \* bound on process restarts

VARIABLES
    shardStore, chunks, proposedChunks, deciding, catchup, catchups, chan, netChain, shardCons,
    pendingChunks, proposedBlocks, blockStore, collecting, publishing, blockCons, blockLog, decidedBlocks,
    blockStream, blockCatchups,
    restarts         \* number of restarts so far

SP == INSTANCE ShardProposer
BP == INSTANCE BlockProposer

shardOnly == <<shardStore, chunks, proposedChunks, deciding, catchup, catchups, netChain, shardCons>>
blockOnly == <<pendingChunks, proposedBlocks, blockStore, collecting, publishing, blockCons, blockLog,
              decidedBlocks, blockStream, blockCatchups>>
vars == <<shardOnly, blockOnly, chan, restarts>>

Init ==
    /\ SP!ShardInit
    /\ BP!BlockInit
    /\ restarts = 0

ShardStep(s) ==
    /\ \/ SP!ProposeValue(s)
       \/ SP!AddProposedValue(s)
       \/ SP!DecideSend(s)
       \/ SP!DecideCommit(s)
       \/ SP!DecideCommitFailed(s)
       \/ SP!DecideUnknown(s)
       \/ SP!RegisterValidator(s)
       \/ SP!CatchupPublish(s)
       \/ SP!RoundTimeout(s)
       \/ SP!NetworkDecide(s)
    /\ UNCHANGED <<blockOnly, restarts>>

BlockStep ==
    /\ \/ BP!BeginProposeValue
       \/ BP!CollectTick
       \/ BP!CollectTimeout
       \/ BP!Decide
       \/ BP!DecidePublish
       \/ BP!BlockDecideUnknown
       \/ BP!BlockAddProposedValue
       \/ BP!BlockRegisterValidator
       \/ BP!BlockRoundTimeout
       \/ BP!NetworkBlockDecide
    /\ UNCHANGED <<shardOnly, restarts>>

(* The process stops and SnapchainNode::create runs again over the same    *)
(* stores.  create gives every consensus actor start_height (shard, 1)     *)
(* whatever the stores hold, so consensus starts again at height 1.        *)
Restart ==
    /\ restarts < MaxRestarts
    /\ restarts' = restarts + 1
    /\ chunks' = [s \in DataShards |-> <<>>]
    /\ proposedChunks' = [s \in DataShards |-> [k \in {} |-> None]]
    /\ deciding' = [s \in DataShards |-> None]
    /\ catchup' = [s \in DataShards |-> <<>>]
    /\ chan' = <<>>
    /\ shardCons' = [s \in DataShards |-> [height |-> 1, round |-> 0, proposed |-> FALSE]]
    /\ pendingChunks' = [n \in Heights |-> <<>>]
    /\ proposedBlocks' = [k \in {} |-> None]
    /\ collecting' = FALSE
    /\ publishing' = None
    /\ blockCons' = [height |-> 1, round |-> 0, proposed |-> FALSE]
    /\ blockLog' = [k \in {} |-> None]
    /\ UNCHANGED <<shardStore, catchups, netChain, blockStore, decidedBlocks, blockStream,
                   blockCatchups>>

(* The block shard has decided every modelled height: the model stops. *)
Done ==
    /\ blockCons.height > MaxHeight
    /\ UNCHANGED vars

Next ==
    \/ \E s \in DataShards : ShardStep(s)
    \/ BlockStep
    \/ Restart
    \/ Done

(* Consensus keeps proposing and deciding (an assumption on the BFT layer),*)
(* an awaited send completes once there is room, and the collection        *)
(* deadline expires: the code arms it with sleep_until on every call.      *)
Fairness ==
    /\ \A s \in DataShards :
          /\ WF_vars(SP!ProposeValue(s) /\ UNCHANGED <<blockOnly, restarts>>)
          /\ WF_vars(SP!DecideSend(s) /\ UNCHANGED <<blockOnly, restarts>>)
          /\ WF_vars(SP!DecideCommit(s) /\ UNCHANGED <<blockOnly, restarts>>)
          /\ WF_vars(SP!DecideUnknown(s) /\ UNCHANGED <<blockOnly, restarts>>)
          /\ WF_vars(SP!CatchupPublish(s) /\ UNCHANGED <<blockOnly, restarts>>)
    /\ WF_vars(BP!BeginProposeValue /\ UNCHANGED <<shardOnly, restarts>>)
    /\ WF_vars(BP!CollectTick /\ UNCHANGED <<shardOnly, restarts>>)
    /\ WF_vars(BP!CollectTimeout /\ UNCHANGED <<shardOnly, restarts>>)
    /\ WF_vars(BP!Decide /\ UNCHANGED <<shardOnly, restarts>>)
    /\ WF_vars(BP!DecidePublish /\ UNCHANGED <<shardOnly, restarts>>)
    /\ WF_vars(BP!BlockDecideUnknown /\ UNCHANGED <<shardOnly, restarts>>)

Spec == Init /\ [][Next]_vars /\ Fairness

-----------------------------------------------------------------------------
(* Properties *)

TypeOK ==
    /\ \A s \in DataShards :
          /\ DOMAIN shardStore[s] \subseteq Heights
          /\ Len(chunks[s]) <= MaxHeight
          /\ shardCons[s].height \in 1..MaxHeight + 1
          /\ shardCons[s].round \in Rounds
          /\ Len(netChain[s]) <= MaxHeight
    /\ Len(chan) <= ChanCap
    /\ DOMAIN pendingChunks = Heights
    /\ DOMAIN blockStore \subseteq Heights
    /\ blockCons.height \in 1..MaxHeight + 1
    /\ collecting \in BOOLEAN
    /\ publishing = None \/ publishing.header.height[2] \in Heights
    /\ blockCatchups \in 0..MaxCatchups
    /\ restarts \in 0..MaxRestarts

(* The log of every shard agrees with what consensus decided: a chunk      *)
(* stored at block number n is the value decided at n (spec.md 8.1).  It   *)
(* rests on decide committing the proposal recorded under the decided     *)
(* hash, with catch-up, peer proposals and decides of unknown values.   *)
ShardLogMatchesDecisions ==
    \A s \in DataShards : \A n \in DOMAIN shardStore[s] :
        n <= Len(netChain[s]) /\ shardStore[s][n] = netChain[s][n]

(* Every chunk of a committed block of height n is the chunk its shard     *)
(* decided at block number n (spec.md 8.5: the block is a cross-shard      *)
(* snapshot of height n).  Chunks reach the block proposer through the     *)
(* channel from live decisions and from catch-up, of several heights, in   *)
(* any order, and are indexed by their own block number.  Across a       *)
(* restart it assumes peers in the data shard that pin the value decided  *)
(* at a re-run height (ShardProposer.DecidedKeys).                         *)
BlockChunksDecided ==
    \A n \in DOMAIN blockStore : \A i \in DOMAIN blockStore[n].shard_chunks :
        LET c == blockStore[n].shard_chunks[i]
        IN  /\ BlockNumberOf(c) = n
            /\ n <= Len(netChain[ShardOf(c)])
            /\ c = netChain[ShardOf(c)][n]

(* Every height of the block shard is eventually decided: the collection   *)
(* deadline ends a propose_value even when a shard never delivers its      *)
(* chunk (spec.md 4.3 step 5).                                             *)
AllBlocksDecided == <>(blockCons.height > MaxHeight)

(* Each decided chunk names the chunk decided before it as parent          *)
(* (spec.md 8.2: parent_hash(chunk_h) = hash(header_(h-1)) for h >= 2).    *)
(* propose_value reads the parent from the in-memory `chunks`, which a     *)
(* restart empties, and the other validators validate the root only.       *)
ChainLinked ==
    \A s \in DataShards : \A n \in 2..Len(netChain[s]) :
        netChain[s][n].header.parent_hash = ChunkHash(netChain[s][n - 1])

(* The local log of a shard has no holes: every block number up to the    *)
(* confirmed height is stored (spec.md 4.2: a decide for a value this node *)
(* never saw is a no-op and catch-up repairs it).                          *)
ShardLogGapless ==
    \A s \in DataShards : DOMAIN shardStore[s] = 1..SP!ConfirmedHeight(s)

(* A block holds at most one chunk of each data shard (spec.md 3: the      *)
(* chunks decided at its height across data shards).  Catch-up publishes  *)
(* on the same channel as decide (the TODO at proposer.rs 269).           *)
BlockShardsDistinct ==
    \A n \in DOMAIN blockStore :
        \A i, j \in DOMAIN blockStore[n].shard_chunks :
            i # j => ShardOf(blockStore[n].shard_chunks[i]) # ShardOf(blockStore[n].shard_chunks[j])

(* The block committed at a height is the block consensus decided there:   *)
(* decide looks the proposal up by its ShardHash, which must identify it   *)
(* (spec.md 3, FullProposal).                                              *)
BlockIsDecidedProposal ==
    \A n \in DOMAIN blockStore : blockStore[n] = decidedBlocks[n]

(* A committed block is never replaced by another (spec.md 4.1: committing *)
(* a conflicting value at a height already decided fails the node; 8.1).  *)
(* After a restart create starts block consensus at height 1 again, and    *)
(* decide commits a new block over the stored one.                         *)
BlockWriteOnce ==
    [][\A n \in DOMAIN blockStore : n \in DOMAIN blockStore' /\ blockStore'[n] = blockStore[n]]_blockStore

(* The refinement mapping: the network's decisions, the shard stores and   *)
(* the chunks of the stored blocks.                                        *)
Chain == INSTANCE AbstractChain WITH
    decided <- netChain,
    log     <- shardStore,
    blocks  <- [n \in DOMAIN blockStore |-> blockStore[n].shard_chunks]

(* The node implements AbstractChain: every step of the proposers, the     *)
(* channel, catch-up and the collection is a step of the abstract chain or *)
(* leaves it unchanged; in particular a stored chunk or block is never     *)
(* rewritten, and block heights are committed in turn.                     *)
ChainRefinement == Chain!Spec

(* Every chunk decide pushed to `chunks` is in the shard's store at its    *)
(* block number (spec.md 4.1: a storage write failure must stop the       *)
(* shard's consensus instance, not be swallowed).  decide calls            *)
(* commit_shard_chunk and ignores its outcome.                             *)
DecidedChunksStored ==
    \A s \in DataShards : \A i \in 1..Len(chunks[s]) :
        LET c == chunks[s][i]
        IN  BlockNumberOf(c) \in DOMAIN shardStore[s] /\ shardStore[s][BlockNumberOf(c)] = c

(* Each block consensus decided names the block decided at the height     *)
(* before it as parent (spec.md 3: shard 0 is a chain of blocks; 4.3: the  *)
(* BFT layer rejects a block peers disagree with).  propose_value takes    *)
(* the parent from the local block store, and add_proposed_value accepts   *)
(* every block as Valid.                                                   *)
BlockChainLinked ==
    \A n \in DOMAIN decidedBlocks :
        n - 1 \in DOMAIN decidedBlocks =>
            decidedBlocks[n].header.parent_hash = Hash(decidedBlocks[n - 1].header)

(* Every block committed to the BlockStore reaches the consumer of         *)
(* block_tx, or its decide is still suspended in the send: decide commits  *)
(* the block before publish_new_block awaits, and catch-up through         *)
(* register_validator fetches only blocks above the confirmed height.      *)
StoredBlocksDelivered ==
    \A n \in DOMAIN blockStore :
        \/ \E i \in 1..Len(blockStream) : blockStream[i] = blockStore[n]
        \/ blockStore[n] = publishing

=============================================================================
