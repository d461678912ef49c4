---------------------------- MODULE BlockProposer ----------------------------
(***************************************************************************)
(* BlockProposer (src/src/consensus/proposer.rs 222-412), the proposer of  *)
(* the block shard 0, with the part of BlockEngine it calls (not in src/;  *)
(* modelled from spec.md section 4.1) and the consensus environment of the *)
(* block shard.                                                            *)
(*                                                                         *)
(* propose_value suspends in collect_confirmed_shard_chunks: between       *)
(* BeginProposeValue and its end (a CollectTick that completes, or         *)
(* CollectTimeout) the shard tasks keep running.  Each tick of the 10 ms   *)
(* interval takes at most one chunk off the channel.  Which of the tick    *)
(* and the deadline fires is decided by wall-clock time, so the deadline   *)
(* may expire at any point of the collection.                              *)
(***************************************************************************)
EXTENDS SnapchainTypes

SeqExt == INSTANCE SequencesExt

CONSTANTS
    MaxCatchups,     \* bound on register_validator calls that fetch blocks
    BlockPeers       \* whether other validators have joined the block shard's validator set

VARIABLES
    chan,            \* Seq(chunk): the shard_decision channel, receiver side
    pendingChunks,   \* block_number -> Seq(chunk): BlockProposer.pending_chunks (<<>> = no entry)
    proposedBlocks,  \* ShardHash -> FullProposal: BlockProposer.proposed_blocks
    blockStore,      \* block_number -> block: the BlockStore of the engine (persistent)
    collecting,      \* propose_value is suspended in collect_confirmed_shard_chunks
    publishing,      \* block | None: decide has committed this block and awaits its send
    blockCons,       \* [height, round, proposed]: the consensus task of the block shard
    blockLog,        \* <<height, round>> -> the block this process proposed then (ghost)
    decidedBlocks,   \* height -> the block consensus decided there (ghost)
    blockStream,     \* Seq(block): what block_tx has delivered to its consumer, in order (ghost)
    blockCatchups,   \* number of register_validator calls that fetched blocks so far
    netChain         \* s -> Seq(chunk): the shard chunks decided by the network (read only here)

blockVars == <<chan, pendingChunks, proposedBlocks, blockStore, collecting, publishing, blockCons, blockLog,
               decidedBlocks, blockStream, blockCatchups>>

(* ------------------------- BlockEngine ---------------------------------- *)

BlockConfirmedHeight ==
    IF DOMAIN blockStore = {} THEN 0
    ELSE CHOOSE n \in DOMAIN blockStore : \A m \in DOMAIN blockStore : m <= n

(* get_last_block: the most recently committed block, if any. *)
GetLastBlock ==
    IF DOMAIN blockStore = {} THEN None ELSE blockStore[BlockConfirmedHeight]

(* commit_block: persist the block at its height. *)
CommitBlock(block) ==
    blockStore' = (block.header.height[2] :> block) @@ blockStore

(* ------------------------- BlockProposer -------------------------------- *)

(* A received chunk filed under the requested height instead of its own. *)
IndexChunkAtRequested(pending, chunk) ==
    [pending EXCEPT ![blockCons.height] = Append(@, chunk)]

(* A received chunk is appended to pending_chunks[its block number]. *)
IndexChunk(pending, chunk) ==
    [pending EXCEPT ![BlockNumberOf(chunk)] = Append(@, chunk)]

(* The loop breaks when the requested height holds exactly num_shards. *)
Complete(pending, h) == Len(pending[h]) = NumShards

(* A method of the proposer is suspended in an await (the collection of   *)
(* propose_value, or the publish of decide); &mut self keeps the others   *)
(* out, and the block shard's consensus task waits for it.                 *)
BlockBusy == collecting \/ publishing # None

(* propose_value is called: start collecting for the consensus height. *)
BeginProposeValue ==
    /\ ~BlockBusy
    /\ blockCons.height <= MaxHeight
    /\ ~blockCons.proposed
    /\ collecting' = TRUE
    /\ UNCHANGED <<chan, pendingChunks, proposedBlocks, blockStore, publishing, blockCons,
                   blockLog, decidedBlocks, blockStream, blockCatchups>>

(* The rest of propose_value once collection has returned pending[h]:      *)
(* header from get_last_block (or the genesis value), hash, record.        *)
FinishProposeValue(pending) ==
    LET h      == blockCons.height
        r      == blockCons.round
        parent == IF GetLastBlock = None THEN GenesisHash ELSE Hash(GetLastBlock.header)
    IN  \E ts \in Times :
           LET header == BlockHeader(parent, h, ts)
               block  == MakeBlock(header, pending[h])
           IN  /\ proposedBlocks' = (ShardHashOf(header) :> FullProposal(BlockShard, h, r, block, Self))
                                    @@ proposedBlocks
               /\ blockLog' = (<<h, r>> :> block) @@ blockLog
               /\ pendingChunks' = pending
               /\ collecting' = FALSE
               /\ blockCons' = [blockCons EXCEPT !.proposed = TRUE]
               /\ UNCHANGED <<blockStore, publishing, decidedBlocks, blockStream, blockCatchups>>

(* One tick of the poll interval: try_recv one chunk and index it, then    *)
(* break if the requested height is complete.  A tick that finds the       *)
(* channel empty and the height incomplete changes nothing.               *)
CollectTick ==
    LET h       == blockCons.height
        pending == IF chan = <<>> THEN pendingChunks ELSE IndexChunk(pendingChunks, Head(chan))
    IN  /\ collecting
        /\ chan # <<>> \/ Complete(pendingChunks, h)
        /\ chan' = IF chan = <<>> THEN chan ELSE Tail(chan)
        /\ IF Complete(pending, h)
           THEN FinishProposeValue(pending)
           ELSE /\ pendingChunks' = pending
                /\ UNCHANGED <<proposedBlocks, blockStore, collecting, publishing, blockCons, blockLog,
                               decidedBlocks, blockStream, blockCatchups>>

(* A collection without deadline: it ends only once the height is complete. *)
CollectTimeoutWhenComplete ==
    /\ collecting
    /\ Complete(pendingChunks, blockCons.height)
    /\ FinishProposeValue(pendingChunks)
    /\ UNCHANGED chan

(* The deadline expires: warn and propose whatever pending[h] holds. *)
CollectTimeout ==
    /\ collecting
    /\ FinishProposeValue(pendingChunks)
    /\ UNCHANGED chan

NextBlockHeight ==
    blockCons' = [height |-> blockCons.height + 1, round |-> 0, proposed |-> FALSE]

(* publish_new_block: send().await on block_tx.  The receiver belongs to   *)
(* the caller of create (outside src/); a send error is logged and ignored. *)
PublishNewBlock(blocks) ==
    blockStream' = blockStream \o blocks

(* The block of height h a peer proposes, or the network decides, without  *)
(* this node: the network's decision if there is one, else a block built  *)
(* by the same code on the network's last block, holding the chunks its    *)
(* collection received: decided chunks of h, in any arrival order, any of  *)
(* them possibly missing at the deadline.                                  *)
PeerBlocks(h) ==
    IF h \in DOMAIN decidedBlocks THEN {decidedBlocks[h]}
    ELSE LET parent  == IF h = 1 THEN GenesisHash ELSE Hash(decidedBlocks[h - 1].header)
             decided == {netChain[s][h] : s \in {t \in DataShards : h <= Len(netChain[t])}}
         IN  {MakeBlock(BlockHeader(parent, h, ts), cs) :
                 ts \in Times, cs \in SeqExt!SetToAllKPermutations(decided)}

(* The blocks consensus may decide at height h: the network's decision     *)
(* when other validators take part and have made one, else a block this    *)
(* process proposed in a round of h (with create's validator set of self   *)
(* alone, the block shard decides only this node's proposals).             *)
DecidableBlocks(h) ==
    IF BlockPeers /\ h \in DOMAIN decidedBlocks THEN {decidedBlocks[h]}
    ELSE {blockLog[k] : k \in {k \in DOMAIN blockLog : k[1] = h}}

(* decide(height, round, value), up to the await of its publish: if the   *)
(* hash is in proposed_blocks, commit the block recorded under it and send *)
(* it on block_tx.                                                         *)
Decide ==
    LET h == blockCons.height
    IN  /\ ~BlockBusy
        /\ h <= MaxHeight
        /\ \E b \in DecidableBlocks(h) :
              LET key == ShardHashOf(b.header)
              IN  /\ key \in DOMAIN proposedBlocks
                  /\ decidedBlocks' = (h :> b) @@ decidedBlocks
                  /\ CommitBlock(proposedBlocks[key].value)
                  /\ publishing' = proposedBlocks[key].value
        /\ UNCHANGED <<chan, pendingChunks, proposedBlocks, collecting, blockCons, blockLog,
                       blockStream, blockCatchups>>

(* decide, once the send returns: the block is delivered, the proposal and *)
(* pending_chunks[height] are removed, and consensus moves to the next    *)
(* height.                                                                 *)
DecidePublish ==
    /\ publishing # None
    /\ PublishNewBlock(<<publishing>>)
    /\ proposedBlocks' = [k \in DOMAIN proposedBlocks \ {ShardHashOf(publishing.header)} |->
                             proposedBlocks[k]]
    /\ pendingChunks' = [pendingChunks EXCEPT ![blockCons.height] = <<>>]
    /\ publishing' = None
    /\ NextBlockHeight
    /\ UNCHANGED <<chan, blockStore, collecting, blockLog, decidedBlocks, blockCatchups>>

(* decide of a block this process never recorded: a no-op; consensus      *)
(* moves on to the next height all the same.                               *)
BlockDecideUnknown ==
    LET h == blockCons.height
    IN  /\ ~BlockBusy
        /\ h <= MaxHeight
        /\ \E b \in DecidableBlocks(h) : ShardHashOf(b.header) \notin DOMAIN proposedBlocks
        /\ NextBlockHeight
        /\ UNCHANGED <<chan, pendingChunks, proposedBlocks, blockStore, collecting, publishing, blockLog,
                       decidedBlocks, blockStream, blockCatchups>>

(* add_proposed_value for a Block payload: inserted into proposed_blocks   *)
(* under its shard_hash(), replacing any proposal with that hash, and      *)
(* Valid whatever it holds.                                                *)
BlockAddProposedValue ==
    LET h == blockCons.height
    IN  /\ BlockPeers
        /\ ~BlockBusy
        /\ h <= MaxHeight
        /\ \E b \in PeerBlocks(h) :
              proposedBlocks' = (ShardHashOf(b.header) :> FullProposal(BlockShard, h, blockCons.round, b, Peer))
                                @@ proposedBlocks
        /\ UNCHANGED <<chan, pendingChunks, blockStore, collecting, publishing, blockCons, blockLog,
                       decidedBlocks, blockStream, blockCatchups>>

(* register_validator: a peer with an RPC address that advertises a height *)
(* above the local confirmed height serves get_blocks from confirmed + 1   *)
(* with no stop; every returned block is published on block_tx.  Nothing   *)
(* is committed.  An RPC error, or a peer without RPC address, changes no  *)
(* state.                                                                  *)
BlockRegisterValidator ==
    LET prev == BlockConfirmedHeight
        top  == Cardinality(DOMAIN decidedBlocks)
    IN  /\ BlockPeers
        /\ ~BlockBusy
        /\ blockCatchups < MaxCatchups
        /\ top > prev
        /\ PublishNewBlock([i \in 1..top - prev |-> decidedBlocks[prev + i]])
        /\ blockCatchups' = blockCatchups + 1
        /\ UNCHANGED <<chan, pendingChunks, proposedBlocks, blockStore, collecting, publishing, blockCons,
                       blockLog, decidedBlocks>>

(* --------------- consensus environment of the block shard --------------- *)

BlockRoundTimeout ==
    /\ ~BlockBusy
    /\ blockCons.height <= MaxHeight
    /\ blockCons.round < MaxRound
    /\ blockCons' = [blockCons EXCEPT !.round = @ + 1, !.proposed = FALSE]
    /\ UNCHANGED <<chan, pendingChunks, proposedBlocks, blockStore, collecting, publishing, blockLog,
                   decidedBlocks, blockStream, blockCatchups>>

(* The other validators decide the next block height without this node. *)
NetworkBlockDecide ==
    LET h == Cardinality(DOMAIN decidedBlocks) + 1
    IN  /\ BlockPeers
        /\ h <= MaxHeight
        /\ \E b \in PeerBlocks(h) : decidedBlocks' = (h :> b) @@ decidedBlocks
        /\ UNCHANGED <<chan, pendingChunks, proposedBlocks, blockStore, collecting, publishing, blockCons,
                       blockLog, blockStream, blockCatchups>>

BlockInit ==
    /\ pendingChunks = [n \in Heights |-> <<>>]
    /\ proposedBlocks = [k \in {} |-> None]
    /\ blockStore = [n \in {} |-> None]
    /\ collecting = FALSE
    /\ publishing = None
    /\ blockCons = [height |-> 1, round |-> 0, proposed |-> FALSE]
    /\ blockLog = [k \in {} |-> None]
    /\ decidedBlocks = [n \in {} |-> None]
    /\ blockStream = <<>>
    /\ blockCatchups = 0
=============================================================================
