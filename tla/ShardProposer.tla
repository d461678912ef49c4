---------------------------- MODULE ShardProposer ----------------------------
(***************************************************************************)
(* ShardProposer (src/src/consensus/proposer.rs 53-199), one per data      *)
(* shard, with the part of ShardEngine it calls (engine.rs is not in src/; *)
(* modelled from spec.md section 4.1) and the consensus environment of a   *)
(* data shard.  Every variable is a function of the shard id, except the   *)
(* shared fan-in channel `chan`.                                           *)
(*                                                                         *)
(* A proposer's methods take &mut self and are called by the one consensus *)
(* task of its shard, so they never overlap: while a method is suspended   *)
(* in an await (decide between its send and its commit, register_validator *)
(* while it publishes) the shard's other operations are disabled (Busy).   *)
(***************************************************************************)
EXTENDS SnapchainTypes

CONSTANTS
    MaxCatchups,     \* bound on register_validator calls that fetch chunks
    ByzantinePeers,  \* whether a peer may propose transactions its root was not computed from
    StorageMayFail   \* whether the put of commit_shard_chunk may fail (disk full, I/O error)

VARIABLES
    shardStore,      \* s -> (block_number -> chunk): the ShardStore of the engine (persistent)
    chunks,          \* s -> Seq(chunk): ShardProposer.chunks, decided by this process (memory)
    proposedChunks,  \* s -> (ShardHash -> FullProposal): ShardProposer.proposed_chunks
    deciding,        \* s -> chunk | None: decide has sent this chunk and not yet committed it
    catchup,         \* s -> Seq(chunk): chunks register_validator still has to publish
    catchups,        \* number of register_validator calls that fetched chunks so far
    chan,            \* Seq(chunk): the shard_decision channel (tx_decision / shard_decision_rx)
    netChain,        \* s -> Seq(chunk): the value consensus decided at each height (ghost)
    shardCons        \* s -> [height, round, proposed]: the consensus task of the shard

shardVars == <<shardStore, chunks, proposedChunks, deciding, catchup, catchups, chan,
               netChain, shardCons>>

MaxOf(S) == CHOOSE x \in S : \A y \in S : y <= x

(* ------------------------- ShardEngine ---------------------------------- *)

(* get_confirmed_height -> ShardStore::max_block_number: the largest stored *)
(* block number, 0 when empty (the ShardStore module checks that the       *)
(* reverse key scan finds it).                                             *)
ConfirmedHeight(s) ==
    IF DOMAIN shardStore[s] = {} THEN 0 ELSE MaxOf(DOMAIN shardStore[s])

CommittedRoot(s) ==
    IF ConfirmedHeight(s) = 0 THEN <<>> ELSE shardStore[s][ConfirmedHeight(s)].header.shard_root

(* propose_state_change: drain a batch of executable transactions and      *)
(* compute the root they lead to from the committed state.                 *)
ProposeStateChange(s, txs) ==
    [shard_id |-> s, new_state_root |-> ApplyTxs(CommittedRoot(s), txs), transactions |-> txs]

(* validate_state_change: re-execute the transactions on committed state.  *)
ValidateStateChange(s, state) ==
    state.new_state_root = ApplyTxs(CommittedRoot(s), state.transactions)

(* A commit that appends after the confirmed height instead of writing at  *)
(* the chunk's own block number.                                           *)
CommitShardChunkAtNext(s, chunk) ==
    shardStore' = [shardStore EXCEPT ![s] = (ConfirmedHeight(s) + 1 :> chunk) @@ @]

(* commit_shard_chunk -> put_shard_chunk: one put at the chunk's block     *)
(* number, overwriting whatever is there.                                  *)
CommitShardChunk(s, chunk) ==
    shardStore' = [shardStore EXCEPT ![s] = (BlockNumberOf(chunk) :> chunk) @@ @]

(* ------------------------- ShardProposer -------------------------------- *)

Busy(s) == deciding[s] # None \/ catchup[s] # <<>>

(* A send that never waits for room (an unbounded channel). *)
PublishNewShardChunkUnbounded(chunk) ==
    chan' = Append(chan, chunk)

(* publish_new_shard_chunk: send().await on the bounded channel; the task   *)
(* stays suspended while the channel is full.                              *)
PublishNewShardChunk(chunk) ==
    /\ Len(chan) < ChanCap
    /\ chan' = Append(chan, chunk)

(* parent_hash: the hash of the last chunk this process decided, or the    *)
(* genesis value vec![0, 32] when `chunks` is empty.                       *)
ParentHash(s) ==
    IF chunks[s] = <<>> THEN GenesisHash ELSE ChunkHash(chunks[s][Len(chunks[s])])

Record(s, key, proposal) ==
    proposedChunks' = [proposedChunks EXCEPT ![s] = (key :> proposal) @@ @]

(* propose_value(height, round, _timeout): the timeout is ignored. *)
ProposeValue(s) ==
    LET h == shardCons[s].height
        r == shardCons[s].round
    IN  /\ ~Busy(s)
        /\ h <= MaxHeight
        /\ ~shardCons[s].proposed
        /\ \E txs \in TxBatches, ts \in Times :
              LET state  == ProposeStateChange(s, txs)
                  header == ShardHeader(ParentHash(s), s, h, state.new_state_root, ts)
              IN  Record(s, ShardHashOf(header),
                         FullProposal(s, h, r, MakeChunk(header, state.transactions), Self))
        /\ shardCons' = [shardCons EXCEPT ![s].proposed = TRUE]
        /\ UNCHANGED <<shardStore, chunks, deciding, catchup, catchups, chan, netChain>>

(* The chunks a peer may propose at height h of shard s: the value the     *)
(* network decided there if it has, else a chunk built by the same code on *)
(* the network's chain.  With ByzantinePeers the transactions need not be  *)
(* the ones the root was computed from.                                    *)
PeerChunks(s, h) ==
    IF h <= Len(netChain[s]) THEN {netChain[s][h]}
    ELSE LET parent == IF h = 1 THEN GenesisHash ELSE ChunkHash(netChain[s][h - 1])
             root   == IF h = 1 THEN <<>> ELSE netChain[s][h - 1].header.shard_root
             Txs(t) == IF ByzantinePeers THEN TxBatches ELSE {t}
         IN  UNION {{MakeChunk(ShardHeader(parent, s, h, ApplyTxs(root, t), ts), u) :
                        u \in Txs(t), ts \in Times} : t \in TxBatches}

(* add_proposed_value for a Shard payload: the proposal is inserted into   *)
(* proposed_chunks under its shard_hash() BEFORE the state change is       *)
(* validated; the Valid/Invalid answer goes back to consensus (Valid).     *)
AddProposedValue(s) ==
    LET h == shardCons[s].height
    IN  /\ ~Busy(s)
        /\ h <= MaxHeight
        /\ \E chunk \in PeerChunks(s, h) :
              Record(s, ShardHashOf(chunk.header),
                     FullProposal(s, h, shardCons[s].round, chunk, Peer))
        /\ UNCHANGED <<shardStore, chunks, deciding, catchup, catchups, chan, netChain,
                       shardCons>>

(* The answer add_proposed_value gives (own proposals are valid). *)
Valid(s, p) ==
    \/ p.proposer = Self
    \/ ValidateStateChange(s, [shard_id |-> s, new_state_root |-> p.value.header.shard_root,
                              transactions |-> p.value.transactions])

(* The root the other validators hold after block number n of shard s. *)
NetRoot(s, n) == IF n = 0 THEN <<>> ELSE netChain[s][n].header.shard_root

(* The other validators accept a chunk whose root follows from its         *)
(* transactions on their state; like validate_state_change they do not     *)
(* look at parent_hash.                                                    *)
NetValid(s, chunk) ==
    chunk.header.shard_root = ApplyTxs(NetRoot(s, BlockNumberOf(chunk) - 1), chunk.transactions)

(* The value consensus decides at the shard's height: the network's        *)
(* decision if there is one, else a recorded proposal of this height that  *)
(* this node and the other validators find valid.                          *)
DecidedKeys(s) ==
    LET h == shardCons[s].height
    IN  IF h <= Len(netChain[s])
        THEN {ShardHashOf(netChain[s][h].header)}
        ELSE {k \in DOMAIN proposedChunks[s] :
                 /\ proposedChunks[s][k].height = <<s, h>>
                 /\ Valid(s, proposedChunks[s][k])
                 /\ NetValid(s, proposedChunks[s][k].value)}

NextHeight(s) ==
    shardCons' = [shardCons EXCEPT ![s] = [height |-> @.height + 1, round |-> 0, proposed |-> FALSE]]

(* decide(height, round, value), first part: the proposal is in the table; *)
(* publish it on the channel (send().await).                               *)
DecideSend(s) ==
    /\ ~Busy(s)
    /\ shardCons[s].height <= MaxHeight
    /\ \E k \in DecidedKeys(s) \cap DOMAIN proposedChunks[s] :
          LET chunk == proposedChunks[s][k].value
          IN  /\ PublishNewShardChunk(chunk)
              /\ deciding' = [deciding EXCEPT ![s] = chunk]
              /\ netChain' = IF shardCons[s].height <= Len(netChain[s]) THEN netChain
                             ELSE [netChain EXCEPT ![s] = Append(@, chunk)]
    /\ UNCHANGED <<shardStore, chunks, proposedChunks, catchup, catchups, shardCons>>

(* decide, after the send returns: push to chunks, commit to the engine,   *)
(* remove the proposal; consensus then moves to the next height.           *)
DecideCommit(s) ==
    LET chunk == deciding[s]
    IN  /\ chunk # None
        /\ chunks' = [chunks EXCEPT ![s] = Append(@, chunk)]
        /\ CommitShardChunk(s, chunk)
        /\ proposedChunks' = [proposedChunks EXCEPT ![s] =
                                 [k \in DOMAIN @ \ {ShardHashOf(chunk.header)} |-> @[k]]]
        /\ deciding' = [deciding EXCEPT ![s] = None]
        /\ NextHeight(s)
        /\ UNCHANGED <<catchup, catchups, chan, netChain>>

(* decide when the put of commit_shard_chunk fails: decide does not look  *)
(* at the result, so it pushes to chunks and removes the proposal all the  *)
(* same, and consensus moves on.                                           *)
DecideCommitFailed(s) ==
    LET chunk == deciding[s]
    IN  /\ StorageMayFail
        /\ chunk # None
        /\ chunks' = [chunks EXCEPT ![s] = Append(@, chunk)]
        /\ proposedChunks' = [proposedChunks EXCEPT ![s] =
                                 [k \in DOMAIN @ \ {ShardHashOf(chunk.header)} |-> @[k]]]
        /\ deciding' = [deciding EXCEPT ![s] = None]
        /\ NextHeight(s)
        /\ UNCHANGED <<shardStore, catchup, catchups, chan, netChain>>

(* decide for a value this process never recorded: a no-op; consensus     *)
(* moves on to the next height all the same.                               *)
DecideUnknown(s) ==
    /\ ~Busy(s)
    /\ shardCons[s].height <= MaxHeight
    /\ \E k \in DecidedKeys(s) : k \notin DOMAIN proposedChunks[s]
    /\ NextHeight(s)
    /\ UNCHANGED <<shardStore, chunks, proposedChunks, deciding, catchup, catchups, chan,
                   netChain>>

(* register_validator: a peer that has an RPC address and advertises a     *)
(* height above the local confirmed height serves get_shard_chunks from    *)
(* confirmed + 1 with no stop; each returned chunk is then published.      *)
(* Nothing is committed.  An RPC error returns before publishing anything  *)
(* and, like a validator without RPC address, changes no state.           *)
RegisterValidator(s) ==
    LET prev == ConfirmedHeight(s)
    IN  /\ ~Busy(s)
        /\ catchups < MaxCatchups
        /\ Len(netChain[s]) > prev
        /\ catchup' = [catchup EXCEPT ![s] = SubSeq(netChain[s], prev + 1, Len(netChain[s]))]
        /\ catchups' = catchups + 1
        /\ UNCHANGED <<shardStore, chunks, proposedChunks, deciding, chan, netChain, shardCons>>

CatchupPublish(s) ==
    /\ catchup[s] # <<>>
    /\ PublishNewShardChunk(Head(catchup[s]))
    /\ catchup' = [catchup EXCEPT ![s] = Tail(@)]
    /\ UNCHANGED <<shardStore, chunks, proposedChunks, deciding, catchups, netChain, shardCons>>

(* --------------- consensus environment of a data shard ------------------ *)

(* The round times out and consensus starts the next round. *)
RoundTimeout(s) ==
    /\ ~Busy(s)
    /\ shardCons[s].height <= MaxHeight
    /\ shardCons[s].round < MaxRound
    /\ shardCons' = [shardCons EXCEPT ![s] = [@ EXCEPT !.round = @ + 1, !.proposed = FALSE]]
    /\ UNCHANGED <<shardStore, chunks, proposedChunks, deciding, catchup, catchups, chan,
                   netChain>>

(* The other validators decide the next height without this node. *)
NetworkDecide(s) ==
    LET h == Len(netChain[s]) + 1
    IN  /\ h <= MaxHeight
        /\ \E chunk \in PeerChunks(s, h) :
              /\ NetValid(s, chunk)
              /\ netChain' = [netChain EXCEPT ![s] = Append(@, chunk)]
        /\ UNCHANGED <<shardStore, chunks, proposedChunks, deciding, catchup, catchups, chan,
                       shardCons>>

ShardInit ==
    /\ shardStore = [s \in DataShards |-> [n \in {} |-> None]]
    /\ chunks = [s \in DataShards |-> <<>>]
    /\ proposedChunks = [s \in DataShards |-> [k \in {} |-> None]]
    /\ deciding = [s \in DataShards |-> None]
    /\ catchup = [s \in DataShards |-> <<>>]
    /\ catchups = 0
    /\ chan = <<>>
    /\ netChain = [s \in DataShards |-> <<>>]
    /\ shardCons = [s \in DataShards |-> [height |-> 1, round |-> 0, proposed |-> FALSE]]
=============================================================================
