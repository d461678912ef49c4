--------------------------- MODULE SnapchainTypes ---------------------------
(***************************************************************************)
(* Constants and data shared by the proposer modules: heights, headers,    *)
(* chunks, blocks, proposals and hashes of src/src/consensus/proposer.rs.  *)
(*                                                                         *)
(* BLAKE3 over the encoded header is modelled as an injective function:   *)
(* the hash of a header is the header value itself, so two headers share a *)
(* hash exactly when they are equal field by field.  A chunk's `hash`      *)
(* field is always set to the hash of its header (proposer.rs 110-116 and  *)
(* the peers that run the same code), so it is not stored separately.      *)
(***************************************************************************)
EXTENDS Naturals, Sequences, FiniteSets, TLC

CONSTANTS
    DataShards,   \* the configured data shard ids (config.shard_ids(), in 1..MAX_SHARDS)
    MaxHeight,    \* block numbers 1..MaxHeight are modelled
    MaxRound,     \* consensus rounds 0..MaxRound at each height
    TxBatches,    \* the transaction batches propose_state_change may drain
    Times,        \* the values current_time() may return during a run
    ChanCap,      \* capacity of the shard-decision channel (100 in snapchain_node.rs:47)
    GenesisHash,  \* the parent hash used when there is no previous value: vec![0, 32]
    None,         \* Option::None
    Self,         \* this node's address, as proposer
    Peer          \* another validator's address, as proposer

ASSUME /\ DataShards \subseteq 1..3          \* MAX_SHARDS = 3, 0 is the block shard
       /\ MaxHeight \in Nat \ {0}
       /\ ChanCap \in Nat \ {0}

BlockShard == 0
Heights == 1..MaxHeight
Rounds == 0..MaxRound
NumShards == Cardinality(DataShards)        \* config.num_shards()

(* A state root is determined by the batches applied so far: the root      *)
(* after applying txs to root r is r extended by txs.                      *)
ApplyTxs(root, txs) == Append(root, txs)

Hash(header) == header

(* ShardHash {hash, shard_index}: the key of the proposal tables. *)
ShardHashOf(header) == <<Hash(header), header.height[1]>>

ShardHeader(parent, s, bn, root, ts) ==
    [parent_hash |-> parent, height |-> <<s, bn>>, shard_root |-> root, timestamp |-> ts]

MakeChunk(header, txs) == [header |-> header, transactions |-> txs]

(* BlockHeader: chain_id, version, shard_headers_hash and validators_hash  *)
(* are constants (0 or empty) in BlockProposer::propose_value, so the     *)
(* header, and the hash, depend on parent, height and timestamp only.      *)
BlockHeader(parent, bn, ts) ==
    [parent_hash |-> parent, height |-> <<BlockShard, bn>>, timestamp |-> ts]

MakeBlock(header, chunks) == [header |-> header, shard_chunks |-> chunks]

ShardOf(c) == c.header.height[1]
BlockNumberOf(c) == c.header.height[2]
ChunkHash(c) == Hash(c.header)

FullProposal(s, bn, r, value, proposer) ==
    [height |-> <<s, bn>>, round |-> r, value |-> value, proposer |-> proposer]
=============================================================================
