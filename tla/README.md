# TLA+ models of the snapchain-v0 proposer/decider pipeline

This directory holds TLA+ specifications of the three source files of the
repository and the TLC configurations that check them.

## 1. Inventory

The repository has three source files:

| file | what it contains |
|---|---|
| `src/src/consensus/proposer.rs` | `ShardProposer` and `BlockProposer`, the two implementations of the `Proposer` trait that the BFT consensus task calls |
| `src/src/node/snapchain_node.rs` | `SnapchainNode`: builds one proposer and one consensus actor per shard, the shared fan-in channel, routing |
| `src/src/storage/store/shard.rs` | `ShardStore`: the height-keyed persistent log of shard chunks over RocksDB, with paged range scans |

The engines (`ShardEngine`, `BlockEngine`), the `BlockStore`, the RocksDB
wrapper, the consensus actor (malachite) and the RPC service are referenced
but their code is not in `src/`. Where the proposers call them, the model
follows `spec.md` §4.1 / §6 and the map marks those definitions
`spec_modelled`.

### Components, their state and operations

**ShardStore** (`shard.rs`). State: a RocksDB key space, key =
`[RootPrefix::Shard][block_number as 8 bytes big-endian]`, value = encoded
chunk. Operations: `put_shard_chunk` (one put in one transaction, overwrites;
rejects a chunk without header/height), `get_last_shard_chunk` (reverse scan
of page size 1 from key(0)), `max_block_number` (its height or 0),
`get_shard_chunks(start, stop)` (loop over pages of 100 following
`next_page_token`). Correctness: lexicographic key order equals numeric order,
so the last key is the largest height; a paged scan returns exactly the
entries of the one-shot scan, in order.

**ShardEngine** (not in src, spec §4.1). State: the committed state root, the
shard store. Operations: `propose_state_change`, `validate_state_change`,
`commit_shard_chunk`, `get_confirmed_height`.

**ShardProposer** (`proposer.rs` 53-199). State: `chunks` (in-memory list of
chunks decided by this process; only the last is read, for `parent_hash`),
`proposed_chunks: ShardHash -> FullProposal`, the engine, the sender side of
the fan-in channel. Operations: `propose_value` (build header from
`chunks.last()` or the genesis hash `vec![0, 32]`, state change from the
engine, insert into the table), `add_proposed_value` (insert into the table
*before* validating, then `Valid` iff the engine re-derives the root),
`decide` (if the hash is in the table: publish on the channel — an `await`
on a bounded channel — then push to `chunks`, commit to the engine, remove
from the table; otherwise a no-op), `register_validator` (if the peer's
advertised height is above ours and it has an RPC address: fetch the peer's
chunks from confirmed+1 and publish each on the channel; nothing is
committed).

**BlockEngine / BlockStore** (not in src, spec §4.1). State: committed blocks
by height. Operations: `commit_block`, `get_last_block`,
`get_confirmed_height`.

**BlockProposer** (`proposer.rs` 222-412). State: `proposed_blocks`,
`pending_chunks: block_number -> Vec<ShardChunk>`, the receiver of the fan-in
channel, `num_shards`, the block stream sender, the engine. Operations:
`propose_value` (= `collect_confirmed_shard_chunks` under a deadline, one
`try_recv` per 10 ms tick, stop when `pending[h]` has `num_shards` entries or
on the deadline; then a header with parent from `get_last_block`, **no
commitment to the chunks** (`shard_headers_hash: vec![]`), insert into the
table), `add_proposed_value` (insert a Block payload; answer `Valid` for any
payload), `decide` (if known: commit, publish on the block stream, remove the
proposal and `pending[h]`), `register_validator` (fetch blocks from a peer and
publish them on the block stream).

**Node supervisor** (`snapchain_node.rs`). State: `consensus_actors` by shard
id, per-shard message senders and stores. Operations: `create` (validate shard
ids, open a store per shard, one proposer and consensus actor per data shard,
one shared channel of capacity 100 from all shard proposers to the block
proposer, block shard last), `stop`, `start_height`, `dispatch` (route by
`shard_id`, drop unknown).

**Consensus (malachite), gossip, RPC** are external: the model has an
environment that calls `propose_value`, `add_proposed_value` and `decide` in
the order spec §5 guarantees (one consensus task per shard; a proposer's
methods never overlap because they take `&mut self`).

### Interactions

* consensus task of shard *s* → `ShardProposer(s)` methods (calls);
* `ShardProposer(s)` → fan-in channel → `BlockProposer` (bounded MPSC channel,
  the only shared mutable state between tasks; `send().await` blocks when the
  channel is full; the block proposer only receives while it is inside
  `propose_value`);
* consensus task of the block shard → `BlockProposer` methods;
* proposers → engines → stores (calls, persistent state);
* `register_validator` → peer RPC → channel / block stream.

### What is hard

* the shard tasks and the block task run in parallel; chunks of several
  heights and shards arrive on the channel in any order;
* `decide` publishes the chunk *before* committing it (the spec says commit,
  then publish); a crash between the two steps;
* restart: everything but the stores is lost (`chunks`, tables, channel,
  `pending_chunks`);
* catch-up republishes chunks on the same channel the live decisions use
  (source comment at `proposer.rs:269`), and repeats on every registration;
* the collection deadline races the arrival of the last chunk; late chunks
  arrive after their block was decided;
* consensus rounds: several proposals for one height; only the decided one is
  evicted;
* the block header does not commit to its chunks, so two blocks with
  different chunks made in the same second share a hash;
* the store key encoding and paging (byte order, page-size off-by-one).

### Properties that make each component correct

* ShardStore: key order = numeric order; `max_block_number` = largest stored
  height; paged scan = one-shot scan.
* ShardProposer: the local shard log agrees with the decisions of consensus;
  it has no holes; each chunk links to its predecessor (spec §8.2); proposals
  of decided heights are evicted (§3 lifecycle).
* BlockProposer: a committed block holds only decided chunks of its own
  height, at most one per shard (§8.5, §3); the committed block is the block
  consensus decided; each decided block names the one before it as parent;
  every block delivered on `block_tx` holds only decided chunks of its height;
  every block height is eventually decided (timeout, §4.3.5).

## 2. Plan

Modules, in the order they are built:

1. `ShardStore` — key encoding, byte-order comparison, last chunk, paged scan
   (pure operators checked against a reference over a bounded key set) and
   the put operation. Run `store_scan`.
2. `SnapchainTypes` — constants, headers, chunks, hashes shared by the rest.
3. `ShardProposer` — the shard proposer and its engine over per-shard
   functions, and the consensus / network environment of a data shard.
4. `BlockProposer` — collection under deadline, propose, decide.
5. `SnapchainNode` — composes N shard proposers, the shared bounded channel
   and the block proposer; adds crash/restart, catch-up, peer proposals.
   `MC_SnapchainNode` fixes the constants.
6. (done) `AbstractChain` — what the node promises: each shard's decisions
   never revised, each shard log holding only decided values written once,
   blocks committed at heights 1, 2, ... holding only chunks decided at their
   height; `SnapchainNode` is shown to refine it (`ChainRefinement`).
7. (done) the block shard with other validators (`BlockPeers`): peer block
   proposals, block decisions made without this node, `decide` of an unknown
   block, block catch-up, and the `block_tx` stream as the ghost
   `blockStream`.  Still open: `SnapchainNode.create` shard-id checks and
   `dispatch` routing (configuration and routing only, no state).

Runs (bounds in §5): `store_scan`; `node_restart` (rounds, restarts and failing puts) and
`node_catchup` (block peers and catch-up), the passing safety of the composed node;
`node_liveness`; one violation run per divergence met while modelling.
With block peers, `node_catchup` uses one data shard: with two it goes beyond
15 minutes of model checking.

## 3. Modules and correspondence to the code

| Module | Models | State (VARIABLES) | Actions |
|---|---|---|---|
| `ShardStore` | `storage/store/shard.rs` and the RocksDB iterator it drives | `db`: key bytes -> chunk | `PutShardChunk` (put_shard_chunk); the read paths `GetShardPageByPrefix`, `GetLastShardChunk`, `MaxBlockNumber`, `GetShardChunks` are operators |
| `SnapchainTypes` | headers, chunks, blocks, `FullProposal`, `ShardHash` of `consensus/proposer.rs` | none | none: records and the hash abstraction |
| `ShardProposer` | `ShardProposer` (proposer.rs 53-199; with `StorageMayFail`, `DecideCommitFailed` is a `commit_shard_chunk` whose put fails while `decide` goes on), the ShardEngine calls it makes, and the consensus environment of a data shard | `shardStore`, `chunks`, `proposedChunks`, `deciding`, `catchup`, `catchups`, `chan`, ghost `netChain`, `shardCons` | `ProposeValue`, `AddProposedValue`, `DecideSend` + `DecideCommit` (decide, split at its `send().await`), `DecideUnknown` (decide of an unknown hash), `RegisterValidator` + `CatchupPublish` (register_validator, one publish per step), environment `RoundTimeout`, `NetworkDecide` |
| `BlockProposer` | `BlockProposer` (proposer.rs 222-412) and the BlockEngine calls it makes | `chan` (receiver side), `pendingChunks`, `proposedBlocks`, `blockStore`, `collecting`, `publishing` (the block whose `decide` awaits its send), `blockCons`, `blockCatchups`, ghosts `blockLog`, `decidedBlocks` (the blocks consensus decided, by this node or, with `BlockPeers`, by the other validators), `blockStream` (what `block_tx` delivered, in order) | `BeginProposeValue`, `CollectTick` (one 10 ms tick: one `try_recv`, then the `==` num_shards check), `CollectTimeout` (the deadline branch of the `select!`), `Decide` (commit, up to the `publish_new_block(..).await`) + `DecidePublish` (the block delivered on `block_tx`, proposal and `pending[h]` evicted, next height), `BlockDecideUnknown` (decide of a hash not in `proposed_blocks`), `BlockAddProposedValue` (insert under the hash, always Valid), `BlockRegisterValidator` (publish the peer's blocks from confirmed+1, commit nothing), environment `BlockRoundTimeout`, `NetworkBlockDecide` |
| `SnapchainNode` | `node/snapchain_node.rs`: one ShardProposer per data shard, one BlockProposer, one channel between them | all of the above plus `restarts` | `ShardStep(s)`, `BlockStep`, `Restart` (the process stops and `create` runs over the same stores; every consensus actor starts again at height 1, as `start_height: (shard, 1)` in snapchain_node.rs 73-74 and 136-137), `Done` (all modelled heights decided) |
| `AbstractChain` | what the node promises about its persisted chains (spec.md 3, 4.1, 8.1) | `decided`, `log`, `blocks` | `Decide(s)`, `Store(s)`, `CommitBlock` |
| `MC_SnapchainNode` | model values for TLC | | |

Correspondence rules used throughout:

* A proposer method runs inside its shard's one consensus actor and takes `&mut self`, so the methods of one proposer never overlap.
  An awaited step keeps the proposer busy (`Busy`, `BlockBusy`) until it returns: the send in `decide`, the publishing loop of `register_validator`, the collection of the block proposer's `propose_value`, or the block send in its `decide`.
* `decide` is one action up to its `send().await`.
  A second action covers the rest: push to `chunks`, `commit_shard_chunk`, remove the proposal.
  A restart can fall between the two.
* BLAKE3 is modelled as injective: the hash of a header is the header.
  Two headers hash alike exactly when all their fields are equal.
  This is why block headers collide: their `shard_headers_hash` is empty and they carry no round.
* Consensus is the environment.
  The ghost `netChain` holds the value the network decided at each height.
  A local decision takes the decided value if there is one, or else a recorded proposal that is valid for this node (`validate_state_change`) and for the other validators (`NetValid`, which checks the root only).
  `NetworkDecide` lets the network decide without this node.
* The data is abstracted.
  Transactions are model values from `TxBatches`.
  A state root is the sequence of batches applied.
  `current_time()` is a choice from `Times`.

"map" in PROJECT.json gives the source lines of every definition.
Definitions marked `spec_modelled` translate code that is not under `src/`: ShardEngine, BlockEngine, the RocksDB iterator and the consensus environment.
They are modelled from spec.md.

## 4. Runs

| Run | cfg | Expect | What it shows |
|---|---|---|---|
| store_scan | MC_ShardStore.cfg | pass | The big-endian keys sort numerically across the 255/256 and 65535/65536 byte boundaries. The reverse one-entry scan finds the highest block number. Paged `get_shard_chunks`, with a page size of 2, returns every range exactly once and in order. |
| node_restart | node_restart.cfg | pass | One shard, two rounds per height, a channel of 1, one restart and failing puts: round timeouts, decisions of a later round, a send that blocks, a restart inside either `decide`. `BlockChunksDecided` holds, and the channel never exceeds its capacity (`TypeOK`). Across the restart `BlockChunksDecided` relies on peers of the data shard pinning the value of a re-run height (see *Validator sets* in §7). |
| node_catchup | node_catchup.cfg | pass | One shard, other validators in the block shard and one catch-up per proposer: peer blocks replace this node's proposals under the same hash, blocks are decided without this node, and catch-up republishes decided chunks and blocks on the shared channels. `ShardLogMatchesDecisions`: the shard log holds the decided value at every number, with catch-up, peer proposals and a decide of an unknown value. `BlockChunksDecided`: catch-up and live chunks of several heights on one channel reach only the block of their own height. |
| node_liveness | node_liveness.cfg | pass | Two shards. `AllBlocksDecided`: under the fairness below, the block shard decides every modelled height. `ChainRefinement`: the node implements `AbstractChain` under the mapping `decided <- netChain`, `log <- shardStore`, `blocks <- ` the chunks of each stored block. |
| chain_after_restart | chain_after_restart.cfg | violation | `ChainLinked` fails. After a restart, `chunks` is empty and the next chunk proposed names the genesis hash as its parent. The other validators check only the root, so it is decided. |
| hole_after_unknown_decide | hole_after_unknown_decide.cfg | violation | `ShardLogGapless` fails. A decide for a value this node never saw is a no-op, and catch-up republishes chunks without committing them, so the hole stays. |
| catchup_duplicates | catchup_duplicates.cfg | violation | `BlockShardsDistinct` fails. Catch-up and decide both publish a chunk of the same height, and the block holds both. |
| block_hash_collision | block_hash_collision.cfg | violation | `BlockIsDecidedProposal` fails. Rounds 0 and 1 produce equal block headers when they carry the same timestamp. The insert overwrites, so decide commits the block of round 1 for a round-0 decision. |
| block_fork | block_fork.cfg | violation | `BlockChainLinked` fails. The other validators decide block 1 without this node; its `decide` is a no-op, its proposal for height 2 takes the parent from its own empty block store (the genesis hash), `add_proposed_value` accepts it everywhere, and it is decided and committed. |
| restart_rewrites_block | restart_rewrites_block.cfg | violation | `BlockWriteOnce` fails. After a restart the block consensus starts again at height 1 (`start_height: (block_shard, 1)`), and the new block 1, whose parent is the old block 1, overwrites it in the block store. The overwrite comes from the engine model (the engine is not under `src/`); an engine that follows spec.md 4.1 would fail the node on that commit instead. |
| restart_drops_block | restart_drops_block.cfg | violation | `StoredBlocksDelivered` fails. `decide` commits block 1 and the process restarts while it awaits the send on `block_tx`: the block is in the store and was never delivered, and nothing republishes stored blocks. |
| ignored_commit_failure | ignored_commit_failure.cfg | violation | `DecidedChunksStored` fails. `commit_shard_chunk` drops the error of `put_shard_chunk`, so a decided chunk is pushed to `chunks` and published but never stored. |

Every property of a passing run has a mutant in PROJECT.json that a plausible bug in the code would introduce, and TLC finds the property violated under that mutant:

| Property | Mutant |
|---|---|
| TypeOK (node_restart) | an unbounded send |
| ShardLogMatchesDecisions | commit at confirmed+1 instead of at the chunk's block number |
| BlockChunksDecided | a chunk indexed under the requested height instead of its own |
| ChainRefinement (node_liveness) | commit at confirmed+1 instead of at the chunk's block number |
| AllBlocksDecided | collection without a deadline |
| TypeOK (store) | a put under the next key |
| LastChunkIsHighest | little-endian keys |
| PagedScanMatchesRange | the page token taken from the first key of the page |

## 5. Bounds

* **Shards and heights.**
  Two data shards and heights 1..2 are the smallest setting in which:
  * chunks of different heights and different shards interleave on the one channel;
  * a block is built from two chunks;
  * a chain has a parent link to check.
* **Channel capacity.**
  A capacity of 2 (1 in the one-shard runs) is below the number of chunks that can be in flight, so the blocking send happens.
* **Rounds.**
  One extra round (MaxRound = 1) gives competing proposals at one height.
  It is used with one shard to keep the state space under a few minutes.
* **Restarts and catch-ups.**
  One restart (node_restart, with one shard, one batch and a channel of 1, near
  1.5M states) reaches a restart between the send and the commit of the shard
  `decide`, and between the commit and the send of the block `decide`; a second
  restart with two rounds goes beyond 5 minutes.  One catch-up reaches every catch-up
  scenario in the findings. Two shards are used in node_liveness and the violation
  runs that need them; node_catchup has one shard, because block peers with two
  shards go beyond 15 minutes.
  The same properties are checked in runs that combine only one of these features at a time, because combining them all goes beyond 15 minutes of model checking.
* **Times.**
  `Times = {0}` makes every proposal of a height share its timestamp, as proposals made within one second do.
  This is the case where the block hash collides.

## 6. Fairness

`Spec` assumes weak fairness on the following actions:
* each shard's `ProposeValue`, `DecideSend`, `DecideCommit`, `DecideUnknown` and `CatchupPublish`;
* the block proposer's `BeginProposeValue`, `CollectTick`, `CollectTimeout`, `Decide`, `DecidePublish` and `BlockDecideUnknown`.

The code justifies this:
* the consensus actors call propose and decide, which is the BFT liveness assumption;
* an awaited send completes once the receiver frees room;
* the 10 ms interval keeps ticking;
* `sleep_until(deadline)` always fires.

There is no fairness on `RoundTimeout`, `NetworkDecide`, `AddProposedValue`, `RegisterValidator`, their block-shard counterparts or `Restart`.
These are environment events that need not happen.
`Done` is a stuttering step once every modelled height is decided, so deadlock checking stays on in every passing run.

## 7. Not modelled

* **Transaction execution, mempool and state roots.**
  They are abstracted to sequences of batches.
* **Storage errors other than a failed put.**
  A failed `put_shard_chunk` is modelled (`StorageMayFail`); read errors are not.
* **Signatures, validator sets and the `current_height` of validators.**
  `create` gives every shard a validator set of this node alone
  (snapchain_node.rs 72, 134).  The data shards are modelled with other
  validators (`NetworkDecide`), who keep the value decided at a height once it
  is decided: after a restart a re-run height decides that value again
  (`ShardProposer.DecidedKeys`).  With the set `create` builds, the restarted
  shard would decide a new chunk 1 of its own and commit it over the stored
  one, the shard counterpart of restart_rewrites_block; no run checks the
  shard log across a restart for that reason.
* **The malachite consensus internals.**
  Consensus is an environment that decides one value per height.
* **Gossip and the RPC server.**
  They appear only as the chunks a catch-up receives.
* **The `block_tx` consumer and a failing send on it.**
  The receiver belongs to the caller of `create`; the stream is a ghost of what
  it receives, and a send error (logged and ignored, when the receiver is
  dropped) is not modelled.  Duplicates on the stream are the consumer's
  concern (spec.md 9); TLC reaches two different blocks of one height on it
  (catch-up delivers the decided block, a later `decide` the proposal that a
  peer block with the same header replaced), a consequence of the header-only
  block hash that block_hash_collision reports.
* **Peers of the block shard in most runs.**
  With `BlockPeers = FALSE` the block shard decides only this node's own
  proposals, as the validator set `create` builds holds only this node; the
  restart finding is stated for that setting.  Peers are enabled in
  node_catchup and block_fork.
* **A restart in the middle of block catch-up.**
  `BlockRegisterValidator` publishes the fetched blocks in one step; a restart
  in the middle of it loses only republished blocks that are not stored here.
* **Observations without a run.**
  Proposals of undecided rounds stay in `proposed_chunks`; the chunks of a
  block follow channel arrival rather than shard order (spec.md 3); and a
  chunk taken off the channel after its block was decided re-creates
  `pending_chunks` for that height (spec.md 4.3 asks it be evicted). All are
  hazards in PROJECT.json with a note; the number of runs is kept to the
  distinct questions above.
* **Liveness of the data shards.**
  The height bound stops the block proposer draining the channel, so a shard
  liveness property would fail because of the bound rather than the code.
* **Clock underflow in `current_time`.**
