----------------------------- MODULE ShardStore -----------------------------
(***************************************************************************)
(* The persistent log of shard chunks of one data shard                    *)
(* (src/src/storage/store/shard.rs) over the RocksDB key space that holds  *)
(* it.  A key is the RootPrefix::Shard byte followed by the block number   *)
(* as 8 big-endian bytes; the value is the encoded chunk, modelled by the  *)
(* chunk record itself.  The RocksDB iterator is not in src/: its          *)
(* behaviour (bytewise key order, [start, stop) range, a page token that   *)
(* resumes after the last key seen) is taken from spec.md section 6.       *)
(***************************************************************************)
EXTENDS Naturals, Sequences, TLC

CONSTANTS
    BlockNumbers,     \* the u64 block numbers a chunk may carry
    Payloads,         \* what tells two chunks of one block number apart
    RootPrefixShard,  \* the byte RootPrefix::Shard
    PageSize,         \* PAGE_SIZE of ShardStore::get_shard_chunks (100 in the code)
    None              \* Option::None

ASSUME PageSize \in Nat \ {0}

VARIABLE db   \* the key space of the shard's RocksDB: key -> stored chunk

KeyWidth == 8           \* u64::to_be_bytes yields 8 bytes

ShardChunk == [block_number : BlockNumbers, payload : Payloads]

(* u64::to_le_bytes, the byte order a careless port would use. *)
RECURSIVE ToLeBytes(_, _)
ToLeBytes(n, w) ==
    IF w = 0 THEN <<>> ELSE <<n % 256>> \o ToLeBytes(n \div 256, w - 1)

(* u64::to_be_bytes: the most significant byte first. *)
RECURSIVE ToBeBytes(_, _)
ToBeBytes(n, w) ==
    IF w = 0 THEN <<>> ELSE Append(ToBeBytes(n \div 256, w - 1), n % 256)

MakeShardKeyLE(block_number) == <<RootPrefixShard>> \o ToLeBytes(block_number, KeyWidth)

MakeShardKey(block_number) == <<RootPrefixShard>> \o ToBeBytes(block_number, KeyWidth)

(* RocksDB's default comparator: bytewise lexicographic order. *)
RECURSIVE KeyLess(_, _)
KeyLess(a, b) ==
    IF a = <<>> THEN b # <<>>
    ELSE IF b = <<>> THEN FALSE
    ELSE IF Head(a) # Head(b) THEN Head(a) < Head(b)
    ELSE KeyLess(Tail(a), Tail(b))

(* The keys of S as a sequence in iteration order (descending if reverse). *)
RECURSIVE InKeyOrder(_, _)
InKeyOrder(S, reverse) ==
    IF S = {} THEN <<>>
    ELSE LET first == CHOOSE k \in S :
                         \A j \in S \ {k} : IF reverse THEN KeyLess(j, k) ELSE KeyLess(k, j)
         IN <<first>> \o InKeyOrder(S \ {first}, reverse)

(* The keys RocksDB::for_each_iterator_by_prefix_paged visits: those in    *)
(* [start, stop), after the page token, in key order.                      *)
IteratedKeys(start, stop, reverse, token) ==
    InKeyOrder({k \in DOMAIN db :
                  /\ ~KeyLess(k, start)
                  /\ stop = None \/ KeyLess(k, stop)
                  /\ token = None \/ (IF reverse THEN KeyLess(k, token) ELSE KeyLess(token, k))},
               reverse)

(* A page token taken from the first key of the page, not the last.       *)
GetShardPageByPrefixFirstKey(page_size, reverse, page_token, start_prefix, stop_prefix) ==
    LET keys == IteratedKeys(start_prefix, stop_prefix, reverse, page_token)
        n    == IF Len(keys) < page_size THEN Len(keys) ELSE page_size
    IN  [shard_chunks    |-> [i \in 1..n |-> db[keys[i]]],
         next_page_token |-> IF Len(keys) >= page_size THEN keys[1] ELSE None]

(* get_shard_page_by_prefix: decode each visited value; the callback stops *)
(* the iteration once page_size chunks are collected and only then records *)
(* the last key as the next page token.                                    *)
GetShardPageByPrefix(page_size, reverse, page_token, start_prefix, stop_prefix) ==
    LET keys == IteratedKeys(start_prefix, stop_prefix, reverse, page_token)
        n    == IF Len(keys) < page_size THEN Len(keys) ELSE page_size
    IN  [shard_chunks    |-> [i \in 1..n |-> db[keys[i]]],
         next_page_token |-> IF Len(keys) >= page_size THEN keys[page_size] ELSE None]

(* get_last_shard_chunk: a reverse page of one entry from key(0), no stop. *)
(* The TooManyShardsInResult branch cannot be taken with a page of one.    *)
GetLastShardChunk ==
    LET page == GetShardPageByPrefix(1, TRUE, None, MakeShardKey(0), None)
    IN  IF page.shard_chunks = <<>> THEN None ELSE page.shard_chunks[1]

(* get_current_height and ShardStore::max_block_number: the block number  *)
(* of the last chunk, 0 when the store is empty.                           *)
MaxBlockNumber ==
    IF GetLastShardChunk = None THEN 0 ELSE GetLastShardChunk.block_number

(* ShardStore::get_shard_chunks: follow next_page_token until a page comes *)
(* back without one, concatenating the pages.                              *)
GetShardChunks(start_block_number, stop_block_number) ==
    LET stop == IF stop_block_number = None THEN None ELSE MakeShardKey(stop_block_number)
        RECURSIVE Loop(_, _)
        Loop(token, acc) ==
            LET page == GetShardPageByPrefix(PageSize, FALSE, token,
                                             MakeShardKey(start_block_number), stop)
            IN  IF page.next_page_token = None
                THEN acc \o page.shard_chunks
                ELSE Loop(page.next_page_token, acc \o page.shard_chunks)
    IN  Loop(None, <<>>)

-----------------------------------------------------------------------------
Init == db = [k \in {} |-> None]

(* A put under the key of the next block number. *)
PutShardChunkNextKey(shard_chunk) ==
    db' = (MakeShardKey(shard_chunk.block_number + 1) :> shard_chunk) @@ db

(* put_shard_chunk: one put of the encoded chunk under its key, committed  *)
(* in one transaction; an existing entry at that key is overwritten.       *)
PutShardChunk(shard_chunk) ==
    db' = (MakeShardKey(shard_chunk.block_number) :> shard_chunk) @@ db

Next == \E c \in ShardChunk : PutShardChunk(c)

Spec == Init /\ [][Next]_db

-----------------------------------------------------------------------------
(* The reference the scans are checked against: the stored chunks whose    *)
(* block number lies in [lo, hi), in ascending numeric order.              *)
RECURSIVE ByNumber(_)
ByNumber(S) ==
    IF S = {} THEN <<>>
    ELSE LET c == CHOOSE x \in S : \A y \in S : x.block_number <= y.block_number
         IN <<c>> \o ByNumber(S \ {c})

StoredChunks == {db[k] : k \in DOMAIN db}

TypeOK ==
    /\ DOMAIN db \subseteq {MakeShardKey(n) : n \in BlockNumbers}
    /\ \A k \in DOMAIN db : db[k] \in ShardChunk /\ k = MakeShardKey(db[k].block_number)

(* max_block_number, found by a reverse scan in byte order, is the largest *)
(* stored block number: the big-endian key encoding makes byte order agree *)
(* with numeric order, across byte boundaries (255/256) included.          *)
LastChunkIsHighest ==
    \A c \in StoredChunks : c.block_number <= MaxBlockNumber

(* get_shard_chunks over any [start, stop) and over [start, end of store)  *)
(* returns, across however many pages, exactly the stored chunks of that   *)
(* range, each once, in ascending block number (spec.md section 8.6).      *)
PagedScanMatchesRange ==
    \A lo \in BlockNumbers, hi \in BlockNumbers \cup {None} :
        GetShardChunks(lo, hi) =
            ByNumber({c \in StoredChunks :
                        c.block_number >= lo /\ (hi = None \/ c.block_number < hi)})
=============================================================================
