---------------------------- MODULE AbstractChain ----------------------------
(***************************************************************************)
(* What a node promises about the chains it persists, with the proposers,  *)
(* the channel and the collection left out (spec.md sections 3, 4.1 and   *)
(* 8.1):                                                                   *)
(*   - consensus decides one value per shard and height, and never         *)
(*     revises it;                                                         *)
(*   - the log of a shard holds, at a block number, only the value decided *)
(*     there, written once;                                                *)
(*   - blocks are committed at heights 1, 2, 3, ... in turn, never         *)
(*     rewritten, and a block of height n holds only chunks decided at n.  *)
(***************************************************************************)
EXTENDS Naturals, Sequences, FiniteSets

CONSTANT DataShards

VARIABLES
    decided,   \* s -> Seq(value): the values consensus decided on shard s, by height
    log,       \* s -> (block number -> value): the persistent log of shard s
    blocks     \* height -> Seq(value): the shard chunks of the committed block

chainVars == <<decided, log, blocks>>

Init ==
    /\ decided = [s \in DataShards |-> <<>>]
    /\ log = [s \in DataShards |-> [n \in {} |-> {}]]
    /\ blocks = [n \in {} |-> <<>>]

(* Consensus decides the next height of shard s; earlier decisions stay.   *)
Decide(s) ==
    /\ DOMAIN decided' = DataShards
    /\ Len(decided'[s]) = Len(decided[s]) + 1
    /\ SubSeq(decided'[s], 1, Len(decided[s])) = decided[s]
    /\ \A t \in DataShards \ {s} : decided'[t] = decided[t]
    /\ UNCHANGED <<log, blocks>>

(* The value decided at block number n is written to the log of shard s,   *)
(* at a number not written before.                                          *)
Store(s) ==
    \E n \in 1..Len(decided[s]) \ DOMAIN log[s] :
        /\ DOMAIN log' = DataShards
        /\ DOMAIN log'[s] = DOMAIN log[s] \cup {n}
        /\ log'[s][n] = decided[s][n]
        /\ \A m \in DOMAIN log[s] : log'[s][m] = log[s][m]
        /\ \A t \in DataShards \ {s} : log'[t] = log[t]
        /\ UNCHANGED <<decided, blocks>>

(* The block of the next height is committed, made of chunks decided at    *)
(* that height.                                                            *)
CommitBlock ==
    LET n == Cardinality(DOMAIN blocks) + 1
    IN  /\ DOMAIN blocks' = DOMAIN blocks \cup {n}
        /\ \A m \in DOMAIN blocks : blocks'[m] = blocks[m]
        /\ \A i \in DOMAIN blocks'[n] :
              \E s \in DataShards : n <= Len(decided[s]) /\ blocks'[n][i] = decided[s][n]
        /\ UNCHANGED <<decided, log>>

Next ==
    \/ \E s \in DataShards : Decide(s) \/ Store(s)
    \/ CommitBlock

Spec == Init /\ [][Next]_chainVars
=============================================================================
