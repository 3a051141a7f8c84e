----------------------------- MODULE DataSharding -----------------------------
(***************************************************************************)
(* Which tokens a rank trains on: src/data.py with the corpus and sharding *)
(* part of train_ddp.train (train_fsdp.train has the same lines).          *)
(*                                                                         *)
(* A token is named by its position in the corpus.  The text at a position *)
(* is only needed to compare windows of different ranks; the corpus being  *)
(* one sentence over and over, the place in the sentence determines it.    *)
(***************************************************************************)
EXTENDS Integers, FiniteSets

CONSTANTS
  PangramLen,   \* length of _PANGRAM, 45
  MinRepeats,   \* the 50 of max(50, batch_size * block_size // 10 + 50)
  Commands      \* --batch-size, --block-size and the world size of a run

\* The runs shrink the sentence and the minimum to keep the corpus small; the
\* theorems need no more than this of them.
ASSUME CorpusAssumption ==
  PangramLen \in Nat /\ PangramLen >= 10 /\ MinRepeats \in Nat /\ MinRepeats >= 1
ASSUME CommandsAssumption ==
  Commands \subseteq [batch : Nat \ {0}, block : Nat \ {0}, world : Nat \ {0}]

VARIABLES
  args,     \* command line and world size
  shard,    \* shard[r]: the positions [start, end) of rank r
  batch     \* batch[r]: where the rows of rank r's last batch start

vars == <<args, shard, batch>>

Ranks == 0 .. args.world - 1
NotSharded == [start |-> 0, end |-> 0]

-----------------------------------------------------------------------------
Larger(a, b) == IF a >= b THEN a ELSE b

\* Mutant: the corpus does not grow with the number of ranks.
UnscaledRepeats(b, k, w) == Larger(MinRepeats, ((b * k) \div 10) + MinRepeats)

Repeats(b, k, w) == Larger(MinRepeats, ((b * k) \div 10) + MinRepeats) * w

\* build_corpus and encode: one token per character
CorpusLen(a) == PangramLen * Repeats(a.batch, a.block, a.world)
Text(i, k) == [j \in 0 .. k - 1 |-> (i + j) % PangramLen]

\* make_rank_shard(data, rank, world_size) for data of length n
ShardLen(n, w) == n \div w

ShardStart(n, w, r) == r * ShardLen(n, w)

ShardEnd(n, w, r) ==
  IF r < w - 1 THEN ShardStart(n, w, r) + ShardLen(n, w) ELSE n

\* Mutant: max_start without its "- 1"; the target row runs off the shard.
MaxStartOffByOne(len, k) == len - k

\* get_batch: the largest start that leaves room for the row and its target
MaxStart(len, k) == len - k - 1

-----------------------------------------------------------------------------
Init ==
  /\ args \in Commands
  /\ shard = [r \in Ranks |-> NotSharded]
  /\ batch = [r \in Ranks |-> {}]

\* Mutant: every rank takes its shard from the front of the corpus.
MakeFirstShard(r) ==
  /\ shard[r] = NotSharded
  /\ shard' = [shard EXCEPT ![r] =
       [start |-> 0, end |-> ShardLen(CorpusLen(args), args.world)]]
  /\ UNCHANGED <<args, batch>>

MakeRankShard(r) ==
  /\ shard[r] = NotSharded
  /\ shard' = [shard EXCEPT ![r] =
       [start |-> ShardStart(CorpusLen(args), args.world, r),
        end   |-> ShardEnd(CorpusLen(args), args.world, r)]]
  /\ UNCHANGED <<args, batch>>

\* torch.randint(0, max_start + 1, (batch_size,)): each row's start is drawn
\* from the same range, the same start may be drawn twice.
Draw(r, len) ==
  \E ix \in [1 .. args.batch -> 0 .. MaxStart(len, args.block)] :
    batch' = [batch EXCEPT ![r] = {shard[r].start + ix[i] : i \in 1 .. args.batch}]

GetBatch(r) ==
  /\ shard[r] # NotSharded
  /\ shard[r].end - shard[r].start > args.block     \* else SystemExit
  /\ Draw(r, shard[r].end - shard[r].start)
  /\ UNCHANGED <<args, shard>>

Next == \E r \in Ranks : MakeRankShard(r) \/ GetBatch(r)

Spec == Init /\ [][Next]_vars

-----------------------------------------------------------------------------
Sharded(r) == shard[r] # NotSharded
Tokens(r) == shard[r].start .. shard[r].end - 1
Row(i) == i .. i + args.block     \* the row at i together with its target

\* Type correctness.
TypeOK ==
  /\ args \in Commands
  /\ shard \in [Ranks -> [start : Nat, end : Nat]]
  /\ batch \in [Ranks -> SUBSET Nat]

\* No token belongs to two ranks, and once every rank has its shard no token
\* belongs to none (make_rank_shard's docstring).  The world size divides the
\* corpus's length, so the last shard is never longer than the others.
ShardsPartition ==
  /\ \A q, r \in Ranks : q # r => Tokens(q) \cap Tokens(r) = {}
  /\ (\A r \in Ranks : Sharded(r)) =>
       UNION {Tokens(r) : r \in Ranks} = 0 .. CorpusLen(args) - 1

\* A rank reads only tokens of its own shard, targets included.
RowsInShard == \A r \in Ranks : \A i \in batch[r] : Row(i) \subseteq Tokens(r)

\* The corpus is large enough for every rank, for all positive batch and block
\* sizes and any world size: for these the SystemExit of train_ddp.py:178 and the
\* ValueError of get_batch are dead code.
GuardNeverFires ==
  \A r \in Ranks : Sharded(r) => shard[r].end - shard[r].start > args.block

\* train_ddp.py:15-18: no two ranks ever see the same text window.
NoTextShared ==
  \A q, r \in Ranks : q # r =>
    \A i \in batch[q], j \in batch[r] : Text(i, args.block) # Text(j, args.block)
=============================================================================
