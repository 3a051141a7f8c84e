-------------------------- MODULE DataShardingProofs --------------------------
(***************************************************************************)
(* Proofs about the sharding for all positive batch and block sizes, every *)
(* world size, sentence length of at least 10 and minimum repeat count.    *)
(***************************************************************************)
EXTENDS DataSharding, TLAPS

\* Tokens a rank gets: the corpus divides evenly among the ranks.
Share(a) == PangramLen * Larger(MinRepeats, ((a.batch * a.block) \div 10) + MinRepeats)

LEMMA ProductMonotone ==
  ASSUME NEW a \in Nat, NEW b \in Nat, NEW s \in Nat, a <= b
  PROVE  a * s <= b * s
<1>1. PICK d \in Nat : b = a + d
  <2>1. b - a \in Nat /\ b = a + (b - a)
    OBVIOUS
  <2> QED BY <2>1
<1>2. b * s = a * s + d * s
  BY <1>1
<1>3. d * s \in Nat /\ a * s \in Nat
  OBVIOUS
<1> QED BY <1>2, <1>3

LEMMA ExactQuotient ==
  ASSUME NEW s \in Nat, NEW w \in Nat \ {0}
  PROVE  (s * w) \div w = s
OBVIOUS

\* A share is longer than a block.
LEMMA ShareIsEnough ==
  ASSUME NEW a \in Commands
  PROVE  Share(a) \in Nat /\ Share(a) > a.block
<1> DEFINE R == Larger(MinRepeats, ((a.batch * a.block) \div 10) + MinRepeats)
<1>1. a.batch \in Nat \ {0} /\ a.block \in Nat \ {0}
  BY CommandsAssumption
<1>2. a.batch * a.block \in Nat /\ a.batch * a.block >= a.block
  BY <1>1
<1>3. R \in Nat /\ 10 * R > a.block
  <2> HIDE DEF R
  <2>1. R \in Nat /\ R >= ((a.batch * a.block) \div 10) + 1
    BY <1>2, CorpusAssumption DEF R, Larger
  <2>2. 10 * ((a.batch * a.block) \div 10) + 10 > a.batch * a.block
    BY <1>2
  <2> QED BY <1>1, <1>2, <2>1, <2>2
<1>4. PangramLen * R \in Nat /\ PangramLen * R >= 10 * R
  BY <1>3, CorpusAssumption, ProductMonotone
<1>5. Share(a) = PangramLen * R
  BY DEF Share
<1> HIDE DEF R
<1> QED BY <1>1, <1>3, <1>4, <1>5

\* Every shard is one share, the last one too: the remainder is empty.
LEMMA ShardBounds ==
  ASSUME NEW a \in Commands, NEW r \in 0 .. a.world - 1
  PROVE  /\ CorpusLen(a) = a.world * Share(a)
         /\ ShardStart(CorpusLen(a), a.world, r) = r * Share(a)
         /\ ShardEnd(CorpusLen(a), a.world, r) = (r + 1) * Share(a)
<1> DEFINE S == Share(a)
<1>1. a.world \in Nat \ {0} /\ r \in Nat
  BY CommandsAssumption
<1>2. S \in Nat
  BY ShareIsEnough
<1>3. CorpusLen(a) = S * a.world
  <2> DEFINE R == Larger(MinRepeats, ((a.batch * a.block) \div 10) + MinRepeats)
  <2>1. CorpusLen(a) = PangramLen * (R * a.world) /\ S = PangramLen * R
    BY DEF CorpusLen, Repeats, Share
  <2>2. R \in Int
    <3>1. a.batch \in Nat /\ a.block \in Nat
      BY CommandsAssumption
    <3> QED BY <3>1, CorpusAssumption DEF Larger
  <2> HIDE DEF R
  <2> QED BY <1>1, <2>1, <2>2, CorpusAssumption
<1> HIDE DEF S
<1>4. ShardLen(CorpusLen(a), a.world) = S
  BY <1>1, <1>2, <1>3, ExactQuotient DEF ShardLen
<1>5. ShardStart(CorpusLen(a), a.world, r) = r * S
  BY <1>4 DEF ShardStart
<1>6. ShardEnd(CorpusLen(a), a.world, r) = (r + 1) * S
  <2>1. CASE r < a.world - 1
    BY <1>1, <1>2, <1>4, <1>5, <2>1 DEF ShardEnd
  <2>2. CASE ~(r < a.world - 1)
    <3>1. r + 1 = a.world
      BY <1>1, <2>2
    <3> QED BY <1>1, <1>2, <1>3, <2>2, <3>1 DEF ShardEnd
  <2> QED BY <2>1, <2>2
<1> QED BY <1>1, <1>2, <1>3, <1>5, <1>6 DEF S

-----------------------------------------------------------------------------
\* The inductive invariant: a rank that has its shard holds the r-th share.
ShardInv ==
  /\ TypeOK
  /\ \A r \in Ranks : Sharded(r) =>
       shard[r].start = r * Share(args) /\ shard[r].end = (r + 1) * Share(args)
  /\ RowsInShard

LEMMA ShardLength ==
  ASSUME ShardInv, NEW r \in Ranks, Sharded(r)
  PROVE  /\ shard[r].start \in Nat /\ shard[r].end \in Nat
         /\ shard[r].end - shard[r].start = Share(args)
         /\ Share(args) > args.block /\ args.block \in Nat
<1>1. args \in Commands /\ args.world \in Nat /\ args.block \in Nat
  BY CommandsAssumption DEF ShardInv, TypeOK
<1>2. Share(args) \in Nat /\ Share(args) > args.block
  BY <1>1, ShareIsEnough
<1>3. r \in Nat
  BY <1>1 DEF Ranks
<1>4. (r + 1) * Share(args) - r * Share(args) = Share(args)
  BY <1>2, <1>3
<1> QED BY <1>1, <1>2, <1>4 DEF ShardInv, TypeOK

LEMMA ShardInit == Init => ShardInv
BY DEF Init, ShardInv, TypeOK, RowsInShard, Sharded, NotSharded

LEMMA MakeRankShardStep ==
  ASSUME ShardInv, NEW r \in Ranks, MakeRankShard(r)
  PROVE  ShardInv'
<1>1. args \in Commands /\ r \in 0 .. args.world - 1 /\ r \in Nat
  BY CommandsAssumption DEF ShardInv, TypeOK, Ranks
<1>2. shard' = [shard EXCEPT ![r] = [start |-> r * Share(args), end |-> (r + 1) * Share(args)]]
  BY <1>1, ShardBounds DEF MakeRankShard
<1>3. r * Share(args) \in Nat /\ (r + 1) * Share(args) \in Nat
  BY <1>1, ShareIsEnough
<1>4. UNCHANGED <<args, batch>> /\ ~Sharded(r)
  BY DEF MakeRankShard, Sharded
<1>5. TypeOK'
  BY <1>2, <1>3, <1>4 DEF ShardInv, TypeOK, Ranks
<1>6. \A q \in Ranks : Sharded(q)' =>
        shard'[q].start = q * Share(args) /\ shard'[q].end = (q + 1) * Share(args)
  BY <1>2, <1>4 DEF ShardInv, TypeOK, Sharded
<1>7. batch[r] = {}
  <2>1. Tokens(r) = {}
    BY <1>4 DEF Tokens, Sharded, NotSharded
  <2>2. \A i \in batch[r] : i \in Row(i)
    BY CommandsAssumption DEF ShardInv, TypeOK, Row
  <2> QED BY <2>1, <2>2 DEF ShardInv, RowsInShard
<1>8. RowsInShard'
  BY <1>2, <1>4, <1>7 DEF ShardInv, TypeOK, RowsInShard, Row, Tokens, Ranks
<1> QED BY <1>4, <1>5, <1>6, <1>8 DEF ShardInv, Ranks, Share

LEMMA GetBatchStep ==
  ASSUME ShardInv, NEW r \in Ranks, GetBatch(r)
  PROVE  ShardInv'
<1> DEFINE len == shard[r].end - shard[r].start
<1>1. UNCHANGED <<args, shard>> /\ Sharded(r)
  BY DEF GetBatch, Sharded
<1>2. shard[r].start \in Nat /\ shard[r].end \in Nat /\ args.block \in Nat
  BY <1>1, ShardLength
<1>3. PICK ix \in [1 .. args.batch -> 0 .. MaxStart(len, args.block)] :
        batch' = [batch EXCEPT ![r] = {shard[r].start + ix[i] : i \in 1 .. args.batch}]
  BY DEF GetBatch, Draw
<1>4. ASSUME NEW i \in 1 .. args.batch
      PROVE  /\ shard[r].start + ix[i] \in Nat
             /\ Row(shard[r].start + ix[i]) \subseteq Tokens(r)
  <2>1. ix[i] \in 0 .. (shard[r].end - shard[r].start) - args.block - 1
    BY <1>3 DEF MaxStart
  <2> QED BY <1>2, <2>1 DEF Row, Tokens
<1>5. batch' \in [Ranks -> SUBSET Nat]
  BY <1>3, <1>4 DEF ShardInv, TypeOK
<1>6. TypeOK'
  BY <1>1, <1>5 DEF ShardInv, TypeOK, Ranks
<1>7. \A j \in batch'[r] : Row(j) \subseteq Tokens(r)
  BY <1>3, <1>4 DEF ShardInv, TypeOK
<1>8. RowsInShard'
  BY <1>1, <1>3, <1>7 DEF ShardInv, TypeOK, RowsInShard, Row, Tokens, Ranks
<1> QED BY <1>1, <1>6, <1>8 DEF ShardInv, Ranks, Share, Sharded

THEOREM ShardCorrect == Spec => []ShardInv
<1>1. ShardInv /\ UNCHANGED vars => ShardInv'
  BY DEF vars, ShardInv, TypeOK, RowsInShard, Row, Tokens, Ranks, Share, Sharded
<1>2. ShardInv /\ [Next]_vars => ShardInv'
  BY <1>1, MakeRankShardStep, GetBatchStep DEF Next
<1> QED BY <1>2, ShardInit, PTL DEF Spec

\* The type invariant of the runs.
THEOREM ShardTypeCorrect == Spec => []TypeOK
BY ShardCorrect, PTL DEF ShardInv

\* No batch reads past its rank's shard, targets included.
THEOREM RowsStayInShard == Spec => []RowsInShard
BY ShardCorrect, PTL DEF ShardInv

\* The guards on the length of a shard are dead code for all positive batch and
\* block sizes.
THEOREM GuardIsDead == Spec => []GuardNeverFires
<1>1. ShardInv => GuardNeverFires
  BY ShardLength DEF GuardNeverFires
<1> QED BY <1>1, ShardCorrect, PTL

LEMMA TokensOfShare ==
  ASSUME ShardInv, NEW r \in Ranks
  PROVE  Tokens(r) = IF Sharded(r) THEN r * Share(args) .. (r + 1) * Share(args) - 1 ELSE {}
BY DEF ShardInv, Tokens, Sharded, NotSharded

LEMMA SharesDisjoint ==
  ASSUME NEW q \in Nat, NEW r \in Nat, q < r, NEW s \in Nat
  PROVE  (q * s .. (q + 1) * s - 1) \cap (r * s .. (r + 1) * s - 1) = {}
<1>1. (q + 1) * s <= r * s
  BY ProductMonotone
<1>2. (q + 1) * s \in Nat /\ r * s \in Nat /\ q * s \in Nat /\ (r + 1) * s \in Nat
  OBVIOUS
<1> QED BY <1>1, <1>2

LEMMA ShareOfToken ==
  ASSUME NEW s \in Nat \ {0}, NEW w \in Nat \ {0}, NEW i \in 0 .. w * s - 1
  PROVE  \E r \in 0 .. w - 1 : i \in r * s .. (r + 1) * s - 1
<1> DEFINE r == i \div s
<1>1. w * s \in Nat /\ i \in Nat
  OBVIOUS
<1>2. r \in Nat /\ r * s <= i /\ i < r * s + s
  BY <1>1
<1> HIDE DEF r
<1>3. (r + 1) * s = r * s + s
  BY <1>2
<1>4. r < w
  <2>1. SUFFICES ASSUME w <= r PROVE FALSE
    BY <1>2
  <2>2. w * s <= r * s
    BY <1>2, <2>1, ProductMonotone
  <2>3. r * s \in Nat
    BY <1>2
  <2> QED BY <1>1, <1>2, <2>2, <2>3
<1>5. r * s \in Nat /\ (r + 1) * s \in Nat
  BY <1>2
<1>6. i \in r * s .. (r + 1) * s - 1
  BY <1>1, <1>2, <1>3, <1>5
<1>7. r \in 0 .. w - 1
  BY <1>2, <1>4
<1> QED BY <1>6, <1>7

\* Every token of the corpus is trained on by one rank and no token by two.
THEOREM ShardsPartitionCorpus == Spec => []ShardsPartition
<1>1. ASSUME ShardInv, NEW q \in Ranks, NEW r \in Ranks, q # r
      PROVE  Tokens(q) \cap Tokens(r) = {}
  <2>1. q \in Nat /\ r \in Nat /\ Share(args) \in Nat
    BY <1>1, ShareIsEnough, CommandsAssumption DEF ShardInv, TypeOK, Ranks
  <2>2. q < r \/ r < q
    BY <1>1, <2>1
  <2> QED BY <1>1, <2>1, <2>2, TokensOfShare, SharesDisjoint
<1>2. ASSUME ShardInv, \A r \in Ranks : Sharded(r)
      PROVE  UNION {Tokens(r) : r \in Ranks} = 0 .. CorpusLen(args) - 1
  <2> DEFINE s == Share(args)
             w == args.world
  <2>1. args \in Commands /\ w \in Nat \ {0}
    BY <1>2, CommandsAssumption DEF ShardInv, TypeOK
  <2>2. s \in Nat \ {0}
    BY <2>1, ShareIsEnough, CommandsAssumption
  <2>3. CorpusLen(args) = w * s
    <3>1. 0 \in 0 .. w - 1
      BY <2>1
    <3> QED BY <2>1, <3>1, ShardBounds
  <2>4. \A r \in Ranks : Tokens(r) = r * s .. (r + 1) * s - 1
    BY <1>2, TokensOfShare
  <2> HIDE DEF s
  <2>5. ASSUME NEW i \in 0 .. w * s - 1
        PROVE  \E r \in Ranks : i \in Tokens(r)
    <3>1. \E r \in 0 .. w - 1 : i \in r * s .. (r + 1) * s - 1
      BY <2>1, <2>2, ShareOfToken
    <3> QED BY <2>4, <3>1 DEF Ranks
  <2>6. ASSUME NEW r \in Ranks, NEW i \in Tokens(r)
        PROVE  i \in 0 .. w * s - 1
    <3>1. r \in Nat /\ r + 1 <= w
      BY <2>1 DEF Ranks
    <3>2. (r + 1) * s <= w * s
      BY <2>1, <2>2, <3>1, ProductMonotone
    <3>3. r * s \in Nat /\ (r + 1) * s \in Nat /\ w * s \in Nat
      BY <2>1, <2>2, <3>1
    <3>4. i \in r * s .. (r + 1) * s - 1
      BY <2>4, <2>6
    <3> QED BY <3>2, <3>3, <3>4
  <2> QED BY <2>3, <2>5, <2>6
<1>3. ShardInv => ShardsPartition
  BY <1>1, <1>2 DEF ShardsPartition
<1> QED BY <1>3, ShardCorrect, PTL

-----------------------------------------------------------------------------
LEMMA Remainder ==
  ASSUME NEW p \in Nat \ {0}, NEW m \in Nat, NEW t \in 0 .. p - 1
  PROVE  (m * p + t) % p = t
OBVIOUS

LEMMA WholeSentences ==
  ASSUME NEW p \in Nat \ {0}, NEW m \in Nat, NEW j \in Nat
  PROVE  (m * p + j) % p = j % p
<1> DEFINE d == j \div p
           t == j % p
<1>1. d \in Nat /\ t \in 0 .. p - 1
  OBVIOUS
<1>2. t = j - p * d
  OBVIOUS
<1> HIDE DEF d, t
<1>3. m * p + j = (m + d) * p + t
  BY <1>1, <1>2
<1>4. ((m + d) * p + t) % p = t
  BY <1>1, Remainder
<1> QED BY <1>3, <1>4 DEF t

\* A share is a whole number of sentences, so all shards hold the same text:
\* what is at an offset of one shard is at the same offset of every other.
THEOREM ShardsHoldSameText ==
  ASSUME NEW k \in Nat
  PROVE  Spec => [](\A q, r \in Ranks : Sharded(q) /\ Sharded(r) =>
                      \A j \in Nat : Text(shard[q].start + j, k) = Text(shard[r].start + j, k))
<1>1. ASSUME ShardInv, NEW r \in Ranks, Sharded(r), NEW j \in Nat
      PROVE  Text(shard[r].start + j, k) = Text(j, k)
  <2> DEFINE R == Larger(MinRepeats, ((args.batch * args.block) \div 10) + MinRepeats)
  <2>1. args \in Commands /\ r \in Nat
    BY <1>1, CommandsAssumption DEF ShardInv, TypeOK, Ranks
  <2>2. R \in Nat
    <3>1. args.batch \in Nat /\ args.block \in Nat
      BY <2>1, CommandsAssumption
    <3>2. args.batch * args.block \in Nat
      BY <3>1
    <3> QED BY <3>2, CorpusAssumption DEF Larger
  <2>3. shard[r].start = r * (PangramLen * R)
    BY <1>1 DEF ShardInv, Share
  <2> HIDE DEF R
  <2>4. shard[r].start = (r * R) * PangramLen /\ r * R \in Nat /\ shard[r].start \in Nat
    BY <2>1, <2>2, <2>3, CorpusAssumption
  <2>5. ASSUME NEW i \in 0 .. k - 1
        PROVE  (shard[r].start + j + i) % PangramLen = (j + i) % PangramLen
    <3>1. j + i \in Nat /\ shard[r].start + j + i = (r * R) * PangramLen + (j + i)
      BY <2>4
    <3>2. PangramLen \in Nat \ {0} /\ r * R \in Nat
      BY <2>4, CorpusAssumption
    <3>3. ((r * R) * PangramLen + (j + i)) % PangramLen = (j + i) % PangramLen
      BY <3>1, <3>2, WholeSentences
    <3> QED BY <3>1, <3>3
  <2> QED BY <2>5 DEF Text
<1>2. ShardInv => \A q, r \in Ranks : Sharded(q) /\ Sharded(r) =>
                    \A j \in Nat : Text(shard[q].start + j, k) = Text(shard[r].start + j, k)
  BY <1>1
<1> QED BY <1>2, ShardCorrect, PTL
=============================================================================
