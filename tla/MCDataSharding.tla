---------------------------- MODULE MCDataSharding ----------------------------
(* Three ranks, one row a batch; two ranks, two rows; and one rank alone.  The *)
(* block sizes reach both sides of the max in Repeats and the tightest shard,  *)
(* one token longer than a block.                                              *)
EXTENDS DataSharding

MCCommands ==
  [batch : {1}, block : {4, 9, 12}, world : {1, 2, 3}] \cup
  [batch : {2}, block : {4, 9}, world : {1, 2}]

MCTwoRanks == [batch : {1}, block : {4}, world : {2}]
=============================================================================
