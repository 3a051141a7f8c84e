--------------------------------- MODULE FSDP ---------------------------------
(***************************************************************************)
(* train_fsdp.py: the parameters, gradients and AdamW moments are cut into *)
(* one chunk per rank.  The whole model is one FSDP unit: its parameters   *)
(* are gathered for a forward pass, stay until backward, and the gradients *)
(* are then reduce-scattered to the owners of the chunks.  Under NO_SHARD  *)
(* every rank owns every chunk and the gradients are allreduced.           *)
(*                                                                         *)
(* AdamW works element by element, so a chunk is updated from itself and   *)
(* the gradients alone.  Uninterpreted torch, as in DDP.                   *)
(***************************************************************************)
EXTENDS Worker

CONSTANTS
  Strategies,           \* values of --sharding-strategy
  Batch,                \* batches get_batch can return from a rank's shard
  Faults,               \* "reduce": a rank's chunk gets its own gradient only
  InitW(_),             \* InitW(r): a fresh TinyGPT under torch.manual_seed(seed*1000 + r)
  Chunk(_, _),          \* Chunk(w, c): chunk c of the flattened weights w
  Grad(_, _),           \* Grad(w, b): forward and backward on full weights w, batch b
  ApplyChunk(_, _, _),  \* ApplyChunk(c, v, g): chunk c, holding v, after an optimizer step
  Fingerprint(_)        \* the per-parameter sums of the full weights

ASSUME FSDPAssumption ==
  /\ Faults \subseteq {"none", "reduce"}
  /\ Strategies \subseteq {"FULL_SHARD", "SHARD_GRAD_OP", "NO_SHARD"}

VARIABLES
  strategy, \* --sharding-strategy
  fault,    \* what of FSDP's communication is broken, if anything
  local,    \* local[r]: the chunks rank r holds
  grad      \* grad[r]: the gradients rank r's last step used (Parameter.grad)

fsdpVars == <<strategy, fault, local, grad>>
vars == <<entered, posted, proc, crashes, args, pc, step, files, fsdpVars>>

NoShard == strategy = "NO_SHARD"
Owned(r) == IF NoShard THEN Rank ELSE {r}

Init ==
  /\ WorkerInit
  /\ strategy \in Strategies
  /\ fault \in Faults
  /\ local = [r \in Rank |-> NoVal]
  /\ grad = [r \in Rank |-> NoVal]

-----------------------------------------------------------------------------
Setup(r) == (RejectBackend(r) \/ SetupDistributed(r)) /\ UNCHANGED fsdpVars

\* Rank 0's weights go to everyone: broadcast_state_dict on CPU, FSDP's own
\* sync_module_states on CUDA.
SyncModule(r) ==
  /\ At(r, "setup")
  /\ Complete(r)
  /\ Call(r, "broadcast", InitW(r), "wrap")
  /\ UNCHANGED fsdpVars

\* Mutant: a rank shards the weights it was seeded with.
SyncedWeightsOwn(r) == ValAt(r, Here(r))

SyncedWeights(r) == FromRank0(r)

ShardModel(r) ==
  /\ At(r, "wrap")
  /\ Complete(r)
  /\ local' = [local EXCEPT ![r] = [c \in Owned(r) |-> Chunk(SyncedWeights(r), c)]]
  /\ Advance(r, "loop")
  /\ UNCHANGED <<grad, strategy, fault>>

\* Collect the chunks one does not hold; what is there when it is done.
Unshard(r, next) ==
  /\ IF NoShard THEN Advance(r, next) ELSE Call(r, "all_gather", local[r], next)
  /\ UNCHANGED fsdpVars

FullWeights(r) == IF NoShard THEN local[r] ELSE [c \in Rank |-> Gathered(r)[c][c]]

\* Mutant: one step too many.
ForwardOneMore(r) == At(r, "loop") /\ step[r] <= args.steps /\ Unshard(r, "forward")

Forward(r) == At(r, "loop") /\ step[r] < args.steps /\ Unshard(r, "forward")

Backward(r) ==
  /\ At(r, "forward")
  /\ Complete(r)
  /\ \E b \in Batch :
       Call(r, IF NoShard THEN "allreduce" ELSE "reduce_scatter",
            Grad(FullWeights(r), b), "backward")
  /\ UNCHANGED fsdpVars

\* Mutant: a rank's chunk is updated from its own gradient alone.
ReducedOwn(r) == [q \in Rank |-> ValAt(r, Here(r))]

Reduced(r) ==
  IF fault = "none" THEN Gathered(r) ELSE [q \in Rank |-> ValAt(r, Here(r))]

UpdateChunks(r, g) == [c \in Owned(r) |-> ApplyChunk(c, local[r][c], g)]

OptimizerStep(r) ==
  /\ At(r, "backward")
  /\ Complete(r)
  /\ local' = [local EXCEPT ![r] = UpdateChunks(r, Reduced(r))]
  /\ grad' = [grad EXCEPT ![r] = Reduced(r)]
  /\ UNCHANGED <<strategy, fault>>
  /\ EndStep(r, "loop")

-----------------------------------------------------------------------------
\* Mutant: only rank 0 wants the full weights.
SummonOnRank0(r) ==
  /\ At(r, "loop")
  /\ step[r] = args.steps
  /\ IF r = 0 THEN Unshard(r, "summon")
     ELSE Call(r, "barrier", NoVal, "barrier") /\ UNCHANGED fsdpVars

\* full_params_fingerprint: summon_full_params collects the full weights ...
SummonFullParams(r) == At(r, "loop") /\ step[r] = args.steps /\ Unshard(r, "summon")

\* ... and the ranks exchange the fingerprints of what they collected.
GatherFingerprints(r) ==
  /\ At(r, "summon")
  /\ Complete(r)
  /\ Call(r, "all_gather", Fingerprint(FullWeights(r)), "gather")
  /\ UNCHANGED fsdpVars

\* Mutant: rank 0 compares its own fingerprint with itself.
WeightsMatchOwn(r) == Gathered(r)[r] = Gathered(r)[0]

WeightsMatch(r) == \A q \in Rank : Gathered(r)[q] = Gathered(r)[0]

\* Mutant: only rank 0 writes its artifacts.
AfterCheckRank0(r) == IF r = 0 /\ args.out_dir THEN "save_state" ELSE "report"

AfterCheck(r) == IF args.out_dir THEN "save_state" ELSE "report"

CheckWeights(r) ==
  /\ At(r, "gather")
  /\ Complete(r)
  /\ IF r = 0 /\ ~WeightsMatch(r) THEN Fail(r) ELSE Advance(r, AfterCheck(r))
  /\ UNCHANGED fsdpVars

SaveFullState(r) ==
  /\ At(r, "save_state")
  /\ WriteArtifact(r, "state", "save_history")
  /\ UNCHANGED fsdpVars

SaveHistory(r) ==
  /\ At(r, "save_history")
  /\ WriteArtifact(r, "history", "report")
  /\ UNCHANGED fsdpVars

\* The closing print reads result.history[-1], an IndexError when --steps 0.
Report(r) ==
  /\ At(r, "report")
  /\ IF step[r] = 0 THEN Fail(r) ELSE Call(r, "barrier", NoVal, "barrier")
  /\ UNCHANGED fsdpVars

Finish(r) == At(r, "barrier") /\ Complete(r) /\ Return(r) /\ UNCHANGED fsdpVars

-----------------------------------------------------------------------------
Train(r) ==
  \/ Setup(r) \/ SyncModule(r) \/ ShardModel(r)
  \/ Forward(r) \/ Backward(r) \/ OptimizerStep(r)
  \/ SummonFullParams(r) \/ GatherFingerprints(r) \/ CheckWeights(r)
  \/ SaveFullState(r) \/ SaveHistory(r)
  \/ Report(r) \/ Finish(r)

Runtime(r) == (Environment(r) \/ Launcher(r)) /\ UNCHANGED fsdpVars

Over == AllEnded /\ UNCHANGED vars

Next == Over \/ \E r \in Rank : Train(r) \/ Runtime(r)

Spec == Init /\ [][Next]_vars

FairSpec ==
  /\ Spec
  /\ \A r \in Rank :
       WF_vars(Train(r)) /\ WF_vars(Launcher(r) /\ UNCHANGED fsdpVars)

-----------------------------------------------------------------------------
Label ==
  {"start", "setup", "wrap", "loop", "forward", "backward", "summon", "gather",
   "save_state", "save_history", "report", "barrier", "done"}

\* Type correctness.
TypeOK ==
  /\ WorkerTypeOK(Label)
  /\ strategy \in Strategies /\ fault \in Faults
  /\ DOMAIN local = Rank /\ DOMAIN grad = Rank

Sharded(r) == pc[r] \notin {"start", "setup", "wrap"}

\* Ranks that have made the same number of steps updated their chunks from the
\* same gradients, and a chunk held by two of them has one value.
ChunksInSync ==
  fault = "none" => \A q, r \in Rank : Sharded(q) /\ Sharded(r) /\ step[q] = step[r] =>
    /\ grad[q] = grad[r]
    /\ \A c \in Owned(q) \cap Owned(r) : local[q][c] = local[r][c]

\* Under NO_SHARD, where summon_full_params collects nothing, a run whose
\* gradients were not reduced is never reported as a success.
NoShardCheckDetects ==
  LauncherOK /\ NoShard => \A q, r \in Rank : local[q] = local[r]

\* tests/test_train_fsdp.py:20-24: the full-parameter check proves that the
\* gradient reduce-scatter kept the ranks' chunks in sync.
SuccessMeansInSync ==
  LauncherOK => \A q, r \in Rank : grad[q] = grad[r]

\* When no worker is lost, a run with a usable backend and at least one step
\* succeeds.
Success == args.steps > 0 /\ ~NcclMissing => <>(LauncherOK \/ crashes > 0)

-----------------------------------------------------------------------------
(* The chunks of all ranks together are the weights of one training run.  A *)
(* rank that is a step behind holds the reduced gradients of that step      *)
(* already, and with them the next value of its chunk.                      *)
Furthest == CHOOSE n \in {step[r] : r \in Rank} : \A q \in Rank : step[q] <= n

ChunkNow(c) ==
  IF ~Sharded(c) THEN Chunk(InitW(0), c)
  ELSE IF step[c] < Furthest THEN ApplyChunk(c, local[c][c], Gathered(c))
  ELSE local[c][c]

ApplyAll(w, g) == [c \in Rank |-> ApplyChunk(c, w[c], g)]

FirstWeights == [c \in Rank |-> Chunk(InitW(0), c)]

\* A run with a broken reduction promises nothing; it counts as not begun.
Reference == INSTANCE ReferenceTraining WITH
  Parts <- Rank, W0 <- FirstWeights, Apply <- ApplyAll,
  weights <- IF fault = "none" THEN [c \in Rank |-> ChunkNow(c)] ELSE FirstWeights,
  version <- IF fault = "none" THEN Furthest ELSE 0

\* Cut into chunks or not, the ranks train one model: each update of each chunk
\* uses every rank's gradient of the same full weights.
TrainsAsOneModel == Reference!RefSpec
=============================================================================
