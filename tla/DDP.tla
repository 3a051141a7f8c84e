--------------------------------- MODULE DDP ---------------------------------
(***************************************************************************)
(* train_ddp.py: WorldSize processes train replicas of one model, each on  *)
(* batches of its own shard, and average their gradients at every step.    *)
(*                                                                         *)
(* "Weights" stands for the parameters and AdamW's moments; InitW, Grad    *)
(* and Apply are torch's arithmetic, left uninterpreted.  The guard on the *)
(* shard's length (178-182) is not an action: DataShardingProofs shows     *)
(* that it never fires.                                                    *)
(***************************************************************************)
EXTENDS Worker

CONSTANTS
  Batch,            \* batches get_batch can return from a rank's shard
  GradSync,         \* FALSE: a fault, the allreduce hands each rank its own gradient
  InitW(_),         \* InitW(r): a fresh TinyGPT under torch.manual_seed(seed*1000 + r)
  Grad(_, _),       \* Grad(w, b): forward and backward on weights w, batch b
  Apply(_, _),      \* Apply(w, g): optimizer.step() on the average of g
  Fingerprint(_)    \* the per-parameter sums of the weights

ASSUME GradSyncAssumption == GradSync \in BOOLEAN

VARIABLE model      \* model[r]: rank r's weights

vars == <<entered, posted, proc, crashes, args, pc, step, files, model>>

Init == WorkerInit /\ model = [r \in Rank |-> NoVal]

-----------------------------------------------------------------------------
Setup(r) == (RejectBackend(r) \/ SetupDistributed(r)) /\ UNCHANGED model

\* Every rank seeds and builds a model of its own, and DDP's constructor
\* enters the broadcast of rank 0's.
WrapModel(r) ==
  /\ At(r, "setup")
  /\ Complete(r)
  /\ model' = [model EXCEPT ![r] = InitW(r)]
  /\ Call(r, "broadcast", InitW(r), "wrap")

\* Mutant: the constructor's broadcast is skipped.
WrappedWeightsOwn(r) == ValAt(r, Here(r))

WrappedWeights(r) == FromRank0(r)

ModelWrapped(r) ==
  /\ At(r, "wrap")
  /\ Complete(r)
  /\ model' = [model EXCEPT ![r] = WrappedWeights(r)]
  /\ Advance(r, "loop")

\* Mutant: range(1, steps + 2).
ForwardBackwardOneMore(r) ==
  /\ At(r, "loop")
  /\ step[r] <= args.steps
  /\ \E b \in Batch : Call(r, "allreduce", Grad(model[r], b), "backward")
  /\ UNCHANGED model

\* get_batch, forward and backward; backward enters the gradient allreduce
ForwardBackward(r) ==
  /\ At(r, "loop")
  /\ step[r] < args.steps
  /\ \E b \in Batch : Call(r, "allreduce", Grad(model[r], b), "backward")
  /\ UNCHANGED model

\* Mutant: the allreduce is disabled (no_sync), every rank trains on its own.
ReducedOwn(r) == [q \in Rank |-> ValAt(r, Here(r))]

\* The gradients that end up in rank r's .grad, by the rank they came from.
Reduced(r) ==
  IF GradSync THEN Gathered(r) ELSE [q \in Rank |-> ValAt(r, Here(r))]

\* Mutant: the optimizer does not wait for the gradients of the others.
OptimizerStepNoWait(r) ==
  /\ At(r, "backward")
  /\ model' = [model EXCEPT ![r] = Apply(@, [q \in Rank |-> ValAt(r, Here(r))])]
  /\ EndStep(r, "loop")

OptimizerStep(r) ==
  /\ At(r, "backward")
  /\ Complete(r)
  /\ model' = [model EXCEPT ![r] = Apply(@, Reduced(r))]
  /\ EndStep(r, "loop")

-----------------------------------------------------------------------------
\* Mutant: the all_gather has moved under "if rank == 0".
GatherOnRank0(r) ==
  /\ At(r, "loop")
  /\ step[r] = args.steps
  /\ IF r = 0
     THEN Call(r, "all_gather", Fingerprint(model[r]), "gather")
     ELSE Advance(r, "report")
  /\ UNCHANGED model

\* Mutant: the artifacts are written before the check instead of after it.
SaveBeforeCheck(r) ==
  /\ At(r, "loop")
  /\ step[r] = args.steps
  /\ Advance(r, "save_state")
  /\ UNCHANGED model

\* The weight sync check: all_gather of the fingerprints
GatherFingerprints(r) ==
  /\ At(r, "loop")
  /\ step[r] = args.steps
  /\ Call(r, "all_gather", Fingerprint(model[r]), "gather")
  /\ UNCHANGED model

\* Mutant: rank 0 compares its own fingerprint with itself.
WeightsMatchOwn(r) == Gathered(r)[r] = Gathered(r)[0]

WeightsMatch(r) == \A q \in Rank : Gathered(r)[q] = Gathered(r)[0]

AfterCheck(r) == IF args.out_dir THEN "save_state" ELSE "report"

\* Every rank computes weights_match but only rank 0 looks at it.
CheckWeights(r) ==
  /\ At(r, "gather")
  /\ Complete(r)
  /\ IF r = 0 /\ ~WeightsMatch(r) THEN Fail(r) ELSE Advance(r, AfterCheck(r))
  /\ UNCHANGED model

\* _write_rank_artifacts
SaveState(r) ==
  At(r, "save_state") /\ WriteArtifact(r, "state", "save_history") /\ UNCHANGED model
SaveHistory(r) ==
  At(r, "save_history") /\ WriteArtifact(r, "history", "report") /\ UNCHANGED model

\* The closing print reads result.history[-1], an IndexError when --steps 0.
Report(r) ==
  /\ At(r, "report")
  /\ IF step[r] = 0 THEN Fail(r) ELSE Call(r, "barrier", NoVal, "barrier")
  /\ UNCHANGED model

\* Mutant: no barrier before destroy_process_group.
FinishNoBarrier(r) == At(r, "barrier") /\ Return(r) /\ UNCHANGED model

\* destroy_process_group and return from main
Finish(r) == At(r, "barrier") /\ Complete(r) /\ Return(r) /\ UNCHANGED model

-----------------------------------------------------------------------------
Train(r) ==
  \/ Setup(r) \/ WrapModel(r) \/ ModelWrapped(r)
  \/ ForwardBackward(r) \/ OptimizerStep(r)
  \/ GatherFingerprints(r) \/ CheckWeights(r)
  \/ SaveState(r) \/ SaveHistory(r)
  \/ Report(r) \/ Finish(r)

Runtime(r) == (Environment(r) \/ Launcher(r)) /\ UNCHANGED model

\* The run is over: the only state in which nothing can happen.
Over == AllEnded /\ UNCHANGED vars

Next == Over \/ \E r \in Rank : Train(r) \/ Runtime(r)

Spec == Init /\ [][Next]_vars

\* Processes are scheduled and the launcher watches them; nothing obliges a
\* process to crash, or gloo to notice a lost peer.
FairSpec ==
  /\ Spec
  /\ \A r \in Rank : WF_vars(Train(r)) /\ WF_vars(Launcher(r) /\ UNCHANGED model)

-----------------------------------------------------------------------------
Label ==
  {"start", "setup", "wrap", "loop", "backward", "gather",
   "save_state", "save_history", "report", "barrier", "done"}

\* Type correctness.
TypeOK == WorkerTypeOK(Label) /\ DOMAIN model = Rank

Trained(r) == pc[r] \notin {"start", "setup", "wrap"}   \* DDP(model) has returned

\* Two replicas that have made the same number of steps hold the same
\* weights, although they were seeded apart and see different batches.
ReplicasAgree ==
  \A q, r \in Rank :
    Trained(q) /\ Trained(r) /\ step[q] = step[r] => model[q] = model[r]

\* A launcher that reports success has seen every replica end with the same
\* weights, even when the gradient allreduce is broken (params_fingerprint).
SuccessMeansInSync ==
  LauncherOK => \A q, r \in Rank : model[q] = model[r]

\* When no worker is lost, a run with a usable backend and at least one step
\* succeeds.
Success == args.steps > 0 /\ ~NcclMissing => <>(LauncherOK \/ crashes > 0)

-----------------------------------------------------------------------------
(* The distributed run is one training run whose global batch has a piece   *)
(* per rank: the reference's weights are those of a rank that is furthest.  *)
Leader ==
  CHOOSE r \in Rank : \A q \in Rank :
    step[q] <= step[r] /\ (Trained(q) => Trained(r))

GlobalWeights == IF Trained(Leader) THEN model[Leader] ELSE InitW(0)

Reference == INSTANCE ReferenceTraining WITH
  Parts <- Rank, W0 <- InitW(0), weights <- GlobalWeights, version <- step[Leader]

\* Each update uses every rank's gradient, each exactly once and each taken on
\* the weights the update replaces.
TrainsAsOneModel == Reference!RefSpec
=============================================================================
