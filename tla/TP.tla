---------------------------------- MODULE TP ----------------------------------
(***************************************************************************)
(* train_tp.py and src/tensor_parallel.py: attention and MLP weights are   *)
(* split over the ranks, embeddings, norms and head are replicated.  Every *)
(* rank must see the same batch; in each forward and each backward pass    *)
(* the ranks add up their partial results (DTensor's implicit allreduce).  *)
(*                                                                         *)
(* The allreduces of a pass, one per attention and one per MLP block, are  *)
(* one collective here.  What a pass computes from the ranks' parts is     *)
(* left uninterpreted; it is right when the parts belong together.         *)
(***************************************************************************)
EXTENDS Worker, Sequences

CONSTANTS
  NHead, DModel,        \* --n-head, --d-model
  Faults,               \* passes whose allreduce may be broken, or "none"
  Sample(_),            \* Sample(k): the k-th batch drawn with one seed
  InitW(_),             \* InitW(r): a fresh TinyGPT under torch.manual_seed(seed*1000 + r)
  RepOf(_),             \* RepOf(w): the replicated parameters of w
  ShardOf(_, _),        \* ShardOf(w, r): rank r's share of the split parameters
  Logits(_, _, _),      \* Logits(rep, x, parts): forward, from a rank's own
                        \* replicated parameters and all ranks' parts
  Grad(_, _),           \* Grad(out, parts): backward, likewise
  ApplyPart(_, _, _),   \* ApplyPart(p, v, g): part p, holding v, after an optimizer step
  Fingerprint(_)        \* the per-parameter sums of the full weights

ASSUME TPAssumption ==
  /\ NHead \in Nat \ {0} /\ DModel \in Nat \ {0}
  /\ Faults \subseteq {"none", "forward", "backward"}

VARIABLES
  rep,      \* rep[r]: rank r's replicated parameters
  shard,    \* shard[r]: rank r's share of the split parameters
  fault,    \* the pass whose allreduce returns a rank's own part only
  losses    \* losses[r]: what result.history's losses were computed from

tpVars == <<rep, shard, fault, losses>>
vars == <<entered, posted, proc, crashes, args, pc, step, files, tpVars>>

Init ==
  /\ WorkerInit
  /\ rep = [r \in Rank |-> NoVal]
  /\ shard = [r \in Rank |-> NoVal]
  /\ fault \in Faults
  /\ losses = [r \in Rank |-> <<>>]

-----------------------------------------------------------------------------
Setup(r) == (RejectBackend(r) \/ SetupDistributed(r)) /\ UNCHANGED tpVars

Splittable == NHead % WorldSize = 0 /\ (4 * DModel) % WorldSize = 0

\* broadcast_state_dict(reference)
SyncReference(r) ==
  /\ At(r, "setup")
  /\ Complete(r)
  /\ IF Splittable THEN Call(r, "broadcast", InitW(r), "parallelize") ELSE Fail(r)
  /\ UNCHANGED tpVars

SyncedWeights(r) == FromRank0(r)

\* What rank q brings to the allreduces of a forward and of a backward pass
ForwardPart(rp, sh, x) == [rep |-> rp, shard |-> sh, x |-> x]
BackwardPart(q, out) == [from |-> q, out |-> out]

\* load_from_tinygpt, parallelize_module, and the probe batch's forward
Parallelize(r) ==
  /\ At(r, "parallelize")
  /\ Complete(r)
  /\ LET w == SyncedWeights(r) IN
       /\ rep' = [rep EXCEPT ![r] = RepOf(w)]
       /\ shard' = [shard EXCEPT ![r] = ShardOf(w, r)]
       /\ Call(r, "allreduce", ForwardPart(RepOf(w), ShardOf(w, r), Sample(0)), "probe")
  /\ UNCHANGED <<fault, losses>>

Summed(r, pass) ==
  IF fault # pass THEN Gathered(r) ELSE [q \in Rank |-> ValAt(r, Here(r))]

ForwardOutput(r) ==     \* of the forward pass rank r is in
  LET own == ValAt(r, Here(r)) IN Logits(own.rep, own.x, Summed(r, "forward"))

\* A model in one piece, [rep, shard], run forward and backward by one process
Whole(w) == [rep |-> RepOf(w), shard |-> [q \in Rank |-> ShardOf(w, q)]]
WholeLogits(m, x) == Logits(m.rep, x, [q \in Rank |-> ForwardPart(m.rep, m.shard[q], x)])
WholeGrad(m, x) ==
  LET out == WholeLogits(m, x) IN Grad(out, [q \in Rank |-> BackwardPart(q, out)])
WholeStep(m, g) ==
  [rep |-> ApplyPart("rep", m.rep, g),
   shard |-> [q \in Rank |-> ApplyPart(q, m.shard[q], g)]]

\* Mutant: the sharded model is compared with itself.
ProbeMatchesItself(r) == ForwardOutput(r) = ForwardOutput(r)

\* The sharded forward against the reference model's, broadcast just before.
ProbeMatches(r) ==
  ForwardOutput(r) = WholeLogits(Whole(ValAt(0, Here(r) - 1)), Sample(0))

\* Mutant: rank 0 leaves train() with a return instead of SystemExit.
CheckForwardReturns(r) ==
  /\ At(r, "probe")
  /\ Complete(r)
  /\ IF r = 0 /\ ~ProbeMatches(r) THEN Return(r) ELSE Advance(r, "loop")
  /\ UNCHANGED tpVars

\* Every rank compares, only rank 0 draws the consequence.
CheckForward(r) ==
  /\ At(r, "probe")
  /\ Complete(r)
  /\ IF r = 0 /\ ~ProbeMatches(r) THEN Fail(r) ELSE Advance(r, "loop")
  /\ UNCHANGED tpVars

-----------------------------------------------------------------------------
\* Mutant: the sampling generator is seeded per rank, as in train_ddp.py.
NextBatchPerRank(r) == Sample(step[r] + 1 + r)

NextBatch(r) == Sample(step[r] + 1)

\* Mutant: one step too many.
ForwardOneMore(r) ==
  /\ At(r, "loop")
  /\ step[r] <= args.steps
  /\ Call(r, "allreduce", ForwardPart(rep[r], shard[r], NextBatch(r)), "forward")
  /\ UNCHANGED tpVars

Forward(r) ==
  /\ At(r, "loop")
  /\ step[r] < args.steps
  /\ Call(r, "allreduce", ForwardPart(rep[r], shard[r], NextBatch(r)), "forward")
  /\ UNCHANGED tpVars

Backward(r) ==
  /\ At(r, "forward")
  /\ Complete(r)
  /\ Call(r, "allreduce", BackwardPart(r, ForwardOutput(r)), "backward")
  /\ UNCHANGED tpVars

\* The gradients of rank r's own parameters, and its update with them
LocalGrad(r) == Grad(ValAt(r, Here(r)).out, Summed(r, "backward"))

\* Mutant: the optimizer does not update the replicated parameters.
UpdateShardOnly(r) ==
  /\ rep' = rep
  /\ shard' = [shard EXCEPT ![r] = ApplyPart(r, @, LocalGrad(r))]
  /\ losses' = [losses EXCEPT ![r] = Append(@, ValAt(r, Here(r)).out)]
  /\ UNCHANGED fault
  /\ EndStep(r, "loop")

Update(r) ==
  /\ rep' = [rep EXCEPT ![r] = ApplyPart("rep", @, LocalGrad(r))]
  /\ shard' = [shard EXCEPT ![r] = ApplyPart(r, @, LocalGrad(r))]
  /\ losses' = [losses EXCEPT ![r] = Append(@, ValAt(r, Here(r)).out)]
  /\ UNCHANGED fault
  /\ EndStep(r, "loop")

OptimizerStep(r) == At(r, "backward") /\ Complete(r) /\ Update(r)

-----------------------------------------------------------------------------
\* Mutant: only rank 0 wants to compare the losses.
GatherLossesOnRank0(r) ==
  /\ At(r, "loop")
  /\ step[r] = args.steps
  /\ IF r = 0 THEN Call(r, "all_gather", losses[r], "losses")
     ELSE Call(r, "barrier", NoVal, "barrier")
  /\ UNCHANGED tpVars

\* local_losses is a CPU tensor whatever the device is; a process group of nccl
\* alone has no backend for it and the call raises.
GatherLosses(r) ==
  /\ At(r, "loop")
  /\ step[r] = args.steps
  /\ IF Backend = "nccl" THEN Fail(r) ELSE Call(r, "all_gather", losses[r], "losses")
  /\ UNCHANGED tpVars

\* full_params_fingerprint: full_tensor() collects the shares ...
FullTensor(r) ==
  At(r, "losses") /\ Complete(r) /\ Call(r, "all_gather", shard[r], "full") /\ UNCHANGED tpVars

\* ... and the fingerprint of the full weights goes round.
GatherFingerprints(r) ==
  /\ At(r, "full")
  /\ Complete(r)
  /\ Call(r, "all_gather", Fingerprint([rep |-> rep[r], shard |-> Gathered(r)]), "gather")
  /\ UNCHANGED tpVars

LossesMatch(r) == \A q \in Rank : ValAt(q, Here(r) - 2) = ValAt(0, Here(r) - 2)
WeightsMatch(r) == \A q \in Rank : ValAt(q, Here(r)) = ValAt(0, Here(r))

\* Mutant: the per-step losses are all that is compared.
RanksMatchInLoss(r) == LossesMatch(r)

RanksMatch(r) == LossesMatch(r) /\ WeightsMatch(r)

\* Mutant: only rank 0 writes its artifacts.
AfterCheckRank0(r) == IF r = 0 /\ args.out_dir THEN "save_state" ELSE "report"

AfterCheck(r) == IF args.out_dir THEN "save_state" ELSE "report"

CheckRanks(r) ==
  /\ At(r, "gather")
  /\ Complete(r)
  /\ IF r = 0 /\ ~RanksMatch(r) THEN Fail(r) ELSE Advance(r, AfterCheck(r))
  /\ UNCHANGED tpVars

SaveFullState(r) ==
  At(r, "save_state") /\ WriteArtifact(r, "state", "save_history") /\ UNCHANGED tpVars
SaveHistory(r) ==
  At(r, "save_history") /\ WriteArtifact(r, "history", "report") /\ UNCHANGED tpVars

\* The closing print reads result.history[-1], an IndexError when --steps 0.
Report(r) ==
  /\ At(r, "report")
  /\ IF step[r] = 0 THEN Fail(r) ELSE Call(r, "barrier", NoVal, "barrier")
  /\ UNCHANGED tpVars

Finish(r) == At(r, "barrier") /\ Complete(r) /\ Return(r) /\ UNCHANGED tpVars

-----------------------------------------------------------------------------
Train(r) ==
  \/ Setup(r) \/ SyncReference(r) \/ Parallelize(r) \/ CheckForward(r)
  \/ Forward(r) \/ Backward(r) \/ OptimizerStep(r)
  \/ GatherLosses(r) \/ FullTensor(r) \/ GatherFingerprints(r) \/ CheckRanks(r)
  \/ SaveFullState(r) \/ SaveHistory(r)
  \/ Report(r) \/ Finish(r)

Runtime(r) == (Environment(r) \/ Launcher(r)) /\ UNCHANGED tpVars

Over == AllEnded /\ UNCHANGED vars

Next == Over \/ \E r \in Rank : Train(r) \/ Runtime(r)

Spec == Init /\ [][Next]_vars

FairSpec ==
  /\ Spec
  /\ \A r \in Rank : WF_vars(Train(r)) /\ WF_vars(Launcher(r) /\ UNCHANGED tpVars)

-----------------------------------------------------------------------------
Label ==
  {"start", "setup", "parallelize", "probe", "loop", "forward", "backward",
   "losses", "full", "gather", "save_state", "save_history", "report", "barrier", "done"}

Split(r) == pc[r] \notin {"start", "setup", "parallelize"}

\* Type correctness: a rank has one recorded loss for each step it has made.
TypeOK ==
  /\ WorkerTypeOK(Label)
  /\ fault \in Faults
  /\ DOMAIN rep = Rank /\ DOMAIN shard = Rank
  /\ \A r \in Rank : Len(losses[r]) = step[r]

\* The ranks see one run: those that have made the same number of steps have
\* the same replicated parameters and have recorded the same losses.
ReplicatedInSync ==
  fault = "none" => \A q, r \in Rank : Split(q) /\ Split(r) /\ step[q] = step[r] =>
    rep[q] = rep[r] /\ losses[q] = losses[r]

\* A forward pass that is wrong on several ranks never gets as far as an update:
\* rank 0 sees it on the probe batch, and without rank 0 nobody makes a step.
NoStepOnWrongForward ==
  fault = "forward" /\ WorldSize > 1 => \A r \in Rank : step[r] = 0

\* The weights one process has after k steps on the same batches
Trained[k \in Nat] ==
  IF k = 0 THEN Whole(InitW(0))
  ELSE WholeStep(Trained[k - 1], WholeGrad(Trained[k - 1], Sample(k)))

\* The two checks mean what they say: however an allreduce fails, a run that
\* reports success has trained the model one process would have trained.
SuccessMeansTrained ==
  LauncherOK => \A r \in Rank :
    rep[r] = Trained[args.steps].rep /\ shard[r] = Trained[args.steps].shard[r]

\* When no worker is lost, a sound gloo run of a model that can be split
\* succeeds, given at least one step.
Success ==
  fault = "none" /\ Backend = "gloo" /\ Splittable /\ args.steps > 0 =>
    <>(LauncherOK \/ crashes > 0)

\* train_tp.py:48-51 documents the run on GPUs as torchrun ... --backend nccl,
\* notebooks/kaggle_tp_2gpu.py starts it so: it succeeds.
RealRunSucceeds == Backend = "nccl" /\ Cuda /\ Splittable /\ args.steps > 0 => <>LauncherOK

-----------------------------------------------------------------------------
(* The ranks' parameters together are the weights of one training run.  A   *)
(* rank that is a step behind can already compute that step's gradients.    *)
Furthest == CHOOSE n \in {step[r] : r \in Rank} : \A q \in Rank : step[q] <= n

PartNow(r, p, value) ==
  IF step[r] < Furthest THEN ApplyPart(p, value, LocalGrad(r)) ELSE value

ModelNow ==
  [rep |-> IF Split(0) THEN PartNow(0, "rep", rep[0]) ELSE RepOf(InitW(0)),
   shard |-> [q \in Rank |->
     IF Split(q) THEN PartNow(q, q, shard[q]) ELSE ShardOf(InitW(0), q)]]

\* A run with a broken pass promises nothing; it counts as not begun.
Reference == INSTANCE ReferenceTraining WITH
  Parts <- {0}, Batch <- {Sample(k) : k \in UNION {1 .. n : n \in StepCounts}},
  W0 <- Whole(InitW(0)),
  Grad <- WholeGrad,
  Apply <- LAMBDA m, g : WholeStep(m, g[0]),
  weights <- IF fault = "none" THEN ModelNow ELSE Whole(InitW(0)),
  version <- IF fault = "none" THEN Furthest ELSE 0

\* Split over the ranks, the model is trained by the same updates one process
\* would make: no part is updated from a partial sum or from another batch.
TrainsAsOneModel == Reference!RefSpec
=============================================================================
