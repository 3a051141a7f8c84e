---------------------------------- MODULE PP ----------------------------------
(***************************************************************************)
(* train_pp.py: each rank owns one stage of the model.  A step runs the    *)
(* microbatches forward through the stages and then their gradients back   *)
(* (ScheduleGPipe), by sends and receives between neighbours; then every   *)
(* stage updates its own modules.  There is no collective in a step and no *)
(* check of the result at the end.                                         *)
(*                                                                         *)
(* ScheduleGPipe is torch's: Forward, Backward and the waits between them  *)
(* are modelled from what train_pp.py and pipeline_model.py say of it.  An *)
(* activation is the input with the weights it has passed through.         *)
(***************************************************************************)
EXTENDS Worker, PipelineStages, Sequences

CONSTANTS
  NLayer,           \* --n-layer
  Microbatches,     \* --microbatches
  Buffered,         \* does a send complete before it is received?
  Sample(_, _),     \* Sample(k, i): microbatch i of the k-th draw of get_batch
  InitW(_, _),      \* InitW(seed, m): module m of a fresh TinyGPT
  Grad(_, _, _),    \* Grad(w, x, y): the gradients for inputs x, targets y
  ApplyModule(_, _, _)  \* ApplyModule(m, v, g): module m, holding v, after a step

ASSUME PipelineAssumption ==
  NLayer \in Nat \ {0} /\ Microbatches \in Nat \ {0} /\ Buffered \in BOOLEAN

VARIABLES
  model,    \* model[r]: the weights of the modules of stage r
  mb,       \* mb[r]: microbatches done in the pass rank r is in
  fwd,      \* fwd[r]: the activations rank r has sent to rank r + 1
  bwd,      \* bwd[r]: the gradients rank r has sent to rank r - 1
  outputs,  \* outputs[r]: what the last stage made of the step's microbatches
  grad      \* grad[r]: gradients accumulated since zero_grad, by microbatch

stageVars == <<model, mb, fwd, bwd, outputs, grad>>
vars == <<entered, posted, proc, crashes, args, pc, step, files, stageVars>>

IsFirst(r) == r = 0
IsLast(r) == r = WorldSize - 1
Owned(r) == StageModules(NLayer, WorldSize, r)

Init ==
  /\ WorkerInit
  /\ model = [r \in Rank |-> NoVal]
  /\ mb = [r \in Rank |-> 0]
  /\ fwd = [r \in Rank |-> <<>>] /\ bwd = [r \in Rank |-> <<>>]
  /\ outputs = [r \in Rank |-> <<>>] /\ grad = [r \in Rank |-> <<>>]

-----------------------------------------------------------------------------
Setup(r) == (RejectBackend(r) \/ SetupDistributed(r)) /\ UNCHANGED stageVars

ModelSeed(r) == 0       \* torch.manual_seed(args.seed)

BuildStage(r) ==
  /\ At(r, "setup")
  /\ Complete(r)
  /\ IF NLayer < WorldSize
     THEN Fail(r) /\ UNCHANGED model
     ELSE /\ model' = [model EXCEPT ![r] = [m \in Owned(r) |-> InitW(ModelSeed(r), m)]]
          /\ Advance(r, "loop")
  /\ UNCHANGED <<mb, fwd, bwd, outputs, grad>>

\* Mutant: the optimizer's zero_grad is missing.
BeginStepKeepGrads(r) ==
  /\ At(r, "loop")
  /\ step[r] < args.steps
  /\ mb' = [mb EXCEPT ![r] = 0]
  /\ outputs' = [outputs EXCEPT ![r] = <<>>]
  /\ Advance(r, "forward")
  /\ UNCHANGED <<model, fwd, bwd, grad>>

\* get_batch, zero_grad, and into schedule.step
BeginStep(r) ==
  /\ At(r, "loop")
  /\ step[r] < args.steps
  /\ mb' = [mb EXCEPT ![r] = 0]
  /\ outputs' = [outputs EXCEPT ![r] = <<>>]
  /\ grad' = [grad EXCEPT ![r] = <<>>]
  /\ Advance(r, "forward")
  /\ UNCHANGED <<model, fwd, bwd>>

\* The batch is drawn by every rank for itself, all from the same seed.
Draw(r) == step[r] + 1
Input(r, i) == Sample(Draw(r), i)

\* Mutant: the generators of the ranks are seeded apart.
TargetPerRank(r, i) == Sample(Draw(r) + r, i)

Target(r, i) == Sample(Draw(r), i)

Stage(r) ==     \* what stage r adds to an activation
  LET first == FirstModule(NLayer, WorldSize, r)
      last == LastModule(NLayer, WorldSize, r)
  IN  [i \in 1 .. last - first + 1 |-> <<first + i - 1, model[r][first + i - 1]>>]

\* How many activations and gradients rank r has received, all steps together.
Passed(r, phases) ==
  step[r] * Microbatches +
    (IF pc[r] = phases[1] THEN mb[r] ELSE IF pc[r] \in phases[2] THEN Microbatches ELSE 0)
ForwardsDone(r) == Passed(r, <<"forward", {"backward", "update"}>>)
BackwardsDone(r) == Passed(r, <<"backward", {"update"}>>)

Received(r) ==      \* the activation of the microbatch rank r is at
  IF IsFirst(r) THEN [x |-> Input(r, mb[r] + 1), w |-> <<>>] ELSE fwd[r - 1][ForwardsDone(r) + 1]

Forward(r) ==
  /\ At(r, "forward")
  /\ mb[r] < Microbatches
  /\ \A q \in Rank : q = r - 1 => Len(fwd[q]) > ForwardsDone(r)
  /\ LET out == [Received(r) EXCEPT !.w = @ \o Stage(r)] IN
       IF IsLast(r)
       THEN outputs' = [outputs EXCEPT ![r] = Append(@, out)] /\ UNCHANGED fwd
       ELSE fwd' = [fwd EXCEPT ![r] = Append(@, out)] /\ UNCHANGED outputs
  /\ mb' = [mb EXCEPT ![r] = @ + 1]
  /\ UNCHANGED <<entered, posted, proc, crashes, args, pc, step, files, model, bwd, grad>>

\* All forwards done, and the sends among them complete.
TurnAround(r) ==
  /\ At(r, "forward")
  /\ mb[r] = Microbatches
  /\ Buffered \/ \A q \in Rank : q = r + 1 => ForwardsDone(q) = Len(fwd[r])
  /\ mb' = [mb EXCEPT ![r] = 0]
  /\ Advance(r, "backward")
  /\ UNCHANGED <<model, fwd, bwd, outputs, grad>>

Loss(r) ==          \* the loss of the microbatch rank r is at
  LET out == outputs[r][mb[r] + 1] IN Grad(out.w, out.x, Target(r, mb[r] + 1))

Backward(r) ==
  /\ At(r, "backward")
  /\ mb[r] < Microbatches
  /\ \A q \in Rank : q = r + 1 => Len(bwd[q]) > BackwardsDone(r)
  /\ LET g == IF IsLast(r) THEN Loss(r) ELSE bwd[r + 1][BackwardsDone(r) + 1] IN
       /\ grad' = [grad EXCEPT ![r] = Append(@, g)]
       /\ bwd' = IF IsFirst(r) THEN bwd ELSE [bwd EXCEPT ![r] = Append(@, g)]
  /\ mb' = [mb EXCEPT ![r] = @ + 1]
  /\ UNCHANGED <<entered, posted, proc, crashes, args, pc, step, files, model, fwd, outputs>>

\* Mutant: schedule.step returns before the gradients have come back.
EndScheduleEarly(r) ==
  /\ At(r, "backward")
  /\ Advance(r, "update")
  /\ UNCHANGED stageVars

\* schedule.step returns
EndSchedule(r) ==
  /\ At(r, "backward")
  /\ mb[r] = Microbatches
  /\ Buffered \/ \A q \in Rank : q = r - 1 => BackwardsDone(q) = Len(bwd[r])
  /\ Advance(r, "update")
  /\ UNCHANGED stageVars

OptimizerStep(r) ==
  /\ At(r, "update")
  /\ model' = [model EXCEPT ![r] = [m \in Owned(r) |-> ApplyModule(m, @[m], grad[r])]]
  /\ EndStep(r, "loop")
  /\ UNCHANGED <<mb, fwd, bwd, outputs, grad>>

-----------------------------------------------------------------------------
\* Mutant: artifacts only under "if rank == 0".
AfterTrainingRank0(r) == IF args.out_dir /\ r = 0 THEN "save_state" ELSE "report"

AfterTraining(r) == IF args.out_dir THEN "save_state" ELSE "report"

EndTraining(r) ==
  /\ At(r, "loop")
  /\ step[r] = args.steps
  /\ Advance(r, AfterTraining(r))
  /\ UNCHANGED stageVars

SaveStageState(r) ==
  At(r, "save_state") /\ WriteArtifact(r, "state", "save_history") /\ UNCHANGED stageVars
SaveHistory(r) ==
  At(r, "save_history") /\ WriteArtifact(r, "history", "report") /\ UNCHANGED stageVars

\* Mutant: the closing print reads history[-1], as in the other three scripts.
ReportLastLoss(r) ==
  /\ At(r, "report")
  /\ IF step[r] = 0 THEN Fail(r) ELSE Call(r, "barrier", NoVal, "barrier")
  /\ UNCHANGED stageVars

\* Mutant: the barrier under "if rank == 0" too.
EnterBarrierRank0(r) ==
  /\ At(r, "report")
  /\ IF r = 0 THEN Call(r, "barrier", NoVal, "barrier") ELSE Return(r)
  /\ UNCHANGED stageVars

\* The closing print does not look at the history: --steps 0 is fine here.
EnterBarrier(r) ==
  At(r, "report") /\ Call(r, "barrier", NoVal, "barrier") /\ UNCHANGED stageVars

\* Mutant: no barrier before destroy_process_group.
FinishNoBarrier(r) == At(r, "barrier") /\ Return(r) /\ UNCHANGED stageVars

Finish(r) == At(r, "barrier") /\ Complete(r) /\ Return(r) /\ UNCHANGED stageVars

\* gloo may raise in a rank that waits for a message of a lost neighbour.
NeighbourLost(r) ==
  /\ mb[r] < Microbatches
  /\ \E q \in Rank : proc[q] \in {"failed", "killed"} /\
       \/ At(r, "forward") /\ q = r - 1 /\ Len(fwd[q]) = ForwardsDone(r)
       \/ At(r, "backward") /\ q = r + 1 /\ Len(bwd[q]) = BackwardsDone(r)
  /\ Fail(r)

-----------------------------------------------------------------------------
Train(r) ==
  \/ Setup(r) \/ BuildStage(r)
  \/ BeginStep(r) \/ Forward(r) \/ TurnAround(r) \/ Backward(r) \/ EndSchedule(r)
  \/ OptimizerStep(r)
  \/ EndTraining(r) \/ SaveStageState(r) \/ SaveHistory(r)
  \/ EnterBarrier(r) \/ Finish(r)

Runtime(r) == (Environment(r) \/ NeighbourLost(r) \/ Launcher(r)) /\ UNCHANGED stageVars

Over == AllEnded /\ UNCHANGED vars

Next == Over \/ \E r \in Rank : Train(r) \/ Runtime(r)

Spec == Init /\ [][Next]_vars

\* As in DDP: nothing obliges gloo to notice a lost neighbour.
FairSpec ==
  /\ Spec
  /\ \A r \in Rank : WF_vars(Train(r)) /\ WF_vars(Launcher(r) /\ UNCHANGED stageVars)

-----------------------------------------------------------------------------
Label ==
  {"start", "setup", "loop", "forward", "backward", "update",
   "save_state", "save_history", "report", "barrier", "done"}

Built(r) == pc[r] \notin {"start", "setup"}

\* Type correctness: a stage accumulates no more than a step's gradients.
TypeOK ==
  /\ WorkerTypeOK(Label)
  /\ \A r \in Rank : Built(r) => DOMAIN model[r] = Owned(r)
  /\ mb \in [Rank -> 0 .. Microbatches]
  /\ \A r \in Rank : Len(outputs[r]) <= Microbatches /\ Len(grad[r]) <= Microbatches

\* A process group is torn down only when no message from or to its rank is
\* still on the way.
NothingInFlight ==
  \A r \in Rank : proc[r] = "ok" =>
    /\ ~IsLast(r) => ForwardsDone(r + 1) = Len(fwd[r]) /\ BackwardsDone(r) = Len(bwd[r + 1])
    /\ ~IsFirst(r) => ForwardsDone(r) = Len(fwd[r - 1]) /\ BackwardsDone(r - 1) = Len(bwd[r])

\* When no worker is lost, a run with a usable backend and a block for every
\* stage succeeds, whatever --steps is and however sends are buffered.
Success == ~NcclMissing /\ NLayer >= WorldSize => <>(LauncherOK \/ crashes > 0)

-----------------------------------------------------------------------------
(* The stages together are one model, trained on microbatches as pieces of  *)
(* the global batch.  A stage that has not made the furthest step yet will  *)
(* make it with the losses of the last stage, or of itself if it is alone.  *)
Furthest == CHOOSE n \in {step[r] : r \in Rank} : \A q \in Rank : step[q] <= n

LossesOf(k) ==      \* the k-th step's gradients as the last stage sent them
  [i \in 1 .. Microbatches |-> bwd[WorldSize - 1][(k - 1) * Microbatches + i]]

ModuleNow(m) ==     \* a module of no stage would stay as it was
  IF \A r \in Rank : m \in Owned(r) => ~Built(r) THEN InitW(0, m)
  ELSE LET r == CHOOSE q \in Rank : m \in Owned(q) IN
       IF step[r] < Furthest THEN ApplyModule(m, model[r][m], LossesOf(Furthest))
       ELSE model[r][m]

InOrder(w) ==       \* as a token passes the modules
  [i \in 1 .. NLayer + 2 |-> <<i - 1, w[i - 1]>>]

Samples == {Sample(k, i) : k \in UNION {1 .. n : n \in StepCounts}, i \in 1 .. Microbatches}

Reference == INSTANCE ReferenceTraining WITH
  Parts <- 1 .. Microbatches, Batch <- Samples,
  W0 <- InOrder([m \in Modules(NLayer) |-> InitW(0, m)]),
  Grad <- LAMBDA w, b : Grad(w, b, b),
  Apply <- LAMBDA w, g : [i \in DOMAIN w |-> <<w[i][1], ApplyModule(w[i][1], w[i][2], g)>>],
  weights <- InOrder([m \in Modules(NLayer) |-> ModuleNow(m)]), version <- Furthest

\* Every microbatch passes every module once, in the model's order and with the
\* weights of one step, its loss is taken against its own targets, and each
\* stage's update uses all microbatches of that step.
TrainsAsOneModel == Reference!RefSpec
=============================================================================
