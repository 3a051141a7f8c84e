------------------------------- MODULE PPProofs -------------------------------
(***************************************************************************)
(* Proofs about train_pp.py and the way src/pipeline_model.py cuts the     *)
(* model: for every number of layers, stages, microbatches, steps and      *)
(* crashes, for sends that are buffered and sends that are not, whatever   *)
(* torch's arithmetic is.                                                  *)
(***************************************************************************)
EXTENDS PP, WorkerProofs

-----------------------------------------------------------------------------
(* The cut: the stages lose and repeat nothing.                             *)

\* The ranges of stage_layer_ranges are consecutive, start at layer 0, end at
\* layer n, and none is empty, the remainder being in the last one.
THEOREM LayerRanges ==
  ASSUME NEW stages \in Nat \ {0}, NEW n \in Nat, n >= stages, NEW s \in 0 .. stages - 1
  PROVE  /\ LayerStart(n, stages, 0) = 0
         /\ s < stages - 1 => LayerEnd(n, stages, s) = LayerStart(n, stages, s + 1)
         /\ LayerEnd(n, stages, stages - 1) = n
         /\ LayerStart(n, stages, s) < LayerEnd(n, stages, s)
         /\ LayerStart(n, stages, s) \in 0 .. n /\ LayerEnd(n, stages, s) \in 0 .. n
<1> DEFINE b == n \div stages
<1>1. b \in Nat /\ b >= 1 /\ b * stages <= n
  OBVIOUS
<1>2. s * b \in Nat /\ (s + 1) * b = s * b + b /\ (s + 1) * b <= stages * b
  BY <1>1
<1>3. stages * b = b * stages
  BY <1>1
<1>4. 0 * b = 0
  BY <1>1
<1>5. s * b < n /\ s * b + b <= n
  BY <1>1, <1>2, <1>3
<1> QED
  BY <1>1, <1>2, <1>4, <1>5 DEF LayerStart, LayerEnd, Base

\* The next stage goes on with the module after the last one of this stage.
LEMMA StagesAdjoin ==
  ASSUME NEW stages \in Nat \ {0}, NEW n \in Nat, n >= stages, NEW s \in 0 .. stages - 1
  PROVE  /\ FirstModule(n, stages, s) \in 0 .. LastModule(n, stages, s)
         /\ LastModule(n, stages, s) \in 0 .. n + 1
         /\ s + 1 < stages => FirstModule(n, stages, s + 1) = LastModule(n, stages, s) + 1
         /\ s = stages - 1 <=> LastModule(n, stages, s) = n + 1
<1>1. /\ LayerStart(n, stages, s) < LayerEnd(n, stages, s)
      /\ s < stages - 1 => LayerEnd(n, stages, s) = LayerStart(n, stages, s + 1)
      /\ LayerStart(n, stages, s) \in 0 .. n /\ LayerEnd(n, stages, s) \in 0 .. n
      /\ LayerEnd(n, stages, stages - 1) = n
  BY LayerRanges
<1>2. LayerStart(n, stages, 0) = 0
  BY LayerRanges
<1>3. s + 1 < stages <=> s # stages - 1
  OBVIOUS
<1> QED BY <1>1, <1>2, <1>3 DEF FirstModule, LastModule

\* The ranges of two stages do not overlap, and the earlier stage's comes first.
LEMMA RangesAscend ==
  ASSUME NEW stages \in Nat \ {0}, NEW n \in Nat, n >= stages,
         NEW s \in 0 .. stages - 1, NEW t \in 0 .. stages - 1, s < t
  PROVE  LayerEnd(n, stages, s) <= LayerStart(n, stages, t)
<1> DEFINE b == n \div stages
<1>1. b \in Nat
  OBVIOUS
<1>2. (s + 1) * b = s * b + b /\ (s + 1) * b <= t * b
  BY <1>1
<1> QED
  BY <1>1, <1>2 DEF LayerStart, LayerEnd, Base

\* A token that passes the stages in the order of their ranks passes the
\* modules in the model's order, and no module twice.
THEOREM StagesInOrder ==
  ASSUME NEW stages \in Nat \ {0}, NEW n \in Nat, n >= stages,
         NEW s \in 0 .. stages - 1, NEW t \in 0 .. stages - 1, s < t,
         NEW l \in StageModules(n, stages, s), NEW m \in StageModules(n, stages, t)
  PROVE  l < m
<1>1. LayerEnd(n, stages, s) <= LayerStart(n, stages, t)
  BY RangesAscend
<1>2. LayerEnd(n, stages, s) \in 0 .. n /\ LayerStart(n, stages, t) \in 0 .. n
  BY LayerRanges
<1>3. FirstModule(n, stages, s) \in Int /\ LastModule(n, stages, t) \in Int
  BY StagesAdjoin
<1>4. l \in Int /\ l <= LayerEnd(n, stages, s)
  BY <1>2, <1>3 DEF StageModules, LastModule
<1>5. m \in Int /\ m >= LayerStart(n, stages, t) + 1
  BY <1>2, <1>3 DEF StageModules, FirstModule
<1> QED
  BY <1>1, <1>2, <1>4, <1>5

\* Every module of the model, embeddings and head included, is in some stage:
\* none stays untrained because no rank holds it.
THEOREM StagesCover ==
  ASSUME NEW stages \in Nat \ {0}, NEW n \in Nat, n >= stages, NEW m \in Modules(n)
  PROVE  \E s \in 0 .. stages - 1 : m \in StageModules(n, stages, s)
<1> DEFINE b == n \div stages
<1>1. b \in Nat /\ b >= 1
  OBVIOUS
<1>2. CASE m = 0
  <2>1. 0 \in 0 .. stages - 1 /\ LastModule(n, stages, 0) \in Nat
    BY StagesAdjoin
  <2> QED  BY <1>2, <2>1 DEF StageModules, FirstModule
<1>3. CASE m = n + 1
  <2>1. /\ stages - 1 \in 0 .. stages - 1
        /\ FirstModule(n, stages, stages - 1) \in 0 .. LastModule(n, stages, stages - 1)
        /\ LastModule(n, stages, stages - 1) = n + 1
    BY StagesAdjoin
  <2> QED  BY <1>3, <2>1 DEF StageModules
<1>4. CASE m \in 1 .. n
  <2> DEFINE q == (m - 1) \div b
  <2>1. q \in Nat /\ q * b <= m - 1 /\ m - 1 < (q + 1) * b
    BY <1>1, <1>4
  <2>2. (q + 1) * b = q * b + b
    BY <1>1, <2>1
  <2>3. CASE q < stages - 1
    <3>1. q \in 0 .. stages - 1
      BY <2>1, <2>3
    <3>2. m \in LayerStart(n, stages, q) + 1 .. LayerEnd(n, stages, q)
      BY <1>1, <1>4, <2>1, <2>2, <2>3 DEF LayerStart, LayerEnd, Base
    <3> QED  BY <3>1, <3>2 DEF StageModules, FirstModule, LastModule
  <2>4. CASE q >= stages - 1
    <3>1. (stages - 1) * b <= q * b
      BY <1>1, <2>1, <2>4
    <3>2. (stages - 1) * b \in Nat /\ q * b \in Nat
      BY <1>1, <2>1
    <3>3. m \in LayerStart(n, stages, stages - 1) + 1 .. LayerEnd(n, stages, stages - 1)
      BY <1>1, <1>4, <2>1, <3>1, <3>2 DEF LayerStart, LayerEnd, Base
    <3>4. LayerEnd(n, stages, stages - 1) = n /\ LayerStart(n, stages, stages - 1) \in Nat
      BY <3>2 DEF LayerStart, LayerEnd, Base
    <3>5. m \in StageModules(n, stages, stages - 1)
      BY <1>4, <3>3, <3>4 DEF StageModules, FirstModule, LastModule
    <3> QED  BY <3>5
  <2> QED  BY <2>1, <2>3, <2>4
<1> QED  BY <1>2, <1>3, <1>4 DEF Modules

-----------------------------------------------------------------------------
(* The inductive invariants.                                                *)

Waits == {"setup", "barrier"}

Steps == {"forward", "backward", "update"}

\* A rank at this label that has made n steps has entered so many collectives.
Placed(label, n, calls) ==
  /\ label = "start" => calls = 0 /\ n = 0
  /\ label = "setup" => calls = 1 /\ n = 0
  /\ label = "loop" => calls = 1
  /\ label \in Steps => calls = 1 /\ n < args.steps
  /\ label \in {"save_state", "save_history", "report"} => calls = 1 /\ n = args.steps
  /\ label \in {"barrier", "done"} => calls = 2 /\ n = args.steps

Position == \A r \in Rank : Placed(pc[r], step[r], Here(r))

\* The script fixes which collective comes k-th.
ScheduledOp(k) == IF k = 1 THEN "init_process_group" ELSE "barrier"

OnSchedule == \A r \in Rank : \A k \in 1 .. Here(r) : OpAt(r, k) = ScheduledOp(k)

StagesOK ==
  /\ DOMAIN model = Rank /\ DOMAIN fwd = Rank /\ DOMAIN bwd = Rank
  /\ DOMAIN outputs = Rank /\ DOMAIN grad = Rank
  /\ mb \in [Rank -> 0 .. Microbatches]
  /\ \A r \in Rank : Built(r) => DOMAIN model[r] = Owned(r) /\ NLayer >= WorldSize

ControlInv == WorkerInv(Label, Waits) /\ StagesOK /\ Position /\ OnSchedule

IsList(s, n) == s = [k \in 1 .. n |-> s[k]]

\* As many messages have been sent as there were passes, and what a stage holds
\* for its update is from the step it is in.
Held ==
  \A r \in Rank :
    /\ IsList(fwd[r], IF IsLast(r) THEN 0 ELSE ForwardsDone(r))
    /\ IsList(bwd[r], IF IsFirst(r) THEN 0 ELSE BackwardsDone(r))
    /\ \E n \in 0 .. Microbatches :
         /\ IsList(outputs[r], n)
         /\ IsLast(r) /\ pc[r] = "forward" => n = mb[r]
         /\ IsLast(r) /\ pc[r] \in {"backward", "update"} => n = Microbatches
    /\ \E n \in 0 .. Microbatches :
         /\ IsList(grad[r], n)
         /\ pc[r] = "forward" => n = 0
         /\ pc[r] = "backward" => n = mb[r]
         /\ pc[r] = "update" => n = Microbatches

\* A stage does not get ahead of the neighbour it receives from.
Ordered ==
  \A q, r \in Rank : q = r + 1 =>
    ForwardsDone(q) <= ForwardsDone(r) /\ BackwardsDone(r) <= BackwardsDone(q)

FlowInv == ControlInv /\ Held /\ Ordered

\* How far a rank is, by its label
InForward(r) ==
  IF pc[r] = "forward" THEN mb[r] ELSE IF pc[r] \in {"backward", "update"} THEN Microbatches ELSE 0

InBackward(r) ==
  IF pc[r] = "backward" THEN mb[r] ELSE IF pc[r] = "update" THEN Microbatches ELSE 0

\* The weights of the modules before training, and after the k-th step of one
\* process from the weights w
FirstWeights == [m \in Modules(NLayer) |-> InitW(0, m)]

GradOf(w, k, i) == Grad(InOrder(w), Sample(k, i), Sample(k, i))

After(k, w) ==
  [m \in Modules(NLayer) |->
     ApplyModule(m, w[m], [i \in 1 .. Microbatches |-> GradOf(w, k, i)])]

Weights[k \in Nat] == IF k = 0 THEN FirstWeights ELSE After(k, Weights[k - 1])

\* Microbatch i of the step that follows the n-th as it leaves stage r, and its
\* gradients on the way back
Through(n, r) ==
  [j \in 1 .. LastModule(NLayer, WorldSize, r) + 1 |-> <<j - 1, Weights[n][j - 1]>>]
Activation(n, i, r) == [x |-> Sample(n + 1, i), w |-> Through(n, r)]
Returned(n, i) == GradOf(Weights[n], n + 1, i)

\* What rank r has and what it has sent is what one process has computed.
TrainedAt(r) ==
  /\ Built(r) => \A m \in Owned(r) : model[r][m] = Weights[step[r]][m]
  /\ ~IsLast(r) => \A n \in Nat : \A i \in 1 .. Microbatches :
       n * Microbatches + i <= ForwardsDone(r) => fwd[r][n * Microbatches + i] = Activation(n, i, r)
  /\ ~IsFirst(r) => \A n \in Nat : \A i \in 1 .. Microbatches :
       n * Microbatches + i <= BackwardsDone(r) => bwd[r][n * Microbatches + i] = Returned(n, i)
  /\ IsLast(r) /\ pc[r] \in Steps => \A i \in 1 .. InForward(r) :
       outputs[r][i] = Activation(step[r], i, r)
  /\ pc[r] \in Steps => \A i \in 1 .. InBackward(r) : grad[r][i] = Returned(step[r], i)

TrainInv == FlowInv /\ \A r \in Rank : TrainedAt(r)

-----------------------------------------------------------------------------
LEMMA Facts ==
  ASSUME ControlInv
  PROVE  /\ WorkerTypeOK(Label)
         /\ args.steps \in Nat /\ args.steps \in StepCounts
         /\ pc \in [Rank -> Label] /\ entered \in [Rank -> Nat] /\ step \in [Rank -> Nat]
         /\ \A r \in Rank : /\ Here(r) \in Nat /\ pc[r] \in Label
                            /\ step[r] \in Nat /\ step[r] <= args.steps
                            /\ mb[r] \in Nat /\ mb[r] <= Microbatches
<1>1. WorkerTypeOK(Label)
  BY DEF ControlInv, WorkerInv
<1>2. /\ args.steps \in Nat /\ args.steps \in StepCounts
      /\ \A r \in Rank : /\ Here(r) \in Nat /\ pc[r] \in Label
                         /\ step[r] \in Nat /\ step[r] <= args.steps
  BY <1>1, WorkerTypes
<1>3. \A r \in Rank : mb[r] \in Nat /\ mb[r] <= Microbatches
  BY PipelineAssumption DEF ControlInv, StagesOK
<1> QED BY <1>1, <1>2, <1>3 DEF WorkerTypeOK

LEMMA ControlInit == Init => ControlInv
<1> SUFFICES ASSUME Init PROVE ControlInv
  OBVIOUS
<1>1. WorkerInv(Label, Waits)
  BY WorkerStarts DEF Init, Label
<1>2. Position /\ OnSchedule
  BY DEF Init, WorkerInit, CommInit, Position, Placed, OnSchedule, Here, Steps
<1>3. StagesOK
  BY PipelineAssumption DEF Init, WorkerInit, StagesOK, Built
<1> QED BY <1>1, <1>2, <1>3 DEF ControlInv

\* A call that the schedule has next, by a rank that waits for nobody.
LEMMA ControlCall ==
  ASSUME ControlInv, NEW r \in Rank, NEW op, NEW val, NEW next \in Waits,
         Call(r, op, val, next), UNCHANGED stageVars, proc[r] = "running",
         pc[r] \notin Waits, next = "barrier" => Built(r),
         op = ScheduledOp(Here(r) + 1), Placed(next, step[r], Here(r) + 1)
  PROVE  ControlInv'
<1>0. WorkerTypeOK(Label) /\ next \in Label \cap Waits /\ next # "done"
  BY Facts DEF Label, Waits
<1>1. WorkerInv(Label, Waits)'
  BY <1>0, CallKeeps DEF ControlInv
<1>2. UNCHANGED <<args, step>> /\ pc' = [pc EXCEPT ![r] = next]
  BY DEF Call, Goto
<1>3. /\ Here(r)' = Here(r) + 1
      /\ \A k : k = Here(r) + 1 => OpAt(r, k)' = op
      /\ \A q \in Rank : q # r => Here(q)' = Here(q)
      /\ \A q \in Rank : \A k \in 1 .. Here(q) : OpAt(q, k)' = OpAt(q, k)
  BY <1>0, CallOps
<1>4. Position'
  BY <1>0, <1>2, <1>3 DEF ControlInv, Position, Placed, Steps, WorkerTypeOK
<1>5. ASSUME NEW q \in Rank, NEW k \in 1 .. Here(q)' PROVE OpAt(q, k)' = ScheduledOp(k)
  <2>1. Here(q) \in Nat
    BY Facts
  <2>2. k \in 1 .. Here(q) \/ (q = r /\ k = Here(r) + 1)
    BY <1>3, <2>1
  <2> QED BY <1>3, <2>2 DEF ControlInv, OnSchedule
<1>6. \A q \in Rank : Built(q)' => Built(q)
  BY <1>0, <1>2 DEF Built, Waits, WorkerTypeOK
<1>7. StagesOK'
  BY <1>6 DEF ControlInv, StagesOK, stageVars, Owned
<1> QED BY <1>1, <1>4, <1>5, <1>7 DEF ControlInv, OnSchedule, ScheduledOp

\* A step without a call.
LEMMA ControlMove ==
  ASSUME ControlInv, NEW r \in Rank, WorkerInv(Label, Waits)', StagesOK',
         UNCHANGED <<entered, posted, args>>,
         \A q \in Rank : q # r => pc'[q] = pc[q] /\ step'[q] = step[q],
         Placed(pc'[r], step'[r], Here(r))
  PROVE  ControlInv'
<1>1. Position'
  BY DEF ControlInv, Position, Placed, Here
<1>2. OnSchedule'
  BY DEF ControlInv, OnSchedule, ScheduledOp, OpAt, Here
<1> QED BY <1>1, <1>2 DEF ControlInv

LEMMA ControlTrain ==
  ASSUME ControlInv, NEW r \in Rank, Train(r)
  PROVE  ControlInv'
<1>0. /\ WorkerTypeOK(Label) /\ WorkerInv(Label, Waits) /\ StagesOK
      /\ args.steps \in Nat /\ step[r] \in Nat /\ Here(r) \in Nat
      /\ mb[r] \in Nat /\ mb[r] <= Microbatches /\ Microbatches \in Nat
      /\ pc \in [Rank -> Label] /\ step \in [Rank -> Nat]
  BY Facts, PipelineAssumption DEF ControlInv
<1>p. Placed(pc[r], step[r], Here(r))
  BY DEF ControlInv, Position
<1>f. ASSUME Fail(r), UNCHANGED stageVars PROVE ControlInv'
  <2>1. WorkerInv(Label, Waits)'
    BY <1>0, <1>f, FailKeeps
  <2>2. StagesOK'
    BY <1>0, <1>f DEF StagesOK, Fail, stageVars, Built, Owned
  <2> QED BY <1>0, <1>f, <1>p, <2>1, <2>2, ControlMove DEF Fail
<1>a. ASSUME NEW next \in Label \ {"done"}, Advance(r, next), proc[r] = "running",
             pc[r] \in Waits => Complete(r), next \notin Waits, StagesOK',
             Placed(next, step[r], Here(r))
      PROVE  ControlInv'
  <2>1. WorkerInv(Label, Waits)'
    BY <1>0, <1>a, AdvanceKeeps
  <2>2. /\ pc'[r] = next /\ \A q \in Rank : q # r => pc'[q] = pc[q]
        /\ UNCHANGED <<entered, posted, args, step>>
    BY <1>0, <1>a DEF Advance, Goto
  <2> QED BY <1>a, <2>1, <2>2, ControlMove
<1>b. ASSUME NEW next, pc' = [pc EXCEPT ![r] = next], Built(r),
             model' = model, mb' \in [Rank -> 0 .. Microbatches],
             DOMAIN fwd' = Rank, DOMAIN bwd' = Rank, DOMAIN outputs' = Rank, DOMAIN grad' = Rank
      PROVE  StagesOK'
  BY <1>0, <1>b DEF StagesOK, Built, Owned
<1> USE DEF At
<1>1. CASE Setup(r)
  <2>1. CASE RejectBackend(r) /\ UNCHANGED stageVars
    BY <1>f, <2>1 DEF RejectBackend
  <2>2. CASE SetupDistributed(r) /\ UNCHANGED stageVars
    <3>1. pc[r] = "start" /\ proc[r] = "running" /\ Here(r) = 0 /\ step[r] = 0
      BY <1>p, <2>2 DEF SetupDistributed, Placed
    <3>2. /\ ScheduledOp(Here(r) + 1) = "init_process_group" /\ Placed("setup", step[r], Here(r) + 1)
          /\ "setup" \in Waits /\ pc[r] \notin Waits
      BY <3>1 DEF ScheduledOp, Placed, Steps, Waits
    <3> QED BY <2>2, <3>1, <3>2, ControlCall DEF SetupDistributed
  <2> QED BY <1>1, <2>1, <2>2 DEF Setup
<1>2. CASE BuildStage(r)
  <2>1. pc[r] = "setup" /\ proc[r] = "running" /\ Complete(r) /\ Here(r) = 1 /\ step[r] = 0
    BY <1>p, <1>2 DEF BuildStage, Placed
  <2>2. CASE NLayer < WorldSize
    BY <1>2, <1>f, <2>2 DEF BuildStage, stageVars
  <2>3. CASE ~(NLayer < WorldSize)
    <3>1. Advance(r, "loop") /\ Placed("loop", step[r], Here(r))
      BY <1>2, <2>1, <2>3 DEF BuildStage, Placed, Steps
    <3>2. StagesOK'
      BY <1>0, <1>2, <2>3, <3>1, PipelineAssumption, WorldSizeAssumption
      DEF BuildStage, StagesOK, Built, Owned, Advance, Goto
    <3> QED BY <1>a, <2>1, <3>1, <3>2 DEF Label, Waits
  <2> QED BY <2>2, <2>3
<1>3. CASE BeginStep(r)
  <2>1. /\ pc[r] = "loop" /\ proc[r] = "running" /\ Here(r) = 1 /\ step[r] < args.steps
        /\ Advance(r, "forward")
    BY <1>p, <1>3 DEF BeginStep, Placed
  <2>2. StagesOK'
    BY <1>0, <1>3, <1>b, <2>1 DEF BeginStep, StagesOK, Built, Advance, Goto
  <2>3. Placed("forward", step[r], Here(r))
    BY <2>1 DEF Placed, Steps
  <2> QED BY <1>a, <2>1, <2>2, <2>3 DEF Label, Waits
<1>4. CASE Forward(r) \/ Backward(r)
  <2>1. UNCHANGED <<entered, posted, proc, crashes, args, pc, step, files, model>>
    BY <1>4 DEF Forward, Backward
  <2>2. WorkerInv(Label, Waits)'
    BY <1>0, <2>1, StutterKeeps DEF workerVars
  <2>3. /\ DOMAIN fwd' = Rank /\ DOMAIN bwd' = Rank
        /\ DOMAIN outputs' = Rank /\ DOMAIN grad' = Rank
    BY <1>0, <1>4 DEF Forward, Backward, StagesOK
  <2>4. mb' \in [Rank -> 0 .. Microbatches]
    BY <1>0, <1>4 DEF Forward, Backward, StagesOK
  <2>5. StagesOK'
    BY <1>0, <2>1, <2>3, <2>4 DEF StagesOK, Built, Owned
  <2> QED BY <1>p, <2>1, <2>2, <2>5, ControlMove
<1>5. CASE TurnAround(r)
  <2>1. /\ pc[r] = "forward" /\ proc[r] = "running" /\ Here(r) = 1 /\ step[r] < args.steps
        /\ Advance(r, "backward")
    BY <1>p, <1>5 DEF TurnAround, Placed, Steps
  <2>2. StagesOK'
    BY <1>0, <1>5, <1>b, <2>1 DEF TurnAround, StagesOK, Built, Advance, Goto
  <2>3. Placed("backward", step[r], Here(r))
    BY <2>1 DEF Placed, Steps
  <2> QED BY <1>a, <2>1, <2>2, <2>3 DEF Label, Waits
<1>6. CASE EndSchedule(r)
  <2>1. /\ pc[r] = "backward" /\ proc[r] = "running" /\ Here(r) = 1 /\ step[r] < args.steps
        /\ Advance(r, "update") /\ UNCHANGED stageVars
    BY <1>p, <1>6 DEF EndSchedule, Placed, Steps
  <2>2. StagesOK'
    BY <1>0, <1>b, <2>1 DEF StagesOK, Built, Advance, Goto, stageVars
  <2>3. Placed("update", step[r], Here(r))
    BY <2>1 DEF Placed, Steps
  <2> QED BY <1>a, <2>1, <2>2, <2>3 DEF Label, Waits
<1>7. CASE OptimizerStep(r)
  <2>1. /\ pc[r] = "update" /\ proc[r] = "running" /\ Here(r) = 1 /\ step[r] < args.steps
        /\ EndStep(r, "loop")
    BY <1>p, <1>7 DEF OptimizerStep, Placed, Steps
  <2>2. WorkerInv(Label, Waits)'
    BY <1>0, <2>1, EndStepKeeps DEF Label, Waits
  <2>3. /\ pc'[r] = "loop" /\ \A q \in Rank : q # r => pc'[q] = pc[q] /\ step'[q] = step[q]
        /\ UNCHANGED <<entered, posted, args>>
    BY <1>0, <2>1 DEF EndStep, Goto
  <2>4. StagesOK'
    BY <1>0, <1>7, <2>1, <2>3 DEF OptimizerStep, StagesOK, Built, Owned
  <2>5. Placed(pc'[r], step'[r], Here(r))
    BY <2>1, <2>3 DEF Placed, Steps
  <2> QED BY <2>2, <2>3, <2>4, <2>5, ControlMove
<1>8. CASE EndTraining(r)
  <2>1. /\ pc[r] = "loop" /\ proc[r] = "running" /\ Here(r) = 1 /\ step[r] = args.steps
        /\ Advance(r, AfterTraining(r)) /\ UNCHANGED stageVars
    BY <1>p, <1>8 DEF EndTraining, Placed
  <2>2. StagesOK'
    BY <1>0, <1>b, <2>1 DEF StagesOK, Built, Advance, Goto, stageVars
  <2>3. Placed(AfterTraining(r), step[r], Here(r)) /\ AfterTraining(r) \in Label \ {"done"}
        /\ AfterTraining(r) \notin Waits
    BY <2>1 DEF Placed, AfterTraining, Label, Steps, Waits
  <2> QED BY <1>a, <2>1, <2>2, <2>3 DEF Waits
<1>9. CASE SaveStageState(r) \/ SaveHistory(r)
  <2>1. PICK f \in Artifact, next \in {"save_history", "report"} :
          WriteArtifact(r, f, next) /\ UNCHANGED stageVars /\ proc[r] = "running"
            /\ pc[r] \in {"save_state", "save_history"}
    BY <1>9 DEF SaveStageState, SaveHistory, Artifact
  <2>2. pc[r] \notin Waits /\ next \in Label \ {"done"}
    BY <2>1 DEF Waits, Label
  <2>3. WorkerInv(Label, Waits)'
    BY <1>0, <2>1, <2>2, WriteKeeps
  <2>4. /\ pc'[r] \in {pc[r], next} /\ \A q \in Rank : q # r => pc'[q] = pc[q]
        /\ UNCHANGED <<entered, posted, args, step>>
    BY <1>0, <2>1 DEF WriteArtifact, Goto
  <2>5. Placed(pc'[r], step'[r], Here(r))
    BY <1>p, <2>1, <2>4 DEF Placed, Steps
  <2>6. StagesOK'
    BY <1>0, <2>1, <2>4 DEF StagesOK, Built, Owned, stageVars
  <2> QED BY <2>3, <2>4, <2>5, <2>6, ControlMove
<1>10. CASE EnterBarrier(r)
  <2>1. /\ pc[r] = "report" /\ proc[r] = "running" /\ Here(r) = 1 /\ step[r] = args.steps
        /\ Call(r, "barrier", NoVal, "barrier") /\ UNCHANGED stageVars
    BY <1>p, <1>10 DEF EnterBarrier, Placed
  <2>2. /\ ScheduledOp(Here(r) + 1) = "barrier" /\ Placed("barrier", step[r], Here(r) + 1)
        /\ "barrier" \in Waits /\ pc[r] \notin Waits /\ Built(r)
    BY <2>1 DEF ScheduledOp, Placed, Steps, Waits, Built
  <2> QED BY <2>1, <2>2, ControlCall
<1>11. CASE Finish(r)
  <2>1. pc[r] = "barrier" /\ Complete(r) /\ Return(r) /\ UNCHANGED stageVars
    BY <1>11 DEF Finish
  <2>2. WorkerInv(Label, Waits)'
    BY <1>0, <2>1, ReturnKeeps DEF Label
  <2>3. /\ pc'[r] = "done" /\ \A q \in Rank : q # r => pc'[q] = pc[q]
        /\ UNCHANGED <<entered, posted, args, step>>
    BY <1>0, <2>1 DEF Return, Goto
  <2>4. Placed(pc'[r], step'[r], Here(r))
    BY <1>p, <2>1, <2>3 DEF Placed, Steps
  <2>5. StagesOK'
    BY <1>0, <2>1, <2>3 DEF StagesOK, Built, Owned, stageVars
  <2> QED BY <2>2, <2>3, <2>4, <2>5, ControlMove
<1> QED
  BY <1>1, <1>2, <1>3, <1>4, <1>5, <1>6, <1>7, <1>8, <1>9, <1>10, <1>11
  DEF Train

LEMMA ControlRuntime ==
  ASSUME ControlInv, NEW r \in Rank, Runtime(r)
  PROVE  ControlInv' /\ UNCHANGED <<args, pc, step, files, stageVars>>
<1>1. CASE Environment(r) \/ Launcher(r)
  <2>1. WorkerInv(Label, Waits)' /\ UNCHANGED <<entered, posted, args, pc, step, files>>
    BY <1>1, RuntimeKeeps DEF ControlInv
  <2>2. StagesOK' /\ UNCHANGED stageVars
    BY <1>1, <2>1 DEF Runtime, ControlInv, StagesOK, Built, Owned, stageVars
  <2> QED BY <2>1, <2>2, ControlMove DEF ControlInv, Position
<1>2. CASE NeighbourLost(r)
  <2>1. WorkerInv(Label, Waits)' /\ UNCHANGED <<entered, posted, args, pc, step, files>>
    BY <1>2, FailKeeps DEF ControlInv, NeighbourLost, Fail
  <2>2. StagesOK' /\ UNCHANGED stageVars
    BY <1>2, <2>1 DEF Runtime, ControlInv, StagesOK, Built, Owned, stageVars
  <2> QED BY <2>1, <2>2, ControlMove DEF ControlInv, Position
<1> QED BY <1>1, <1>2 DEF Runtime

LEMMA ControlStuttering == ControlInv /\ UNCHANGED vars => ControlInv'
<1> SUFFICES ASSUME ControlInv, UNCHANGED vars PROVE ControlInv'
  OBVIOUS
<1>1. WorkerInv(Label, Waits)'
  BY StutterKeeps DEF ControlInv, vars, workerVars
<1>2. StagesOK'
  BY DEF ControlInv, StagesOK, Built, Owned, vars, stageVars
<1> QED BY <1>1, <1>2, RankZero, ControlMove DEF ControlInv, Position, vars

\* Types, the schedule of collectives and what the two blocking ones guarantee
\* hold in every state of every run.
THEOREM ControlCorrect == Spec => []ControlInv
<1>1. ControlInv /\ [Next]_vars => ControlInv'
  BY ControlTrain, ControlRuntime, ControlStuttering DEF Next, Over
<1> QED BY <1>1, ControlInit, PTL DEF Spec

\* Every rank calls the same collectives in the same order.
THEOREM CollectivesPairUp == Spec => []SameCollectives
<1>1. ControlInv => SameCollectives
  BY Facts DEF ControlInv, OnSchedule, SameCollectives
<1> QED BY <1>1, ControlCorrect, PTL

-----------------------------------------------------------------------------
(* The messages of the schedule.                                            *)

LEMMA ListLength ==
  ASSUME NEW s, NEW n \in Nat, IsList(s, n)
  PROVE  Len(s) = n
<1> DEFINE S == {s[k] : k \in 1 .. n}
<1>1. s \in [1 .. n -> S]
  BY DEF IsList
<1> QED BY <1>1, IsASeq

LEMMA ListAppend ==
  ASSUME NEW s, NEW n \in Nat, IsList(s, n), NEW e
  PROVE  IsList(Append(s, e), n + 1)
<1>1. Append(s, e) = [k \in 1 .. n + 1 |-> IF k <= n THEN s[k] ELSE e]
  BY Appended DEF IsList
<1> QED BY <1>1 DEF IsList

LEMMA Progress ==
  ASSUME ControlInv, NEW r \in Rank
  PROVE  /\ ForwardsDone(r) = step[r] * Microbatches + InForward(r)
         /\ BackwardsDone(r) = step[r] * Microbatches + InBackward(r)
         /\ InForward(r) \in 0 .. Microbatches /\ InBackward(r) \in 0 .. Microbatches
         /\ step[r] * Microbatches \in Nat
         /\ ForwardsDone(r) \in Nat /\ BackwardsDone(r) \in Nat
         /\ BackwardsDone(r) <= ForwardsDone(r)
<1>1. /\ Microbatches \in Nat /\ step[r] \in Nat
      /\ mb[r] \in Nat /\ mb[r] <= Microbatches
  BY Facts, PipelineAssumption
<1>2. /\ ForwardsDone(r) = step[r] * Microbatches + InForward(r)
      /\ BackwardsDone(r) = step[r] * Microbatches + InBackward(r)
  BY DEF ForwardsDone, BackwardsDone, Passed, InForward, InBackward
<1>3. /\ InForward(r) \in 0 .. Microbatches /\ InBackward(r) \in 0 .. Microbatches
      /\ InBackward(r) <= InForward(r)
  BY <1>1 DEF InForward, InBackward
<1>4. step[r] * Microbatches \in Nat
  BY <1>1
<1> HIDE DEF InForward, InBackward
<1> QED BY <1>2, <1>3, <1>4

LEMMA ProgressNext ==
  /\ \A r \in Rank : /\ ForwardsDone(r)' = step'[r] * Microbatches + InForward(r)'
                     /\ BackwardsDone(r)' = step'[r] * Microbatches + InBackward(r)'
BY DEF ForwardsDone, BackwardsDone, Passed, InForward, InBackward

\* A rank changes what it alone holds, and ends no step but its own.
LEMMA Frame ==
  ASSUME ControlInv, NEW r \in Rank, Train(r)
  PROVE  /\ args' = args
         /\ \A q \in Rank : q # r =>
              /\ pc'[q] = pc[q] /\ step'[q] = step[q] /\ mb'[q] = mb[q] /\ model'[q] = model[q]
              /\ fwd'[q] = fwd[q] /\ bwd'[q] = bwd[q]
              /\ outputs'[q] = outputs[q] /\ grad'[q] = grad[q]
<1>0. /\ pc \in [Rank -> Label] /\ step \in [Rank -> Nat] /\ mb \in [Rank -> 0 .. Microbatches]
      /\ DOMAIN model = Rank /\ DOMAIN fwd = Rank /\ DOMAIN bwd = Rank
      /\ DOMAIN outputs = Rank /\ DOMAIN grad = Rank
  BY Facts DEF ControlInv, StagesOK
<1> USE DEF stageVars
<1>1. CASE Setup(r)
  BY <1>0, <1>1 DEF Setup, RejectBackend, SetupDistributed, Fail, Call, Goto
<1>2. CASE BuildStage(r)
  BY <1>0, <1>2 DEF BuildStage, Fail, Advance, Goto
<1>3. CASE BeginStep(r) \/ TurnAround(r) \/ EndSchedule(r)
  BY <1>0, <1>3 DEF BeginStep, TurnAround, EndSchedule, Advance, Goto
<1>4. CASE Forward(r)
  BY <1>0, <1>4 DEF Forward
<1>5. CASE Backward(r)
  BY <1>0, <1>5 DEF Backward
<1>6. CASE OptimizerStep(r)
  BY <1>0, <1>6 DEF OptimizerStep, EndStep, Goto
<1>7. CASE EndTraining(r)
  BY <1>0, <1>7 DEF EndTraining, Advance, Goto
<1>8. CASE SaveStageState(r) \/ SaveHistory(r)
  BY <1>0, <1>8 DEF SaveStageState, SaveHistory, WriteArtifact, Goto
<1>9. CASE EnterBarrier(r) \/ Finish(r)
  BY <1>0, <1>9 DEF EnterBarrier, Finish, Call, Return, Goto
<1> QED BY <1>1, <1>2, <1>3, <1>4, <1>5, <1>6, <1>7, <1>8, <1>9 DEF Train

\* The steps that neither make nor end a pass, of a microbatch or of all
Quiet(r) ==
  \/ Setup(r) \/ EndTraining(r) \/ SaveStageState(r) \/ SaveHistory(r)
  \/ EnterBarrier(r) \/ Finish(r)

LEMMA QuietStep ==
  ASSUME ControlInv, NEW r \in Rank, Quiet(r)
  PROVE  /\ UNCHANGED <<args, step, stageVars>>
         /\ pc[r] \notin Steps /\ pc'[r] \notin Steps
         /\ Built(r)' <=> Built(r)
<1>0. pc \in [Rank -> Label] /\ pc[r] \in Label
  BY Facts
<1>1. CASE Setup(r)
  BY <1>0, <1>1 DEF Setup, RejectBackend, SetupDistributed, Fail, Call, Goto, At, Steps, Built
<1>2. CASE EndTraining(r)
  BY <1>0, <1>2 DEF EndTraining, AfterTraining, Advance, Goto, At, Steps, Built
<1>3. CASE SaveStageState(r) \/ SaveHistory(r)
  BY <1>0, <1>3 DEF SaveStageState, SaveHistory, WriteArtifact, Goto, At, Steps, Built
<1>4. CASE EnterBarrier(r) \/ Finish(r)
  BY <1>0, <1>4 DEF EnterBarrier, Finish, Call, Return, Goto, At, Steps, Built
<1> QED BY <1>1, <1>2, <1>3, <1>4 DEF Quiet

\* Only Forward and Backward make a pass; the other steps of the schedule go on
\* when the passes of their phase are all made.
LEMMA Passes ==
  ASSUME ControlInv, NEW r \in Rank, Train(r)
  PROVE  /\ \A q \in Rank : q # r =>
              ForwardsDone(q)' = ForwardsDone(q) /\ BackwardsDone(q)' = BackwardsDone(q)
         /\ ForwardsDone(r)' = IF Forward(r) THEN ForwardsDone(r) + 1 ELSE ForwardsDone(r)
         /\ BackwardsDone(r)' = IF Backward(r) THEN BackwardsDone(r) + 1 ELSE BackwardsDone(r)
<1>0. /\ pc \in [Rank -> Label] /\ step \in [Rank -> Nat] /\ mb \in [Rank -> 0 .. Microbatches]
      /\ Microbatches \in Nat /\ step[r] \in Nat /\ mb[r] \in Nat
      /\ step[r] * Microbatches \in Nat
      /\ (step[r] + 1) * Microbatches = step[r] * Microbatches + Microbatches
  <2>1. step[r] \in Nat /\ Microbatches \in Nat
    BY Facts, PipelineAssumption
  <2>2. (step[r] + 1) * Microbatches = step[r] * Microbatches + Microbatches
        /\ step[r] * Microbatches \in Nat
    BY <2>1
  <2> QED BY <2>1, <2>2, Facts DEF ControlInv, StagesOK
<1>1. ASSUME NEW q \in Rank, q # r
      PROVE  ForwardsDone(q)' = ForwardsDone(q) /\ BackwardsDone(q)' = BackwardsDone(q)
  BY <1>1, Frame DEF ForwardsDone, BackwardsDone, Passed
<1>2. /\ ForwardsDone(r) = step[r] * Microbatches + InForward(r)
      /\ BackwardsDone(r) = step[r] * Microbatches + InBackward(r)
      /\ ForwardsDone(r)' = step'[r] * Microbatches + InForward(r)'
      /\ BackwardsDone(r)' = step'[r] * Microbatches + InBackward(r)'
  BY Progress, ProgressNext
<1>3. CASE Quiet(r)
  <2>1. ~Forward(r) /\ ~Backward(r)
    BY <1>3, QuietStep DEF Forward, Backward, At, Steps
  <2>2. /\ step'[r] = step[r] /\ InForward(r)' = InForward(r) /\ InBackward(r)' = InBackward(r)
    BY <1>3, QuietStep DEF InForward, InBackward, Steps
  <2> QED BY <1>1, <1>2, <2>1, <2>2
<1> USE DEF At
<1>4. CASE BuildStage(r) \/ BeginStep(r)
  <2>1. ~Forward(r) /\ ~Backward(r)
    BY <1>4 DEF BuildStage, BeginStep, Forward, Backward
  <2>2. /\ step'[r] = step[r] /\ InForward(r)' = InForward(r) /\ InBackward(r)' = InBackward(r)
    BY <1>0, <1>4 DEF BuildStage, BeginStep, Fail, Advance, Goto, InForward, InBackward
  <2> QED BY <1>1, <1>2, <2>1, <2>2
<1>5. CASE Forward(r)
  <2>1. ~Backward(r) /\ step'[r] = step[r] /\ pc' = pc /\ pc[r] = "forward" /\ mb'[r] = mb[r] + 1
    BY <1>0, <1>5 DEF Forward, Backward
  <2>2. InForward(r)' = InForward(r) + 1 /\ InBackward(r)' = InBackward(r) /\ InForward(r) = mb[r]
    BY <2>1 DEF InForward, InBackward
  <2> QED BY <1>0, <1>1, <1>2, <1>5, <2>1, <2>2
<1>6. CASE TurnAround(r) \/ EndSchedule(r)
  <2>1. ~Forward(r) /\ ~Backward(r)
    BY <1>0, <1>6 DEF TurnAround, EndSchedule, Forward, Backward
  <2>2. /\ step'[r] = step[r] /\ InForward(r)' = InForward(r) /\ InBackward(r)' = InBackward(r)
    BY <1>0, <1>6 DEF TurnAround, EndSchedule, Advance, Goto, InForward, InBackward, stageVars
  <2> QED BY <1>1, <1>2, <2>1, <2>2
<1>7. CASE Backward(r)
  <2>1. ~Forward(r) /\ step'[r] = step[r] /\ pc' = pc /\ pc[r] = "backward" /\ mb'[r] = mb[r] + 1
    BY <1>0, <1>7 DEF Forward, Backward
  <2>2. InForward(r)' = InForward(r) /\ InBackward(r)' = InBackward(r) + 1 /\ InBackward(r) = mb[r]
    BY <2>1 DEF InForward, InBackward
  <2> QED BY <1>0, <1>1, <1>2, <1>7, <2>1, <2>2
<1>8. CASE OptimizerStep(r)
  <2>1. ~Forward(r) /\ ~Backward(r)
    BY <1>8 DEF OptimizerStep, Forward, Backward
  <2>2. /\ step'[r] = step[r] + 1
        /\ InForward(r)' = 0 /\ InForward(r) = Microbatches
        /\ InBackward(r)' = 0 /\ InBackward(r) = Microbatches
    BY <1>0, <1>8 DEF OptimizerStep, EndStep, Goto, InForward, InBackward
  <2> QED BY <1>0, <1>1, <1>2, <2>1, <2>2
<1> QED BY <1>3, <1>4, <1>5, <1>6, <1>7, <1>8 DEF Train, Quiet

LEMMA FlowInit == Init => FlowInv
<1> SUFFICES ASSUME Init PROVE FlowInv
  OBVIOUS
<1>1. ControlInv
  BY ControlInit
<1>2. ASSUME NEW r \in Rank
      PROVE  /\ ForwardsDone(r) = 0 /\ BackwardsDone(r) = 0 /\ pc[r] = "start"
             /\ fwd[r] = <<>> /\ bwd[r] = <<>> /\ outputs[r] = <<>> /\ grad[r] = <<>>
  <2>1. pc[r] = "start" /\ step[r] = 0
    BY DEF Init, WorkerInit
  <2>2. InForward(r) = 0 /\ InBackward(r) = 0
    BY <2>1 DEF InForward, InBackward
  <2>3. 0 * Microbatches = 0
    BY PipelineAssumption
  <2> QED BY <1>1, <2>1, <2>2, <2>3, Progress DEF Init
<1>3. IsList(<<>>, 0)
  BY DEF IsList
<1>4. 0 \in 0 .. Microbatches
  BY PipelineAssumption
<1> QED BY <1>1, <1>2, <1>3, <1>4 DEF FlowInv, Held, Ordered

\* The messages rank r may receive have been sent, and it receives them in turn.
LEMMA Receives ==
  ASSUME FlowInv, NEW q \in Rank, NEW r \in Rank
  PROVE  /\ q = r - 1 => Len(fwd[q]) = ForwardsDone(q) /\ ForwardsDone(r) <= ForwardsDone(q)
         /\ q = r + 1 => Len(bwd[q]) = BackwardsDone(q) /\ BackwardsDone(r) <= BackwardsDone(q)
<1>0. ForwardsDone(q) \in Nat /\ BackwardsDone(q) \in Nat
  BY Progress DEF FlowInv
<1>1. WorldSize \in Nat /\ q \in 0 .. WorldSize - 1 /\ r \in 0 .. WorldSize - 1
  BY WorldSizeAssumption DEF Rank
<1>2. ASSUME q = r - 1 PROVE Len(fwd[q]) = ForwardsDone(q) /\ ForwardsDone(r) <= ForwardsDone(q)
  <2>1. ~IsLast(q) /\ r = q + 1
    BY <1>1, <1>2 DEF IsLast
  <2>2. IsList(fwd[q], ForwardsDone(q))
    BY <2>1 DEF FlowInv, Held
  <2> QED BY <1>0, <2>1, <2>2, ListLength DEF FlowInv, Ordered
<1>3. ASSUME q = r + 1 PROVE Len(bwd[q]) = BackwardsDone(q) /\ BackwardsDone(r) <= BackwardsDone(q)
  <2>1. ~IsFirst(q)
    BY <1>1, <1>3 DEF IsFirst
  <2>2. IsList(bwd[q], BackwardsDone(q))
    BY <2>1 DEF FlowInv, Held
  <2> QED BY <1>0, <1>3, <2>2, ListLength DEF FlowInv, Ordered
<1> QED BY <1>2, <1>3

LEMMA OrderedStep ==
  ASSUME FlowInv, NEW r \in Rank, Train(r)
  PROVE  Ordered'
<1> SUFFICES ASSUME NEW q \in Rank, NEW p \in Rank, q = p + 1
             PROVE  ForwardsDone(q)' <= ForwardsDone(p)' /\ BackwardsDone(p)' <= BackwardsDone(q)'
  BY DEF Ordered
<1>1. /\ ForwardsDone(p) \in Nat /\ BackwardsDone(p) \in Nat
      /\ ForwardsDone(q) \in Nat /\ BackwardsDone(q) \in Nat
  BY Progress DEF FlowInv
<1>2. p = q - 1 /\ p # q
  BY DEF Rank
<1>3. /\ Len(fwd[p]) = ForwardsDone(p) /\ ForwardsDone(q) <= ForwardsDone(p)
      /\ Len(bwd[q]) = BackwardsDone(q) /\ BackwardsDone(p) <= BackwardsDone(q)
  BY <1>2, Receives
<1>4. /\ \A t \in Rank : t # r =>
           ForwardsDone(t)' = ForwardsDone(t) /\ BackwardsDone(t)' = BackwardsDone(t)
      /\ ForwardsDone(r)' = IF Forward(r) THEN ForwardsDone(r) + 1 ELSE ForwardsDone(r)
      /\ BackwardsDone(r)' = IF Backward(r) THEN BackwardsDone(r) + 1 ELSE BackwardsDone(r)
  BY Passes DEF FlowInv
<1>5. r = q /\ Forward(r) => ForwardsDone(p) > ForwardsDone(q)
  BY <1>2, <1>3 DEF Forward
<1>6. r = p /\ Backward(r) => BackwardsDone(q) > BackwardsDone(p)
  BY <1>2, <1>3 DEF Backward
<1> QED BY <1>1, <1>2, <1>3, <1>4, <1>5, <1>6

\* What Held says of one rank
HeldAt(r) ==
  /\ IsList(fwd[r], IF IsLast(r) THEN 0 ELSE ForwardsDone(r))
  /\ IsList(bwd[r], IF IsFirst(r) THEN 0 ELSE BackwardsDone(r))
  /\ \E n \in 0 .. Microbatches :
       /\ IsList(outputs[r], n)
       /\ IsLast(r) /\ pc[r] = "forward" => n = mb[r]
       /\ IsLast(r) /\ pc[r] \in {"backward", "update"} => n = Microbatches
  /\ \E n \in 0 .. Microbatches :
       /\ IsList(grad[r], n)
       /\ pc[r] = "forward" => n = 0
       /\ pc[r] = "backward" => n = mb[r]
       /\ pc[r] = "update" => n = Microbatches

LEMMA HeldEverywhere == Held <=> \A r \in Rank : HeldAt(r)
BY DEF Held, HeldAt

LEMMA HeldStep ==
  ASSUME FlowInv, NEW r \in Rank, Train(r)
  PROVE  Held'
<1>0. /\ ControlInv /\ HeldAt(r) /\ StagesOK
      /\ pc \in [Rank -> Label] /\ step \in [Rank -> Nat] /\ mb \in [Rank -> 0 .. Microbatches]
      /\ Microbatches \in Nat /\ mb[r] \in 0 .. Microbatches
      /\ DOMAIN fwd = Rank /\ DOMAIN bwd = Rank /\ DOMAIN outputs = Rank /\ DOMAIN grad = Rank
  BY Facts, PipelineAssumption, HeldEverywhere DEF FlowInv, ControlInv, StagesOK
<1>1. /\ ForwardsDone(r) \in Nat /\ BackwardsDone(r) \in Nat
      /\ ForwardsDone(r)' = IF Forward(r) THEN ForwardsDone(r) + 1 ELSE ForwardsDone(r)
      /\ BackwardsDone(r)' = IF Backward(r) THEN BackwardsDone(r) + 1 ELSE BackwardsDone(r)
  BY <1>0, Passes, Progress
<1>2. ASSUME NEW q \in Rank, q # r PROVE HeldAt(q)'
  <2>1. HeldAt(q)
    BY HeldEverywhere DEF FlowInv
  <2>2. /\ pc'[q] = pc[q] /\ mb'[q] = mb[q] /\ fwd'[q] = fwd[q] /\ bwd'[q] = bwd[q]
        /\ outputs'[q] = outputs[q] /\ grad'[q] = grad[q]
    BY <1>0, <1>2, Frame
  <2>3. ForwardsDone(q)' = ForwardsDone(q) /\ BackwardsDone(q)' = BackwardsDone(q)
    BY <1>0, <1>2, Passes
  <2> QED BY <2>1, <2>2, <2>3 DEF HeldAt, IsLast, IsFirst
<1> USE DEF At
<1>3. HeldAt(r)'
  <2>1. CASE Quiet(r) \/ BuildStage(r)
    <3>1. /\ pc'[r] \notin Steps /\ fwd'[r] = fwd[r] /\ bwd'[r] = bwd[r]
          /\ outputs'[r] = outputs[r] /\ grad'[r] = grad[r]
          /\ ~Forward(r) /\ ~Backward(r)
      <4>1. CASE Quiet(r)
        BY <1>0, <4>1, QuietStep DEF stageVars, Steps, Forward, Backward
      <4>2. CASE BuildStage(r)
        BY <1>0, <4>2 DEF BuildStage, Fail, Advance, Goto, Steps, Forward, Backward
      <4> QED BY <2>1, <4>1, <4>2
    <3> QED BY <1>0, <1>1, <3>1 DEF HeldAt, IsLast, IsFirst, Steps
  <2>2. CASE BeginStep(r)
    <3>1. /\ pc'[r] = "forward" /\ mb'[r] = 0 /\ fwd'[r] = fwd[r] /\ bwd'[r] = bwd[r]
          /\ outputs'[r] = <<>> /\ grad'[r] = <<>> /\ ~Forward(r) /\ ~Backward(r)
      BY <1>0, <2>2 DEF BeginStep, Advance, Goto, Forward, Backward
    <3>2. IsList(<<>>, 0) /\ 0 \in 0 .. Microbatches
      BY <1>0 DEF IsList
    <3> QED BY <1>0, <1>1, <3>1, <3>2 DEF HeldAt, IsLast, IsFirst
  <2>3. CASE Forward(r)
    <3>1. /\ pc[r] = "forward" /\ pc'[r] = "forward" /\ mb'[r] = mb[r] + 1 /\ mb[r] < Microbatches
          /\ bwd'[r] = bwd[r] /\ grad'[r] = grad[r] /\ ~Backward(r)
      BY <1>0, <2>3 DEF Forward, Backward
    <3>2. PICK out : IF IsLast(r)
                     THEN outputs' = [outputs EXCEPT ![r] = Append(@, out)] /\ UNCHANGED fwd
                     ELSE fwd' = [fwd EXCEPT ![r] = Append(@, out)] /\ UNCHANGED outputs
      BY <2>3 DEF Forward
    <3>3. CASE IsLast(r)
      <4>1. outputs'[r] = Append(outputs[r], out) /\ fwd'[r] = fwd[r]
        BY <1>0, <3>2, <3>3
      <4>2. IsList(outputs[r], mb[r])
        BY <1>0, <3>1, <3>3 DEF HeldAt
      <4>3. IsList(outputs'[r], mb[r] + 1) /\ mb[r] + 1 \in 0 .. Microbatches
        BY <1>0, <3>1, <4>1, <4>2, ListAppend
      <4> QED BY <1>0, <1>1, <3>1, <3>3, <4>1, <4>3 DEF HeldAt, IsLast, IsFirst
    <3>4. CASE ~IsLast(r)
      <4>1. fwd'[r] = Append(fwd[r], out) /\ outputs'[r] = outputs[r]
        BY <1>0, <3>2, <3>4
      <4>2. IsList(fwd[r], ForwardsDone(r))
        BY <1>0, <3>4 DEF HeldAt
      <4>3. IsList(fwd'[r], ForwardsDone(r) + 1)
        BY <1>1, <4>1, <4>2, ListAppend
      <4> QED BY <1>0, <1>1, <2>3, <3>1, <3>4, <4>1, <4>3 DEF HeldAt, IsLast, IsFirst
    <3> QED BY <3>3, <3>4
  <2>4. CASE TurnAround(r)
    <3>1. /\ pc[r] = "forward" /\ pc'[r] = "backward" /\ mb[r] = Microbatches /\ mb'[r] = 0
          /\ fwd'[r] = fwd[r] /\ bwd'[r] = bwd[r] /\ outputs'[r] = outputs[r] /\ grad'[r] = grad[r]
          /\ ~Forward(r) /\ ~Backward(r)
      BY <1>0, <2>4 DEF TurnAround, Advance, Goto, Forward, Backward
    <3> QED BY <1>0, <1>1, <3>1 DEF HeldAt, IsLast, IsFirst
  <2>5. CASE Backward(r)
    <3>1. /\ pc[r] = "backward" /\ pc'[r] = "backward" /\ mb'[r] = mb[r] + 1 /\ mb[r] < Microbatches
          /\ fwd'[r] = fwd[r] /\ outputs'[r] = outputs[r] /\ ~Forward(r)
      BY <1>0, <2>5 DEF Forward, Backward
    <3>2. PICK g : /\ grad' = [grad EXCEPT ![r] = Append(@, g)]
                   /\ bwd' = IF IsFirst(r) THEN bwd ELSE [bwd EXCEPT ![r] = Append(@, g)]
      BY <2>5 DEF Backward
    <3>3. grad'[r] = Append(grad[r], g) /\ IsList(grad[r], mb[r])
      BY <1>0, <3>1, <3>2 DEF HeldAt
    <3>4. IsList(grad'[r], mb[r] + 1) /\ mb[r] + 1 \in 0 .. Microbatches
      BY <1>0, <3>1, <3>3, ListAppend
    <3>5. IsList(bwd'[r], IF IsFirst(r) THEN 0 ELSE BackwardsDone(r) + 1)
      <4>1. CASE IsFirst(r)
        BY <1>0, <3>2, <4>1 DEF HeldAt
      <4>2. CASE ~IsFirst(r)
        <5>1. bwd'[r] = Append(bwd[r], g) /\ IsList(bwd[r], BackwardsDone(r))
          BY <1>0, <3>2, <4>2 DEF HeldAt
        <5> QED BY <1>1, <4>2, <5>1, ListAppend
      <4> QED BY <4>1, <4>2
    <3> QED BY <1>0, <1>1, <2>5, <3>1, <3>4, <3>5 DEF HeldAt, IsLast, IsFirst
  <2>6. CASE EndSchedule(r)
    <3>1. /\ pc[r] = "backward" /\ pc'[r] = "update" /\ mb[r] = Microbatches
          /\ fwd'[r] = fwd[r] /\ bwd'[r] = bwd[r] /\ outputs'[r] = outputs[r] /\ grad'[r] = grad[r]
          /\ ~Forward(r) /\ ~Backward(r)
      BY <1>0, <2>6 DEF EndSchedule, Advance, Goto, Forward, Backward, stageVars
    <3> QED BY <1>0, <1>1, <3>1 DEF HeldAt, IsLast, IsFirst
  <2>7. CASE OptimizerStep(r)
    <3>1. /\ pc[r] = "update" /\ pc'[r] = "loop"
          /\ fwd'[r] = fwd[r] /\ bwd'[r] = bwd[r] /\ outputs'[r] = outputs[r] /\ grad'[r] = grad[r]
          /\ ~Forward(r) /\ ~Backward(r)
      BY <1>0, <2>7 DEF OptimizerStep, EndStep, Goto, Forward, Backward
    <3> QED BY <1>0, <1>1, <3>1 DEF HeldAt, IsLast, IsFirst
  <2> QED BY <2>1, <2>2, <2>3, <2>4, <2>5, <2>6, <2>7 DEF Train, Quiet
<1> QED BY <1>2, <1>3 DEF Held, HeldAt

LEMMA FlowStuttering ==
  ASSUME FlowInv, ControlInv', UNCHANGED <<pc, step, stageVars>>
  PROVE  FlowInv'
BY DEF FlowInv, Held, Ordered, ForwardsDone, BackwardsDone, Passed, IsLast, IsFirst, stageVars

\* As many activations and gradients are sent, received and accumulated as the
\* ranks have made passes.
THEOREM FlowCorrect == Spec => []FlowInv
<1>1. ASSUME FlowInv, [Next]_vars PROVE FlowInv'
  <2>1. CASE UNCHANGED vars
    BY <1>1, <2>1, ControlStuttering, FlowStuttering DEF FlowInv, vars
  <2>2. ASSUME NEW r \in Rank, Train(r) PROVE FlowInv'
    BY <1>1, <2>2, ControlTrain, HeldStep, OrderedStep DEF FlowInv
  <2>3. ASSUME NEW r \in Rank, Runtime(r) PROVE FlowInv'
    BY <1>1, <2>3, ControlRuntime, FlowStuttering DEF FlowInv
  <2> QED BY <1>1, <2>1, <2>2, <2>3 DEF Next, Over
<1> QED BY <1>1, FlowInit, PTL DEF Spec

\* The type invariant of the runs: a stage accumulates no more than one step's
\* gradients and outputs.
THEOREM TypeCorrect == Spec => []TypeOK
<1>1. ASSUME FlowInv, NEW r \in Rank
      PROVE  Len(outputs[r]) <= Microbatches /\ Len(grad[r]) <= Microbatches
  <2>1. PICK n \in 0 .. Microbatches : IsList(outputs[r], n)
    BY <1>1 DEF FlowInv, Held
  <2>2. PICK m \in 0 .. Microbatches : IsList(grad[r], m)
    BY <1>1 DEF FlowInv, Held
  <2>3. Len(outputs[r]) = n /\ Len(grad[r]) = m
    BY <2>1, <2>2, ListLength, PipelineAssumption
  <2> QED BY <2>3
<1>2. FlowInv => TypeOK
  BY <1>1 DEF FlowInv, ControlInv, WorkerInv, StagesOK, TypeOK
<1> QED BY <1>2, FlowCorrect, PTL

\* A rank has made no more forward passes than the ranks before it, and no more
\* backward passes than those after it.
LEMMA Chain ==
  ASSUME FlowInv, NEW q \in Rank, NEW r \in Rank, q <= r
  PROVE  ForwardsDone(r) <= ForwardsDone(q) /\ BackwardsDone(q) <= BackwardsDone(r)
<1> DEFINE Apart(d) == \A t \in Rank : t + d \in Rank =>
             ForwardsDone(t + d) <= ForwardsDone(t) /\ BackwardsDone(t) <= BackwardsDone(t + d)
           S == {d \in Nat : Apart(d)}
<1>0. \A t \in Rank : /\ ForwardsDone(t) \in Nat /\ BackwardsDone(t) \in Nat
                     /\ t \in Nat /\ t + 0 = t
  BY Progress DEF FlowInv, Rank
<1>1. 0 \in S
  BY <1>0
<1>2. ASSUME NEW d \in Nat, d \in S PROVE d + 1 \in S
  <2> SUFFICES ASSUME NEW t \in Rank, t + (d + 1) \in Rank
               PROVE  /\ ForwardsDone(t + (d + 1)) <= ForwardsDone(t)
                      /\ BackwardsDone(t) <= BackwardsDone(t + (d + 1))
    OBVIOUS
  <2>1. t + d \in Rank /\ t + (d + 1) = (t + d) + 1
    BY WorldSizeAssumption DEF Rank
  <2>2. /\ ForwardsDone(t + (d + 1)) <= ForwardsDone(t + d)
        /\ BackwardsDone(t + d) <= BackwardsDone(t + (d + 1))
    BY <2>1 DEF FlowInv, Ordered
  <2>3. ForwardsDone(t + d) <= ForwardsDone(t) /\ BackwardsDone(t) <= BackwardsDone(t + d)
    BY <1>2, <2>1
  <2> QED BY <1>0, <2>1, <2>2, <2>3
<1> HIDE DEF S
<1>3. Nat \subseteq S
  BY <1>1, <1>2, Induction
<1>4. r - q \in Nat /\ q + (r - q) = r
  BY <1>0
<1>5. Apart(r - q)
  BY <1>3, <1>4 DEF S
<1> QED BY <1>4, <1>5

\* When a rank has made n steps every rank has made the forward passes of n steps,
\* and those that come after it the backward passes too.
LEMMA StepsPassed ==
  ASSUME FlowInv, NEW q \in Rank, NEW r \in Rank
  PROVE  /\ ForwardsDone(r) >= step[q] * Microbatches
         /\ q <= r => BackwardsDone(r) >= step[q] * Microbatches
<1>1. ControlInv
  BY DEF FlowInv
<1>2. /\ ForwardsDone(q) \in Nat /\ BackwardsDone(q) \in Nat
      /\ ForwardsDone(q) >= step[q] * Microbatches /\ BackwardsDone(q) >= step[q] * Microbatches
      /\ step[q] * Microbatches \in Nat
  BY <1>1, Progress
<1>3. ForwardsDone(r) \in Nat /\ BackwardsDone(r) \in Nat /\ BackwardsDone(r) <= ForwardsDone(r)
  BY <1>1, Progress
<1>4. CASE q <= r
  <2>1. BackwardsDone(q) <= BackwardsDone(r)
    BY <1>4, Chain
  <2> QED BY <1>2, <1>3, <2>1
<1>5. CASE ~(q <= r)
  <2>1. r <= q /\ r \in Int /\ q \in Int
    BY <1>5 DEF Rank
  <2>2. ForwardsDone(q) <= ForwardsDone(r)
    BY <2>1, Chain
  <2> QED BY <1>2, <1>3, <1>5, <2>2
<1> QED BY <1>4, <1>5

\* A rank behind another has made all forward passes of the step it is in.
LEMMA BehindWaits ==
  ASSUME FlowInv, NEW q \in Rank, NEW r \in Rank, step[r] < step[q]
  PROVE  /\ step[q] = step[r] + 1 /\ pc[r] \in Steps
         /\ pc[r] = "forward" => mb[r] = Microbatches
<1>0. /\ step[q] \in Nat /\ step[r] \in Nat /\ Microbatches \in Nat /\ Microbatches > 0
      /\ mb[r] \in Nat /\ mb[r] <= Microbatches
  BY Facts, PipelineAssumption DEF FlowInv
<1>1. /\ ForwardsDone(r) = step[r] * Microbatches + InForward(r)
      /\ InForward(r) \in 0 .. Microbatches
  BY Progress DEF FlowInv
<1>2. ForwardsDone(r) >= step[q] * Microbatches
  BY StepsPassed
<1>3. (step[r] + 1) * Microbatches = step[r] * Microbatches + Microbatches
      /\ (step[r] + 2) * Microbatches = step[r] * Microbatches + Microbatches + Microbatches
      /\ step[r] * Microbatches \in Nat
  BY <1>0
<1>4. ~(step[q] >= step[r] + 2)
  <2> SUFFICES ASSUME step[q] >= step[r] + 2 PROVE FALSE
    OBVIOUS
  <2>1. step[q] * Microbatches >= (step[r] + 2) * Microbatches
    BY <1>0
  <2> QED BY <1>0, <1>1, <1>2, <1>3, <2>1
<1>5. step[q] = step[r] + 1
  BY <1>0, <1>4
<1>6. InForward(r) = Microbatches
  BY <1>0, <1>1, <1>2, <1>3, <1>5
<1> QED BY <1>0, <1>5, <1>6 DEF InForward, Steps

\* Sends and receives between neighbours alone keep the stages within one step.
THEOREM RanksInLockstep == Spec => []Lockstep
<1>1. ASSUME FlowInv, NEW q \in Rank, NEW r \in Rank PROVE step[q] <= step[r] + 1
  <2>1. step[q] \in Nat /\ step[r] \in Nat
    BY <1>1, Facts DEF FlowInv
  <2> QED BY <1>1, <2>1, BehindWaits
<1>2. FlowInv => Lockstep
  BY <1>1 DEF Lockstep
<1> QED BY <1>2, FlowCorrect, PTL

\* Where a rank has entered two collectives it has made all its steps.
LEMMA AtTheEnd ==
  ASSUME ControlInv, NEW r \in Rank, Here(r) >= 2
  PROVE  pc[r] \in {"barrier", "done"} /\ step[r] = args.steps
<1>1. pc[r] \in Label /\ Placed(pc[r], step[r], Here(r))
  BY Facts DEF ControlInv, Position
<1> QED BY <1>1 DEF Placed, Label, Steps

\* When a process group is torn down, none of its rank's messages is on the way.
THEOREM NoneInFlight == Spec => []NothingInFlight
<1>1. ASSUME FlowInv, NEW r \in Rank, proc[r] = "ok"
      PROVE  \A q \in Rank : /\ pc[q] \notin Steps /\ step[q] = args.steps
                            /\ ForwardsDone(q) = args.steps * Microbatches
                            /\ BackwardsDone(q) = args.steps * Microbatches
  <2>1. pc[r] = "done" /\ Here(r) = 2
    BY <1>1 DEF FlowInv, ControlInv, WorkerInv, ExitedAtEnd, Position, Placed
  <2>2. 2 \in PastCalls(r, Waits) /\ OpAt(r, 2) = "barrier"
    BY <1>1, <2>1 DEF PastCalls, Waits, FlowInv, ControlInv, OnSchedule, ScheduledOp
  <2>3. \A q \in Rank : Here(q) >= 2
    BY <1>1, <2>2 DEF FlowInv, ControlInv, WorkerInv, OthersEntered
  <2>4. ASSUME NEW q \in Rank
        PROVE  /\ pc[q] \notin Steps /\ step[q] = args.steps
               /\ ForwardsDone(q) = args.steps * Microbatches
               /\ BackwardsDone(q) = args.steps * Microbatches
    <3>1. pc[q] \notin Steps /\ step[q] = args.steps
      BY <1>1, <2>3, AtTheEnd DEF FlowInv, Steps
    <3>2. InForward(q) = 0 /\ InBackward(q) = 0
      BY <3>1 DEF InForward, InBackward, Steps
    <3>3. step[q] * Microbatches \in Nat
      BY <1>1, Progress DEF FlowInv
    <3> QED BY <1>1, <3>1, <3>2, <3>3, Progress DEF FlowInv
  <2> QED BY <2>4
<1>2. ASSUME FlowInv, NEW r \in Rank, proc[r] = "ok"
      PROVE  /\ ~IsLast(r) => ForwardsDone(r + 1) = Len(fwd[r]) /\ BackwardsDone(r) = Len(bwd[r + 1])
             /\ ~IsFirst(r) => ForwardsDone(r) = Len(fwd[r - 1]) /\ BackwardsDone(r - 1) = Len(bwd[r])
  <2>1. ~IsLast(r) => r + 1 \in Rank /\ r = (r + 1) - 1
    BY WorldSizeAssumption DEF IsLast, Rank
  <2>2. ~IsFirst(r) => r - 1 \in Rank /\ r = (r - 1) + 1
    BY WorldSizeAssumption DEF IsFirst, Rank
  <2>3. ASSUME ~IsLast(r)
        PROVE  ForwardsDone(r + 1) = Len(fwd[r]) /\ BackwardsDone(r) = Len(bwd[r + 1])
    <3>1. Len(fwd[r]) = ForwardsDone(r) /\ Len(bwd[r + 1]) = BackwardsDone(r + 1)
      BY <1>2, <2>1, <2>3, Receives
    <3> QED BY <1>1, <1>2, <2>1, <2>3, <3>1
  <2>4. ASSUME ~IsFirst(r)
        PROVE  ForwardsDone(r) = Len(fwd[r - 1]) /\ BackwardsDone(r - 1) = Len(bwd[r])
    <3>1. Len(fwd[r - 1]) = ForwardsDone(r - 1) /\ Len(bwd[r]) = BackwardsDone(r)
      BY <1>2, <2>2, <2>4, Receives
    <3> QED BY <1>1, <1>2, <2>2, <2>4, <3>1
  <2> QED BY <2>3, <2>4
<1>3. FlowInv => NothingInFlight
  BY <1>2 DEF NothingInFlight
<1> QED BY <1>3, FlowCorrect, PTL

-----------------------------------------------------------------------------
\* Which of a rank's artifacts are whole follows from where it is.
LEMMA SavedStep ==
  ASSUME ControlInv, SavedInv, NEW r \in Rank, Train(r) \/ Runtime(r)
  PROVE  SavedInv'
<1>0. WorkerTypeOK(Label) /\ pc \in [Rank -> Label]
  BY Facts
<1>1. CASE SaveStageState(r) \/ SaveHistory(r)
  BY <1>0, <1>1, SavedWrite DEF SaveStageState, SaveHistory
<1>2. CASE Runtime(r)
  <2>1. UNCHANGED <<args, pc, files>>
    BY <1>2, ControlRuntime
  <2> QED BY <2>1 DEF SavedInv
<1>3. CASE Train(r) /\ ~(SaveStageState(r) \/ SaveHistory(r))
  <2>1. /\ files' = files /\ args' = args
        /\ \A q \in Rank : q # r => pc'[q] = pc[q]
    BY <1>0, <1>3
    DEF Train, Setup, RejectBackend, SetupDistributed, BuildStage, BeginStep, Forward, TurnAround,
        Backward, EndSchedule, OptimizerStep, EndTraining, EnterBarrier, Finish, Return, Call,
        Advance, EndStep, Fail, Goto
  <2>2. SavesNothing(pc[r], pc'[r])
    BY <1>0, <1>3
    DEF Train, Setup, RejectBackend, SetupDistributed, BuildStage, BeginStep, Forward, TurnAround,
        Backward, EndSchedule, OptimizerStep, EndTraining, AfterTraining, EnterBarrier, Finish,
        Return, Call, Advance, EndStep, Fail, At, Goto, SavesNothing, Saving
  <2> QED BY <2>1, <2>2, SavedMove
<1> QED BY <1>1, <1>2, <1>3

THEOREM SavedCorrect == Spec => [](ControlInv /\ SavedInv)
<1>1. Init => SavedInv
  BY SavedStarts DEF Init
<1>2. ControlInv /\ SavedInv /\ [Next]_vars => SavedInv'
  <2>1. SavedInv /\ UNCHANGED vars => SavedInv'
    BY DEF vars, SavedInv
  <2> QED BY <2>1, SavedStep DEF Next, Over
<1>3. Spec => []SavedInv
  BY <1>1, <1>2, ControlCorrect, PTL DEF Spec
<1> QED BY <1>3, ControlCorrect, PTL

\* When a rank may return, all ranks have come to the closing barrier.
LEMMA FinishesTogether ==
  ASSUME ControlInv, NEW r \in Rank, At(r, "barrier"), Complete(r)
  PROVE  \A q \in Rank : pc[q] \in {"barrier", "done"}
<1>1. Here(r) = 2
  BY DEF At, ControlInv, Position, Placed
<1>2. OpAt(r, Here(r)) # "broadcast"
  BY <1>1 DEF ControlInv, OnSchedule, ScheduledOp
<1> QED BY <1>1, <1>2, MeetingOfAll, AtTheEnd

\* Seen by the notebook, the run is a job of Launch: whatever its ranks and the
\* environment do, return code 0 means whole files of this run from every rank.
THEOREM KeepsLaunchContract == Spec => LaunchContract
<1>1. ASSUME ControlInv, SavedInv, [Next]_vars
      PROVE  [Contract!LaunchNext]_(Contract!launchVars)
  <2>1. CASE UNCHANGED vars
    BY <2>1 DEF vars, Contract!launchVars
  <2>2. ASSUME NEW r \in Rank, Train(r) \/ Runtime(r)
        PROVE  Contract!LaunchNext \/ UNCHANGED Contract!launchVars
    <3>1. CASE Runtime(r)
      <4>1. proc[r] = "running" /\ (Fail(r) \/ Environment(r) \/ Launcher(r))
        BY <3>1 DEF Runtime, Environment, Launcher, Crash, PeerLost, KillWorker, NeighbourLost, At
      <4> QED BY <4>1, ContractDies
    <3>2. CASE SaveStageState(r) \/ SaveHistory(r)
      BY <1>1, <3>2, ContractWrites DEF SaveStageState, SaveHistory
    <3>3. CASE Finish(r)
      BY <1>1, <3>3, FinishesTogether, ContractEnds DEF Finish
    <3>4. CASE Fail(r) /\ proc[r] = "running"
      BY <3>4, ContractDies
    <3>5. CASE \/ Setup(r) \/ BuildStage(r) \/ BeginStep(r) \/ Forward(r) \/ TurnAround(r)
               \/ Backward(r) \/ EndSchedule(r) \/ OptimizerStep(r) \/ EndTraining(r)
               \/ EnterBarrier(r)
      <4>1. UNCHANGED <<args, files>>
        BY <3>5
        DEF Setup, RejectBackend, SetupDistributed, BuildStage, BeginStep, Forward, TurnAround,
            Backward, EndSchedule, OptimizerStep, EndTraining, EnterBarrier, Call, Advance,
            EndStep, Fail
      <4>2. UNCHANGED proc \/ (Fail(r) /\ proc[r] = "running")
        BY <3>5
        DEF Setup, RejectBackend, SetupDistributed, BuildStage, BeginStep, Forward, TurnAround,
            Backward, EndSchedule, OptimizerStep, EndTraining, EnterBarrier, Call, Advance,
            EndStep, At
      <4> QED BY <4>1, <4>2, <3>4 DEF Contract!launchVars
    <3> QED BY <2>2, <3>1, <3>2, <3>3, <3>5 DEF Train
  <2> QED BY <1>1, <2>1, <2>2 DEF Next, Over
<1>2. Init => Contract!LaunchInit
  BY ContractStarts DEF Init
<1> QED BY <1>1, <1>2, SavedCorrect, PTL DEF Spec, LaunchContract, Contract!LaunchSpec

-----------------------------------------------------------------------------
(* One process, trained on the microbatches as pieces of its batch: its     *)
(* weights after k steps are well defined.                                  *)

\* A table of the weights after each of the first n steps
Tabulates(n, f) ==
  f = [k \in 0 .. n |-> IF k = 0 THEN FirstWeights ELSE After(k, f[k - 1])]

LEMMA TablesAgree ==
  ASSUME NEW n \in Nat, NEW m \in Nat, n <= m, NEW f, NEW g, Tabulates(n, f), Tabulates(m, g)
  PROVE  \A k \in 0 .. n : f[k] = g[k]
<1> DEFINE S == {k \in Nat : k <= n => f[k] = g[k]}
<1>1. 0 \in S
  BY DEF Tabulates
<1>2. ASSUME NEW k \in Nat, k \in S PROVE k + 1 \in S
  <2> SUFFICES ASSUME k + 1 <= n PROVE f[k + 1] = g[k + 1]
    OBVIOUS
  <2>1. k + 1 \in 0 .. n /\ k + 1 \in 0 .. m /\ k + 1 # 0 /\ (k + 1) - 1 = k
    OBVIOUS
  <2>2. f[k + 1] = After(k + 1, f[k]) /\ g[k + 1] = After(k + 1, g[k])
    BY <2>1 DEF Tabulates
  <2> QED BY <1>2, <2>2
<1>3. Nat \subseteq S
  BY <1>1, <1>2, Induction
<1> QED BY <1>3

LEMMA TablesExist == \A n \in Nat : \E f : Tabulates(n, f)
<1> DEFINE S == {n \in Nat : \E f : Tabulates(n, f)}
<1>1. 0 \in S
  <2>1. Tabulates(0, [k \in 0 .. 0 |-> FirstWeights])
    BY DEF Tabulates
  <2> QED BY <2>1
<1>2. ASSUME NEW n \in Nat, n \in S PROVE n + 1 \in S
  <2>1. PICK f : Tabulates(n, f)
    BY <1>2
  <2> DEFINE g == [k \in 0 .. n + 1 |-> IF k <= n THEN f[k] ELSE After(k, f[n])]
  <2>2. ASSUME NEW k \in 0 .. n + 1
        PROVE  g[k] = IF k = 0 THEN FirstWeights ELSE After(k, g[k - 1])
    <3>1. CASE k = 0
      BY <2>1, <3>1 DEF Tabulates
    <3>2. CASE k # 0 /\ k <= n
      <4>1. f[k] = After(k, f[k - 1]) /\ g[k] = f[k] /\ g[k - 1] = f[k - 1]
        BY <2>1, <3>2 DEF Tabulates
      <4> QED BY <3>2, <4>1
    <3>3. CASE k = n + 1
      <4>1. g[k] = After(k, f[n]) /\ g[k - 1] = f[n]
        BY <3>3
      <4> QED BY <3>3, <4>1
    <3> QED BY <3>1, <3>2, <3>3
  <2>3. Tabulates(n + 1, g)
    BY <2>2 DEF Tabulates
  <2> QED BY <2>3
<1>3. Nat \subseteq S
  BY <1>1, <1>2, Induction
<1> QED BY <1>3

\* One process trains from its first weights, one step after the other.
LEMMA WeightSteps ==
  /\ Weights[0] = FirstWeights
  /\ \A n \in Nat : Weights[n + 1] = After(n + 1, Weights[n])
<1> DEFINE Table(n) == CHOOSE f : Tabulates(n, f)
           all == [k \in Nat |-> Table(k)[k]]
<1>1. \A n \in Nat : Tabulates(n, Table(n))
  BY TablesExist
<1>2. all = [k \in Nat |-> all[k]] /\ \A k \in Nat : all[k] = Table(k)[k]
  OBVIOUS
<1> HIDE DEF Table, all
<1>3. ASSUME NEW k \in Nat PROVE all[k] = IF k = 0 THEN FirstWeights ELSE After(k, all[k - 1])
  <2>1. CASE k = 0
    <3>1. Table(0)[0] = FirstWeights
      BY <1>1 DEF Tabulates
    <3> QED BY <1>2, <2>1, <3>1
  <2>2. CASE k # 0
    <3>1. k - 1 \in Nat /\ Tabulates(k, Table(k)) /\ Tabulates(k - 1, Table(k - 1))
      BY <1>1, <2>2
    <3>2. Table(k)[k - 1] = Table(k - 1)[k - 1]
      BY <3>1, TablesAgree
    <3>3. Table(k)[k] = After(k, Table(k)[k - 1])
      BY <2>2, <3>1 DEF Tabulates
    <3> QED BY <1>2, <2>2, <3>1, <3>2, <3>3
  <2> QED BY <2>1, <2>2
<1>4. \E f : f = [k \in Nat |-> IF k = 0 THEN FirstWeights ELSE After(k, f[k - 1])]
  BY <1>2, <1>3
<1>5. Weights = [k \in Nat |-> IF k = 0 THEN FirstWeights ELSE After(k, Weights[k - 1])]
  BY <1>4 DEF Weights
<1> QED BY <1>5

LEMMA WeightsAreWhole ==
  ASSUME NEW n \in Nat
  PROVE  Weights[n] = [m \in Modules(NLayer) |-> Weights[n][m]]
<1>1. CASE n = 0
  BY <1>1, WeightSteps DEF FirstWeights
<1>2. CASE n # 0
  <2>1. n - 1 \in Nat /\ (n - 1) + 1 = n
    BY <1>2
  <2>2. Weights[n] = After(n, Weights[n - 1])
    BY <2>1, WeightSteps
  <2> QED BY <2>2 DEF After
<1> QED BY <1>1, <1>2

\* One update of a module
LEMMA ModuleUpdate ==
  ASSUME NEW n \in Nat, NEW m \in Modules(NLayer)
  PROVE  Weights[n + 1][m] =
           ApplyModule(m, Weights[n][m], [i \in 1 .. Microbatches |-> Returned(n, i)])
<1>1. Weights[n + 1] = After(n + 1, Weights[n])
  BY WeightSteps
<1> QED BY <1>1 DEF After, Returned

\* Messages are numbered by step and microbatch.
LEMMA Numbering ==
  ASSUME NEW n \in Nat, NEW k \in Nat, NEW i \in 1 .. Microbatches, NEW j \in 1 .. Microbatches,
         n * Microbatches + i = k * Microbatches + j
  PROVE  n = k /\ i = j
<1>0. Microbatches \in Nat
  BY PipelineAssumption
<1>1. ASSUME NEW a \in Nat, NEW b \in Nat, a < b
      PROVE  a * Microbatches + Microbatches <= b * Microbatches /\ a * Microbatches \in Nat
             /\ b * Microbatches \in Nat
  <2>1. a + 1 <= b /\ (a + 1) * Microbatches = a * Microbatches + Microbatches
    BY <1>0, <1>1
  <2>2. (a + 1) * Microbatches <= b * Microbatches
    BY <1>0, <2>1
  <2> QED BY <1>0, <2>1, <2>2
<1>2. CASE n < k
  <2>1. n * Microbatches + Microbatches <= k * Microbatches /\ n * Microbatches \in Nat
        /\ k * Microbatches \in Nat
    BY <1>1, <1>2
  <2> QED BY <1>0, <2>1
<1>3. CASE k < n
  <2>1. k * Microbatches + Microbatches <= n * Microbatches /\ n * Microbatches \in Nat
        /\ k * Microbatches \in Nat
    BY <1>1, <1>3
  <2> QED BY <1>0, <2>1
<1>4. CASE n = k
  <2>1. n * Microbatches \in Nat
    BY <1>0
  <2> QED BY <1>0, <1>4, <2>1
<1> QED BY <1>2, <1>3, <1>4

LEMMA Joined ==
  ASSUME NEW s, NEW n \in Nat, IsList(s, n), NEW t, NEW m \in Nat, IsList(t, m)
  PROVE  s \o t = [k \in 1 .. n + m |-> IF k <= n THEN s[k] ELSE t[k - n]]
<1> DEFINE S == {s[k] : k \in 1 .. n} \cup {t[k] : k \in 1 .. m}
<1>1. s \in [1 .. n -> S] /\ t \in [1 .. m -> S]
  BY DEF IsList
<1> HIDE DEF S
<1>2. s \in Seq(S) /\ t \in Seq(S) /\ Len(s) = n /\ Len(t) = m
  BY <1>1, IsASeq
<1>3. /\ s \o t \in Seq(S) /\ Len(s \o t) = n + m
      /\ \A k \in 1 .. n + m : (s \o t)[k] = IF k <= n THEN s[k] ELSE t[k - n]
  BY <1>2, ConcatProperties
<1>4. s \o t = [k \in 1 .. n + m |-> (s \o t)[k]]
  BY <1>3, LenProperties
<1> QED BY <1>3, <1>4

\* The modules of rank r in terms of the model's
LEMMA OwnedRange ==
  ASSUME NLayer >= WorldSize, NEW r \in Rank
  PROVE  /\ FirstModule(NLayer, WorldSize, r) \in 0 .. LastModule(NLayer, WorldSize, r)
         /\ LastModule(NLayer, WorldSize, r) \in 0 .. NLayer + 1
         /\ Owned(r) = FirstModule(NLayer, WorldSize, r) .. LastModule(NLayer, WorldSize, r)
         /\ Owned(r) \subseteq Modules(NLayer)
         /\ IsFirst(r) => FirstModule(NLayer, WorldSize, r) = 0
         /\ IsLast(r) => LastModule(NLayer, WorldSize, r) = NLayer + 1
         /\ \A q \in Rank : q = r - 1 =>
              FirstModule(NLayer, WorldSize, r) = LastModule(NLayer, WorldSize, q) + 1
<1>1. WorldSize \in Nat \ {0} /\ NLayer \in Nat
  BY WorldSizeAssumption, PipelineAssumption
<1>2. \A q \in 0 .. WorldSize - 1 :
        /\ FirstModule(NLayer, WorldSize, q) \in 0 .. LastModule(NLayer, WorldSize, q)
        /\ LastModule(NLayer, WorldSize, q) \in 0 .. NLayer + 1
        /\ q + 1 < WorldSize =>
             FirstModule(NLayer, WorldSize, q + 1) = LastModule(NLayer, WorldSize, q) + 1
        /\ q = WorldSize - 1 <=> LastModule(NLayer, WorldSize, q) = NLayer + 1
  BY <1>1, StagesAdjoin
<1>3. ASSUME NEW q \in Rank, q = r - 1
      PROVE  FirstModule(NLayer, WorldSize, r) = LastModule(NLayer, WorldSize, q) + 1
  <2>1. r = q + 1 /\ q + 1 < WorldSize /\ q \in 0 .. WorldSize - 1
    BY <1>1, <1>3 DEF Rank
  <2> QED BY <1>2, <2>1
<1>4. IsFirst(r) => FirstModule(NLayer, WorldSize, r) = 0
  BY DEF IsFirst, FirstModule
<1>5. /\ FirstModule(NLayer, WorldSize, r) \in 0 .. LastModule(NLayer, WorldSize, r)
      /\ LastModule(NLayer, WorldSize, r) \in 0 .. NLayer + 1
      /\ IsLast(r) => LastModule(NLayer, WorldSize, r) = NLayer + 1
  BY <1>2 DEF Rank, IsLast
<1>6. Owned(r) = FirstModule(NLayer, WorldSize, r) .. LastModule(NLayer, WorldSize, r)
  BY DEF Owned, StageModules
<1>7. Owned(r) \subseteq Modules(NLayer)
  BY <1>1, <1>5, <1>6 DEF Modules
<1> QED BY <1>3, <1>4, <1>5, <1>6, <1>7

-----------------------------------------------------------------------------
(* Every rank computes its part of what one process computes.               *)

LEMMA StageIs ==
  ASSUME TrainInv, NEW r \in Rank, Built(r)
  PROVE  /\ IsFirst(r) => <<>> \o Stage(r) = Through(step[r], r)
         /\ \A q \in Rank : q = r - 1 => Through(step[r], q) \o Stage(r) = Through(step[r], r)
<1> DEFINE first == FirstModule(NLayer, WorldSize, r)
           last == LastModule(NLayer, WorldSize, r)
           n == step[r]
<1>0. NLayer >= WorldSize
  BY DEF TrainInv, FlowInv, ControlInv, StagesOK
<1>1. /\ last \in Nat /\ first \in 0 .. last /\ Owned(r) = first .. last
      /\ IsFirst(r) => first = 0
      /\ \A q \in Rank : q = r - 1 => first = LastModule(NLayer, WorldSize, q) + 1
  BY <1>0, OwnedRange
<1>2. \A m \in first .. last : model[r][m] = Weights[n][m]
  BY <1>1 DEF TrainInv, TrainedAt
<1>3. Stage(r) = [i \in 1 .. last - first + 1 |-> <<first + i - 1, model[r][first + i - 1]>>]
  BY DEF Stage
<1> HIDE DEF first, last, n
<1>4. \A i \in 1 .. last - first + 1 : first + i - 1 \in first .. last
  BY <1>1
<1>5. Stage(r) = [i \in 1 .. last - first + 1 |-> <<first + i - 1, Weights[n][first + i - 1]>>]
  BY <1>2, <1>3, <1>4
<1>6. IsList(Stage(r), last - first + 1) /\ last - first + 1 \in Nat
  BY <1>1, <1>5 DEF IsList
<1>7. Through(n, r) = [j \in 1 .. last + 1 |-> <<j - 1, Weights[n][j - 1]>>]
  BY DEF Through, last
<1>8. ASSUME NEW a \in Nat, a = first, NEW s, s = [j \in 1 .. a |-> <<j - 1, Weights[n][j - 1]>>]
      PROVE  s \o Stage(r) = Through(n, r)
  <2>1. IsList(s, a)
    BY <1>8 DEF IsList
  <2>2. s \o Stage(r) = [j \in 1 .. a + (last - first + 1) |->
                          IF j <= a THEN s[j] ELSE Stage(r)[j - a]]
    BY <1>6, <2>1, Joined
  <2>3. a + (last - first + 1) = last + 1
    BY <1>1, <1>8
  <2>4. ASSUME NEW j \in 1 .. last + 1
        PROVE  (IF j <= a THEN s[j] ELSE Stage(r)[j - a]) = <<j - 1, Weights[n][j - 1]>>
    <3>1. CASE j <= a
      <4>1. j \in 1 .. a
        BY <1>8, <3>1
      <4> QED BY <1>8, <3>1, <4>1
    <3>2. CASE ~(j <= a)
      <4>1. j - a \in 1 .. last - first + 1 /\ first + (j - a) - 1 = j - 1
        BY <1>1, <1>8, <3>2
      <4>2. \A i \in 1 .. last - first + 1 : \A m :
              m = first + i - 1 => Stage(r)[i] = <<m, Weights[n][m]>>
        BY <1>5
      <4>3. Stage(r)[j - a] = <<j - 1, Weights[n][j - 1]>>
        BY <4>1, <4>2
      <4> QED BY <3>2, <4>3
    <3> QED BY <3>1, <3>2
  <2> QED BY <1>7, <2>2, <2>3, <2>4
<1>9. ASSUME IsFirst(r) PROVE <<>> \o Stage(r) = Through(n, r)
  <2>1. <<>> = [j \in 1 .. 0 |-> <<j - 1, Weights[n][j - 1]>>]
    OBVIOUS
  <2> QED BY <1>1, <1>8, <1>9, <2>1
<1>10. ASSUME NEW q \in Rank, q = r - 1 PROVE Through(n, q) \o Stage(r) = Through(n, r)
  <2>1. first \in Nat /\ first = LastModule(NLayer, WorldSize, q) + 1
    BY <1>1, <1>10
  <2>2. Through(n, q) = [j \in 1 .. first |-> <<j - 1, Weights[n][j - 1]>>]
    BY <2>1 DEF Through
  <2> QED BY <1>8, <2>1, <2>2
<1> QED BY <1>9, <1>10 DEF n

\* Forward makes of microbatch mb + 1 what the first stages of one model do.
LEMMA ForwardMakes ==
  ASSUME TrainInv, NEW r \in Rank, Forward(r)
  PROVE  [Received(r) EXCEPT !.w = @ \o Stage(r)] = Activation(step[r], mb[r] + 1, r)
<1>0. /\ pc[r] = "forward" /\ mb[r] < Microbatches /\ Built(r)
      /\ step[r] \in Nat /\ mb[r] \in Nat /\ Microbatches \in Nat
      /\ step[r] * Microbatches \in Nat
      /\ ForwardsDone(r) = step[r] * Microbatches + mb[r]
  <2>1. pc[r] = "forward" /\ mb[r] < Microbatches /\ ControlInv
    BY DEF Forward, At, TrainInv, FlowInv
  <2> QED BY <2>1, Progress, Facts, PipelineAssumption DEF Built, InForward
<1>1. CASE IsFirst(r)
  <2>1. Received(r) = [x |-> Sample(step[r] + 1, mb[r] + 1), w |-> <<>>]
    BY <1>1 DEF Received, Input, Draw
  <2>2. <<>> \o Stage(r) = Through(step[r], r)
    BY <1>0, <1>1, StageIs
  <2>3. PICK w : w = Received(r).w \o Stage(r)
    OBVIOUS
  <2>4. w = Through(step[r], r)
    BY <2>1, <2>2, <2>3
  <2>5. [Received(r) EXCEPT !.w = w] = Activation(step[r], mb[r] + 1, r)
    BY ONLY <2>1, <2>4 DEF Activation
  <2> QED BY ONLY <2>3, <2>5
<1>2. CASE ~IsFirst(r)
  <2> DEFINE q == r - 1
  <2>1. q \in Rank /\ ~IsLast(q)
    BY <1>2, WorldSizeAssumption DEF IsFirst, IsLast, Rank
  <2>2. ForwardsDone(q) > ForwardsDone(r) /\ ForwardsDone(q) \in Nat
    <3>1. Len(fwd[q]) > ForwardsDone(r)
      BY <2>1 DEF Forward
    <3>2. Len(fwd[q]) = ForwardsDone(q)
      BY <2>1, Receives DEF TrainInv
    <3>3. ForwardsDone(q) \in Nat
      BY <2>1, Progress DEF TrainInv, FlowInv
    <3> QED BY <3>1, <3>2, <3>3
  <2>3. /\ ForwardsDone(r) + 1 = step[r] * Microbatches + (mb[r] + 1)
        /\ step[r] * Microbatches + (mb[r] + 1) <= ForwardsDone(q)
        /\ mb[r] + 1 \in 1 .. Microbatches
    BY <1>0, <2>2
  <2> HIDE DEF q
  <2>4. fwd[q][ForwardsDone(r) + 1] = Activation(step[r], mb[r] + 1, q)
    BY <1>0, <2>1, <2>3 DEF TrainInv, TrainedAt
  <2>5. Received(r) = [x |-> Sample(step[r] + 1, mb[r] + 1), w |-> Through(step[r], q)]
    BY <1>2, <2>4 DEF Received, Activation, q
  <2>6. Through(step[r], q) \o Stage(r) = Through(step[r], r)
    BY <1>0, <2>1, StageIs DEF q
  <2>7. PICK w : w = Received(r).w \o Stage(r)
    OBVIOUS
  <2>8. w = Through(step[r], r)
    BY <2>5, <2>6, <2>7
  <2>9. [Received(r) EXCEPT !.w = w] = Activation(step[r], mb[r] + 1, r)
    BY ONLY <2>5, <2>8 DEF Activation
  <2> QED BY ONLY <2>7, <2>9
<1> QED BY <1>1, <1>2

\* What has passed the last stage has passed the whole model.
LEMMA ThroughAll ==
  ASSUME NEW r \in Rank, IsLast(r), NEW n
  PROVE  Through(n, r) = InOrder(Weights[n])
<1>1. LastModule(NLayer, WorldSize, r) + 1 = NLayer + 2
  BY PipelineAssumption DEF LastModule, IsLast
<1> QED BY <1>1 DEF Through, InOrder

\* Backward brings the gradient of microbatch mb + 1.
LEMMA BackwardBrings ==
  ASSUME TrainInv, NEW r \in Rank, Backward(r)
  PROVE  (IF IsLast(r) THEN Loss(r) ELSE bwd[r + 1][BackwardsDone(r) + 1])
           = Returned(step[r], mb[r] + 1)
<1>0. /\ pc[r] = "backward" /\ mb[r] < Microbatches
      /\ step[r] \in Nat /\ mb[r] \in Nat /\ Microbatches \in Nat
      /\ step[r] * Microbatches \in Nat /\ mb[r] + 1 \in 1 .. Microbatches
      /\ BackwardsDone(r) = step[r] * Microbatches + mb[r]
  <2>1. pc[r] = "backward" /\ mb[r] < Microbatches /\ ControlInv
    BY DEF Backward, At, TrainInv, FlowInv
  <2>2. step[r] \in Nat /\ mb[r] \in Nat /\ Microbatches \in Nat
    BY <2>1, Facts, PipelineAssumption
  <2> QED BY <2>1, <2>2, Progress DEF InBackward
<1>1. CASE IsLast(r)
  <2>1. InForward(r) = Microbatches
    BY <1>0 DEF InForward
  <2>2. outputs[r][mb[r] + 1] = Activation(step[r], mb[r] + 1, r)
    BY <1>0, <1>1, <2>1 DEF TrainInv, TrainedAt, Steps
  <2>3. Activation(step[r], mb[r] + 1, r).w = InOrder(Weights[step[r]])
        /\ Activation(step[r], mb[r] + 1, r).x = Sample(step[r] + 1, mb[r] + 1)
    BY <1>1, ThroughAll DEF Activation
  <2> QED BY <1>1, <2>2, <2>3 DEF Loss, Target, Draw, Returned, GradOf
<1>2. CASE ~IsLast(r)
  <2> DEFINE q == r + 1
  <2>1. q \in Rank /\ ~IsFirst(q)
    BY <1>2, WorldSizeAssumption DEF IsFirst, IsLast, Rank
  <2>2. BackwardsDone(q) > BackwardsDone(r) /\ BackwardsDone(q) \in Nat
    <3>1. Len(bwd[q]) > BackwardsDone(r)
      BY <2>1 DEF Backward
    <3>2. Len(bwd[q]) = BackwardsDone(q)
      BY <2>1, Receives DEF TrainInv
    <3>3. BackwardsDone(q) \in Nat
      BY <2>1, Progress DEF TrainInv, FlowInv
    <3> QED BY <3>1, <3>2, <3>3
  <2>3. /\ BackwardsDone(r) + 1 = step[r] * Microbatches + (mb[r] + 1)
        /\ step[r] * Microbatches + (mb[r] + 1) <= BackwardsDone(q)
    BY <1>0, <2>2
  <2> HIDE DEF q
  <2>4. bwd[q][BackwardsDone(r) + 1] = Returned(step[r], mb[r] + 1)
    BY <1>0, <2>1, <2>3 DEF TrainInv, TrainedAt
  <2> QED BY <1>2, <2>4 DEF q
<1> QED BY <1>1, <1>2

\* The other ranks keep what they have and what they have sent.
LEMMA OthersStayTrained ==
  ASSUME TrainInv, NEW r \in Rank, Train(r), NEW q \in Rank, q # r
  PROVE  TrainedAt(q)'
<1>1. /\ pc'[q] = pc[q] /\ step'[q] = step[q] /\ mb'[q] = mb[q] /\ model'[q] = model[q]
      /\ fwd'[q] = fwd[q] /\ bwd'[q] = bwd[q] /\ outputs'[q] = outputs[q] /\ grad'[q] = grad[q]
  BY Frame DEF TrainInv, FlowInv
<1>2. ForwardsDone(q)' = ForwardsDone(q) /\ BackwardsDone(q)' = BackwardsDone(q)
  BY Passes DEF TrainInv, FlowInv
<1>3. /\ InForward(q)' = InForward(q) /\ InBackward(q)' = InBackward(q)
      /\ Built(q)' <=> Built(q)
  BY <1>1 DEF InForward, InBackward, Built
<1>4. TrainedAt(q)
  BY DEF TrainInv
<1> QED BY <1>1, <1>2, <1>3, <1>4
        DEF TrainedAt, IsLast, IsFirst, Activation, Through, Returned, GradOf, Owned

\* A step without a pass or an update leaves rank r what it has.
LEMMA StaysTrained ==
  ASSUME TrainInv, NEW r \in Rank, ForwardsDone(r)' = ForwardsDone(r),
         BackwardsDone(r)' = BackwardsDone(r),
         model'[r] = model[r], fwd'[r] = fwd[r], bwd'[r] = bwd[r], step'[r] = step[r],
         Built(r)' => Built(r),
         \/ pc'[r] \notin Steps
         \/ InForward(r)' = 0 /\ InBackward(r)' = 0
         \/ /\ pc[r] \in Steps /\ InForward(r)' = InForward(r) /\ InBackward(r)' = InBackward(r)
            /\ outputs'[r] = outputs[r] /\ grad'[r] = grad[r]
  PROVE  TrainedAt(r)'
<1>1. TrainedAt(r)
  BY DEF TrainInv
<1>2. \A i : i \notin 1 .. 0
  OBVIOUS
<1> QED BY <1>1, <1>2
        DEF TrainedAt, IsLast, IsFirst, Activation, Through, Returned, GradOf, Owned

LEMMA ForwardTrained ==
  ASSUME TrainInv, NEW r \in Rank, Forward(r)
  PROVE  TrainedAt(r)'
<1>0. /\ ControlInv /\ TrainedAt(r) /\ Train(r)
      /\ DOMAIN fwd = Rank /\ DOMAIN outputs = Rank /\ mb \in [Rank -> 0 .. Microbatches]
  BY DEF TrainInv, FlowInv, ControlInv, StagesOK, Train
<1>1. /\ pc[r] = "forward" /\ pc' = pc /\ step' = step /\ mb[r] < Microbatches
      /\ UNCHANGED <<model, bwd, grad>> /\ mb'[r] = mb[r] + 1
  BY <1>0 DEF Forward, At
<1>2. /\ step[r] \in Nat /\ mb[r] \in Nat /\ Microbatches \in Nat
      /\ step[r] * Microbatches \in Nat /\ mb[r] + 1 \in 1 .. Microbatches
      /\ ForwardsDone(r) = step[r] * Microbatches + mb[r] /\ ForwardsDone(r) \in Nat
  BY <1>0, <1>1, Facts, PipelineAssumption, Progress DEF InForward
<1>3. /\ ForwardsDone(r)' = ForwardsDone(r) + 1 /\ BackwardsDone(r)' = BackwardsDone(r)
  BY <1>0, <1>1, Passes DEF Backward, At
<1>4. InForward(r)' = mb[r] + 1 /\ InForward(r) = mb[r] /\ InBackward(r)' = 0 /\ Built(r)' = Built(r)
  BY <1>1 DEF InForward, InBackward, Built
<1>5. PICK out : /\ out = Activation(step[r], mb[r] + 1, r)
                 /\ IF IsLast(r)
                    THEN outputs' = [outputs EXCEPT ![r] = Append(@, out)] /\ UNCHANGED fwd
                    ELSE fwd' = [fwd EXCEPT ![r] = Append(@, out)] /\ UNCHANGED outputs
  BY ForwardMakes DEF Forward
<1>6. ASSUME ~IsLast(r), NEW n \in Nat, NEW i \in 1 .. Microbatches,
             n * Microbatches + i <= ForwardsDone(r) + 1
      PROVE  fwd'[r][n * Microbatches + i] = Activation(n, i, r)
  <2>1. IsList(fwd[r], ForwardsDone(r)) /\ fwd'[r] = Append(fwd[r], out)
    BY <1>0, <1>5, <1>6 DEF TrainInv, FlowInv, Held
  <2>2. /\ \A k \in 1 .. ForwardsDone(r) : fwd'[r][k] = fwd[r][k]
        /\ fwd'[r][ForwardsDone(r) + 1] = out
    <3>1. ForwardsDone(r) \in Nat
      BY <1>2
    <3>2. fwd'[r] = [k \in 1 .. ForwardsDone(r) + 1 |-> IF k <= ForwardsDone(r) THEN fwd[r][k] ELSE out]
      BY <2>1, <3>1, Appended DEF IsList
    <3>3. /\ \A k \in 1 .. ForwardsDone(r) : k \in 1 .. ForwardsDone(r) + 1 /\ k <= ForwardsDone(r)
          /\ ForwardsDone(r) + 1 \in 1 .. ForwardsDone(r) + 1 /\ ~(ForwardsDone(r) + 1 <= ForwardsDone(r))
      BY ONLY <3>1
    <3> QED BY ONLY <3>2, <3>3
  <2>3. n * Microbatches \in Nat /\ n * Microbatches + i \in Nat \ {0}
    BY <1>2
  <2>4. CASE n * Microbatches + i <= ForwardsDone(r)
    <3>1. fwd[r][n * Microbatches + i] = Activation(n, i, r)
      BY <1>0, <1>6, <2>4 DEF TrainedAt
    <3>2. n * Microbatches + i \in 1 .. ForwardsDone(r)
      BY <1>2, <2>3, <2>4
    <3> QED BY <2>2, <3>1, <3>2
  <2>5. CASE ~(n * Microbatches + i <= ForwardsDone(r))
    <3>1. n * Microbatches + i = ForwardsDone(r) + 1
      BY <1>2, <1>6, <2>3, <2>5
    <3>2. n * Microbatches + i = step[r] * Microbatches + (mb[r] + 1)
      BY <1>2, <3>1
    <3>3. n = step[r] /\ i = mb[r] + 1
      BY <1>2, <3>2, Numbering
    <3> QED BY <1>5, <2>2, <3>1, <3>3
  <2> QED BY <2>4, <2>5
<1>7. ASSUME IsLast(r), NEW i \in 1 .. mb[r] + 1
      PROVE  outputs'[r][i] = Activation(step[r], i, r)
  <2>1. IsList(outputs[r], mb[r]) /\ outputs'[r] = Append(outputs[r], out)
    BY <1>0, <1>1, <1>5, <1>7 DEF TrainInv, FlowInv, Held
  <2>2. /\ \A k \in 1 .. mb[r] : outputs'[r][k] = outputs[r][k]
        /\ outputs'[r][mb[r] + 1] = out
    <3>1. mb[r] \in Nat
      BY <1>2
    <3>2. outputs'[r] = [k \in 1 .. mb[r] + 1 |-> IF k <= mb[r] THEN outputs[r][k] ELSE out]
      BY <2>1, <3>1, Appended DEF IsList
    <3>3. /\ \A k \in 1 .. mb[r] : k \in 1 .. mb[r] + 1 /\ k <= mb[r]
          /\ mb[r] + 1 \in 1 .. mb[r] + 1 /\ ~(mb[r] + 1 <= mb[r])
      BY ONLY <3>1
    <3> QED BY ONLY <3>2, <3>3
  <2>3. i \in 1 .. mb[r] \/ i = mb[r] + 1
    BY <1>2
  <2> QED BY <1>0, <1>1, <1>4, <1>5, <1>7, <2>2, <2>3 DEF TrainedAt, Steps
<1>8. Built(r) => \A m \in Owned(r) : model'[r][m] = Weights[step'[r]][m]
  BY <1>0, <1>1 DEF TrainedAt
<1>9. ~IsFirst(r) => \A n \in Nat : \A i \in 1 .. Microbatches :
        n * Microbatches + i <= BackwardsDone(r) => bwd'[r][n * Microbatches + i] = Returned(n, i)
  BY <1>0, <1>1 DEF TrainedAt
<1>10. \A i : i \notin 1 .. 0
  OBVIOUS
<1> QED BY <1>1, <1>3, <1>4, <1>6, <1>7, <1>8, <1>9, <1>10
        DEF TrainedAt, IsLast, IsFirst, Activation, Through, Returned, GradOf, Owned

LEMMA BackwardTrained ==
  ASSUME TrainInv, NEW r \in Rank, Backward(r)
  PROVE  TrainedAt(r)'
<1>0. /\ ControlInv /\ TrainedAt(r) /\ Train(r)
      /\ DOMAIN bwd = Rank /\ DOMAIN grad = Rank /\ mb \in [Rank -> 0 .. Microbatches]
  BY DEF TrainInv, FlowInv, ControlInv, StagesOK, Train
<1>1. /\ pc[r] = "backward" /\ pc' = pc /\ step' = step /\ mb[r] < Microbatches
      /\ UNCHANGED <<model, fwd, outputs>> /\ mb'[r] = mb[r] + 1
  BY <1>0 DEF Backward, At
<1>2. /\ step[r] \in Nat /\ mb[r] \in Nat /\ Microbatches \in Nat
      /\ step[r] * Microbatches \in Nat /\ mb[r] + 1 \in 1 .. Microbatches
      /\ BackwardsDone(r) = step[r] * Microbatches + mb[r] /\ BackwardsDone(r) \in Nat
  BY <1>0, <1>1, Facts, PipelineAssumption, Progress DEF InBackward
<1>3. /\ ForwardsDone(r)' = ForwardsDone(r) /\ BackwardsDone(r)' = BackwardsDone(r) + 1
  BY <1>0, <1>1, Passes DEF Forward, At
<1>4. /\ InForward(r)' = InForward(r) /\ InBackward(r) = mb[r] /\ InBackward(r)' = mb[r] + 1
      /\ Built(r)' = Built(r)
  BY <1>1 DEF InForward, InBackward, Built
<1>5. PICK g : /\ g = Returned(step[r], mb[r] + 1)
               /\ grad' = [grad EXCEPT ![r] = Append(@, g)]
               /\ bwd' = IF IsFirst(r) THEN bwd ELSE [bwd EXCEPT ![r] = Append(@, g)]
  BY BackwardBrings DEF Backward
<1>6. ASSUME ~IsFirst(r), NEW n \in Nat, NEW i \in 1 .. Microbatches,
             n * Microbatches + i <= BackwardsDone(r) + 1
      PROVE  bwd'[r][n * Microbatches + i] = Returned(n, i)
  <2>1. IsList(bwd[r], BackwardsDone(r)) /\ bwd'[r] = Append(bwd[r], g)
    BY <1>0, <1>5, <1>6 DEF TrainInv, FlowInv, Held
  <2>2. /\ \A k \in 1 .. BackwardsDone(r) : bwd'[r][k] = bwd[r][k]
        /\ bwd'[r][BackwardsDone(r) + 1] = g
    <3>1. BackwardsDone(r) \in Nat
      BY <1>2
    <3>2. bwd'[r] = [k \in 1 .. BackwardsDone(r) + 1 |-> IF k <= BackwardsDone(r) THEN bwd[r][k] ELSE g]
      BY <2>1, <3>1, Appended DEF IsList
    <3>3. /\ \A k \in 1 .. BackwardsDone(r) : k \in 1 .. BackwardsDone(r) + 1 /\ k <= BackwardsDone(r)
          /\ BackwardsDone(r) + 1 \in 1 .. BackwardsDone(r) + 1 /\ ~(BackwardsDone(r) + 1 <= BackwardsDone(r))
      BY ONLY <3>1
    <3> QED BY ONLY <3>2, <3>3
  <2>3. n * Microbatches \in Nat /\ n * Microbatches + i \in Nat \ {0}
    BY <1>2
  <2>4. CASE n * Microbatches + i <= BackwardsDone(r)
    <3>1. bwd[r][n * Microbatches + i] = Returned(n, i)
      BY <1>0, <1>6, <2>4 DEF TrainedAt
    <3>2. n * Microbatches + i \in 1 .. BackwardsDone(r)
      BY <1>2, <2>3, <2>4
    <3> QED BY <2>2, <3>1, <3>2
  <2>5. CASE ~(n * Microbatches + i <= BackwardsDone(r))
    <3>1. n * Microbatches + i = BackwardsDone(r) + 1
      BY <1>2, <1>6, <2>3, <2>5
    <3>2. n * Microbatches + i = step[r] * Microbatches + (mb[r] + 1)
      BY <1>2, <3>1
    <3>3. n = step[r] /\ i = mb[r] + 1
      BY <1>2, <3>2, Numbering
    <3> QED BY <1>5, <2>2, <3>1, <3>3
  <2> QED BY <2>4, <2>5
<1>7. ASSUME NEW i \in 1 .. mb[r] + 1
      PROVE  grad'[r][i] = Returned(step[r], i)
  <2>1. IsList(grad[r], mb[r]) /\ grad'[r] = Append(grad[r], g)
    BY <1>0, <1>1, <1>5 DEF TrainInv, FlowInv, Held
  <2>2. /\ \A k \in 1 .. mb[r] : grad'[r][k] = grad[r][k]
        /\ grad'[r][mb[r] + 1] = g
    <3>1. mb[r] \in Nat
      BY <1>2
    <3>2. grad'[r] = [k \in 1 .. mb[r] + 1 |-> IF k <= mb[r] THEN grad[r][k] ELSE g]
      BY <2>1, <3>1, Appended DEF IsList
    <3>3. /\ \A k \in 1 .. mb[r] : k \in 1 .. mb[r] + 1 /\ k <= mb[r]
          /\ mb[r] + 1 \in 1 .. mb[r] + 1 /\ ~(mb[r] + 1 <= mb[r])
      BY ONLY <3>1
    <3> QED BY ONLY <3>2, <3>3
  <2>3. i \in 1 .. mb[r] \/ i = mb[r] + 1
    BY <1>2
  <2> QED BY <1>0, <1>1, <1>4, <1>5, <2>2, <2>3 DEF TrainedAt, Steps
<1>8. Built(r) => \A m \in Owned(r) : model'[r][m] = Weights[step'[r]][m]
  BY <1>0, <1>1 DEF TrainedAt
<1>9. ~IsLast(r) => \A n \in Nat : \A i \in 1 .. Microbatches :
        n * Microbatches + i <= ForwardsDone(r) =>
          fwd'[r][n * Microbatches + i] = Activation(n, i, r)
  BY <1>0, <1>1 DEF TrainedAt
<1>10. IsLast(r) => \A i \in 1 .. InForward(r) : outputs'[r][i] = Activation(step[r], i, r)
  BY <1>0, <1>1 DEF TrainedAt, Steps
<1> QED BY <1>1, <1>3, <1>4, <1>6, <1>7, <1>8, <1>9, <1>10
        DEF TrainedAt, IsLast, IsFirst, Activation, Through, Returned, GradOf, Owned

\* The stage's update is the reference update of its modules.
LEMMA UpdateTrained ==
  ASSUME TrainInv, NEW r \in Rank, OptimizerStep(r)
  PROVE  TrainedAt(r)'
<1>0. /\ ControlInv /\ TrainedAt(r) /\ Train(r) /\ StagesOK
      /\ DOMAIN model = Rank /\ pc \in [Rank -> Label] /\ step \in [Rank -> Nat]
  BY Facts DEF TrainInv, FlowInv, ControlInv, StagesOK, Train
<1>1. /\ pc[r] = "update" /\ pc'[r] = "loop" /\ step'[r] = step[r] + 1 /\ step[r] \in Nat
      /\ UNCHANGED <<mb, fwd, bwd, outputs, grad>> /\ Built(r) /\ NLayer >= WorldSize
  BY <1>0 DEF OptimizerStep, At, EndStep, Goto, Built, StagesOK
<1>2. ForwardsDone(r)' = ForwardsDone(r) /\ BackwardsDone(r)' = BackwardsDone(r)
  BY <1>0, <1>1, Passes DEF Forward, Backward, At
<1>3. grad[r] = [i \in 1 .. Microbatches |-> Returned(step[r], i)]
  <2>1. IsList(grad[r], Microbatches)
    BY <1>1 DEF TrainInv, FlowInv, Held
  <2>2. \A i \in 1 .. Microbatches : grad[r][i] = Returned(step[r], i)
    BY <1>0, <1>1 DEF TrainedAt, Steps, InBackward
  <2> QED BY <2>1, <2>2 DEF IsList
<1>4. ASSUME NEW m \in Owned(r) PROVE model'[r][m] = Weights[step[r] + 1][m]
  <2>1. model[r][m] = Weights[step[r]][m]
    BY <1>0, <1>1 DEF TrainedAt
  <2>2. model'[r][m] = ApplyModule(m, model[r][m], grad[r])
    BY <1>0, <1>4 DEF OptimizerStep
  <2>3. m \in Modules(NLayer)
    BY <1>1, OwnedRange
  <2> QED BY <1>1, <1>3, <2>1, <2>2, <2>3, ModuleUpdate
<1>5. /\ ~IsLast(r) => \A n \in Nat : \A i \in 1 .. Microbatches :
           n * Microbatches + i <= ForwardsDone(r) =>
             fwd'[r][n * Microbatches + i] = Activation(n, i, r)
      /\ ~IsFirst(r) => \A n \in Nat : \A i \in 1 .. Microbatches :
           n * Microbatches + i <= BackwardsDone(r) =>
             bwd'[r][n * Microbatches + i] = Returned(n, i)
  BY <1>0, <1>1 DEF TrainedAt
<1> QED BY <1>1, <1>2, <1>4, <1>5
        DEF TrainedAt, IsLast, IsFirst, Activation, Through, Returned, GradOf, Owned, Steps

LEMMA BuildTrained ==
  ASSUME TrainInv, NEW r \in Rank, BuildStage(r)
  PROVE  TrainedAt(r)'
<1>0. /\ ControlInv /\ TrainedAt(r) /\ Train(r)
      /\ DOMAIN model = Rank /\ pc \in [Rank -> Label] /\ NLayer \in Nat /\ WorldSize \in Nat
  BY Facts, PipelineAssumption, WorldSizeAssumption
  DEF TrainInv, FlowInv, ControlInv, StagesOK, Train
<1>1. /\ pc[r] = "setup" /\ pc'[r] \notin Steps /\ step'[r] = 0 /\ step[r] = 0
      /\ UNCHANGED <<mb, fwd, bwd, outputs, grad>>
  BY <1>0 DEF BuildStage, At, Fail, Advance, Goto, Steps, ControlInv, Position, Placed
<1>2. ForwardsDone(r)' = ForwardsDone(r) /\ BackwardsDone(r)' = BackwardsDone(r)
  BY <1>0, <1>1, Passes DEF Forward, Backward, At
<1>3. ASSUME Built(r)', NEW m \in Owned(r) PROVE model'[r][m] = Weights[0][m]
  <2>1. ~(NLayer < WorldSize)
    BY <1>0, <1>1, <1>3 DEF BuildStage, Fail, Built
  <2>2. model'[r][m] = InitW(0, m)
    BY <1>0, <1>3, <2>1 DEF BuildStage, ModelSeed
  <2>3. m \in Modules(NLayer)
    BY <1>0, <2>1, OwnedRange
  <2> QED BY <2>2, <2>3, WeightSteps DEF FirstWeights
<1>4. /\ ~IsLast(r) => \A n \in Nat : \A i \in 1 .. Microbatches :
           n * Microbatches + i <= ForwardsDone(r) =>
             fwd'[r][n * Microbatches + i] = Activation(n, i, r)
      /\ ~IsFirst(r) => \A n \in Nat : \A i \in 1 .. Microbatches :
           n * Microbatches + i <= BackwardsDone(r) =>
             bwd'[r][n * Microbatches + i] = Returned(n, i)
  BY <1>0, <1>1 DEF TrainedAt
<1> QED BY <1>1, <1>2, <1>3, <1>4
        DEF TrainedAt, IsLast, IsFirst, Activation, Through, Returned, GradOf, Owned

\* The steps that make neither a pass nor an update
LEMMA OthersTrained ==
  ASSUME TrainInv, NEW r \in Rank, Quiet(r) \/ BeginStep(r) \/ TurnAround(r) \/ EndSchedule(r)
  PROVE  TrainedAt(r)'
<1>0. /\ ControlInv /\ Train(r) /\ pc \in [Rank -> Label] /\ mb \in [Rank -> 0 .. Microbatches]
      /\ DOMAIN outputs = Rank /\ DOMAIN grad = Rank
  BY Facts DEF TrainInv, FlowInv, ControlInv, StagesOK, Train, Quiet
<1> USE DEF At, Advance, Goto
<1>1. ~Forward(r) /\ ~Backward(r)
  <2>1. CASE Quiet(r)
    BY <1>0, <2>1, QuietStep DEF Forward, Backward, Steps
  <2>2. CASE BeginStep(r)
    BY <2>2 DEF BeginStep, Forward, Backward
  <2>3. CASE TurnAround(r) \/ EndSchedule(r)
    BY <1>0, <2>3 DEF TurnAround, EndSchedule, Forward, Backward
  <2> QED BY <2>1, <2>2, <2>3
<1>2. ForwardsDone(r)' = ForwardsDone(r) /\ BackwardsDone(r)' = BackwardsDone(r)
  BY <1>0, <1>1, Passes
<1>3. CASE Quiet(r)
  <2>1. UNCHANGED <<step, stageVars>> /\ pc'[r] \notin Steps /\ (Built(r)' <=> Built(r))
    BY <1>0, <1>3, QuietStep
  <2> QED BY <1>2, <2>1, StaysTrained DEF stageVars
<1>4. CASE BeginStep(r)
  <2>1. /\ UNCHANGED <<step, model, fwd, bwd>> /\ Built(r)
        /\ InForward(r)' = 0 /\ InBackward(r)' = 0
    BY <1>0, <1>4 DEF BeginStep, InForward, InBackward, Built
  <2> QED BY <1>2, <2>1, StaysTrained
<1>5. CASE TurnAround(r) \/ EndSchedule(r)
  <2>1. /\ UNCHANGED <<step, model, fwd, bwd, outputs, grad>> /\ Built(r) /\ pc[r] \in Steps
        /\ InForward(r)' = InForward(r) /\ InBackward(r)' = InBackward(r)
    BY <1>0, <1>5
    DEF TurnAround, EndSchedule, InForward, InBackward, Built, Steps, stageVars
  <2> QED BY <1>2, <2>1, StaysTrained
<1> QED BY <1>3, <1>4, <1>5

LEMMA TrainInit == Init => TrainInv
<1> SUFFICES ASSUME Init, NEW r \in Rank PROVE TrainedAt(r)
  BY FlowInit DEF TrainInv
<1>1. pc[r] = "start" /\ step[r] = 0 /\ Microbatches \in Nat
  BY PipelineAssumption DEF Init, WorkerInit
<1>2. ForwardsDone(r) = 0 /\ BackwardsDone(r) = 0
  BY <1>1 DEF ForwardsDone, BackwardsDone, Passed
<1>3. \A n \in Nat : \A i \in 1 .. Microbatches : ~(n * Microbatches + i <= 0)
  <2> SUFFICES ASSUME NEW n \in Nat, NEW i \in 1 .. Microbatches
               PROVE  ~(n * Microbatches + i <= 0)
    OBVIOUS
  <2>1. n * Microbatches \in Nat
    BY <1>1
  <2> QED BY <2>1
<1> QED BY <1>1, <1>2, <1>3 DEF TrainedAt, Built, Steps

\* Every stage has, sends and accumulates what the one model would have.
THEOREM TrainCorrect == Spec => []TrainInv
<1>1. ASSUME TrainInv, FlowInv', UNCHANGED <<pc, step, stageVars>> PROVE TrainInv'
  <2>1. ASSUME NEW r \in Rank PROVE TrainedAt(r)'
    <3>1. TrainedAt(r)
      BY <1>1 DEF TrainInv
    <3> QED BY <1>1, <3>1
            DEF TrainedAt, Built, ForwardsDone, BackwardsDone, Passed, InForward, InBackward,
                IsLast, IsFirst, Owned, Activation, Through, Returned, GradOf, stageVars
  <2> QED BY <1>1, <2>1 DEF TrainInv
<1>2. ASSUME TrainInv, FlowInv', [Next]_vars PROVE TrainInv'
  <2>1. CASE UNCHANGED vars
    BY <1>1, <1>2, <2>1 DEF vars
  <2>2. ASSUME NEW r \in Rank, Train(r) PROVE TrainInv'
    <3>1. TrainedAt(r)'
      BY <1>2, <2>2, OthersTrained, ForwardTrained, BackwardTrained, UpdateTrained, BuildTrained
      DEF Train, Quiet
    <3>2. \A q \in Rank : q # r => TrainedAt(q)'
      BY <1>2, <2>2, OthersStayTrained
    <3> QED BY <1>2, <3>1, <3>2 DEF TrainInv
  <2>3. ASSUME NEW r \in Rank, Runtime(r) PROVE TrainInv'
    BY <1>1, <1>2, <2>3, ControlRuntime DEF TrainInv, FlowInv
  <2> QED BY <1>2, <2>1, <2>2, <2>3 DEF Next, Over
<1> QED BY <1>2, TrainInit, FlowCorrect, PTL DEF Spec

-----------------------------------------------------------------------------
(* The stages together are the reference model.                             *)

LEMMA FurthestIs ==
  ASSUME FlowInv
  PROVE  /\ Furthest \in Nat
         /\ \A q \in Rank : step[q] <= Furthest
         /\ \E q \in Rank : step[q] = Furthest
<1>0. \A q \in Rank : step[q] \in Nat
  BY Facts DEF FlowInv
<1>1. \E r \in Rank : \A q \in Rank : step[q] <= step[r]
  <2>1. CASE \E r \in Rank : step[r] > step[0]
    <3>1. PICK r \in Rank : step[r] > step[0]
      BY <2>1
    <3>2. \A q \in Rank : step[q] <= step[0] + 1
      BY <1>0, RankZero, BehindWaits
    <3> QED BY <1>0, <3>1, <3>2, RankZero
  <2> QED BY <1>0, <2>1, RankZero
<1>2. \E n \in {step[r] : r \in Rank} : \A q \in Rank : step[q] <= n
  BY <1>1
<1>3. Furthest \in {step[r] : r \in Rank} /\ \A q \in Rank : step[q] <= Furthest
  BY <1>2 DEF Furthest
<1> QED BY <1>0, <1>3

LEMMA NotBuiltNotBegun ==
  ASSUME FlowInv, NEW q \in Rank, ~Built(q)
  PROVE  Furthest = 0
<1>1. step[q] = 0 /\ pc[q] \notin Steps
  BY DEF FlowInv, ControlInv, Position, Placed, Built, Steps
<1>2. PICK t \in Rank : step[t] = Furthest
  BY FurthestIs
<1>3. ~(step[q] < step[t])
  BY <1>1, BehindWaits
<1> QED BY <1>1, <1>2, <1>3, FurthestIs

\* What the ranks that have not made the furthest step are about to update with
\* is what the last stage took the losses of.
LEMMA LossesAreReturned ==
  ASSUME TrainInv, NEW r \in Rank, step[r] < Furthest
  PROVE  /\ Furthest = step[r] + 1
         /\ LossesOf(Furthest) = [i \in 1 .. Microbatches |-> Returned(step[r], i)]
<1> DEFINE last == WorldSize - 1
           n == step[r]
<1>0. FlowInv /\ step[r] \in Nat /\ Microbatches \in Nat
  BY Facts, PipelineAssumption DEF TrainInv, FlowInv
<1>1. PICK q \in Rank : step[q] = Furthest
  BY <1>0, FurthestIs
<1>2. step[q] = n + 1
  BY <1>0, <1>1, BehindWaits
<1>3. last \in Rank /\ q <= last /\ (last = 0 => q = r)
  BY WorldSizeAssumption DEF Rank
<1>4. last # 0 /\ IsLast(last)
  BY <1>1, <1>2, <1>3, <1>0 DEF IsLast
<1> HIDE DEF last
<1>5. BackwardsDone(last) >= (n + 1) * Microbatches /\ BackwardsDone(last) \in Nat
  BY <1>0, <1>2, <1>3, StepsPassed, Progress DEF FlowInv
<1>6. ASSUME NEW i \in 1 .. Microbatches
      PROVE  bwd[last][n * Microbatches + i] = Returned(n, i)
  <2>1. n * Microbatches \in Nat /\ (n + 1) * Microbatches = n * Microbatches + Microbatches
    BY <1>0
  <2>2. n * Microbatches + i <= BackwardsDone(last)
    BY <1>0, <1>5, <2>1
  <2>3. ~IsFirst(last) /\ TrainedAt(last)
    BY <1>3, <1>4 DEF IsFirst, TrainInv
  <2> QED BY <1>0, <2>2, <2>3 DEF TrainedAt
<1>7. Furthest - 1 = n
  BY <1>0, <1>1, <1>2
<1>8. LossesOf(Furthest) = [i \in 1 .. Microbatches |-> bwd[last][n * Microbatches + i]]
  BY <1>7 DEF LossesOf, last
<1> QED BY <1>1, <1>2, <1>6, <1>8

LEMMA ModuleIsTrained ==
  ASSUME TrainInv, NEW m \in Modules(NLayer)
  PROVE  ModuleNow(m) = Weights[Furthest][m]
<1>0. /\ FlowInv /\ StagesOK /\ Furthest \in Nat
      /\ \A q \in Rank : step[q] \in Nat /\ step[q] <= Furthest
      /\ WorldSize \in Nat \ {0} /\ NLayer \in Nat
  BY FurthestIs, Facts, WorldSizeAssumption, PipelineAssumption DEF TrainInv, FlowInv, ControlInv
<1>1. CASE \A r \in Rank : m \in Owned(r) => ~Built(r)
  <2>1. \E r \in Rank : ~Built(r)
    <3>1. CASE NLayer >= WorldSize
      <4>1. \E r \in Rank : m \in Owned(r)
        BY <1>0, <3>1, StagesCover DEF Owned, Rank
      <4> QED BY <1>1, <4>1
    <3>2. CASE ~(NLayer >= WorldSize)
      BY <1>0, <3>2, RankZero DEF StagesOK
    <3> QED BY <3>1, <3>2
  <2>2. Furthest = 0
    BY <1>0, <2>1, NotBuiltNotBegun
  <2>3. ModuleNow(m) = InitW(0, m)
    BY <1>1 DEF ModuleNow
  <2> QED BY <2>2, <2>3, WeightSteps DEF FirstWeights
<1>2. CASE ~(\A r \in Rank : m \in Owned(r) => ~Built(r))
  <2> DEFINE c == CHOOSE q \in Rank : m \in Owned(q)
  <2>1. PICK r \in Rank : m \in Owned(r) /\ Built(r)
    BY <1>2
  <2>2. c \in Rank /\ m \in Owned(c)
    BY <2>1
  <2>3. ModuleNow(m) = IF step[c] < Furthest
                       THEN ApplyModule(m, model[c][m], LossesOf(Furthest)) ELSE model[c][m]
    BY <1>2 DEF ModuleNow
  <2> HIDE DEF c
  <2>4. c = r
    <3>1. NLayer >= WorldSize /\ r \in 0 .. WorldSize - 1 /\ c \in 0 .. WorldSize - 1
      BY <1>0, <2>1, <2>2 DEF StagesOK, Rank
    <3>2. m \in Int
      BY <1>0 DEF Modules
    <3>3. ~(c < r) /\ ~(r < c)
      BY <1>0, <2>1, <2>2, <3>1, <3>2, StagesInOrder DEF Owned
    <3> QED BY <3>1, <3>3
  <2>5. model[c][m] = Weights[step[c]][m]
    BY <2>1, <2>4 DEF TrainInv, TrainedAt
  <2>6. CASE step[c] < Furthest
    <3>1. /\ Furthest = step[c] + 1
          /\ LossesOf(Furthest) = [i \in 1 .. Microbatches |-> Returned(step[c], i)]
      BY <2>2, <2>6, LossesAreReturned
    <3>2. step[c] \in Nat
      BY <1>0, <2>2
    <3> QED BY <2>3, <2>5, <2>6, <3>1, <3>2, ModuleUpdate
  <2>7. CASE ~(step[c] < Furthest)
    <3>1. step[c] = Furthest
      BY <1>0, <2>2, <2>7
    <3> QED BY <2>3, <2>5, <2>7, <3>1
  <2> QED BY <2>6, <2>7
<1> QED BY <1>1, <1>2

\* The same in the next state
ModelNow == InOrder([m \in Modules(NLayer) |-> ModuleNow(m)])
HoldsTrained == ModelNow = InOrder(Weights[Furthest])
NobodyFurther ==
  /\ Furthest \in Nat /\ Furthest <= args.steps
  /\ \A q \in Rank : step[q] <= Furthest
  /\ \E q \in Rank : step[q] = Furthest

LEMMA AllIsTrained == TrainInv => HoldsTrained /\ NobodyFurther
<1> SUFFICES ASSUME TrainInv PROVE HoldsTrained /\ NobodyFurther
  OBVIOUS
<1>1. [m \in Modules(NLayer) |-> ModuleNow(m)] = Weights[Furthest]
  <2>1. \A m \in Modules(NLayer) : ModuleNow(m) = Weights[Furthest][m]
    BY ModuleIsTrained
  <2>2. Weights[Furthest] = [m \in Modules(NLayer) |-> Weights[Furthest][m]]
    BY WeightsAreWhole, FurthestIs DEF TrainInv
  <2> QED BY <2>1, <2>2
<1>2. NobodyFurther
  BY FurthestIs, Facts DEF TrainInv, FlowInv, NobodyFurther
<1> QED BY <1>1, <1>2 DEF HoldsTrained, ModelNow

\* No step takes any rank more than one step further.
LEMMA StepsBy ==
  ASSUME ControlInv, NEW r \in Rank, Train(r) \/ Runtime(r), NEW q \in Rank
  PROVE  args' = args /\ step'[q] \in {step[q], step[q] + 1}
<1>0. step \in [Rank -> Nat]
  BY Facts
<1>1. CASE Train(r)
  <2>1. args' = args /\ (q # r => step'[q] = step[q])
    BY <1>1, Frame
  <2>2. CASE OptimizerStep(r)
    BY <1>0, <2>1, <2>2 DEF OptimizerStep, EndStep
  <2>3. CASE Quiet(r)
    BY <2>1, <2>3, QuietStep
  <2>4. CASE BuildStage(r) \/ BeginStep(r) \/ TurnAround(r) \/ EndSchedule(r)
    BY <2>1, <2>4 DEF BuildStage, BeginStep, TurnAround, EndSchedule, Fail, Advance
  <2>5. CASE Forward(r) \/ Backward(r)
    BY <2>1, <2>5 DEF Forward, Backward
  <2> QED BY <1>1, <2>2, <2>3, <2>4, <2>5 DEF Train, Quiet
<1>2. CASE Runtime(r)
  BY <1>2, ControlRuntime
<1> QED BY <1>1, <1>2

\* One update of all modules is one update of the model.
LEMMA ModelUpdate ==
  ASSUME NEW n \in Nat, NEW w, w = InOrder(Weights[n]),
         NEW g, g = [i \in 1 .. Microbatches |-> Returned(n, i)]
  PROVE  [i \in DOMAIN w |-> <<w[i][1], ApplyModule(w[i][1], w[i][2], g)>>]
           = InOrder(Weights[n + 1])
<1>1. DOMAIN w = 1 .. NLayer + 2
  BY DEF InOrder
<1>2. ASSUME NEW i \in 1 .. NLayer + 2
      PROVE  <<w[i][1], ApplyModule(w[i][1], w[i][2], g)>> = <<i - 1, Weights[n + 1][i - 1]>>
  <2>1. w[i] = <<i - 1, Weights[n][i - 1]>>
    BY <1>2 DEF InOrder
  <2>2. i - 1 \in Modules(NLayer)
    BY <1>2, PipelineAssumption DEF Modules
  <2>3. Weights[n + 1][i - 1] = ApplyModule(i - 1, Weights[n][i - 1], g)
    BY <2>2, ModuleUpdate
  <2> QED BY <2>1, <2>3
<1> QED BY <1>1, <1>2 DEF InOrder

\* Cut into stages and fed by microbatches, however its messages are buffered and
\* whenever its workers die, a run is a run of the reference loop.
THEOREM TrainsReferenceModel == Spec => TrainsAsOneModel
<1>1. Init => Reference!RefInit
  <2> SUFFICES ASSUME Init PROVE Reference!RefInit
    OBVIOUS
  <2>1. HoldsTrained /\ NobodyFurther
    BY TrainInit, AllIsTrained
  <2>2. Furthest = 0
    BY <2>1 DEF NobodyFurther, Init, WorkerInit
  <2> QED BY <2>1, <2>2, WeightSteps DEF HoldsTrained, ModelNow, FirstWeights, Reference!RefInit
<1>2. ASSUME TrainInv, HoldsTrained, NobodyFurther, HoldsTrained', NobodyFurther', [Next]_vars
      PROVE  [Reference!RefNext]_(Reference!refVars)
  <2>0. ControlInv
    BY <1>2 DEF TrainInv, FlowInv
  <2>1. args' = args /\ \A q \in Rank : step'[q] \in {step[q], step[q] + 1}
    <3>1. CASE UNCHANGED vars
      BY <3>1 DEF vars
    <3> QED BY <1>2, <2>0, <3>1, StepsBy DEF Next, Over
  <2>2. CASE Furthest' = Furthest
    BY <1>2, <2>2 DEF HoldsTrained, ModelNow, Reference!refVars
  <2>3. CASE Furthest' # Furthest
    <3> DEFINE n == Furthest
               b == [i \in 1 .. Microbatches |-> Sample(n + 1, i)]
    <3>1. n \in Nat /\ Furthest' = n + 1 /\ n + 1 <= args.steps /\ args.steps \in StepCounts
          /\ args.steps \in Nat
      <4>1. \A q \in Rank : step[q] \in Nat
        BY <2>0, Facts
      <4> QED BY <1>2, <2>0, <2>1, <2>3, <4>1, Facts DEF NobodyFurther
    <3>2. ModelNow = InOrder(Weights[n]) /\ ModelNow' = InOrder(Weights[n + 1])
      BY <1>2, <3>1 DEF HoldsTrained
    <3>3. b \in [1 .. Microbatches -> Samples]
      <4>1. n + 1 \in 1 .. args.steps
        BY <3>1
      <4>2. n + 1 \in UNION {1 .. m : m \in StepCounts}
        BY <3>1, <4>1
      <4>3. \A i \in 1 .. Microbatches : Sample(n + 1, i) \in Samples
        BY <4>2 DEF Samples
      <4> HIDE DEF n
      <4> QED BY <4>3
    <3>4. \E m \in StepCounts : n < m
      <4>1. n < args.steps
        BY <3>1
      <4> QED BY <3>1, <4>1
    <3>5. [p \in 1 .. Microbatches |-> Grad(ModelNow, b[p], b[p])]
            = [i \in 1 .. Microbatches |-> Returned(n, i)]
      BY <3>2 DEF Returned, GradOf
    <3>6. ModelNow' = [i \in DOMAIN ModelNow |->
             <<ModelNow[i][1],
               ApplyModule(ModelNow[i][1], ModelNow[i][2],
                           [p \in 1 .. Microbatches |-> Grad(ModelNow, b[p], b[p])])>>]
      <4>1. PICK w : w = ModelNow
        OBVIOUS
      <4>2. PICK g : g = [p \in 1 .. Microbatches |-> Grad(ModelNow, b[p], b[p])]
        OBVIOUS
      <4>3. w = InOrder(Weights[n]) /\ g = [i \in 1 .. Microbatches |-> Returned(n, i)]
        BY <3>2, <3>5, <4>1, <4>2
      <4> HIDE DEF n, b
      <4>4. [i \in DOMAIN w |-> <<w[i][1], ApplyModule(w[i][1], w[i][2], g)>>]
              = InOrder(Weights[n + 1])
        BY <3>1, <4>3, ModelUpdate
      <4> QED BY ONLY <3>2, <4>1, <4>2, <4>4
    <3> HIDE DEF b, n
    <3>7. Reference!TrainStep(b)
      BY <3>1, <3>4, <3>6 DEF Reference!TrainStep, ModelNow, n
    <3> QED BY <3>3, <3>7 DEF Reference!RefNext
  <2> QED BY <2>2, <2>3
<1> QED BY <1>1, <1>2, AllIsTrained, TrainCorrect, PTL
        DEF Spec, TrainsAsOneModel, Reference!RefSpec
=============================================================================
