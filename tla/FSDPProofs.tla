------------------------------ MODULE FSDPProofs ------------------------------
(***************************************************************************)
(* Proofs about train_fsdp.py for every world size, sharding strategy,     *)
(* number of steps, batch set and number of crashes, whatever torch's      *)
(* arithmetic is, and with a sound or a broken reduction of gradients.     *)
(***************************************************************************)
EXTENDS FSDP, WorkerProofs

-----------------------------------------------------------------------------
(* The inductive invariants.                                                *)

Waits ==
  {"setup", "wrap", "backward", "gather", "barrier"}
    \cup IF NoShard THEN {} ELSE {"forward", "summon"}

\* A pass that needs the full weights enters this many collectives for them.
Unshards == IF NoShard THEN 0 ELSE 1

\* How many collectives come before the step that follows the n-th
Before(n) == 2 + n + IF NoShard THEN 0 ELSE n

\* A rank at this label that has made n steps has entered so many collectives.
Placed(label, n, calls) ==
  /\ label = "start" => calls = 0 /\ n = 0
  /\ label = "setup" => calls = 1 /\ n = 0
  /\ label = "wrap" => calls = 2 /\ n = 0
  /\ label = "loop" => calls = Before(n)
  /\ label = "forward" => calls = Before(n) + Unshards /\ n < args.steps
  /\ label = "backward" => calls = Before(n + 1) /\ n < args.steps
  /\ label = "summon" => calls = Before(args.steps) + Unshards /\ n = args.steps
  /\ label \in {"gather", "save_state", "save_history", "report"} =>
       calls = Before(args.steps) + Unshards + 1 /\ n = args.steps
  /\ label \in {"barrier", "done"} =>
       calls = Before(args.steps) + Unshards + 2 /\ n = args.steps

Position == \A r \in Rank : Placed(pc[r], step[r], Here(r))

\* The strategy fixes which collective comes k-th.
ScheduledOp(k) ==
  IF k = 1 THEN "init_process_group"
  ELSE IF k = 2 THEN "broadcast"
  ELSE IF k <= Before(args.steps)
       THEN IF NoShard THEN "allreduce" ELSE IF k % 2 = 1 THEN "all_gather" ELSE "reduce_scatter"
  ELSE IF k <= Before(args.steps) + Unshards + 1 THEN "all_gather"
  ELSE "barrier"

OnSchedule == \A r \in Rank : \A k \in 1 .. Here(r) : OpAt(r, k) = ScheduledOp(k)

ControlInv ==
  /\ WorkerInv(Label, Waits)
  /\ strategy \in Strategies /\ fault \in Faults
  /\ DOMAIN local = Rank /\ DOMAIN grad = Rank
  /\ Position
  /\ OnSchedule

\* Rank 0 has broadcast its own initial weights, and chunks are cut from them.
Rank0Broadcast == Here(0) >= 2 => ValAt(0, 2) = InitW(0)

StartsFromRank0 ==
  \A r \in Rank : step[r] = 0 =>
    /\ grad[r] = NoVal
    /\ Sharded(r) => local[r] = [c \in Owned(r) |-> Chunk(InitW(0), c)]

\* A rank holds the chunks it owns.
HoldsOwned == \A r \in Rank : Sharded(r) => local[r] = [c \in Owned(r) |-> local[r][c]]

\* A rank's last gradients are what all ranks brought to the last reduction.
GradsOfLastStep ==
  \A r \in Rank : step[r] > 0 => grad[r] = [q \in Rank |-> ValAt(q, Before(step[r]))]

\* A rank that is a step behind is about to make that same step.
OneStepBehind ==
  \A q, r \in Rank : Sharded(q) /\ Sharded(r) /\ step[q] = step[r] + 1 =>
    \A c \in Owned(q) \cap Owned(r) : local[q][c] = ApplyChunk(c, local[r][c], grad[q])

StartInv == ControlInv /\ Rank0Broadcast /\ StartsFromRank0 /\ HoldsOwned

SyncInv ==
  StartInv /\ (fault = "none" => GradsOfLastStep /\ ChunksInSync /\ OneStepBehind)

\* Under NO_SHARD a rank has shown the others the fingerprint of the weights it
\* still has, and rank 0 has gone on only after finding them all equal.
Checked(r) == pc[r] \in {"save_state", "save_history", "report", "barrier", "done"}

FingerprintsShown ==
  NoShard =>
    /\ \A r \in Rank : Here(r) >= Before(args.steps) + 1 =>
         ValAt(r, Before(args.steps) + 1) = Fingerprint(local[r])
    /\ Checked(0) =>
         \A q \in Rank :
           ValAt(q, Before(args.steps) + 1) = ValAt(0, Before(args.steps) + 1)

CheckInv == ControlInv /\ FingerprintsShown

\* The chunks a rank has shown are those it has until its next update.
ChunksShown ==
  \A r \in Rank : ~NoShard /\ pc[r] \in {"forward", "backward"} =>
    ValAt(r, Before(step[r]) + 1) = local[r]

Weights == [c \in Rank |-> ChunkNow(c)]

\* What a rank on the furthest step brings to the reduction is the gradient of
\* the one model's weights at that step.
GradInv ==
  \A r \in Rank : pc[r] = "backward" /\ (\A q \in Rank : step[q] <= step[r]) =>
    \E b \in Batch : ValAt(r, Here(r)) = Grad(Weights, b)

FullInv == SyncInv /\ ChunksShown /\ (fault = "none" => GradInv)

-----------------------------------------------------------------------------
LEMMA Facts ==
  ASSUME ControlInv
  PROVE  /\ WorkerTypeOK(Label)
         /\ args.steps \in Nat /\ args.steps \in StepCounts
         /\ pc \in [Rank -> Label] /\ entered \in [Rank -> Nat] /\ step \in [Rank -> Nat]
         /\ \A r \in Rank : /\ Here(r) \in Nat /\ pc[r] \in Label
                            /\ step[r] \in Nat /\ step[r] <= args.steps
<1>1. WorkerTypeOK(Label)
  BY DEF ControlInv, WorkerInv
<1>2. /\ args.steps \in Nat /\ args.steps \in StepCounts
      /\ \A r \in Rank : /\ Here(r) \in Nat /\ pc[r] \in Label
                         /\ step[r] \in Nat /\ step[r] <= args.steps
  BY <1>1, WorkerTypes
<1> QED BY <1>1, <1>2 DEF WorkerTypeOK

\* The labels at which a rank waits depend on the strategy, which stays.
LEMMA WaitsStay ==
  ASSUME UNCHANGED strategy, NEW W, W = Waits
  PROVE  /\ WorkerInv(Label, Waits) <=> WorkerInv(Label, W)
         /\ WorkerInv(Label, Waits)' <=> WorkerInv(Label, W)'
BY DEF Waits, NoShard, WorkerInv, OthersEntered, PastCalls

LEMMA ControlInit == Init => ControlInv
<1> SUFFICES ASSUME Init PROVE ControlInv
  OBVIOUS
<1>1. PICK W : W = Waits
  OBVIOUS
<1>2. WorkerInv(Label, Waits)
  BY <1>1, WorkerStarts DEF Init, Label, WorkerInv, OthersEntered, PastCalls
<1>3. Position /\ OnSchedule
  BY DEF Init, WorkerInit, CommInit, Position, Placed, OnSchedule, Here
<1> QED BY <1>2, <1>3 DEF Init, ControlInv

\* A call that the schedule has next, by a rank that waits for nobody.
LEMMA ControlCall ==
  ASSUME ControlInv, NEW r \in Rank, NEW op, NEW val, NEW next \in Waits \cap Label,
         Call(r, op, val, next), UNCHANGED fsdpVars, proc[r] = "running", next # "done",
         pc[r] \in Waits => Complete(r),
         op = ScheduledOp(Here(r) + 1), Placed(next, step[r], Here(r) + 1)
  PROVE  ControlInv'
<1>0. WorkerTypeOK(Label)
  BY Facts
<1>1. UNCHANGED <<strategy, fault, local, grad>>
  BY DEF fsdpVars
<1>2. PICK W : W = Waits
  OBVIOUS
<1>3. WorkerInv(Label, Waits)'
  <2>1. WorkerInv(Label, W)
    BY <1>1, <1>2, WaitsStay DEF ControlInv
  <2>2. WorkerInv(Label, W)'
    BY <1>2, <2>1, CallKeeps
  <2> QED BY <1>1, <1>2, <2>2, WaitsStay
<1>4. UNCHANGED <<args, step>> /\ pc' = [pc EXCEPT ![r] = next]
  BY DEF Call, Goto
<1>5. /\ Here(r)' = Here(r) + 1
      /\ \A k : k = Here(r) + 1 => OpAt(r, k)' = op
      /\ \A q \in Rank : q # r => Here(q)' = Here(q)
      /\ \A q \in Rank : \A k \in 1 .. Here(q) : OpAt(q, k)' = OpAt(q, k)
  BY <1>0, CallOps
<1>6. Position'
  BY <1>0, <1>1, <1>4, <1>5 DEF ControlInv, Position, Placed, Before, Unshards, NoShard, WorkerTypeOK
<1>7. ASSUME NEW q \in Rank, NEW k \in 1 .. Here(q)' PROVE OpAt(q, k)' = ScheduledOp(k)'
  <2>1. ScheduledOp(k)' = ScheduledOp(k)
    BY <1>1, <1>4 DEF ScheduledOp, Before, Unshards, NoShard
  <2>2. Here(q) \in Nat
    BY Facts
  <2>3. k \in 1 .. Here(q) \/ (q = r /\ k = Here(r) + 1)
    BY <1>5, <2>2
  <2> QED BY <1>5, <2>1, <2>3 DEF ControlInv, OnSchedule
<1> QED BY <1>1, <1>3, <1>6, <1>7 DEF ControlInv, OnSchedule

\* A step without a call.
LEMMA ControlMove ==
  ASSUME ControlInv, NEW r \in Rank, NEW W, W = Waits, WorkerInv(Label, W)',
         UNCHANGED <<entered, posted, args, strategy, fault>>,
         DOMAIN local' = Rank, DOMAIN grad' = Rank,
         \A q \in Rank : q # r => pc'[q] = pc[q] /\ step'[q] = step[q],
         Placed(pc'[r], step'[r], Here(r))
  PROVE  ControlInv'
<1>1. WorkerInv(Label, Waits)'
  BY WaitsStay
<1>2. Position'
  BY DEF ControlInv, Position, Placed, Before, Unshards, NoShard, Here
<1>3. OnSchedule'
  BY DEF ControlInv, OnSchedule, ScheduledOp, Before, Unshards, NoShard, OpAt, Here
<1> QED BY <1>1, <1>2, <1>3 DEF ControlInv

LEMMA ControlUnshard ==
  ASSUME ControlInv, NEW r \in Rank, At(r, "loop"), NEW next \in {"forward", "summon"},
         Unshard(r, next), ScheduledOp(Here(r) + 1) = "all_gather" \/ NoShard,
         Placed(next, step[r], Here(r) + Unshards)
  PROVE  ControlInv'
<1>0. /\ WorkerInv(Label, Waits) /\ next \in Label /\ "loop" \notin Waits
      /\ pc[r] = "loop" /\ proc[r] = "running" /\ next # "done"
  BY DEF ControlInv, Label, Waits, At
<1>1. CASE NoShard
  <2>1. Advance(r, next) /\ UNCHANGED <<strategy, fault, local, grad>>
    BY <1>1 DEF Unshard, fsdpVars
  <2>2. PICK W : W = Waits
    OBVIOUS
  <2>3. WorkerInv(Label, W)'
    BY <1>0, <2>1, <2>2, AdvanceKeeps
  <2>4. Here(r) \in Nat /\ pc \in [Rank -> Label] /\ Unshards = 0
    BY <1>1, Facts DEF Unshards
  <2>5. pc'[r] = next /\ \A q \in Rank : q # r => pc'[q] = pc[q]
    BY <2>1, <2>4 DEF Advance, Goto
  <2>6. UNCHANGED <<entered, posted, args, step>>
    BY <2>1 DEF Advance
  <2>7. Placed(pc'[r], step'[r], Here(r))
    BY <2>4, <2>5, <2>6
  <2> QED BY <2>1, <2>2, <2>3, <2>5, <2>6, <2>7, ControlMove DEF ControlInv
<1>2. CASE ~NoShard
  <2>1. Call(r, "all_gather", local[r], next) /\ UNCHANGED fsdpVars
    BY <1>2 DEF Unshard
  <2>2. Unshards = 1 /\ next \in Waits
    BY <1>2 DEF Unshards, Waits
  <2> QED BY <1>0, <1>2, <2>1, <2>2, ControlCall
<1> QED BY <1>1, <1>2

\* In a FULL_SHARD step the gathers come at odd and the reductions at even places.
LEMMA Parity == \A n \in Nat : (3 + n + n) % 2 = 1 /\ (4 + n + n) % 2 = 0
OBVIOUS

LEMMA ControlTrain ==
  ASSUME ControlInv, NEW r \in Rank, Train(r)
  PROVE  ControlInv'
<1>0. /\ WorkerTypeOK(Label) /\ WorkerInv(Label, Waits)
      /\ args.steps \in Nat /\ step[r] \in Nat /\ Here(r) \in Nat
      /\ pc \in [Rank -> Label] /\ step \in [Rank -> Nat]
      /\ strategy \in Strategies /\ fault \in Faults /\ DOMAIN local = Rank /\ DOMAIN grad = Rank
  BY Facts DEF ControlInv
<1>p. Placed(pc[r], step[r], Here(r))
  BY DEF ControlInv, Position
<1>w. PICK W : W = Waits
  OBVIOUS
<1>v. WorkerInv(Label, W)
  BY <1>0, <1>w
<1>f. ASSUME Fail(r), UNCHANGED fsdpVars PROVE ControlInv'
  <2>1. WorkerInv(Label, W)'
    BY <1>f, <1>v, FailKeeps
  <2> QED BY <1>0, <1>f, <1>p, <1>w, <2>1, ControlMove DEF Fail, fsdpVars
<1> USE DEF At
<1>1. CASE Setup(r)
  <2>1. CASE RejectBackend(r) /\ UNCHANGED fsdpVars
    BY <1>f, <2>1 DEF RejectBackend
  <2>2. CASE SetupDistributed(r) /\ UNCHANGED fsdpVars
    <3>1. pc[r] = "start" /\ proc[r] = "running" /\ Here(r) = 0 /\ step[r] = 0
      BY <1>p, <2>2 DEF SetupDistributed, Placed
    <3>2. ScheduledOp(Here(r) + 1) = "init_process_group" /\ Placed("setup", step[r], Here(r) + 1)
      BY <3>1 DEF ScheduledOp, Placed
    <3> QED BY <2>2, <3>1, <3>2, ControlCall DEF SetupDistributed, Waits, Label
  <2> QED BY <1>1, <2>1, <2>2 DEF Setup
<1>2. CASE SyncModule(r)
  <2>1. pc[r] = "setup" /\ proc[r] = "running" /\ Here(r) = 1 /\ step[r] = 0
    BY <1>p, <1>2 DEF SyncModule, Placed
  <2>2. ScheduledOp(Here(r) + 1) = "broadcast" /\ Placed("wrap", step[r], Here(r) + 1)
    BY <2>1 DEF ScheduledOp, Placed
  <2> QED BY <1>2, <2>1, <2>2, ControlCall DEF SyncModule, Waits, Label
<1>3. CASE ShardModel(r)
  <2>1. pc[r] = "wrap" /\ proc[r] = "running" /\ Here(r) = 2 /\ step[r] = 0 /\ Complete(r)
    BY <1>p, <1>3 DEF ShardModel, Placed
  <2>2. Advance(r, "loop") /\ UNCHANGED <<entered, posted, args, step, strategy, fault, grad>>
    BY <1>3 DEF ShardModel, Advance
  <2>3. WorkerInv(Label, W)'
    BY <1>v, <1>w, <2>1, <2>2, AdvanceKeeps DEF Label
  <2>4. pc'[r] = "loop" /\ \A q \in Rank : q # r => pc'[q] = pc[q]
    BY <1>0, <2>2 DEF Advance, Goto
  <2>5. Placed(pc'[r], step'[r], Here(r))
    BY <2>1, <2>2, <2>4 DEF Placed, Before
  <2>6. DOMAIN local' = Rank
    BY <1>0, <1>3 DEF ShardModel
  <2> QED BY <1>0, <1>w, <2>2, <2>3, <2>4, <2>5, <2>6, ControlMove
<1>4. CASE Forward(r)
  <2>1. pc[r] = "loop" /\ Here(r) = Before(step[r]) /\ step[r] < args.steps
    BY <1>p, <1>4 DEF Forward, Placed
  <2>2. ScheduledOp(Here(r) + 1) = "all_gather" \/ NoShard
    <3>1. ~NoShard => (3 + step[r] + step[r]) % 2 = 1
      BY <1>0, Parity
    <3>2. ~NoShard => /\ Here(r) + 1 = 3 + step[r] + step[r]
                      /\ Here(r) + 1 <= Before(args.steps)
      BY <1>0, <2>1 DEF Before
    <3> QED BY <1>0, <3>1, <3>2 DEF ScheduledOp
  <2>3. Placed("forward", step[r], Here(r) + Unshards)
    BY <2>1 DEF Placed
  <2> QED BY <1>4, <2>2, <2>3, ControlUnshard DEF Forward
<1>5. CASE Backward(r)
  <2>1. /\ pc[r] = "forward" /\ proc[r] = "running" /\ Complete(r)
        /\ Here(r) = Before(step[r]) + Unshards /\ step[r] < args.steps
    BY <1>p, <1>5 DEF Backward, Placed
  <2>2. ScheduledOp(Here(r) + 1) = IF NoShard THEN "allreduce" ELSE "reduce_scatter"
    <3>1. (4 + step[r] + step[r]) % 2 = 0
      BY <1>0, Parity
    <3>2. ~NoShard => Here(r) + 1 = 4 + step[r] + step[r]
      BY <1>0, <2>1 DEF Before, Unshards
    <3>3. Here(r) + 1 <= Before(args.steps) /\ Here(r) + 1 >= 3
      BY <1>0, <2>1 DEF Before, Unshards
    <3> QED BY <1>0, <3>1, <3>2, <3>3 DEF ScheduledOp
  <2>3. Placed("backward", step[r], Here(r) + 1)
    BY <1>0, <2>1 DEF Placed, Before, Unshards
  <2>4. PICK b \in Batch : Call(r, IF NoShard THEN "allreduce" ELSE "reduce_scatter",
                                Grad(FullWeights(r), b), "backward")
    BY <1>5 DEF Backward
  <2>5. UNCHANGED fsdpVars /\ "backward" \in Waits \cap Label
    BY <1>5 DEF Backward, Waits, Label
  <2> QED BY <2>1, <2>2, <2>3, <2>4, <2>5, ControlCall
<1>6. CASE OptimizerStep(r)
  <2>1. /\ pc[r] = "backward" /\ proc[r] = "running" /\ Complete(r)
        /\ Here(r) = Before(step[r] + 1) /\ step[r] < args.steps
    BY <1>p, <1>6 DEF OptimizerStep, Placed
  <2>2. EndStep(r, "loop") /\ UNCHANGED <<entered, posted, args, strategy, fault>>
    BY <1>6 DEF OptimizerStep, EndStep
  <2>3. WorkerInv(Label, W)'
    BY <1>v, <2>1, <2>2, EndStepKeeps DEF Label
  <2>4. /\ pc'[r] = "loop" /\ step'[r] = step[r] + 1
        /\ \A q \in Rank : q # r => pc'[q] = pc[q] /\ step'[q] = step[q]
    BY <1>0, <2>2 DEF EndStep, Goto
  <2>5. Placed(pc'[r], step'[r], Here(r))
    BY <2>1, <2>4 DEF Placed
  <2>6. DOMAIN local' = Rank /\ DOMAIN grad' = Rank
    BY <1>0, <1>6 DEF OptimizerStep
  <2> QED BY <1>w, <2>2, <2>3, <2>4, <2>5, <2>6, ControlMove
<1>7. CASE SummonFullParams(r)
  <2>1. pc[r] = "loop" /\ Here(r) = Before(args.steps) /\ step[r] = args.steps
    BY <1>p, <1>7 DEF SummonFullParams, Placed
  <2>2. ScheduledOp(Here(r) + 1) = "all_gather" \/ NoShard
    BY <1>0, <2>1 DEF ScheduledOp, Before, Unshards
  <2>3. Placed("summon", step[r], Here(r) + Unshards)
    BY <2>1 DEF Placed
  <2> QED BY <1>7, <2>2, <2>3, ControlUnshard DEF SummonFullParams
<1>8. CASE GatherFingerprints(r)
  <2>1. /\ pc[r] = "summon" /\ proc[r] = "running"
        /\ Here(r) = Before(args.steps) + Unshards /\ step[r] = args.steps
    BY <1>p, <1>8 DEF GatherFingerprints, Placed
  <2>2. ScheduledOp(Here(r) + 1) = "all_gather" /\ Placed("gather", step[r], Here(r) + 1)
    BY <1>0, <2>1 DEF ScheduledOp, Placed, Before, Unshards
  <2> QED BY <1>8, <2>1, <2>2, ControlCall DEF GatherFingerprints, Waits, Label
<1>9. CASE CheckWeights(r)
  <2>1. CASE Fail(r)
    BY <1>f, <1>9, <2>1 DEF CheckWeights
  <2>2. CASE Advance(r, AfterCheck(r))
    <3>1. pc[r] = "gather" /\ proc[r] = "running" /\ Complete(r)
      BY <1>9 DEF CheckWeights
    <3>2. AfterCheck(r) \in {"save_state", "report"}
      BY DEF AfterCheck
    <3>3. WorkerInv(Label, W)'
      BY <1>v, <2>2, <3>1, <3>2, AdvanceKeeps DEF Label
    <3>4. /\ pc'[r] = AfterCheck(r) /\ \A q \in Rank : q # r => pc'[q] = pc[q]
          /\ UNCHANGED <<entered, posted, args, step, strategy, fault, local, grad>>
      BY <1>0, <1>9, <2>2 DEF CheckWeights, Advance, Goto, fsdpVars
    <3>5. Placed(pc'[r], step'[r], Here(r))
      BY <1>p, <3>1, <3>2, <3>4 DEF Placed
    <3> QED BY <1>0, <1>w, <3>3, <3>4, <3>5, ControlMove
  <2> QED BY <1>9, <2>1, <2>2 DEF CheckWeights
<1>10. CASE SaveFullState(r) \/ SaveHistory(r)
  <2>1. PICK f \in Artifact, next \in {"save_history", "report"} :
          WriteArtifact(r, f, next) /\ UNCHANGED fsdpVars /\ proc[r] = "running"
            /\ pc[r] \in {"save_state", "save_history"}
    BY <1>10 DEF SaveFullState, SaveHistory, Artifact
  <2>2. pc[r] \notin W /\ next \in Label \ {"done"}
    BY <1>w, <2>1 DEF Waits, Label
  <2>3. WorkerInv(Label, W)'
    BY <1>v, <2>1, <2>2, WriteKeeps
  <2>4. /\ pc'[r] \in {pc[r], next} /\ \A q \in Rank : q # r => pc'[q] = pc[q]
        /\ UNCHANGED <<entered, posted, args, step, strategy, fault, local, grad>>
    BY <1>0, <2>1 DEF WriteArtifact, Goto, fsdpVars
  <2>5. Placed(pc'[r], step'[r], Here(r))
    BY <1>p, <2>1, <2>4 DEF Placed
  <2> QED BY <1>0, <1>w, <2>3, <2>4, <2>5, ControlMove
<1>11. CASE Report(r)
  <2>1. CASE Fail(r)
    BY <1>f, <1>11, <2>1 DEF Report
  <2>2. CASE Call(r, "barrier", NoVal, "barrier")
    <3>1. /\ pc[r] = "report" /\ proc[r] = "running" /\ UNCHANGED fsdpVars
          /\ Here(r) = Before(args.steps) + Unshards + 1 /\ step[r] = args.steps
      BY <1>p, <1>11 DEF Report, Placed
    <3>2. ScheduledOp(Here(r) + 1) = "barrier" /\ Placed("barrier", step[r], Here(r) + 1)
      BY <1>0, <3>1 DEF ScheduledOp, Placed, Before, Unshards
    <3>3. "report" \notin Waits /\ "barrier" \in Waits \cap Label
      BY DEF Waits, Label
    <3> QED BY <2>2, <3>1, <3>2, <3>3, ControlCall
  <2> QED BY <1>11, <2>1, <2>2 DEF Report
<1>12. CASE Finish(r)
  <2>1. pc[r] = "barrier" /\ Complete(r) /\ Return(r) /\ UNCHANGED fsdpVars
    BY <1>12 DEF Finish
  <2>2. WorkerInv(Label, W)'
    BY <1>v, <2>1, ReturnKeeps DEF Label
  <2>3. /\ pc'[r] = "done" /\ \A q \in Rank : q # r => pc'[q] = pc[q]
        /\ UNCHANGED <<entered, posted, args, step, strategy, fault, local, grad>>
    BY <1>0, <2>1 DEF Return, Goto, fsdpVars
  <2>4. Placed(pc'[r], step'[r], Here(r))
    BY <1>p, <2>1, <2>3 DEF Placed
  <2> QED BY <1>0, <1>w, <2>2, <2>3, <2>4, ControlMove
<1> QED BY <1>1, <1>2, <1>3, <1>4, <1>5, <1>6, <1>7, <1>8, <1>9, <1>10, <1>11, <1>12 DEF Train

LEMMA ControlRuntime ==
  ASSUME ControlInv, NEW r \in Rank, Runtime(r)
  PROVE  ControlInv'
<1>1. PICK W : W = Waits
  OBVIOUS
<1>2. WorkerInv(Label, W)' /\ UNCHANGED <<entered, posted, args, pc, step, files>>
  BY <1>1, RuntimeKeeps DEF Runtime, ControlInv
<1> QED BY <1>1, <1>2, ControlMove DEF Runtime, ControlInv, Position, fsdpVars

LEMMA ControlStuttering == ControlInv /\ UNCHANGED vars => ControlInv'
<1> SUFFICES ASSUME ControlInv, UNCHANGED vars PROVE ControlInv'
  OBVIOUS
<1>1. PICK W : W = Waits
  OBVIOUS
<1>2. WorkerInv(Label, W)'
  BY <1>1, StutterKeeps DEF ControlInv, vars, workerVars
<1> QED BY <1>1, <1>2, RankZero, ControlMove DEF ControlInv, Position, vars, fsdpVars

\* Type correctness, the schedule of collectives and what the blocking calls
\* guarantee hold in every state of every run.
THEOREM ControlCorrect == Spec => []ControlInv
<1>1. ControlInv /\ [Next]_vars => ControlInv'
  BY ControlTrain, ControlRuntime, ControlStuttering DEF Next, Over
<1> QED BY <1>1, ControlInit, PTL DEF Spec

\* The type invariant of the runs.
THEOREM TypeCorrect == Spec => []TypeOK
<1>1. ControlInv => TypeOK
  BY DEF ControlInv, WorkerInv, TypeOK
<1> QED BY <1>1, ControlCorrect, PTL

\* Every rank calls the same collectives in the same order.
THEOREM CollectivesPairUp == Spec => []SameCollectives
<1>1. ControlInv => SameCollectives
  BY Facts DEF ControlInv, OnSchedule, SameCollectives
<1> QED BY <1>1, ControlCorrect, PTL

\* A rank that has made n steps has been through the collectives of these steps,
\* and so has everyone else.
LEMMA StepsMet ==
  ASSUME ControlInv, NEW q \in Rank, NEW r \in Rank, step[q] > 0
  PROVE  Here(r) >= Before(step[q])
<1>0. /\ args.steps \in Nat /\ step[q] \in Nat /\ step[q] <= args.steps /\ Here(q) \in Nat
      /\ pc[q] \in Label
  BY Facts
<1>1. Placed(pc[q], step[q], Here(q))
  BY DEF ControlInv, Position
<1> DEFINE k == Before(step[q])
<1>2. k \in Nat /\ k >= 3 /\ k <= Before(args.steps) /\ Before(step[q] + 1) > k
  BY <1>0 DEF Before
<1>3. /\ pc[q] \in Waits => k <= Here(q) - 1
      /\ pc[q] \notin Waits => k <= Here(q)
  BY <1>0, <1>1, <1>2 DEF Placed, Waits, Unshards, Label
<1>4. k \in PastCalls(q, Waits) /\ k \in 1 .. Here(q)
  BY <1>0, <1>2, <1>3 DEF PastCalls
<1>5. OpAt(q, k) # "broadcast"
  BY <1>2, <1>4 DEF ControlInv, OnSchedule, ScheduledOp
<1> QED BY <1>4, <1>5 DEF ControlInv, WorkerInv, OthersEntered

\* So many collectives a rank cannot have entered before it has made its steps.
LEMMA CallsBound ==
  ASSUME ControlInv, NEW r \in Rank
  PROVE  /\ Here(r) >= Before(args.steps) + 1 + Unshards => step[r] = args.steps
         /\ step[r] < args.steps => Here(r) <= Before(step[r] + 1)
         /\ ~Sharded(r) => Here(r) <= 2 /\ step[r] = 0
         /\ Here(r) >= Before(args.steps) + Unshards + 2 => pc[r] \in {"barrier", "done"}
<1>0. /\ args.steps \in Nat /\ step[r] \in Nat /\ step[r] <= args.steps /\ Here(r) \in Nat
      /\ pc[r] \in Label
  BY Facts
<1>1. Placed(pc[r], step[r], Here(r))
  BY DEF ControlInv, Position
<1>2. pc[r] \in {"start", "setup", "wrap"} \/ pc[r] \notin {"start", "setup", "wrap"}
  OBVIOUS
<1> QED BY <1>0, <1>1 DEF Placed, Before, Unshards, Label, Sharded

\* No rank is more than one optimizer step ahead of another.
LEMMA WithinOneStep == ControlInv => Lockstep
<1> SUFFICES ASSUME ControlInv, NEW q \in Rank, NEW r \in Rank PROVE step[q] <= step[r] + 1
  BY DEF Lockstep
<1>0. /\ args.steps \in Nat /\ step[q] \in Nat /\ step[q] <= args.steps
      /\ step[r] \in Nat /\ Here(r) \in Nat
  BY Facts
<1>1. CASE step[q] = 0 \/ step[r] = args.steps
  BY <1>0, <1>1
<1>2. CASE step[q] > 0 /\ step[r] < args.steps
  <2>1. Before(step[q]) <= Before(step[r] + 1)
    <3>1. Here(r) >= Before(step[q]) /\ Here(r) <= Before(step[r] + 1)
      BY <1>2, StepsMet, CallsBound
    <3> QED BY <1>0, <3>1 DEF Before
  <2> QED BY <1>0, <2>1 DEF Before
<1> QED BY <1>0, <1>1, <1>2

THEOREM RanksInLockstep == Spec => []Lockstep
BY WithinOneStep, ControlCorrect, PTL

-----------------------------------------------------------------------------
\* Which of a rank's artifacts are whole follows from where it is.
LEMMA SavedStep ==
  ASSUME ControlInv, SavedInv, NEW r \in Rank, Train(r) \/ Runtime(r)
  PROVE  SavedInv'
<1>0. WorkerTypeOK(Label) /\ pc \in [Rank -> Label]
  BY Facts
<1>1. CASE SaveFullState(r) \/ SaveHistory(r)
  BY <1>0, <1>1, SavedWrite DEF SaveFullState, SaveHistory
<1>2. CASE ~(SaveFullState(r) \/ SaveHistory(r))
  <2>1. /\ files' = files /\ args' = args
        /\ \A q \in Rank : q # r => pc'[q] = pc[q]
    BY <1>0, <1>2
    DEF Train, Runtime, Environment, Launcher, Crash, PeerLost, KillWorker, Setup, RejectBackend,
        SetupDistributed, SyncModule, ShardModel, Forward, Backward, OptimizerStep, Unshard,
        SummonFullParams, GatherFingerprints, CheckWeights, Report, Finish, Return, Call, Advance,
        EndStep, Fail, Goto
  <2>2. SavesNothing(pc[r], pc'[r])
    BY <1>0, <1>2
    DEF Train, Runtime, Environment, Launcher, Crash, PeerLost, KillWorker, Setup, RejectBackend,
        SetupDistributed, SyncModule, ShardModel, Forward, Backward, OptimizerStep, Unshard,
        SummonFullParams, GatherFingerprints, CheckWeights, AfterCheck, Report, Finish, Return,
        Call, Advance, EndStep, Fail, At, Goto, SavesNothing, Saving
  <2> QED BY <2>1, <2>2, SavedMove
<1> QED BY <1>1, <1>2

THEOREM SavedCorrect == Spec => [](ControlInv /\ SavedInv)
<1>1. Init => SavedInv
  BY SavedStarts DEF Init
<1>2. ControlInv /\ SavedInv /\ [Next]_vars => SavedInv'
  <2>1. SavedInv /\ UNCHANGED vars => SavedInv'
    BY DEF vars, SavedInv
  <2> QED BY <2>1, SavedStep DEF Next, Over
<1>3. Spec => []SavedInv
  BY <1>1, <1>2, ControlCorrect, PTL DEF Spec
<1> QED BY <1>3, ControlCorrect, PTL

\* When a rank may return, all ranks have come to the closing barrier.
LEMMA FinishesTogether ==
  ASSUME ControlInv, NEW r \in Rank, At(r, "barrier"), Complete(r)
  PROVE  \A q \in Rank : pc[q] \in {"barrier", "done"}
<1>0. args.steps \in Nat /\ Here(r) \in Nat
  BY Facts
<1>1. Here(r) = Before(args.steps) + Unshards + 2
  BY DEF At, ControlInv, Position, Placed
<1>2. OpAt(r, Here(r)) # "broadcast"
  BY <1>0, <1>1 DEF ControlInv, OnSchedule, ScheduledOp, Before, Unshards
<1> QED BY <1>1, <1>2, MeetingOfAll, CallsBound

\* Seen by the notebook, the run is a job of Launch: whatever its ranks and the
\* environment do, return code 0 means whole files of this run from every rank.
THEOREM KeepsLaunchContract == Spec => LaunchContract
<1>1. ASSUME ControlInv, SavedInv, [Next]_vars
      PROVE  [Contract!LaunchNext]_(Contract!launchVars)
  <2>1. CASE UNCHANGED vars
    BY <2>1 DEF vars, Contract!launchVars
  <2>2. ASSUME NEW r \in Rank, Train(r) \/ Runtime(r)
        PROVE  Contract!LaunchNext \/ UNCHANGED Contract!launchVars
    <3>1. CASE Runtime(r)
      <4>1. proc[r] = "running"
        BY <3>1 DEF Runtime, Environment, Launcher, Crash, PeerLost, KillWorker
      <4> QED BY <3>1, <4>1, ContractDies DEF Runtime
    <3>2. CASE SaveFullState(r) \/ SaveHistory(r)
      BY <1>1, <3>2, ContractWrites DEF SaveFullState, SaveHistory
    <3>3. CASE Finish(r)
      BY <1>1, <3>3, FinishesTogether, ContractEnds DEF Finish
    <3>4. CASE Fail(r) /\ proc[r] = "running"
      BY <3>4, ContractDies
    <3>5. CASE \/ Setup(r) \/ SyncModule(r) \/ ShardModel(r) \/ Forward(r) \/ Backward(r)
               \/ OptimizerStep(r) \/ SummonFullParams(r) \/ GatherFingerprints(r)
               \/ CheckWeights(r) \/ Report(r)
      <4>1. UNCHANGED <<args, files>>
        BY <3>5
        DEF Setup, RejectBackend, SetupDistributed, SyncModule, ShardModel, Forward, Backward,
            OptimizerStep, Unshard, SummonFullParams, GatherFingerprints, CheckWeights, Report,
            Call, Advance, EndStep, Fail
      <4>2. UNCHANGED proc \/ (Fail(r) /\ proc[r] = "running")
        BY <3>5
        DEF Setup, RejectBackend, SetupDistributed, SyncModule, ShardModel, Forward, Backward,
            OptimizerStep, Unshard, SummonFullParams, GatherFingerprints, CheckWeights, Report,
            Call, Advance, EndStep, At
      <4> QED BY <4>1, <4>2, <3>4 DEF Contract!launchVars
    <3> QED BY <2>2, <3>1, <3>2, <3>3, <3>5 DEF Train
  <2> QED BY <1>1, <2>1, <2>2 DEF Next, Over
<1>2. Init => Contract!LaunchInit
  BY ContractStarts DEF Init
<1> QED BY <1>1, <1>2, SavedCorrect, PTL DEF Spec, LaunchContract, Contract!LaunchSpec

-----------------------------------------------------------------------------
\* A rank's step leaves the other ranks, and what has been posted, alone.
LEMMA Frame ==
  ASSUME ControlInv, NEW r \in Rank, Train(r) \/ Runtime(r)
  PROVE  /\ UNCHANGED <<args, strategy, fault>>
         /\ \A q \in Rank : q # r => /\ pc'[q] = pc[q] /\ step'[q] = step[q]
                                     /\ local'[q] = local[q] /\ grad'[q] = grad[q]
                                     /\ Here(q)' = Here(q)
         /\ Here(r)' \in {Here(r), Here(r) + 1}
         /\ \A q \in Rank : \A k \in 1 .. Here(q) : ValAt(q, k)' = ValAt(q, k)
<1>0. /\ WorkerTypeOK(Label) /\ pc \in [Rank -> Label] /\ step \in [Rank -> Nat]
      /\ DOMAIN local = Rank /\ DOMAIN grad = Rank
  BY Facts DEF ControlInv
<1>1. ASSUME NEW op, NEW val, NEW next, Call(r, op, val, next), UNCHANGED fsdpVars
      PROVE  /\ UNCHANGED <<args, step, local, grad, strategy, fault>>
             /\ \A q \in Rank : q # r => pc'[q] = pc[q]
             /\ Here(r)' = Here(r) + 1
             /\ \A q \in Rank : q # r => Here(q)' = Here(q)
             /\ \A q \in Rank : \A k \in 1 .. Here(q) : ValAt(q, k)' = ValAt(q, k)
  <2>1. UNCHANGED <<args, step, local, grad, strategy, fault>>
    BY <1>1 DEF Call, fsdpVars
  <2>2. \A q \in Rank : q # r => pc'[q] = pc[q]
    BY <1>0, <1>1 DEF Call, Goto
  <2> QED BY <1>0, <1>1, <2>1, <2>2, CallOps
<1>2. ASSUME UNCHANGED <<entered, posted>>
      PROVE  \A q \in Rank : /\ Here(q)' = Here(q)
                             /\ \A k \in 1 .. Here(q) : ValAt(q, k)' = ValAt(q, k)
  BY <1>2 DEF Here, ValAt
<1>3. CASE Runtime(r)
  BY <1>2, <1>3 DEF Runtime, Environment, Launcher, Crash, PeerLost, KillWorker, fsdpVars
<1>4. CASE Setup(r) \/ Report(r)
  <2>1. CASE Fail(r) /\ UNCHANGED fsdpVars
    BY <1>2, <2>1 DEF Fail, fsdpVars
  <2>2. CASE \E op, val, next : Call(r, op, val, next) /\ UNCHANGED fsdpVars
    BY <1>1, <2>2
  <2> QED BY <1>4, <2>1, <2>2 DEF Setup, RejectBackend, SetupDistributed, Report
<1>5. CASE SyncModule(r) \/ Backward(r) \/ GatherFingerprints(r)
  <2>1. \E op, val, next : Call(r, op, val, next) /\ UNCHANGED fsdpVars
    BY <1>5 DEF SyncModule, Backward, GatherFingerprints
  <2> QED BY <1>1, <2>1
<1>6. CASE Forward(r) \/ SummonFullParams(r)
  <2>1. CASE \E op, val, next : Call(r, op, val, next) /\ UNCHANGED fsdpVars
    BY <1>1, <2>1
  <2>2. CASE \E next : Advance(r, next) /\ UNCHANGED fsdpVars
    BY <1>0, <1>2, <2>2 DEF Advance, Goto, fsdpVars
  <2> QED BY <1>6, <2>1, <2>2 DEF Forward, SummonFullParams, Unshard
<1>7. CASE ShardModel(r) \/ OptimizerStep(r)
  BY <1>0, <1>2, <1>7 DEF ShardModel, OptimizerStep, Advance, EndStep, Goto
<1>8. CASE CheckWeights(r) \/ SaveFullState(r) \/ SaveHistory(r) \/ Finish(r)
  BY <1>0, <1>2, <1>8 DEF CheckWeights, SaveFullState, SaveHistory, Finish, Fail, Advance,
                         WriteArtifact, Return, Goto, fsdpVars
<1> QED BY <1>3, <1>4, <1>5, <1>6, <1>7, <1>8 DEF Train

\* Most steps touch neither chunks nor gradients nor step counts.
Quiet(r) ==
  \/ Setup(r) \/ SyncModule(r) \/ Forward(r) \/ Backward(r) \/ SummonFullParams(r)
  \/ GatherFingerprints(r) \/ CheckWeights(r) \/ SaveFullState(r) \/ SaveHistory(r)
  \/ Report(r) \/ Finish(r) \/ Runtime(r)

LEMMA QuietStep ==
  ASSUME ControlInv, NEW r \in Rank, Quiet(r)
  PROVE  /\ UNCHANGED <<step, local, grad, strategy, fault>>
         /\ \A q \in Rank : Sharded(q)' <=> Sharded(q)
         /\ pc'[r] = "backward" => (pc[r] = "backward" /\ Here(r)' = Here(r)) \/ Backward(r)
         /\ pc'[r] = "forward" => pc[r] = "forward" \/ Forward(r)
<1>0. pc \in [Rank -> Label]
  BY Facts
<1>1. UNCHANGED <<step, local, grad, strategy, fault>>
  BY DEF Quiet, Runtime, Environment, Launcher, Crash, PeerLost, KillWorker, Setup, RejectBackend,
      SetupDistributed, SyncModule, Forward, Backward, Unshard, SummonFullParams,
      GatherFingerprints, CheckWeights, SaveFullState, SaveHistory, WriteArtifact, Report, Finish,
      Return, Call, Advance, Fail, fsdpVars
<1>2. Sharded(r)' <=> Sharded(r)
  BY <1>0
  DEF Quiet, Runtime, Environment, Launcher, Crash, PeerLost, KillWorker, Setup, RejectBackend,
      SetupDistributed, SyncModule, Forward, Backward, Unshard, SummonFullParams,
      GatherFingerprints, CheckWeights, AfterCheck, SaveFullState, SaveHistory, WriteArtifact,
      Report, Finish, Return, Call, Advance, Fail, Goto, At, Sharded
<1>3. \A q \in Rank : q # r => (Sharded(q)' <=> Sharded(q))
  BY Frame DEF Sharded, Quiet, Train
<1>4. ~Backward(r) /\ pc'[r] = "backward" => pc[r] = "backward" /\ Here(r)' = Here(r)
  BY <1>0
  DEF Quiet, Runtime, Environment, Launcher, Crash, PeerLost, KillWorker, Setup, RejectBackend,
      SetupDistributed, SyncModule, Forward, Unshard, SummonFullParams, GatherFingerprints,
      CheckWeights, AfterCheck, SaveFullState, SaveHistory, WriteArtifact, Report, Finish, Return,
      Call, Advance, Fail, Goto, At, Here
<1>5. ~Forward(r) /\ pc'[r] = "forward" => pc[r] = "forward"
  BY <1>0
  DEF Quiet, Runtime, Environment, Launcher, Crash, PeerLost, KillWorker, Setup, RejectBackend,
      SetupDistributed, SyncModule, Backward, Unshard, SummonFullParams, GatherFingerprints,
      CheckWeights, AfterCheck, SaveFullState, SaveHistory, WriteArtifact, Report, Finish, Return,
      Call, Advance, Fail, Goto, At, Here
<1> QED BY <1>1, <1>2, <1>3, <1>4, <1>5

-----------------------------------------------------------------------------
\* Only SyncModule enters the broadcast.
LEMMA BroadcastStep ==
  ASSUME ControlInv, Rank0Broadcast, NEW r \in Rank, Train(r) \/ Runtime(r)
  PROVE  Rank0Broadcast'
<1>0. WorkerTypeOK(Label) /\ Here(0) \in Nat /\ step[0] \in Nat /\ pc[0] \in Label
  BY Facts, RankZero
<1>1. CASE Here(0) >= 2
  <2>1. Here(0)' >= 2 /\ ValAt(0, 2)' = ValAt(0, 2)
    BY <1>0, <1>1, Frame, RankZero
  <2> QED BY <1>1, <2>1 DEF Rank0Broadcast
<1>2. CASE ~(Here(0) >= 2) /\ Here(0)' >= 2
  <2>1. r = 0 /\ Here(0) = 1
    BY <1>0, <1>2, Frame, RankZero
  <2>2. pc[0] = "setup"
    <3>1. Placed(pc[0], step[0], Here(0)) /\ args.steps \in Nat
      BY RankZero, Facts DEF ControlInv, Position
    <3> QED BY <1>0, <2>1, <3>1 DEF Placed, Before, Unshards, Label
  <2>3. SyncModule(0)
    BY <1>2, <2>1, <2>2
    DEF Train, Setup, RejectBackend, SetupDistributed, ShardModel, Forward, Backward, OptimizerStep,
        SummonFullParams, GatherFingerprints, CheckWeights, SaveFullState, SaveHistory, Report,
        Finish, At, Runtime, Environment, Launcher, Crash, PeerLost, KillWorker, Here
  <2>4. Call(0, "broadcast", InitW(0), "wrap")
    BY <2>3 DEF SyncModule
  <2>5. ValAt(0, 2)' = InitW(0)
    BY <1>0, <2>1, <2>4, CallOps, RankZero
  <2> QED BY <2>5 DEF Rank0Broadcast
<1> QED BY <1>1, <1>2 DEF Rank0Broadcast

\* The chunks a rank starts with are cut from rank 0's weights.
LEMMA ShardsFromRank0 ==
  ASSUME ControlInv, Rank0Broadcast, NEW r \in Rank, ShardModel(r)
  PROVE  /\ local'[r] = [c \in Owned(r) |-> Chunk(InitW(0), c)]
         /\ step' = step /\ grad' = grad /\ step[r] = 0 /\ Here(r) = 2
         /\ \A q \in Rank : q # r => local'[q] = local[q] /\ (Sharded(q)' <=> Sharded(q))
         /\ ~Sharded(r) /\ Sharded(r)'
<1>0. pc \in [Rank -> Label] /\ DOMAIN local = Rank
  BY Facts DEF ControlInv
<1>1. pc[r] = "wrap" /\ Here(r) = 2 /\ step[r] = 0 /\ Complete(r)
  BY DEF ShardModel, At, ControlInv, Position, Placed
<1>2. FromRank0(r) = InitW(0)
  <2>1. OpAt(r, 2) = "broadcast"
    BY <1>1 DEF ControlInv, OnSchedule, ScheduledOp
  <2>2. Here(0) >= 2
    BY <1>1, <2>1 DEF Complete, Met
  <2> QED BY <1>1, <2>2 DEF FromRank0, Rank0Broadcast
<1>3. /\ local' = [local EXCEPT ![r] = [c \in Owned(r) |-> Chunk(FromRank0(r), c)]]
      /\ pc' = [pc EXCEPT ![r] = "loop"] /\ step' = step /\ grad' = grad
  BY DEF ShardModel, SyncedWeights, Advance, Goto
<1> QED BY <1>0, <1>1, <1>2, <1>3 DEF Sharded

LEMMA UpdateStep ==
  ASSUME ControlInv, NEW r \in Rank, OptimizerStep(r)
  PROVE  /\ local'[r] = UpdateChunks(r, Reduced(r)) /\ grad'[r] = Reduced(r)
         /\ step'[r] = step[r] + 1 /\ step[r] < args.steps
         /\ pc[r] = "backward" /\ Here(r) = Before(step[r] + 1)
         /\ \A q \in Rank : Here(q) >= Here(r)
         /\ \A q \in Rank : q # r => /\ local'[q] = local[q] /\ grad'[q] = grad[q]
                                     /\ step'[q] = step[q]
         /\ \A q \in Rank : Sharded(q)' <=> Sharded(q)
         /\ UNCHANGED <<entered, posted, strategy, fault, args>>
<1>0. /\ pc \in [Rank -> Label] /\ step \in [Rank -> Nat] /\ args.steps \in Nat
      /\ DOMAIN local = Rank /\ DOMAIN grad = Rank
  BY Facts DEF ControlInv
<1>1. /\ pc[r] = "backward" /\ Complete(r)
      /\ Here(r) = Before(step[r] + 1) /\ step[r] < args.steps
  BY DEF OptimizerStep, At, ControlInv, Position, Placed
<1>2. OpAt(r, Here(r)) # "broadcast"
  <2>1. Here(r) \in 1 .. Here(r) /\ Here(r) > 2
    BY <1>0, <1>1 DEF Before
  <2> QED BY <2>1 DEF ControlInv, OnSchedule, ScheduledOp
<1>3. \A q \in Rank : Here(q) >= Here(r)
  BY <1>1, <1>2, MeetingOfAll
<1>4. /\ local' = [local EXCEPT ![r] = UpdateChunks(r, Reduced(r))]
      /\ grad' = [grad EXCEPT ![r] = Reduced(r)]
      /\ step' = [step EXCEPT ![r] = @ + 1] /\ pc' = [pc EXCEPT ![r] = "loop"]
      /\ UNCHANGED <<entered, posted, strategy, fault, args>>
  BY DEF OptimizerStep, EndStep, Goto
<1> QED BY <1>0, <1>1, <1>3, <1>4 DEF Sharded

LEMMA StartStep ==
  ASSUME StartInv, NEW r \in Rank, Train(r) \/ Runtime(r)
  PROVE  StartInv'
<1> USE DEF StartInv
<1>1. ControlInv' /\ Rank0Broadcast'
  BY ControlTrain, ControlRuntime, BroadcastStep
<1>2. \A q \in Rank : Owned(q)' = Owned(q)
  BY Frame DEF Owned, NoShard
<1>3. CASE Quiet(r)
  BY <1>1, <1>2, <1>3, QuietStep DEF StartsFromRank0, HoldsOwned
<1>4. CASE ShardModel(r)
  BY <1>1, <1>2, <1>4, ShardsFromRank0 DEF StartsFromRank0, HoldsOwned
<1>5. CASE OptimizerStep(r)
  <2>1. step \in [Rank -> Nat]
    BY Facts
  <2>2. local'[r] = [c \in Owned(r) |-> local'[r][c]]
    BY <1>5, UpdateStep DEF UpdateChunks
  <2> QED BY <1>1, <1>2, <1>5, <2>1, <2>2, UpdateStep DEF StartsFromRank0, HoldsOwned
<1> QED BY <1>3, <1>4, <1>5 DEF Train, Quiet

LEMMA StartStuttering == StartInv /\ UNCHANGED vars => StartInv'
BY ControlStuttering
DEF vars, fsdpVars, StartInv, Rank0Broadcast, StartsFromRank0, HoldsOwned, Sharded, Owned, NoShard,
    Here, ValAt

LEMMA StartInit == Init => StartInv
<1>1. Init => \A r \in Rank : ~Sharded(r) /\ Here(r) = 0 /\ grad[r] = NoVal
  BY DEF Init, WorkerInit, CommInit, Sharded, Here
<1> QED BY <1>1, ControlInit, RankZero
        DEF StartInv, Rank0Broadcast, StartsFromRank0, HoldsOwned

\* Whatever becomes of the gradients, every run starts from rank 0's weights.
THEOREM StartCorrect == Spec => []StartInv
<1>1. StartInv /\ [Next]_vars => StartInv'
  BY StartStep, StartStuttering DEF Next, Over
<1> QED BY <1>1, StartInit, PTL DEF Spec

-----------------------------------------------------------------------------
\* A reduction that is over has been with the same gradients for everyone.
LEMMA GradsStay ==
  ASSUME ControlInv, NEW r \in Rank, Train(r) \/ Runtime(r), NEW q \in Rank, step[q] > 0
  PROVE  \A p \in Rank : \A k : k = Before(step[q]) => ValAt(p, k)' = ValAt(p, k)
<1>1. ASSUME NEW p \in Rank PROVE Before(step[q]) \in 1 .. Here(p)
  <2>1. Here(p) >= Before(step[q])
    BY StepsMet
  <2>2. step[q] \in Nat /\ Here(p) \in Nat
    BY Facts
  <2> QED BY <2>1, <2>2 DEF Before
<1> QED BY <1>1, Frame

LEMMA SyncQuiet ==
  ASSUME SyncInv, fault = "none", NEW r \in Rank, Quiet(r)
  PROVE  GradsOfLastStep' /\ ChunksInSync' /\ OneStepBehind'
<1> USE DEF SyncInv, StartInv
<1>1. /\ UNCHANGED <<step, local, grad, strategy, fault>>
      /\ \A q \in Rank : Sharded(q)' <=> Sharded(q)
  BY QuietStep
<1>2. \A q \in Rank : Owned(q)' = Owned(q)
  BY <1>1 DEF Owned, NoShard
<1>3. ASSUME NEW q \in Rank, step'[q] > 0
      PROVE  grad'[q] = [p \in Rank |-> ValAt(p, Before(step[q]))]'
  <2>1. PICK k : k = Before(step[q])
    OBVIOUS
  <2>2. \A p \in Rank : ValAt(p, k)' = ValAt(p, k)
    BY <1>1, <1>3, <2>1, GradsStay DEF Quiet, Train
  <2>3. grad[q] = [p \in Rank |-> ValAt(p, k)]
    BY <1>1, <1>3, <2>1 DEF GradsOfLastStep
  <2>4. Before(step[q])' = k
    BY <1>1, <2>1 DEF Before, NoShard
  <2> QED BY <1>1, <2>2, <2>3, <2>4 DEF ValAt
<1>4. GradsOfLastStep'
  BY <1>3 DEF GradsOfLastStep
<1> QED BY <1>1, <1>2, <1>4 DEF ChunksInSync, OneStepBehind

LEMMA SyncShardModel ==
  ASSUME SyncInv, fault = "none", NEW r \in Rank, ShardModel(r)
  PROVE  GradsOfLastStep' /\ ChunksInSync' /\ OneStepBehind'
<1> USE DEF SyncInv, StartInv
<1>0. step \in [Rank -> Nat]
  BY Facts
<1>1. /\ local'[r] = [c \in Owned(r) |-> Chunk(InitW(0), c)]
      /\ step' = step /\ grad' = grad /\ step[r] = 0 /\ Here(r) = 2
      /\ \A q \in Rank : q # r => local'[q] = local[q] /\ (Sharded(q)' <=> Sharded(q))
  BY ShardsFromRank0
<1>2. strategy' = strategy /\ fault' = fault /\ UNCHANGED <<entered, posted>>
  BY DEF ShardModel, Advance
<1>3. \A q \in Rank : Owned(q)' = Owned(q)
  BY <1>2 DEF Owned, NoShard
<1>4. GradsOfLastStep'
  BY <1>1, <1>2 DEF GradsOfLastStep, Before, NoShard, ValAt
<1>5. \A q \in Rank : step[q] = 0
  <2>1. ASSUME NEW q \in Rank, step[q] > 0 PROVE FALSE
    BY <1>0, <1>1, <2>1, StepsMet DEF Before
  <2> QED BY <1>0, <2>1
<1>6. ASSUME NEW q \in Rank, NEW s \in Rank, Sharded(q)', Sharded(s)',
             NEW c \in Owned(q) \cap Owned(s)
      PROVE  grad'[q] = grad'[s] /\ local'[q][c] = local'[s][c]
  <2>1. \A p \in {q, s} : grad'[p] = NoVal /\ local'[p] = [d \in Owned(p) |-> Chunk(InitW(0), d)]
    BY <1>1, <1>5, <1>6 DEF StartsFromRank0
  <2> QED BY <2>1
<1>7. ASSUME NEW q \in Rank, NEW s \in Rank PROVE grad'[q] = grad'[s]
  BY <1>1, <1>5 DEF StartsFromRank0
<1>8. ChunksInSync'
  BY <1>3, <1>6, <1>7 DEF ChunksInSync
<1>9. OneStepBehind'
  BY <1>0, <1>1, <1>5 DEF OneStepBehind
<1> QED BY <1>4, <1>8, <1>9

LEMMA SyncOptimizerStep ==
  ASSUME SyncInv, fault = "none", NEW r \in Rank, OptimizerStep(r)
  PROVE  GradsOfLastStep' /\ ChunksInSync' /\ OneStepBehind'
<1> USE DEF SyncInv, StartInv
<1>0. step \in [Rank -> Nat]
  BY Facts
<1>1. /\ local'[r] = UpdateChunks(r, Gathered(r)) /\ grad'[r] = Gathered(r)
      /\ step'[r] = step[r] + 1 /\ pc[r] = "backward" /\ Here(r) = Before(step[r] + 1)
      /\ \A q \in Rank : q # r => /\ local'[q] = local[q] /\ grad'[q] = grad[q]
                                  /\ step'[q] = step[q]
      /\ \A q \in Rank : Sharded(q)' <=> Sharded(q)
      /\ UNCHANGED <<entered, posted, strategy, fault, args>>
  BY UpdateStep DEF Reduced
<1>2. \A q \in Rank : Owned(q)' = Owned(q)
  BY <1>1 DEF Owned, NoShard
<1>3. Sharded(r)
  BY <1>1 DEF Sharded
<1>4. /\ \A c \in Owned(r) : local'[r][c] = ApplyChunk(c, local[r][c], Gathered(r))
      /\ Gathered(r) = [p \in Rank |-> ValAt(p, Before(step[r] + 1))]
  BY <1>1 DEF UpdateChunks, Gathered
<1>5. GradsOfLastStep'
  <2>1. ASSUME NEW q \in Rank, step'[q] > 0
        PROVE  grad'[q] = [p \in Rank |-> ValAt(p, Before(step'[q]))]
    BY <1>0, <1>1, <1>4, <2>1 DEF GradsOfLastStep
  <2> QED BY <1>1, <2>1 DEF GradsOfLastStep, Before, NoShard, ValAt
<1>6. ASSUME NEW q \in Rank, q # r, Sharded(q), step[q] = step[r] + 1
      PROVE  /\ grad[q] = Gathered(r)
             /\ \A c \in Owned(q) \cap Owned(r) : local[q][c] = local'[r][c]
  <2>1. grad[q] = Gathered(r)
    BY <1>0, <1>4, <1>6 DEF GradsOfLastStep
  <2> QED BY <1>3, <1>4, <1>6, <2>1 DEF OneStepBehind
<1>7. ChunksInSync'
  <2>1. ASSUME NEW q \in Rank, NEW s \in Rank, Sharded(q), Sharded(s), step'[q] = step'[s]
        PROVE  /\ grad'[q] = grad'[s]
               /\ \A c \in Owned(q) \cap Owned(s) : local'[q][c] = local'[s][c]
    BY <1>1, <1>6, <2>1 DEF ChunksInSync
  <2> QED BY <1>1, <1>2, <2>1 DEF ChunksInSync
<1>8. ASSUME NEW q \in Rank, NEW s \in Rank, Sharded(q), Sharded(s), step'[q] = step'[s] + 1,
             NEW c \in Owned(q) \cap Owned(s)
      PROVE  local'[q][c] = ApplyChunk(c, local'[s][c], grad'[q])
  <2>1. CASE q # r /\ s # r
    BY <1>1, <1>8, <2>1 DEF OneStepBehind
  <2>2. CASE q = r /\ s # r
    <3>1. step[s] = step[r]
      BY <1>0, <1>1, <1>8, <2>2
    <3>2. local[s][c] = local[r][c]
      BY <1>3, <1>8, <2>2, <3>1 DEF ChunksInSync
    <3> QED BY <1>1, <1>4, <1>8, <2>2, <3>2
  <2>3. CASE q # r /\ s = r
    <3>1. step[q] = step[r] + 1 + 1
      BY <1>1, <1>8, <2>3
    <3>2. step[q] <= step[r] + 1
      BY WithinOneStep DEF Lockstep
    <3> QED BY <1>0, <3>1, <3>2
  <2>4. CASE q = r /\ s = r
    BY <1>0, <1>1, <1>8, <2>4
  <2> QED BY <2>1, <2>2, <2>3, <2>4
<1>9. OneStepBehind'
  BY <1>1, <1>2, <1>8 DEF OneStepBehind
<1> QED BY <1>5, <1>7, <1>9

LEMMA SyncStep ==
  ASSUME SyncInv, NEW r \in Rank, Train(r) \/ Runtime(r)
  PROVE  SyncInv'
<1>1. StartInv' /\ fault' = fault
  BY StartStep, Frame DEF SyncInv, StartInv
<1>2. fault = "none" => GradsOfLastStep' /\ ChunksInSync' /\ OneStepBehind'
  BY SyncQuiet, SyncShardModel, SyncOptimizerStep DEF Train, Quiet
<1> QED BY <1>1, <1>2 DEF SyncInv

LEMMA SyncInit == Init => SyncInv
<1> SUFFICES ASSUME Init PROVE SyncInv
  OBVIOUS
<1>1. \A r \in Rank : ~Sharded(r) /\ step[r] = 0
  BY DEF Init, WorkerInit, Sharded
<1> QED BY <1>1, StartInit DEF SyncInv, GradsOfLastStep, ChunksInSync, OneStepBehind

LEMMA SyncStuttering == SyncInv /\ UNCHANGED vars => SyncInv'
BY StartStuttering
DEF vars, fsdpVars, SyncInv, GradsOfLastStep, ChunksInSync, OneStepBehind, Sharded, Owned, NoShard,
    Before, ValAt

\* The invariant behind ChunksInSync: ranks at the same step agree, and one that
\* is a step behind is about to compute what the others already hold.
THEOREM SyncCorrect == Spec => []SyncInv
<1>1. SyncInv /\ [Next]_vars => SyncInv'
  BY SyncStep, SyncStuttering DEF Next, Over
<1> QED BY <1>1, SyncInit, PTL DEF Spec

\* Under every strategy, the ranks' chunks are those of one model: updated from
\* the same gradients, and equal where two ranks hold the same chunk.
THEOREM ChunksStayInSync == Spec => []ChunksInSync
<1>1. SyncInv => ChunksInSync
  BY DEF SyncInv, ChunksInSync
<1> QED BY <1>1, SyncCorrect, PTL

-----------------------------------------------------------------------------
\* Under NO_SHARD only GatherFingerprints enters the all_gather of the check.
LEMMA EntersCheck ==
  ASSUME ControlInv, NoShard, NEW r \in Rank, Train(r) \/ Runtime(r),
         ~(Here(r) >= Before(args.steps) + 1), Here(r)' >= Before(args.steps) + 1
  PROVE  GatherFingerprints(r)
<1>0. /\ args.steps \in Nat /\ step[r] \in Nat /\ step[r] <= args.steps /\ Here(r) \in Nat
      /\ pc[r] \in Label
  BY Facts
<1>1. Here(r)' = Here(r) + 1 /\ Here(r) = Before(args.steps) /\ Here(r) = 2 + args.steps
  BY <1>0, Frame DEF Before
<1>2. Placed(pc[r], step[r], Here(r))
  BY DEF ControlInv, Position
<1>3. pc[r] \in {"loop", "forward", "summon"} \/ pc[r] \in {"wrap", "backward"}
  BY <1>0, <1>1, <1>2 DEF Placed, Before, Unshards, Label
<1>4. pc[r] # "forward"
  BY <1>0, <1>1, <1>2 DEF Placed, Before, Unshards
<1>5. UNCHANGED entered => FALSE
  BY <1>0, <1>1 DEF Here
<1>6. ~Forward(r) /\ ~SummonFullParams(r) /\ ~ShardModel(r) /\ ~OptimizerStep(r) /\ ~Runtime(r)
  BY <1>5 DEF Forward, SummonFullParams, Unshard, ShardModel, OptimizerStep, Advance, EndStep,
             Runtime, Environment, Launcher, Crash, PeerLost, KillWorker
<1> QED BY <1>3, <1>4, <1>6
        DEF Train, Setup, RejectBackend, SetupDistributed, SyncModule, Backward, CheckWeights,
            SaveFullState, SaveHistory, Report, Finish, At

\* A rank that has shown its fingerprint does not change its weights any more.
LEMMA WeightsFrozen ==
  ASSUME ControlInv, NEW r \in Rank, Train(r) \/ Runtime(r), Here(r) >= Before(args.steps) + 1
  PROVE  local' = local
<1>0. /\ args.steps \in Nat /\ step[r] \in Nat /\ step[r] <= args.steps /\ Here(r) \in Nat
  BY Facts
<1>1. Placed(pc[r], step[r], Here(r))
  BY DEF ControlInv, Position
<1>2. pc[r] \notin {"wrap", "backward"}
  BY <1>0, <1>1 DEF Placed, Before
<1>3. Quiet(r)
  BY <1>2 DEF Quiet, Train, ShardModel, OptimizerStep, At
<1> QED BY <1>3, QuietStep

\* Only CheckWeights takes a rank past the check, rank 0 only if all agree.
LEMMA EntersAfter ==
  ASSUME ControlInv, NEW r \in Rank, Train(r) \/ Runtime(r), ~Checked(r), Checked(r)'
  PROVE  CheckWeights(r) /\ (r = 0 => WeightsMatch(r)) /\ UNCHANGED posted
<1>0. pc \in [Rank -> Label]
  BY Facts
<1>1. CheckWeights(r)
  BY <1>0
  DEF Train, Runtime, Environment, Launcher, Crash, PeerLost, KillWorker, Setup, RejectBackend,
      SetupDistributed, SyncModule, ShardModel, Forward, Backward, OptimizerStep, Unshard,
      SummonFullParams, GatherFingerprints, SaveFullState, SaveHistory, Report, Finish, Call,
      Advance, EndStep, Fail, Goto, At, Checked
<1>2. ~Fail(r)
  BY DEF Fail, Checked
<1> QED BY <1>1, <1>2 DEF CheckWeights, Advance

LEMMA CheckStep ==
  ASSUME ControlInv, FingerprintsShown, NEW r \in Rank, Train(r) \/ Runtime(r)
  PROVE  FingerprintsShown'
<1> SUFFICES ASSUME NoShard PROVE FingerprintsShown'
  BY Frame DEF FingerprintsShown, NoShard
<1>0. /\ args.steps \in Nat /\ \A q \in Rank : Here(q) \in Nat
  BY Facts
<1>1. PICK G : G = Before(args.steps) + 1
  OBVIOUS
<1>2. G \in Nat /\ G = 3 + args.steps /\ Before(args.steps)' + 1 = G
  BY <1>0, <1>1, Frame DEF Before, NoShard
<1>3. \A q \in Rank : Here(q) >= G => ValAt(q, G)' = ValAt(q, G)
  BY <1>0, <1>2, Frame
<1>4. ASSUME NEW q \in Rank, Here(q)' >= G
      PROVE  ValAt(q, G)' = Fingerprint(local'[q])
  <2>1. CASE Here(q) >= G
    <3>1. local'[q] = local[q]
      BY <1>1, <2>1, Frame, WeightsFrozen
    <3> QED BY <1>1, <1>3, <2>1, <3>1 DEF FingerprintsShown
  <2>2. CASE ~(Here(q) >= G)
    <3>1. q = r
      BY <1>4, <2>2, Frame
    <3>2. GatherFingerprints(r)
      BY <1>1, <1>4, <2>2, <3>1, EntersCheck
    <3>3. Here(r) + 1 = G
      BY <1>0, <1>1, <3>2
      DEF GatherFingerprints, At, ControlInv, Position, Placed, Unshards, Before
    <3>4. Call(r, "all_gather", Fingerprint(local[r]), "gather") /\ local' = local
      BY <3>2 DEF GatherFingerprints, FullWeights, fsdpVars
    <3>5. ValAt(r, G)' = Fingerprint(local[r])
      BY <3>3, <3>4, CallOps, Facts
    <3> QED BY <3>1, <3>4, <3>5
  <2> QED BY <2>1, <2>2
<1>5. ASSUME Checked(0)', NEW q \in Rank
      PROVE  ValAt(q, G)' = ValAt(0, G)'
  <2>1. CASE Checked(0)
    <3>1. Here(0) = G \/ Here(0) = G + 1
      BY <1>0, <1>1, <2>1, RankZero
      DEF ControlInv, Position, Placed, Unshards, Before, Checked
    <3>2. Here(q) >= G
      <4>1. G \in PastCalls(0, Waits)
        BY <1>0, <1>2, <2>1, <3>1, RankZero, Facts
        DEF PastCalls, Waits, Checked, ControlInv, Position, Placed, Unshards, Before
      <4>2. OpAt(0, G) # "broadcast"
        BY <1>0, <1>2, <3>1, RankZero DEF ControlInv, OnSchedule, ScheduledOp
      <4> QED BY <4>1, <4>2, RankZero DEF ControlInv, WorkerInv, OthersEntered
    <3>3. ValAt(q, G) = ValAt(0, G)
      BY <1>1, <2>1 DEF FingerprintsShown
    <3> QED BY <1>2, <1>3, <3>1, <3>2, <3>3, RankZero
  <2>2. CASE ~Checked(0)
    <3>1. r = 0
      BY <1>5, <2>2, Frame, RankZero DEF Checked
    <3>2. CheckWeights(0) /\ WeightsMatch(0) /\ UNCHANGED posted
      BY <1>5, <2>2, <3>1, EntersAfter, RankZero
    <3>3. Here(0) = G
      BY <1>0, <1>1, <3>2, RankZero
      DEF CheckWeights, At, ControlInv, Position, Placed, Unshards, Before
    <3>4. ValAt(q, G) = ValAt(0, G)
      BY <3>2, <3>3, RankZero DEF WeightsMatch, Gathered
    <3> QED BY <3>2, <3>4 DEF ValAt
  <2> QED BY <2>1, <2>2
<1> QED BY <1>2, <1>4, <1>5 DEF FingerprintsShown

\* The invariant behind the check of the final weights under NO_SHARD, with a
\* sound or a broken reduction.
THEOREM CheckCorrect == Spec => []CheckInv
<1>1. Init => CheckInv
  <2>1. ASSUME Init PROVE FingerprintsShown
    <3>1. args.steps \in Nat /\ \A r \in Rank : Here(r) = 0 /\ pc[r] = "start"
      BY <2>1, ControlInit, Facts DEF Init, WorkerInit, CommInit, Here
    <3> QED BY <3>1, RankZero DEF FingerprintsShown, Before, Checked
  <2> QED BY <2>1, ControlInit DEF CheckInv
<1>2. CheckInv /\ [Next]_vars => CheckInv'
  <2>1. CheckInv /\ UNCHANGED vars => CheckInv'
    BY ControlStuttering
    DEF vars, fsdpVars, CheckInv, FingerprintsShown, Here, ValAt, NoShard, Before, Checked
  <2>2. ASSUME CheckInv, NEW r \in Rank, Train(r) \/ Runtime(r) PROVE CheckInv'
    BY <2>2, ControlTrain, ControlRuntime, CheckStep DEF CheckInv
  <2> QED BY <2>1, <2>2 DEF Next, Over
<1> QED BY <1>1, <1>2, PTL DEF Spec

\* NoShardCheckDetects, as far as the fingerprint tells different weights apart:
\* under NO_SHARD a broken reduction is never reported as a success.
THEOREM NoShardCheckIsEnough ==
  ASSUME \A v, w : Fingerprint(v) = Fingerprint(w) => v = w
  PROVE  Spec => []NoShardCheckDetects
<1>1. ASSUME CheckInv, LauncherOK, NoShard, NEW q \in Rank
      PROVE  Fingerprint(local[q]) = ValAt(0, Before(args.steps) + 1)
  <2>1. pc[0] = "done" /\ pc[q] = "done"
    BY <1>1, RankZero DEF LauncherOK, CheckInv, ControlInv, WorkerInv, ExitedAtEnd
  <2>2. Here(q) >= Before(args.steps) + 1
    BY <1>1, <2>1, Facts DEF CheckInv, ControlInv, Position, Placed, Unshards, Before
  <2> QED BY <1>1, <2>1, <2>2 DEF CheckInv, FingerprintsShown, Checked
<1>2. CheckInv => NoShardCheckDetects
  BY <1>1 DEF NoShardCheckDetects
<1> QED BY <1>2, CheckCorrect, PTL

-----------------------------------------------------------------------------
(* The chunks of all ranks together, at the step of the furthest rank.      *)

LEMMA FurthestIs ==
  ASSUME ControlInv
  PROVE  /\ Furthest \in Nat
         /\ \A q \in Rank : step[q] <= Furthest
         /\ \E q \in Rank : step[q] = Furthest
<1>0. \A q \in Rank : step[q] \in Nat
  BY Facts
<1>1. \E r \in Rank : \A q \in Rank : step[q] <= step[r]
  <2>1. CASE \E r \in Rank : step[r] > step[0]
    <3>1. PICK r \in Rank : step[r] > step[0]
      BY <2>1
    <3>2. \A q \in Rank : step[q] <= step[0] + 1
      BY RankZero, WithinOneStep DEF Lockstep
    <3> QED BY <1>0, <3>1, <3>2, RankZero
  <2> QED BY <1>0, <2>1, RankZero
<1>2. \E n \in {step[r] : r \in Rank} : \A q \in Rank : step[q] <= n
  BY <1>1
<1>3. Furthest \in {step[r] : r \in Rank} /\ \A q \in Rank : step[q] <= Furthest
  BY <1>2 DEF Furthest
<1> QED BY <1>0, <1>3

\* The number of steps some rank has made and none has passed is Furthest.
FurthestOnly ==
  \A n \in Nat : (\A q \in Rank : step[q] <= n) /\ (\E q \in Rank : step[q] = n) => Furthest = n

LEMMA FurthestIsOnly == ControlInv => FurthestOnly
<1> SUFFICES ASSUME ControlInv PROVE FurthestOnly
  OBVIOUS
<1>1. /\ Furthest \in Nat /\ \A q \in Rank : step[q] <= Furthest
      /\ \E q \in Rank : step[q] = Furthest
  BY FurthestIs
<1> QED BY <1>1 DEF FurthestOnly

LEMMA FurthestIsOnlyNext == ControlInv' => FurthestOnly'
BY FurthestIsOnly, PTL

\* A rank that is behind waits in the reduction of the step the others have made.
LEMMA BehindWaits ==
  ASSUME ControlInv, NEW c \in Rank, step[c] < Furthest
  PROVE  /\ step[c] + 1 = Furthest /\ pc[c] = "backward" /\ Here(c) = Before(Furthest)
         /\ Sharded(c) /\ \A q \in Rank : Here(q) >= Before(Furthest)
<1>0. /\ args.steps \in Nat /\ step[c] \in Nat /\ step[c] <= args.steps /\ Here(c) \in Nat
      /\ pc[c] \in Label /\ Furthest \in Nat
  BY Facts, FurthestIs
<1>1. PICK q \in Rank : step[q] = Furthest
  BY FurthestIs
<1>2. step[q] <= step[c] + 1 /\ step[q] <= args.steps
  BY WithinOneStep, Facts DEF Lockstep
<1>3. step[c] + 1 = Furthest /\ step[q] > 0
  BY <1>0, <1>1, <1>2
<1>4. \A p \in Rank : Here(p) >= Before(Furthest)
  BY <1>1, <1>3, StepsMet
<1>5. Placed(pc[c], step[c], Here(c)) /\ Here(c) >= Before(step[c] + 1)
  BY <1>3, <1>4 DEF ControlInv, Position
<1>6. pc[c] = "backward" /\ Here(c) = Before(step[c] + 1)
  BY <1>0, <1>1, <1>2, <1>3, <1>5 DEF Placed, Before, Unshards, Label
<1> QED BY <1>3, <1>4, <1>6 DEF Sharded

\* What a furthest rank holds is what there is, whoever else holds it too.
LEMMA FurthestHolds ==
  ASSUME SyncInv, fault = "none", NEW r \in Rank, Sharded(r), step[r] = Furthest,
         NEW c \in Owned(r)
  PROVE  c \in Rank /\ c \in Owned(c) /\ ChunkNow(c) = local[r][c]
<1> USE DEF SyncInv, StartInv
<1>1. c \in Rank /\ c \in Owned(c)
  BY DEF Owned
<1>2. step[c] \in Nat /\ Furthest \in Nat /\ step[c] <= Furthest
  BY <1>1, Facts, FurthestIs
<1>3. CASE ~Sharded(c)
  <2>1. step[c] = 0 /\ ~(step[c] < Furthest)
    BY <1>1, <1>3, CallsBound, BehindWaits
  <2>2. step[r] = 0
    BY <1>2, <2>1
  <2>3. local[r] = [d \in Owned(r) |-> Chunk(InitW(0), d)]
    BY <2>2 DEF StartsFromRank0
  <2> QED BY <1>1, <1>3, <2>3 DEF ChunkNow
<1>4. CASE Sharded(c) /\ step[c] < Furthest
  <2>1. step[r] = step[c] + 1 /\ Here(c) = Before(Furthest)
    BY <1>1, <1>4, BehindWaits
  <2>2. grad[r] = [q \in Rank |-> ValAt(q, Before(Furthest))]
    BY <1>1, <1>2, <2>1, <1>4 DEF GradsOfLastStep
  <2>3. grad[r] = Gathered(c)
    BY <2>1, <2>2 DEF Gathered
  <2>4. local[r][c] = ApplyChunk(c, local[c][c], grad[r])
    BY <1>1, <1>4, <2>1 DEF OneStepBehind
  <2> QED BY <1>1, <1>4, <2>3, <2>4 DEF ChunkNow
<1>5. CASE Sharded(c) /\ ~(step[c] < Furthest)
  <2>1. step[c] = step[r]
    BY <1>2, <1>5
  <2>2. local[r][c] = local[c][c]
    BY <1>1, <1>5, <2>1 DEF ChunksInSync
  <2> QED BY <1>1, <1>5, <2>2 DEF ChunkNow
<1> QED BY <1>3, <1>4, <1>5

\* Until the furthest rank updates its chunks, the weights stay what they are.
LEMMA WeightsQuiet ==
  ASSUME SyncInv, NEW r \in Rank, Quiet(r)
  PROVE  Weights' = Weights /\ Furthest' = Furthest
<1> USE DEF SyncInv, StartInv
<1>1. /\ UNCHANGED <<step, local>> /\ \A q \in Rank : Sharded(q)' <=> Sharded(q)
  BY QuietStep
<1>2. Furthest' = Furthest
  BY <1>1 DEF Furthest
<1>3. ASSUME NEW c \in Rank, step[c] < Furthest PROVE Gathered(c)' = Gathered(c)
  <2>1. /\ pc[c] = "backward" /\ Here(c) = Before(Furthest)
        /\ \A q \in Rank : Here(q) >= Before(Furthest)
    BY <1>3, BehindWaits
  <2>2. c = r => Runtime(r)
    BY <2>1 DEF Quiet, Setup, RejectBackend, SetupDistributed, SyncModule, Forward, Backward,
                SummonFullParams, GatherFingerprints, CheckWeights, SaveFullState, SaveHistory,
                Report, Finish, At
  <2>3. Here(c)' = Here(c)
    <3>1. CASE c = r
      BY <2>2, <3>1 DEF Runtime, Environment, Launcher, Crash, PeerLost, KillWorker, Here
    <3>2. CASE c # r
      BY <3>2, Frame DEF Quiet, Train
    <3> QED BY <3>1, <3>2
  <2>4. PICK k : k = Here(c)
    OBVIOUS
  <2>5. \A q \in Rank : k \in 1 .. Here(q)
    BY <2>1, <2>4, Facts, FurthestIs DEF Before
  <2>6. \A q \in Rank : ValAt(q, k)' = ValAt(q, k)
    BY <2>5, Frame DEF Quiet, Train
  <2> QED BY <2>3, <2>4, <2>6 DEF Gathered, ValAt
<1>4. \A c \in Rank : ChunkNow(c)' = ChunkNow(c)
  BY <1>1, <1>2, <1>3 DEF ChunkNow
<1> QED BY <1>2, <1>4 DEF Weights

LEMMA WeightsSharded ==
  ASSUME SyncInv, NEW r \in Rank, ShardModel(r)
  PROVE  Weights' = Weights /\ Furthest' = Furthest
<1> USE DEF SyncInv, StartInv
<1>1. /\ local'[r] = [c \in Owned(r) |-> Chunk(InitW(0), c)]
      /\ step' = step /\ step[r] = 0 /\ Here(r) = 2 /\ ~Sharded(r) /\ Sharded(r)'
      /\ \A q \in Rank : q # r => local'[q] = local[q] /\ (Sharded(q)' <=> Sharded(q))
  BY ShardsFromRank0
<1>2. Furthest' = Furthest
  BY <1>1 DEF Furthest
<1>3. \A c \in Rank : ~(step[c] < Furthest)
  <2>1. SUFFICES ASSUME NEW c \in Rank, step[c] < Furthest PROVE FALSE
    OBVIOUS
  <2>2. Here(r) >= Before(Furthest) /\ Furthest = step[c] + 1 /\ step[c] \in Nat
    BY <2>1, BehindWaits, Facts
  <2> QED BY <1>1, <2>2 DEF Before
<1>4. r \in Owned(r)
  BY DEF Owned
<1>5. \A c \in Rank : ChunkNow(c)' = ChunkNow(c)
  BY <1>1, <1>2, <1>3, <1>4 DEF ChunkNow
<1> QED BY <1>2, <1>5 DEF Weights

\* A rank that is behind makes the step the weights have made already.
LEMMA WeightsCaughtUp ==
  ASSUME SyncInv, ControlInv', fault = "none", NEW r \in Rank, OptimizerStep(r), step[r] < Furthest
  PROVE  Weights' = Weights /\ Furthest' = Furthest
<1> USE DEF SyncInv, StartInv
<1>1. /\ local'[r] = UpdateChunks(r, Gathered(r))
      /\ step'[r] = step[r] + 1
      /\ \A q \in Rank : q # r => local'[q] = local[q] /\ step'[q] = step[q]
      /\ \A q \in Rank : Sharded(q)' <=> Sharded(q)
      /\ UNCHANGED <<entered, posted, strategy, fault, args>>
  BY UpdateStep DEF Reduced
<1>2. /\ Furthest \in Nat /\ \A q \in Rank : step[q] <= Furthest
      /\ \A q \in Rank : step[q] \in Nat
  BY FurthestIs, Facts
<1>3. step'[r] = Furthest /\ Sharded(r)
  BY <1>1, BehindWaits
<1>4. Furthest' = Furthest
  <2>1. \A q \in Rank : step'[q] <= Furthest
    BY <1>1, <1>2, <1>3
  <2> QED BY <1>2, <1>3, <2>1, FurthestIsOnlyNext DEF FurthestOnly
<1>5. \A c \in Rank : Gathered(c)' = Gathered(c)
  BY <1>1 DEF Gathered, ValAt, Here
<1>6. r \in Owned(r)
  BY DEF Owned
<1>7. local'[r][r] = ApplyChunk(r, local[r][r], Gathered(r))
  BY <1>1, <1>6 DEF UpdateChunks
<1>8. \A c \in Rank : ChunkNow(c)' = ChunkNow(c)
  BY <1>1, <1>2, <1>3, <1>4, <1>5, <1>7 DEF ChunkNow
<1> QED BY <1>4, <1>8 DEF Weights

\* When the furthest rank makes a step, all ranks are in the reduction of that
\* step, and every chunk gets the same gradients.
LEMMA WeightsUpdated ==
  ASSUME SyncInv, ControlInv', fault = "none", NEW r \in Rank, OptimizerStep(r),
         ~(step[r] < Furthest)
  PROVE  /\ Weights' = ApplyAll(Weights, Gathered(r)) /\ Furthest' = Furthest + 1
         /\ Furthest = step[r] /\ step[r] < args.steps
         /\ \A q \in Rank : pc[q] = "backward" /\ step[q] = step[r] /\ Here(q) = Here(r)
<1> USE DEF SyncInv, StartInv
<1>1. /\ local'[r] = UpdateChunks(r, Gathered(r))
      /\ step'[r] = step[r] + 1 /\ step[r] < args.steps
      /\ pc[r] = "backward" /\ Here(r) = Before(step[r] + 1)
      /\ \A q \in Rank : Here(q) >= Here(r)
      /\ \A q \in Rank : q # r => local'[q] = local[q] /\ step'[q] = step[q]
      /\ \A q \in Rank : Sharded(q)' <=> Sharded(q)
      /\ UNCHANGED <<entered, posted, strategy, fault, args>>
  BY UpdateStep DEF Reduced
<1>2. /\ Furthest \in Nat /\ \A q \in Rank : step[q] <= Furthest
      /\ args.steps \in Nat
      /\ \A q \in Rank : step[q] \in Nat /\ Here(q) \in Nat /\ pc[q] \in Label
  BY FurthestIs, Facts
<1>3. Furthest = step[r]
  BY <1>2
<1>4. ASSUME NEW q \in Rank
      PROVE  pc[q] = "backward" /\ step[q] = step[r] /\ Here(q) = Here(r)
  <2>1. Placed(pc[q], step[q], Here(q)) /\ step[q] <= step[r] /\ Here(q) >= Before(step[r] + 1)
    BY <1>1, <1>2, <1>3 DEF ControlInv, Position
  <2> QED BY <1>1, <1>2, <2>1 DEF Placed, Before, Unshards, Label
<1>5. Furthest' = Furthest + 1
  <2>1. /\ Furthest + 1 \in Nat /\ step'[r] = Furthest + 1
        /\ \A q \in Rank : step'[q] <= Furthest + 1
    BY <1>1, <1>2, <1>3
  <2> QED BY <2>1, FurthestIsOnlyNext DEF FurthestOnly
<1>6. \A c \in Rank : Gathered(c)' = Gathered(r)
  BY <1>1, <1>4 DEF Gathered, ValAt, Here
<1>7. \A c \in Rank : Sharded(c) /\ c \in Owned(c)
  BY <1>4 DEF Owned, Sharded
<1>8. ASSUME NEW c \in Rank
      PROVE  ChunkNow(c)' = ApplyChunk(c, ChunkNow(c), Gathered(r))
  <2>1. ChunkNow(c) = local[c][c]
    BY <1>2, <1>3, <1>4, <1>7 DEF ChunkNow
  <2>2. CASE c = r
    <3>1. local'[r][r] = ApplyChunk(r, local[r][r], Gathered(r))
      BY <1>1, <1>7 DEF UpdateChunks
    <3>2. ChunkNow(r)' = local'[r][r]
      BY <1>1, <1>2, <1>3, <1>5, <1>7 DEF ChunkNow
    <3> QED BY <2>1, <2>2, <3>1, <3>2
  <2>3. CASE c # r
    <3>1. step'[c] < Furthest'
      BY <1>1, <1>2, <1>3, <1>4, <1>5, <2>3
    <3> QED BY <1>1, <1>6, <1>7, <2>1, <2>3, <3>1 DEF ChunkNow
  <2> QED BY <2>2, <2>3
<1>9. Weights' = [c \in Rank |-> ApplyChunk(c, Weights[c], Gathered(r))]
  BY <1>8 DEF Weights
<1> QED BY <1>1, <1>3, <1>4, <1>5, <1>9 DEF ApplyAll

-----------------------------------------------------------------------------
(* The gradients the ranks bring are those of the weights as they are.      *)

LEMMA ShownStep ==
  ASSUME ControlInv, ChunksShown, NEW r \in Rank, Train(r) \/ Runtime(r)
  PROVE  ChunksShown'
<1>0. /\ pc \in [Rank -> Label] /\ WorkerTypeOK(Label)
      /\ \A q \in Rank : step[q] \in Nat /\ Here(q) \in Nat
  BY Facts
<1>1. strategy' = strategy
  BY Frame
<1> SUFFICES ASSUME ~NoShard, NEW q \in Rank, pc'[q] \in {"forward", "backward"}
             PROVE  \A k : k = (Before(step[q]) + 1)' => ValAt(q, k)' = local'[q]
  BY <1>1 DEF ChunksShown, NoShard
<1>2. ASSUME pc[q] \in {"forward", "backward"}, step'[q] = step[q], local'[q] = local[q]
      PROVE  \A k : k = (Before(step[q]) + 1)' => ValAt(q, k)' = local'[q]
  <2>1. (Before(step[q]) + 1)' = Before(step[q]) + 1
    BY <1>1, <1>2 DEF Before, NoShard
  <2>2. PICK k : k = Before(step[q]) + 1
    OBVIOUS
  <2>3. Placed(pc[q], step[q], Here(q))
    BY DEF ControlInv, Position
  <2>4. k \in 1 .. Here(q)
    BY <1>0, <1>2, <2>2, <2>3 DEF Placed, Before, Unshards
  <2>5. ValAt(q, k)' = ValAt(q, k)
    BY <2>4, Frame
  <2>6. ValAt(q, k) = local[q]
    BY <1>2, <2>2 DEF ChunksShown
  <2> QED BY <1>2, <2>1, <2>2, <2>5, <2>6
<1>3. CASE q # r
  BY <1>2, <1>3, Frame
<1>4. CASE q = r /\ Quiet(r)
  <2>1. UNCHANGED <<step, local>>
    BY <1>4, QuietStep
  <2>2. CASE Forward(r)
    <3>1. Call(r, "all_gather", local[r], "forward") /\ Here(r) = Before(step[r])
      BY <2>2 DEF Forward, Unshard, At, ControlInv, Position, Placed
    <3>2. (Before(step[r]) + 1)' = Here(r) + 1
      BY <1>1, <2>1, <3>1 DEF Before, NoShard
    <3> QED BY <1>0, <1>4, <2>1, <3>1, <3>2, CallOps
  <2>3. CASE Backward(r)
    BY <1>2, <1>4, <2>1, <2>3 DEF Backward, At
  <2>4. CASE ~Forward(r) /\ ~Backward(r)
    BY <1>2, <1>4, <2>1, <2>4, QuietStep
  <2> QED BY <2>2, <2>3, <2>4
<1>5. CASE q = r /\ (ShardModel(r) \/ OptimizerStep(r))
  BY <1>0, <1>5 DEF ShardModel, OptimizerStep, Advance, EndStep, Goto
<1> QED BY <1>3, <1>4, <1>5 DEF Train, Quiet

\* On the furthest step, backward works on the full weights as they are.
LEMMA FullWeightsAreWhole ==
  ASSUME SyncInv, ChunksShown, fault = "none", NEW r \in Rank, Backward(r),
         \A q \in Rank : step[q] <= step[r]
  PROVE  FullWeights(r) = Weights
<1> USE DEF SyncInv, StartInv
<1>0. /\ args.steps \in Nat /\ Furthest \in Nat
      /\ \A q \in Rank : step[q] \in Nat /\ Here(q) \in Nat /\ pc[q] \in Label
  BY Facts, FurthestIs
<1>1. /\ pc[r] = "forward" /\ Complete(r) /\ Sharded(r)
      /\ Here(r) = Before(step[r]) + Unshards /\ step[r] < args.steps
  BY DEF Backward, At, ControlInv, Position, Placed, Sharded
<1>2. step[r] = Furthest
  BY <1>0, FurthestIs
<1>3. CASE NoShard
  <2>1. local[r] = [c \in Rank |-> local[r][c]]
    BY <1>1, <1>3 DEF HoldsOwned, Owned
  <2>2. \A c \in Rank : ChunkNow(c) = local[r][c]
    BY <1>1, <1>2, <1>3, FurthestHolds DEF Owned
  <2> QED BY <1>3, <2>1, <2>2 DEF FullWeights, Weights
<1>4. CASE ~NoShard
  <2>1. Here(r) = Before(step[r]) + 1 /\ OpAt(r, Here(r)) # "broadcast"
    <3>1. Here(r) = Before(step[r]) + 1
      BY <1>1, <1>4 DEF Unshards
    <3>2. Here(r) \in 1 .. Here(r) /\ Here(r) # 2
      BY <1>0, <3>1 DEF Before
    <3>3. ScheduledOp(Here(r)) # "broadcast"
      BY <3>2 DEF ScheduledOp
    <3> QED BY <3>1, <3>2, <3>3 DEF ControlInv, OnSchedule
  <2>2. ASSUME NEW c \in Rank PROVE Gathered(r)[c][c] = ChunkNow(c)
    <3>1. Here(c) >= Before(step[r]) + 1 /\ step[c] <= step[r]
      BY <1>1, <2>1, MeetingOfAll
    <3>2. Placed(pc[c], step[c], Here(c))
      BY DEF ControlInv, Position
    <3>3. step[c] = step[r] /\ pc[c] \in {"forward", "backward"}
      BY <1>0, <1>1, <1>4, <3>1, <3>2 DEF Placed, Before, Unshards, Label
    <3>4. ValAt(c, Here(r)) = local[c]
      BY <1>4, <2>1, <3>3 DEF ChunksShown
    <3>5. Sharded(c) /\ c \in Owned(c)
      BY <3>3 DEF Sharded, Owned
    <3>6. ChunkNow(c) = local[c][c]
      BY <1>2, <3>3, <3>5, FurthestHolds
    <3> QED BY <3>4, <3>6 DEF Gathered
  <2> QED BY <1>4, <2>2 DEF FullWeights, Weights
<1> QED BY <1>3, <1>4

LEMMA GradStep ==
  ASSUME FullInv, ControlInv', fault = "none", NEW r \in Rank, Train(r) \/ Runtime(r)
  PROVE  GradInv'
<1> USE DEF FullInv, SyncInv, StartInv
<1>0. /\ WorkerTypeOK(Label) /\ pc \in [Rank -> Label] /\ step \in [Rank -> Nat]
      /\ \A q \in Rank : Here(q) \in Nat /\ step[q] \in Nat
  BY Facts
<1> SUFFICES ASSUME NEW q \in Rank, pc'[q] = "backward", \A p \in Rank : step'[p] <= step'[q]
             PROVE  \E b \in Batch : \A k : k = Here(q)' => ValAt(q, k)' = Grad(Weights', b)
  BY DEF GradInv
<1>1. ASSUME pc[q] = "backward", Here(q)' = Here(q), Weights' = Weights,
             \A p \in Rank : step[p] <= step[q]
      PROVE  \E b \in Batch : \A k : k = Here(q)' => ValAt(q, k)' = Grad(Weights', b)
  <2>1. PICK b \in Batch : ValAt(q, Here(q)) = Grad(Weights, b)
    BY <1>1 DEF GradInv
  <2>2. Here(q) \in 1 .. Here(q)
    BY <1>0, <1>1 DEF ControlInv, Position, Placed, Before
  <2>3. PICK k : k = Here(q)
    OBVIOUS
  <2>4. ValAt(q, k)' = ValAt(q, k)
    BY <2>2, <2>3, Frame
  <2> QED BY <1>1, <2>1, <2>3, <2>4
<1>2. CASE Quiet(r)
  <2>1. step' = step /\ Weights' = Weights
    BY <1>2, QuietStep, WeightsQuiet
  <2>2. CASE q # r
    BY <1>1, <2>1, <2>2, Frame
  <2>3. CASE q = r /\ Backward(r)
    <3>1. PICK b \in Batch : \E op : Call(r, op, Grad(FullWeights(r), b), "backward")
      BY <2>3 DEF Backward
    <3>2. FullWeights(r) = Weights
      BY <2>1, <2>3, FullWeightsAreWhole
    <3> QED BY <1>0, <2>1, <2>3, <3>1, <3>2, CallOps
  <2>4. CASE q = r /\ ~Backward(r)
    BY <1>1, <1>2, <2>1, <2>4, QuietStep
  <2> QED BY <2>2, <2>3, <2>4
<1>3. CASE ShardModel(r)
  <2>1. q # r /\ step' = step
    BY <1>0, <1>3 DEF ShardModel, Advance, Goto
  <2> QED BY <1>1, <1>3, <2>1, Frame, WeightsSharded
<1>4. CASE OptimizerStep(r)
  <2>1. q # r
    BY <1>0, <1>4 DEF OptimizerStep, EndStep, Goto
  <2>2. step'[r] = step[r] + 1 /\ \A p \in Rank : p # r => step'[p] = step[p]
    BY <1>4, UpdateStep
  <2>3. step[r] < step[q] /\ \A p \in Rank : step[p] <= step[q]
    BY <1>0, <2>1, <2>2
  <2>4. step[r] < Furthest
    BY <1>0, <2>3, FurthestIs
  <2> QED BY <1>1, <1>4, <2>1, <2>3, <2>4, Frame, WeightsCaughtUp
<1> QED BY <1>2, <1>3, <1>4 DEF Train, Quiet

LEMMA FullInit == Init => FullInv
<1> SUFFICES ASSUME Init PROVE FullInv
  OBVIOUS
<1>1. \A r \in Rank : pc[r] = "start"
  BY DEF Init, WorkerInit
<1> QED BY <1>1, SyncInit DEF FullInv, ChunksShown, GradInv

LEMMA FullStuttering == FullInv /\ UNCHANGED vars => FullInv'
<1> SUFFICES ASSUME FullInv, UNCHANGED vars PROVE FullInv'
  OBVIOUS
<1>1. SyncInv'
  BY SyncStuttering DEF FullInv
<1>2. /\ UNCHANGED <<entered, posted, pc, step, args, local, strategy, fault>>
      /\ \A q \in Rank : \A k : ValAt(q, k)' = ValAt(q, k)
  BY DEF vars, fsdpVars, ValAt
<1>3. ChunksShown'
  BY <1>2 DEF FullInv, ChunksShown, NoShard, Before, ValAt
<1>4. Furthest' = Furthest
  BY <1>2 DEF Furthest
<1>5. \A c \in Rank : ChunkNow(c)' = ChunkNow(c)
  BY <1>2, <1>4 DEF ChunkNow, Sharded, Gathered, ValAt, Here
<1>6. Weights' = Weights
  BY <1>5 DEF Weights
<1> QED BY <1>1, <1>2, <1>3, <1>6 DEF FullInv, GradInv, ValAt, Here

LEMMA FullStep ==
  ASSUME FullInv, NEW r \in Rank, Train(r) \/ Runtime(r)
  PROVE  FullInv'
<1>1. SyncInv' /\ ControlInv' /\ fault' = fault
  BY SyncStep, Frame DEF FullInv, SyncInv, StartInv
<1>2. ChunksShown'
  BY ShownStep DEF FullInv, SyncInv, StartInv
<1>3. fault = "none" => GradInv'
  BY <1>1, GradStep
<1> QED BY <1>1, <1>2, <1>3 DEF FullInv

\* What the ranks hold and have shown fits together in every state of every run.
THEOREM FullCorrect == Spec => []FullInv
<1>1. FullInv /\ [Next]_vars => FullInv'
  BY FullStep, FullStuttering DEF Next, Over
<1> QED BY <1>1, FullInit, PTL DEF Spec

\* One step of a run is a step of the reference or leaves it where it is.
LEMMA ReferenceStep ==
  ASSUME FullInv, FullInv', fault = "none", NEW r \in Rank, Train(r) \/ Runtime(r)
  PROVE  \/ UNCHANGED <<Weights, Furthest>>
         \/ \E b \in [Rank -> Batch] :
              /\ \E n \in StepCounts : Furthest < n
              /\ Weights' = ApplyAll(Weights, [p \in Rank |-> Grad(Weights, b[p])])
              /\ Furthest' = Furthest + 1
<1> USE DEF FullInv, SyncInv, StartInv
<1>1. CASE Quiet(r)
  BY <1>1, WeightsQuiet
<1>2. CASE ShardModel(r)
  BY <1>2, WeightsSharded
<1>3. CASE OptimizerStep(r) /\ step[r] < Furthest
  BY <1>3, WeightsCaughtUp
<1>4. CASE OptimizerStep(r) /\ ~(step[r] < Furthest)
  <2>1. /\ Weights' = ApplyAll(Weights, Gathered(r)) /\ Furthest' = Furthest + 1
        /\ Furthest = step[r] /\ step[r] < args.steps
        /\ \A q \in Rank : pc[q] = "backward" /\ step[q] = step[r] /\ Here(q) = Here(r)
    BY <1>4, WeightsUpdated
  <2>2. \A q \in Rank : step[q] \in Nat
    BY Facts
  <2>3. \A q \in Rank : \E b \in Batch : ValAt(q, Here(r)) = Grad(Weights, b)
    BY <2>1, <2>2 DEF GradInv
  <2> DEFINE batch == [q \in Rank |-> CHOOSE b \in Batch : ValAt(q, Here(r)) = Grad(Weights, b)]
  <2>4. batch \in [Rank -> Batch] /\ \A q \in Rank : ValAt(q, Here(r)) = Grad(Weights, batch[q])
    BY <2>3
  <2>5. Gathered(r) = [p \in Rank |-> Grad(Weights, batch[p])]
    BY <2>4 DEF Gathered
  <2>6. args.steps \in StepCounts
    BY Facts
  <2> HIDE DEF batch
  <2> QED BY <2>1, <2>4, <2>5, <2>6
<1> QED BY <1>1, <1>2, <1>3, <1>4 DEF Train, Quiet

\* Under every sharding strategy, a sound run is a run of the reference loop
\* with one piece of the batch per rank; one with a broken reduction is none.
THEOREM TrainsReferenceModel == Spec => TrainsAsOneModel
<1>1. Init => Reference!RefInit
  <2> SUFFICES ASSUME Init PROVE Reference!RefInit
    OBVIOUS
  <2>1. \A q \in Rank : step[q] = 0 /\ ~Sharded(q)
    BY DEF Init, WorkerInit, Sharded
  <2>2. Furthest = 0
    <3>1. FurthestOnly
      BY ControlInit, FurthestIsOnly
    <3> QED BY <2>1, <3>1, RankZero DEF FurthestOnly
  <2>3. \A c \in Rank : ChunkNow(c) = Chunk(InitW(0), c)
    BY <2>1 DEF ChunkNow
  <2> QED BY <2>2, <2>3 DEF Reference!RefInit, FirstWeights
<1>2. FullInv /\ FullInv' /\ [Next]_vars => [Reference!RefNext]_(Reference!refVars)
  <2> SUFFICES ASSUME FullInv, FullInv', [Next]_vars
               PROVE  [Reference!RefNext]_(Reference!refVars)
    OBVIOUS
  <2>1. CASE UNCHANGED vars
    <3>1. /\ UNCHANGED <<entered, posted, pc, step, args, local, strategy, fault>>
      BY <2>1 DEF vars, fsdpVars
    <3>2. Furthest' = Furthest
      BY <3>1 DEF Furthest
    <3>3. \A c \in Rank : ChunkNow(c)' = ChunkNow(c)
      BY <3>1, <3>2 DEF ChunkNow, Sharded, Gathered, ValAt, Here
    <3> QED BY <3>1, <3>2, <3>3 DEF Reference!refVars, FirstWeights
  <2>2. ASSUME NEW r \in Rank, Train(r) \/ Runtime(r)
        PROVE  [Reference!RefNext]_(Reference!refVars)
    <3>0. fault' = fault
      BY <2>2, Frame DEF FullInv, SyncInv, StartInv
    <3>1. CASE fault # "none"
      BY <3>0, <3>1 DEF Reference!refVars, FirstWeights
    <3>2. CASE fault = "none" /\ UNCHANGED <<Weights, Furthest>>
      BY <3>0, <3>2 DEF Reference!refVars, Weights
    <3>3. CASE fault = "none" /\ ~UNCHANGED <<Weights, Furthest>>
      <4>1. PICK b \in [Rank -> Batch] :
              /\ \E n \in StepCounts : Furthest < n
              /\ Weights' = ApplyAll(Weights, [p \in Rank |-> Grad(Weights, b[p])])
              /\ Furthest' = Furthest + 1
        BY <2>2, <3>3, ReferenceStep
      <4>2. Reference!TrainStep(b)
        BY <3>0, <3>3, <4>1 DEF Reference!TrainStep, Weights
      <4> QED BY <4>2 DEF Reference!RefNext
    <3> QED BY <3>1, <3>2, <3>3
  <2> QED BY <2>1, <2>2 DEF Next, Over
<1> QED BY <1>1, <1>2, FullCorrect, PTL DEF Spec, TrainsAsOneModel, Reference!RefSpec
=============================================================================
