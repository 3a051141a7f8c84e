------------------------------- MODULE TPProofs -------------------------------
(***************************************************************************)
(* Proofs about train_tp.py for every world size, number of steps and      *)
(* crashes and shape of the model, whatever torch's arithmetic is, with    *)
(* working allreduces and with a broken one in either pass.                *)
(***************************************************************************)
EXTENDS TP, WorkerProofs

-----------------------------------------------------------------------------
(* The inductive invariants.                                                *)

Waits ==
  {"setup", "parallelize", "probe", "forward", "backward", "losses", "full", "gather", "barrier"}

\* How many collectives come before the step that follows the n-th
Before(n) == 3 + 2 * n

\* A rank at this label that has made n steps has entered so many collectives.
\* Nobody reports, and gets to the barrier, without having made a step.
Placed(label, n, calls) ==
  /\ label = "start" => calls = 0 /\ n = 0
  /\ label = "setup" => calls = 1 /\ n = 0
  /\ label = "parallelize" => calls = 2 /\ n = 0
  /\ label = "probe" => calls = 3 /\ n = 0
  /\ label = "loop" => calls = Before(n)
  /\ label = "forward" => calls = Before(n) + 1 /\ n < args.steps
  /\ label = "backward" => calls = Before(n) + 2 /\ n < args.steps
  /\ label = "losses" => calls = Before(args.steps) + 1 /\ n = args.steps
  /\ label = "full" => calls = Before(args.steps) + 2 /\ n = args.steps
  /\ label \in {"gather", "save_state", "save_history", "report"} =>
       calls = Before(args.steps) + 3 /\ n = args.steps
  /\ label \in {"barrier", "done"} =>
       calls = Before(args.steps) + 4 /\ n = args.steps /\ n > 0

Position == \A r \in Rank : Placed(pc[r], step[r], Here(r))

\* The script fixes which collective comes k-th.
ScheduledOp(k) ==
  IF k = 1 THEN "init_process_group"
  ELSE IF k = 2 THEN "broadcast"
  ELSE IF k <= Before(args.steps) THEN "allreduce"
  ELSE IF k <= Before(args.steps) + 3 THEN "all_gather"
  ELSE "barrier"

OnSchedule == \A r \in Rank : \A k \in 1 .. Here(r) : OpAt(r, k) = ScheduledOp(k)

ControlInv ==
  /\ WorkerInv(Label, Waits)
  /\ fault \in Faults
  /\ DOMAIN rep = Rank /\ DOMAIN shard = Rank /\ DOMAIN losses = Rank
  /\ \A r \in Rank : losses[r] = [k \in 1 .. step[r] |-> losses[r][k]]
  /\ Position
  /\ OnSchedule

\* A broken allreduce on a single rank does no harm.
Sound == fault = "none" \/ WorldSize = 1

\* The forward pass of one process in the step that follows the n-th
LogitsAt(n) == WholeLogits(Trained[n], Sample(n + 1))

\* What rank r brings to its k-th collective, as far as the training depends on it
Brings(r, k, val) ==
  /\ k = 2 => val = InitW(r)
  /\ k = 3 => val = ForwardPart(RepOf(InitW(0)), ShardOf(InitW(0), r), Sample(0))
  /\ \A n \in 0 .. args.steps - 1 :
       /\ k = Before(n) + 1 /\ Sound =>
            val = ForwardPart(Trained[n].rep, Trained[n].shard[r], Sample(n + 1))
       /\ k = Before(n) + 2 => val = BackwardPart(r, IF Sound THEN LogitsAt(n) ELSE val.out)

Shown == \A r \in Rank : \A k \in 1 .. Here(r) : Brings(r, k, ValAt(r, k))

\* With sound allreduces a rank has its part of what one process has after the
\* same number of steps, and has seen the same losses.
HasTrained ==
  Sound => \A r \in Rank : Split(r) =>
    /\ rep[r] = Trained[step[r]].rep /\ shard[r] = Trained[step[r]].shard[r]
    /\ losses[r] = [k \in 1 .. step[r] |-> LogitsAt(k - 1)]

TrainInv == ControlInv /\ Shown /\ HasTrained

\* Rank 0 does not get past a probe batch that it sees go wrong.
StoppedAtProbe ==
  fault = "forward" /\ WorldSize > 1 => pc[0] \in {"start", "setup", "parallelize", "probe"}

\* A broken backward pass updates rank r with its own part of the gradients.
OwnUpdate(r, w) ==
  \E v, out : w = ApplyPart("rep", v, Grad(out, [q \in Rank |-> BackwardPart(r, out)]))

OwnUpdates ==
  fault = "backward" /\ WorldSize > 1 => \A r \in Rank : step[r] > 0 => OwnUpdate(r, rep[r])

\* Rank 0 has gone on only after finding all fingerprints equal, and a rank has
\* shown that of the replicated parameters it still has.
Checked(r) == pc[r] \in {"save_state", "save_history", "report", "barrier", "done"}

FingerprintsShown ==
  /\ \A r \in Rank : Here(r) >= Before(args.steps) + 3 =>
       \E parts : ValAt(r, Before(args.steps) + 3) = Fingerprint([rep |-> rep[r], shard |-> parts])
  /\ Checked(0) =>
       \A q \in Rank : ValAt(q, Before(args.steps) + 3) = ValAt(0, Before(args.steps) + 3)

CheckInv == TrainInv /\ StoppedAtProbe /\ OwnUpdates /\ FingerprintsShown

(* What the script's checks rely on: torch's arithmetic hides nothing.       *)

\* On the probe batch, rank 0's part alone does not give the model's output.
ProbeTells ==
  WorldSize > 1 =>
    LET part == ForwardPart(RepOf(InitW(0)), ShardOf(InitW(0), 0), Sample(0)) IN
    Logits(part.rep, part.x, [q \in Rank |-> part]) # WholeLogits(Whole(InitW(0)), Sample(0))

\* The partial gradients of two ranks lead to different weights,
UpdatesTell == \A q, r \in Rank : \A w : OwnUpdate(q, w) /\ OwnUpdate(r, w) => q = r

\* and different replicated weights have different fingerprints.
FingerprintTells == \A v, w : Fingerprint(v) = Fingerprint(w) => v.rep = w.rep

-----------------------------------------------------------------------------
LEMMA Facts ==
  ASSUME ControlInv
  PROVE  /\ WorkerTypeOK(Label)
         /\ args.steps \in Nat /\ args.steps \in StepCounts
         /\ pc \in [Rank -> Label] /\ entered \in [Rank -> Nat] /\ step \in [Rank -> Nat]
         /\ \A r \in Rank : /\ Here(r) \in Nat /\ pc[r] \in Label
                            /\ step[r] \in Nat /\ step[r] <= args.steps
<1>1. WorkerTypeOK(Label)
  BY DEF ControlInv, WorkerInv
<1>2. /\ args.steps \in Nat /\ args.steps \in StepCounts
      /\ \A r \in Rank : /\ Here(r) \in Nat /\ pc[r] \in Label
                         /\ step[r] \in Nat /\ step[r] <= args.steps
  BY <1>1, WorkerTypes
<1> QED BY <1>1, <1>2 DEF WorkerTypeOK

LEMMA ControlInit == Init => ControlInv
<1> SUFFICES ASSUME Init PROVE ControlInv
  OBVIOUS
<1>1. WorkerInv(Label, Waits)
  BY WorkerStarts DEF Init, Label
<1>2. Position /\ OnSchedule
  BY DEF Init, WorkerInit, CommInit, Position, Placed, OnSchedule, Here
<1>3. \A r \in Rank : losses[r] = [k \in 1 .. step[r] |-> losses[r][k]]
  BY DEF Init, WorkerInit
<1> QED BY <1>1, <1>2, <1>3 DEF Init, ControlInv

\* A call that the schedule has next, by a rank that waits for nobody.
LEMMA ControlCall ==
  ASSUME ControlInv, NEW r \in Rank, NEW op, NEW val, NEW next \in Waits \cap Label,
         Call(r, op, val, next), UNCHANGED <<fault, losses>>,
         DOMAIN rep' = Rank, DOMAIN shard' = Rank,
         proc[r] = "running", next # "done", pc[r] \in Waits => Complete(r),
         op = ScheduledOp(Here(r) + 1), Placed(next, step[r], Here(r) + 1)
  PROVE  ControlInv'
<1>0. WorkerTypeOK(Label)
  BY Facts
<1>1. WorkerInv(Label, Waits)'
  BY CallKeeps DEF ControlInv
<1>2. UNCHANGED <<args, step>> /\ pc' = [pc EXCEPT ![r] = next]
  BY DEF Call, Goto
<1>3. /\ Here(r)' = Here(r) + 1
      /\ \A k : k = Here(r) + 1 => OpAt(r, k)' = op
      /\ \A q \in Rank : q # r => Here(q)' = Here(q)
      /\ \A q \in Rank : \A k \in 1 .. Here(q) : OpAt(q, k)' = OpAt(q, k)
  BY <1>0, CallOps
<1>4. Position'
  BY <1>0, <1>2, <1>3 DEF ControlInv, Position, Placed, Before, WorkerTypeOK
<1>5. ASSUME NEW q \in Rank, NEW k \in 1 .. Here(q)' PROVE OpAt(q, k)' = ScheduledOp(k)'
  <2>1. ScheduledOp(k)' = ScheduledOp(k)
    BY <1>2 DEF ScheduledOp, Before
  <2>2. Here(q) \in Nat
    BY Facts
  <2>3. k \in 1 .. Here(q) \/ (q = r /\ k = Here(r) + 1)
    BY <1>3, <2>2
  <2> QED BY <1>3, <2>1, <2>3 DEF ControlInv, OnSchedule
<1> QED BY <1>1, <1>2, <1>4, <1>5 DEF ControlInv, OnSchedule

\* A step without a call.
LEMMA ControlMove ==
  ASSUME ControlInv, NEW r \in Rank, WorkerInv(Label, Waits)',
         UNCHANGED <<entered, posted, args, fault>>,
         DOMAIN rep' = Rank, DOMAIN shard' = Rank, DOMAIN losses' = Rank,
         \A q \in Rank : q # r => pc'[q] = pc[q] /\ step'[q] = step[q] /\ losses'[q] = losses[q],
         losses'[r] = [k \in 1 .. step'[r] |-> losses'[r][k]],
         Placed(pc'[r], step'[r], Here(r))
  PROVE  ControlInv'
<1>1. Position'
  BY DEF ControlInv, Position, Placed, Before, Here
<1>2. OnSchedule'
  BY DEF ControlInv, OnSchedule, ScheduledOp, Before, OpAt, Here
<1>3. \A q \in Rank : losses'[q] = [k \in 1 .. step'[q] |-> losses'[q][k]]
  BY DEF ControlInv
<1> QED BY <1>1, <1>2, <1>3 DEF ControlInv

LEMMA ControlTrain ==
  ASSUME ControlInv, NEW r \in Rank, Train(r)
  PROVE  ControlInv'
<1>0. /\ WorkerTypeOK(Label) /\ WorkerInv(Label, Waits)
      /\ args.steps \in Nat /\ step[r] \in Nat /\ Here(r) \in Nat
      /\ pc \in [Rank -> Label] /\ step \in [Rank -> Nat]
      /\ fault \in Faults /\ DOMAIN rep = Rank /\ DOMAIN shard = Rank /\ DOMAIN losses = Rank
      /\ losses[r] = [k \in 1 .. step[r] |-> losses[r][k]]
  BY Facts DEF ControlInv
<1>p. Placed(pc[r], step[r], Here(r))
  BY DEF ControlInv, Position
<1>f. ASSUME Fail(r), UNCHANGED tpVars PROVE ControlInv'
  <2>1. WorkerInv(Label, Waits)'
    BY <1>0, <1>f, FailKeeps
  <2> QED BY <1>0, <1>f, <1>p, <2>1, ControlMove DEF Fail, tpVars
<1>c. ASSUME NEW op, NEW val, NEW next \in Waits \cap Label, Call(r, op, val, next),
             UNCHANGED tpVars, proc[r] = "running", pc[r] \in Waits => Complete(r),
             op = ScheduledOp(Here(r) + 1), Placed(next, step[r], Here(r) + 1), next # "done"
      PROVE  ControlInv'
  BY <1>0, <1>c, ControlCall DEF tpVars
<1> USE DEF At
<1>1. CASE Setup(r)
  <2>1. CASE RejectBackend(r) /\ UNCHANGED tpVars
    BY <1>f, <2>1 DEF RejectBackend
  <2>2. CASE SetupDistributed(r) /\ UNCHANGED tpVars
    <3>1. pc[r] = "start" /\ proc[r] = "running" /\ Here(r) = 0 /\ step[r] = 0
      BY <1>p, <2>2 DEF SetupDistributed, Placed
    <3>2. ScheduledOp(Here(r) + 1) = "init_process_group" /\ Placed("setup", step[r], Here(r) + 1)
      BY <3>1 DEF ScheduledOp, Placed
    <3> QED BY <1>c, <2>2, <3>1, <3>2 DEF SetupDistributed, Waits, Label
  <2> QED BY <1>1, <2>1, <2>2 DEF Setup
<1>2. CASE SyncReference(r)
  <2>1. CASE Fail(r)
    BY <1>2, <1>f, <2>1 DEF SyncReference
  <2>2. CASE Call(r, "broadcast", InitW(r), "parallelize")
    <3>1. pc[r] = "setup" /\ proc[r] = "running" /\ Here(r) = 1 /\ step[r] = 0 /\ Complete(r)
      BY <1>p, <1>2 DEF SyncReference, Placed
    <3>2. ScheduledOp(Here(r) + 1) = "broadcast" /\ Placed("parallelize", step[r], Here(r) + 1)
      BY <3>1 DEF ScheduledOp, Placed
    <3> QED BY <1>2, <1>c, <2>2, <3>1, <3>2 DEF SyncReference, Waits, Label
  <2> QED BY <1>2, <2>1, <2>2 DEF SyncReference
<1>3. CASE Parallelize(r)
  <2>1. /\ pc[r] = "parallelize" /\ proc[r] = "running" /\ Complete(r)
        /\ Here(r) = 2 /\ step[r] = 0
    BY <1>p, <1>3 DEF Parallelize, Placed
  <2>2. ScheduledOp(Here(r) + 1) = "allreduce" /\ Placed("probe", step[r], Here(r) + 1)
    BY <1>0, <2>1 DEF ScheduledOp, Placed, Before
  <2>3. PICK val : Call(r, "allreduce", val, "probe")
    BY <1>3 DEF Parallelize
  <2>4. DOMAIN rep' = Rank /\ DOMAIN shard' = Rank /\ UNCHANGED <<fault, losses>>
    BY <1>0, <1>3 DEF Parallelize
  <2>5. "probe" \in Waits \cap Label
    BY DEF Waits, Label
  <2> QED BY <2>1, <2>2, <2>3, <2>4, <2>5, ControlCall
<1>4. CASE CheckForward(r)
  <2>1. CASE Fail(r)
    BY <1>4, <1>f, <2>1 DEF CheckForward
  <2>2. CASE Advance(r, "loop")
    <3>1. pc[r] = "probe" /\ proc[r] = "running" /\ Complete(r) /\ Here(r) = 3 /\ step[r] = 0
      BY <1>p, <1>4 DEF CheckForward, Placed
    <3>2. WorkerInv(Label, Waits)'
      BY <1>0, <2>2, <3>1, AdvanceKeeps DEF Label
    <3>3. /\ pc'[r] = "loop" /\ \A q \in Rank : q # r => pc'[q] = pc[q]
          /\ UNCHANGED <<entered, posted, args, step, fault, rep, shard, losses>>
      BY <1>0, <1>4, <2>2 DEF CheckForward, Advance, Goto, tpVars
    <3>4. Placed(pc'[r], step'[r], Here(r))
      BY <3>1, <3>3 DEF Placed, Before
    <3> QED BY <1>0, <3>2, <3>3, <3>4, ControlMove
  <2> QED BY <1>4, <2>1, <2>2 DEF CheckForward
<1>5. CASE Forward(r)
  <2>1. pc[r] = "loop" /\ proc[r] = "running" /\ Here(r) = Before(step[r]) /\ step[r] < args.steps
    BY <1>p, <1>5 DEF Forward, Placed
  <2>2. ScheduledOp(Here(r) + 1) = "allreduce" /\ Placed("forward", step[r], Here(r) + 1)
    BY <1>0, <2>1 DEF ScheduledOp, Placed, Before
  <2>3. "forward" \in Waits \cap Label /\ "loop" \notin Waits
    BY DEF Waits, Label
  <2> QED BY <1>5, <1>c, <2>1, <2>2, <2>3 DEF Forward
<1>6. CASE Backward(r)
  <2>1. /\ pc[r] = "forward" /\ proc[r] = "running" /\ Complete(r)
        /\ Here(r) = Before(step[r]) + 1 /\ step[r] < args.steps
    BY <1>p, <1>6 DEF Backward, Placed
  <2>2. ScheduledOp(Here(r) + 1) = "allreduce" /\ Placed("backward", step[r], Here(r) + 1)
    BY <1>0, <2>1 DEF ScheduledOp, Placed, Before
  <2>3. "backward" \in Waits \cap Label
    BY DEF Waits, Label
  <2> QED BY <1>6, <1>c, <2>1, <2>2, <2>3 DEF Backward
<1>7. CASE OptimizerStep(r)
  <2>1. /\ pc[r] = "backward" /\ proc[r] = "running" /\ Complete(r)
        /\ Here(r) = Before(step[r]) + 2 /\ step[r] < args.steps
    BY <1>p, <1>7 DEF OptimizerStep, Placed
  <2>2. EndStep(r, "loop") /\ UNCHANGED <<entered, posted, args, fault>>
    BY <1>7 DEF OptimizerStep, Update, EndStep
  <2>3. WorkerInv(Label, Waits)'
    BY <1>0, <2>1, <2>2, EndStepKeeps DEF Label
  <2>4. /\ pc'[r] = "loop" /\ step'[r] = step[r] + 1
        /\ \A q \in Rank : q # r => pc'[q] = pc[q] /\ step'[q] = step[q]
    BY <1>0, <2>2 DEF EndStep, Goto
  <2>5. Placed(pc'[r], step'[r], Here(r))
    BY <1>0, <2>1, <2>4 DEF Placed, Before
  <2>6. DOMAIN rep' = Rank /\ DOMAIN shard' = Rank /\ DOMAIN losses' = Rank
    BY <1>0, <1>7 DEF OptimizerStep, Update
  <2>7. PICK e : /\ losses'[r] = Append(losses[r], e)
                 /\ \A q \in Rank : q # r => losses'[q] = losses[q]
    BY <1>0, <1>7 DEF OptimizerStep, Update
  <2>8. losses'[r] = [k \in 1 .. step'[r] |-> losses'[r][k]]
    BY <1>0, <2>4, <2>7, Appended
  <2> QED BY <2>2, <2>3, <2>4, <2>5, <2>6, <2>7, <2>8, ControlMove
<1>8. CASE GatherLosses(r)
  <2>1. CASE Fail(r)
    BY <1>8, <1>f, <2>1 DEF GatherLosses
  <2>2. CASE Call(r, "all_gather", losses[r], "losses")
    <3>1. /\ pc[r] = "loop" /\ proc[r] = "running"
          /\ Here(r) = Before(args.steps) /\ step[r] = args.steps
      BY <1>p, <1>8 DEF GatherLosses, Placed
    <3>2. ScheduledOp(Here(r) + 1) = "all_gather" /\ Placed("losses", step[r], Here(r) + 1)
      BY <1>0, <3>1 DEF ScheduledOp, Placed, Before
    <3>3. "losses" \in Waits \cap Label /\ "loop" \notin Waits
      BY DEF Waits, Label
    <3> QED BY <1>8, <1>c, <2>2, <3>1, <3>2, <3>3 DEF GatherLosses
  <2> QED BY <1>8, <2>1, <2>2 DEF GatherLosses
<1>9. CASE FullTensor(r)
  <2>1. /\ pc[r] = "losses" /\ proc[r] = "running" /\ Complete(r)
        /\ Here(r) = Before(args.steps) + 1 /\ step[r] = args.steps
    BY <1>p, <1>9 DEF FullTensor, Placed
  <2>2. ScheduledOp(Here(r) + 1) = "all_gather" /\ Placed("full", step[r], Here(r) + 1)
    BY <1>0, <2>1 DEF ScheduledOp, Placed, Before
  <2>3. "full" \in Waits \cap Label
    BY DEF Waits, Label
  <2> QED BY <1>9, <1>c, <2>1, <2>2, <2>3 DEF FullTensor
<1>10. CASE GatherFingerprints(r)
  <2>1. /\ pc[r] = "full" /\ proc[r] = "running" /\ Complete(r)
        /\ Here(r) = Before(args.steps) + 2 /\ step[r] = args.steps
    BY <1>p, <1>10 DEF GatherFingerprints, Placed
  <2>2. ScheduledOp(Here(r) + 1) = "all_gather" /\ Placed("gather", step[r], Here(r) + 1)
    BY <1>0, <2>1 DEF ScheduledOp, Placed, Before
  <2>3. "gather" \in Waits \cap Label
    BY DEF Waits, Label
  <2> QED BY <1>10, <1>c, <2>1, <2>2, <2>3 DEF GatherFingerprints
<1>11. CASE CheckRanks(r)
  <2>1. CASE Fail(r)
    BY <1>11, <1>f, <2>1 DEF CheckRanks
  <2>2. CASE Advance(r, AfterCheck(r))
    <3>1. pc[r] = "gather" /\ proc[r] = "running" /\ Complete(r)
      BY <1>11 DEF CheckRanks
    <3>2. AfterCheck(r) \in {"save_state", "report"}
      BY DEF AfterCheck
    <3>3. WorkerInv(Label, Waits)'
      BY <1>0, <2>2, <3>1, <3>2, AdvanceKeeps DEF Label
    <3>4. /\ pc'[r] = AfterCheck(r) /\ \A q \in Rank : q # r => pc'[q] = pc[q]
          /\ UNCHANGED <<entered, posted, args, step, fault, rep, shard, losses>>
      BY <1>0, <1>11, <2>2 DEF CheckRanks, Advance, Goto, tpVars
    <3>5. Placed(pc'[r], step'[r], Here(r))
      BY <1>p, <3>1, <3>2, <3>4 DEF Placed
    <3> QED BY <1>0, <3>3, <3>4, <3>5, ControlMove
  <2> QED BY <1>11, <2>1, <2>2 DEF CheckRanks
<1>12. CASE SaveFullState(r) \/ SaveHistory(r)
  <2>1. PICK f \in Artifact, next \in {"save_history", "report"} :
          WriteArtifact(r, f, next) /\ UNCHANGED tpVars /\ proc[r] = "running"
            /\ pc[r] \in {"save_state", "save_history"}
    BY <1>12 DEF SaveFullState, SaveHistory, Artifact
  <2>2. pc[r] \notin Waits /\ next \in Label \ {"done"}
    BY <2>1 DEF Waits, Label
  <2>3. WorkerInv(Label, Waits)'
    BY <1>0, <2>1, <2>2, WriteKeeps
  <2>4. /\ pc'[r] \in {pc[r], next} /\ \A q \in Rank : q # r => pc'[q] = pc[q]
        /\ UNCHANGED <<entered, posted, args, step, fault, rep, shard, losses>>
    BY <1>0, <2>1 DEF WriteArtifact, Goto, tpVars
  <2>5. Placed(pc'[r], step'[r], Here(r))
    BY <1>p, <2>1, <2>4 DEF Placed
  <2> QED BY <1>0, <2>3, <2>4, <2>5, ControlMove
<1>13. CASE Report(r)
  <2>1. CASE Fail(r)
    BY <1>13, <1>f, <2>1 DEF Report
  <2>2. CASE step[r] # 0 /\ Call(r, "barrier", NoVal, "barrier")
    <3>1. /\ pc[r] = "report" /\ proc[r] = "running" /\ UNCHANGED tpVars
          /\ Here(r) = Before(args.steps) + 3 /\ step[r] = args.steps /\ step[r] > 0
      BY <1>0, <1>p, <1>13, <2>2 DEF Report, Placed
    <3>2. ScheduledOp(Here(r) + 1) = "barrier" /\ Placed("barrier", step[r], Here(r) + 1)
      BY <1>0, <3>1 DEF ScheduledOp, Placed, Before
    <3>3. "report" \notin Waits /\ "barrier" \in Waits \cap Label
      BY DEF Waits, Label
    <3> QED BY <1>c, <2>2, <3>1, <3>2, <3>3
  <2> QED BY <1>13, <2>1, <2>2 DEF Report
<1>14. CASE Finish(r)
  <2>1. pc[r] = "barrier" /\ Complete(r) /\ Return(r) /\ UNCHANGED tpVars
    BY <1>14 DEF Finish
  <2>2. WorkerInv(Label, Waits)'
    BY <1>0, <2>1, ReturnKeeps DEF Label
  <2>3. /\ pc'[r] = "done" /\ \A q \in Rank : q # r => pc'[q] = pc[q]
        /\ UNCHANGED <<entered, posted, args, step, fault, rep, shard, losses>>
    BY <1>0, <2>1 DEF Return, Goto, tpVars
  <2>4. Placed(pc'[r], step'[r], Here(r))
    BY <1>p, <2>1, <2>3 DEF Placed
  <2> QED BY <1>0, <2>2, <2>3, <2>4, ControlMove
<1> QED
  BY <1>1, <1>2, <1>3, <1>4, <1>5, <1>6, <1>7, <1>8, <1>9, <1>10, <1>11, <1>12, <1>13, <1>14
  DEF Train

LEMMA ControlRuntime ==
  ASSUME ControlInv, NEW r \in Rank, Runtime(r)
  PROVE  ControlInv'
<1>1. WorkerInv(Label, Waits)' /\ UNCHANGED <<entered, posted, args, pc, step, files>>
  BY RuntimeKeeps DEF Runtime, ControlInv
<1> QED BY <1>1, ControlMove DEF Runtime, ControlInv, Position, tpVars

LEMMA ControlStuttering == ControlInv /\ UNCHANGED vars => ControlInv'
<1> SUFFICES ASSUME ControlInv, UNCHANGED vars PROVE ControlInv'
  OBVIOUS
<1>1. WorkerInv(Label, Waits)'
  BY StutterKeeps DEF ControlInv, vars, workerVars
<1> QED BY <1>1, RankZero, ControlMove DEF ControlInv, Position, vars, tpVars

\* Type correctness, the schedule of collectives and what the blocking calls
\* guarantee hold in every state of every run.
THEOREM ControlCorrect == Spec => []ControlInv
<1>1. ControlInv /\ [Next]_vars => ControlInv'
  BY ControlTrain, ControlRuntime, ControlStuttering DEF Next, Over
<1> QED BY <1>1, ControlInit, PTL DEF Spec

\* The type invariant of the runs.
THEOREM TypeCorrect == Spec => []TypeOK
<1>1. ASSUME ControlInv, NEW r \in Rank PROVE Len(losses[r]) = step[r]
  <2>1. losses[r] = [k \in 1 .. step[r] |-> losses[r][k]] /\ step[r] \in Nat
    BY <1>1, Facts DEF ControlInv
  <2> DEFINE S == {losses[r][k] : k \in 1 .. step[r]}
  <2>2. losses[r] \in [1 .. step[r] -> S]
    BY <2>1
  <2> QED BY <2>1, <2>2, IsASeq
<1>2. ControlInv => TypeOK
  BY <1>1 DEF ControlInv, WorkerInv, TypeOK
<1> QED BY <1>2, ControlCorrect, PTL

\* Every rank calls the same collectives in the same order.
THEOREM CollectivesPairUp == Spec => []SameCollectives
<1>1. ControlInv => SameCollectives
  BY Facts DEF ControlInv, OnSchedule, SameCollectives
<1> QED BY <1>1, ControlCorrect, PTL

\* A rank that has made n steps has been through the collectives of these steps,
\* and so has everyone else.
LEMMA StepsMet ==
  ASSUME ControlInv, NEW q \in Rank, NEW r \in Rank, step[q] > 0
  PROVE  Here(r) >= Before(step[q])
<1>0. /\ args.steps \in Nat /\ step[q] \in Nat /\ step[q] <= args.steps /\ Here(q) \in Nat
      /\ pc[q] \in Label
  BY Facts
<1>1. Placed(pc[q], step[q], Here(q))
  BY DEF ControlInv, Position
<1> DEFINE k == Before(step[q])
<1>2. k \in Nat /\ k >= 3 /\ k <= Before(args.steps)
  BY <1>0 DEF Before
<1>3. /\ pc[q] \in Waits => k <= Here(q) - 1
      /\ pc[q] \notin Waits => k <= Here(q)
  BY <1>0, <1>1, <1>2 DEF Placed, Waits, Before, Label
<1>4. k \in PastCalls(q, Waits) /\ k \in 1 .. Here(q)
  BY <1>0, <1>2, <1>3 DEF PastCalls
<1>5. OpAt(q, k) # "broadcast"
  BY <1>2, <1>4 DEF ControlInv, OnSchedule, ScheduledOp
<1> QED BY <1>4, <1>5 DEF ControlInv, WorkerInv, OthersEntered

\* So many collectives a rank cannot have entered before it has made its steps.
LEMMA CallsBound ==
  ASSUME ControlInv, NEW r \in Rank
  PROVE  /\ Here(r) >= Before(args.steps) + 1 => step[r] = args.steps
         /\ step[r] < args.steps => Here(r) <= Before(step[r]) + 2
         /\ ~Split(r) => Here(r) <= 2 /\ step[r] = 0
         /\ Here(r) >= Before(args.steps) + 4 => pc[r] \in {"barrier", "done"}
<1>0. /\ args.steps \in Nat /\ step[r] \in Nat /\ step[r] <= args.steps /\ Here(r) \in Nat
      /\ pc[r] \in Label
  BY Facts
<1>1. Placed(pc[r], step[r], Here(r))
  BY DEF ControlInv, Position
<1> QED BY <1>0, <1>1 DEF Placed, Before, Label, Split

\* No rank is more than one optimizer step ahead of another.
LEMMA WithinOneStep == ControlInv => Lockstep
<1> SUFFICES ASSUME ControlInv, NEW q \in Rank, NEW r \in Rank PROVE step[q] <= step[r] + 1
  BY DEF Lockstep
<1>0. /\ args.steps \in Nat /\ step[q] \in Nat /\ step[q] <= args.steps
      /\ step[r] \in Nat /\ Here(r) \in Nat
  BY Facts
<1>1. CASE step[q] = 0 \/ step[r] = args.steps
  BY <1>0, <1>1
<1>2. CASE step[q] > 0 /\ step[r] < args.steps
  <2>1. Here(r) >= Before(step[q]) /\ Here(r) <= Before(step[r]) + 2
    BY <1>2, StepsMet, CallsBound
  <2> QED BY <1>0, <2>1 DEF Before
<1> QED BY <1>0, <1>1, <1>2

THEOREM RanksInLockstep == Spec => []Lockstep
BY WithinOneStep, ControlCorrect, PTL

-----------------------------------------------------------------------------
(* The weights one process has after k steps are well defined.              *)

\* One step of one process, on the k-th batch
After(k, m) == WholeStep(m, WholeGrad(m, Sample(k)))

\* A table of the weights after each of the first n steps
Tabulates(n, f) ==
  f = [k \in 0 .. n |-> IF k = 0 THEN Whole(InitW(0)) ELSE After(k, f[k - 1])]

LEMMA TablesAgree ==
  ASSUME NEW n \in Nat, NEW m \in Nat, n <= m, NEW f, NEW g, Tabulates(n, f), Tabulates(m, g)
  PROVE  \A k \in 0 .. n : f[k] = g[k]
<1> DEFINE S == {k \in Nat : k <= n => f[k] = g[k]}
<1>1. 0 \in S
  BY DEF Tabulates
<1>2. ASSUME NEW k \in Nat, k \in S PROVE k + 1 \in S
  <2> SUFFICES ASSUME k + 1 <= n PROVE f[k + 1] = g[k + 1]
    OBVIOUS
  <2>1. k + 1 \in 0 .. n /\ k + 1 \in 0 .. m /\ k + 1 # 0 /\ (k + 1) - 1 = k
    OBVIOUS
  <2>2. f[k + 1] = After(k + 1, f[k]) /\ g[k + 1] = After(k + 1, g[k])
    BY <2>1 DEF Tabulates
  <2> QED BY <1>2, <2>2
<1>3. Nat \subseteq S
  BY <1>1, <1>2, Induction
<1> QED BY <1>3

LEMMA TablesExist == \A n \in Nat : \E f : Tabulates(n, f)
<1> DEFINE S == {n \in Nat : \E f : Tabulates(n, f)}
<1>1. 0 \in S
  <2>1. Tabulates(0, [k \in 0 .. 0 |-> Whole(InitW(0))])
    BY DEF Tabulates
  <2> QED BY <2>1
<1>2. ASSUME NEW n \in Nat, n \in S PROVE n + 1 \in S
  <2>1. PICK f : Tabulates(n, f)
    BY <1>2
  <2> DEFINE g == [k \in 0 .. n + 1 |-> IF k <= n THEN f[k] ELSE After(k, f[n])]
  <2>2. ASSUME NEW k \in 0 .. n + 1
        PROVE  g[k] = IF k = 0 THEN Whole(InitW(0)) ELSE After(k, g[k - 1])
    <3>1. CASE k = 0
      BY <2>1, <3>1 DEF Tabulates
    <3>2. CASE k # 0 /\ k <= n
      <4>1. f[k] = After(k, f[k - 1]) /\ g[k] = f[k] /\ g[k - 1] = f[k - 1]
        BY <2>1, <3>2 DEF Tabulates
      <4> QED BY <3>2, <4>1
    <3>3. CASE k = n + 1
      <4>1. g[k] = After(k, f[n]) /\ g[k - 1] = f[n]
        BY <3>3
      <4> QED BY <3>3, <4>1
    <3> QED BY <3>1, <3>2, <3>3
  <2>3. Tabulates(n + 1, g)
    BY <2>2 DEF Tabulates
  <2> QED BY <2>3
<1>3. Nat \subseteq S
  BY <1>1, <1>2, Induction
<1> QED BY <1>3

\* One process trains from its first weights, one step after the other.
LEMMA TrainedSteps ==
  /\ Trained[0] = Whole(InitW(0))
  /\ \A n \in Nat : Trained[n + 1] = After(n + 1, Trained[n])
<1> DEFINE Table(n) == CHOOSE f : Tabulates(n, f)
           all == [k \in Nat |-> Table(k)[k]]
<1>1. \A n \in Nat : Tabulates(n, Table(n))
  BY TablesExist
<1>2. all = [k \in Nat |-> all[k]] /\ \A k \in Nat : all[k] = Table(k)[k]
  OBVIOUS
<1> HIDE DEF Table, all
<1>3. ASSUME NEW k \in Nat PROVE all[k] = IF k = 0 THEN Whole(InitW(0)) ELSE After(k, all[k - 1])
  <2>1. CASE k = 0
    <3>1. Table(0)[0] = Whole(InitW(0))
      BY <1>1 DEF Tabulates
    <3> QED BY <1>2, <2>1, <3>1
  <2>2. CASE k # 0
    <3>1. k - 1 \in Nat /\ Tabulates(k, Table(k)) /\ Tabulates(k - 1, Table(k - 1))
      BY <1>1, <2>2
    <3>2. Table(k)[k - 1] = Table(k - 1)[k - 1]
      BY <3>1, TablesAgree
    <3>3. Table(k)[k] = After(k, Table(k)[k - 1])
      BY <2>2, <3>1 DEF Tabulates
    <3> QED BY <1>2, <2>2, <3>1, <3>2, <3>3
  <2> QED BY <2>1, <2>2
<1>4. \E f : f = [k \in Nat |-> IF k = 0 THEN Whole(InitW(0)) ELSE After(k, f[k - 1])]
  BY <1>2, <1>3
<1>5. Trained = [k \in Nat |-> IF k = 0 THEN Whole(InitW(0)) ELSE After(k, Trained[k - 1])]
  BY <1>4 DEF Trained, After
<1> QED BY <1>5

-----------------------------------------------------------------------------
\* Which of a rank's artifacts are whole follows from where it is.
LEMMA SavedStep ==
  ASSUME ControlInv, SavedInv, NEW r \in Rank, Train(r) \/ Runtime(r)
  PROVE  SavedInv'
<1>0. WorkerTypeOK(Label) /\ pc \in [Rank -> Label]
  BY Facts
<1>1. CASE SaveFullState(r) \/ SaveHistory(r)
  BY <1>0, <1>1, SavedWrite DEF SaveFullState, SaveHistory
<1>2. CASE ~(SaveFullState(r) \/ SaveHistory(r))
  <2>1. /\ files' = files /\ args' = args
        /\ \A q \in Rank : q # r => pc'[q] = pc[q]
    BY <1>0, <1>2
    DEF Train, Runtime, Environment, Launcher, Crash, PeerLost, KillWorker, Setup, RejectBackend,
        SetupDistributed, SyncReference, Parallelize, CheckForward, Forward, Backward,
        OptimizerStep, Update, GatherLosses, FullTensor, GatherFingerprints, CheckRanks, Report,
        Finish, Return, Call, Advance, EndStep, Fail, Goto
  <2>2. SavesNothing(pc[r], pc'[r])
    BY <1>0, <1>2
    DEF Train, Runtime, Environment, Launcher, Crash, PeerLost, KillWorker, Setup, RejectBackend,
        SetupDistributed, SyncReference, Parallelize, CheckForward, Forward, Backward,
        OptimizerStep, Update, GatherLosses, FullTensor, GatherFingerprints, CheckRanks,
        AfterCheck, Report, Finish, Return, Call, Advance, EndStep, Fail, At, Goto, SavesNothing,
        Saving
  <2> QED BY <2>1, <2>2, SavedMove
<1> QED BY <1>1, <1>2

THEOREM SavedCorrect == Spec => [](ControlInv /\ SavedInv)
<1>1. Init => SavedInv
  BY SavedStarts DEF Init
<1>2. ControlInv /\ SavedInv /\ [Next]_vars => SavedInv'
  <2>1. SavedInv /\ UNCHANGED vars => SavedInv'
    BY DEF vars, SavedInv
  <2> QED BY <2>1, SavedStep DEF Next, Over
<1>3. Spec => []SavedInv
  BY <1>1, <1>2, ControlCorrect, PTL DEF Spec
<1> QED BY <1>3, ControlCorrect, PTL

\* When a rank may return, all ranks have come to the closing barrier.
LEMMA FinishesTogether ==
  ASSUME ControlInv, NEW r \in Rank, At(r, "barrier"), Complete(r)
  PROVE  \A q \in Rank : pc[q] \in {"barrier", "done"}
<1>0. args.steps \in Nat /\ Here(r) \in Nat
  BY Facts
<1>1. Here(r) = Before(args.steps) + 4
  BY DEF At, ControlInv, Position, Placed
<1>2. OpAt(r, Here(r)) # "broadcast"
  BY <1>0, <1>1 DEF ControlInv, OnSchedule, ScheduledOp, Before
<1> QED BY <1>1, <1>2, MeetingOfAll, CallsBound

\* Seen by the notebook, the run is a job of Launch: whatever its ranks and the
\* environment do, return code 0 means whole files of this run from every rank.
THEOREM KeepsLaunchContract == Spec => LaunchContract
<1>1. ASSUME ControlInv, SavedInv, [Next]_vars
      PROVE  [Contract!LaunchNext]_(Contract!launchVars)
  <2>1. CASE UNCHANGED vars
    BY <2>1 DEF vars, Contract!launchVars
  <2>2. ASSUME NEW r \in Rank, Train(r) \/ Runtime(r)
        PROVE  Contract!LaunchNext \/ UNCHANGED Contract!launchVars
    <3>1. CASE Runtime(r)
      <4>1. proc[r] = "running"
        BY <3>1 DEF Runtime, Environment, Launcher, Crash, PeerLost, KillWorker
      <4> QED BY <3>1, <4>1, ContractDies DEF Runtime
    <3>2. CASE SaveFullState(r) \/ SaveHistory(r)
      BY <1>1, <3>2, ContractWrites DEF SaveFullState, SaveHistory
    <3>3. CASE Finish(r)
      BY <1>1, <3>3, FinishesTogether, ContractEnds DEF Finish
    <3>4. CASE Fail(r) /\ proc[r] = "running"
      BY <3>4, ContractDies
    <3>5. CASE \/ Setup(r) \/ SyncReference(r) \/ Parallelize(r) \/ CheckForward(r)
               \/ Forward(r) \/ Backward(r) \/ OptimizerStep(r) \/ GatherLosses(r)
               \/ FullTensor(r) \/ GatherFingerprints(r) \/ CheckRanks(r) \/ Report(r)
      <4>1. UNCHANGED <<args, files>>
        BY <3>5
        DEF Setup, RejectBackend, SetupDistributed, SyncReference, Parallelize, CheckForward,
            Forward, Backward, OptimizerStep, Update, GatherLosses, FullTensor,
            GatherFingerprints, CheckRanks, Report, Call, Advance, EndStep, Fail
      <4>2. UNCHANGED proc \/ (Fail(r) /\ proc[r] = "running")
        BY <3>5
        DEF Setup, RejectBackend, SetupDistributed, SyncReference, Parallelize, CheckForward,
            Forward, Backward, OptimizerStep, Update, GatherLosses, FullTensor,
            GatherFingerprints, CheckRanks, Report, Call, Advance, EndStep, At
      <4> QED BY <4>1, <4>2, <3>4 DEF Contract!launchVars
    <3> QED BY <2>2, <3>1, <3>2, <3>3, <3>5 DEF Train
  <2> QED BY <1>1, <2>1, <2>2 DEF Next, Over
<1>2. Init => Contract!LaunchInit
  BY ContractStarts DEF Init
<1> QED BY <1>1, <1>2, SavedCorrect, PTL DEF Spec, LaunchContract, Contract!LaunchSpec

-----------------------------------------------------------------------------
\* A rank's step leaves the other ranks, and what has been posted, alone.
LEMMA Frame ==
  ASSUME ControlInv, NEW r \in Rank, Train(r) \/ Runtime(r)
  PROVE  /\ UNCHANGED <<args, fault>>
         /\ \A q \in Rank : q # r => /\ pc'[q] = pc[q] /\ step'[q] = step[q]
                                     /\ rep'[q] = rep[q] /\ shard'[q] = shard[q]
                                     /\ losses'[q] = losses[q] /\ Here(q)' = Here(q)
         /\ Here(r)' \in {Here(r), Here(r) + 1}
         /\ \A q \in Rank : \A k \in 1 .. Here(q) : ValAt(q, k)' = ValAt(q, k)
<1>0. /\ WorkerTypeOK(Label) /\ pc \in [Rank -> Label] /\ step \in [Rank -> Nat]
      /\ DOMAIN rep = Rank /\ DOMAIN shard = Rank /\ DOMAIN losses = Rank
  BY Facts DEF ControlInv
<1>1. ASSUME NEW op, NEW val, NEW next, Call(r, op, val, next)
      PROVE  /\ UNCHANGED <<args, step>>
             /\ \A q \in Rank : q # r => pc'[q] = pc[q]
             /\ Here(r)' = Here(r) + 1
             /\ \A q \in Rank : q # r => Here(q)' = Here(q)
             /\ \A q \in Rank : \A k \in 1 .. Here(q) : ValAt(q, k)' = ValAt(q, k)
  <2>1. UNCHANGED <<args, step>>
    BY <1>1 DEF Call
  <2>2. \A q \in Rank : q # r => pc'[q] = pc[q]
    BY <1>0, <1>1 DEF Call, Goto
  <2> QED BY <1>0, <1>1, <2>1, <2>2, CallOps
<1>2. ASSUME UNCHANGED <<entered, posted>>
      PROVE  \A q \in Rank : /\ Here(q)' = Here(q)
                             /\ \A k \in 1 .. Here(q) : ValAt(q, k)' = ValAt(q, k)
  BY <1>2 DEF Here, ValAt
<1>3. CASE Runtime(r)
  BY <1>2, <1>3 DEF Runtime, Environment, Launcher, Crash, PeerLost, KillWorker, tpVars
<1>4. CASE (\E op, val, next : Call(r, op, val, next)) /\ UNCHANGED tpVars
  BY <1>1, <1>4 DEF tpVars
<1>5. CASE Fail(r) /\ UNCHANGED tpVars
  BY <1>2, <1>5 DEF Fail, tpVars
<1>6. CASE Setup(r) \/ SyncReference(r) \/ GatherLosses(r) \/ Report(r)
  BY <1>4, <1>5, <1>6 DEF Setup, RejectBackend, SetupDistributed, SyncReference, GatherLosses, Report
<1>7. CASE Forward(r) \/ Backward(r) \/ FullTensor(r) \/ GatherFingerprints(r)
  BY <1>4, <1>7 DEF Forward, Backward, FullTensor, GatherFingerprints
<1>8. CASE Parallelize(r)
  <2>1. \E op, val, next : Call(r, op, val, next)
    BY <1>8 DEF Parallelize
  <2>2. /\ UNCHANGED <<fault, losses>>
        /\ \A q \in Rank : q # r => rep'[q] = rep[q] /\ shard'[q] = shard[q]
    BY <1>0, <1>8 DEF Parallelize
  <2> QED BY <1>1, <2>1, <2>2
<1>9. CASE OptimizerStep(r)
  BY <1>0, <1>2, <1>9 DEF OptimizerStep, Update, EndStep, Goto
<1>10. CASE CheckForward(r) \/ CheckRanks(r) \/ SaveFullState(r) \/ SaveHistory(r) \/ Finish(r)
  BY <1>0, <1>2, <1>10 DEF CheckForward, CheckRanks, SaveFullState, SaveHistory, Finish, Fail,
                           Advance, WriteArtifact, Return, Goto, tpVars
<1> QED BY <1>3, <1>6, <1>7, <1>8, <1>9, <1>10 DEF Train

\* A call shows the others what it brings, and leaves what they have seen.
LEMMA ShownCall ==
  ASSUME ControlInv, Shown, NEW r \in Rank, NEW op, NEW val, NEW next, Call(r, op, val, next),
         UNCHANGED fault, Brings(r, Here(r) + 1, val)
  PROVE  Shown'
<1>0. WorkerTypeOK(Label) /\ \A q \in Rank : Here(q) \in Nat
  BY Facts
<1>1. /\ Here(r)' = Here(r) + 1
      /\ \A k : k = Here(r) + 1 => ValAt(r, k)' = val
      /\ \A q \in Rank : q # r => Here(q)' = Here(q)
      /\ \A q \in Rank : \A k \in 1 .. Here(q) : ValAt(q, k)' = ValAt(q, k)
  BY <1>0, CallOps
<1>2. \A q, k, v : Brings(q, k, v)' <=> Brings(q, k, v)
  BY DEF Call, Brings, Sound
<1>3. ASSUME NEW q \in Rank, NEW k \in 1 .. Here(q)', NEW v, v = ValAt(q, k)'
      PROVE  Brings(q, k, v)
  <2>1. CASE k \in 1 .. Here(q)
    BY <1>1, <1>3, <2>1 DEF Shown
  <2>2. CASE k \notin 1 .. Here(q)
    <3>1. q = r /\ k = Here(r) + 1
      BY <1>0, <1>1, <2>2
    <3> QED BY <1>1, <1>3, <3>1
  <2> QED BY <2>1, <2>2
<1> QED BY <1>2, <1>3 DEF Shown

LEMMA ShownMove ==
  ASSUME ControlInv, Shown, UNCHANGED <<entered, posted, args, fault>>
  PROVE  Shown'
BY DEF Shown, Brings, Sound, Here, ValAt

\* With sound allreduces a pass gets the parts of all ranks.
LEMMA SummedIsGathered ==
  ASSUME Sound, NEW r \in Rank, NEW pass \in {"forward", "backward"}
  PROVE  Summed(r, pass) = Gathered(r)
<1>1. CASE WorldSize = 1
  <2>1. \A q \in Rank : q = r
    BY <1>1 DEF Rank
  <2> QED BY <2>1 DEF Summed, Gathered
<1> QED BY <1>1 DEF Sound, Summed

\* In the middle of a step, all ranks have come as far as this one.
LEMMA PassMeets ==
  ASSUME ControlInv, NEW r \in Rank, pc[r] \in {"forward", "backward"}, Complete(r)
  PROVE  /\ step[r] \in 0 .. args.steps - 1
         /\ pc[r] = "forward" => Here(r) = Before(step[r]) + 1
         /\ pc[r] = "backward" => Here(r) = Before(step[r]) + 2
         /\ Here(r) \in Nat
         /\ \A q \in Rank : Here(r) \in 1 .. Here(q)
<1>0. /\ args.steps \in Nat /\ step[r] \in Nat /\ \A q \in Rank : Here(q) \in Nat
      /\ Placed(pc[r], step[r], Here(r))
  BY Facts DEF ControlInv, Position
<1>1. step[r] < args.steps /\ Here(r) \in {Before(step[r]) + 1, Before(step[r]) + 2}
  BY <1>0 DEF Placed
<1>2. OpAt(r, Here(r)) # "broadcast"
  BY <1>0, <1>1 DEF ControlInv, OnSchedule, ScheduledOp, Before
<1>3. \A q \in Rank : Here(q) >= Here(r)
  BY <1>2, MeetingOfAll
<1> QED BY <1>0, <1>1, <1>3 DEF Placed, Before

LEMMA ForwardIsRight ==
  ASSUME ControlInv, Shown, Sound, NEW r \in Rank, pc[r] = "forward", Complete(r)
  PROVE  ForwardOutput(r) = LogitsAt(step[r])
<1> DEFINE n == step[r]
           m == Trained[n]
<1>1. /\ n \in 0 .. args.steps - 1 /\ Here(r) = Before(n) + 1
      /\ \A q \in Rank : Here(r) \in 1 .. Here(q)
  BY PassMeets
<1>2. \A q \in Rank : ValAt(q, Here(r)) = ForwardPart(m.rep, m.shard[q], Sample(n + 1))
  BY <1>1 DEF Shown, Brings
<1>3. Summed(r, "forward") = [q \in Rank |-> ForwardPart(m.rep, m.shard[q], Sample(n + 1))]
  BY <1>2, SummedIsGathered DEF Gathered
<1>4. /\ ValAt(r, Here(r)).rep = m.rep /\ ValAt(r, Here(r)).x = Sample(n + 1)
  BY <1>2 DEF ForwardPart
<1> QED BY <1>3, <1>4 DEF ForwardOutput, LogitsAt, WholeLogits

LEMMA GradIsRight ==
  ASSUME ControlInv, Shown, Sound, NEW r \in Rank, pc[r] = "backward", Complete(r)
  PROVE  /\ LocalGrad(r) = WholeGrad(Trained[step[r]], Sample(step[r] + 1))
         /\ ValAt(r, Here(r)).out = LogitsAt(step[r])
<1> DEFINE n == step[r]
<1>1. /\ n \in 0 .. args.steps - 1 /\ Here(r) = Before(n) + 2
      /\ \A q \in Rank : Here(r) \in 1 .. Here(q)
  BY PassMeets
<1>2. \A q \in Rank : ValAt(q, Here(r)) = BackwardPart(q, LogitsAt(n))
  BY <1>1 DEF Shown, Brings
<1>3. Summed(r, "backward") = [q \in Rank |-> BackwardPart(q, LogitsAt(n))]
  BY <1>2, SummedIsGathered DEF Gathered
<1>4. ValAt(r, Here(r)).out = LogitsAt(n)
  BY <1>2 DEF BackwardPart
<1> QED BY <1>3, <1>4 DEF LocalGrad, LogitsAt, WholeGrad

\* What rank r computes from what it gets is its part of the next weights.
LEMMA UpdateIsPart ==
  ASSUME NEW n \in Nat, NEW r \in Rank,
         NEW g, g = WholeGrad(Trained[n], Sample(n + 1))
  PROVE  /\ Trained[n + 1].rep = ApplyPart("rep", Trained[n].rep, g)
         /\ Trained[n + 1].shard[r] = ApplyPart(r, Trained[n].shard[r], g)
<1>1. Trained[n + 1] = After(n + 1, Trained[n])
  BY TrainedSteps
<1>2. Trained[n + 1] = WholeStep(Trained[n], g)
  BY <1>1 DEF After
<1> QED BY <1>2 DEF WholeStep

LEMMA TrainStart == Init => TrainInv
<1> SUFFICES ASSUME Init PROVE TrainInv
  OBVIOUS
<1>1. \A r \in Rank : ~Split(r) /\ Here(r) = 0
  BY DEF Init, WorkerInit, CommInit, Split, Here
<1> QED BY <1>1, ControlInit DEF TrainInv, Shown, HasTrained

\* The first parts a rank has are those of rank 0's weights.
LEMMA FirstParts ==
  ASSUME TrainInv, NEW r \in Rank, Parallelize(r)
  PROVE  Shown' /\ HasTrained'
<1> USE DEF TrainInv
<1>0. /\ pc \in [Rank -> Label] /\ DOMAIN rep = Rank /\ DOMAIN shard = Rank
      /\ losses[r] = [k \in 1 .. step[r] |-> losses[r][k]]
      /\ Placed(pc[r], step[r], Here(r)) /\ args.steps \in Nat
  BY Facts DEF ControlInv, Position
<1>1. pc[r] = "parallelize" /\ Here(r) = 2 /\ step[r] = 0 /\ Complete(r)
  BY <1>0 DEF Parallelize, At, Placed
<1>2. SyncedWeights(r) = InitW(0)
  <2>1. OpAt(r, 2) = "broadcast"
    BY <1>1 DEF ControlInv, OnSchedule, ScheduledOp
  <2>2. Here(0) >= 2 /\ Here(0) \in Nat
    BY <1>1, <2>1, RankZero, Facts DEF Complete, Met
  <2>3. Brings(0, 2, ValAt(0, 2))
    BY <2>2, RankZero DEF Shown
  <2> QED BY <1>1, <2>3 DEF SyncedWeights, FromRank0, Brings
<1>3. /\ rep' = [rep EXCEPT ![r] = RepOf(InitW(0))]
      /\ shard' = [shard EXCEPT ![r] = ShardOf(InitW(0), r)]
      /\ Call(r, "allreduce", ForwardPart(RepOf(InitW(0)), ShardOf(InitW(0), r), Sample(0)), "probe")
      /\ UNCHANGED <<fault, losses>>
  BY <1>2 DEF Parallelize
<1>4. Brings(r, Here(r) + 1, ForwardPart(RepOf(InitW(0)), ShardOf(InitW(0), r), Sample(0)))
  BY <1>1 DEF Brings, Before
<1>5. Shown'
  BY <1>3, <1>4, ShownCall
<1>6. step' = step /\ args' = args
  BY <1>3 DEF Call
<1>7. /\ Trained[0].rep = RepOf(InitW(0)) /\ Trained[0].shard[r] = ShardOf(InitW(0), r)
  BY TrainedSteps DEF Whole
<1>8. \A q \in Rank : q # r => (Split(q)' <=> Split(q))
  BY <1>0, <1>3 DEF Call, Goto, Split
<1>9. losses[r] = [k \in 1 .. step[r] |-> LogitsAt(k - 1)]
  BY <1>0, <1>1
<1>10. ASSUME Sound', NEW q \in Rank, Split(q)'
       PROVE  /\ rep'[q] = Trained[step'[q]].rep /\ shard'[q] = Trained[step'[q]].shard[q]
              /\ losses'[q] = [k \in 1 .. step'[q] |-> LogitsAt(k - 1)]
  <2>1. Sound
    BY <1>3, <1>10 DEF Sound
  <2>2. CASE q = r
    BY <1>0, <1>1, <1>3, <1>6, <1>7, <1>9, <2>2
  <2>3. CASE q # r
    BY <1>0, <1>3, <1>6, <1>8, <1>10, <2>1, <2>3 DEF HasTrained
  <2> QED BY <2>2, <2>3
<1>11. HasTrained'
  BY <1>10 DEF HasTrained
<1> QED BY <1>5, <1>11

LEMMA PartsUpdated ==
  ASSUME TrainInv, NEW r \in Rank, OptimizerStep(r)
  PROVE  Shown' /\ HasTrained'
<1> USE DEF TrainInv
<1>0. /\ pc \in [Rank -> Label] /\ DOMAIN rep = Rank /\ DOMAIN shard = Rank
      /\ DOMAIN losses = Rank /\ step \in [Rank -> Nat]
      /\ losses[r] = [k \in 1 .. step[r] |-> losses[r][k]]
  BY Facts DEF ControlInv
<1>1. pc[r] = "backward" /\ Complete(r) /\ Split(r) /\ step[r] \in Nat
  BY <1>0 DEF OptimizerStep, At, Split
<1>2. /\ rep' = [rep EXCEPT ![r] = ApplyPart("rep", @, LocalGrad(r))]
      /\ shard' = [shard EXCEPT ![r] = ApplyPart(r, @, LocalGrad(r))]
      /\ losses' = [losses EXCEPT ![r] = Append(@, ValAt(r, Here(r)).out)]
      /\ step' = [step EXCEPT ![r] = @ + 1] /\ pc' = [pc EXCEPT ![r] = "loop"]
      /\ UNCHANGED <<entered, posted, args, fault>>
  BY DEF OptimizerStep, Update, EndStep, Goto
<1>3. Shown'
  BY <1>2, ShownMove
<1>4. \A q \in Rank : q # r => (Split(q)' <=> Split(q))
  BY <1>0, <1>2 DEF Split
<1>5. ASSUME Sound', NEW q \in Rank, Split(q)'
      PROVE  /\ rep'[q] = Trained[step'[q]].rep /\ shard'[q] = Trained[step'[q]].shard[q]
             /\ losses'[q] = [k \in 1 .. step'[q] |-> LogitsAt(k - 1)]
  <2>1. Sound
    BY <1>2, <1>5 DEF Sound
  <2>2. CASE q = r
    <3>1. PICK n \in Nat : n = step[r]
      BY <1>1
    <3>2. /\ rep[r] = Trained[n].rep /\ shard[r] = Trained[n].shard[r]
          /\ losses[r] = [k \in 1 .. n |-> LogitsAt(k - 1)]
      BY <1>1, <2>1, <3>1 DEF HasTrained
    <3>3. PICK g : g = WholeGrad(Trained[n], Sample(n + 1))
      OBVIOUS
    <3>4. LocalGrad(r) = g /\ ValAt(r, Here(r)).out = LogitsAt(n)
      BY <1>1, <2>1, <3>1, <3>3, GradIsRight
    <3>5. step'[r] = n + 1
      BY <1>0, <1>2, <3>1
    <3>6. rep'[r] = ApplyPart("rep", rep[r], g) /\ shard'[r] = ApplyPart(r, shard[r], g)
      BY <1>0, <1>2, <3>4
    <3>7. losses'[r] = [k \in 1 .. n + 1 |-> IF k <= n THEN losses[r][k] ELSE LogitsAt(n)]
      <4>1. losses'[r] = Append(losses[r], LogitsAt(n))
        BY <1>0, <1>2, <3>4
      <4>2. losses[r] = [k \in 1 .. n |-> losses[r][k]]
        BY <1>0, <3>1
      <4> QED BY <4>1, <4>2, Appended
    <3>8. \A k \in 1 .. n + 1 : (IF k <= n THEN losses[r][k] ELSE LogitsAt(n)) = LogitsAt(k - 1)
      <4>1. ASSUME NEW k \in 1 .. n + 1, ~(k <= n) PROVE k - 1 = n
        BY <4>1
      <4> QED BY <3>2, <4>1
    <3>9. losses'[r] = [k \in 1 .. n + 1 |-> LogitsAt(k - 1)]
      BY <3>7, <3>8
    <3> QED BY <2>2, <3>2, <3>3, <3>5, <3>6, <3>9, UpdateIsPart
  <2>3. CASE q # r
    BY <1>0, <1>2, <1>4, <1>5, <2>1, <2>3 DEF HasTrained
  <2> QED BY <2>2, <2>3
<1>6. HasTrained'
  BY <1>5 DEF HasTrained
<1> QED BY <1>3, <1>6

\* The other steps leave the parts a rank has alone.
Quiet(r) ==
  \/ Setup(r) \/ SyncReference(r) \/ CheckForward(r) \/ Forward(r) \/ Backward(r)
  \/ GatherLosses(r) \/ FullTensor(r) \/ GatherFingerprints(r) \/ CheckRanks(r)
  \/ SaveFullState(r) \/ SaveHistory(r) \/ Report(r) \/ Finish(r) \/ Runtime(r)

LEMMA QuietStep ==
  ASSUME ControlInv, NEW r \in Rank, Quiet(r)
  PROVE  /\ UNCHANGED <<args, step, rep, shard, losses, fault>>
         /\ Split(r)' => Split(r) \/ CheckForward(r)
         /\ \A q \in Rank : q # r => (Split(q)' <=> Split(q))
         /\ pc[r] = "probe" => Split(r)
<1>0. pc \in [Rank -> Label]
  BY Facts
<1>1. UNCHANGED <<args, step, rep, shard, losses, fault>>
  BY DEF Quiet, Runtime, Environment, Launcher, Crash, PeerLost, KillWorker, Setup, RejectBackend,
      SetupDistributed, SyncReference, CheckForward, Forward, Backward, GatherLosses, FullTensor,
      GatherFingerprints, CheckRanks, SaveFullState, SaveHistory, WriteArtifact, Report, Finish,
      Return, Call, Advance, Fail, tpVars
<1>2. Split(r)' => Split(r) \/ CheckForward(r)
  BY <1>0
  DEF Quiet, Runtime, Environment, Launcher, Crash, PeerLost, KillWorker, Setup, RejectBackend,
      SetupDistributed, SyncReference, Forward, Backward, GatherLosses, FullTensor,
      GatherFingerprints, CheckRanks, SaveFullState, SaveHistory, WriteArtifact, Report, Finish,
      Return, Call, Advance, Fail, Goto, At, Split
<1>3. \A q \in Rank : q # r => (Split(q)' <=> Split(q))
  BY Frame DEF Split, Quiet, Train
<1> QED BY <1>1, <1>2, <1>3 DEF Split

LEMMA TrainQuiet ==
  ASSUME TrainInv, NEW r \in Rank, Quiet(r)
  PROVE  Shown' /\ HasTrained'
<1> USE DEF TrainInv
<1>0. /\ args.steps \in Nat /\ step[r] \in Nat /\ Here(r) \in Nat
      /\ Placed(pc[r], step[r], Here(r))
  BY Facts DEF ControlInv, Position
<1>1. /\ UNCHANGED <<args, step, rep, shard, losses, fault>>
      /\ Split(r)' => Split(r) \/ CheckForward(r)
      /\ \A q \in Rank : q # r => (Split(q)' <=> Split(q))
      /\ pc[r] = "probe" => Split(r)
  BY QuietStep
<1>2. \A q \in Rank : Split(q)' => Split(q)
  BY <1>1 DEF CheckForward, At
<1>3. HasTrained'
  BY <1>1, <1>2 DEF HasTrained, Sound
<1> SUFFICES Shown'
  BY <1>3
<1>4. ASSUME UNCHANGED <<entered, posted>> PROVE Shown'
  BY <1>1, <1>4, ShownMove
<1>5. ASSUME NEW op, NEW val, NEW next, Call(r, op, val, next), Brings(r, Here(r) + 1, val)
      PROVE  Shown'
  BY <1>1, <1>5, ShownCall
\* What comes before the first step and what comes after the last one
<1>6. ASSUME NEW val, Here(r) = 0 \/ Here(r) >= Before(args.steps)
      PROVE  Brings(r, Here(r) + 1, val)
  BY <1>0, <1>6 DEF Brings, Before
<1> USE DEF At
<1>7. CASE Setup(r)
  <2>1. CASE \E op, val, next : Call(r, op, val, next) /\ pc[r] = "start"
    BY <1>0, <1>5, <1>6, <2>1 DEF Placed
  <2>2. CASE Fail(r)
    BY <1>4, <2>2 DEF Fail
  <2> QED BY <1>7, <2>1, <2>2 DEF Setup, RejectBackend, SetupDistributed
<1>8. CASE SyncReference(r)
  <2>1. CASE Call(r, "broadcast", InitW(r), "parallelize")
    <3>1. Here(r) = 1
      BY <1>0, <1>8 DEF SyncReference, Placed
    <3>2. Brings(r, Here(r) + 1, InitW(r))
      BY <1>0, <3>1 DEF Brings, Before
    <3> QED BY <1>5, <2>1, <3>2
  <2>2. CASE Fail(r)
    BY <1>4, <2>2 DEF Fail
  <2> QED BY <1>8, <2>1, <2>2 DEF SyncReference
<1>9. CASE Forward(r)
  <2>1. /\ pc[r] = "loop" /\ Here(r) = Before(step[r]) /\ step[r] < args.steps
        /\ Call(r, "allreduce", ForwardPart(rep[r], shard[r], Sample(step[r] + 1)), "forward")
    BY <1>0, <1>9 DEF Forward, Placed, NextBatch
  <2>2. Split(r)
    BY <2>1 DEF Split
  <2>3. ASSUME NEW n \in 0 .. args.steps - 1
        PROVE  /\ Here(r) + 1 # 2 /\ Here(r) + 1 # 3
               /\ Here(r) + 1 = Before(n) + 1 => n = step[r]
               /\ Here(r) + 1 # Before(n) + 2
    BY <1>0, <2>1 DEF Before
  <2>4. step[r] \in 0 .. args.steps - 1
    BY <1>0, <2>1
  <2>5. Brings(r, Here(r) + 1, ForwardPart(rep[r], shard[r], Sample(step[r] + 1)))
    BY <2>2, <2>3, <2>4 DEF Brings, HasTrained
  <2> QED BY <1>5, <2>1, <2>5
<1>10. CASE Backward(r)
  <2>1. /\ pc[r] = "forward" /\ Complete(r)
        /\ Call(r, "allreduce", BackwardPart(r, ForwardOutput(r)), "backward")
    BY <1>10 DEF Backward
  <2>2. Here(r) = Before(step[r]) + 1 /\ step[r] \in 0 .. args.steps - 1
    BY <2>1, PassMeets
  <2>3. ASSUME NEW n \in 0 .. args.steps - 1
        PROVE  /\ Here(r) + 1 # 2 /\ Here(r) + 1 # 3
               /\ Here(r) + 1 # Before(n) + 1
               /\ Here(r) + 1 = Before(n) + 2 => n = step[r]
    BY <1>0, <2>2 DEF Before
  <2>4. Sound => ForwardOutput(r) = LogitsAt(step[r])
    BY <2>1, ForwardIsRight
  <2>5. BackwardPart(r, ForwardOutput(r)).out = ForwardOutput(r)
    BY DEF BackwardPart
  <2>6. Brings(r, Here(r) + 1, BackwardPart(r, ForwardOutput(r)))
    BY <2>2, <2>3, <2>4, <2>5 DEF Brings
  <2> QED BY <1>5, <2>1, <2>6
<1>11. CASE GatherLosses(r) \/ FullTensor(r) \/ GatherFingerprints(r) \/ Report(r)
  <2>1. Here(r) >= Before(args.steps)
    BY <1>0, <1>11 DEF GatherLosses, FullTensor, GatherFingerprints, Report, Placed, Before
  <2>2. CASE \E op, val, next : Call(r, op, val, next)
    BY <1>5, <1>6, <2>1, <2>2
  <2>3. CASE Fail(r)
    BY <1>4, <2>3 DEF Fail
  <2> QED BY <1>11, <2>2, <2>3 DEF GatherLosses, FullTensor, GatherFingerprints, Report
<1>12. CASE CheckForward(r) \/ CheckRanks(r) \/ SaveFullState(r) \/ SaveHistory(r) \/ Finish(r)
            \/ Runtime(r)
  <2>1. UNCHANGED <<entered, posted>>
    BY <1>12 DEF CheckForward, CheckRanks, SaveFullState, SaveHistory, Finish, Runtime, Fail,
                 Advance, WriteArtifact, Return, Environment, Launcher, Crash, PeerLost, KillWorker
  <2> QED BY <1>4, <2>1
<1> QED BY <1>7, <1>8, <1>9, <1>10, <1>11, <1>12 DEF Quiet

LEMMA TrainStep ==
  ASSUME TrainInv, NEW r \in Rank, Train(r) \/ Runtime(r)
  PROVE  TrainInv'
<1>1. ControlInv'
  BY ControlTrain, ControlRuntime DEF TrainInv
<1>2. Shown' /\ HasTrained'
  BY FirstParts, PartsUpdated, TrainQuiet DEF Train, Quiet
<1> QED BY <1>1, <1>2 DEF TrainInv

LEMMA TrainStuttering == TrainInv /\ UNCHANGED vars => TrainInv'
<1> SUFFICES ASSUME TrainInv, UNCHANGED vars PROVE TrainInv'
  OBVIOUS
<1>1. Shown'
  BY ShownMove DEF TrainInv, vars, tpVars
<1> QED BY <1>1, ControlStuttering DEF TrainInv, vars, tpVars, HasTrained, Sound, Split

\* With sound allreduces every rank has, at every point of its training, its
\* part of the weights one process would have there.
THEOREM TrainCorrect == Spec => []TrainInv
<1>1. TrainInv /\ [Next]_vars => TrainInv'
  BY TrainStep, TrainStuttering DEF Next, Over
<1> QED BY <1>1, TrainStart, PTL DEF Spec

\* The ranks see one run.
THEOREM ReplicasInSync == Spec => []ReplicatedInSync
<1>1. TrainInv => ReplicatedInSync
  BY DEF TrainInv, HasTrained, Sound, ReplicatedInSync
<1> QED BY <1>1, TrainCorrect, PTL

-----------------------------------------------------------------------------
\* With a broken forward pass, rank 0 sees on the probe batch that it is broken.
LEMMA ProbeFails ==
  ASSUME ProbeTells, TrainInv, fault = "forward", WorldSize > 1, pc[0] = "probe"
  PROVE  ~ProbeMatches(0)
<1> DEFINE part == ForwardPart(RepOf(InitW(0)), ShardOf(InitW(0), 0), Sample(0))
<1>1. Here(0) = 3
  BY RankZero DEF TrainInv, ControlInv, Position, Placed
<1>2. ValAt(0, 2) = InitW(0) /\ ValAt(0, 3) = part
  <2>1. Brings(0, 2, ValAt(0, 2)) /\ Brings(0, 3, ValAt(0, 3))
    BY <1>1, RankZero DEF TrainInv, Shown
  <2> QED BY <2>1 DEF Brings
<1>3. Summed(0, "forward") = [q \in Rank |-> part]
  BY <1>1, <1>2 DEF Summed
<1>4. ForwardOutput(0) = Logits(part.rep, part.x, [q \in Rank |-> part])
  BY <1>1, <1>2, <1>3 DEF ForwardOutput
<1>5. ValAt(0, Here(0) - 1) = InitW(0)
  BY <1>1, <1>2
<1> QED BY <1>4, <1>5 DEF ProbeTells, ProbeMatches

LEMMA ProbeStep ==
  ASSUME ProbeTells, TrainInv, StoppedAtProbe, NEW r \in Rank, Train(r) \/ Runtime(r)
  PROVE  StoppedAtProbe'
<1> USE DEF TrainInv
<1> SUFFICES ASSUME fault = "forward", WorldSize > 1
             PROVE  pc'[0] \in {"start", "setup", "parallelize", "probe"}
  BY Frame DEF StoppedAtProbe
<1>0. pc \in [Rank -> Label] /\ pc[0] \in {"start", "setup", "parallelize", "probe"}
  BY Facts DEF StoppedAtProbe
<1>1. CASE r # 0
  BY <1>0, <1>1, Frame, RankZero
<1>2. CASE r = 0
  <2>1. CASE CheckForward(0)
    <3>1. Fail(0)
      BY <2>1, ProbeFails DEF CheckForward, At
    <3> QED BY <1>0, <3>1 DEF Fail
  <2>2. CASE ~CheckForward(0)
    BY <1>0, <1>2, <2>2
    DEF Train, Runtime, Environment, Launcher, Crash, PeerLost, KillWorker, Setup, RejectBackend,
        SetupDistributed, SyncReference, Parallelize, Forward, Backward, OptimizerStep,
        GatherLosses, FullTensor, GatherFingerprints, CheckRanks, SaveFullState, SaveHistory,
        Report, Finish, Call, Fail, Goto, At
  <2> QED BY <2>1, <2>2
<1> QED BY <1>1, <1>2

\* With a broken backward pass, every update is with a rank's own gradients.
LEMMA OwnUpdatesStep ==
  ASSUME TrainInv, OwnUpdates, NEW r \in Rank, Train(r) \/ Runtime(r)
  PROVE  OwnUpdates'
<1> USE DEF TrainInv
<1> SUFFICES ASSUME fault = "backward", WorldSize > 1, NEW q \in Rank, step'[q] > 0
             PROVE  OwnUpdate(q, rep'[q])
  BY Frame DEF OwnUpdates, OwnUpdate
<1>0. DOMAIN rep = Rank
  BY DEF ControlInv
<1>1. CASE OptimizerStep(r) /\ q = r
  <2>1. pc[r] = "backward" /\ Complete(r)
    BY <1>1 DEF OptimizerStep, At
  <2>2. PICK n \in 0 .. args.steps - 1 : n = step[r] /\ Here(r) = Before(n) + 2 /\ Here(r) \in 1 .. Here(r)
    BY <2>1, PassMeets
  <2>3. PICK out : out = ValAt(r, Here(r)).out
    OBVIOUS
  <2>4. ~Sound
    BY DEF Sound
  <2>5. ValAt(r, Here(r)) = BackwardPart(r, out)
    BY <2>2, <2>3, <2>4 DEF Shown, Brings
  <2>6. LocalGrad(r) = Grad(out, [p \in Rank |-> BackwardPart(r, out)])
    BY <2>3, <2>5 DEF LocalGrad, Summed
  <2>7. rep'[r] = ApplyPart("rep", rep[r], LocalGrad(r))
    BY <1>0, <1>1 DEF OptimizerStep, Update
  <2> QED BY <1>1, <2>6, <2>7 DEF OwnUpdate
<1>2. CASE Parallelize(r) /\ q = r
  <2>1. step' = step /\ step[r] = 0
    BY <1>2 DEF Parallelize, Call, At, ControlInv, Position, Placed
  <2> QED BY <1>2, <2>1
<1>3. CASE q # r
  BY <1>3, Frame DEF OwnUpdates
<1>4. CASE Quiet(r)
  BY <1>4, QuietStep DEF OwnUpdates
<1> QED BY <1>1, <1>2, <1>3, <1>4 DEF Train, Quiet

-----------------------------------------------------------------------------
\* The first rank to enter the third gather is one that calls GatherFingerprints.
LEMMA EntersCheck ==
  ASSUME ControlInv, NEW r \in Rank, Train(r) \/ Runtime(r),
         ~(Here(r) >= Before(args.steps) + 3), Here(r)' >= Before(args.steps) + 3
  PROVE  GatherFingerprints(r) /\ Here(r) + 1 = Before(args.steps) + 3
<1>0. /\ args.steps \in Nat /\ step[r] \in Nat /\ step[r] <= args.steps /\ Here(r) \in Nat
      /\ pc[r] \in Label /\ Placed(pc[r], step[r], Here(r))
  BY Facts DEF ControlInv, Position
<1>1. Here(r) + 1 = Before(args.steps) + 3 /\ Here(r)' # Here(r)
  BY <1>0, Frame DEF Before
<1>2. pc[r] = "full"
  BY <1>0, <1>1 DEF Placed, Before, Label
<1>3. ~Runtime(r)
  BY <1>1 DEF Runtime, Environment, Launcher, Crash, PeerLost, KillWorker, Here
<1> QED BY <1>1, <1>2, <1>3
        DEF Train, Setup, RejectBackend, SetupDistributed, SyncReference, Parallelize, CheckForward,
            Forward, Backward, OptimizerStep, GatherLosses, FullTensor, CheckRanks, SaveFullState,
            SaveHistory, Report, Finish, At

\* A rank that has shown its fingerprint does not change its weights any more.
LEMMA WeightsFrozen ==
  ASSUME ControlInv, NEW r \in Rank, Train(r) \/ Runtime(r), Here(r) >= Before(args.steps) + 3
  PROVE  rep' = rep
<1>0. /\ args.steps \in Nat /\ step[r] \in Nat /\ step[r] <= args.steps /\ Here(r) \in Nat
      /\ Placed(pc[r], step[r], Here(r))
  BY Facts DEF ControlInv, Position
<1>1. pc[r] \notin {"parallelize", "backward"}
  BY <1>0 DEF Placed, Before
<1>2. Quiet(r)
  BY <1>1 DEF Quiet, Train, Parallelize, OptimizerStep, At
<1> QED BY <1>2, QuietStep

\* Only CheckRanks takes a rank past the check, rank 0 only if all agree.
LEMMA EntersAfter ==
  ASSUME ControlInv, NEW r \in Rank, Train(r) \/ Runtime(r), ~Checked(r), Checked(r)'
  PROVE  CheckRanks(r) /\ (r = 0 => WeightsMatch(r)) /\ UNCHANGED posted
<1>0. pc \in [Rank -> Label]
  BY Facts
<1>1. CheckRanks(r)
  BY <1>0
  DEF Train, Runtime, Environment, Launcher, Crash, PeerLost, KillWorker, Setup, RejectBackend,
      SetupDistributed, SyncReference, Parallelize, CheckForward, Forward, Backward, OptimizerStep,
      Update, GatherLosses, FullTensor, GatherFingerprints, SaveFullState, SaveHistory, Report,
      Finish, Call, Advance, EndStep, Fail, Goto, At, Checked
<1>2. ~Fail(r)
  BY DEF Fail, Checked
<1> QED BY <1>1, <1>2 DEF CheckRanks, RanksMatch, Advance

LEMMA CheckStep ==
  ASSUME ControlInv, FingerprintsShown, NEW r \in Rank, Train(r) \/ Runtime(r)
  PROVE  FingerprintsShown'
<1>0. args.steps \in Nat /\ \A q \in Rank : Here(q) \in Nat
  BY Facts
<1>1. PICK G : G = Before(args.steps) + 3
  OBVIOUS
<1>2. G \in Nat /\ G > 2 /\ Before(args.steps)' + 3 = G
  BY <1>0, <1>1, Frame DEF Before
<1>3. \A q \in Rank : Here(q) >= G => ValAt(q, G)' = ValAt(q, G)
  BY <1>0, <1>2, Frame
<1>4. ASSUME NEW q \in Rank, Here(q)' >= G
      PROVE  \E parts : ValAt(q, G)' = Fingerprint([rep |-> rep'[q], shard |-> parts])
  <2>1. CASE Here(q) >= G
    <3>1. rep'[q] = rep[q]
      BY <1>1, <2>1, Frame, WeightsFrozen
    <3>2. \E parts : ValAt(q, G) = Fingerprint([rep |-> rep[q], shard |-> parts])
      BY <1>1, <2>1 DEF FingerprintsShown
    <3> QED BY <1>3, <2>1, <3>1, <3>2
  <2>2. CASE ~(Here(q) >= G)
    <3>1. q = r
      BY <1>4, <2>2, Frame
    <3>2. GatherFingerprints(r) /\ Here(r) + 1 = G
      BY <1>1, <1>4, <2>2, <3>1, EntersCheck
    <3>3. PICK parts : /\ Call(r, "all_gather", Fingerprint([rep |-> rep[r], shard |-> parts]), "gather")
                       /\ rep' = rep
      BY <3>2 DEF GatherFingerprints, tpVars
    <3>4. ValAt(r, G)' = Fingerprint([rep |-> rep[r], shard |-> parts])
      BY <3>2, <3>3, CallOps, Facts
    <3> QED BY <3>1, <3>3, <3>4
  <2> QED BY <2>1, <2>2
<1>5. ASSUME Checked(0)', NEW q \in Rank
      PROVE  ValAt(q, G)' = ValAt(0, G)'
  <2>1. CASE Checked(0)
    <3>1. Here(0) = G \/ Here(0) = G + 1
      BY <1>0, <1>1, <2>1, RankZero DEF ControlInv, Position, Placed, Before, Checked
    <3>2. Here(q) >= G
      <4>1. pc[0] \in Waits => Here(0) = G + 1
        BY <1>0, <1>1, <2>1, RankZero DEF ControlInv, Position, Placed, Before, Checked, Waits
      <4>2. G \in PastCalls(0, Waits)
        BY <1>2, <3>1, <4>1 DEF PastCalls
      <4>3. OpAt(0, G) # "broadcast"
        BY <1>0, <1>2, <3>1, RankZero DEF ControlInv, OnSchedule, ScheduledOp
      <4> QED BY <4>2, <4>3, RankZero DEF ControlInv, WorkerInv, OthersEntered
    <3>3. ValAt(q, G) = ValAt(0, G)
      BY <1>1, <2>1 DEF FingerprintsShown
    <3> QED BY <1>2, <1>3, <3>1, <3>2, <3>3, RankZero
  <2>2. CASE ~Checked(0)
    <3>1. r = 0
      BY <1>5, <2>2, Frame, RankZero DEF Checked
    <3>2. CheckRanks(0) /\ WeightsMatch(0) /\ UNCHANGED posted
      BY <1>5, <2>2, <3>1, EntersAfter, RankZero
    <3>3. Here(0) = G
      BY <1>0, <1>1, <3>2, RankZero DEF CheckRanks, At, ControlInv, Position, Placed, Before
    <3>4. ValAt(q, G) = ValAt(0, G)
      BY <3>2, <3>3, RankZero DEF WeightsMatch
    <3> QED BY <3>2, <3>4 DEF ValAt
  <2> QED BY <2>1, <2>2
<1> QED BY <1>2, <1>4, <1>5 DEF FingerprintsShown

\* The invariant behind the two checks, with working and with broken allreduces.
THEOREM CheckCorrect ==
  ASSUME ProbeTells
  PROVE  Spec => []CheckInv
<1>1. Init => CheckInv
  <2> SUFFICES ASSUME Init PROVE CheckInv
    OBVIOUS
  <2>1. /\ args.steps \in Nat
        /\ \A r \in Rank : Here(r) = 0 /\ pc[r] = "start" /\ step[r] = 0
    BY ControlInit, Facts DEF Init, WorkerInit, CommInit, Here
  <2>2. StoppedAtProbe /\ OwnUpdates /\ FingerprintsShown
    BY <2>1, RankZero DEF StoppedAtProbe, OwnUpdates, FingerprintsShown, Before, Checked
  <2> QED BY <2>2, TrainStart DEF CheckInv
<1>2. CheckInv /\ [Next]_vars => CheckInv'
  <2>1. ASSUME CheckInv, UNCHANGED vars PROVE CheckInv'
    <3>1. \A r, w : OwnUpdate(r, w)' <=> OwnUpdate(r, w)
      BY DEF OwnUpdate
    <3>2. TrainInv'
      BY <2>1, TrainStuttering DEF CheckInv
    <3>3. StoppedAtProbe' /\ OwnUpdates'
      BY <2>1, <3>1 DEF CheckInv, StoppedAtProbe, OwnUpdates, vars, tpVars
    <3>4. FingerprintsShown'
      BY <2>1 DEF CheckInv, FingerprintsShown, vars, tpVars, Here, ValAt, Before, Checked
    <3> QED BY <3>2, <3>3, <3>4 DEF CheckInv
  <2>2. ASSUME CheckInv, NEW r \in Rank, Train(r) \/ Runtime(r) PROVE CheckInv'
    <3>1. TrainInv /\ ControlInv
      BY <2>2 DEF CheckInv, TrainInv
    <3> QED BY <2>2, <3>1, TrainStep, ProbeStep, OwnUpdatesStep, CheckStep DEF CheckInv
  <2> QED BY <2>1, <2>2 DEF Next, Over
<1> QED BY <1>1, <1>2, PTL DEF Spec

\* When rank 0 stops at the probe batch, nobody gets through a step.
LEMMA NobodySteps ==
  ASSUME CheckInv, fault = "forward", WorldSize > 1, NEW r \in Rank
  PROVE  step[r] = 0
<1> USE DEF CheckInv, TrainInv
<1>0. step[r] \in Nat /\ Here(0) \in Nat /\ args.steps \in Nat
  BY Facts, RankZero
<1>1. Here(0) <= 3
  BY RankZero DEF StoppedAtProbe, ControlInv, Position, Placed
<1>2. step[r] > 0 => Here(0) >= Before(step[r])
  BY StepsMet, RankZero
<1> QED BY <1>0, <1>1, <1>2 DEF Before

\* As far as the probe batch tells, a wrong forward pass never gets to an update.
THEOREM ProbeIsEnough ==
  ASSUME ProbeTells
  PROVE  Spec => []NoStepOnWrongForward
<1>1. CheckInv => NoStepOnWrongForward
  BY NobodySteps DEF NoStepOnWrongForward
<1> QED BY <1>1, CheckCorrect, PTL

\* As far as torch's arithmetic hides nothing from them, the two checks mean what
\* they say: a run that succeeds has trained the model of one process, whatever
\* allreduce is broken.
THEOREM ChecksAreEnough ==
  ASSUME ProbeTells, UpdatesTell, FingerprintTells
  PROVE  Spec => []SuccessMeansTrained
<1>1. ASSUME CheckInv, LauncherOK, NEW r \in Rank
      PROVE  rep[r] = Trained[args.steps].rep /\ shard[r] = Trained[args.steps].shard[r]
  <2> USE DEF CheckInv, TrainInv
  <2>0. args.steps \in Nat
    BY <1>1, Facts
  <2>1. ASSUME NEW q \in Rank
        PROVE  /\ pc[q] = "done" /\ step[q] = args.steps /\ step[q] > 0
               /\ Here(q) >= Before(args.steps) + 3
    <3>1. pc[q] = "done"
      BY <1>1 DEF LauncherOK, ControlInv, WorkerInv, ExitedAtEnd
    <3> QED BY <1>1, <2>0, <3>1 DEF ControlInv, Position, Placed, Before
  <2>2. CASE Sound
    BY <1>1, <2>1, <2>2 DEF HasTrained, Split
  <2>3. CASE fault = "forward" /\ WorldSize > 1
    BY <1>1, <2>1, <2>3, NobodySteps
  <2>4. CASE fault = "backward" /\ WorldSize > 1
    <3>1. 0 \in Rank /\ 1 \in Rank
      BY <2>4, WorldSizeAssumption DEF Rank
    <3>2. PICK parts0, parts1 :
            /\ ValAt(0, Before(args.steps) + 3) = Fingerprint([rep |-> rep[0], shard |-> parts0])
            /\ ValAt(1, Before(args.steps) + 3) = Fingerprint([rep |-> rep[1], shard |-> parts1])
      BY <1>1, <2>1, <3>1 DEF FingerprintsShown
    <3>3. ValAt(1, Before(args.steps) + 3) = ValAt(0, Before(args.steps) + 3)
      BY <1>1, <2>1, <3>1 DEF FingerprintsShown, Checked
    <3>4. rep[0] = rep[1]
      BY <3>2, <3>3 DEF FingerprintTells
    <3>5. OwnUpdate(0, rep[0]) /\ OwnUpdate(1, rep[1])
      BY <1>1, <2>1, <2>4, <3>1 DEF OwnUpdates
    <3>6. 0 = 1
      BY <3>1, <3>4, <3>5 DEF UpdatesTell
    <3> QED BY <3>6
  <2>5. fault \in {"none", "forward", "backward"}
    BY <1>1, TPAssumption DEF ControlInv
  <2> QED BY <2>2, <2>3, <2>4, <2>5, WorldSizeAssumption DEF Sound
<1>2. CheckInv => SuccessMeansTrained
  BY <1>1 DEF SuccessMeansTrained
<1> QED BY <1>2, CheckCorrect, PTL

-----------------------------------------------------------------------------
(* The parts of all ranks together, at the step of the furthest rank, are   *)
(* what one process has after that step.                                    *)

LEMMA FurthestIs ==
  ASSUME ControlInv
  PROVE  /\ Furthest \in Nat
         /\ \A q \in Rank : step[q] <= Furthest
         /\ \E q \in Rank : step[q] = Furthest
<1>0. \A q \in Rank : step[q] \in Nat
  BY Facts
<1>1. \E r \in Rank : \A q \in Rank : step[q] <= step[r]
  <2>1. CASE \E r \in Rank : step[r] > step[0]
    <3>1. PICK r \in Rank : step[r] > step[0]
      BY <2>1
    <3>2. \A q \in Rank : step[q] <= step[0] + 1
      BY RankZero, WithinOneStep DEF Lockstep
    <3> QED BY <1>0, <3>1, <3>2, RankZero
  <2> QED BY <1>0, <2>1, RankZero
<1>2. \E n \in {step[r] : r \in Rank} : \A q \in Rank : step[q] <= n
  BY <1>1
<1>3. Furthest \in {step[r] : r \in Rank} /\ \A q \in Rank : step[q] <= Furthest
  BY <1>2 DEF Furthest
<1> QED BY <1>0, <1>3

\* A rank that is behind waits in the backward pass of the step others have made.
LEMMA BehindWaits ==
  ASSUME ControlInv, NEW c \in Rank, step[c] < Furthest
  PROVE  step[c] + 1 = Furthest /\ pc[c] = "backward" /\ Complete(c) /\ Split(c)
<1>0. /\ args.steps \in Nat /\ step[c] \in Nat /\ step[c] <= args.steps /\ Here(c) \in Nat
      /\ pc[c] \in Label /\ Furthest \in Nat
  BY Facts, FurthestIs
<1>1. PICK q \in Rank : step[q] = Furthest
  BY FurthestIs
<1>2. step[q] <= step[c] + 1 /\ step[q] <= args.steps
  BY WithinOneStep, Facts DEF Lockstep
<1>3. step[c] + 1 = Furthest /\ step[q] > 0
  BY <1>0, <1>1, <1>2
<1>4. \A p \in Rank : Here(p) >= Before(Furthest)
  BY <1>1, <1>3, StepsMet
<1>5. Placed(pc[c], step[c], Here(c)) /\ Here(c) >= Before(Furthest)
  BY <1>4 DEF ControlInv, Position
<1>6. pc[c] = "backward" /\ Here(c) = Before(Furthest)
  BY <1>0, <1>1, <1>2, <1>3, <1>5 DEF Placed, Before, Label
<1>7. \A p \in Rank : Here(c) \in 1 .. Here(p)
  BY <1>0, <1>4, <1>6, Facts DEF Before
<1>8. Complete(c)
  BY <1>7, RankZero DEF ControlInv, OnSchedule, Complete, Met
<1> QED BY <1>3, <1>6, <1>8 DEF Split

LEMMA TrainedIsWhole ==
  ASSUME NEW n \in Nat
  PROVE  Trained[n] = [rep |-> Trained[n].rep, shard |-> [q \in Rank |-> Trained[n].shard[q]]]
<1>1. CASE n = 0
  BY <1>1, TrainedSteps DEF Whole
<1>2. CASE n # 0
  <2>1. PICK m \in Nat : n = m + 1
    <3>1. n - 1 \in Nat /\ n = (n - 1) + 1
      BY <1>2
    <3> QED BY <3>1
  <2>2. PICK w, g : Trained[n] = WholeStep(w, g)
    <3>1. Trained[n] = After(n, Trained[m])
      BY <2>1, TrainedSteps
    <3> QED BY <3>1 DEF After
  <2> QED BY <2>2 DEF WholeStep
<1> QED BY <1>1, <1>2

LEMMA ModelIsTrained ==
  ASSUME TrainInv, fault = "none"
  PROVE  ModelNow = Trained[Furthest]
<1> USE DEF TrainInv
<1>0. /\ Furthest \in Nat /\ Sound
      /\ \A q \in Rank : step[q] \in Nat /\ step[q] <= Furthest
  BY FurthestIs, Facts DEF Sound
<1>1. ASSUME NEW q \in Rank, ~Split(q) PROVE Furthest = 0
  BY <1>0, <1>1, BehindWaits, CallsBound
<1>2. ASSUME NEW q \in Rank, Split(q)
      PROVE  /\ PartNow(q, "rep", rep[q]) = Trained[Furthest].rep
             /\ PartNow(q, q, shard[q]) = Trained[Furthest].shard[q]
  <2>1. rep[q] = Trained[step[q]].rep /\ shard[q] = Trained[step[q]].shard[q]
    BY <1>0, <1>2 DEF HasTrained
  <2>2. CASE step[q] < Furthest
    <3>1. step[q] + 1 = Furthest /\ pc[q] = "backward" /\ Complete(q)
      BY <2>2, BehindWaits
    <3>2. PICK g : g = WholeGrad(Trained[step[q]], Sample(step[q] + 1))
      OBVIOUS
    <3>3. LocalGrad(q) = g
      BY <1>0, <3>1, <3>2, GradIsRight
    <3>4. /\ Trained[Furthest].rep = ApplyPart("rep", Trained[step[q]].rep, g)
          /\ Trained[Furthest].shard[q] = ApplyPart(q, Trained[step[q]].shard[q], g)
      BY <1>0, <3>1, <3>2, UpdateIsPart
    <3> QED BY <2>1, <2>2, <3>3, <3>4 DEF PartNow
  <2>3. CASE ~(step[q] < Furthest)
    <3>1. step[q] = Furthest
      BY <1>0, <2>3
    <3> QED BY <2>1, <2>3, <3>1 DEF PartNow
  <2> QED BY <2>2, <2>3
<1>3. /\ Trained[0].rep = RepOf(InitW(0))
      /\ \A q \in Rank : Trained[0].shard[q] = ShardOf(InitW(0), q)
  BY TrainedSteps DEF Whole
<1>4. (IF Split(0) THEN PartNow(0, "rep", rep[0]) ELSE RepOf(InitW(0))) = Trained[Furthest].rep
  BY <1>1, <1>2, <1>3, RankZero
<1>5. \A q \in Rank :
        (IF Split(q) THEN PartNow(q, q, shard[q]) ELSE ShardOf(InitW(0), q))
          = Trained[Furthest].shard[q]
  BY <1>1, <1>2, <1>3
<1>6. ModelNow = [rep |-> Trained[Furthest].rep,
                  shard |-> [q \in Rank |-> Trained[Furthest].shard[q]]]
  BY <1>4, <1>5 DEF ModelNow
<1> QED BY <1>0, <1>6, TrainedIsWhole

\* The same in the next state
HoldsTrained == fault = "none" => ModelNow = Trained[Furthest]
NobodyFurther ==
  /\ Furthest \in Nat /\ Furthest <= args.steps
  /\ \A q \in Rank : step[q] <= Furthest
  /\ \E q \in Rank : step[q] = Furthest

LEMMA AllIsTrained == TrainInv => HoldsTrained /\ NobodyFurther
<1> SUFFICES ASSUME TrainInv PROVE HoldsTrained /\ NobodyFurther
  OBVIOUS
<1>1. HoldsTrained
  BY ModelIsTrained DEF HoldsTrained
<1>2. NobodyFurther
  BY FurthestIs, Facts DEF TrainInv, NobodyFurther
<1> QED BY <1>1, <1>2

\* No step takes any rank more than one step further.
LEMMA StepsBy ==
  ASSUME ControlInv, NEW r \in Rank, Train(r) \/ Runtime(r), NEW q \in Rank
  PROVE  step'[q] \in {step[q], step[q] + 1}
<1>0. step \in [Rank -> Nat]
  BY Facts
<1>1. CASE OptimizerStep(r)
  BY <1>0, <1>1 DEF OptimizerStep, Update, EndStep
<1>2. CASE Parallelize(r)
  BY <1>2 DEF Parallelize, Call
<1>3. CASE Quiet(r)
  BY <1>3, QuietStep
<1> QED BY <1>1, <1>2, <1>3 DEF Train, Quiet

\* Split over the ranks, a sound run is a run of the reference loop on the same
\* batches; one with a broken allreduce is none.
THEOREM TrainsReferenceModel == Spec => TrainsAsOneModel
<1>1. Init => Reference!RefInit
  <2> SUFFICES ASSUME Init PROVE Reference!RefInit
    OBVIOUS
  <2>1. HoldsTrained /\ NobodyFurther
    BY TrainStart, AllIsTrained
  <2>2. Furthest = 0
    BY <2>1 DEF NobodyFurther, Init, WorkerInit
  <2> QED BY <2>1, <2>2, TrainedSteps DEF HoldsTrained, Reference!RefInit
<1>2. ASSUME TrainInv, HoldsTrained, NobodyFurther, HoldsTrained', NobodyFurther', [Next]_vars
      PROVE  [Reference!RefNext]_(Reference!refVars)
  <2> USE DEF TrainInv
  <2>1. fault' = fault /\ args' = args /\ \A q \in Rank : step'[q] \in {step[q], step[q] + 1}
    <3>1. CASE UNCHANGED vars
      BY <3>1 DEF vars, tpVars
    <3> QED BY <1>2, <3>1, Frame, StepsBy DEF Next, Over
  <2>2. CASE fault # "none"
    BY <2>1, <2>2 DEF Reference!refVars
  <2>3. CASE fault = "none" /\ Furthest' = Furthest
    BY <1>2, <2>1, <2>3 DEF HoldsTrained, Reference!refVars
  <2>4. CASE fault = "none" /\ Furthest' # Furthest
    <3> DEFINE n == Furthest
               x == Sample(n + 1)
    <3>1. n \in Nat /\ Furthest' = n + 1 /\ n + 1 <= args.steps /\ args.steps \in StepCounts
      <4>1. \A q \in Rank : step[q] \in Nat
        BY <1>2, Facts
      <4> QED BY <1>2, <2>1, <2>4, <4>1, Facts DEF NobodyFurther
    <3>2. Trained[n + 1] = WholeStep(Trained[n], WholeGrad(Trained[n], x))
      BY <3>1, TrainedSteps DEF After
    <3>3. ModelNow = Trained[n] /\ ModelNow' = Trained[n + 1]
      BY <1>2, <2>1, <2>4, <3>1 DEF HoldsTrained
    <3>4. x \in {Sample(k) : k \in UNION {1 .. m : m \in StepCounts}}
      <4>1. n + 1 \in 1 .. args.steps /\ args.steps \in StepCounts
        BY <3>1
      <4>2. n + 1 \in UNION {1 .. m : m \in StepCounts}
        BY <4>1
      <4> QED BY <4>2
    <3> DEFINE b == [p \in {0} |-> x]
    <3>5. b \in [{0} -> {Sample(k) : k \in UNION {1 .. m : m \in StepCounts}}]
      <4> DEFINE S == {Sample(k) : k \in UNION {1 .. m : m \in StepCounts}}
      <4>1. x \in S
        BY <3>4
      <4> HIDE DEF x, S
      <4>2. [p \in {0} |-> x] \in [{0} -> S]
        BY <4>1
      <4> QED BY <4>2 DEF S
    <3>6. [p \in {0} |-> WholeGrad(ModelNow, b[p])][0] = WholeGrad(ModelNow, x)
      OBVIOUS
    <3>7. \E m \in StepCounts : Furthest < m
      <4>1. args.steps \in Nat
        BY <3>1, StepCountsAssumption
      <4>2. \A k, m \in Nat : k + 1 <= m => k < m
        OBVIOUS
      <4>3. n < args.steps
        BY <3>1, <4>1, <4>2
      <4> QED BY <3>1, <4>3
    <3>8. ModelNow' = WholeStep(ModelNow, [p \in {0} |-> WholeGrad(ModelNow, b[p])][0])
      BY <3>2, <3>3, <3>6
    <3> HIDE DEF b
    <3>9. Reference!TrainStep(b)
      BY <2>1, <2>4, <3>1, <3>7, <3>8 DEF Reference!TrainStep
    <3> QED BY <3>5, <3>9 DEF Reference!RefNext
  <2> QED BY <2>2, <2>3, <2>4
<1> QED BY <1>1, <1>2, AllIsTrained, TrainCorrect, PTL
        DEF Spec, TrainsAsOneModel, Reference!RefSpec
=============================================================================
