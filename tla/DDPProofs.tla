------------------------------ MODULE DDPProofs ------------------------------
(***************************************************************************)
(* Proofs about train_ddp.py for every world size, number of steps, batch  *)
(* set and number of crashes, and whatever torch's arithmetic is; and, at  *)
(* the end, about the notebook around it, for any number of re-runs.       *)
(***************************************************************************)
EXTENDS DDPNotebook, WorkerProofs

-----------------------------------------------------------------------------
(* The inductive invariants.                                                *)

\* The number of collectives a rank has entered follows from where it is.
Position ==
  \A r \in Rank :
    /\ pc[r] = "start" => Here(r) = 0 /\ step[r] = 0
    /\ pc[r] = "setup" => Here(r) = 1 /\ step[r] = 0
    /\ pc[r] = "wrap" => Here(r) = 2 /\ step[r] = 0
    /\ pc[r] = "loop" => Here(r) = 2 + step[r]
    /\ pc[r] = "backward" => Here(r) = 3 + step[r] /\ step[r] < args.steps
    /\ pc[r] \in {"gather", "save_state", "save_history", "report"} =>
         Here(r) = 3 + args.steps /\ step[r] = args.steps
    /\ pc[r] \in {"barrier", "done"} => Here(r) = 4 + args.steps /\ step[r] = args.steps

\* The script fixes which collective comes k-th.
ScheduledOp(k) ==
  IF k = 1 THEN "init_process_group"
  ELSE IF k = 2 THEN "broadcast"
  ELSE IF k <= 2 + args.steps THEN "allreduce"
  ELSE IF k = 3 + args.steps THEN "all_gather"
  ELSE "barrier"

OnSchedule == \A r \in Rank : \A k \in 1 .. Here(r) : OpAt(r, k) = ScheduledOp(k)

\* What a rank has got past, the others have entered.
Passed ==
  \A q, r \in Rank :
    /\ pc[r] \notin {"start", "setup"} => Here(q) >= 1
    /\ Trained(r) => Here(0) >= 2
    /\ step[r] > 0 => Here(q) >= 2 + step[r]
    /\ pc[r] \in {"save_state", "save_history", "report", "barrier", "done"} =>
         Here(q) >= 3 + args.steps
    /\ pc[r] = "done" => Here(q) >= 4 + args.steps

ControlInv == TypeOK /\ Position /\ OnSchedule /\ Passed /\ ExitedAtEnd

\* Rank 0 has broadcast its own initial weights.
Rank0Broadcast == Here(0) >= 2 => ValAt(0, 2) = InitW(0)

\* A rank has shown the others the fingerprint of the weights it still has,
\* and rank 0 has gone on only after finding them all equal.
FingerprintsShown ==
  /\ \A r \in Rank : Here(r) >= 3 + args.steps =>
       ValAt(r, 3 + args.steps) = Fingerprint(model[r])
  /\ pc[0] \in {"save_state", "save_history", "report", "barrier", "done"} =>
       \A q \in Rank : ValAt(q, 3 + args.steps) = ValAt(0, 3 + args.steps)

CheckInv == ControlInv /\ FingerprintsShown

\* A rank that is a step behind is about to make that same step.
OneStepBehind ==
  \A q, r \in Rank :
    Trained(q) /\ Trained(r) /\ step[q] = step[r] + 1 =>
      model[q] = Apply(model[r], Gathered(r))

StartsFromRank0 == \A r \in Rank : Trained(r) /\ step[r] = 0 => model[r] = InitW(0)

SyncInv ==
  ControlInv /\ Rank0Broadcast /\ StartsFromRank0 /\ ReplicasAgree /\ OneStepBehind

\* What a rank that waits for the gradients of the others has brought
GradInv ==
  \A r \in Rank : pc[r] = "backward" =>
    \E b \in Batch : ValAt(r, Here(r)) = Grad(model[r], b)

-----------------------------------------------------------------------------
LEMMA ControlInit == Init => ControlInv
<1> SUFFICES ASSUME Init PROVE ControlInv
  OBVIOUS
<1> USE DEF Init, WorkerInit, CommInit
<1>0. args \in [backend : Backends, steps : StepCounts, out_dir : OutDirs]
  OBVIOUS
<1>1. args.steps \in Nat /\ 0 \in 0 .. args.steps
  <2>1. args.steps \in StepCounts
    BY ONLY <1>0
  <2>2. args.steps \in Nat
    BY ONLY <2>1, StepCountsAssumption
  <2> QED BY ONLY <2>2
<1>2. TypeOK
  <2>1. /\ DOMAIN posted = Rank
        /\ \A r \in Rank : DOMAIN posted[r] = 1 .. Here(r)
    BY DEF Here
  <2>2. files \in [Rank -> [Artifact -> FileState]]
    BY DEF FileState
  <2>3. entered \in [Rank -> Nat] /\ proc \in [Rank -> ProcState] /\ crashes \in 0 .. MaxCrashes
    BY MaxCrashesAssumption DEF ProcState
  <2>4. pc \in [Rank -> Label] /\ step \in [Rank -> 0 .. args.steps]
    BY <1>1 DEF Label
  <2>5. args \in [backend : Backends, steps : StepCounts, out_dir : OutDirs]
    OBVIOUS
  <2> QED BY <2>1, <2>2, <2>3, <2>4, <2>5 DEF TypeOK, WorkerTypeOK
<1>3. Position
  BY DEF Position, Here
<1>4. OnSchedule
  BY DEF OnSchedule, Here
<1>5. Passed
  BY DEF Passed, Here, Trained
<1>6. ExitedAtEnd
  BY DEF ExitedAtEnd
<1> QED BY <1>2, <1>3, <1>4, <1>5, <1>6 DEF ControlInv

\* A process that dies changes nothing but its own status.
LEMMA ControlExit ==
  ASSUME ControlInv, NEW r \in Rank, NEW how \in {"failed", "killed"},
         Exit(r, how), crashes' \in 0 .. MaxCrashes,
         UNCHANGED <<entered, posted, args, pc, step, files, model>>
  PROVE  ControlInv'
<1> USE DEF Exit, Here
<1>1. TypeOK'
  BY DEF ControlInv, TypeOK, WorkerTypeOK, ProcState
<1>2. Position' /\ OnSchedule' /\ Passed'
  BY DEF ControlInv, Position, OnSchedule, ScheduledOp, OpAt, Passed, Trained
<1>3. ExitedAtEnd'
  BY DEF ControlInv, TypeOK, WorkerTypeOK, ExitedAtEnd
<1> QED BY <1>1, <1>2, <1>3 DEF ControlInv

LEMMA ControlRuntime ==
  ASSUME ControlInv, NEW r \in Rank, Runtime(r)
  PROVE  ControlInv'
<1>1. crashes \in 0 .. MaxCrashes
  BY DEF ControlInv, TypeOK, WorkerTypeOK
<1>2. CASE Crash(r) /\ UNCHANGED <<args, pc, step, files, model>>
  <2>1. crashes' \in 0 .. MaxCrashes
    BY <1>1, <1>2, MaxCrashesAssumption DEF Crash
  <2> QED BY <1>2, <2>1, ControlExit DEF Crash
<1>3. CASE PeerLost(r) /\ UNCHANGED <<args, pc, step, files, model>>
  BY <1>1, <1>3, ControlExit DEF PeerLost
<1>4. CASE KillWorker(r) /\ UNCHANGED <<args, pc, step, files, model>>
  BY <1>1, <1>4, ControlExit DEF KillWorker
<1> QED BY <1>2, <1>3, <1>4 DEF Runtime, Environment, Launcher

LEMMA ControlFail ==
  ASSUME ControlInv, NEW r \in Rank, Fail(r), UNCHANGED model
  PROVE  ControlInv'
<1>1. crashes' \in 0 .. MaxCrashes
  BY DEF Fail, ControlInv, TypeOK, WorkerTypeOK
<1> QED BY <1>1, ControlExit DEF Fail

LEMMA ControlWrite ==
  ASSUME ControlInv, NEW r \in Rank, NEW f \in Artifact,
         NEW next \in {"save_history", "report"},
         pc[r] \in {"save_state", "save_history"},
         WriteArtifact(r, f, next), UNCHANGED model
  PROVE  ControlInv'
<1> USE DEF WriteArtifact, Goto, Here
<1>1. TypeOK'
  <2>1. files' \in [Rank -> [Artifact -> FileState]]
    <3>1. PICK s \in FileState : files' = [files EXCEPT ![r][f] = s]
      BY DEF FileState
    <3> QED BY <3>1 DEF ControlInv, TypeOK, WorkerTypeOK
  <2> QED BY <2>1 DEF ControlInv, TypeOK, WorkerTypeOK, Label
<1>2. Position'
  BY DEF ControlInv, TypeOK, WorkerTypeOK, Position
<1>3. OnSchedule'
  BY DEF ControlInv, TypeOK, WorkerTypeOK, OnSchedule, ScheduledOp, OpAt
<1>4. Passed'
  BY RankZero DEF ControlInv, TypeOK, WorkerTypeOK, Passed, Trained
<1>5. ExitedAtEnd'
  BY DEF ControlInv, TypeOK, WorkerTypeOK, ExitedAtEnd
<1> QED BY <1>1, <1>2, <1>3, <1>4, <1>5 DEF ControlInv

\* Every collective but the broadcast is a rendezvous of all ranks.
LEMMA MetAll ==
  ASSUME ControlInv, NEW r \in Rank, Complete(r),
         pc[r] \in {"setup", "backward", "gather", "barrier"}
  PROVE  \A q \in Rank : entered[q] >= entered[r]
<1>0. args.steps \in Nat
  BY StepCountsAssumption DEF ControlInv, TypeOK, WorkerTypeOK
<1>1. step[r] \in Nat /\ args.steps \in Nat
  BY <1>0 DEF ControlInv, TypeOK, WorkerTypeOK
<1>2. entered[r] \in 1 .. entered[r] /\ entered[r] # 2
  BY <1>1 DEF ControlInv, Position, Here
<1>3. OpAt(r, Here(r)) # "broadcast"
  BY <1>1, <1>2 DEF ControlInv, OnSchedule, ScheduledOp, Here
<1> QED BY <1>3 DEF Complete, Met, Here

LEMMA ControlTrain ==
  ASSUME ControlInv, NEW r \in Rank, Train(r)
  PROVE  ControlInv'
<1> USE DEF Here, At
<1>0. args.steps \in Nat
  BY StepCountsAssumption DEF ControlInv, TypeOK, WorkerTypeOK
<1>1. CASE Setup(r)
  <2>1. CASE RejectBackend(r) /\ UNCHANGED model
    BY <2>1, ControlFail DEF RejectBackend
  <2>2. CASE SetupDistributed(r) /\ UNCHANGED model
    <3> USE <1>0, <2>2 DEF SetupDistributed, Call, Enter, Goto
    <3>1. TypeOK'
      BY DEF ControlInv, TypeOK, WorkerTypeOK, Label, Position, ProcState
    <3>2. Position'
      BY DEF ControlInv, TypeOK, WorkerTypeOK, Position
    <3>3. OnSchedule'
      BY DEF ControlInv, TypeOK, WorkerTypeOK, Position, OnSchedule, ScheduledOp, OpAt
    <3>4. Passed'
      BY RankZero DEF ControlInv, TypeOK, WorkerTypeOK, Position, OnSchedule, ScheduledOp, OpAt, Passed, Trained, Complete, Met
    <3>5. ExitedAtEnd'
      BY DEF ControlInv, TypeOK, WorkerTypeOK, ExitedAtEnd
    <3> QED BY <3>1, <3>2, <3>3, <3>4, <3>5 DEF ControlInv
  <2> QED BY <1>1, <2>1, <2>2 DEF Setup
<1>2. CASE WrapModel(r)
  <2> USE <1>0, <1>2 DEF WrapModel, Call, Enter, Goto
  <2>1. TypeOK'
    BY DEF ControlInv, TypeOK, WorkerTypeOK, Label, Position, ProcState
  <2>2. Position'
    BY DEF ControlInv, TypeOK, WorkerTypeOK, Position
  <2>3. OnSchedule'
    BY DEF ControlInv, TypeOK, WorkerTypeOK, Position, OnSchedule, ScheduledOp, OpAt
  <2>4. Passed'
    BY RankZero DEF ControlInv, TypeOK, WorkerTypeOK, Position, OnSchedule, ScheduledOp, OpAt, Passed, Trained, Complete, Met
  <2>5. ExitedAtEnd'
    BY DEF ControlInv, TypeOK, WorkerTypeOK, ExitedAtEnd
  <2> QED BY <2>1, <2>2, <2>3, <2>4, <2>5 DEF ControlInv
<1>3. CASE ModelWrapped(r)
  <2> USE <1>0, <1>3 DEF ModelWrapped, Advance, Goto
  <2>1. TypeOK'
    BY DEF ControlInv, TypeOK, WorkerTypeOK, Label, Position, ProcState
  <2>2. Position'
    BY DEF ControlInv, TypeOK, WorkerTypeOK, Position
  <2>3. OnSchedule'
    BY DEF ControlInv, TypeOK, WorkerTypeOK, Position, OnSchedule, ScheduledOp, OpAt
  <2>4. Passed'
    BY RankZero DEF ControlInv, TypeOK, WorkerTypeOK, Position, OnSchedule, ScheduledOp, OpAt, Passed, Trained, Complete, Met
  <2>5. ExitedAtEnd'
    BY DEF ControlInv, TypeOK, WorkerTypeOK, ExitedAtEnd
  <2> QED BY <2>1, <2>2, <2>3, <2>4, <2>5 DEF ControlInv
<1>4. CASE ForwardBackward(r)
  <2> USE <1>0, <1>4 DEF ForwardBackward, Call, Enter, Goto
  <2>1. TypeOK'
    BY DEF ControlInv, TypeOK, WorkerTypeOK, Label, Position, ProcState
  <2>2. Position'
    BY DEF ControlInv, TypeOK, WorkerTypeOK, Position
  <2>3. OnSchedule'
    BY DEF ControlInv, TypeOK, WorkerTypeOK, Position, OnSchedule, ScheduledOp, OpAt
  <2>4. Passed'
    BY RankZero DEF ControlInv, TypeOK, WorkerTypeOK, Position, OnSchedule, ScheduledOp, OpAt, Passed, Trained, Complete, Met
  <2>5. ExitedAtEnd'
    BY DEF ControlInv, TypeOK, WorkerTypeOK, ExitedAtEnd
  <2> QED BY <2>1, <2>2, <2>3, <2>4, <2>5 DEF ControlInv
<1>5. CASE OptimizerStep(r)
  <2> USE <1>0, <1>5 DEF OptimizerStep, EndStep, Goto
  <2>0. \A q \in Rank : entered[q] >= entered[r]
    BY <1>0, <1>5, MetAll DEF OptimizerStep
  <2>1. TypeOK'
    BY DEF ControlInv, TypeOK, WorkerTypeOK, Label, Position, ProcState
  <2>2. Position'
    BY DEF ControlInv, TypeOK, WorkerTypeOK, Position
  <2>3. OnSchedule'
    BY DEF ControlInv, TypeOK, WorkerTypeOK, Position, OnSchedule, ScheduledOp, OpAt
  <2>4. Passed'
    BY RankZero, <2>0 DEF ControlInv, TypeOK, WorkerTypeOK, Position, Passed, Trained
  <2>5. ExitedAtEnd'
    BY DEF ControlInv, TypeOK, WorkerTypeOK, ExitedAtEnd
  <2> QED BY <2>1, <2>2, <2>3, <2>4, <2>5 DEF ControlInv
<1>6. CASE GatherFingerprints(r)
  <2> USE <1>0, <1>6 DEF GatherFingerprints, Call, Enter, Goto
  <2>1. TypeOK'
    BY DEF ControlInv, TypeOK, WorkerTypeOK, Label, Position, ProcState
  <2>2. Position'
    BY DEF ControlInv, TypeOK, WorkerTypeOK, Position
  <2>3. OnSchedule'
    BY DEF ControlInv, TypeOK, WorkerTypeOK, Position, OnSchedule, ScheduledOp, OpAt
  <2>4. Passed'
    BY RankZero DEF ControlInv, TypeOK, WorkerTypeOK, Position, OnSchedule, ScheduledOp, OpAt, Passed, Trained, Complete, Met
  <2>5. ExitedAtEnd'
    BY DEF ControlInv, TypeOK, WorkerTypeOK, ExitedAtEnd
  <2> QED BY <2>1, <2>2, <2>3, <2>4, <2>5 DEF ControlInv
<1>7. CASE CheckWeights(r)
  <2>1. CASE Fail(r)
    BY <1>7, <2>1, ControlFail DEF CheckWeights
  <2>2. CASE Advance(r, AfterCheck(r))
    <3> USE <1>0, <1>7, <2>2 DEF CheckWeights, Advance, AfterCheck, Goto
    <3>0. \A q \in Rank : entered[q] >= entered[r]
      BY <1>0, <1>7, MetAll DEF CheckWeights
    <3>1. TypeOK'
      BY DEF ControlInv, TypeOK, WorkerTypeOK, Label, Position, ProcState
    <3>2. Position'
      BY DEF ControlInv, TypeOK, WorkerTypeOK, Position
    <3>3. OnSchedule'
      BY DEF ControlInv, TypeOK, WorkerTypeOK, Position, OnSchedule, ScheduledOp, OpAt
    <3>4. Passed'
      BY RankZero, <3>0 DEF ControlInv, TypeOK, WorkerTypeOK, Position, Passed, Trained
    <3>5. ExitedAtEnd'
      BY DEF ControlInv, TypeOK, WorkerTypeOK, ExitedAtEnd
    <3> QED BY <3>1, <3>2, <3>3, <3>4, <3>5 DEF ControlInv
  <2> QED BY <1>7, <2>1, <2>2 DEF CheckWeights
<1>8. CASE SaveState(r)
  BY <1>8, ControlWrite DEF SaveState, Artifact
<1>9. CASE SaveHistory(r)
  BY <1>9, ControlWrite DEF SaveHistory, Artifact
<1>10. CASE Report(r)
  <2>1. CASE Fail(r)
    BY <1>10, <2>1, ControlFail DEF Report
  <2>2. CASE Call(r, "barrier", NoVal, "barrier")
    <3> USE <1>0, <1>10, <2>2 DEF Report, Call, Enter, Goto
    <3>1. TypeOK'
      BY DEF ControlInv, TypeOK, WorkerTypeOK, Label, Position, ProcState
    <3>2. Position'
      BY DEF ControlInv, TypeOK, WorkerTypeOK, Position
    <3>3. OnSchedule'
      BY DEF ControlInv, TypeOK, WorkerTypeOK, Position, OnSchedule, ScheduledOp, OpAt
    <3>4. Passed'
      BY RankZero DEF ControlInv, TypeOK, WorkerTypeOK, Position, OnSchedule, ScheduledOp, OpAt, Passed, Trained, Complete, Met
    <3>5. ExitedAtEnd'
      BY DEF ControlInv, TypeOK, WorkerTypeOK, ExitedAtEnd
    <3> QED BY <3>1, <3>2, <3>3, <3>4, <3>5 DEF ControlInv
  <2> QED BY <1>10, <2>1, <2>2 DEF Report
<1>11. CASE Finish(r)
  <2> USE <1>0, <1>11 DEF Finish, Return, Exit, Goto
  <2>0. \A q \in Rank : entered[q] >= entered[r]
    BY <1>0, <1>11, MetAll DEF Finish
  <2>1. TypeOK'
    BY DEF ControlInv, TypeOK, WorkerTypeOK, Label, Position, ProcState
  <2>2. Position'
    BY DEF ControlInv, TypeOK, WorkerTypeOK, Position
  <2>3. OnSchedule'
    BY DEF ControlInv, TypeOK, WorkerTypeOK, Position, OnSchedule, ScheduledOp, OpAt
  <2>4. Passed'
    BY RankZero, <2>0 DEF ControlInv, TypeOK, WorkerTypeOK, Position, Passed, Trained
  <2>5. ExitedAtEnd'
    BY DEF ControlInv, TypeOK, WorkerTypeOK, ExitedAtEnd
  <2> QED BY <2>1, <2>2, <2>3, <2>4, <2>5 DEF ControlInv
<1> QED BY <1>1, <1>2, <1>3, <1>4, <1>5, <1>6, <1>7, <1>8, <1>9, <1>10, <1>11 DEF Train

LEMMA ControlStuttering == ControlInv /\ UNCHANGED vars => ControlInv'
BY DEF vars, ControlInv, TypeOK, WorkerTypeOK, Position, OnSchedule, ScheduledOp, OpAt,
       Passed, Trained, Here, ExitedAtEnd

\* Type correctness, the schedule of collectives and what the blocking calls
\* guarantee hold in every state of every run.
THEOREM ControlCorrect == Spec => []ControlInv
<1>1. ControlInv /\ [Next]_vars => ControlInv'
  BY ControlTrain, ControlRuntime, ControlStuttering DEF Next, Over
<1> QED BY <1>1, ControlInit, PTL DEF Spec

\* The type invariant of the runs.
THEOREM TypeCorrect == Spec => []TypeOK
BY ControlCorrect, PTL DEF ControlInv

\* Every rank calls the same collectives in the same order.
THEOREM CollectivesPairUp == Spec => []SameCollectives
<1>1. ControlInv => SameCollectives
  BY DEF ControlInv, TypeOK, WorkerTypeOK, OnSchedule, SameCollectives, Here
<1> QED BY <1>1, ControlCorrect, PTL

\* No rank is more than one optimizer step ahead of another.
THEOREM RanksInLockstep == Spec => []Lockstep
<1>1. ASSUME ControlInv PROVE Lockstep
  <2> SUFFICES ASSUME NEW q \in Rank, NEW r \in Rank PROVE step[q] <= step[r] + 1
    BY DEF Lockstep
  <2>1. args.steps \in Nat
    BY <1>1, StepCountsAssumption DEF ControlInv, TypeOK, WorkerTypeOK
  <2>2. step[q] \in Nat /\ step[r] \in Nat /\ step[q] <= args.steps /\ pc[r] \in Label
    BY <1>1, <2>1 DEF ControlInv, TypeOK, WorkerTypeOK
  <2>3. CASE step[q] > 0
    <3>1. Here(r) >= 2 + step[q]
      BY <1>1, <2>3 DEF ControlInv, Passed
    <3> QED BY <1>1, <2>1, <2>2, <3>1 DEF ControlInv, Position, Label
  <2> QED BY <2>2, <2>3
<1> QED BY <1>1, ControlCorrect, PTL

\* Ranks past the k-th collective, seen from the ranks they waited for.
LEMMA AllAtBarrier ==
  ASSUME ControlInv, NEW q \in Rank, Here(q) >= 4 + args.steps
  PROVE  pc[q] \in {"barrier", "done"}
<1>1. args.steps \in Nat
  BY StepCountsAssumption DEF ControlInv, TypeOK, WorkerTypeOK
<1>2. step[q] \in Nat /\ step[q] <= args.steps /\ pc[q] \in Label
  BY <1>1 DEF ControlInv, TypeOK, WorkerTypeOK
<1> QED BY <1>1, <1>2 DEF ControlInv, Position, Label

LEMMA AllStepsMade ==
  ASSUME ControlInv, NEW q \in Rank, Here(q) >= 3 + args.steps
  PROVE  step[q] = args.steps
<1>1. args.steps \in Nat
  BY StepCountsAssumption DEF ControlInv, TypeOK, WorkerTypeOK
<1>2. step[q] \in Nat /\ step[q] <= args.steps /\ pc[q] \in Label
  BY <1>1 DEF ControlInv, TypeOK, WorkerTypeOK
<1> QED BY <1>1, <1>2 DEF ControlInv, Position, Label

\* A rank leaves only when all have come to the closing barrier.
THEOREM RanksLeaveTogether == Spec => LeaveTogether
<1> DEFINE AtBarrier == \A q \in Rank : pc[q] \in {"barrier", "done"}
<1>1. ASSUME ControlInv, Next, NEW r \in Rank, pc'[r] = "done" PROVE AtBarrier
  <2>1. CASE pc[r] = "done"
    BY <1>1, <2>1, AllAtBarrier DEF ControlInv, Passed
  <2>2. CASE pc[r] # "done"
    <3>1. At(r, "barrier") /\ Complete(r)
      BY <1>1, <2>2
      DEF Next, Over, vars, ControlInv, TypeOK, WorkerTypeOK, Train, Runtime, Environment, Launcher,
          Setup, RejectBackend, SetupDistributed, WrapModel, ModelWrapped, ForwardBackward,
          OptimizerStep, GatherFingerprints, CheckWeights, AfterCheck, SaveState, SaveHistory,
          WriteArtifact, Report, Finish, Return, Call, Advance, EndStep, Fail, Goto, At
    <3>2. \A q \in Rank : Here(q) >= Here(r)
      BY <1>1, <3>1, MetAll DEF At, Here
    <3>3. Here(r) = 4 + args.steps
      BY <1>1, <3>1 DEF ControlInv, Position, At
    <3> QED BY <1>1, <3>2, <3>3, AllAtBarrier
  <2> QED BY <2>1, <2>2
<1>2. ControlInv /\ [Next]_vars =>
        [\A r \in Rank : pc'[r] = "done" => AtBarrier]_workerVars
  BY <1>1 DEF vars, workerVars
<1> QED BY <1>2, ControlCorrect, PTL DEF Spec, LeaveTogether

\* Artifacts of an earlier run are overwritten only after the last step.
THEOREM ArtifactsWrittenLast == Spec => ArtifactsLast
<1> DEFINE AllDone == \A q \in Rank : step[q] = args.steps
<1>1. ASSUME ControlInv, Next, NEW r \in Rank, files'[r] # files[r] PROVE AllDone
  <2>1. pc[r] \in {"save_state", "save_history"}
    BY <1>1
    DEF Next, Over, vars, ControlInv, TypeOK, WorkerTypeOK, Train, Runtime, Environment, Launcher,
        Setup, RejectBackend, SetupDistributed, WrapModel, ModelWrapped, ForwardBackward,
        OptimizerStep, GatherFingerprints, CheckWeights, SaveState, SaveHistory,
        WriteArtifact, Report, Finish, Return, Call, Advance, EndStep, Fail, At
  <2>2. \A q \in Rank : Here(q) >= 3 + args.steps
    BY <1>1, <2>1 DEF ControlInv, Passed
  <2> QED BY <1>1, <2>2, AllStepsMade
<1>2. ControlInv /\ [Next]_vars =>
        [\A r \in Rank : files'[r] # files[r] => AllDone]_workerVars
  BY <1>1 DEF vars, workerVars
<1> QED BY <1>2, ControlCorrect, PTL DEF Spec, ArtifactsLast

-----------------------------------------------------------------------------
\* Calling a collective adds to what has been posted.
LEMMA CallFrame ==
  ASSUME ControlInv, NEW r \in Rank, NEW op, NEW val, NEW next, Call(r, op, val, next)
  PROVE  /\ args' = args /\ step' = step
         /\ entered'[r] = entered[r] + 1 /\ pc'[r] = next
         /\ \A q \in Rank : entered'[q] >= entered[q]
         /\ \A q \in Rank : q # r => pc'[q] = pc[q] /\ entered'[q] = entered[q]
         /\ \A q \in Rank : \A k \in 1 .. entered[q] : posted'[q][k] = posted[q][k]
         /\ posted'[r][entered[r] + 1].val = val
<1>1. entered \in [Rank -> Nat] /\ DOMAIN posted = Rank /\ pc \in [Rank -> Label]
  BY DEF ControlInv, TypeOK, WorkerTypeOK
<1>2. \A q \in Rank : \A k \in 1 .. entered[q] : posted'[q][k] = posted[q][k]
  BY <1>1 DEF Call, Enter, Here
<1>3. posted'[r][entered[r] + 1].val = val
  <2> DEFINE new == [k \in 1 .. entered[r] + 1 |->
                      IF k <= entered[r] THEN posted[r][k] ELSE [op |-> op, val |-> val]]
  <2>1. posted'[r] = new
    BY <1>1 DEF Call, Enter, Here
  <2>2. entered[r] + 1 \in 1 .. entered[r] + 1 /\ ~(entered[r] + 1 <= entered[r])
    BY <1>1
  <2>3. new[entered[r] + 1] = [op |-> op, val |-> val]
    BY <2>2
  <2> QED BY <2>1, <2>3
<1> QED BY <1>1, <1>2, <1>3 DEF Call, Enter, Goto, Here

\* A rank's step leaves the other ranks, and what has been posted, alone.
LEMMA Frame ==
  ASSUME ControlInv, NEW r \in Rank, Train(r) \/ Runtime(r)
  PROVE  /\ args' = args
         /\ \A q \in Rank : entered'[q] >= entered[q]
         /\ \A q \in Rank : q # r => /\ pc'[q] = pc[q] /\ step'[q] = step[q]
                                     /\ model'[q] = model[q] /\ entered'[q] = entered[q]
         /\ \A q \in Rank : \A k \in 1 .. entered[q] : posted'[q][k] = posted[q][k]
<1> USE DEF ControlInv, TypeOK, WorkerTypeOK, Here
<1>1. CASE Runtime(r)
  BY <1>1 DEF Runtime, Environment, Launcher, Crash, PeerLost, KillWorker
<1>2. CASE Setup(r)
  <2>1. CASE RejectBackend(r)
    BY <1>2, <2>1 DEF Setup, RejectBackend, Fail
  <2>2. CASE SetupDistributed(r)
    BY <1>2, <2>2, CallFrame DEF Setup, SetupDistributed
  <2> QED BY <1>2, <2>1, <2>2 DEF Setup
<1>3. CASE WrapModel(r) \/ ForwardBackward(r) \/ GatherFingerprints(r)
  BY <1>3, CallFrame DEF WrapModel, ForwardBackward, GatherFingerprints
<1>4. CASE ModelWrapped(r) \/ OptimizerStep(r)
  BY <1>4 DEF ModelWrapped, OptimizerStep, Advance, EndStep, Goto
<1>5. CASE CheckWeights(r) \/ SaveState(r) \/ SaveHistory(r) \/ Finish(r)
  BY <1>5 DEF CheckWeights, SaveState, SaveHistory, Finish, Fail, Advance, WriteArtifact, Return, Goto
<1>6. CASE Report(r)
  <2>1. CASE Fail(r)
    BY <1>6, <2>1 DEF Report, Fail
  <2>2. CASE Call(r, "barrier", NoVal, "barrier")
    BY <1>6, <2>2, CallFrame DEF Report
  <2> QED BY <1>6, <2>1, <2>2 DEF Report
<1> QED BY <1>1, <1>2, <1>3, <1>4, <1>5, <1>6 DEF Train

\* Most steps touch neither weights nor step counts.
Quiet(r) ==
  \/ Setup(r) \/ ForwardBackward(r) \/ GatherFingerprints(r) \/ CheckWeights(r)
  \/ SaveState(r) \/ SaveHistory(r) \/ Report(r) \/ Finish(r) \/ Runtime(r)

LEMMA QuietCall ==
  ASSUME ControlInv, NEW r \in Rank, NEW op, NEW val, NEW next, Call(r, op, val, next),
         UNCHANGED model, Trained(r), pc[r] # "backward", entered[r] >= 2,
         next \notin {"start", "setup", "wrap"}
  PROVE  /\ model' = model /\ step' = step
         /\ \A q \in Rank : Trained(q)' <=> Trained(q)
         /\ \A q \in Rank : pc[q] = "backward" => entered'[q] = entered[q]
         /\ entered[0] < 2 => entered'[0] < 2
<1>1. /\ step' = step
      /\ pc'[r] = next
      /\ \A q \in Rank : q # r => pc'[q] = pc[q] /\ entered'[q] = entered[q]
  BY CallFrame
<1>2. entered \in [Rank -> Nat]
  BY DEF ControlInv, TypeOK, WorkerTypeOK
<1>3. entered[0] < 2 => entered'[0] < 2
  BY <1>1, <1>2, RankZero
<1>4. \A q \in Rank : Trained(q)' <=> Trained(q)
  BY <1>1 DEF Trained
<1> QED BY <1>1, <1>3, <1>4

LEMMA QuietStep ==
  ASSUME ControlInv, NEW r \in Rank, Quiet(r)
  PROVE  /\ model' = model /\ step' = step
         /\ \A q \in Rank : Trained(q)' <=> Trained(q)
         /\ \A q \in Rank : pc[q] = "backward" => entered'[q] = entered[q]
         /\ entered[0] < 2 => entered'[0] < 2
<1>0. args.steps \in Nat /\ step[r] \in Nat
  <2>1. args.steps \in Nat
    BY StepCountsAssumption DEF ControlInv, TypeOK, WorkerTypeOK
  <2> QED BY <2>1 DEF ControlInv, TypeOK, WorkerTypeOK
<1>a. pc[r] \in {"loop", "report"} => entered[r] >= 2
  BY <1>0 DEF ControlInv, Position, Here
<1> USE DEF Here, Trained, At
<1>1. CASE Runtime(r)
  BY <1>1 DEF Runtime, Environment, Launcher, Crash, PeerLost, KillWorker
<1>2. CASE Setup(r)
  BY <1>2, RankZero DEF Setup, RejectBackend, SetupDistributed, Fail, Call, Enter, Goto, Position,
     ControlInv, TypeOK, WorkerTypeOK
<1>3. CASE ForwardBackward(r)
  <2>1. PICK b \in Batch : Call(r, "allreduce", Grad(model[r], b), "backward")
    BY <1>3 DEF ForwardBackward
  <2>2. pc[r] = "loop" /\ UNCHANGED model
    BY <1>3 DEF ForwardBackward
  <2> QED BY <1>a, <2>1, <2>2, QuietCall
<1>4. CASE GatherFingerprints(r)
  BY <1>a, <1>4, QuietCall DEF GatherFingerprints
<1>5. CASE CheckWeights(r) \/ SaveState(r) \/ SaveHistory(r) \/ Finish(r)
  BY <1>5 DEF CheckWeights, AfterCheck, SaveState, SaveHistory, Finish, Fail, Advance, WriteArtifact,
              Return, Goto, ControlInv, TypeOK, WorkerTypeOK
<1>6. CASE Report(r)
  <2>1. CASE Fail(r)
    BY <1>6, <2>1 DEF Report, Fail
  <2>2. CASE Call(r, "barrier", NoVal, "barrier")
    BY <1>6, <1>a, <2>2, QuietCall DEF Report
  <2> QED BY <1>6, <2>1, <2>2 DEF Report
<1> QED BY <1>1, <1>2, <1>3, <1>4, <1>5, <1>6 DEF Quiet

\* A trained rank that is a step behind waits in the allreduce of that step,
\* which every rank has entered.
LEMMA BehindWaits ==
  ASSUME ControlInv, NEW q \in Rank, NEW r \in Rank, Trained(r), step[q] >= step[r] + 1
  PROVE  /\ pc[r] = "backward" /\ Here(r) = 3 + step[r]
         /\ \A p \in Rank : Here(p) >= Here(r)
         /\ step[q] = step[r] + 1
<1>1. args.steps \in Nat
  BY StepCountsAssumption DEF ControlInv, TypeOK, WorkerTypeOK
<1>2. /\ step[q] \in Nat /\ step[q] <= args.steps
      /\ step[r] \in Nat /\ pc[r] \in Label
      /\ \A p \in Rank : Here(p) \in Nat
  BY <1>1 DEF ControlInv, TypeOK, WorkerTypeOK, Here
<1>3. \A p \in Rank : Here(p) >= 2 + step[q]
  BY <1>2 DEF ControlInv, Passed
<1>4. pc[r] = "backward" /\ Here(r) = 3 + step[r]
  BY <1>1, <1>2, <1>3 DEF ControlInv, Position, Label, Trained
<1> QED BY <1>2, <1>3, <1>4

\* What the ranks brought to a collective that all have entered is settled.
LEMMA GatheredStays ==
  ASSUME ControlInv, NEW r \in Rank, Train(r) \/ Runtime(r),
         NEW s \in Rank, entered'[s] = entered[s], Here(s) >= 1,
         \A p \in Rank : Here(p) >= Here(s)
  PROVE  Gathered(s)' = Gathered(s)
<1>1. \A p \in Rank : entered[s] \in 1 .. entered[p]
  BY DEF ControlInv, TypeOK, WorkerTypeOK, Here
<1>2. \A p \in Rank : posted'[p][entered[s]] = posted[p][entered[s]]
  BY <1>1, Frame
<1> QED BY <1>2 DEF Gathered, ValAt, Here

LEMMA BroadcastStep ==
  ASSUME ControlInv, Rank0Broadcast, NEW r \in Rank, Train(r) \/ Runtime(r)
  PROVE  Rank0Broadcast'
<1>0. entered \in [Rank -> Nat]
  BY DEF ControlInv, TypeOK, WorkerTypeOK
<1>1. CASE entered[0] >= 2
  <2>1. posted'[0][2] = posted[0][2]
    <3>1. 2 \in 1 .. entered[0]
      BY <1>0, <1>1, RankZero
    <3> QED BY <3>1, Frame, RankZero
  <2> QED BY <1>1, <2>1 DEF Rank0Broadcast, ValAt, Here
<1>2. CASE ~(entered[0] >= 2) /\ Quiet(r)
  <2>1. entered[0] < 2 => entered'[0] < 2
    BY <1>2, QuietStep
  <2>2. entered'[0] \in Nat
    BY ControlTrain, ControlRuntime, RankZero DEF ControlInv, TypeOK, WorkerTypeOK
  <2> QED BY <1>0, <1>2, <2>1, <2>2, RankZero DEF Rank0Broadcast, Here
<1>3. CASE ~(entered[0] >= 2) /\ WrapModel(r)
  <2>1. CASE r = 0
    <3>1. Call(r, "broadcast", InitW(r), "wrap") /\ pc[r] = "setup"
      BY <1>3 DEF WrapModel, At
    <3>2. entered[r] = 1
      BY <3>1 DEF ControlInv, Position, Here
    <3>3. entered[r] + 1 = 2
      BY <3>2
    <3>4. posted'[r][entered[r] + 1].val = InitW(r)
      BY <3>1, CallFrame
    <3> QED BY <2>1, <3>3, <3>4 DEF Rank0Broadcast, ValAt
  <2>2. CASE r # 0
    <3>1. entered'[0] = entered[0]
      BY <2>2, Frame, RankZero
    <3> QED BY <1>3, <3>1 DEF Rank0Broadcast, Here
  <2> QED BY <2>1, <2>2
<1>4. CASE ~(entered[0] >= 2) /\ (ModelWrapped(r) \/ OptimizerStep(r))
  BY <1>4 DEF Rank0Broadcast, Here, ModelWrapped, OptimizerStep, Advance, EndStep
<1> QED BY <1>1, <1>2, <1>3, <1>4 DEF Quiet, Train

\* The four facts about the weights, under a step that leaves them alone.
LEMMA SyncQuiet ==
  ASSUME SyncInv, NEW r \in Rank, Quiet(r)
  PROVE  StartsFromRank0' /\ ReplicasAgree' /\ OneStepBehind'
<1> USE DEF SyncInv
<1>1. /\ model' = model /\ step' = step
      /\ \A q \in Rank : Trained(q)' <=> Trained(q)
      /\ \A q \in Rank : pc[q] = "backward" => entered'[q] = entered[q]
  BY QuietStep
<1>2. StartsFromRank0' /\ ReplicasAgree'
  BY <1>1 DEF StartsFromRank0, ReplicasAgree
<1>3. ASSUME NEW q \in Rank, NEW s \in Rank, Trained(q)', Trained(s)', step'[q] = step'[s] + 1
      PROVE  model'[q] = Apply(model'[s], Gathered(s)')
  <2>1. Trained(q) /\ Trained(s) /\ step[q] = step[s] + 1
    BY <1>1, <1>3
  <2>2. step[s] \in Nat /\ step[q] \in Nat
    BY StepCountsAssumption DEF ControlInv, TypeOK, WorkerTypeOK
  <2>3. pc[s] = "backward" /\ Here(s) = 3 + step[s] /\ \A p \in Rank : Here(p) >= Here(s)
    BY <2>1, <2>2, BehindWaits
  <2>4. Gathered(s)' = Gathered(s)
    BY <1>1, <2>2, <2>3, GatheredStays DEF Quiet, Train
  <2> QED BY <1>1, <2>1, <2>4 DEF OneStepBehind
<1> QED BY <1>2, <1>3 DEF OneStepBehind

LEMMA SyncWrapModel ==
  ASSUME SyncInv, NEW r \in Rank, WrapModel(r)
  PROVE  StartsFromRank0' /\ ReplicasAgree' /\ OneStepBehind'
<1> USE DEF SyncInv
<1>1. /\ step' = step
      /\ \A q \in Rank : q # r => pc'[q] = pc[q] /\ model'[q] = model[q] /\ entered'[q] = entered[q]
  BY Frame DEF Train, WrapModel, Call
<1>2. ~Trained(r)'
  BY DEF WrapModel, Call, Goto, Trained, ControlInv, TypeOK, WorkerTypeOK
<1>3. \A q \in Rank : Trained(q)' => Trained(q) /\ q # r
  BY <1>1, <1>2 DEF Trained
<1>4. StartsFromRank0' /\ ReplicasAgree'
  BY <1>1, <1>3 DEF StartsFromRank0, ReplicasAgree
<1>5. ASSUME NEW q \in Rank, NEW s \in Rank, Trained(q)', Trained(s)', step'[q] = step'[s] + 1
      PROVE  model'[q] = Apply(model'[s], Gathered(s)')
  <2>1. Trained(q) /\ Trained(s) /\ q # r /\ s # r /\ step[q] = step[s] + 1
    BY <1>1, <1>3, <1>5
  <2>2. step[s] \in Nat /\ step[q] \in Nat
    BY StepCountsAssumption DEF ControlInv, TypeOK, WorkerTypeOK
  <2>3. Here(s) = 3 + step[s] /\ \A p \in Rank : Here(p) >= Here(s)
    BY <2>1, <2>2, BehindWaits
  <2>4. Gathered(s)' = Gathered(s)
    BY <1>1, <2>1, <2>2, <2>3, GatheredStays DEF Train
  <2> QED BY <1>1, <2>1, <2>4 DEF OneStepBehind
<1> QED BY <1>4, <1>5 DEF OneStepBehind

LEMMA SyncModelWrapped ==
  ASSUME SyncInv, NEW r \in Rank, ModelWrapped(r)
  PROVE  StartsFromRank0' /\ ReplicasAgree' /\ OneStepBehind'
<1> USE DEF SyncInv
<1>0. step \in [Rank -> Nat]
  <2>1. args.steps \in Nat
    BY StepCountsAssumption DEF ControlInv, TypeOK, WorkerTypeOK
  <2> QED BY <2>1 DEF ControlInv, TypeOK, WorkerTypeOK
<1>1. /\ pc[r] = "wrap" /\ pc' = [pc EXCEPT ![r] = "loop"]
      /\ UNCHANGED <<step, entered, posted>>
      /\ model' = [model EXCEPT ![r] = FromRank0(r)]
  BY DEF ModelWrapped, WrappedWeights, Advance, Goto, At
<1>2. Here(r) = 2 /\ step[r] = 0
  BY <1>1 DEF ControlInv, Position
<1>3. FromRank0(r) = InitW(0)
  <2>1. OpAt(r, 2) = "broadcast"
    BY <1>2 DEF ControlInv, OnSchedule, ScheduledOp
  <2>2. Here(0) >= 2
    BY <1>2, <2>1 DEF ModelWrapped, Complete, Met
  <2> QED BY <1>2, <2>2 DEF FromRank0, Rank0Broadcast
<1>4. model'[r] = InitW(0) /\ \A q \in Rank : q # r => model'[q] = model[q]
  BY <1>1, <1>3 DEF ControlInv, TypeOK
<1>5. \A q \in Rank : q # r => (Trained(q)' <=> Trained(q))
  BY <1>1 DEF Trained, ControlInv, TypeOK, WorkerTypeOK
<1>6. StartsFromRank0'
  BY <1>1, <1>4, <1>5 DEF StartsFromRank0
<1>7. ReplicasAgree'
  <2>1. \A q \in Rank : Trained(q)' /\ step'[q] = 0 => model'[q] = InitW(0)
    BY <1>6 DEF StartsFromRank0
  <2> QED BY <1>1, <1>2, <1>4, <1>5, <2>1 DEF ReplicasAgree
<1>8. \A s \in Rank : Gathered(s)' = Gathered(s)
  BY <1>1 DEF Gathered, ValAt, Here
<1>9. ASSUME NEW q \in Rank, NEW s \in Rank, Trained(q)', Trained(s)', step'[q] = step'[s] + 1
      PROVE  model'[q] = Apply(model'[s], Gathered(s)')
  <2>1. step[q] = step[s] + 1
    BY <1>1, <1>9
  <2>2. q # r
    BY <1>0, <1>2, <2>1
  <2>3. s # r
    <3>1. step[q] > 0
      BY <1>0, <2>1
    <3>2. Here(s) >= 2 + step[q]
      BY <3>1 DEF ControlInv, Passed
    <3> QED BY <1>0, <1>2, <2>1, <3>2
  <2> QED BY <1>4, <1>5, <1>8, <1>9, <2>1, <2>2, <2>3 DEF OneStepBehind
<1> QED BY <1>6, <1>7, <1>9 DEF OneStepBehind

\* Ranks that make the same step meet in the same allreduce.
LEMMA SyncOptimizerStep ==
  ASSUME SyncInv, GradSync, NEW r \in Rank, OptimizerStep(r)
  PROVE  StartsFromRank0' /\ ReplicasAgree' /\ OneStepBehind'
<1> USE DEF SyncInv
<1>0. step \in [Rank -> Nat] /\ args.steps \in Nat /\ entered \in [Rank -> Nat]
  <2>1. args.steps \in Nat
    BY StepCountsAssumption DEF ControlInv, TypeOK, WorkerTypeOK
  <2> QED BY <2>1 DEF ControlInv, TypeOK, WorkerTypeOK
<1>1. /\ pc[r] = "backward" /\ pc' = [pc EXCEPT ![r] = "loop"]
      /\ step' = [step EXCEPT ![r] = @ + 1]
      /\ UNCHANGED <<entered, posted>>
      /\ model' = [model EXCEPT ![r] = Apply(@, Gathered(r))]
  BY DEF OptimizerStep, Reduced, EndStep, Goto, At
<1>2. /\ model'[r] = Apply(model[r], Gathered(r)) /\ step'[r] = step[r] + 1
      /\ \A q \in Rank : q # r => model'[q] = model[q] /\ step'[q] = step[q]
  BY <1>0, <1>1 DEF ControlInv, TypeOK
<1>3. \A q \in Rank : Trained(q)' <=> Trained(q)
  BY <1>1 DEF Trained, ControlInv, TypeOK, WorkerTypeOK
<1>4. \A s \in Rank : Gathered(s)' = Gathered(s)
  BY <1>1 DEF Gathered, ValAt, Here
<1>5. StartsFromRank0'
  BY <1>0, <1>2, <1>3 DEF StartsFromRank0
<1>6. Trained(r)
  BY <1>1 DEF Trained
<1>7. ReplicasAgree'
  <2>1. \A q \in Rank : q # r /\ Trained(q) /\ step[q] = step[r] + 1 => model'[q] = model'[r]
    BY <1>2, <1>6 DEF OneStepBehind
  <2> QED BY <1>2, <1>3, <2>1 DEF ReplicasAgree
<1>8. ASSUME NEW s \in Rank, s # r, Trained(s), step[s] = step[r]
      PROVE  Gathered(s) = Gathered(r)
  <2>1. Here(r) = 3 + step[r] /\ step[r] < args.steps
    BY <1>1 DEF ControlInv, Position
  <2>2. Here(s) >= Here(r)
    BY <1>1, MetAll DEF OptimizerStep, Here
  <2>3. pc[s] \in Label \ {"start", "setup", "wrap"}
    BY <1>8 DEF Trained, ControlInv, TypeOK, WorkerTypeOK
  <2>4. Here(s) = Here(r)
    BY <1>0, <1>8, <2>1, <2>2, <2>3 DEF ControlInv, Position, Label, Here
  <2> QED BY <2>4 DEF Gathered
<1>9. ASSUME NEW q \in Rank, NEW s \in Rank, Trained(q)', Trained(s)', step'[q] = step'[s] + 1
      PROVE  model'[q] = Apply(model'[s], Gathered(s)')
  <2>1. Trained(q) /\ Trained(s)
    BY <1>3, <1>9
  <2>2. CASE q = r /\ s = r
    BY <1>0, <1>2, <1>9, <2>2
  <2>3. CASE q = r /\ s # r
    <3>1. step[s] = step[r]
      BY <1>0, <1>2, <1>9, <2>3
    <3>2. model[s] = model[r]
      BY <2>1, <2>3, <3>1 DEF ReplicasAgree
    <3> QED BY <1>2, <1>4, <1>8, <2>1, <2>3, <3>1, <3>2
  <2>4. CASE q # r /\ s = r
    <3>1. step[q] = step[r] + 1 + 1
      BY <1>2, <1>9, <2>4
    <3>2. step[q] = step[r] + 1
      BY <1>0, <2>1, <2>4, <3>1, BehindWaits
    <3> QED BY <1>0, <3>1, <3>2
  <2>5. CASE q # r /\ s # r
    BY <1>2, <1>4, <1>9, <2>1, <2>5 DEF OneStepBehind
  <2> QED BY <2>2, <2>3, <2>4, <2>5
<1> QED BY <1>5, <1>7, <1>9 DEF OneStepBehind

\* The invariant behind ReplicasAgree: ranks at the same step agree, and one
\* that is a step behind is about to compute what the others already hold.
THEOREM SyncCorrect ==
  ASSUME GradSync
  PROVE  Spec => []SyncInv
<1>1. Init => SyncInv
  <2>1. Init => \A r \in Rank : ~Trained(r) /\ Here(r) = 0
    BY DEF Init, WorkerInit, CommInit, Trained, Here
  <2> QED BY <2>1, ControlInit, RankZero
          DEF SyncInv, Rank0Broadcast, StartsFromRank0, ReplicasAgree, OneStepBehind
<1>2. SyncInv /\ [Next]_vars => SyncInv'
  <2> SUFFICES ASSUME SyncInv, [Next]_vars PROVE SyncInv'
    OBVIOUS
  <2>1. CASE UNCHANGED vars
    BY <2>1, ControlStuttering
    DEF vars, SyncInv, Rank0Broadcast, StartsFromRank0, ReplicasAgree, OneStepBehind, Trained,
        Here, ValAt, Gathered
  <2>2. ASSUME NEW r \in Rank, Train(r) \/ Runtime(r) PROVE SyncInv'
    <3>1. ControlInv'
      BY <2>2, ControlTrain, ControlRuntime DEF SyncInv
    <3>2. Rank0Broadcast'
      BY <2>2, BroadcastStep DEF SyncInv
    <3>3. StartsFromRank0' /\ ReplicasAgree' /\ OneStepBehind'
      BY <2>2, SyncQuiet, SyncWrapModel, SyncModelWrapped, SyncOptimizerStep DEF Train, Quiet
    <3> QED BY <3>1, <3>2, <3>3 DEF SyncInv
  <2> QED BY <2>1, <2>2 DEF Next, Over
<1> QED BY <1>1, <1>2, PTL DEF Spec

\* Replicas that have made the same number of steps hold the same weights.
THEOREM ReplicasInSync ==
  ASSUME GradSync
  PROVE  Spec => []ReplicasAgree
<1>1. SyncInv => ReplicasAgree
  BY DEF SyncInv
<1> QED BY <1>1, SyncCorrect, PTL

-----------------------------------------------------------------------------
\* Only GatherFingerprints enters the all_gather of the weight sync check.
LEMMA EntersCheck ==
  ASSUME ControlInv, NEW r \in Rank, Train(r) \/ Runtime(r),
         ~(Here(r) >= 3 + args.steps), Here(r)' >= 3 + args.steps
  PROVE  GatherFingerprints(r)
<1>0. args.steps \in Nat /\ step[r] \in Nat /\ entered[r] \in Nat
  <2>1. args.steps \in Nat
    BY StepCountsAssumption DEF ControlInv, TypeOK, WorkerTypeOK
  <2> QED BY <2>1 DEF ControlInv, TypeOK, WorkerTypeOK
<1>1. entered'[r] # entered[r]
  BY DEF Here
<1>2. ASSUME NEW op, NEW val, NEW next, Call(r, op, val, next)
      PROVE  entered[r] + 1 >= 3 + args.steps
  BY <1>2, CallFrame DEF Here
<1>3. ~Runtime(r)
  BY <1>1 DEF Runtime, Environment, Launcher, Crash, PeerLost, KillWorker
<1>4. ~Setup(r)
  <2>1. ~RejectBackend(r)
    BY <1>1 DEF RejectBackend, Fail
  <2>2. ASSUME SetupDistributed(r) PROVE FALSE
    <3>1. entered[r] = 0
      BY <2>2 DEF SetupDistributed, At, ControlInv, Position, Here
    <3> QED BY <1>0, <1>2, <2>2, <3>1 DEF SetupDistributed
  <2> QED BY <2>1, <2>2 DEF Setup
<1>5. ~WrapModel(r)
  <2>1. SUFFICES ASSUME WrapModel(r) PROVE FALSE
    OBVIOUS
  <2>2. entered[r] = 1
    BY <2>1 DEF WrapModel, At, ControlInv, Position, Here
  <2> QED BY <1>0, <1>2, <2>1, <2>2 DEF WrapModel
<1>6. ~ForwardBackward(r)
  <2>1. SUFFICES ASSUME ForwardBackward(r) PROVE FALSE
    OBVIOUS
  <2>2. entered[r] = 2 + step[r] /\ step[r] < args.steps
    BY <2>1 DEF ForwardBackward, At, ControlInv, Position, Here
  <2>3. entered[r] + 1 >= 3 + args.steps
    BY <1>2, <2>1 DEF ForwardBackward
  <2> QED BY <1>0, <2>2, <2>3
<1>7. ~(ModelWrapped(r) \/ OptimizerStep(r))
  BY <1>1 DEF ModelWrapped, OptimizerStep, Advance, EndStep
<1>8. ~(CheckWeights(r) \/ SaveState(r) \/ SaveHistory(r) \/ Finish(r))
  BY <1>1 DEF CheckWeights, SaveState, SaveHistory, Finish, Fail, Advance, WriteArtifact, Return
<1>9. ~Report(r)
  <2>1. SUFFICES ASSUME Report(r) PROVE FALSE
    OBVIOUS
  <2>2. Here(r) = 3 + args.steps
    BY <2>1 DEF Report, At, ControlInv, Position
  <2> QED BY <1>0, <2>2
<1> QED BY <1>3, <1>4, <1>5, <1>6, <1>7, <1>8, <1>9 DEF Train

\* A rank that has shown its fingerprint does not change its weights any more.
LEMMA WeightsFrozen ==
  ASSUME ControlInv, NEW r \in Rank, Train(r) \/ Runtime(r), Here(r) >= 3 + args.steps
  PROVE  model' = model
<1>0. args.steps \in Nat /\ step[r] \in Nat
  <2>1. args.steps \in Nat
    BY StepCountsAssumption DEF ControlInv, TypeOK, WorkerTypeOK
  <2> QED BY <2>1 DEF ControlInv, TypeOK, WorkerTypeOK
<1>1. pc[r] \notin {"setup", "wrap", "backward"}
  BY <1>0 DEF ControlInv, Position
<1>2. Quiet(r)
  BY <1>1 DEF Quiet, Train, WrapModel, ModelWrapped, OptimizerStep, At
<1> QED BY <1>2, QuietStep

\* Only CheckWeights takes a rank past the check, rank 0 only if all agree.
LEMMA EntersAfter ==
  ASSUME ControlInv, NEW r \in Rank, Train(r) \/ Runtime(r),
         pc[r] \notin {"save_state", "save_history", "report", "barrier", "done"},
         pc'[r] \in {"save_state", "save_history", "report", "barrier", "done"}
  PROVE  CheckWeights(r) /\ (r = 0 => WeightsMatch(r)) /\ UNCHANGED posted
<1>0. pc \in [Rank -> Label]
  BY DEF ControlInv, TypeOK, WorkerTypeOK
<1>1. pc'[r] # pc[r]
  OBVIOUS
<1>2. ~Runtime(r) /\ ~Fail(r)
  BY <1>1 DEF Runtime, Environment, Launcher, Crash, PeerLost, KillWorker, Fail
<1>3. ~(SaveState(r) \/ SaveHistory(r) \/ Report(r) \/ Finish(r))
  BY DEF SaveState, SaveHistory, Report, Finish, At
<1>4. ~(Setup(r) \/ WrapModel(r) \/ ForwardBackward(r) \/ GatherFingerprints(r))
  <2>1. ASSUME NEW op, NEW val,
               NEW next \in {"setup", "wrap", "backward", "gather"}, Call(r, op, val, next)
        PROVE  FALSE
    BY <2>1, CallFrame
  <2> QED BY <1>2, <2>1 DEF Setup, RejectBackend, SetupDistributed, WrapModel, ForwardBackward,
                            GatherFingerprints
<1>5. ~(ModelWrapped(r) \/ OptimizerStep(r))
  BY <1>0 DEF ModelWrapped, OptimizerStep, Advance, EndStep, Goto
<1>6. CheckWeights(r)
  BY <1>2, <1>3, <1>4, <1>5 DEF Train
<1> QED BY <1>2, <1>6 DEF CheckWeights, Advance

LEMMA CheckStep ==
  ASSUME ControlInv, FingerprintsShown, NEW r \in Rank, Train(r) \/ Runtime(r)
  PROVE  FingerprintsShown'
<1> DEFINE G == 3 + args.steps
           After == {"save_state", "save_history", "report", "barrier", "done"}
<1>0. args.steps \in Nat /\ entered \in [Rank -> Nat] /\ pc \in [Rank -> Label]
  BY StepCountsAssumption DEF ControlInv, TypeOK, WorkerTypeOK
<1>1. args' = args
  BY Frame
<1>2. \A q \in Rank : Here(q) >= G => ValAt(q, G)' = ValAt(q, G)
  <2>1. \A q \in Rank : Here(q) >= G => G \in 1 .. entered[q]
    BY <1>0 DEF Here
  <2> QED BY <2>1, <1>1, Frame DEF ValAt
<1>3. ASSUME NEW q \in Rank, Here(q)' >= G
      PROVE  ValAt(q, G)' = Fingerprint(model'[q])
  <2>1. CASE Here(q) >= G
    <3>1. model'[q] = model[q]
      BY <2>1, Frame, WeightsFrozen
    <3> QED BY <1>2, <2>1, <3>1 DEF FingerprintsShown
  <2>2. CASE ~(Here(q) >= G)
    <3>1. q = r
      BY <1>3, <2>2, Frame DEF Here
    <3>2. GatherFingerprints(r)
      BY <1>3, <2>2, <3>1, EntersCheck
    <3>3. entered[r] + 1 = G
      BY <1>0, <3>2 DEF GatherFingerprints, At, ControlInv, Position, Here
    <3>4. posted'[r][entered[r] + 1].val = Fingerprint(model[r]) /\ model' = model
      BY <3>2, CallFrame DEF GatherFingerprints
    <3> QED BY <1>1, <3>1, <3>3, <3>4 DEF ValAt
  <2> QED BY <2>1, <2>2
<1>4. ASSUME pc'[0] \in After, NEW q \in Rank
      PROVE  ValAt(q, G)' = ValAt(0, G)'
  <2>1. CASE pc[0] \in After
    <3>1. \A p \in Rank : Here(p) >= G
      BY <2>1, RankZero DEF ControlInv, Passed
    <3>2. ValAt(q, G) = ValAt(0, G)
      BY <2>1 DEF FingerprintsShown
    <3> QED BY <1>2, <3>1, <3>2, RankZero
  <2>2. CASE pc[0] \notin After
    <3>1. r = 0
      BY <1>4, <2>2, Frame, RankZero
    <3>2. CheckWeights(0) /\ WeightsMatch(0) /\ UNCHANGED posted
      BY <1>4, <2>2, <3>1, EntersAfter, RankZero
    <3>3. Here(0) = G
      BY <3>2, RankZero DEF CheckWeights, At, ControlInv, Position
    <3>4. ValAt(q, G) = ValAt(0, G)
      BY <3>2, <3>3, RankZero DEF WeightsMatch, Gathered
    <3> QED BY <1>1, <3>2, <3>4 DEF ValAt
  <2> QED BY <2>1, <2>2
<1> QED BY <1>1, <1>3, <1>4 DEF FingerprintsShown

LEMMA CheckStarts == Init => CheckInv
<1>1. ASSUME Init PROVE FingerprintsShown
  <2>1. args.steps \in Nat /\ \A r \in Rank : Here(r) = 0 /\ pc[r] = "start"
    BY <1>1, ControlInit, StepCountsAssumption
    DEF ControlInv, TypeOK, WorkerTypeOK, Init, WorkerInit, CommInit, Here
  <2> QED BY <2>1, RankZero DEF FingerprintsShown
<1> QED BY <1>1, ControlInit DEF CheckInv

\* The invariant behind the weight sync check, with or without a working
\* gradient allreduce.
THEOREM CheckCorrect == Spec => []CheckInv
<1>1. Init => CheckInv
  BY CheckStarts
<1>2. CheckInv /\ [Next]_vars => CheckInv'
  <2>1. CheckInv /\ UNCHANGED vars => CheckInv'
    BY ControlStuttering DEF vars, CheckInv, FingerprintsShown, Here, ValAt
  <2>2. ASSUME CheckInv, NEW r \in Rank, Train(r) \/ Runtime(r) PROVE CheckInv'
    BY <2>2, ControlTrain, ControlRuntime, CheckStep DEF CheckInv
  <2> QED BY <2>1, <2>2 DEF Next, Over
<1> QED BY <1>1, <1>2, PTL DEF Spec

\* When every rank has returned, they have shown each other the same fingerprint.
LEMMA CheckedFingerprints ==
  CheckInv /\ LauncherOK => \A q, r \in Rank : Fingerprint(model[q]) = Fingerprint(model[r])
<1>1. ASSUME CheckInv, LauncherOK, NEW q \in Rank
      PROVE  Fingerprint(model[q]) = ValAt(0, 3 + args.steps)
  <2>1. \A r \in Rank : pc[r] = "done"
    BY <1>1 DEF LauncherOK, CheckInv, ControlInv, ExitedAtEnd
  <2>2. Here(q) >= 3 + args.steps
    BY <1>1, <2>1 DEF CheckInv, ControlInv, Passed
  <2> QED BY <1>1, <2>1, <2>2, RankZero DEF CheckInv, FingerprintsShown
<1> QED BY <1>1

\* When the launcher reports success, the fingerprints of the final weights
\* agree: rank 0's SystemExit is the only guard, and it is enough.
THEOREM SuccessMeansSameFingerprints ==
  Spec => [](LauncherOK => \A q, r \in Rank : Fingerprint(model[q]) = Fingerprint(model[r]))
BY CheckedFingerprints, CheckCorrect, PTL

\* SuccessMeansInSync for any behaviour of the gradient allreduce, as far as
\* params_fingerprint tells different weights apart.
THEOREM SuccessInSync ==
  ASSUME \A v, w : Fingerprint(v) = Fingerprint(w) => v = w
  PROVE  Spec => []SuccessMeansInSync
<1>1. (LauncherOK => \A q, r \in Rank : Fingerprint(model[q]) = Fingerprint(model[r]))
        => SuccessMeansInSync
  BY DEF SuccessMeansInSync
<1> QED BY <1>1, SuccessMeansSameFingerprints, PTL

-----------------------------------------------------------------------------
(* The two abstract specifications it implements: Launch, the contract the *)
(* notebooks rely on, and the single training loop of ReferenceTraining.    *)

\* A step that may change which artifacts are whole is a write of one of them.
LEMMA SavedStep ==
  ASSUME ControlInv, SavedInv, NEW r \in Rank, Train(r) \/ Runtime(r)
  PROVE  SavedInv'
<1>0. WorkerTypeOK(Label) /\ pc \in [Rank -> Label]
  BY DEF ControlInv, TypeOK, WorkerTypeOK
<1>1. CASE SaveState(r) \/ SaveHistory(r)
  BY <1>0, <1>1, SavedWrite DEF SaveState, SaveHistory
<1>2. CASE ~(SaveState(r) \/ SaveHistory(r))
  <2>1. files' = files /\ args' = args
    BY <1>2
    DEF Train, Runtime, Environment, Launcher, Crash, PeerLost, KillWorker, Setup, RejectBackend,
        SetupDistributed, WrapModel, ModelWrapped, ForwardBackward, OptimizerStep,
        GatherFingerprints, CheckWeights, Report, Finish, Return, Call, Advance, EndStep, Fail
  <2>2. \A q \in Rank : q # r => pc'[q] = pc[q]
    BY Frame
  <2>3. SavesNothing(pc[r], pc'[r])
    BY <1>0, <1>2
    DEF Train, Runtime, Environment, Launcher, Crash, PeerLost, KillWorker, Setup,
        RejectBackend, SetupDistributed, WrapModel, ModelWrapped, ForwardBackward, OptimizerStep,
        GatherFingerprints, CheckWeights, AfterCheck, Report, Finish, Return, Call, Advance,
        EndStep, Fail, At, Goto, SavesNothing, Saving
  <2> QED BY <2>1, <2>2, <2>3, SavedMove
<1> QED BY <1>1, <1>2

\* Which of a rank's artifacts are whole follows from where it is.
THEOREM SavedCorrect == Spec => [](ControlInv /\ SavedInv)
<1>1. Init => SavedInv
  BY SavedStarts DEF Init
<1>2. ControlInv /\ SavedInv /\ [Next]_vars => SavedInv'
  <2>1. SavedInv /\ UNCHANGED vars => SavedInv'
    BY DEF vars, SavedInv
  <2>2. ASSUME ControlInv, SavedInv, NEW r \in Rank, Train(r) \/ Runtime(r) PROVE SavedInv'
    BY <2>2, SavedStep
  <2> QED BY <2>1, <2>2 DEF Next, Over
<1>3. Spec => []SavedInv
  BY <1>1, <1>2, ControlCorrect, PTL DEF Spec
<1> QED BY <1>3, ControlCorrect, PTL

-----------------------------------------------------------------------------
\* When a rank may return, all ranks have come to the closing barrier.
LEMMA FinishesTogether ==
  ASSUME ControlInv, NEW r \in Rank, Finish(r)
  PROVE  \A q \in Rank : pc[q] \in {"barrier", "done"}
<1>1. args.steps \in Nat /\ entered[r] = 4 + args.steps
  BY StepCountsAssumption DEF Finish, At, ControlInv, TypeOK, WorkerTypeOK, Position, Here
<1> QED BY <1>1, MetAll, AllAtBarrier DEF Finish, At, Here

\* Seen by the notebook, the run is a job of Launch: whatever its ranks and the
\* environment do, return code 0 means whole files of this run from every rank.
THEOREM KeepsLaunchContract == Spec => LaunchContract
<1>1. ASSUME ControlInv, SavedInv, [Next]_vars
      PROVE  [Contract!LaunchNext]_(Contract!launchVars)
  <2>1. CASE UNCHANGED vars
    BY <2>1 DEF vars, Contract!launchVars
  <2>2. ASSUME NEW r \in Rank, Train(r) \/ Runtime(r)
        PROVE  Contract!LaunchNext \/ UNCHANGED Contract!launchVars
    <3>1. CASE Runtime(r)
      <4>1. proc[r] = "running"
        BY <3>1 DEF Runtime, Environment, Launcher, Crash, PeerLost, KillWorker
      <4> QED BY <3>1, <4>1, ContractDies DEF Runtime
    <3>2. CASE SaveState(r) \/ SaveHistory(r)
      BY <1>1, <3>2, ContractWrites DEF SaveState, SaveHistory
    <3>3. CASE Finish(r)
      BY <1>1, <3>3, FinishesTogether, ContractEnds DEF Finish
    <3>4. CASE Fail(r) /\ proc[r] = "running"
      BY <3>4, ContractDies
    <3>5. CASE \/ Setup(r) \/ WrapModel(r) \/ ModelWrapped(r) \/ ForwardBackward(r)
               \/ OptimizerStep(r) \/ GatherFingerprints(r) \/ CheckWeights(r) \/ Report(r)
      <4>1. UNCHANGED <<args, files>>
        BY <3>5
        DEF Setup, RejectBackend, SetupDistributed, WrapModel, ModelWrapped, ForwardBackward,
            OptimizerStep, GatherFingerprints, CheckWeights, Report, Call, Advance, EndStep, Fail
      <4>2. UNCHANGED proc \/ (Fail(r) /\ proc[r] = "running")
        BY <3>5
        DEF Setup, RejectBackend, SetupDistributed, WrapModel, ModelWrapped, ForwardBackward,
            OptimizerStep, GatherFingerprints, CheckWeights, Report, Call, Advance, EndStep, At
      <4> QED BY <4>1, <4>2, <3>4 DEF Contract!launchVars
    <3> QED BY <2>2, <3>1, <3>2, <3>3, <3>5 DEF Train
  <2> QED BY <1>1, <2>1, <2>2 DEF Next, Over
<1>2. Init => Contract!LaunchInit
  BY ContractStarts DEF Init
<1> QED BY <1>1, <1>2, SavedCorrect, PTL DEF Spec, LaunchContract, Contract!LaunchSpec

-----------------------------------------------------------------------------
\* Some rank is furthest: ranks are never more than a step apart, so it is rank
\* 0, a rank one step ahead of it, or one that is trained at the same step.
LeaderLeads ==
  /\ Leader \in Rank
  /\ \A q \in Rank : step[q] <= step[Leader] /\ (Trained(q) => Trained(Leader))

LEMMA LeaderIsFurthest == ControlInv /\ Lockstep => LeaderLeads
<1> SUFFICES ASSUME ControlInv, Lockstep PROVE LeaderLeads
  OBVIOUS
<1>0. \A q \in Rank : step[q] \in Nat
  <2>1. args.steps \in Nat
    BY StepCountsAssumption DEF ControlInv, TypeOK, WorkerTypeOK
  <2> QED BY <2>1 DEF ControlInv, TypeOK, WorkerTypeOK
<1>1. ASSUME NEW q \in Rank, ~Trained(q) PROVE step[q] = 0
  BY <1>1 DEF Trained, ControlInv, Position
<1> DEFINE Ahead(r) == \A q \in Rank : step[q] <= step[r] /\ (Trained(q) => Trained(r))
<1>2. \E r \in Rank : Ahead(r)
  <2>1. CASE \E r \in Rank : step[r] > step[0]
    <3>1. PICK r \in Rank : step[r] > step[0]
      BY <2>1
    <3>2. \A q \in Rank : step[q] <= step[0] + 1
      BY RankZero DEF Lockstep
    <3>3. Trained(r) /\ \A q \in Rank : step[q] <= step[r]
      BY <1>0, <1>1, <3>1, <3>2, RankZero
    <3> QED BY <3>3
  <2>2. CASE \A r \in Rank : step[r] <= step[0]
    <3>1. CASE Trained(0) \/ \A q \in Rank : ~Trained(q)
      BY <2>2, <3>1, RankZero
    <3>2. ASSUME ~Trained(0), NEW r \in Rank, Trained(r) PROVE Ahead(r)
      <4>1. step[0] = 0
        BY <1>1, <3>2, RankZero
      <4> QED BY <1>0, <2>2, <3>2, <4>1
    <3> QED BY <3>1, <3>2
  <2> QED BY <1>0, <2>1, <2>2, RankZero
<1> QED BY <1>2 DEF Leader, LeaderLeads

\* The run before and after a step, seen through the ranks that are furthest
LEMMA LeaderKept ==
  ASSUME SyncInv, SyncInv',
         NEW old \in Rank, old = Leader, \A q \in Rank : Trained(q) => Trained(old),
         NEW new \in Rank, new = Leader',
         \A q \in Rank : step'[q] <= step'[new] /\ (Trained(q)' => Trained(new)'),
         step'[old] = step[old], Trained(old) => Trained(old)' /\ model'[old] = model[old],
         \A q \in Rank : step'[q] <= step[old]
  PROVE  /\ GlobalWeights' = GlobalWeights
         /\ step'[new] = step[old]
<1>0. \A q \in Rank : step[q] \in Nat /\ step'[q] \in Nat
  <2>1. args.steps \in Nat /\ args'.steps \in Nat
    BY StepCountsAssumption DEF SyncInv, ControlInv, TypeOK, WorkerTypeOK
  <2> QED BY <2>1 DEF SyncInv, ControlInv, TypeOK, WorkerTypeOK
<1>1. step'[new] = step[old]
  BY <1>0
<1>2. CASE Trained(old)
  <2>1. Trained(old)' /\ Trained(new)'
    BY <1>2
  <2>2. model'[old] = model'[new]
    BY <1>1, <2>1 DEF SyncInv, ReplicasAgree
  <2>3. GlobalWeights = model[old] /\ GlobalWeights' = model'[new]
    BY <1>2, <2>1 DEF GlobalWeights, Trained
  <2> QED BY <1>1, <1>2, <2>2, <2>3
<1>3. CASE ~Trained(old)
  <2>1. step[old] = 0
    BY <1>3 DEF SyncInv, ControlInv, Position, Trained
  <2>2. Trained(new)' => model'[new] = InitW(0)
    BY <1>1, <2>1 DEF SyncInv, StartsFromRank0
  <2>3. GlobalWeights = InitW(0) /\ GlobalWeights' = InitW(0)
    BY <1>3, <2>2 DEF GlobalWeights, Trained
  <2> QED BY <1>1, <2>3
<1> QED BY <1>2, <1>3

\* The gradients a rank waits with are those of the weights it still holds.
LEMMA GradStep ==
  ASSUME ControlInv, GradInv, NEW r \in Rank, Train(r) \/ Runtime(r)
  PROVE  GradInv'
<1>0. entered \in [Rank -> Nat]
  BY DEF ControlInv, TypeOK, WorkerTypeOK
<1> SUFFICES ASSUME NEW q \in Rank, pc'[q] = "backward"
             PROVE  \E b \in Batch : posted'[q][entered'[q]].val = Grad(model'[q], b)
  BY DEF GradInv, ValAt, Here
<1>1. ASSUME pc[q] = "backward", entered'[q] = entered[q], model'[q] = model[q]
      PROVE  \E b \in Batch : posted'[q][entered'[q]].val = Grad(model'[q], b)
  <2>1. args.steps \in Nat
    BY StepCountsAssumption DEF ControlInv, TypeOK, WorkerTypeOK
  <2>2. step[q] \in Nat /\ entered[q] = 3 + step[q]
    BY <1>1, <2>1 DEF ControlInv, TypeOK, WorkerTypeOK, Position, Here
  <2>3. entered[q] \in 1 .. entered[q]
    BY <2>2
  <2>4. posted'[q][entered[q]] = posted[q][entered[q]]
    BY <2>3, Frame
  <2> QED BY <1>1, <2>4 DEF GradInv, ValAt, Here
<1>2. CASE q # r
  BY <1>1, <1>2, Frame
<1>3. CASE q = r /\ ForwardBackward(r)
  <2>1. PICK b \in Batch : Call(r, "allreduce", Grad(model[r], b), "backward")
    BY <1>3 DEF ForwardBackward
  <2>2. posted'[r][entered[r] + 1].val = Grad(model[r], b) /\ entered'[r] = entered[r] + 1
    BY <2>1, CallFrame
  <2> QED BY <1>3, <2>2 DEF ForwardBackward
<1>4. CASE q = r /\ Runtime(r)
  BY <1>1, <1>4 DEF Runtime, Environment, Launcher, Crash, PeerLost, KillWorker
<1>5. CASE q = r /\ Train(r) /\ ~ForwardBackward(r)
  <2>1. pc \in [Rank -> Label]
    BY DEF ControlInv, TypeOK, WorkerTypeOK
  <2>2. ~Fail(r) => pc'[r] # "backward"
    <3> SUFFICES ASSUME ~Fail(r) PROVE pc'[r] # "backward"
      OBVIOUS
    <3>1. CASE Setup(r) \/ WrapModel(r) \/ GatherFingerprints(r) \/ Report(r)
      BY <2>1, <3>1 DEF Setup, RejectBackend, SetupDistributed, WrapModel, GatherFingerprints,
                       Report, Call, Goto
    <3>2. CASE ModelWrapped(r) \/ OptimizerStep(r)
      BY <2>1, <3>2 DEF ModelWrapped, OptimizerStep, Advance, EndStep, Goto
    <3>3. CASE CheckWeights(r) \/ Finish(r)
      BY <2>1, <3>3 DEF CheckWeights, AfterCheck, Finish, Return, Advance, Goto
    <3>4. CASE SaveState(r) \/ SaveHistory(r)
      BY <2>1, <3>4 DEF SaveState, SaveHistory, WriteArtifact, At, Goto
    <3> QED BY <1>5, <3>1, <3>2, <3>3, <3>4 DEF Train
  <2>3. CASE Fail(r)
    <3>1. UNCHANGED <<pc, entered>>
      BY <2>3 DEF Fail
    <3>2. pc[r] = "backward"
      BY <1>5, <3>1
    <3>3. ~OptimizerStep(r)
      BY <1>5, <2>1 DEF OptimizerStep, EndStep, Goto
    <3>4. model' = model
      BY <1>5, <3>2, <3>3 DEF Train, Setup, WrapModel, ModelWrapped, GatherFingerprints,
                             CheckWeights, SaveState, SaveHistory, Report, Finish, At
    <3> QED BY <1>1, <1>5, <3>1, <3>2, <3>4
  <2> QED BY <1>5, <2>2, <2>3
<1> QED BY <1>2, <1>3, <1>4, <1>5

\* When the furthest rank updates its replica, so will all others: they wait in
\* the same allreduce, with gradients of the same weights.
LEMMA LeaderSteps ==
  ASSUME SyncInv, GradInv, GradSync, NEW r \in Rank, OptimizerStep(r),
         \A q \in Rank : step[q] <= step[r],
         NEW W, \A q \in Rank : Trained(q) /\ step[q] = step[r] => model[q] = W
  PROVE  \E b \in [Rank -> Batch] :
           model'[r] = Apply(W, [p \in Rank |-> Grad(W, b[p])])
<1>0. args.steps \in Nat
  BY StepCountsAssumption DEF SyncInv, ControlInv, TypeOK, WorkerTypeOK
<1>1. pc[r] = "backward" /\ Complete(r) /\ Here(r) = 3 + step[r] /\ step[r] < args.steps
  BY DEF OptimizerStep, At, SyncInv, ControlInv, Position
<1>2. ASSUME NEW q \in Rank
      PROVE  pc[q] = "backward" /\ step[q] = step[r] /\ Here(q) = Here(r) /\ Trained(q)
  <2>1. Here(q) >= Here(r)
    BY <1>1, MetAll DEF SyncInv, Here
  <2>2. step[q] \in Nat /\ step[r] \in Nat /\ step[q] <= step[r] /\ pc[q] \in Label
    BY <1>0 DEF SyncInv, ControlInv, TypeOK, WorkerTypeOK
  <2> QED BY <1>0, <1>1, <2>1, <2>2 DEF SyncInv, ControlInv, Position, Label, Trained
<1>3. \A q \in Rank : \E b \in Batch : ValAt(q, Here(r)) = Grad(W, b)
  BY <1>2 DEF GradInv
<1> DEFINE batch == [q \in Rank |-> CHOOSE b \in Batch : ValAt(q, Here(r)) = Grad(W, b)]
<1>4. batch \in [Rank -> Batch] /\ \A q \in Rank : ValAt(q, Here(r)) = Grad(W, batch[q])
  BY <1>3
<1>5. Reduced(r) = [p \in Rank |-> Grad(W, batch[p])]
  BY <1>4 DEF Reduced, Gathered
<1>6. model'[r] = Apply(W, Reduced(r))
  BY <1>2 DEF OptimizerStep, SyncInv, ControlInv, TypeOK
<1> QED BY <1>4, <1>5, <1>6

LEMMA ReferenceStarts == Init => Reference!RefInit
<1> SUFFICES ASSUME Init PROVE Reference!RefInit
  OBVIOUS
<1>1. \A q \in Rank : step[q] = 0 /\ ~Trained(q)
  BY DEF Init, WorkerInit, Trained
<1>2. Leader \in Rank
  <2>1. \A q \in Rank : step[q] <= step[0] /\ (Trained(q) => Trained(0))
    BY <1>1, RankZero
  <2> QED BY <2>1, RankZero DEF Leader
<1> QED BY <1>1, <1>2 DEF GlobalWeights, Reference!RefInit

\* An update moves the reference when the furthest rank makes it, and only then.
LEMMA UpdateIsReferenceStep ==
  ASSUME SyncInv, SyncInv', GradInv, GradSync, LeaderLeads, LeaderLeads',
         NEW r \in Rank, OptimizerStep(r)
  PROVE  [Reference!RefNext]_(Reference!refVars)
<1>0. /\ args.steps \in Nat /\ args.steps \in StepCounts /\ args' = args
      /\ \A q \in Rank : step[q] \in Nat
      /\ pc \in [Rank -> Label]
  <2>1. args.steps \in Nat /\ args.steps \in StepCounts
    BY StepCountsAssumption DEF SyncInv, ControlInv, TypeOK, WorkerTypeOK
  <2> QED BY <2>1 DEF SyncInv, ControlInv, TypeOK, WorkerTypeOK, OptimizerStep, EndStep
<1>1. /\ pc[r] = "backward" /\ step[r] < args.steps
      /\ step'[r] = step[r] + 1
      /\ \A q \in Rank : q # r => pc'[q] = pc[q] /\ step'[q] = step[q] /\ model'[q] = model[q]
      /\ Trained(r) /\ Trained(r)'
  BY <1>0 DEF OptimizerStep, At, EndStep, Goto, SyncInv, ControlInv, TypeOK, WorkerTypeOK,
             Position, Trained
<1>2. PICK old \in Rank : old = Leader
  BY DEF LeaderLeads
<1>3. PICK new \in Rank : new = Leader'
  BY DEF LeaderLeads
<1>4. \A q \in Rank : step[q] <= step[old] /\ (Trained(q) => Trained(old))
  BY <1>2 DEF LeaderLeads
<1>5. \A q \in Rank : step'[q] <= step'[new] /\ (Trained(q)' => Trained(new)')
  BY <1>3 DEF LeaderLeads
<1>6. CASE step[r] < step[old]
  <2>1. old # r /\ step'[old] = step[old] /\ \A q \in Rank : step'[q] <= step[old]
    BY <1>0, <1>1, <1>4, <1>6
  <2>2. Trained(old) => Trained(old)' /\ model'[old] = model[old]
    BY <1>1, <2>1 DEF Trained
  <2>3. GlobalWeights' = GlobalWeights /\ step'[new] = step[old]
    BY <1>2, <1>3, <1>4, <1>5, <2>1, <2>2, LeaderKept
  <2> QED BY <1>2, <1>3, <2>3 DEF Reference!refVars
<1>7. CASE step[r] = step[old]
  <2>1. Trained(old) /\ GlobalWeights = model[old]
    BY <1>1, <1>2, <1>4 DEF GlobalWeights
  <2>2. \A q \in Rank : Trained(q) /\ step[q] = step[r] => model[q] = GlobalWeights
    BY <1>7, <2>1 DEF SyncInv, ReplicasAgree
  <2>3. PICK b \in [Rank -> Batch] :
          model'[r] = Apply(GlobalWeights, [p \in Rank |-> Grad(GlobalWeights, b[p])])
    BY <1>4, <1>7, <2>2, LeaderSteps
  <2>4. step'[new] = step[old] + 1 /\ new = r
    BY <1>0, <1>1, <1>4, <1>5, <1>7
  <2>5. GlobalWeights' = model'[r]
    BY <1>1, <1>3, <2>4 DEF GlobalWeights
  <2>6. Reference!TrainStep(b)
    BY <1>0, <1>1, <1>2, <1>3, <1>7, <2>3, <2>4, <2>5 DEF Reference!TrainStep
  <2> QED BY <2>6 DEF Reference!RefNext
<1> QED BY <1>0, <1>4, <1>6, <1>7

\* Every other step leaves the reference where it is.
LEMMA OtherStepsStutter ==
  ASSUME SyncInv, SyncInv', LeaderLeads, LeaderLeads',
         NEW r \in Rank, Quiet(r) \/ WrapModel(r) \/ ModelWrapped(r)
  PROVE  UNCHANGED Reference!refVars
<1>1. PICK old \in Rank : old = Leader
  BY DEF LeaderLeads
<1>2. PICK new \in Rank : new = Leader'
  BY DEF LeaderLeads
<1>3. \A q \in Rank : step[q] <= step[old] /\ (Trained(q) => Trained(old))
  BY <1>1 DEF LeaderLeads
<1>4. \A q \in Rank : step'[q] <= step'[new] /\ (Trained(q)' => Trained(new)')
  BY <1>2 DEF LeaderLeads
<1>5. step' = step
  <2>1. CASE Quiet(r)
    BY <2>1, QuietStep DEF SyncInv
  <2> QED BY <2>1 DEF WrapModel, ModelWrapped, Call, Advance
<1>6. Trained(old) => Trained(old)' /\ model'[old] = model[old]
  <2>1. CASE Quiet(r)
    BY <2>1, QuietStep DEF SyncInv
  <2>2. CASE WrapModel(r) \/ ModelWrapped(r)
    <3>1. ~Trained(r)
      BY <2>2 DEF WrapModel, ModelWrapped, At, Trained
    <3>2. \A q \in Rank : q # r => pc'[q] = pc[q] /\ model'[q] = model[q]
      BY <2>2, Frame DEF SyncInv, Train
    <3> QED BY <3>1, <3>2 DEF Trained
  <2> QED BY <2>1, <2>2
<1>7. GlobalWeights' = GlobalWeights /\ step'[new] = step[old]
  BY <1>1, <1>2, <1>3, <1>4, <1>5, <1>6, LeaderKept
<1> QED BY <1>1, <1>2, <1>7 DEF Reference!refVars

\* The distributed run is a run of the reference loop with one piece of the
\* batch per rank: no update loses, repeats or takes a stale gradient.
THEOREM TrainsReferenceModel ==
  ASSUME GradSync
  PROVE  Spec => TrainsAsOneModel
<1>1. Init => GradInv
  BY DEF Init, WorkerInit, GradInv
<1>2. ControlInv /\ GradInv /\ [Next]_vars => GradInv'
  <2>1. GradInv /\ UNCHANGED vars => GradInv'
    BY DEF vars, GradInv, ValAt, Here
  <2> QED BY <2>1, GradStep DEF Next, Over
<1>3. Spec => []GradInv
  BY <1>1, <1>2, ControlCorrect, PTL DEF Spec
<1>4. SyncInv /\ Lockstep => LeaderLeads
  BY LeaderIsFurthest DEF SyncInv
<1>5. SyncInv' /\ Lockstep' => LeaderLeads'
  BY <1>4, PTL
<1>6. SyncInv /\ SyncInv' /\ GradInv /\ LeaderLeads /\ LeaderLeads' /\ [Next]_vars
        => [Reference!RefNext]_(Reference!refVars)
  <2> SUFFICES ASSUME SyncInv, SyncInv', GradInv, LeaderLeads, LeaderLeads', [Next]_vars
               PROVE  [Reference!RefNext]_(Reference!refVars)
    OBVIOUS
  <2>1. CASE UNCHANGED vars
    BY <2>1 DEF vars, Reference!refVars, GlobalWeights, Leader, Trained
  <2>2. ASSUME NEW r \in Rank, Train(r) \/ Runtime(r)
        PROVE  [Reference!RefNext]_(Reference!refVars)
    <3>1. CASE OptimizerStep(r)
      BY <3>1, UpdateIsReferenceStep
    <3>2. CASE Quiet(r) \/ WrapModel(r) \/ ModelWrapped(r)
      BY <3>2, OtherStepsStutter
    <3> QED BY <2>2, <3>1, <3>2 DEF Train, Quiet
  <2> QED BY <2>1, <2>2 DEF Next, Over
<1> QED BY <1>3, <1>4, <1>5, <1>6, ReferenceStarts, SyncCorrect, RanksInLockstep, PTL
        DEF Spec, TrainsAsOneModel, Reference!RefSpec

-----------------------------------------------------------------------------
(* The notebook around the script, through its re-runs in one directory.    *)

\* The script's invariants hold in every run; a notebook that has read the
\* histories has seen its run succeed, and has found each whole and fresh.
NbInv ==
  /\ CheckInv /\ SavedInv
  /\ nb \in {"read", "done"} => LauncherOK /\ \A r \in Rank : histories[r] = "fresh"

\* New processes in a directory that holds the files of the run before
LEMMA RerunStarts ==
  ASSUME CheckInv, SaveAndRerun
  PROVE  CheckInv' /\ SavedInv'
<1> USE DEF SaveAndRerun, Here
<1>0. args' = args /\ args.steps \in Nat /\ 0 \in 0 .. args.steps
  <2>1. args.steps \in StepCounts
    BY DEF CheckInv, ControlInv, TypeOK, WorkerTypeOK
  <2>2. args.steps \in Nat
    BY <2>1, StepCountsAssumption
  <2> QED BY <2>2
<1>1. files' \in [Rank -> [Artifact -> FileState \ {"fresh"}]]
  BY DEF Aged, CheckInv, ControlInv, TypeOK, WorkerTypeOK, FileState
<1>2. TypeOK'
  <2>1. /\ DOMAIN posted' = Rank
        /\ \A r \in Rank : DOMAIN posted'[r] = 1 .. entered'[r]
    OBVIOUS
  <2>2. entered' \in [Rank -> Nat] /\ proc' \in [Rank -> ProcState]
    BY DEF ProcState
  <2>3. pc' \in [Rank -> Label] /\ step' \in [Rank -> 0 .. args.steps] /\ DOMAIN model' = Rank
    BY <1>0 DEF Label
  <2>4. files' \in [Rank -> [Artifact -> FileState]]
    BY <1>1
  <2>5. /\ crashes' \in 0 .. MaxCrashes
        /\ args' \in [backend : Backends, steps : StepCounts, out_dir : OutDirs]
    BY DEF CheckInv, ControlInv, TypeOK, WorkerTypeOK
  <2> QED BY <1>0, <2>1, <2>2, <2>3, <2>4, <2>5 DEF TypeOK, WorkerTypeOK
<1>3. /\ \A r \in Rank : /\ entered'[r] = 0 /\ pc'[r] = "start"
                         /\ step'[r] = 0 /\ proc'[r] = "running"
      /\ ~(0 >= 3 + args'.steps)
  BY <1>0
<1>4. Position' /\ OnSchedule' /\ Passed' /\ ExitedAtEnd'
  BY <1>3 DEF Position, OnSchedule, Passed, Trained, ExitedAtEnd
<1>5. FingerprintsShown'
  BY <1>3, RankZero DEF FingerprintsShown
<1>6. SavedInv'
  BY <1>1, <1>3 DEF SavedInv, Artifact
<1> QED BY <1>2, <1>4, <1>5, <1>6 DEF CheckInv, ControlInv

\* A run that succeeds with --out-dir has left every rank's history.
LEMMA SuccessLeavesHistories ==
  ASSUME CheckInv, SavedInv, LauncherOK, OutDirs = {TRUE}
  PROVE  \A r \in Rank : files[r]["history"] = "fresh"
<1>1. args.out_dir
  BY DEF CheckInv, ControlInv, TypeOK, WorkerTypeOK
<1>2. \A r \in Rank : pc[r] = "done"
  BY DEF LauncherOK, CheckInv, ControlInv, ExitedAtEnd
<1> QED BY <1>1, <1>2 DEF SavedInv

\* A notebook's summary is made of the histories of one run, the one it has just
\* launched, whose replicas ended with the same weights; never of the files that
\* an earlier or a failed run left.  The notebooks always pass --out-dir.
THEOREM SummarisesOneGoodRun ==
  ASSUME OutDirs = {TRUE}, \A v, w : Fingerprint(v) = Fingerprint(w) => v = w
  PROVE  NbSpec => []SummaryOfOneGoodRun
<1>1. NbInit => NbInv
  <2> SUFFICES ASSUME NbInit PROVE NbInv
    OBVIOUS
  <2>1. CheckInv
    BY CheckStarts DEF NbInit
  <2>2. SavedInv
    BY SavedStarts DEF NbInit, Init
  <2> QED BY <2>1, <2>2 DEF NbInv, NbInit
<1>2. NbInv /\ [NbNext]_allVars => NbInv'
  <2> SUFFICES ASSUME NbInv, [NbNext]_allVars PROVE NbInv'
    OBVIOUS
  <2>1. ASSUME UNCHANGED vars PROVE CheckInv' /\ SavedInv' /\ LauncherOK' = LauncherOK
    BY <2>1, ControlStuttering
    DEF vars, NbInv, CheckInv, SavedInv, FingerprintsShown, Here, ValAt, LauncherOK
  <2>2. CASE UNCHANGED allVars
    BY <2>1, <2>2 DEF allVars, nbVars, NbInv
  <2>3. CASE RefuseAccelerator \/ LaunchTorchrun \/ TorchrunFailed
    BY <2>1, <2>3 DEF RefuseAccelerator, LaunchTorchrun, TorchrunFailed, NbInv
  <2>4. CASE ReadHistories
    <3>1. \A r \in Rank : histories'[r] = "fresh"
      BY <2>4, SuccessLeavesHistories DEF ReadHistories, NbInv
    <3> QED BY <2>1, <2>4, <3>1 DEF ReadHistories, NbInv
  <2>5. CASE WriteSummary
    BY <2>1, <2>5 DEF WriteSummary, NbInv
  <2>6. CASE SaveAndRerun
    BY <2>6, RerunStarts DEF SaveAndRerun, NbInv
  <2>7. ASSUME NEW r \in Rank, Workers(r) PROVE NbInv'
    <3>1. Train(r) \/ Runtime(r)
      BY <2>7 DEF Workers
    <3>2. CheckInv' /\ SavedInv'
      BY <3>1, ControlTrain, ControlRuntime, CheckStep, SavedStep DEF NbInv, CheckInv
    <3> QED BY <2>7, <3>2 DEF Workers, nbVars, NbInv
  <2> QED BY <2>2, <2>3, <2>4, <2>5, <2>6, <2>7 DEF NbNext, NbOver, Notebook
<1>3. NbInv => SummaryOfOneGoodRun
  <2>1. CheckInv /\ LauncherOK => \A q, r \in Rank : Fingerprint(model[q]) = Fingerprint(model[r])
    BY CheckedFingerprints
  <2> QED BY <2>1 DEF NbInv, SummaryOfOneGoodRun
<1> QED BY <1>1, <1>2, <1>3, PTL DEF NbSpec
=============================================================================
