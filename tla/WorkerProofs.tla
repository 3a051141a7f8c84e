---------------------------- MODULE WorkerProofs ----------------------------
(***************************************************************************)
(* Lemmas about what the four scripts share, for the proofs about each of  *)
(* them: how a call, a local step, an exit or a write acts on the types,   *)
(* on what the ranks have got past, and on the artifacts.  Label is the    *)
(* set of a script's labels, Waits those at which it waits in a collective.*)
(***************************************************************************)
EXTENDS Worker, SequenceTheorems, WellFoundedInduction, TLAPS

(* What the inductive invariants of the scripts share.  Waits is the set of *)
(* labels at which a rank is still in the collective it entered last.       *)

PastCalls(r, Waits) == 1 .. IF pc[r] \in Waits THEN Here(r) - 1 ELSE Here(r)

\* What a rank has got past, the others have entered; of a broadcast, rank 0 has.
OthersEntered(Waits) ==
  \A q, r \in Rank : \A k \in PastCalls(r, Waits) :
    q = 0 \/ OpAt(r, k) # "broadcast" => Here(q) >= k

\* A worker that exits normally has come to the end of train().
ExitedAtEnd == \A r \in Rank : proc[r] = "ok" => pc[r] = "done"

WorkerInv(Label, Waits) == WorkerTypeOK(Label) /\ OthersEntered(Waits) /\ ExitedAtEnd

\* Where a rank is tells which of its artifacts are whole and of this run.
SavedInv ==
  \A r \in Rank :
    /\ pc[r] \in {"save_state", "save_history"} => args.out_dir
    /\ IF args.out_dir /\ pc[r] \in {"save_history", "report", "barrier", "done"}
       THEN files[r]["state"] = "fresh" ELSE files[r]["state"] # "fresh"
    /\ IF args.out_dir /\ pc[r] \in {"report", "barrier", "done"}
       THEN files[r]["history"] = "fresh" ELSE files[r]["history"] # "fresh"

-----------------------------------------------------------------------------
LEMMA RankZero == 0 \in Rank
BY WorldSizeAssumption DEF Rank

LEMMA WorkerTypes ==
  ASSUME NEW Label, WorkerTypeOK(Label)
  PROVE  /\ args.steps \in Nat /\ args.steps \in StepCounts
         /\ entered \in [Rank -> Nat] /\ pc \in [Rank -> Label]
         /\ \A r \in Rank : /\ Here(r) \in Nat /\ pc[r] \in Label
                            /\ step[r] \in Nat /\ step[r] <= args.steps
<1>1. args.steps \in StepCounts
  BY DEF WorkerTypeOK
<1>2. args.steps \in Nat
  BY <1>1, StepCountsAssumption
<1> QED BY <1>1, <1>2 DEF WorkerTypeOK, Here

LEMMA WorkerStarts ==
  ASSUME NEW Label, NEW Waits, "start" \in Label, WorkerInit
  PROVE  WorkerInv(Label, Waits)
<1> USE DEF WorkerInit, CommInit
<1>0. args \in [backend : Backends, steps : StepCounts, out_dir : OutDirs]
  OBVIOUS
<1>1. args.steps \in Nat /\ 0 \in 0 .. args.steps
  <2>1. args.steps \in StepCounts
    BY ONLY <1>0
  <2>2. args.steps \in Nat
    BY ONLY <2>1, StepCountsAssumption
  <2> QED BY ONLY <2>2
<1>2. WorkerTypeOK(Label)
  <2>1. /\ DOMAIN posted = Rank
        /\ \A r \in Rank : DOMAIN posted[r] = 1 .. Here(r)
    BY DEF Here
  <2>2. files \in [Rank -> [Artifact -> FileState]]
    BY DEF FileState
  <2>3. entered \in [Rank -> Nat] /\ proc \in [Rank -> ProcState] /\ crashes \in 0 .. MaxCrashes
    BY MaxCrashesAssumption DEF ProcState
  <2>4. pc \in [Rank -> Label] /\ step \in [Rank -> 0 .. args.steps]
    BY <1>1
  <2> QED BY <1>0, <2>1, <2>2, <2>3, <2>4 DEF WorkerTypeOK
<1>3. OthersEntered(Waits)
  BY DEF OthersEntered, PastCalls, Here
<1>4. ExitedAtEnd
  BY DEF ExitedAtEnd
<1> QED BY <1>2, <1>3, <1>4 DEF WorkerInv

-----------------------------------------------------------------------------
\* Calling a collective adds to what the caller has posted, and to nothing else.
LEMMA CallPosts ==
  ASSUME NEW Label, WorkerTypeOK(Label), NEW r \in Rank, NEW op, NEW val, NEW next,
         Call(r, op, val, next)
  PROVE  /\ UNCHANGED <<args, step, proc, files, crashes>>
         /\ entered' = [entered EXCEPT ![r] = @ + 1] /\ pc' = [pc EXCEPT ![r] = next]
         /\ DOMAIN posted' = Rank
         /\ \A q \in Rank : q # r => posted'[q] = posted[q]
         /\ DOMAIN posted'[r] = 1 .. entered[r] + 1
         /\ \A k \in 1 .. entered[r] : posted'[r][k] = posted[r][k]
         /\ posted'[r][entered[r] + 1] = [op |-> op, val |-> val]
<1> DEFINE new == [k \in 1 .. entered[r] + 1 |->
                    IF k <= entered[r] THEN posted[r][k] ELSE [op |-> op, val |-> val]]
<1>1. entered[r] \in Nat /\ DOMAIN posted = Rank
  BY DEF WorkerTypeOK
<1>2. posted' = [posted EXCEPT ![r] = new]
  BY DEF Call, Enter, Here
<1>3. posted'[r] = new /\ DOMAIN posted' = Rank /\ \A q \in Rank : q # r => posted'[q] = posted[q]
  BY <1>1, <1>2
<1>4. /\ DOMAIN new = 1 .. entered[r] + 1
      /\ \A k \in 1 .. entered[r] : new[k] = posted[r][k]
      /\ new[entered[r] + 1] = [op |-> op, val |-> val]
  BY <1>1
<1>5. /\ UNCHANGED <<args, step, proc, files, crashes>>
      /\ entered' = [entered EXCEPT ![r] = @ + 1] /\ pc' = [pc EXCEPT ![r] = next]
  BY DEF Call, Enter, Goto
<1> HIDE DEF new
<1> QED BY <1>3, <1>4, <1>5

LEMMA CallTypes ==
  ASSUME NEW Label, WorkerTypeOK(Label), NEW r \in Rank, NEW op, NEW val, NEW next \in Label,
         Call(r, op, val, next)
  PROVE  WorkerTypeOK(Label)'
<1>1. /\ UNCHANGED <<args, step, proc, files, crashes>>
      /\ entered' = [entered EXCEPT ![r] = @ + 1] /\ pc' = [pc EXCEPT ![r] = next]
      /\ DOMAIN posted' = Rank
      /\ \A q \in Rank : q # r => posted'[q] = posted[q]
      /\ DOMAIN posted'[r] = 1 .. entered[r] + 1
  BY CallPosts
<1>2. entered' \in [Rank -> Nat] /\ pc' \in [Rank -> Label]
  BY <1>1 DEF WorkerTypeOK
<1>3. \A q \in Rank : DOMAIN posted'[q] = 1 .. entered'[q]
  BY <1>1 DEF WorkerTypeOK, Here
<1> QED BY <1>1, <1>2, <1>3 DEF WorkerTypeOK, Here

\* What has been posted stays as it is; what is new is the call itself.
LEMMA CallOps ==
  ASSUME NEW Label, WorkerTypeOK(Label), NEW r \in Rank, NEW op, NEW val, NEW next,
         Call(r, op, val, next)
  PROVE  /\ Here(r)' = Here(r) + 1
         /\ \A k : k = Here(r) + 1 => OpAt(r, k)' = op /\ ValAt(r, k)' = val
         /\ \A q \in Rank : q # r => Here(q)' = Here(q)
         /\ \A q \in Rank : \A k \in 1 .. Here(q) :
              OpAt(q, k)' = OpAt(q, k) /\ ValAt(q, k)' = ValAt(q, k)
<1>1. entered \in [Rank -> Nat]
  BY DEF WorkerTypeOK
<1>2. /\ entered' = [entered EXCEPT ![r] = @ + 1]
      /\ \A q \in Rank : q # r => posted'[q] = posted[q]
      /\ \A k \in 1 .. entered[r] : posted'[r][k] = posted[r][k]
      /\ posted'[r][entered[r] + 1] = [op |-> op, val |-> val]
  BY CallPosts
<1>3. posted'[r][entered[r] + 1].op = op /\ posted'[r][entered[r] + 1].val = val
  BY <1>2
<1> QED BY <1>1, <1>2, <1>3 DEF Here, OpAt, ValAt

\* Every collective but a broadcast is a rendezvous of all ranks.
LEMMA MeetingOfAll ==
  ASSUME NEW r \in Rank, Complete(r), OpAt(r, Here(r)) # "broadcast"
  PROVE  \A q \in Rank : Here(q) >= Here(r)
BY DEF Complete, Met

\* A rank that waits for nobody, or whose collective is complete, may call.
LEMMA CallKeeps ==
  ASSUME NEW Label, NEW Waits, WorkerInv(Label, Waits),
         NEW r \in Rank, NEW op, NEW val, NEW next \in Label \cap Waits,
         Call(r, op, val, next), pc[r] \in Waits => Complete(r), next # "done",
         proc[r] = "running"
  PROVE  WorkerInv(Label, Waits)'
<1>0. WorkerTypeOK(Label)
  BY DEF WorkerInv
<1>1. WorkerTypeOK(Label)'
  BY <1>0, CallTypes
<1>2. /\ entered' = [entered EXCEPT ![r] = @ + 1] /\ pc' = [pc EXCEPT ![r] = next]
      /\ UNCHANGED proc
      /\ \A q \in Rank : q # r => posted'[q] = posted[q]
      /\ \A k \in 1 .. entered[r] : posted'[r][k] = posted[r][k]
      /\ entered \in [Rank -> Nat] /\ pc \in [Rank -> Label]
  <2>1. entered \in [Rank -> Nat] /\ pc \in [Rank -> Label]
    BY <1>0, WorkerTypes
  <2>2. /\ UNCHANGED <<args, step, proc, files, crashes>>
        /\ entered' = [entered EXCEPT ![r] = @ + 1] /\ pc' = [pc EXCEPT ![r] = next]
        /\ DOMAIN posted' = Rank
        /\ \A q \in Rank : q # r => posted'[q] = posted[q]
        /\ DOMAIN posted'[r] = 1 .. entered[r] + 1
        /\ \A k \in 1 .. entered[r] : posted'[r][k] = posted[r][k]
    BY ONLY <1>0, r \in Rank, Call(r, op, val, next), CallPosts
  <2> QED BY <2>1, <2>2
<1>3. ASSUME NEW q \in Rank, NEW k \in 1 .. entered[q] PROVE OpAt(q, k)' = OpAt(q, k)
  BY <1>2, <1>3 DEF OpAt
<1>4. ASSUME NEW p \in Rank, NEW q \in Rank, NEW k \in PastCalls(q, Waits)',
             p = 0 \/ OpAt(q, k)' # "broadcast"
      PROVE  Here(p)' >= k
  <2>1. k \in 1 .. entered[q] /\ OpAt(q, k)' = OpAt(q, k)
    BY <1>2, <1>3, <1>4 DEF PastCalls, Here
  <2>2. CASE k \in PastCalls(q, Waits)
    <3>1. Here(p) >= k
      BY <1>4, <2>1, <2>2 DEF WorkerInv, OthersEntered
    <3> QED BY <1>2, <2>1, <3>1 DEF Here
  <2>3. CASE k \notin PastCalls(q, Waits)
    <3>1. q = r /\ k = entered[r] /\ pc[r] \in Waits
      BY <1>2, <1>4, <2>1, <2>3 DEF PastCalls, Here
    <3>2. Met(p, r)
      BY <1>4, <2>1, <3>1 DEF Complete, Here
    <3> QED BY <1>2, <3>1, <3>2 DEF Met, Here
  <2> QED BY <2>2, <2>3
<1>5. ExitedAtEnd'
  BY <1>2 DEF WorkerInv, ExitedAtEnd
<1> QED BY <1>1, <1>4, <1>5 DEF WorkerInv, OthersEntered

\* Whatever else it does, a rank that only moves on in train() leaves a complete
\* collective behind.
LEMMA MoveKeeps ==
  ASSUME NEW Label, NEW Waits, WorkerInv(Label, Waits), WorkerTypeOK(Label)',
         NEW r \in Rank, NEW next, pc' = [pc EXCEPT ![r] = next],
         UNCHANGED <<entered, posted>>,
         pc[r] \in Waits /\ next \notin Waits => Complete(r)
  PROVE  OthersEntered(Waits)'
<1>0. WorkerTypeOK(Label)
  BY DEF WorkerInv
<1>1. entered \in [Rank -> Nat] /\ pc \in [Rank -> Label]
  BY <1>0, WorkerTypes
<1> SUFFICES ASSUME NEW p \in Rank, NEW q \in Rank, NEW k \in PastCalls(q, Waits)',
                    p = 0 \/ OpAt(q, k) # "broadcast"
             PROVE  Here(p) >= k
  BY DEF OthersEntered, OpAt, Here
<1>2. CASE k \in PastCalls(q, Waits)
  BY <1>2 DEF WorkerInv, OthersEntered
<1>3. CASE k \notin PastCalls(q, Waits)
  <2>1. q = r /\ k = entered[r] /\ pc[r] \in Waits /\ next \notin Waits
    BY <1>1, <1>3 DEF PastCalls, Here
  <2>2. Met(p, r)
    BY <2>1 DEF Complete, Here
  <2> QED BY <2>1, <2>2 DEF Met, Here
<1> QED BY <1>2, <1>3

LEMMA AdvanceKeeps ==
  ASSUME NEW Label, NEW Waits, WorkerInv(Label, Waits), NEW r \in Rank,
         NEW next \in Label \ {"done"}, Advance(r, next), proc[r] = "running",
         pc[r] \in Waits /\ next \notin Waits => Complete(r)
  PROVE  WorkerInv(Label, Waits)'
<1>1. WorkerTypeOK(Label)'
  BY DEF WorkerInv, WorkerTypeOK, Advance, Goto, Here
<1>2. OthersEntered(Waits)'
  BY <1>1, MoveKeeps DEF Advance, Goto
<1>3. ExitedAtEnd'
  BY DEF WorkerInv, WorkerTypeOK, ExitedAtEnd, Advance, Goto
<1> QED BY <1>1, <1>2, <1>3 DEF WorkerInv

LEMMA EndStepKeeps ==
  ASSUME NEW Label, NEW Waits, WorkerInv(Label, Waits), NEW r \in Rank,
         NEW next \in Label \ {"done"}, EndStep(r, next), proc[r] = "running",
         step[r] < args.steps, pc[r] \in Waits /\ next \notin Waits => Complete(r)
  PROVE  WorkerInv(Label, Waits)'
<1>0. args.steps \in Nat /\ step[r] \in Nat
  <2>1. WorkerTypeOK(Label)
    BY DEF WorkerInv
  <2> QED BY <2>1, WorkerTypes
<1>1. WorkerTypeOK(Label)'
  BY <1>0 DEF WorkerInv, WorkerTypeOK, EndStep, Goto, Here
<1>2. OthersEntered(Waits)'
  BY <1>1, MoveKeeps DEF EndStep, Goto
<1>3. ExitedAtEnd'
  BY DEF WorkerInv, WorkerTypeOK, ExitedAtEnd, EndStep, Goto
<1> QED BY <1>1, <1>2, <1>3 DEF WorkerInv

LEMMA ReturnKeeps ==
  ASSUME NEW Label, NEW Waits, WorkerInv(Label, Waits), NEW r \in Rank,
         "done" \in Label, Return(r), pc[r] \in Waits => Complete(r)
  PROVE  WorkerInv(Label, Waits)'
<1>1. WorkerTypeOK(Label)'
  BY DEF WorkerInv, WorkerTypeOK, ProcState, Return, Exit, Goto, Here
<1>2. OthersEntered(Waits)'
  BY <1>1, MoveKeeps DEF Return, Goto
<1>3. ExitedAtEnd'
  BY DEF WorkerInv, WorkerTypeOK, ExitedAtEnd, Return, Exit, Goto
<1> QED BY <1>1, <1>2, <1>3 DEF WorkerInv

LEMMA WriteKeeps ==
  ASSUME NEW Label, NEW Waits, WorkerInv(Label, Waits), NEW r \in Rank, NEW f \in Artifact,
         NEW next \in Label \ {"done"}, WriteArtifact(r, f, next), proc[r] = "running",
         pc[r] \notin Waits
  PROVE  WorkerInv(Label, Waits)'
<1>0. pc \in [Rank -> Label]
  BY DEF WorkerInv, WorkerTypeOK
<1>1. PICK new \in {pc[r], next} : pc' = [pc EXCEPT ![r] = new]
  BY <1>0 DEF WriteArtifact, Goto
<1>2. files' \in [Rank -> [Artifact -> FileState]]
  <2>1. PICK s \in FileState : files' = [files EXCEPT ![r][f] = s]
    BY DEF WriteArtifact, FileState
  <2> QED BY <2>1 DEF WorkerInv, WorkerTypeOK
<1>3. WorkerTypeOK(Label)'
  BY <1>0, <1>1, <1>2 DEF WorkerInv, WorkerTypeOK, WriteArtifact, Here
<1>4. OthersEntered(Waits)'
  BY <1>1, <1>3, MoveKeeps DEF WriteArtifact
<1>5. ExitedAtEnd'
  BY DEF WorkerInv, WorkerTypeOK, ExitedAtEnd, WriteArtifact, Goto
<1> QED BY <1>3, <1>4, <1>5 DEF WorkerInv

\* A process that dies changes nothing but its own status.
LEMMA ExitKeeps ==
  ASSUME NEW Label, NEW Waits, WorkerInv(Label, Waits), NEW r \in Rank,
         NEW how \in {"failed", "killed"}, Exit(r, how), crashes' \in 0 .. MaxCrashes,
         UNCHANGED <<entered, posted, args, pc, step, files>>
  PROVE  WorkerInv(Label, Waits)'
<1>1. WorkerTypeOK(Label)'
  BY DEF WorkerInv, WorkerTypeOK, ProcState, Exit, Here
<1>2. OthersEntered(Waits)'
  BY DEF WorkerInv, OthersEntered, PastCalls, OpAt, Here
<1>3. ExitedAtEnd'
  BY DEF WorkerInv, WorkerTypeOK, ExitedAtEnd, Exit
<1> QED BY <1>1, <1>2, <1>3 DEF WorkerInv

LEMMA FailKeeps ==
  ASSUME NEW Label, NEW Waits, WorkerInv(Label, Waits), NEW r \in Rank, Fail(r)
  PROVE  WorkerInv(Label, Waits)'
<1>1. crashes' \in 0 .. MaxCrashes
  BY DEF Fail, WorkerInv, WorkerTypeOK
<1> QED BY <1>1, ExitKeeps DEF Fail

LEMMA RuntimeKeeps ==
  ASSUME NEW Label, NEW Waits, WorkerInv(Label, Waits), NEW r \in Rank,
         Environment(r) \/ Launcher(r)
  PROVE  WorkerInv(Label, Waits)' /\ UNCHANGED <<entered, posted, args, pc, step, files>>
<1>0. crashes \in 0 .. MaxCrashes
  BY DEF WorkerInv, WorkerTypeOK
<1>1. crashes' \in 0 .. MaxCrashes
  BY <1>0, MaxCrashesAssumption DEF Environment, Launcher, Crash, PeerLost, KillWorker
<1>2. PICK how \in {"failed", "killed"} : Exit(r, how)
  BY DEF Environment, Launcher, Crash, PeerLost, KillWorker
<1>3. UNCHANGED <<entered, posted, args, pc, step, files>>
  BY DEF Environment, Launcher, Crash, PeerLost, KillWorker
<1> QED BY <1>1, <1>2, <1>3, ExitKeeps

LEMMA StutterKeeps ==
  ASSUME NEW Label, NEW Waits, WorkerInv(Label, Waits), UNCHANGED workerVars
  PROVE  WorkerInv(Label, Waits)'
BY DEF WorkerInv, WorkerTypeOK, OthersEntered, PastCalls, OpAt, Here, ExitedAtEnd, workerVars

-----------------------------------------------------------------------------
(* The artifacts, and the contract with the notebooks.                      *)

Saving == {"save_state", "save_history", "report", "barrier", "done"}

\* Going from one label to another says nothing new about the artifacts.
SavesNothing(from, to) ==
  \/ from = to
  \/ from \notin Saving /\ to \notin Saving
  \/ from \notin Saving /\ to = IF args.out_dir THEN "save_state" ELSE "report"
  \/ from \in {"report", "barrier"} /\ to \in {"barrier", "done"}

LEMMA SavedStarts == WorkerInit => SavedInv
BY DEF WorkerInit, SavedInv, Artifact

LEMMA SavedMove ==
  ASSUME SavedInv, UNCHANGED <<args, files>>, NEW r \in Rank,
         \A q \in Rank : q # r => pc'[q] = pc[q], SavesNothing(pc[r], pc'[r])
  PROVE  SavedInv'
<1> SUFFICES ASSUME NEW q \in Rank
             PROVE  /\ pc'[q] \in {"save_state", "save_history"} => args.out_dir
                    /\ IF args.out_dir /\ pc'[q] \in {"save_history", "report", "barrier", "done"}
                       THEN files[q]["state"] = "fresh" ELSE files[q]["state"] # "fresh"
                    /\ IF args.out_dir /\ pc'[q] \in {"report", "barrier", "done"}
                       THEN files[q]["history"] = "fresh" ELSE files[q]["history"] # "fresh"
  BY DEF SavedInv
<1>1. SavesNothing(pc[q], pc'[q])
  BY DEF SavesNothing
<1> QED BY <1>1 DEF SavedInv, SavesNothing, Saving

LEMMA SavedWrite ==
  ASSUME NEW Label, WorkerTypeOK(Label), SavedInv, NEW r \in Rank,
         \/ At(r, "save_state") /\ WriteArtifact(r, "state", "save_history")
         \/ At(r, "save_history") /\ WriteArtifact(r, "history", "report")
  PROVE  SavedInv'
<1>1. /\ pc \in [Rank -> Label]
      /\ files \in [Rank -> [{"state", "history"} -> FileState]]
  BY DEF WorkerTypeOK, Artifact
<1>2. args' = args
  BY DEF WriteArtifact
<1>3. ASSUME NEW q \in Rank, q # r PROVE pc'[q] = pc[q] /\ files'[q] = files[q]
  BY <1>1, <1>3 DEF WriteArtifact, Goto
<1>4. CASE At(r, "save_state") /\ WriteArtifact(r, "state", "save_history")
  <2>1. pc[r] = "save_state" /\ args.out_dir
    BY <1>4 DEF At, SavedInv
  <2>2. files'[r]["history"] = files[r]["history"]
    BY <1>1, <1>4 DEF WriteArtifact
  <2>3. \/ pc'[r] = "save_state" /\ files'[r]["state"] = "torn"
        \/ pc'[r] = "save_history" /\ files'[r]["state"] = "fresh"
    BY <1>1, <1>4, <2>1 DEF WriteArtifact, Goto
  <2> QED BY <1>2, <1>3, <2>1, <2>2, <2>3 DEF SavedInv
<1>5. CASE At(r, "save_history") /\ WriteArtifact(r, "history", "report")
  <2>1. pc[r] = "save_history" /\ args.out_dir
    BY <1>5 DEF At, SavedInv
  <2>2. files'[r]["state"] = files[r]["state"]
    BY <1>1, <1>5 DEF WriteArtifact
  <2>3. \/ pc'[r] = "save_history" /\ files'[r]["history"] = "torn"
        \/ pc'[r] = "report" /\ files'[r]["history"] = "fresh"
    BY <1>1, <1>5, <2>1 DEF WriteArtifact, Goto
  <2> QED BY <1>2, <1>3, <2>1, <2>2, <2>3 DEF SavedInv
<1> QED BY <1>4, <1>5

\* The job the notebook sees, written out
LEMMA ContractStarts == WorkerInit => Contract!LaunchInit
<1> SUFFICES ASSUME WorkerInit PROVE Contract!LaunchInit
  OBVIOUS
<1>1. proc = [r \in Rank |-> "running"]
  BY DEF WorkerInit, CommInit
<1>2. files \in [Rank -> [Artifact -> {"absent", "stale", "torn"}]]
  BY DEF WorkerInit
<1> QED BY <1>1, <1>2 DEF Contract!LaunchInit, Contract!Started, Contract!Leftover

\* A process that dies fails, or is killed after another one has failed.
LEMMA ContractDies ==
  ASSUME NEW r \in Rank, Fail(r) \/ Environment(r) \/ Launcher(r), proc[r] = "running"
  PROVE  Contract!LaunchNext
<1>1. UNCHANGED <<args, files>>
  BY DEF Fail, Environment, Launcher
<1>2. CASE proc' = [proc EXCEPT ![r] = "failed"]
  BY <1>1, <1>2 DEF Contract!LaunchNext, Contract!FailJob
<1>3. CASE Launcher(r)
  BY <1>1, <1>3 DEF Launcher, KillWorker, Exit, Contract!LaunchNext, Contract!KillRest
<1> QED BY <1>2, <1>3 DEF Fail, Environment, Crash, PeerLost, Exit

LEMMA ContractWrites ==
  ASSUME SavedInv, NEW r \in Rank,
         \/ At(r, "save_state") /\ WriteArtifact(r, "state", "save_history")
         \/ At(r, "save_history") /\ WriteArtifact(r, "history", "report")
  PROVE  Contract!LaunchNext
<1>1. /\ args.out_dir /\ proc[r] = "running"
      /\ UNCHANGED <<args, proc>>
  BY DEF WriteArtifact, At, SavedInv
<1>2. PICK f \in Artifact :
        /\ files[r][f] # "fresh"
        /\ files' = [files EXCEPT ![r][f] = IF files[r][f] = "torn" THEN "fresh" ELSE "torn"]
  BY DEF WriteArtifact, At, SavedInv, Artifact
<1> QED BY <1>1, <1>2 DEF Contract!LaunchNext, Contract!WriteFile, Contract!Writable

\* A rank that returns when all have come to the closing barrier ends well.
LEMMA ContractEnds ==
  ASSUME SavedInv, NEW r \in Rank, At(r, "barrier"), Return(r),
         \A q \in Rank : pc[q] \in {"barrier", "done"}
  PROVE  Contract!LaunchNext
<1>1. args.out_dir => \A q \in Rank : \A f \in Artifact : files[q][f] = "fresh"
  BY DEF SavedInv, Artifact
<1>2. /\ proc[r] = "running" /\ proc' = [proc EXCEPT ![r] = "ok"]
      /\ UNCHANGED <<args, files>>
  BY DEF At, Return, Exit
<1> QED BY <1>1, <1>2 DEF Contract!LaunchNext, Contract!EndWell, Contract!TrainingSaved

-----------------------------------------------------------------------------
(* Sequences, given as functions on an initial piece of the numbers.        *)

\* What Append does, for a sequence of anything
LEMMA Appended ==
  ASSUME NEW n \in Nat, NEW s, s = [k \in 1 .. n |-> s[k]], NEW e
  PROVE  Append(s, e) = [k \in 1 .. n + 1 |-> IF k <= n THEN s[k] ELSE e]
<1> DEFINE S == {s[k] : k \in 1 .. n} \cup {e}
<1>1. s \in Seq(S) /\ Len(s) = n
  <2>1. s \in [1 .. n -> S]
    OBVIOUS
  <2> QED BY <2>1, IsASeq
<1> HIDE DEF S
<1>2. e \in S
  BY DEF S
<1>3. /\ Append(s, e) \in Seq(S) /\ Len(Append(s, e)) = n + 1
      /\ \A k \in 1 .. n : Append(s, e)[k] = s[k]
      /\ Append(s, e)[n + 1] = e
  BY <1>1, <1>2, AppendProperties
<1>4. Append(s, e) = [k \in 1 .. n + 1 |-> Append(s, e)[k]]
  BY <1>3, LenProperties
<1>5. \A k \in 1 .. n + 1 : Append(s, e)[k] = IF k <= n THEN s[k] ELSE e
  BY <1>3
<1> QED BY <1>4, <1>5

-----------------------------------------------------------------------------
(* Induction over a set of numbers follows from < being well-founded.       *)

LEMMA LessIsWellFounded == \E R : IsWellFoundedOn(R, Nat) /\ \A x, y \in Nat : <<y, x>> \in R <=> y < x
<1>1. IsWellFoundedOn(OpToRel(<, Nat), Nat)
  BY NatLessThanWellFounded
<1>2. \A x, y \in Nat : <<y, x>> \in OpToRel(<, Nat) <=> y < x
  BY DEF OpToRel
<1> QED BY <1>1, <1>2

LEMMA LeastNumber ==
  ASSUME NEW S, S \subseteq Nat, S # {}
  PROVE  \E x \in S : \A y \in S : x <= y
<1>1. PICK R : IsWellFoundedOn(R, Nat) /\ \A x, y \in Nat : <<y, x>> \in R <=> y < x
  BY LessIsWellFounded
<1>2. PICK x \in S : \A y \in S : ~(<<y, x>> \in R)
  BY <1>1, WFMin
<1>3. ASSUME NEW y \in S PROVE x <= y
  <2>1. x \in Nat /\ y \in Nat
    OBVIOUS
  <2>2. ~(<<y, x>> \in R)
    BY <1>2
  <2>3. <<y, x>> \in R <=> y < x
    BY <1>1, <2>1
  <2> QED BY <2>1, <2>2, <2>3
<1> QED BY <1>3

LEMMA Induction ==
  ASSUME NEW S, 0 \in S, \A n \in Nat : n \in S => n + 1 \in S
  PROVE  Nat \subseteq S
<1> SUFFICES ASSUME Nat \ S # {} PROVE FALSE
  OBVIOUS
<1>1. PICK x \in Nat \ S : \A y \in Nat \ S : x <= y
  BY LeastNumber
<1>2. x - 1 \in Nat /\ x - 1 \in S
  BY <1>1
<1> QED BY <1>1, <1>2
=============================================================================
