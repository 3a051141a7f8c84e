------------------------------ MODULE Notebooks ------------------------------
(***************************************************************************)
(* The six scripts under notebooks/ in one Kaggle session.  Each checks    *)
(* the accelerator, launches its jobs one after the other, looks at their  *)
(* return codes, reads what they left in fixed directories and reports.    *)
(* The session survives a run: the files of earlier runs, good and bad,    *)
(* are still there when a notebook is run again.                           *)
(*                                                                         *)
(* A job is whatever keeps the contract of Launch.  rank{r}_state.pt is    *)
(* left out: no notebook reads it.  A TP job over nccl can only fail       *)
(* (MCTP_nccl.cfg); here it may succeed too, so that what would follow it  *)
(* in kaggle_profiling_2gpu.py is examined as well.  Which rank's numbers  *)
(* go into which line of a summary is left out; what a notebook asserts of *)
(* them is not.                                                            *)
(***************************************************************************)
EXTENDS Launch, Integers, Sequences

CONSTANTS
  GpuCounts,    \* the GPUs a session may offer to a notebook
  MaxRuns       \* bound on the notebooks run in one session

ASSUME NotebooksAssumption == GpuCounts \subseteq Nat /\ MaxRuns \in Nat
ASSUME ArtifactAssumption == {"history", "profile"} \subseteq Artifact

VARIABLES
  nb,           \* the notebook that was started last
  at,           \* where its main() is
  runs,         \* notebooks started so far
  visible,      \* torch.cuda.device_count() in the notebook
  results,      \* results[i]: what it has read of its i-th job, per rank
  disk,         \* disk[d]: the files in directory d
  summary       \* summary[n]: the numbers notebook n has reported last

nbVars == <<nb, at, runs, visible, results, disk, summary>>
vars == <<launchVars, nbVars>>

-----------------------------------------------------------------------------
\* torchrun --nproc_per_node=2 train_<strategy>.py --out-dir <strategy>_run_artifacts
TrainJob(s) ==
  [dir |-> <<"train", s>>, ranks |-> 0 .. 1, together |-> {"history"}, alone |-> {},
   reads |-> "history"]

\* train() of profile_run.py's strategy gets --out-dir too, if it knows it.
TrainArtifacts(s) == IF s = "baseline" THEN {} ELSE {"history"}

\* profile_run.py: train() first, then the process's own report
ProfileJob(s) ==
  [dir |-> <<"profile", s>>, ranks |-> IF s = "baseline" THEN {0} ELSE 0 .. 1,
   together |-> TrainArtifacts(s), alone |-> {"profile"}, reads |-> "profile"]

(* A notebook: the GPUs it insists on, its jobs in their order, and the     *)
(* ranks it asserts to have a loss or none.                                 *)
NoAssert == [r \in {} |-> TRUE]

SingleGpu ==
  [gpus |-> 1, expects |-> NoAssert,
   jobs |-> << [dir |-> <<"train", "baseline">>, ranks |-> {0}, together |-> {},
                alone |-> {"history"}, reads |-> "history"] >>]
Ddp == [gpus |-> 2, jobs |-> <<TrainJob("ddp")>>, expects |-> NoAssert]
Fsdp == [gpus |-> 2, jobs |-> <<TrainJob("fsdp")>>, expects |-> NoAssert]
Tp == [gpus |-> 2, jobs |-> <<TrainJob("tp")>>, expects |-> NoAssert]
Pp == [gpus |-> 2, jobs |-> <<TrainJob("pp")>>, expects |-> [r \in 0 .. 1 |-> r = 1]]

Profiling ==
  [gpus |-> 2, expects |-> NoAssert,
   jobs |-> <<ProfileJob("baseline"), ProfileJob("ddp"), ProfileJob("fsdp"),
              ProfileJob("tp"), ProfileJob("pp")>>]

Script == [single_gpu |-> SingleGpu, ddp |-> Ddp, fsdp |-> Fsdp, tp |-> Tp, pp |-> Pp,
           profiling |-> Profiling]
Notebook == DOMAIN Script
Me == Script[nb]

Dir == UNION {{Script[n].jobs[i].dir : i \in DOMAIN Script[n].jobs} : n \in Notebook}
NoJob == [dir |-> <<"none", "none">>, ranks |-> {}, together |-> {}, alone |-> {}, reads |-> ""]
NoFiles == [r \in 0 .. 1 |-> [f \in Artifact |-> "absent"]]

\* train_pp.py records a loss on the last stage only.
HasLoss(j, r) == j.dir[2] = "pp" => r = 1

-----------------------------------------------------------------------------
Init ==
  /\ job = NoJob /\ proc = <<>> /\ files = <<>>
  /\ nb = "ddp" /\ at = "done" /\ runs = 0 /\ visible = 0 /\ results = <<>>
  /\ disk = [d \in Dir |-> NoFiles]
  /\ summary = [n \in Notebook |-> "absent"]

Aged(state) == IF state = "fresh" THEN "stale" ELSE state

\* single_gpu hides all GPUs but one from itself, unless CUDA_VISIBLE_DEVICES
\* is set already (setdefault).
Visible(n, gpus, preset) == IF n = "single_gpu" /\ ~preset /\ gpus > 0 THEN 1 ELSE gpus

\* The user runs notebook n, for the first time or again.
RunNotebook(n) ==
  /\ at \in {"done", "aborted"}
  /\ runs < MaxRuns
  /\ nb' = n /\ at' = "ready" /\ runs' = runs + 1 /\ results' = <<>>
  /\ \E gpus \in GpuCounts, preset \in BOOLEAN : visible' = Visible(n, gpus, preset)
  /\ disk' = [d \in Dir |-> [r \in 0 .. 1 |-> [f \in Artifact |-> Aged(disk[d][r][f])]]]
  /\ summary' = [m \in Notebook |-> Aged(summary[m])]
  /\ UNCHANGED launchVars

RefuseAccelerator ==
  /\ at = "ready"
  /\ visible # Me.gpus
  /\ at' = "aborted"
  /\ UNCHANGED <<launchVars, nb, runs, visible, results, disk, summary>>

\* What is left of job i's directory by those who ran in it before
StartJob ==
  /\ at = "ready"
  /\ visible = Me.gpus
  /\ Len(results) < Len(Me.jobs)
  /\ LET j == Me.jobs[Len(results) + 1] IN
       /\ job' = j
       /\ proc' = Started(j)
       /\ files' = [r \in j.ranks |-> disk[j.dir][r]]
  /\ at' = "running"
  /\ UNCHANGED <<nb, runs, visible, results, disk, summary>>

\* subprocess.run waits; single_gpu calls train() itself.
Processes == at = "running" /\ LaunchNext /\ UNCHANGED nbVars

JobFiles == [r \in 0 .. 1 |-> IF r \in job.ranks THEN files[r] ELSE disk[job.dir][r]]

\* Mutant: only a job all of whose processes failed is taken for failed.
JobFailedEverywhere ==
  /\ at = "running"
  /\ \A r \in job.ranks : proc[r] = "failed"
  /\ disk' = [disk EXCEPT ![job.dir] = JobFiles]
  /\ at' = "aborted"
  /\ UNCHANGED <<launchVars, nb, runs, visible, results, summary>>

JobFailed ==
  /\ at = "running"
  /\ JobOver /\ ~JobOK
  /\ disk' = [disk EXCEPT ![job.dir] = JobFiles]
  /\ at' = "aborted"
  /\ UNCHANGED <<launchVars, nb, runs, visible, results, summary>>

ReadFiles ==
  /\ disk' = [disk EXCEPT ![job.dir] = JobFiles]
  /\ results' = Append(results,
       [r \in job.ranks |-> [file |-> files[r][job.reads], loss |-> HasLoss(job, r)]])
  /\ at' = "ready"
  /\ UNCHANGED <<launchVars, nb, runs, visible, summary>>

\* Mutant: the return code is not looked at.
ReadResultsAnyway == at = "running" /\ JobOver /\ ReadFiles

ReadResults == at = "running" /\ JobOK /\ ReadFiles

\* kaggle_pp_2gpu.py asserts that only the last stage has losses.
LossesAsExpected == \A r \in DOMAIN Me.expects : results[1][r].loss = Me.expects[r]

Report ==
  /\ at = "ready"
  /\ visible = Me.gpus
  /\ Len(results) = Len(Me.jobs)
  /\ IF LossesAsExpected
     THEN at' = "done" /\ summary' = [summary EXCEPT ![nb] = "fresh"]
     ELSE at' = "aborted" /\ UNCHANGED summary
  /\ UNCHANGED <<launchVars, nb, runs, visible, results, disk>>

Main == RefuseAccelerator \/ StartJob \/ JobFailed \/ ReadResults \/ Report

SessionOver == at \in {"done", "aborted"} /\ runs = MaxRuns /\ UNCHANGED vars

Next == SessionOver \/ Main \/ Processes \/ \E n \in Notebook : RunNotebook(n)

\* A notebook runs on by itself; the user need not come back.  That a job ends is
\* asked of it here and checked of the scripts: Termination in the runs of FSDP, TP
\* and PP, NotebookEnds in that of DDP, crashes and broken reductions included.
Spec == Init /\ [][Next]_vars /\ WF_vars(Main) /\ WF_vars(Processes)

-----------------------------------------------------------------------------
\* What a notebook reports was measured in this run of it, by all its jobs and
\* on every rank: never a file of an earlier run or of a failed job, and nothing
\* is reported when a job has failed.
SummaryOfThisRun ==
  summary[nb] = "fresh" =>
    /\ Len(results) = Len(Me.jobs)
    /\ \A i \in DOMAIN results : \A r \in Me.jobs[i].ranks : results[i][r].file = "fresh"

\* No process of a job is left when the notebook goes on: jobs do not share the
\* GPUs, and no file changes once it has been read.
NothingLeftRunning == at # "running" => JobOver

\* Whatever its jobs do, a notebook comes to an end.
NotebookEnds == at = "ready" ~> at \in {"done", "aborted"}
=============================================================================
