----------------------------- MODULE DDPNotebook -----------------------------
(***************************************************************************)
(* notebooks/kaggle_ddp_2gpu.py around train_ddp.py: the notebook launches *)
(* two ranks, waits, reads the histories they left in a fixed directory    *)
(* and writes a summary.  The user may save and re-run it; the directory   *)
(* survives, so the files of an earlier run, good or bad, are there.       *)
(* kaggle_fsdp_2gpu.py and kaggle_tp_2gpu.py are the same around theirs.   *)
(***************************************************************************)
EXTENDS DDP

CONSTANTS
  GpuCounts,    \* what torch.cuda.device_count() may say
  MaxRuns       \* bound on the user's runs of the notebook

ASSUME NotebookAssumption == GpuCounts \subseteq Nat /\ MaxRuns \in Nat \ {0}

VARIABLES
  nb,           \* where main() of the notebook is
  gpus,         \* torch.cuda.device_count(), 0 when there is no CUDA
  run,          \* number of the user's current run
  histories     \* histories[r]: the rank{r}_history.json it has read

nbVars == <<nb, gpus, run, histories>>
allVars == <<vars, nbVars>>

NbInit ==
  /\ Init
  /\ files = [r \in Rank |-> [f \in Artifact |-> "absent"]]
  /\ nb = "start"
  /\ gpus \in GpuCounts
  /\ run = 1
  /\ histories = [r \in Rank |-> "absent"]

RefuseAccelerator ==
  /\ nb = "start"
  /\ gpus # 2
  /\ nb' = "aborted"
  /\ UNCHANGED <<vars, gpus, run, histories>>

LaunchTorchrun ==
  /\ nb = "start"
  /\ gpus = 2
  /\ nb' = "launched"
  /\ UNCHANGED <<vars, gpus, run, histories>>

\* subprocess.run waits while the ranks train
Workers(r) ==
  /\ nb = "launched"
  /\ Train(r) \/ Runtime(r)
  /\ UNCHANGED nbVars

TorchrunFailed ==
  /\ nb = "launched"
  /\ LauncherFailed
  /\ nb' = "aborted"
  /\ UNCHANGED <<vars, gpus, run, histories>>

\* Mutant: the return code is not looked at.
ReadHistoriesAnyway ==
  /\ nb = "launched"
  /\ AllEnded
  /\ histories' = [r \in Rank |-> files[r]["history"]]
  /\ nb' = "read"
  /\ UNCHANGED <<vars, gpus, run>>

ReadHistories ==
  /\ nb = "launched"
  /\ LauncherOK
  /\ histories' = [r \in Rank |-> files[r]["history"]]
  /\ nb' = "read"
  /\ UNCHANGED <<vars, gpus, run>>

WriteSummary ==
  /\ nb = "read"
  /\ nb' = "done"
  /\ UNCHANGED <<vars, gpus, run, histories>>

Aged(state) == IF state = "fresh" THEN "stale" ELSE state

\* "Save & re-run": new processes, the same directory
SaveAndRerun ==
  /\ nb \in {"done", "aborted"}
  /\ run < MaxRuns
  /\ run' = run + 1
  /\ nb' = "start"
  /\ gpus' \in GpuCounts
  /\ files' = [r \in Rank |-> [f \in Artifact |-> Aged(files[r][f])]]
  /\ entered' = [r \in Rank |-> 0]
  /\ posted' = [r \in Rank |-> <<>>]
  /\ proc' = [r \in Rank |-> "running"]
  /\ pc' = [r \in Rank |-> "start"]
  /\ step' = [r \in Rank |-> 0]
  /\ model' = [r \in Rank |-> NoVal]
  /\ UNCHANGED <<args, crashes, histories>>

NbOver == nb \in {"done", "aborted"} /\ run = MaxRuns /\ UNCHANGED allVars

Notebook ==
  RefuseAccelerator \/ LaunchTorchrun \/ TorchrunFailed \/ ReadHistories \/ WriteSummary

NbNext == NbOver \/ Notebook \/ SaveAndRerun \/ \E r \in Rank : Workers(r)

\* The notebook and the processes it started run; the user need not return.
NbSpec ==
  /\ NbInit /\ [][NbNext]_allVars
  /\ WF_allVars(Notebook)
  /\ \A r \in Rank :
       /\ WF_allVars(nb = "launched" /\ Train(r) /\ UNCHANGED nbVars)
       /\ WF_allVars(nb = "launched" /\ Launcher(r) /\ UNCHANGED <<model, nbVars>>)

-----------------------------------------------------------------------------
\* A summary is made of the histories of one run, the one just launched, and of
\* a run whose replicas ended in sync; never of what an earlier or a failed run
\* left in the directory.
SummaryOfOneGoodRun ==
  nb \in {"read", "done"} =>
    /\ \A r \in Rank : histories[r] = "fresh"
    /\ \A q, r \in Rank : model[q] = model[r]

\* The notebook does not hang, whatever happens to the ranks.
NotebookEnds == nb = "start" ~> nb \in {"done", "aborted"}
=============================================================================
