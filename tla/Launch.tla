-------------------------------- MODULE Launch --------------------------------
(***************************************************************************)
(* What a notebook relies on when it launches a job and looks no further   *)
(* than its return code.  While the job runs its processes fill the files  *)
(* in its directory.  Some they write together: no process goes on before  *)
(* these files of every process are whole, which is what the barrier at    *)
(* the end of the training scripts is for.  Others, the reports of         *)
(* profile_run.py, each process writes alone, after that barrier.  A       *)
(* process may fail at any time; then the others are killed.               *)
(*                                                                         *)
(* The scripts' modules are checked to keep this contract, and Notebooks   *)
(* is built on it.                                                         *)
(***************************************************************************)
CONSTANT Artifact   \* the files a process may leave in the job's directory

VARIABLES
  job,      \* what was launched: [ranks, together, alone, ...]
  proc,     \* proc[r]: process r as the launcher sees it
  files     \* files[r][f]: file f of process r in the job's directory

launchVars == <<job, proc, files>>

\* What may be there before the job has written anything
Leftover == {"absent", "stale", "torn"}

Started(j) == [r \in j.ranks |-> "running"]

LaunchInit ==
  /\ proc = Started(job)
  /\ files \in [job.ranks -> [Artifact -> Leftover]]

TrainingSaved == \A q \in job.ranks : \A f \in job.together : files[q][f] = "fresh"

Writable(f) == f \in job.together \/ (f \in job.alone /\ TrainingSaved)

\* Files are truncated and then filled, each once.
WriteFile(r) ==
  /\ proc[r] = "running"
  /\ \E f \in Artifact :
       /\ Writable(f)
       /\ files[r][f] # "fresh"
       /\ files' = [files EXCEPT ![r][f] = IF @ = "torn" THEN "fresh" ELSE "torn"]
  /\ UNCHANGED <<job, proc>>

EndWell(r) ==
  /\ proc[r] = "running"
  /\ TrainingSaved
  /\ \A f \in job.alone : files[r][f] = "fresh"
  /\ proc' = [proc EXCEPT ![r] = "ok"]
  /\ UNCHANGED <<job, files>>

FailJob(r) ==
  /\ proc[r] = "running"
  /\ proc' = [proc EXCEPT ![r] = "failed"]
  /\ UNCHANGED <<job, files>>

KillRest(r) ==
  /\ proc[r] = "running"
  /\ \E q \in job.ranks : proc[q] = "failed"
  /\ proc' = [proc EXCEPT ![r] = "killed"]
  /\ UNCHANGED <<job, files>>

LaunchNext ==
  \E r \in job.ranks : WriteFile(r) \/ EndWell(r) \/ FailJob(r) \/ KillRest(r)

LaunchSpec == LaunchInit /\ [][LaunchNext]_launchVars

JobOver == \A r \in job.ranks : proc[r] # "running"
JobOK == \A r \in job.ranks : proc[r] = "ok"
=============================================================================
