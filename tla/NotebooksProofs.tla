---------------------------- MODULE NotebooksProofs ----------------------------
(***************************************************************************)
(* What the notebooks report, for any number of runs in a session, any     *)
(* accelerator settings and whatever the jobs do within the contract of    *)
(* Launch.  The invariant says where in its script a notebook is, that it  *)
(* has read only whole files of this run, and, for the job that runs now,  *)
(* that a process that ended well has left its files whole.                *)
(***************************************************************************)
EXTENDS Notebooks, TLAPS

JobOf(n, i) == Script[n].jobs[i]

LEMMA NotebookNames ==
  Notebook = {"single_gpu", "ddp", "fsdp", "tp", "pp", "profiling"}
BY DEF Notebook, Script

\* Every job reads what it writes, on the ranks it has.
WellFormed(j) ==
  /\ j.ranks \subseteq 0 .. 1
  /\ j.together \subseteq Artifact /\ j.alone \subseteq Artifact
  /\ j.reads \in j.together \cup j.alone

LEMMA JobsWellFormed ==
  ASSUME NEW n \in Notebook
  PROVE  /\ Len(Script[n].jobs) \in Nat
         /\ DOMAIN Script[n].jobs = 1 .. Len(Script[n].jobs)
         /\ \A i \in DOMAIN Script[n].jobs : WellFormed(JobOf(n, i)) /\ JobOf(n, i).dir \in Dir
<1>1. \A s : WellFormed(TrainJob(s)) /\ WellFormed(ProfileJob(s))
  BY ArtifactAssumption DEF TrainJob, ProfileJob, TrainArtifacts, WellFormed
<1>2. \A i \in DOMAIN Script[n].jobs : JobOf(n, i).dir \in Dir
  BY DEF Dir, JobOf
<1>3. CASE n = "single_gpu"
  BY <1>2, <1>3, ArtifactAssumption DEF Script, SingleGpu, JobOf, WellFormed
<1>4. CASE n \in {"ddp", "fsdp", "tp", "pp"}
  <2>1. \E s : Script[n].jobs = <<TrainJob(s)>>
    BY <1>4 DEF Script, Ddp, Fsdp, Tp, Pp
  <2> QED BY <1>1, <1>2, <2>1 DEF JobOf
<1>5. CASE n = "profiling"
  <2>1. Script[n].jobs = <<ProfileJob("baseline"), ProfileJob("ddp"), ProfileJob("fsdp"),
                           ProfileJob("tp"), ProfileJob("pp")>>
    BY <1>5 DEF Script, Profiling
  <2> QED BY <1>1, <1>2, <2>1 DEF JobOf
<1> QED BY <1>3, <1>4, <1>5, NotebookNames

-----------------------------------------------------------------------------
FileState == Leftover \cup {"fresh"}
Holding == [Artifact -> FileState]      \* what one process's files may hold
Reading == UNION {[R -> [file : FileState, loss : BOOLEAN]] : R \in SUBSET (0 .. 1)}

NbTypeOK ==
  /\ nb \in Notebook
  /\ at \in {"ready", "running", "done", "aborted"}
  /\ results \in Seq(Reading)
  /\ disk \in [Dir -> [0 .. 1 -> Holding]]
  /\ DOMAIN summary = Notebook
  /\ job.ranks \subseteq 0 .. 1
  /\ DOMAIN proc = job.ranks
  /\ DOMAIN files = job.ranks /\ \A r \in job.ranks : files[r] \in Holding

\* The jobs run one after the other, and only whole files are read.
OneByOne ==
  /\ Len(results) <= Len(Me.jobs)
  /\ \A i \in 1 .. Len(results) : \A r \in JobOf(nb, i).ranks :
       results[i][r].file = "fresh"
  /\ at = "running" => Len(results) < Len(Me.jobs) /\ job = JobOf(nb, Len(results) + 1)
  /\ NothingLeftRunning

\* A process of the job that ended well has written what will be read of it.
OkMeansWritten ==
  at = "running" =>
    \A r \in job.ranks : proc[r] = "ok" => files[r][job.reads] = "fresh"

\* A summary of this run is written at its end, after all jobs.
SummaryLast == summary[nb] = "fresh" => at = "done" /\ Len(results) = Len(Me.jobs)

NbInv == NbTypeOK /\ OneByOne /\ OkMeansWritten /\ SummaryLast

LEMMA NbStarts == Init => NbInv
<1> SUFFICES ASSUME Init PROVE NbInv
  OBVIOUS
<1>1. NbTypeOK
  <2>1. disk \in [Dir -> [0 .. 1 -> Holding]]
    BY DEF Init, NoFiles, Holding, FileState, Leftover
  <2>2. job.ranks = {} /\ DOMAIN proc = {} /\ DOMAIN files = {}
    <3>1. proc = <<>> /\ files = <<>> /\ job.ranks = {}
      BY DEF Init, NoJob
    <3>2. DOMAIN << >> = {}
      OBVIOUS
    <3> QED BY <3>1, <3>2, Zenon
  <2>3. nb \in Notebook /\ DOMAIN summary = Notebook
    BY NotebookNames DEF Init
  <2>4. results \in Seq(Reading) /\ at = "done"
    BY DEF Init
  <2> QED BY <2>1, <2>2, <2>3, <2>4 DEF NbTypeOK
<1>2. JobOver /\ Len(results) = 0 /\ Len(Me.jobs) \in Nat
  BY <1>1, JobsWellFormed DEF Init, NoJob, JobOver, NbTypeOK, Me
<1>3. summary[nb] # "fresh"
  BY <1>1 DEF Init, NbTypeOK
<1> QED BY <1>1, <1>2, <1>3
        DEF Init, NbInv, OneByOne, OkMeansWritten, SummaryLast, NothingLeftRunning

LEMMA RunningJob ==
  ASSUME NbInv, at = "running"
  PROVE  /\ WellFormed(job) /\ job.dir \in Dir /\ job.reads \in Artifact
         /\ job = JobOf(nb, Len(results) + 1)
         /\ Len(results) \in Nat /\ Len(results) + 1 <= Len(Me.jobs)
<1>1. Len(results) \in Nat /\ Len(results) < Len(Me.jobs) /\ Len(Me.jobs) \in Nat
  BY JobsWellFormed DEF NbInv, NbTypeOK, OneByOne, Me
<1>2. Len(results) + 1 \in DOMAIN Script[nb].jobs
  BY <1>1, JobsWellFormed DEF NbInv, NbTypeOK, Me
<1>3. WellFormed(job) /\ job.dir \in Dir
  BY <1>2, JobsWellFormed DEF NbInv, NbTypeOK, OneByOne
<1> QED BY <1>1, <1>3 DEF NbInv, OneByOne, WellFormed

\* What a process does while its job runs
LEMMA NbProcesses == NbInv /\ Processes => NbInv'
<1> SUFFICES ASSUME NbInv, Processes PROVE NbInv'
  OBVIOUS
<1>1. /\ at = "running" /\ UNCHANGED nbVars /\ job' = job
      /\ WellFormed(job) /\ job.reads \in Artifact
  BY RunningJob DEF Processes, LaunchNext, WriteFile, EndWell, FailJob, KillRest
<1>2. PICK r \in job.ranks : WriteFile(r) \/ EndWell(r) \/ FailJob(r) \/ KillRest(r)
  BY DEF Processes, LaunchNext
<1>3. /\ DOMAIN proc = job.ranks /\ DOMAIN files = job.ranks
      /\ \A q \in job.ranks : files[q] \in Holding
  BY DEF NbInv, NbTypeOK
<1>4. CASE WriteFile(r)
  <2>1. PICK f \in Artifact :
          /\ files[r][f] # "fresh"
          /\ files' = [files EXCEPT ![r][f] = IF @ = "torn" THEN "fresh" ELSE "torn"]
    BY <1>4 DEF WriteFile
  <2>2. /\ DOMAIN files' = job.ranks
        /\ \A q \in job.ranks : files'[q] \in Holding
        /\ \A q \in job.ranks : \A g \in Artifact :
             files[q][g] = "fresh" => files'[q][g] = "fresh"
    BY <1>3, <2>1 DEF Holding, FileState, Leftover
  <2>3. proc' = proc
    BY <1>4 DEF WriteFile
  <2>4. NbTypeOK'
    BY <1>1, <2>2, <2>3 DEF NbInv, NbTypeOK, nbVars
  <2>5. OkMeansWritten'
    BY <1>1, <2>2, <2>3 DEF NbInv, OkMeansWritten, nbVars
  <2> QED BY <1>1, <2>4, <2>5
          DEF NbInv, OneByOne, SummaryLast, NothingLeftRunning, nbVars, Me
<1>5. CASE EndWell(r) \/ FailJob(r) \/ KillRest(r)
  <2>1. files' = files /\ DOMAIN proc' = job.ranks
    BY <1>3, <1>5 DEF EndWell, FailJob, KillRest
  <2>2. ASSUME NEW q \in job.ranks, proc'[q] = "ok" PROVE files[q][job.reads] = "fresh"
    <3>1. CASE proc[q] = "ok"
      BY <1>1, <3>1 DEF NbInv, OkMeansWritten
    <3>2. CASE proc[q] # "ok"
      <4>1. q = r /\ EndWell(r)
        BY <1>3, <1>5, <2>2, <3>2 DEF EndWell, FailJob, KillRest
      <4> QED BY <1>1, <4>1 DEF EndWell, TrainingSaved, WellFormed
    <3> QED BY <3>1, <3>2
  <2>3. NbTypeOK'
    BY <1>1, <2>1 DEF NbInv, NbTypeOK, nbVars
  <2>4. OkMeansWritten'
    BY <1>1, <2>1, <2>2 DEF OkMeansWritten, nbVars
  <2> QED BY <1>1, <2>3, <2>4
          DEF NbInv, OneByOne, SummaryLast, NothingLeftRunning, nbVars, Me
<1> QED BY <1>2, <1>4, <1>5

\* The files of a job that is over go back to its directory.
LEMMA DiskKept ==
  ASSUME NbInv, at = "running", disk' = [disk EXCEPT ![job.dir] = JobFiles]
  PROVE  disk' \in [Dir -> [0 .. 1 -> Holding]]
<1>1. disk \in [Dir -> [0 .. 1 -> Holding]] /\ job.dir \in Dir
  BY RunningJob DEF NbInv, NbTypeOK
<1>2. JobFiles \in [0 .. 1 -> Holding]
  BY <1>1 DEF JobFiles, NbInv, NbTypeOK
<1> QED BY <1>1, <1>2

LEMMA NbMain == NbInv /\ Main => NbInv'
<1> SUFFICES ASSUME NbInv, Main PROVE NbInv'
  OBVIOUS
<1>0. /\ Len(results) \in Nat /\ Len(Me.jobs) \in Nat
      /\ nb \in Notebook /\ DOMAIN summary = Notebook
  BY JobsWellFormed DEF NbInv, NbTypeOK, Me
<1>1. CASE RefuseAccelerator
  BY <1>1 DEF RefuseAccelerator, launchVars, NbInv, NbTypeOK, OneByOne, OkMeansWritten, SummaryLast,
              NothingLeftRunning, JobOver, Me
<1>2. CASE StartJob
  <2> DEFINE j == JobOf(nb, Len(results) + 1)
  <2>1. /\ at = "ready" /\ at' = "running" /\ Len(results) < Len(Me.jobs)
        /\ job' = j /\ proc' = Started(j) /\ files' = [r \in j.ranks |-> disk[j.dir][r]]
        /\ UNCHANGED <<nb, runs, visible, results, disk, summary>>
    BY <1>2 DEF StartJob, Me, JobOf
  <2>2. WellFormed(j) /\ j.dir \in Dir
    <3>1. Len(results) + 1 \in DOMAIN Script[nb].jobs
      BY <1>0, <2>1, JobsWellFormed DEF Me
    <3> QED BY <1>0, <3>1, JobsWellFormed
  <2>3. NbTypeOK'
    BY <2>1, <2>2 DEF NbInv, NbTypeOK, Started, WellFormed
  <2>4. OkMeansWritten'
    BY <2>1 DEF OkMeansWritten, Started
  <2>5. OneByOne'
    BY <2>1 DEF NbInv, OneByOne, NothingLeftRunning, Me
  <2> QED BY <2>1, <2>3, <2>4, <2>5 DEF NbInv, SummaryLast, Me
<1>3. CASE JobFailed
  <2>1. /\ at = "running" /\ at' = "aborted" /\ JobOver
        /\ disk' = [disk EXCEPT ![job.dir] = JobFiles]
        /\ UNCHANGED <<launchVars, nb, runs, visible, results, summary>>
    BY <1>3 DEF JobFailed
  <2>2. disk' \in [Dir -> [0 .. 1 -> Holding]]
    BY <2>1, DiskKept
  <2> QED BY <2>1, <2>2
          DEF launchVars, NbInv, NbTypeOK, OneByOne, OkMeansWritten, SummaryLast,
              NothingLeftRunning, JobOver, Me
<1>4. CASE ReadResults
  <2> DEFINE read == [r \in job.ranks |->
                        [file |-> files[r][job.reads], loss |-> HasLoss(job, r)]]
  <2>1. /\ at = "running" /\ at' = "ready" /\ JobOK
        /\ disk' = [disk EXCEPT ![job.dir] = JobFiles]
        /\ results' = Append(results, read)
        /\ UNCHANGED <<launchVars, nb, runs, visible, summary>>
    BY <1>4 DEF ReadResults, ReadFiles
  <2>2. disk' \in [Dir -> [0 .. 1 -> Holding]]
    BY <2>1, DiskKept
  <2>3. \A r \in job.ranks : read[r].file = "fresh"
    BY <2>1 DEF JobOK, NbInv, OkMeansWritten
  <2>4. read \in Reading
    <3>1. \A r \in job.ranks : files[r][job.reads] \in FileState /\ HasLoss(job, r) \in BOOLEAN
      BY <2>1, RunningJob DEF NbInv, NbTypeOK, Holding, HasLoss
    <3>2. read \in [job.ranks -> [file : FileState, loss : BOOLEAN]]
      BY <3>1
    <3> QED BY <3>2 DEF Reading, NbInv, NbTypeOK
  <2>5. /\ results' \in Seq(Reading) /\ Len(results') = Len(results) + 1
        /\ results'[Len(results) + 1] = read
        /\ \A i \in 1 .. Len(results) : results'[i] = results[i]
    BY <2>1, <2>4 DEF NbInv, NbTypeOK
  <2>6. NbTypeOK'
    BY <2>1, <2>2, <2>5 DEF NbInv, NbTypeOK, launchVars
  <2>7. OneByOne'
    <3>1. job = JobOf(nb, Len(results) + 1) /\ Len(results) + 1 <= Len(Me.jobs)
      BY <2>1, RunningJob
    <3>2. ASSUME NEW i \in 1 .. Len(results'), NEW r \in JobOf(nb, i).ranks
          PROVE  results'[i][r].file = "fresh"
      <4>1. CASE i = Len(results) + 1
        BY <2>3, <2>5, <3>1, <4>1
      <4>2. CASE i \in 1 .. Len(results)
        BY <2>5, <4>2 DEF NbInv, OneByOne
      <4> QED BY <1>0, <2>5, <4>1, <4>2
    <3>3. JobOver'
      BY <2>1 DEF JobOK, JobOver, launchVars
    <3> QED BY <2>1, <2>5, <3>1, <3>2, <3>3 DEF OneByOne, NothingLeftRunning, Me
  <2>8. summary[nb] # "fresh"
    BY <2>1 DEF NbInv, SummaryLast
  <2> QED BY <2>1, <2>6, <2>7, <2>8 DEF NbInv, OkMeansWritten, SummaryLast, Me
<1>5. CASE Report
  <2>1. /\ at = "ready" /\ at' \in {"done", "aborted"} /\ Len(results) = Len(Me.jobs)
        /\ at' = "aborted" => summary' = summary
        /\ DOMAIN summary' = Notebook
        /\ UNCHANGED <<launchVars, nb, runs, visible, results, disk>>
    BY <1>0, <1>5 DEF Report
  <2>2. NbTypeOK' /\ OkMeansWritten'
    BY <2>1 DEF launchVars, NbInv, NbTypeOK, OkMeansWritten
  <2>3. OneByOne'
    BY <2>1 DEF launchVars, NbInv, OneByOne, NothingLeftRunning, JobOver, Me
  <2>4. SummaryLast'
    BY <2>1 DEF NbInv, SummaryLast, Me
  <2> QED BY <2>2, <2>3, <2>4 DEF NbInv
<1> QED BY <1>1, <1>2, <1>3, <1>4, <1>5 DEF Main

LEMMA NbRunAgain ==
  ASSUME NbInv, NEW n \in Notebook, RunNotebook(n)
  PROVE  NbInv'
<1>1. /\ at # "running" /\ at' = "ready" /\ nb' = n /\ results' = <<>>
      /\ UNCHANGED launchVars
      /\ disk' = [d \in Dir |-> [r \in 0 .. 1 |-> [f \in Artifact |-> Aged(disk[d][r][f])]]]
      /\ summary' = [m \in Notebook |-> Aged(summary[m])]
  BY DEF RunNotebook
<1>2. \A s \in FileState : Aged(s) \in FileState
  BY DEF Aged, FileState, Leftover
<1>3. disk' \in [Dir -> [0 .. 1 -> Holding]]
  BY <1>1, <1>2 DEF NbInv, NbTypeOK, Holding
<1>4. summary'[n] # "fresh"
  BY <1>1 DEF Aged
<1>5. results' \in Seq(Reading) /\ Len(results') = 0 /\ Len(Script[n].jobs) \in Nat
  BY <1>1, JobsWellFormed
<1>6. NbTypeOK'
  BY <1>1, <1>3, <1>5 DEF launchVars, NbInv, NbTypeOK
<1> QED BY <1>1, <1>4, <1>5, <1>6
        DEF launchVars, NbInv, OneByOne, OkMeansWritten, SummaryLast, NothingLeftRunning,
            JobOver, Me

THEOREM NotebooksCorrect == Spec => []NbInv
<1>1. NbInv /\ [Next]_vars => NbInv'
  <2>1. NbInv /\ UNCHANGED vars => NbInv'
    BY DEF vars, launchVars, nbVars, NbInv, NbTypeOK, OneByOne, OkMeansWritten, SummaryLast,
           NothingLeftRunning, JobOver, Me
  <2> QED BY <2>1, NbProcesses, NbMain, NbRunAgain DEF Next, SessionOver
<1> QED BY <1>1, NbStarts, PTL DEF Spec

\* A notebook reports only numbers that all its jobs measured in this run of it,
\* on every rank.
THEOREM ReportsThisRun == Spec => []SummaryOfThisRun
<1>1. NbInv => SummaryOfThisRun
  <2> SUFFICES ASSUME NbInv, summary[nb] = "fresh"
               PROVE  /\ Len(results) = Len(Me.jobs)
                      /\ \A i \in DOMAIN results : \A r \in Me.jobs[i].ranks :
                           results[i][r].file = "fresh"
    BY DEF SummaryOfThisRun
  <2>1. DOMAIN results = 1 .. Len(results)
    BY DEF NbInv, NbTypeOK
  <2> QED BY <2>1 DEF NbInv, OneByOne, SummaryLast, JobOf, Me
<1> QED BY <1>1, NotebooksCorrect, PTL

\* When a notebook goes on, no process of its last job is left.
THEOREM JobsDoNotOverlap == Spec => []NothingLeftRunning
<1>1. NbInv => NothingLeftRunning
  BY DEF NbInv, OneByOne
<1> QED BY <1>1, NotebooksCorrect, PTL
=============================================================================
