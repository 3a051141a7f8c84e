-------------------------------- MODULE Worker --------------------------------
(***************************************************************************)
(* What the four distributed scripts have in common: every process runs    *)
(* the same train(), on the same command line, as a sequence of local work *)
(* and collective calls, and leaves its artifacts in --out-dir.  train_ddp *)
(* is the script the helpers are mapped to; train_fsdp, train_tp and       *)
(* train_pp carry copies of them.                                          *)
(*                                                                         *)
(* An action is what one process does between two points at which it waits *)
(* for the others or leaves a trace outside itself.                        *)
(***************************************************************************)
EXTENDS Collectives

CONSTANTS
  StepCounts,   \* values of --steps
  Backends,     \* values of --backend
  OutDirs,      \* is --out-dir given?
  Cuda          \* torch.cuda.is_available()

ASSUME StepCountsAssumption == StepCounts \subseteq Nat
ASSUME FlagsAssumption == Cuda \in BOOLEAN /\ OutDirs \subseteq BOOLEAN

VARIABLES
  args,     \* the command line, the same for every process
  pc,       \* pc[r]: where rank r is in train()
  step,     \* step[r]: optimizer steps rank r has made, len(result.history)
  files     \* files[r]: what rank r's artifacts in --out-dir hold

workerVars == <<entered, posted, proc, crashes, args, pc, step, files>>

Artifact == {"state", "history"}    \* rank{r}_state.pt, rank{r}_history.json
FileState == {"absent", "stale", "torn", "fresh"}

WorkerInit ==
  /\ CommInit
  /\ args \in [backend : Backends, steps : StepCounts, out_dir : OutDirs]
  /\ pc = [r \in Rank |-> "start"]
  /\ step = [r \in Rank |-> 0]
  \* out_dir is a fixed path: an earlier run may have left its files there
  /\ files \in [Rank -> [Artifact -> IF args.out_dir THEN {"absent", "stale"} ELSE {"absent"}]]

-----------------------------------------------------------------------------
At(r, label) == proc[r] = "running" /\ pc[r] = label
Goto(r, label) == pc' = [pc EXCEPT ![r] = label]

\* Rank r calls a collective and will wait for it at label next.
Call(r, op, val, next) ==
  Enter(r, op, val) /\ Goto(r, next) /\ UNCHANGED <<proc, crashes, args, step, files>>

\* Local work, nothing of which is seen from outside.
Advance(r, next) ==
  Goto(r, next) /\ UNCHANGED <<entered, posted, proc, crashes, args, step, files>>

EndStep(r, next) ==
  /\ step' = [step EXCEPT ![r] = @ + 1]
  /\ Goto(r, next)
  /\ UNCHANGED <<entered, posted, proc, crashes, args, files>>

\* SystemExit, or an exception nobody catches
Fail(r) == Exit(r, "failed") /\ UNCHANGED <<entered, posted, crashes, args, pc, step, files>>

Return(r) ==
  Exit(r, "ok") /\ Goto(r, "done") /\ UNCHANGED <<entered, posted, crashes, args, step, files>>

\* pick_backend_and_device
Backend ==
  IF args.backend # "auto" THEN args.backend ELSE IF Cuda THEN "nccl" ELSE "gloo"
NcclMissing == Backend = "nccl" /\ ~Cuda

RejectBackend(r) == At(r, "start") /\ NcclMissing /\ Fail(r)

\* setup_distributed: init_process_group returns when every rank has joined
SetupDistributed(r) ==
  At(r, "start") /\ ~NcclMissing /\ Call(r, "init_process_group", NoVal, "setup")

\* torch.save and write_text truncate the file and then fill it, under its
\* final name.
WriteArtifact(r, f, next) ==
  \/ /\ files[r][f] # "torn"
     /\ files' = [files EXCEPT ![r][f] = "torn"]
     /\ UNCHANGED <<entered, posted, proc, crashes, args, pc, step>>
  \/ /\ files[r][f] = "torn"
     /\ files' = [files EXCEPT ![r][f] = "fresh"]
     /\ Goto(r, next)
     /\ UNCHANGED <<entered, posted, proc, crashes, args, step>>

Launcher(r) == KillWorker(r) /\ UNCHANGED <<args, pc, step, files>>
Environment(r) == (Crash(r) \/ PeerLost(r)) /\ UNCHANGED <<args, pc, step, files>>

-----------------------------------------------------------------------------
\* Type correctness of what the scripts share; Label is a script's own.
WorkerTypeOK(Label) ==
  /\ entered \in [Rank -> Nat]
  /\ DOMAIN posted = Rank /\ \A r \in Rank : DOMAIN posted[r] = 1 .. Here(r)
  /\ proc \in [Rank -> ProcState]
  /\ crashes \in 0 .. MaxCrashes
  /\ args \in [backend : Backends, steps : StepCounts, out_dir : OutDirs]
  /\ pc \in [Rank -> Label]
  /\ step \in [Rank -> 0 .. args.steps]
  /\ files \in [Rank -> [Artifact -> FileState]]

\* Every process calls the same collectives in the same order, whatever path
\* it took between them: the k-th calls of two ranks always pair up.
SameCollectives ==
  \A q, r \in Rank : \A k \in 1 .. Here(q) :
    k <= Here(r) => OpAt(q, k) = OpAt(r, k)

\* Blocking collectives keep the ranks within one optimizer step.
Lockstep == \A q, r \in Rank : step[q] <= step[r] + 1

\* Seen from the notebook that launched it, the run is a job as Launch has it:
\* files are written once and while it runs, and no rank ends well before every
\* rank's files are whole and of this run.
Contract == INSTANCE Launch WITH
  job <- [ranks |-> Rank, together |-> IF args.out_dir THEN Artifact ELSE {}, alone |-> {}]

LaunchContract == Contract!LaunchSpec

\* The artifacts of an earlier run are not touched before every rank has made
\* all its steps: a crash during training cannot damage them.
ArtifactsLast ==
  [][\A r \in Rank : files'[r] # files[r] => \A q \in Rank : step[q] = args.steps]_workerVars

\* No rank tears its process group down while a peer may still need it.
LeaveTogether ==
  [][\A r \in Rank : pc'[r] = "done" =>
       \A q \in Rank : pc[q] \in {"barrier", "done"}]_workerVars

\* However workers die, the run ends: nobody waits for a lost peer forever.
Termination == <>AllEnded
=============================================================================
