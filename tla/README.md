# distributed-training-lab in TLA+

The repository trains one small transformer (TinyGPT) in five ways: on one
device (`train_baseline.py`) and, over several processes, with replicated
weights (`train_ddp.py`), sharded weights (`train_fsdp.py`), split matrices
(`train_tp.py`) and split layers (`train_pp.py`). The claim that ties them
together is that the four distributed scripts compute what the one-device loop
computes. The modules here state that claim, and what else has to hold among
processes that run at their own speed, die, wait for each other and leave files
behind: the notebooks that launch the scripts believe those files, and the
profiler's report, on the strength of a return code. TLC checks all this on small
instances; TLAPS proves all of it but liveness for every size: every invariant the
passing runs check, and that each of the four distributed scripts implements the
one-device loop and keeps what the notebooks rely on.

## 1. The system

| Part | State it keeps | Operations | What is hard about it |
|---|---|---|---|
| `train_ddp.py` | weights and moments per rank, `result.history`, artifacts | set up, wrap (broadcast), step (allreduce), compare fingerprints (all_gather), write artifacts, barrier, destroy | ranks at different speeds, rank-0-only exit, crash in each place, files of earlier runs |
| `train_fsdp.py` | one chunk of everything per rank | broadcast, shard, gather-forward, backward, reduce-scatter, update, summon full parameters, compare | chunks of different versions, a check that compares gathered copies |
| `train_tp.py`, `src/tensor_parallel.py` | replicated parameters and a share of the split ones | broadcast, parallelize, forward check, steps with an allreduce per pass, compare losses and weights | all ranks need the same batch; checks on rank 0 only; backends and devices |
| `train_pp.py`, `src/pipeline_model.py` | the modules of one stage | cut the model, GPipe schedule over sends and receives, update, write artifacts | no collective in a step: order comes from messages alone; remainders and single stage |
| `src/data.py`, `make_rank_shard` | corpus, shard boundaries | build, shard, draw a batch | boundaries, remainders, off-by-one targets |
| `train_baseline.py` | weights | step | the reference |
| `profile_run.py`, `src/profiling.py` | the profiler's events, CUDA memory and its peak, two readings of the process's peak RSS | overlay a namespace, warm up, reset the peak, profile `train` or a window of steps, classify events | peaks that belong to the warm-up, names of events, reports written after the barrier |
| `notebooks/*` | result files in fixed directories, a summary | check GPUs, launch one job after another, look at the return code, read, assert, summarise | files of earlier or failed runs, jobs that fail half-way, the GPUs that are visible |
| runtime (not in the repository) | process group, worker processes | collectives, point-to-point messages, launch, kill | lost peers |

The scripts interact with each other in no way; the processes of one script
interact through collectives (DDP, FSDP, TP) or messages between neighbours (PP),
through the launcher, which kills the survivors when a worker fails, and with
later runs through the files. Notebooks start scripts and read those files.

## 2. Modules

    ReferenceTraining     one process, one model: abstract specification of training
    Launch                one job as its launcher sees it: abstract specification of a run
    Collectives           torch.distributed and the launcher, as the scripts use them
      Worker              what the four scripts share; the properties they share
                                             -- WorkerProofs: lemmas for the scripts
        DDP               train_ddp.py       -- DDPProofs; MCDDP
          DDPNotebook     kaggle_ddp_2gpu.py around DDP -- DDPProofs; MCDDPNotebook
        FSDP              train_fsdp.py      -- FSDPProofs; MCFSDP
        TP                train_tp.py        -- TPProofs; MCTP
        PP                train_pp.py        -- PPProofs; MCPP
          PipelineStages  pipeline_model.py  -- PPProofs (extended by PP)
    Notebooks             all of notebooks/ and profile_run.py's files, around Launch
                                             -- NotebooksProofs; MCNotebooks
    Profiler              src/profiling.py, the measuring of profile_run.py
                                             -- ProfilerProofs; MCProfiler
    DataSharding          data.py, make_rank_shard -- DataShardingProofs; MCDataSharding

**Two abstract specifications.** `DDP`, `FSDP`, `TP` and `PP` each take an `INSTANCE`
of `ReferenceTraining` with a refinement mapping, and have `TrainsAsOneModel ==
Reference!RefSpec` as a property: the processes together are one process training
one model. They also implement `Launch` (`LaunchContract` in `Worker`): files are
written while the job runs, and no process ends well before the files of every
process are whole and of this run. `Notebooks` is written against `Launch` alone. So
a notebook is examined with everything a job may do within its contract, and each
script is shown separately to keep the contract: composing them does not multiply
the states. `DDPNotebook` composes one notebook with its script directly, where the
question depends on the script's inside: what return code 0 says when training has
diverged.

**Processes.** One action is what a process does between two points where it
waits for others or leaves a trace outside. `pc[r]` names the point; `Call` enters
a collective, and the next action of that rank has `Complete(r)` as a guard.
`posted[r]` is the list of everything the rank has brought to collectives, so that
the k-th call of one rank is matched with the k-th of the others and a rank that
is behind still finds what it needs. A broadcast completes for a rank when the
source has entered it, the others when every rank has.

**Weights.** Parameters and AdamW's moments are one value. Initialisation,
gradient and update are constant operators (`InitW`, `Grad`, `Apply`, ...). The MC
modules define them as free terms: two weights are equal only when they were
computed in the same way from the same inputs, so a stale gradient, a lost
contribution or a second update shows. In `FSDP` and `PP` the update is by chunk
or module, which is right because AdamW works element by element. In `TP` the
partial results of the ranks add up to the whole model's result exactly when they
come from the same weights and the same batch (`MCTP`).

**Files.** An artifact is absent, stale (an earlier run's), torn (being written)
or fresh. `out_dir` is a fixed path, so a run may start with stale files.

**Failures.** A process may die anywhere (`Crash`, bounded by `MaxCrashes`), exit
with `SystemExit` or an exception (`Fail`), may or may not notice that a peer is
gone (`PeerLost`, `NeighbourLost`: gloo may raise, nccl waits), and is killed by the
launcher when another one has failed. `GradSync = FALSE` (DDP) and `Faults` (FSDP, TP)
inject a broken reduction, to see what the scripts' own checks are worth.

**Data.** In `DataSharding` a token is its position in the corpus; in the training
modules a batch is a model value, or the k-th draw where the ranks' generators
must agree (TP, PP).

**Notebooks.** A notebook is a record: the GPUs it insists on, its jobs in order, and
the ranks it asserts to have losses or none (PP's alone does). `Script` lists the
six. Which rank's numbers go into which line of a summary is left out. `visible` is the
number of GPUs torch sees: `single_gpu` hides all but one, unless
`CUDA_VISIBLE_DEVICES` was set before. `disk` holds every directory between jobs; `Aged` makes fresh files stale when a
notebook is started again in the same session. What the training scripts write
before their barrier is `together`; `profile_run.py`'s report, which each process
writes after `train()` has returned, is `alone`, so with it a process may end while
another's report is still torn: only a launcher that waits for all, and only the
return code, make `profile_*_rank*.json` safe to read. A TP job over nccl can only
fail (section 4), so today the profiling and TP notebooks stop there; `Notebooks` lets
TP succeed as well, in order to examine what follows. A job's directory is a pair: the
kind of job, training or profiling, and the strategy, whose name alone says which ranks
of the job record losses (`HasLoss`).

**Profiler.** An event name is the set of substrings `is_comm_event` looks for and
whether it is in a local namespace; `EventName` holds those of the module's docstring
and of `tests/test_profiling.py`, and one of nccl's. What is said of the times is said
of these names: nccl was never probed, and a name of its own without any of the
substrings would count as computation. An operation takes one unit of the calling
thread's time; gloo's own events have none. `truth` accumulates what really happened,
from the wire and the memory and not from names and readings; the properties compare
the report with it. `profile.__enter__` comes after the first reading of the peak RSS and
`__exit__` before the second, so the memory of both is between the readings
(`StartProfiler`, `StopProfiler`).

**Pipeline.** `fwd[r]` and `bwd[r]` are everything stage r has ever sent to its
neighbours; how far a receiver is follows from its own place in the schedule.
`Buffered` says whether a send completes before it is received; both are run.
The modules are numbered in the order a token passes them, and a stage owns those from
`FirstModule` to `LastModule`: its layers, with the embeddings if it is the first stage
and the norm and head if it is the last, so that applying a stage is applying this range
in order.

## 3. Runs

| Run | Instance | Question | States |
|---|---|---|---|
| `ddp` | 2 ranks, 0-2 steps, 1 crash, stale files | Do collectives pair up; are replicas equal, at most a step apart and together one reference run; are artifacts written last; is the run a job as `Launch` has it; does an undisturbed one succeed? | 50989 |
| `ddp_notebook` | 2 launches over one directory, 1 crash, broken allreduce | Is a diverged run ever called a success, does a summary ever mix runs, does the notebook end? | 9698 |
| `data_sharding` | 1-3 ranks, small corpora | Partition, windows, guards that never fire | 6977 |
| `data_shared_text` | 2 ranks | *violated*: no two ranks draw the same text | |
| `fsdp` | 2 ranks, FULL_SHARD and NO_SHARD, working and broken reduction, 1 crash, stale files | Are chunks in sync and together one reference run; does NO_SHARD's check notice a broken reduction; does every run keep the contract and end? | 195916 |
| `fsdp_broken_reduce` | 2 ranks, broken reduction, FULL_SHARD | *violated*: the check detects it | |
| `tp` | 2 ranks, gloo and nccl, either allreduce broken or none, 1 crash, stale files | Do replicated parameters and losses agree; are the parts together one reference run; does the check before training keep every rank from making a step on a wrong forward pass; has a run that reports success trained what one process would; does an undisturbed run over gloo succeed; does every run end, also when rank 0 alone stops at a check? | 48882 |
| `tp_nccl` | 2 ranks, nccl | *violated*: the documented GPU run succeeds | |
| `pp_two_stages` | 3 layers, 2 microbatches, buffered sends, 1 crash, stale files | Do gradients pile up or messages get lost when a rank leaves; does the run keep the contract and end? | 21625 |
| `pp_three_stages` | 4 layers, sends that wait, 1 crash | At most a step apart, one reference run (the remainder layer in the last stage), no deadlock | 6774 |
| `notebooks` | any 2 of the 6 notebooks in a row, 0-2 GPUs, jobs that write, fail and end in every order | Is what is reported of this run and of all its ranks; does the notebook end if its jobs do? | 103917 |
| `profiler` | both ways to profile, 5 strategies, 2 warm-up and 2 profiled operations, memory 0-2 | Is communication time the time spent in collectives, for the names in the table; are the memory readings the window's? | 235346 |

What concerns only the code of `Worker` is checked where it can go wrong in the most
ways, not in every run, and what a theorem says for every size is not always run too:
`LeaveTogether` (`RanksLeaveTogether`), `NothingLeftRunning` (`JobsDoNotOverlap`).

**Bounds.** Two ranks show every pairwise disagreement, and what the `ddp` run shows
of two is proved for every number; three are used where a rank can be between two
others (the middle stage). Three ranks of TP take TLC more than five minutes, and the
broken reductions show with two: a rank keeps its own contribution alone. Two steps are the fewest in which a stale value can reach a later update;
the state that carries over a step boundary is the weights and the position, so a
third step repeats the second. One crash reaches every point of the program in
every order, and the launcher's kills follow from it. Two microbatches are the
fewest for which the two passes overlap between stages. A single stage is not run:
`StagesCover` and `StagesInOrder` hold for one stage too, and with one stage the
schedule exchanges no messages. Nor are the refusals of shapes that cannot be cut:
PP's of fewer layers than stages and TP's of heads that do not divide (both are in
the models, the runs' shapes pass them). The data runs shrink the sentence to 10 characters and the minimum repeat
count to 1; the theorems hold for the real 45 and 50. Batch and block sizes are
positive: argparse accepts `--batch-size 0` too, with which a long block could meet the
guard. The corpus's length is always a multiple of the world size, so the remainder that
`make_rank_shard` gives to the last rank is always empty, in the runs as in the scripts. Two notebooks in a session are
the fewest in which one finds another's files or its own, the one that failed
included; `ReportsThisRun` holds for any number. Two warm-up operations are the fewest
after which the peak is above what is in use (with one, a peak that is not reset could
not be told from one that is).

**Fairness.** `FairSpec` asks weak fairness of each process's own code (the
operating system runs it) and of the launcher's kill (torchrun's agent and
`mp.spawn(join=True)` poll their workers). Nothing is asked of `PeerLost`: a rank
may wait for a lost peer until it is killed, as under nccl. Nothing is asked of
crashes, and in the notebooks nothing of the user. In `Notebooks` the notebook's own
code is fair, as above, and so are its jobs taken together: that a job ends is assumed
there and checked of each script by itself, with crashes and broken reductions
(`Termination` in `fsdp`, `tp` and `pp_two_stages`, `NotebookEnds` in `ddp_notebook`; over
nccl in `tp`). Of the single-device script, which waits for nobody, and of
`profile_run.py`'s own code around `train()` it remains an assumption. Deadlock is checked in every
run; the only step of a finished run is `Over`.

## 4. What the runs found

* **Shards are disjoint positions of the same text.** The corpus has a length that
  is a multiple of the world size in sentences, so all shards are equal token for
  token. `train_ddp.py:15-18` says that no two ranks ever see the same text window
  (`data_shared_text`; in general `ShardsHoldSameText`).
* **FSDP's final check cannot fail under FULL_SHARD.** Each rank fingerprints what
  it has gathered from the same chunks. `tests/test_train_fsdp.py:20-24` takes the
  equality for proof that gradients were reduced (`fsdp_broken_reduce`). Under
  NO_SHARD nothing is gathered and the check works (`NoShardCheckDetects` in `fsdp`).
* **TP cannot finish on GPUs.** `train_tp.py:312` builds the losses as a CPU tensor
  and gathers it over the default group; with `nccl` there is no backend for CPU
  tensors (`tp_nccl`). It fails after the last step and before the artifacts are
  written, and takes `kaggle_tp_2gpu.py` and the TP part of
  `kaggle_profiling_2gpu.py` with it. That nccl has no CPU collectives is a fact
  about torch, not about this repository.
* Not findings, since no document says otherwise, but worth knowing: `--steps 0`
  makes DDP, FSDP and TP fail in the closing print, after the artifacts, and PP
  succeed; PP's stages write their files at different times, so that after a crash
  the directory can hold stages of two runs (`ArtifactsLast` is not a property of
  `PP`; no notebook reads such a directory, because the return code is then not 0);
  `profile_run.py` writes its reports with no barrier behind them, so that the return
  code of the whole launch is the only protection of what the profiling notebook reads;
  `GuardNeverFires` shows both length checks to be dead code for positive batch and
  block sizes.

## 5. Proofs

Every theorem holds for every world size, number of steps, crash bound, command line and
set of batches, with torch's arithmetic uninterpreted (`InitW`, `Grad`, `Apply`, ... are
arbitrary operators) unless an assumption below says otherwise.

**The scheme of the four scripts.** `WorkerProofs` has what they share: what a call, a
local step, an exit or a write does to the types, to what the ranks have got past, and to
the files. `DDPProofs`, `FSDPProofs`, `TPProofs` and `PPProofs` go through the same stages.

1. *Control.* `ControlCorrect` proves `ControlInv`. That two ranks' calls pair up is not
   inductive: it depends on where each rank is. The invariant ties `pc`, `step` and
   `entered` together (`Position`: the number of calls a rank has made is a function of
   its place and its step), says which collective comes k-th (`OnSchedule`), and that what
   a rank has got past the others have entered (`Passed`, `OthersEntered`). From it follow
   `TypeCorrect`, `CollectivesPairUp` and `RanksInLockstep`, for DDP also
   `RanksLeaveTogether` and `ArtifactsWrittenLast`.
2. *The contract.* `SavedInv` says which of a rank's files are whole and of this run, as a
   function of where the rank is. With the barrier this is what `EndWell` of `Launch`
   asks: `KeepsLaunchContract`, proved of all four scripts and under every fault.
3. *Training.* An invariant on the data, and from it the refinement `TrainsReferenceModel`.
   The reference's weights are those of a rank that is furthest; ranks are a step apart at
   most, so a step either takes a first rank past an optimizer step, which is `TrainStep`
   with what all ranks have posted, or catches up, which stutters.
4. *Checks.* What the script's own checks at the end are worth when a reduction is broken.

What is particular to each:

* **DDP.** `SyncCorrect` (with `GradSync`): ranks at the same step agree, and one that is a
  step behind is about to compute what the others hold; hence `ReplicasInSync`.
  `CheckCorrect`, for any allreduce: what rank 0 has compared is the fingerprint of the
  weights every rank ends with; hence `SuccessMeansSameFingerprints`, and `SuccessInSync`
  where the fingerprint tells weights apart. `SummarisesOneGoodRun` is about the notebook
  around the script: `CheckInv` and `SavedInv` survive `SaveAndRerun` (new processes,
  an old directory), and a notebook that has read the histories has seen its run succeed.
* **FSDP.** The number of calls in a step depends on the strategy, and `Before(n)` counts
  them. `SyncInv` is the invariant of DDP chunk by chunk; `GradsOfLastStep` adds that
  the gradients two ranks at the same step have used are the same; hence `ChunksStayInSync`.
  `FullInv` adds what the ranks have shown each other for the forward pass (`ChunksShown`)
  and that what the furthest ranks bring to the reduction is a gradient of the whole
  model's weights at that step (`GradInv`). `NoShardCheckIsEnough` is the good half of the
  finding in section 4: under NO_SHARD the check does work.
* **TP.** `TrainInv` is an explicit solution: with sound allreduces, what rank r has, has
  shown and has recorded at step n is its part of `Trained[n]`, the weights of one process
  after n steps (`TrainCorrect`); `ReplicasInSync` and the refinement follow. `CheckInv`
  covers the broken allreduces: rank 0 does not get past a probe that it sees go wrong
  (`StoppedAtProbe`), and without rank 0 nobody finishes a first step; a backward pass
  that is broken has updated each rank with its own part (`OwnUpdates`), which the
  fingerprints show. Hence `ProbeIsEnough` and `ChecksAreEnough`.
* **PP.** There is no collective in a step, so nothing but the messages orders the stages.
  `FlowInv` counts them: what has been sent, received and accumulated follows from how many
  passes a stage has made (`Held`), and a stage has made no more forward passes than its
  predecessor and no more backward passes than its successor (`Ordered`). `Lockstep`
  between any two stages, however many lie between them, comes from `Ordered` by induction
  along the pipeline; `NoneInFlight` from `Held` and the barrier. `TrainInv` says what
  every message and every accumulated gradient is, in terms of the one model's weights at
  that step. The cut is `LayerRanges`, `StagesInOrder` and `StagesCover`: ranges are
  consecutive and not empty (this needs `n >= stages`, the guard both functions have), and
  stages partition the modules in order, a single stage included.

**Notebooks.** For any number of runs in a session and any kinds of GPUs, what is reported is
this run's (`ReportsThisRun`) and jobs do not overlap (`JobsDoNotOverlap`). `NbInv` adds what
a job has reached: the results so far are the first jobs' and fresh, and a process that
ended well has left what its job promises. The jobs are `Launch`, and `KeepsLaunchContract`
says that each script is one: together the proofs cover every notebook around its script.

**Profiler.** `ProfilerInv` relates the running peaks to `truth` in each phase; hence
`PeakCorrect` and `RssCorrect`. `TimesCorrect` needs that the totals of the report, folds over
the set of events, are sums: `SumsExist` and `SumsAre` establish the recursion once, and
`TimeInv` says that `truth` is the sum over the backends' events and over the others. That
`is_comm_event` tells the two apart (`ClassifiedRight`) is a fact about each name in
`EventName`, and so no more general than that table.

**Data.** `DataShardingProofs` proves `TypeOK` and every property of `DataSharding` that the
passing run checks, for any sentence of at least 10 characters and any minimum repeat
count of at least 1, and that all shards hold the same text. The argument for the first
group is the arithmetic of `Repeats`: the corpus has exactly a share per rank, and a share
is longer than a block.

**Induction.** The library's induction theorems take an operator as a parameter, which the
provers cannot instantiate. Where an argument needs induction over numbers (the weights
after n steps, stages along the pipeline, a module's place in the model, sums over events)
it goes through sets: `LessIsWellFounded` and `LeastNumber` say that a set of numbers that is
not empty has a least element, `Induction` that a set with 0 and every successor is `Nat`.

**Assumptions.** On the constants, the named ASSUMEs of the modules (`WorldSizeAssumption`,
`CorpusAssumption`, `ProfilerAssumption`, ...): sizes are natural numbers or positive, flags
Boolean, the files' names there. TLC evaluates them in the runs. In `TP`, what one process
computes (`WholeLogits`) is what the parts of one model make when they are put together:
that split matrices multiply to the whole ones is arithmetic, and not part of the theorems.
Some theorems have hypotheses of their own:

| Hypothesis | In | Why it is one |
|---|---|---|
| `GradSync` | DDP: `ReplicasInSync`, `TrainsReferenceModel` | the allreduce works; the checks are proved without it |
| different weights have different fingerprints | DDP: `SuccessInSync`, `SummarisesOneGoodRun`; FSDP: `NoShardCheckIsEnough`; TP: `ChecksAreEnough` (`FingerprintTells`, replicated part) | sums of parameters do not tell all weights apart: this is the checks' own gap |
| `ProbeTells` | TP: `ProbeIsEnough`, `ChecksAreEnough` | one rank's part of the logits differs from the whole on the probe batch |
| `UpdatesTell` | TP: `ChecksAreEnough` | two ranks' own gradients do not happen to lead to the same weights |
| `OutDirs = {TRUE}` | DDP: `SummarisesOneGoodRun` | the notebook always passes `--out-dir` |

MCDDP's, MCFSDP's and MCTP's free terms satisfy those about arithmetic.

**Only model-checked:** the liveness properties (`Termination`, `Success`, `NotebookEnds`):
the prover does not handle fairness or ENABLED. With `RealRunSucceeds`, `NoTextShared` and
FSDP's `SuccessMeansInSync`, which the code violates, they are all that no theorem states.

## 6. Not modelled

* The arithmetic of tensors and of the model (`src/model.py`), where nothing waits for
  anything and no state outlives a call; how the library cuts a batch into microbatches and
  scales their losses; the allreduces of single TP blocks (one per pass instead) and the
  head arithmetic; FSDP's units below the whole model and its overlap of communication
  with computation.
* Throughput numbers, formatting and printing, except where a print indexes an empty
  history; which rank's losses a notebook's summary holds.
* Names of events beyond those of the docstring and the tests.
* Time that CUDA kernels take on the device: `comm_fraction` is computed from CPU self time
  of the calling thread, and `Profiler` says no more than the code does.
* Tests, logs, and the probe scripts whose output the events' names were taken from.

## 7. Plan

Done: the shared runtime, the four scripts, data sharding, all notebooks, the profiler
and its runner, the contract between jobs and notebooks; every invariant of the passing
runs is proved, and each script down to the reference loop. What would add most next:

1. **The safety core of `Success`**: as long as nobody has died, some rank is not waiting
   for a collective or message that cannot come. For DDP, FSDP and TP this is a consequence
   of `OnSchedule` (the rank furthest behind can go on); for PP with sends that wait it is
   about the order of the schedule, and needs `Ordered` for the stage furthest behind.
2. **`LeaveTogether` for FSDP, TP and PP** and `ArtifactsLast` for FSDP and TP, from
   `ControlInv` as in `DDPProofs`.
3. **The other direction of the finding about FULL_SHARD**: with a broken reduction every
   run passes the check, whatever the arithmetic.
