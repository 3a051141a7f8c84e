------------------------------- MODULE Profiler -------------------------------
(***************************************************************************)
(* src/profiling.py: run something under torch.profiler and report how     *)
(* much of the calling thread's time went into communication, the peak of  *)
(* CUDA memory and two readings of the process's peak RSS.  profile_call   *)
(* profiles one whole call (profile_run.py), profile_steps a window of     *)
(* steps after some it leaves out.                                         *)
(*                                                                         *)
(* An event name is known by the substrings is_comm_event looks for and by *)
(* its local namespace, if it is in one.  Each operation takes one unit of *)
(* the calling thread's time, except the backend's own events: gloo runs   *)
(* them on a thread of its own, with no self time.  Only CPU time counts,  *)
(* in the code as here: time CUDA kernels take on the device is not in     *)
(* self_cpu_time_total.                                                    *)
(***************************************************************************)
EXTENDS FiniteSetsExt, Integers

CONSTANTS
  WarmUp,       \* warmup_steps
  Window,       \* operations of the profiled call, n_steps
  MaxMem        \* bound on the memory in use

ASSUME ProfilerAssumption == WarmUp \in Nat /\ Window \in Nat /\ MaxMem \in Nat

VARIABLES
  mode,         \* "call": profile_call, "steps": profile_steps
  program,      \* what is profiled
  cuda,         \* torch.cuda.is_available()
  phase,        \* "warm-up", "window", "closed", "done", or "raised"
  ops,          \* operations run in this phase
  alloc, peak,  \* CUDA memory in use; its maximum since the last reset
  rss, maxrss,  \* resident set size; ru_maxrss
  captured,     \* captured[e]: self time of the events called e
  reading,      \* peak_cpu_memory_before_bytes, peak_cpu_memory_after_bytes
  result,       \* the ProfileResult
  truth         \* what happened between the two readings

vars == <<mode, program, cuda, phase, ops, alloc, peak, rss, maxrss, captured, reading,
          result, truth>>

-----------------------------------------------------------------------------
Name(has, local, wire) == [has |-> has, local |-> local, wire |-> wire]

C10d(keywords) == Name({"c10d"} \cup keywords, FALSE, TRUE)
Gloo(keywords) == Name({"gloo:"} \cup keywords, FALSE, TRUE)
Kernel(keywords) == Name(keywords, TRUE, FALSE)
Bookkeeping == Name({}, FALSE, FALSE)

\* The names the module's docstring and its tests have from the probes, and one,
\* of nccl's, that no probe has seen
EventName ==
  [allreduce_ |-> C10d({"allreduce"}), allgather_ |-> C10d({}),
   _reduce_scatter_base_ |-> C10d({"reduce_scatter"}), broadcast_ |-> C10d({"broadcast"}),
   send |-> C10d({"send"}), recv_ |-> C10d({"recv"}), barrier |-> C10d({}),
   functional_all_reduce |-> C10d({"all_reduce"}), wait_tensor |-> C10d({}),
   all_gather_into_tensor |-> C10d({"all_gather"}),
   gloo_all_reduce |-> Gloo({"all_reduce"}), gloo_all_gather |-> Gloo({"all_gather"}),
   gloo_broadcast |-> Gloo({"broadcast"}),
   gloo_send |-> Gloo({"send"}), gloo_recv |-> Gloo({"recv"}),
   nccl_all_gather |-> Name({"all_gather"}, FALSE, TRUE),
   addmm |-> Kernel({}), linear |-> Kernel({}), mm |-> Kernel({}), chunk |-> Kernel({}),
   split_with_sizes |-> Kernel({}),
   broadcast_to |-> Kernel({"broadcast"}), broadcast_tensors |-> Kernel({"broadcast"}),
   _sparse_broadcast_to |-> Kernel({"broadcast"}), BroadcastSizes |-> Kernel({"broadcast"}),
   broadcast_in_dim |-> Kernel({"broadcast"}),
   DistributedDataParallel_forward |-> Bookkeeping, mul_out |-> Bookkeeping,
   copy_bucket_to_grad |-> Bookkeeping, FullyShardedDataParallel_forward |-> Bookkeeping,
   _post_backward_hook |-> Bookkeeping, Optimizer_step |-> Bookkeeping,
   AddmmBackward0 |-> Bookkeeping]
Event == DOMAIN EventName
OnWire(e) == EventName[e].wire

Step == {"addmm", "broadcast_to", "Optimizer_step"}     \* some of every strategy's
Program ==
  [baseline |-> Step \cup {"linear", "mm", "AddmmBackward0", "broadcast_tensors",
                           "_sparse_broadcast_to", "BroadcastSizes", "broadcast_in_dim"},
   ddp |-> Step \cup {"allreduce_", "gloo_all_reduce", "broadcast_", "gloo_broadcast",
                      "DistributedDataParallel_forward", "mul_out", "copy_bucket_to_grad"},
   fsdp |-> Step \cup {"allgather_", "gloo_all_gather", "nccl_all_gather",
                       "_reduce_scatter_base_", "FullyShardedDataParallel_forward",
                       "_post_backward_hook", "chunk", "split_with_sizes"},
   tp |-> Step \cup {"functional_all_reduce", "wait_tensor", "all_gather_into_tensor"},
   pp |-> Step \cup {"send", "gloo_send", "recv_", "gloo_recv", "barrier"}]

COMM_NAMESPACE == {"c10d", "gloo:"}
COMM_KEYWORD ==
  {"allreduce", "all_reduce", "all_gather", "reduce_scatter", "broadcast", "send", "recv"}

\* Mutant: the keywords are looked for in torch's local namespaces too.
IsCommEventAnywhere(e) == EventName[e].has \cap (COMM_NAMESPACE \cup COMM_KEYWORD) # {}

IsCommEvent(e) ==
  \/ EventName[e].has \cap COMM_NAMESPACE # {}
  \/ ~EventName[e].local /\ EventName[e].has \cap COMM_KEYWORD # {}

-----------------------------------------------------------------------------
Nothing == [e \in Event |-> 0]
Greater(m, n) == IF m > n THEN m ELSE n
Memory == 0 .. MaxMem
Truth(a, m) == [wire |-> 0, local |-> 0, alloc |-> a, rss |-> m]

Init ==
  /\ mode \in {"call", "steps"}
  /\ program \in DOMAIN Program
  /\ cuda \in BOOLEAN
  /\ phase = "warm-up" /\ ops = 0
  /\ alloc = 0 /\ peak = 0
  /\ rss \in Memory /\ maxrss \in rss .. MaxMem
  /\ captured = Nothing
  /\ reading = [before |-> 0, after |-> 0]
  /\ result = [comm |-> 0, compute |-> 0, cuda |-> -1]
  /\ truth = Truth(0, 0)

UseHostMemory == rss' \in Memory /\ maxrss' = Greater(maxrss, rss')

\* One operation of the program changes the memory in use somehow.
UseMemory ==
  /\ alloc' \in IF cuda THEN Memory ELSE {0}
  /\ peak' = Greater(peak, alloc')
  /\ UseHostMemory

WarmUpStep ==
  /\ phase = "warm-up" /\ mode = "steps"
  /\ ops < WarmUp
  /\ UseMemory
  /\ ops' = ops + 1
  /\ UNCHANGED <<mode, program, cuda, phase, captured, reading, result, truth>>

WarmedUp == phase = "warm-up" /\ (mode = "steps" => ops = WarmUp)

\* Mutant: the peak is not reset.
StartProfilerNoReset ==
  /\ WarmedUp
  /\ reading' = [reading EXCEPT !.before = maxrss]
  /\ UseHostMemory
  /\ truth' = Truth(alloc, Greater(rss, rss'))
  /\ phase' = "window" /\ ops' = 0
  /\ UNCHANGED <<mode, program, cuda, alloc, peak, captured, result>>

\* Mutant: the first reading is taken before the warm-up, at process start.
StartProfilerOldReading ==
  /\ WarmedUp
  /\ peak' = IF cuda THEN alloc ELSE peak
  /\ UseHostMemory
  /\ truth' = Truth(alloc, Greater(rss, rss'))
  /\ phase' = "window" /\ ops' = 0
  /\ UNCHANGED <<mode, program, cuda, alloc, captured, reading, result>>

\* reset_peak_memory_stats, the first reading of ru_maxrss, then profile.__enter__,
\* which needs memory itself
StartProfiler ==
  /\ WarmedUp
  /\ peak' = IF cuda THEN alloc ELSE peak
  /\ reading' = [reading EXCEPT !.before = maxrss]
  /\ UseHostMemory
  /\ truth' = Truth(alloc, Greater(rss, rss'))
  /\ phase' = "window" /\ ops' = 0
  /\ UNCHANGED <<mode, program, cuda, alloc, captured, result>>

SelfTime(e) == IF "gloo:" \in EventName[e].has THEN 0 ELSE 1

ProfiledOperation ==
  /\ phase = "window"
  /\ ops < Window
  /\ UseMemory
  /\ \E e \in Program[program] :
       /\ captured' = [captured EXCEPT ![e] = @ + SelfTime(e)]
       /\ truth' = [wire |-> truth.wire + IF OnWire(e) THEN SelfTime(e) ELSE 0,
                    local |-> truth.local + IF OnWire(e) THEN 0 ELSE SelfTime(e),
                    alloc |-> Greater(truth.alloc, alloc'),
                    rss |-> Greater(truth.rss, rss')]
  /\ ops' = ops + 1
  /\ UNCHANGED <<mode, program, cuda, phase, reading, result>>

\* fn() or step_fn() fails, say train() in its check: there is no ProfileResult,
\* and the exception goes on to the caller.
Raise ==
  /\ phase = "window" \/ (phase = "warm-up" /\ mode = "steps")
  /\ phase' = "raised"
  /\ UNCHANGED <<mode, program, cuda, ops, alloc, peak, rss, maxrss, captured, reading,
                 result, truth>>

\* profile.__exit__ needs memory too; then the second reading
StopProfiler ==
  /\ phase = "window" /\ ops = Window
  /\ UseHostMemory
  /\ reading' = [reading EXCEPT !.after = maxrss']
  /\ truth' = [truth EXCEPT !.rss = Greater(@, rss')]
  /\ phase' = "closed"
  /\ UNCHANGED <<mode, program, cuda, ops, alloc, peak, captured, result>>

Total(E) == MapThenSumSet(LAMBDA e : captured[e], E)

Classify ==
  /\ phase = "closed"
  /\ result' = [comm |-> Total({e \in Event : IsCommEvent(e)}),
                compute |-> Total({e \in Event : ~IsCommEvent(e)}),
                cuda |-> IF cuda THEN peak ELSE -1]
  /\ phase' = "done"
  /\ UNCHANGED <<mode, program, cuda, ops, alloc, peak, rss, maxrss, captured, reading, truth>>

Returned == phase \in {"done", "raised"} /\ UNCHANGED vars

Next ==
  \/ WarmUpStep \/ StartProfiler \/ ProfiledOperation \/ StopProfiler \/ Classify
  \/ Raise \/ Returned

Spec == Init /\ [][Next]_vars

-----------------------------------------------------------------------------
\* The two times add up to what the calling thread spent in the window, and the
\* first of them is what it spent in collectives: of the operations in EventName,
\* no local one counts as communication and no wait for a peer as computation.
CommTimeIsWireTime ==
  phase = "done" => result.comm = truth.wire /\ result.compute = truth.local

\* The CUDA peak is that of the profiled window, not of what came before it.
PeakIsOfTheWindow == phase = "done" /\ cuda => result.cuda = truth.alloc

\* ru_maxrss cannot be reset, but when the second reading is above the first
\* the process reached it between the two, in the window or in starting and
\* stopping the profiler; when it is not, the process stayed below all that time.
RssGrowthIsTheWindows ==
  phase = "done" => reading.after = Greater(reading.before, truth.rss)
=============================================================================
