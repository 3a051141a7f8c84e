---------------------------- MODULE ProfilerProofs ----------------------------
(***************************************************************************)
(* The numbers src/profiling.py returns mean what they are reported as, for *)
(* any warm-up, window and use of memory.  Its sums of times are folds over *)
(* the event names; what such a sum does when one term of it grows is       *)
(* proved by induction on the number of names.                              *)
(***************************************************************************)
EXTENDS Profiler, FiniteSetTheorems, WellFoundedInduction, TLAPS

\* What is kept of the truth
Recorded == DOMAIN truth = {"wire", "local", "alloc", "rss"}

MemoryTypeOK ==
  /\ alloc \in Nat /\ peak \in Nat /\ rss \in Nat /\ maxrss \in Nat
  /\ reading \in [before : Nat, after : Nat]
  /\ Recorded /\ truth.alloc \in Nat /\ truth.rss \in Nat

\* From the reset on, the maximum CUDA keeps is that of the window.
PeakInv ==
  cuda => /\ phase \in {"window", "closed"} => peak = truth.alloc
          /\ phase = "done" => result.cuda = truth.alloc

\* ru_maxrss is the larger of what it was and of what the window has reached.
RssInv ==
  /\ rss <= maxrss
  /\ phase = "window" => maxrss = Greater(reading.before, truth.rss)
  /\ phase \in {"closed", "done"} => reading.after = Greater(reading.before, truth.rss)

ProfilerInv == MemoryTypeOK /\ PeakInv /\ RssInv

LEMMA ProfilerStarts == Init => ProfilerInv
BY ProfilerAssumption DEF Init, ProfilerInv, MemoryTypeOK, Recorded, PeakInv, RssInv, Truth, Memory

LEMMA GreaterIsEither == ASSUME NEW m \in Nat, NEW n \in Nat PROVE Greater(m, n) \in Nat
BY DEF Greater

LEMMA UsingHostMemory ==
  ASSUME ProfilerInv, UseHostMemory
  PROVE  rss' \in Nat /\ maxrss' \in Nat /\ rss' <= maxrss' /\ maxrss' = Greater(maxrss, rss')
BY ProfilerAssumption DEF UseHostMemory, Memory, Greater, ProfilerInv, MemoryTypeOK

\* An operation moves each maximum by the same value as the truth about it.
LEMMA UsingMemory ==
  ASSUME ProfilerInv, UseMemory
  PROVE  /\ alloc' \in Nat /\ peak' \in Nat /\ rss' \in Nat /\ maxrss' \in Nat
         /\ rss' <= maxrss'
         /\ peak' = Greater(peak, alloc') /\ maxrss' = Greater(maxrss, rss')
BY ProfilerAssumption, UsingHostMemory DEF UseMemory, Memory, Greater, ProfilerInv, MemoryTypeOK

LEMMA ProfilerStep == ProfilerInv /\ [Next]_vars => ProfilerInv'
<1> SUFFICES ASSUME ProfilerInv, [Next]_vars PROVE ProfilerInv'
  OBVIOUS
<1>1. CASE WarmUpStep
  BY <1>1, UsingMemory DEF WarmUpStep, ProfilerInv, MemoryTypeOK, Recorded, PeakInv, RssInv
<1>2. CASE StartProfiler
  <2>1. /\ phase' = "window" /\ cuda' = cuda /\ peak' \in Nat /\ (cuda => peak' = alloc)
        /\ reading' = [reading EXCEPT !.before = maxrss]
        /\ truth'.alloc = alloc /\ truth'.rss = Greater(rss, rss')
        /\ UseHostMemory /\ alloc' = alloc /\ Recorded'
    BY <1>2 DEF StartProfiler, Truth, ProfilerInv, MemoryTypeOK, Recorded
  <2>2. reading'.before = maxrss /\ reading' \in [before : Nat, after : Nat]
    BY <2>1 DEF ProfilerInv, MemoryTypeOK
  <2>3. MemoryTypeOK'
    BY <2>1, <2>2, UsingHostMemory, GreaterIsEither DEF ProfilerInv, MemoryTypeOK
  <2>4. PeakInv'
    BY <2>1 DEF PeakInv
  <2>5. RssInv'
    BY <2>1, <2>2, UsingHostMemory DEF ProfilerInv, MemoryTypeOK, RssInv, Greater
  <2> QED BY <2>3, <2>4, <2>5 DEF ProfilerInv
<1>3. CASE ProfiledOperation
  <2>1. /\ phase = "window" /\ phase' = "window" /\ cuda' = cuda /\ reading' = reading
        /\ UseMemory
        /\ truth'.alloc = Greater(truth.alloc, alloc')
        /\ truth'.rss = Greater(truth.rss, rss')
        /\ Recorded'
    BY <1>3 DEF ProfiledOperation, Recorded
  <2>2. MemoryTypeOK'
    BY <2>1, UsingMemory, GreaterIsEither DEF ProfilerInv, MemoryTypeOK
  <2>3. PeakInv'
    BY <2>1, UsingMemory DEF ProfilerInv, PeakInv
  <2>4. RssInv'
    BY <2>1, UsingMemory DEF ProfilerInv, MemoryTypeOK, RssInv, Greater
  <2> QED BY <2>2, <2>3, <2>4 DEF ProfilerInv
<1>4. CASE StopProfiler
  <2>1. /\ phase = "window" /\ phase' = "closed"
        /\ reading' = [reading EXCEPT !.after = maxrss']
        /\ truth' = [truth EXCEPT !.rss = Greater(@, rss')]
        /\ UseHostMemory
        /\ UNCHANGED <<cuda, alloc, peak>>
    BY <1>4 DEF StopProfiler
  <2>2. /\ reading' \in [before : Nat, after : Nat]
        /\ reading'.before = reading.before /\ reading'.after = maxrss'
    BY <2>1, UsingHostMemory DEF ProfilerInv, MemoryTypeOK
  <2>3. truth'.alloc = truth.alloc /\ truth'.rss = Greater(truth.rss, rss')
    BY <2>1 DEF ProfilerInv, MemoryTypeOK, Recorded
  <2>4. MemoryTypeOK'
    BY <2>1, <2>2, <2>3, UsingHostMemory, GreaterIsEither DEF ProfilerInv, MemoryTypeOK, Recorded
  <2>5. PeakInv'
    BY <2>1, <2>3 DEF ProfilerInv, PeakInv
  <2>6. RssInv'
    BY <2>1, <2>2, <2>3, UsingHostMemory DEF ProfilerInv, MemoryTypeOK, RssInv, Greater
  <2> QED BY <2>4, <2>5, <2>6 DEF ProfilerInv
<1>5. CASE Classify
  <2>1. /\ phase = "closed" /\ phase' = "done"
        /\ cuda => result'.cuda = peak
        /\ UNCHANGED <<cuda, alloc, peak, rss, maxrss, reading, truth>>
    BY <1>5 DEF Classify
  <2> QED BY <2>1 DEF ProfilerInv, MemoryTypeOK, Recorded, PeakInv, RssInv
<1>6. CASE Raise
  BY <1>6 DEF Raise, ProfilerInv, MemoryTypeOK, Recorded, PeakInv, RssInv
<1>7. CASE UNCHANGED vars
  BY <1>7 DEF vars, ProfilerInv, MemoryTypeOK, Recorded, PeakInv, RssInv
<1> QED BY <1>1, <1>2, <1>3, <1>4, <1>5, <1>6, <1>7 DEF Next, Returned

THEOREM ProfilerCorrect == Spec => []ProfilerInv
BY ProfilerStarts, ProfilerStep, PTL DEF Spec

\* The CUDA peak that is reported was reached in the profiled window.
THEOREM PeakCorrect == Spec => []PeakIsOfTheWindow
<1>1. ProfilerInv => PeakIsOfTheWindow
  BY DEF ProfilerInv, PeakInv, PeakIsOfTheWindow
<1> QED BY <1>1, ProfilerCorrect, PTL

\* The two readings of the peak RSS differ by what was added to it between them.
THEOREM RssCorrect == Spec => []RssGrowthIsTheWindows
<1>1. ProfilerInv => RssGrowthIsTheWindows
  BY DEF ProfilerInv, RssInv, RssGrowthIsTheWindows
<1> QED BY <1>1, ProfilerCorrect, PTL

-----------------------------------------------------------------------------
(* Sums over the event names.                                               *)

LEMMA Induction ==
  ASSUME NEW S, 0 \in S, \A n \in Nat : n \in S => n + 1 \in S
  PROVE  Nat \subseteq S
<1> SUFFICES ASSUME Nat \ S # {} PROVE FALSE
  OBVIOUS
<1>1. \E R : IsWellFoundedOn(R, Nat) /\ \A x, y \in Nat : <<y, x>> \in R <=> y < x
  <2>1. IsWellFoundedOn(OpToRel(<, Nat), Nat)
    BY NatLessThanWellFounded
  <2>2. \A x, y \in Nat : <<y, x>> \in OpToRel(<, Nat) <=> y < x
    BY DEF OpToRel
  <2> QED BY <2>1, <2>2
<1>2. PICK R : IsWellFoundedOn(R, Nat) /\ \A x, y \in Nat : <<y, x>> \in R <=> y < x
  BY <1>1
<1>3. PICK x \in Nat \ S : \A y \in Nat \ S : ~(<<y, x>> \in R)
  BY <1>2, WFMin
<1>4. x # 0 /\ x - 1 \in Nat
  OBVIOUS
<1>5. <<x - 1, x>> \in R
  BY <1>2, <1>4
<1>6. x - 1 \in S
  BY <1>3, <1>4, <1>5
<1> QED BY <1>4, <1>6

SumOf(c, E) == MapThenSumSet(LAMBDA e : c[e], E)

\* The fold takes the names of a set in some order, the same for all sums.
Chosen(E) == CHOOSE e \in E : TRUE

IsSum(c, f, D) ==
  f = [E \in D |-> IF E = {} THEN 0 ELSE c[Chosen(E)] + f[E \ {Chosen(E)}]]

LEMMA ChosenIn == ASSUME NEW E, E # {} PROVE Chosen(E) \in E
BY DEF Chosen

LEMMA SumsExist ==
  ASSUME NEW c, NEW S, IsFiniteSet(S)
  PROVE  \E f : IsSum(c, f, SUBSET S)
<1> DEFINE UpTo(n) == {E \in SUBSET S : Cardinality(E) <= n}
           P == {n \in Nat : \E f : IsSum(c, f, UpTo(n))}
<1>0. \A E \in SUBSET S : IsFiniteSet(E) /\ Cardinality(E) \in Nat
  BY FS_Subset, FS_CardinalityType
<1>1. 0 \in P
  <2>1. \A E \in UpTo(0) : E = {}
    BY <1>0, FS_EmptySet
  <2>2. IsSum(c, [E \in UpTo(0) |-> 0], UpTo(0))
    BY <2>1 DEF IsSum
  <2> QED BY <2>2
<1>2. ASSUME NEW n \in Nat, n \in P PROVE n + 1 \in P
  <2>1. PICK f : IsSum(c, f, UpTo(n))
    BY <1>2
  <2> DEFINE g == [E \in UpTo(n + 1) |->
                     IF E = {} THEN 0 ELSE c[Chosen(E)] + f[E \ {Chosen(E)}]]
  <2>2. ASSUME NEW E \in UpTo(n + 1), E # {}
        PROVE  E \ {Chosen(E)} \in UpTo(n)
    <3>1. Chosen(E) \in E /\ IsFiniteSet(E) /\ Cardinality(E) \in Nat
      BY <1>0, <2>2, ChosenIn
    <3>2. Cardinality(E \ {Chosen(E)}) = Cardinality(E) - 1
      BY <3>1, FS_RemoveElement
    <3> QED BY <2>2, <3>1, <3>2
  <2>3. UpTo(n) \subseteq UpTo(n + 1)
    BY <1>0
  <2> HIDE DEF UpTo
  <2>4. \A E \in UpTo(n) : g[E] = f[E]
    BY <2>1, <2>3 DEF IsSum
  <2>5. IsSum(c, g, UpTo(n + 1))
    BY <2>2, <2>4 DEF IsSum
  <2> QED BY <2>5
<1>3. Cardinality(S) \in P
  <2>1. Nat \subseteq P
    <3> HIDE DEF P
    <3> QED BY <1>1, <1>2, Induction
  <2> QED BY <2>1, <1>0
<1>4. UpTo(Cardinality(S)) = SUBSET S
  BY FS_Subset
<1> QED BY <1>3, <1>4

LEMMA SumsAre ==
  ASSUME NEW c, NEW S, IsFiniteSet(S)
  PROVE  \E f : IsSum(c, f, SUBSET S) /\ SumOf(c, S) = f[S]
<1> DEFINE iter == CHOOSE f : IsSum(c, f, SUBSET S)
<1>1. SumOf(c, S) = iter[S]
  BY DEF SumOf, MapThenSumSet, MapThenFoldSet, IsSum, Chosen
<1>2. IsSum(c, iter, SUBSET S)
  BY SumsExist
<1> QED BY <1>1, <1>2

\* Terms that differ in one name by k
OneMore(c, d, S, e, k) ==
  \A x \in S : c[x] \in Nat /\ d[x] = c[x] + IF x = e THEN k ELSE 0

LEMMA SumsDiffer ==
  ASSUME NEW S, IsFiniteSet(S), NEW c, NEW d, NEW e, NEW k \in Nat, OneMore(c, d, S, e, k)
  PROVE  SumOf(d, S) = SumOf(c, S) + (IF e \in S THEN k ELSE 0) /\ SumOf(c, S) \in Nat
<1>1. PICK f : IsSum(c, f, SUBSET S) /\ SumOf(c, S) = f[S]
  BY SumsAre
<1>2. PICK g : IsSum(d, g, SUBSET S) /\ SumOf(d, S) = g[S]
  BY SumsAre
<1> DEFINE Apart(E) == f[E] \in Nat /\ g[E] = f[E] + (IF e \in E THEN k ELSE 0)
           P == {n \in Nat : \A E \in SUBSET S : Cardinality(E) <= n => Apart(E)}
<1>0. \A E \in SUBSET S : IsFiniteSet(E) /\ Cardinality(E) \in Nat
  BY FS_Subset, FS_CardinalityType
<1>e. Apart({})
  BY <1>1, <1>2 DEF IsSum
<1>3. 0 \in P
  <2>1. \A E \in SUBSET S : Cardinality(E) <= 0 => E = {}
    BY <1>0, FS_EmptySet
  <2> QED BY <1>e, <2>1
<1>4. ASSUME NEW n \in Nat, n \in P PROVE n + 1 \in P
  <2> HIDE DEF Apart
  <2> SUFFICES ASSUME NEW E \in SUBSET S, Cardinality(E) <= n + 1, E # {} PROVE Apart(E)
    BY <1>e
  <2> USE DEF Apart
  <2> DEFINE x == Chosen(E)
             F == E \ {x}
  <2>1. x \in E /\ x \in S /\ IsFiniteSet(E) /\ Cardinality(E) \in Nat
    BY <1>0, ChosenIn
  <2>2. F \in SUBSET S /\ Cardinality(F) = Cardinality(E) - 1
    BY <2>1, FS_RemoveElement
  <2>3. f[E] = c[x] + f[F] /\ g[E] = d[x] + g[F]
    BY <1>1, <1>2 DEF IsSum
  <2>4. Apart(F)
    BY <1>4, <2>1, <2>2
  <2>5. e \in E <=> e = x \/ e \in F
    BY <2>1
  <2>6. x \notin F
    OBVIOUS
  <2> HIDE DEF x, F
  <2>7. c[x] \in Nat /\ d[x] = c[x] + IF x = e THEN k ELSE 0
    BY <2>1 DEF OneMore
  <2> QED BY <2>1, <2>3, <2>4, <2>5, <2>6, <2>7
<1>5. Cardinality(S) \in P
  <2>1. Nat \subseteq P
    <3> HIDE DEF P
    <3> QED BY <1>3, <1>4, Induction
  <2> QED BY <2>1, <1>0
<1>6. S \in SUBSET S
  OBVIOUS
<1> QED BY <1>0, <1>1, <1>2, <1>5, <1>6

-----------------------------------------------------------------------------
(* The two times.                                                           *)

Communication == {e \in Event : IsCommEvent(e)}
Computation == {e \in Event : ~IsCommEvent(e)}

\* The sums that will be reported are what has happened so far.
TimeInv ==
  /\ captured \in [Event -> Nat] /\ program \in DOMAIN Program
  /\ Recorded
  /\ phase = "warm-up" => captured = Nothing
  /\ phase \in {"window", "closed"} =>
       truth.wire = SumOf(captured, Communication) /\ truth.local = SumOf(captured, Computation)
  /\ phase = "done" => result.comm = truth.wire /\ result.compute = truth.local

Backends ==
  {"allreduce_", "allgather_", "_reduce_scatter_base_", "broadcast_", "send", "recv_",
   "barrier", "functional_all_reduce", "wait_tensor", "all_gather_into_tensor",
   "gloo_all_reduce", "gloo_all_gather", "gloo_broadcast", "gloo_send", "gloo_recv",
   "nccl_all_gather"}
Kernels ==
  {"addmm", "linear", "mm", "chunk", "split_with_sizes", "broadcast_to", "broadcast_tensors",
   "_sparse_broadcast_to", "BroadcastSizes", "broadcast_in_dim"}
Bookkept ==
  {"DistributedDataParallel_forward", "mul_out", "copy_bucket_to_grad",
   "FullyShardedDataParallel_forward", "_post_backward_hook", "Optimizer_step",
   "AddmmBackward0"}

LEMMA EventNames == Event = Backends \cup Kernels \cup Bookkept
BY DEF Event, EventName, Backends, Kernels, Bookkept

LEMMA EventsAreFinite ==
  IsFiniteSet(Event) /\ IsFiniteSet(Communication) /\ IsFiniteSet(Computation)
<1>1. \A x, y : IsFiniteSet({x, y})
  <2>1. \A x, y : IsFiniteSet({x} \cup {y})
    BY FS_Singleton, FS_AddElement
  <2>2. \A x, y : {x, y} = {x} \cup {y}
    OBVIOUS
  <2> QED BY <2>1, <2>2
<1>2. \A S, T : IsFiniteSet(S) /\ IsFiniteSet(T) => IsFiniteSet(S \cup T)
  BY FS_Union
<1>3. ASSUME NEW x, NEW y, NEW z, NEW w PROVE IsFiniteSet({x, y, z, w})
  <2>1. {x, y, z, w} = {x, y} \cup {z, w}
    OBVIOUS
  <2>2. IsFiniteSet({x, y} \cup {z, w})
    BY <1>1, <1>2
  <2> QED BY <2>1, <2>2
<1>4. IsFiniteSet(Backends)
  <2>1. Backends =
          (({"allreduce_", "allgather_", "_reduce_scatter_base_", "broadcast_"}
            \cup {"send", "recv_", "barrier", "functional_all_reduce"})
           \cup {"wait_tensor", "all_gather_into_tensor", "gloo_all_reduce", "gloo_all_gather"})
          \cup {"gloo_broadcast", "gloo_send", "gloo_recv", "nccl_all_gather"}
    BY DEF Backends
  <2> QED BY <1>2, <1>3, <2>1
<1>5. IsFiniteSet(Kernels)
  <2>1. Kernels =
          ({"addmm", "linear", "mm", "chunk"}
           \cup {"split_with_sizes", "broadcast_to", "broadcast_tensors", "_sparse_broadcast_to"})
          \cup {"BroadcastSizes", "broadcast_in_dim"}
    BY DEF Kernels
  <2> QED BY <1>1, <1>2, <1>3, <2>1
<1>6. IsFiniteSet(Bookkept)
  <2>1. Bookkept =
          {"DistributedDataParallel_forward", "mul_out", "copy_bucket_to_grad",
           "FullyShardedDataParallel_forward"}
          \cup {"_post_backward_hook", "Optimizer_step", "AddmmBackward0", "AddmmBackward0"}
    BY DEF Bookkept
  <2> QED BY <1>3, <2>1, FS_Union
<1>7. IsFiniteSet(Event)
  BY <1>2, <1>4, <1>5, <1>6, EventNames
<1> QED BY <1>7, FS_Subset DEF Communication, Computation

\* is_comm_event knows the events of the backends from those of local work.
LEMMA ClassifiedRight ==
  ASSUME NEW e \in Event
  PROVE  IsCommEvent(e) <=> OnWire(e)
<1>1. CASE e \in Backends
  BY <1>1 DEF Backends, IsCommEvent, OnWire, EventName, C10d, Gloo, Name, COMM_NAMESPACE,
              COMM_KEYWORD
<1>2. CASE e \in Kernels
  BY <1>2 DEF Kernels, IsCommEvent, OnWire, EventName, Kernel, Name, COMM_NAMESPACE
<1>3. CASE e \in Bookkept
  BY <1>3 DEF Bookkept, IsCommEvent, OnWire, EventName, Bookkeeping, Name, COMM_NAMESPACE,
              COMM_KEYWORD
<1> QED BY <1>1, <1>2, <1>3, EventNames

LEMMA ProgramEvents ==
  ASSUME NEW n \in DOMAIN Program
  PROVE  Program[n] \subseteq Event
BY EventNames DEF Program, Step, Backends, Kernels, Bookkept

LEMMA NothingSpent ==
  SumOf(Nothing, Communication) = 0 /\ SumOf(Nothing, Computation) = 0
<1>1. ASSUME NEW S \in SUBSET Event, IsFiniteSet(S) PROVE SumOf(Nothing, S) = 0
  <2>1. PICK f : IsSum(Nothing, f, SUBSET S) /\ SumOf(Nothing, S) = f[S]
    BY <1>1, SumsAre
  <2> DEFINE Zero(E) == f[E] = 0
             P == {n \in Nat : \A E \in SUBSET S : Cardinality(E) <= n => Zero(E)}
  <2>2. \A E \in SUBSET S : IsFiniteSet(E) /\ Cardinality(E) \in Nat
    BY <1>1, FS_Subset, FS_CardinalityType
  <2>3. Zero({})
    BY <2>1 DEF IsSum
  <2>4. 0 \in P
    <3>1. \A E \in SUBSET S : Cardinality(E) <= 0 => E = {}
      BY <2>2, FS_EmptySet
    <3> QED BY <2>3, <3>1
  <2>5. ASSUME NEW n \in Nat, n \in P PROVE n + 1 \in P
    <3> HIDE DEF Zero
    <3> SUFFICES ASSUME NEW E \in SUBSET S, Cardinality(E) <= n + 1, E # {} PROVE Zero(E)
      BY <2>3
    <3> USE DEF Zero
    <3> DEFINE x == Chosen(E)
               F == E \ {x}
    <3>1. x \in E /\ IsFiniteSet(E) /\ Cardinality(E) \in Nat
      BY <2>2, ChosenIn
    <3>2. F \in SUBSET S /\ Cardinality(F) = Cardinality(E) - 1
      BY <3>1, FS_RemoveElement
    <3>3. f[E] = Nothing[x] + f[F]
      BY <2>1 DEF IsSum
    <3>4. f[F] = 0
      BY <2>5, <3>1, <3>2
    <3>5. Nothing[x] = 0
      BY <1>1, <3>1 DEF Nothing
    <3> QED BY <3>3, <3>4, <3>5
  <2>6. Cardinality(S) \in P
    <3>1. Nat \subseteq P
      <4> HIDE DEF P
      <4> QED BY <2>4, <2>5, Induction
    <3> QED BY <2>2, <3>1
  <2>7. S \in SUBSET S
    OBVIOUS
  <2> QED BY <2>1, <2>2, <2>6, <2>7
<1> QED BY <1>1, EventsAreFinite DEF Communication, Computation

LEMMA TimeStep == TimeInv /\ [Next]_vars => TimeInv'
<1> SUFFICES ASSUME TimeInv, [Next]_vars PROVE TimeInv'
  OBVIOUS
<1>1. CASE StartProfiler
  <2>1. /\ phase = "warm-up" /\ phase' = "window" /\ captured' = captured /\ program' = program
        /\ truth'.wire = 0 /\ truth'.local = 0 /\ Recorded'
    BY <1>1 DEF StartProfiler, WarmedUp, Truth, Recorded
  <2> QED BY <2>1, NothingSpent DEF TimeInv, Recorded
<1>2. CASE ProfiledOperation
  <2>1. PICK e \in Program[program] :
          /\ captured' = [captured EXCEPT ![e] = @ + SelfTime(e)]
          /\ truth' = [wire |-> truth.wire + IF OnWire(e) THEN SelfTime(e) ELSE 0,
                       local |-> truth.local + IF OnWire(e) THEN 0 ELSE SelfTime(e),
                       alloc |-> Greater(truth.alloc, alloc'),
                       rss |-> Greater(truth.rss, rss')]
    BY <1>2 DEF ProfiledOperation
  <2>2. e \in Event /\ SelfTime(e) \in Nat /\ phase = "window" /\ phase' = "window"
        /\ program' = program /\ Recorded'
    BY <1>2, <2>1, ProgramEvents DEF ProfiledOperation, SelfTime, TimeInv, Recorded
  <2>3. captured' \in [Event -> Nat]
    BY <2>1, <2>2 DEF TimeInv, Recorded
  <2>4. \A x \in Event : /\ captured[x] \in Nat
                         /\ captured'[x] = captured[x] + IF x = e THEN SelfTime(e) ELSE 0
    BY <2>1, <2>2 DEF TimeInv, Recorded
  <2>5. ASSUME NEW S \in SUBSET Event, IsFiniteSet(S)
        PROVE  /\ SumOf(captured', S) = SumOf(captured, S) + (IF e \in S THEN SelfTime(e) ELSE 0)
               /\ SumOf(captured, S) \in Nat
    <3>1. OneMore(captured, captured', S, e, SelfTime(e))
      BY <2>4 DEF OneMore
    <3> QED BY <2>2, <2>5, <3>1, SumsDiffer
  <2>6. (e \in Communication <=> OnWire(e)) /\ (e \in Computation <=> ~OnWire(e))
    BY <2>2, ClassifiedRight DEF Communication, Computation
  <2>7. Communication \in SUBSET Event /\ Computation \in SUBSET Event
    BY DEF Communication, Computation
  <2>8. /\ truth'.wire = SumOf(captured', Communication)
        /\ truth'.local = SumOf(captured', Computation)
    BY <2>1, <2>2, <2>5, <2>6, <2>7, EventsAreFinite DEF TimeInv, Recorded
  <2> QED BY <2>2, <2>3, <2>8 DEF TimeInv, Recorded
<1>3. CASE Classify
  <2>1. /\ phase = "closed" /\ phase' = "done" /\ UNCHANGED <<program, captured, truth>>
        /\ result'.comm = Total(Communication) /\ result'.compute = Total(Computation)
    BY <1>3 DEF Classify, Communication, Computation
  <2>2. \A E : Total(E) = SumOf(captured, E)
    BY DEF Total, SumOf
  <2> QED BY <2>1, <2>2 DEF TimeInv, Recorded
<1>4. CASE WarmUpStep
  BY <1>4 DEF WarmUpStep, TimeInv, Recorded
<1>5. CASE StopProfiler
  BY <1>5 DEF StopProfiler, TimeInv, Recorded
<1>6. CASE Raise
  BY <1>6 DEF Raise, TimeInv, Recorded
<1>7. CASE UNCHANGED vars
  BY <1>7 DEF vars, TimeInv, Recorded
<1> QED BY <1>1, <1>2, <1>3, <1>4, <1>5, <1>6, <1>7 DEF Next, Returned

\* What is reported as communication is the time spent in events of the backends,
\* and the rest is computation.
THEOREM TimesCorrect == Spec => []CommTimeIsWireTime
<1>1. Init => TimeInv
  BY DEF Init, TimeInv, Nothing, Truth, Recorded
<1>2. TimeInv => CommTimeIsWireTime
  BY DEF TimeInv, CommTimeIsWireTime
<1> QED BY <1>1, <1>2, TimeStep, PTL DEF Spec
=============================================================================
