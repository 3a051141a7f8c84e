----------------------------- MODULE Collectives -----------------------------
(***************************************************************************)
(* What the training scripts assume of torch.distributed and of the        *)
(* launcher (torchrun, or torch.multiprocessing.spawn in profile_run.py).  *)
(* Neither is in the repository: both are modelled from how train_ddp.py   *)
(* and train_fsdp.py use them.                                             *)
(*                                                                         *)
(* A rank enters collectives one after the other; the k-th collective of a *)
(* rank meets the k-th collective of every other rank.  A rank that has    *)
(* entered a collective goes on when it is complete.  Workers may die (out *)
(* of memory, a signal, SystemExit); when one has died the launcher kills  *)
(* the ones still running and itself reports failure (max_restarts = 0).   *)
(***************************************************************************)
EXTENDS Integers

CONSTANTS
  WorldSize,    \* number of processes, torchrun's --nproc_per_node
  MaxCrashes    \* bound on the environment's crashes in one run

ASSUME WorldSizeAssumption == WorldSize \in Nat \ {0}
ASSUME MaxCrashesAssumption == MaxCrashes \in Nat

Rank == 0 .. WorldSize - 1

VARIABLES
  entered,  \* entered[r]: how many collectives rank r has entered
  posted,   \* posted[r][k]: the k-th of them, [op, val]
  proc,     \* proc[r]: what the launcher sees of the worker process
  crashes   \* crashes the environment has caused so far

commVars == <<entered, posted, proc, crashes>>

ProcState == {"running", "ok", "failed", "killed"}
NoVal == <<>>

CommInit ==
  /\ entered = [r \in Rank |-> 0]
  /\ posted = [r \in Rank |-> <<>>]
  /\ proc = [r \in Rank |-> "running"]
  /\ crashes = 0

-----------------------------------------------------------------------------
Here(r) == entered[r]               \* index of the collective r entered last

Enter(r, op, val) ==
  /\ entered' = [entered EXCEPT ![r] = @ + 1]
  /\ posted' = [posted EXCEPT ![r] =
       [k \in 1 .. Here(r) + 1 |->
          IF k <= Here(r) THEN posted[r][k] ELSE [op |-> op, val |-> val]]]

OpAt(q, k) == posted[q][k].op
ValAt(q, k) == posted[q][k].val

Met(q, r) ==    \* q has entered the collective r is in, and calls it the same
  /\ Here(q) >= Here(r)
  /\ OpAt(q, Here(r)) = OpAt(r, Here(r))

\* A broadcast needs its source only; the others need every rank.
Complete(r) ==
  IF OpAt(r, Here(r)) = "broadcast" THEN Met(0, r) ELSE \A q \in Rank : Met(q, r)

\* What every rank brought to the collective r is in, and what rank 0 did.
Gathered(r) == [q \in Rank |-> ValAt(q, Here(r))]
FromRank0(r) == ValAt(0, Here(r))

-----------------------------------------------------------------------------
Exit(r, how) == proc' = [proc EXCEPT ![r] = how]

Crash(r) ==     \* the process dies where it stands
  /\ proc[r] = "running"
  /\ crashes < MaxCrashes
  /\ crashes' = crashes + 1
  /\ Exit(r, "failed")
  /\ UNCHANGED <<entered, posted>>

\* gloo raises in a rank that waits for a peer whose process is gone.  It may:
\* nccl just waits, until the launcher acts.
PeerLost(r) ==
  /\ proc[r] = "running"
  /\ Here(r) > 0
  /\ ~Complete(r)
  /\ \E q \in Rank : Here(q) < Here(r) /\ proc[q] \in {"failed", "killed"}
  /\ Exit(r, "failed")
  /\ UNCHANGED <<entered, posted, crashes>>

KillWorker(r) ==
  /\ proc[r] = "running"
  /\ \E q \in Rank : proc[q] = "failed"
  /\ Exit(r, "killed")
  /\ UNCHANGED <<entered, posted, crashes>>

AllEnded == \A r \in Rank : proc[r] # "running"
LauncherOK == \A r \in Rank : proc[r] = "ok"              \* returncode 0
LauncherFailed == AllEnded /\ ~LauncherOK
=============================================================================
