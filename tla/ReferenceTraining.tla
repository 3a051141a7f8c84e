-------------------------- MODULE ReferenceTraining --------------------------
(***************************************************************************)
(* One model trained by one loop (train_baseline.py, train): every step    *)
(* takes the gradient of the current weights on each of the pieces that    *)
(* make up the global batch and applies one optimizer update to all of     *)
(* them together.  The baseline has one piece.  The distributed scripts    *)
(* promise to be this program with one piece per rank: no step may use a   *)
(* stale gradient, lose a rank's contribution or apply it twice.           *)
(*                                                                         *)
(* "Weights" stands for the parameters and AdamW's moments together; the   *)
(* arithmetic of torch is left uninterpreted.                              *)
(***************************************************************************)
EXTENDS Integers

CONSTANTS
  Parts,        \* the pieces of a global batch
  Batch,        \* what one piece can be
  StepCounts,   \* the values of --steps
  W0,           \* the initial weights
  Grad(_, _),   \* Grad(w, b): loss.backward() on weights w and batch b
  Apply(_, _)   \* Apply(w, g): optimizer.step() with the gradients g

VARIABLES weights, version

refVars == <<weights, version>>

RefInit == weights = W0 /\ version = 0

\* for step in range(1, args.steps + 1): get_batch ... optimizer.step()
TrainStep(b) ==
  /\ \E n \in StepCounts : version < n
  /\ weights' = Apply(weights, [p \in Parts |-> Grad(weights, b[p])])
  /\ version' = version + 1

RefNext == \E b \in [Parts -> Batch] : TrainStep(b)

RefSpec == RefInit /\ [][RefNext]_refVars
=============================================================================
