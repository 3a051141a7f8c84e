----------------------------- MODULE MCNotebooks -----------------------------
(* Every notebook after every other one, on a machine with 0, 1 or 2 GPUs. *)
EXTENDS Notebooks
=============================================================================
