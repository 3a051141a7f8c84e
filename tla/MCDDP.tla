-------------------------------- MODULE MCDDP --------------------------------
(* Free terms for torch's arithmetic: two weights are equal only when they   *)
(* were computed in the same way from the same inputs.                       *)
EXTENDS DDP

MCInitW(r) == <<"init", r>>
MCGrad(w, b) == <<"grad", w, b>>
MCApply(w, g) == <<"apply", w, g>>
MCFingerprint(w) == <<"sum", w>>
=============================================================================
