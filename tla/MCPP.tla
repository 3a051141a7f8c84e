--------------------------------- MODULE MCPP ---------------------------------
(* Free terms for torch's arithmetic, as in MCDDP. *)
EXTENDS PP

MCSample(k, i) == <<"sample", k, i>>
MCInitW(seed, m) == <<"init", seed, m>>
MCGrad(w, x, y) == <<"grad", w, x, y>>
MCApplyModule(m, v, g) == <<"apply", m, v, g>>
=============================================================================
