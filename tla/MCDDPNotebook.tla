---------------------------- MODULE MCDDPNotebook ----------------------------
(* Free terms for torch's arithmetic, as in MCDDP. *)
EXTENDS DDPNotebook

MCInitW(r) == <<"init", r>>
MCGrad(w, b) == <<"grad", w, b>>
MCApply(w, g) == <<"apply", w, g>>
MCFingerprint(w) == <<"sum", w>>
=============================================================================
