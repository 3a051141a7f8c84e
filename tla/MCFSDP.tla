-------------------------------- MODULE MCFSDP --------------------------------
(* Free terms for torch's arithmetic, as in MCDDP. *)
EXTENDS FSDP

MCInitW(r) == <<"init", r>>
MCChunk(w, c) == <<"chunk", w, c>>
MCGrad(w, b) == <<"grad", w, b>>
MCApplyChunk(c, v, g) == <<"apply", c, v, g>>
MCFingerprint(w) == <<"sum", w>>
=============================================================================
