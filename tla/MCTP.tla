--------------------------------- MODULE MCTP ---------------------------------
(* Free terms for torch's arithmetic, as in MCDDP, except that partial sums  *)
(* whose parts belong together add up to what one process computes.          *)
EXTENDS TP

MCSample(k) == <<"batch", k>>
MCInitW(r) == <<"init", r>>
MCRepOf(w) == <<"rep", w>>
MCShardOf(w, r) == <<"shard", r, w>>
MCApplyPart(p, v, g) == <<"apply", p, v, g>>
MCFingerprint(w) == <<"sum", w>>

MCLogits(rp, x, parts) ==
  IF \A q \in Rank : parts[q].rep = rp /\ parts[q].x = x /\ parts[q].shard[2] = q
  THEN <<"logits", rp, x, [q \in Rank |-> parts[q].shard]>>
  ELSE <<"torn", rp, x, parts>>

MCGrad(out, parts) ==
  IF \A q \in Rank : parts[q] = BackwardPart(q, out) THEN <<"grad", out>>
  ELSE <<"torn", out, parts>>
=============================================================================
