----------------------------- MODULE MCPpaSlot -----------------------------
(* PpaSlot with a card for each path through ctBcsReset.                  *)
EXTENDS PpaSlot

Card(a, p, r, s) == [atr |-> a, proto |-> p, rate |-> r, specific |-> s]

MCCards ==
  {Card("ok", 0, "default", FALSE), Card("cold", 0, "fast", FALSE), Card("ok", 0, "top", TRUE),
   Card("ok", 1, "fast", FALSE), Card("ok", 1, "top", TRUE), Card("faulty", 1, "default", FALSE),
   Card("spoilt", 0, "default", FALSE), Card("sync", 8, "default", FALSE), Card("odd", 8, "default", FALSE)}
=============================================================================
