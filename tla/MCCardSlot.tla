----------------------------- MODULE MCCardSlot -----------------------------
(* CardSlot with one card of every kind AnalyseATR tells apart.            *)
EXTENDS CardSlot

MCCard(kind, offers, once) == [kind |-> kind, offers |-> offers, once |-> once]
MCCards ==
  {MCCard("specific", {"T1"}, TRUE), MCCard("negotiable", {"T0", "T1"}, FALSE),
   MCCard("negotiable", {"T1"}, TRUE), MCCard("bad", {}, FALSE), MCCard("corrupt", {}, FALSE),
   MCCard("memory", {}, FALSE), MCCard("memoryFF", {}, FALSE), MCCard("rf", {}, FALSE),
   MCCard("unknown", {}, FALSE)}
=============================================================================
