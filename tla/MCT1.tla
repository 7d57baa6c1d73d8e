-------------------------------- MODULE MCT1 --------------------------------
(* T1 with an unrestricted reader: every kind of block at every moment.    *)
EXTENDS T1

MCBytes == 1 .. 3
MCCommands == {<<1, 2, 3>>, <<1>>}

MCRxBlocks ==
  {cjT1IBlock(n, m, d) : n \in Bit, m \in BOOLEAN, d \in {<<>>, <<1>>, <<1, 1>>}}
  \cup [type : {"R"}, n : Bit, err : {"ok", "edc"}]
  \cup {cjT1SBlock(c, "request", 0) : c \in {"RESYNCH", "ABORT", "WTX0", "KEY", "CARD", "DROPPED"}}
  \cup {cjT1SBlock("IFS", "request", p) : p \in {0, 1}}
  \cup {[type |-> "S", dir |-> "request", cmd |-> "WTX", param |-> p] : p \in 0 .. 1}
=============================================================================
