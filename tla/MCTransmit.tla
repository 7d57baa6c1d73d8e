----------------------------- MODULE MCTransmit -----------------------------
(* T=1: commands and responses of up to three blocks, and as many faults   *)
(* as it takes to exceed the driver's limit.  T=0: a length byte that      *)
(* holds 0 .. 2 and stands for up to 3, responses one longer than that.    *)
EXTENDS Transmit
=============================================================================
