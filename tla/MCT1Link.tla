------------------------------ MODULE MCT1Link ------------------------------
(* T1Link with two short commands; the driver's own bounds scaled down.    *)
EXTENDS T1Link

MCBytes == (-9 .. 9) \X (1 .. 9)
MCRequests == {cjT1SBlock("WTX0", "request", 0), cjT1SBlock("IFS", "request", 1), cjT1SBlock("ABORT", "request", 0)}
=============================================================================
