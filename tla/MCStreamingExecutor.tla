------------------------- MODULE MCStreamingExecutor -------------------------
(* Turns of three calls with distinct parameters, or with the second
   repeating the first.                                                    *)
EXTENDS StreamingExecutor

MCDistinct == [i \in Calls |-> i]
MCRepeated == [i \in Calls |-> IF i = 2 THEN 1 ELSE i]
=============================================================================
