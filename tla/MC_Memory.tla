----------------------------- MODULE MC_Memory -----------------------------
(* Memory on two small chunks of memory and a small swap area.               *)
EXTENDS Memory

TwoChunks == <<Hole(0, 2), Hole(3, 3)>>
=============================================================================
