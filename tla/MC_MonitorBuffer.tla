------------------------- MODULE MC_MonitorBuffer -------------------------
(* MonitorBuffer with the threads main() starts: one producer of each kind,  *)
(* two interchangeable consumers.                                            *)
EXTENDS MonitorBuffer, TLC

CONSTANTS prodA, prodB, consA, consB

MCProducersA == {prodA}
MCProducersB == {prodB}
MCConsumers == {consA, consB}

ConsumerSymmetry == Permutations(MCConsumers)
=============================================================================
