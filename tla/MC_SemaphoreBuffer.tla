------------------------ MODULE MC_SemaphoreBuffer ------------------------
(* SemaphoreBuffer with the threads main() starts.                           *)
EXTENDS SemaphoreBuffer, TLC

CONSTANTS prodA, prodB, consA, consB

MCProducersA == {prodA}
MCProducersB == {prodB}
MCConsumers == {consA, consB}

ConsumerSymmetry == Permutations(MCConsumers)
=============================================================================
