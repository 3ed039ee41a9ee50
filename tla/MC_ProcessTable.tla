---------------------------- MODULE MC_ProcessTable ----------------------------
(* MM, FS, INIT and three more slots, with just enough pids to use them again. *)
EXTENDS ProcessTable

CONSTANTS pid1, pid2, pid3

MCPids == {pid1, pid2, pid3}

Symmetry == Permutations(MCPids)
================================================================================
