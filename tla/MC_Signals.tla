------------------------------ MODULE MC_Signals ------------------------------
(* The clock and system tasks, MM, FS, INIT and one slot for a child. *)
EXTENDS Signals

MCTaskSlots == <<CLOCK, SYSTASK>>
MCServerSlots == <<MM, FS>>
===============================================================================
