-------------------------- MODULE MC_MessagePassing --------------------------
(* Two tasks with interrupts and the system task, one server, INIT and a child. *)
EXTENDS MessagePassing

MCTaskSlots == <<CLOCK, SYSTASK>>
MCServerSlots == <<MM>>
MCInterrupted == {CLOCK, SYSTASK}
==============================================================================
