------------------------------- MODULE MC_Alarms -------------------------------
(* The two tasks of clock.c, servers as their clients, INIT and children.  *)
EXTENDS Alarms

MCTaskSlots == <<SYN_ALRM_TASK, CLOCK>>
MCServerSlots == <<MM, FS>>

\* A server that signed on in the slot of a user, amid the others.
MCLateServerSlots == <<MM, 4>>
================================================================================
