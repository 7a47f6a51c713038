---------------------------- MODULE MC_VComputer ----------------------------
(***************************************************************************)
(* Instances of VComputer: a device that asks until IACK in slot 0 and a   *)
(* floppy drive in slot 1, one timer, instructions of at most two cycles.  *)
(***************************************************************************)
EXTENDS VComputer

CONSTANTS trap, tmr0, serial, floppy

MCDevMsg == [s \in Slot |-> IF s = 0 THEN serial ELSE floppy]
MCTmrMsg == [c \in Chan |-> tmr0]

Ops(S) == [op : S]
EnableInterrupts(e) == [op |-> "flags", ei |-> e, ess |-> FALSE]
SingleStep == [op |-> "flags", ei |-> TRUE, ess |-> TRUE]

\* Programs that sleep, skip, return, raise software interrupts and toggle EI.
MCProgram ==
  Ops({"plain", "sleep", "rfi", "if_fail"})
    \cup {EnableInterrupts(TRUE), EnableInterrupts(FALSE)}
    \cup {[op |-> "int", msg |-> trap]}

\* Programs that wait for interrupts, as asm/tr3200/clock.asm does.
MCWaiting == Ops({"plain", "sleep", "rfi", "if_fail"}) \cup {EnableInterrupts(TRUE)}

\* ... and programs that are single stepped.
MCStepped == MCProgram \cup {SingleStep}
=============================================================================
