------------------------------- MODULE TR3200 -------------------------------
(***************************************************************************)
(* The TR3200 CPU: how it accepts interrupts, executes, skips and sleeps.  *)
(* Registers, memory and the program counter are abstracted away; what an  *)
(* instruction does to the control state is kept.  The CPU is a record and *)
(* every method of the class is an operator from records to records, so    *)
(* that a caller composes them in the order the code calls them.           *)
(***************************************************************************)
EXTENDS Integers

CONSTANTS
  Msg,        \* interrupt messages
  NullVector, \* the messages whose vector table entry is 0
  Program,    \* the instructions the guest program is made of
  MaxCost     \* the longest instruction, in cycles

Branch == {"if_pass", "if_fail"}

\* What an instruction can do to the control state.  Everything that does
\* nothing to it is "plain"; "flags" writes the enable bits of %flags and
\* leaves IF alone, as every program but an interrupt controller does.
Instr ==
  [op : {"plain", "sleep", "rfi"} \cup Branch]
    \cup [op : {"int"}, msg : Msg]
    \cup [op : {"flags"}, ei : BOOLEAN, ess : BOOLEAN]

ASSUME CpuAssumption ==
  /\ Msg # {}
  /\ NullVector \subseteq Msg
  /\ Program \subseteq Instr
  /\ MaxCost \in Nat \ {0}

VARIABLE cpu

Cost == 1 .. MaxCost

Cpu ==
  [ ei          : BOOLEAN,    \* %flags bit 8, interrupts enabled
    ess         : BOOLEAN,    \* %flags bit 9, single stepping enabled
    iflag       : BOOLEAN,    \* %flags bit 3, inside an interrupt handler
    interrupt   : BOOLEAN,    \* a message was accepted and waits
    int_msg     : Msg,        \* ... this one
    step_mode   : BOOLEAN,
    skiping     : BOOLEAN,    \* the next instruction is skipped
    sleeping    : BOOLEAN,
    wait_cycles : 0 .. MaxCost,
    frames      : Nat ]       \* interrupt frames pushed on the stack

CpuTypeOK == cpu \in Cpu

-----------------------------------------------------------------------------
(* The methods of the class.                                               *)

AnyMsg == CHOOSE m \in Msg : TRUE

ResetCpu ==
  [ ei |-> FALSE, ess |-> FALSE, iflag |-> FALSE, interrupt |-> FALSE,
    int_msg |-> AnyMsg, step_mode |-> FALSE, skiping |-> FALSE,
    sleeping |-> FALSE, wait_cycles |-> 0, frames |-> 0 ]

\* Mutant: messages are taken inside a handler too.
Accepts_Unmasked(c) == c.ei

Accepts(c) == c.ei /\ ~c.iflag

SendInterrupt(c, m) ==
  IF Accepts(c) THEN [c EXCEPT !.interrupt = TRUE, !.int_msg = m] ELSE c

\* Mutant: the handler runs unmasked.
EnterHandler_NoMask(c) ==
  [c EXCEPT !.interrupt = FALSE, !.sleeping = FALSE, !.frames = @ + 1]

\* Mutant: the message does not wake the CPU.
EnterHandler_NoWake(c) ==
  [c EXCEPT !.interrupt = FALSE, !.iflag = TRUE, !.frames = @ + 1]

EnterHandler(c) ==
  [c EXCEPT !.interrupt = FALSE, !.iflag = TRUE, !.sleeping = FALSE,
            !.frames = @ + 1]

ProcessInterrupt(c) ==
  IF ~(c.ei /\ c.interrupt)        THEN c
  ELSE IF c.int_msg \in NullVector THEN [c EXCEPT !.interrupt = FALSE]
  ELSE EnterHandler(c)

\* The body of one instruction, before the interrupt check.
Execute(c, ins) ==
  CASE ins.op = "sleep"   -> [c EXCEPT !.sleeping = TRUE]
    [] ins.op = "rfi"     -> [c EXCEPT !.iflag = FALSE, !.interrupt = FALSE,
                                       !.frames = @ - 1]
    [] ins.op = "int"     -> SendInterrupt(c, ins.msg)
    [] ins.op = "flags"   -> [c EXCEPT !.ei = ins.ei, !.ess = ins.ess]
    [] ins.op = "if_fail" -> [c EXCEPT !.skiping = TRUE]
    [] OTHER              -> c

SetStepMode(c) == [c EXCEPT !.step_mode = c.ei /\ c.ess]

Skip(c, ins) ==
  [c EXCEPT !.wait_cycles = 1, !.skiping = ins.op \in Branch]

\* Mutant: messages are looked for only while asleep.
RealStep_NoCheck(c, ins, w) ==
  IF c.skiping THEN Skip(c, ins)
  ELSE SetStepMode(Execute([c EXCEPT !.wait_cycles = w], ins))

RealStep(c, ins, w) ==
  IF c.skiping THEN Skip(c, ins)
  ELSE ProcessInterrupt(
         SetStepMode(Execute([c EXCEPT !.wait_cycles = w], ins)))

\* Step(): a whole instruction, whatever wait_cycles says.
StepOnce(c, ins, w) ==
  IF c.sleeping THEN ProcessInterrupt(c) ELSE RealStep(c, ins, w)

\* Mutant: messages are looked for only while awake.
Cycle_Deaf(c, ins, w) ==
  IF c.sleeping THEN c
  ELSE [(IF c.wait_cycles = 0 THEN RealStep(c, ins, w) ELSE c)
          EXCEPT !.wait_cycles = @ - 1]

\* One round of the loop in Tick(n).
Cycle(c, ins, w) ==
  IF c.sleeping THEN ProcessInterrupt(c)
  ELSE [(IF c.wait_cycles = 0 THEN RealStep(c, ins, w) ELSE c)
          EXCEPT !.wait_cycles = @ - 1]

DoesTrap(c) == c.step_mode /\ ~c.iflag

\* The program returns from interrupts it is handling, and from those only.
Legal(c, ins) == ins.op = "rfi" => c.frames > 0

-----------------------------------------------------------------------------
(* The CPU in any computer: messages are offered to it and time passes.    *)

CpuInit == cpu = ResetCpu

CpuReset == cpu' = ResetCpu

CpuOffer(m) == cpu' = SendInterrupt(cpu, m)

CpuTick(ins, w) == Legal(cpu, ins) /\ cpu' = Cycle(cpu, ins, w)

CpuStep(ins, w) == Legal(cpu, ins) /\ cpu' = StepOnce(cpu, ins, w)

CpuNext ==
  \/ CpuReset
  \/ \E m \in Msg : CpuOffer(m)
  \/ \E ins \in Program, w \in Cost : CpuTick(ins, w) \/ CpuStep(ins, w)

CpuSpec == CpuInit /\ [][CpuNext]_cpu

-----------------------------------------------------------------------------
(* Properties                                                              *)

\* Interrupts never nest: the stack holds one interrupt frame exactly while IF
\* masks further ones, whatever the messages, the traps and the INT
\* instructions in handlers.
OneFrame == cpu.frames = IF cpu.iflag THEN 1 ELSE 0

\* ... and no accepted message waits while a handler runs, so the RFI that clears
\* "interrupt" on its way out of the handler drops nothing.
RfiDropsNothing == cpu.iflag => ~cpu.interrupt

\* No wake-up is lost between the SLEEP instruction and the sleep: a message that
\* was accepted before the CPU falls asleep keeps it awake.
SleepSeesPending ==
  [][~cpu.sleeping /\ cpu'.sleeping => ~(cpu'.ei /\ cpu'.interrupt)]_cpu

\* "IFEQ %r1, 0 ; %r1 = 0xBEBECAFE, so skips" (asm/tr3200/test.asm:31, in a program
\* that enabled interrupts): the instruction a failed IFxx skips is the one after
\* it, not the first of an interrupt handler.
SkipStaysInProgram ==
  [][cpu'.frames > cpu.frames => ~cpu'.skiping]_cpu
=============================================================================
