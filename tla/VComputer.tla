----------------------------- MODULE VComputer -----------------------------
(***************************************************************************)
(* The computer: one call of VComputer::Tick or VComputer::Step runs the   *)
(* CPU, then the timer, then every plugged device in the order of the      *)
(* slots, and passes at most one of their interrupt requests to the CPU.   *)
(* A call is cut into the steps the code makes one after the other         *)
(* (phase); the host acts between two calls only, for the program has one  *)
(* thread.                                                                 *)
(***************************************************************************)
EXTENDS TR3200, PitLine

CONSTANTS
  NSlots,     \* plugged devices, in the slots 0 .. NSlots - 1
  Level,      \* the slots whose device asks until IACK (serial, TDA, keyboard);
              \* the others hold floppy drives, which ask once
  DevMsg,     \* the message each device was told to send
  TmrMsg,     \* the messages of the timer's channels
  TrapMsg,    \* the message of the single step trap
  MaxCycles   \* bound: CPU cycles of one call of Tick

Slot == 0 .. NSlots - 1

ASSUME ComputerAssumption ==
  /\ NSlots \in Nat
  /\ Level \subseteq Slot
  /\ DevMsg \in [Slot -> Msg]
  /\ TmrMsg \in [Chan -> Msg]
  /\ TrapMsg \in Msg
  /\ MaxCycles \in Nat

VARIABLES
  is_on,
  armed,        \* the device was given a message (SET_INTERRUPT and the like)
  pending,      \* do_int, do_vsync or pendingInterrupt of the device
  phase,        \* where the call is: "idle", "cpu", "pit", "slots"
  stepping,     \* the call is Step, not Tick
  left,         \* CPU cycles left in the call
  slot,         \* the next slot of the loop
  interrupted   \* a request was found in this call

callVars == <<phase, stepping, left, slot, interrupted>>
devVars  == <<armed, pending>>
vars     == <<cpu, pitVars, is_on, devVars, callVars>>

TypeOK ==
  /\ CpuTypeOK
  /\ PitTypeOK
  /\ is_on \in BOOLEAN
  /\ armed \in [Slot -> BOOLEAN]
  /\ pending \in [Slot -> BOOLEAN]
  /\ phase \in {"idle", "cpu", "pit", "slots"}
  /\ stepping \in BOOLEAN
  /\ left \in 0 .. MaxCycles + 1
  /\ slot \in 0 .. NSlots
  /\ interrupted \in BOOLEAN

None == [s \in Slot |-> FALSE]

Init ==
  /\ CpuInit
  /\ PitInit
  /\ is_on = FALSE
  /\ armed = None /\ pending = None
  /\ phase = "idle" /\ stepping = FALSE
  /\ left = 0 /\ slot = 0 /\ interrupted = FALSE

-----------------------------------------------------------------------------
(* Calls of the host                                                       *)

ResetAll ==
  /\ CpuReset
  /\ PitReset
  /\ armed' = None
  /\ pending' = None

On ==
  /\ phase = "idle" /\ ~is_on
  /\ is_on' = TRUE
  /\ ResetAll
  /\ UNCHANGED callVars

TurnOff ==
  /\ phase = "idle" /\ is_on
  /\ is_on' = FALSE
  /\ UNCHANGED <<cpu, pitVars, devVars, callVars>>

Reset ==
  /\ phase = "idle"
  /\ ResetAll
  /\ UNCHANGED <<is_on, callVars>>

\* A call of Tick whose clock ratio gives k CPU cycles, or a call of Step.
CallTick(k) ==
  /\ phase = "idle" /\ is_on
  /\ phase' = "cpu" /\ left' = k
  /\ UNCHANGED <<cpu, pitVars, is_on, devVars, stepping, slot, interrupted>>

CallStep ==
  /\ phase = "idle" /\ is_on
  /\ phase' = "cpu" /\ left' = 1 /\ stepping' = TRUE
  /\ UNCHANGED <<cpu, pitVars, is_on, devVars, slot, interrupted>>

\* RX_Ready or DoVSync on a device of Level, a disk put in or taken out of a drive.
HostRaise(s) ==
  /\ phase = "idle"
  /\ pending' = [pending EXCEPT ![s] = IF s \in Level THEN armed[s] ELSE TRUE]
  /\ UNCHANGED <<cpu, pitVars, is_on, armed, callVars>>

-----------------------------------------------------------------------------
(* The steps of one call                                                   *)

\* Mutant: one cycle too many.
RunOne_OneMore(ins, w) ==
  /\ phase = "cpu" /\ left >= 0
  /\ left' = left - 1
  /\ IF stepping THEN CpuStep(ins, w) ELSE CpuTick(ins, w)
  /\ UNCHANGED <<phase, stepping, slot, interrupted, is_on>>

RunOne(ins, w) ==
  /\ phase = "cpu" /\ left > 0
  /\ left' = left - 1
  /\ IF stepping THEN CpuStep(ins, w) ELSE CpuTick(ins, w)
  /\ UNCHANGED <<phase, stepping, slot, interrupted, is_on>>

RunCpu(ins, w) ==
  /\ RunOne(ins, w)
  /\ UNCHANGED <<pitVars, devVars>>

Plain == [op |-> "plain"]

Fetching == ~cpu.sleeping /\ (stepping \/ cpu.wait_cycles = 0)

Executing == Fetching /\ ~cpu.skiping

\* An instruction that stores to a register of the timer or of a device.
Store(w) ==
  /\ Executing
  /\ Plain \in Program
  /\ RunOne(Plain, w)
  /\ \/ /\ \E e, i \in [Chan -> BOOLEAN] : PitWriteCfg(e, i)
        /\ UNCHANGED devVars
     \/ /\ \E s \in Slot, b \in BOOLEAN : armed' = [armed EXCEPT ![s] = b]
        /\ UNCHANGED <<pending, pitVars>>
     \/ /\ \E s \in Slot \ Level : pending' = [pending EXCEPT ![s] = TRUE]
        /\ UNCHANGED <<armed, pitVars>>

\* pit.Tick: the channels in S underflow.
TickPit(S) ==
  /\ phase = "cpu" /\ left = 0
  /\ phase' = "pit"
  /\ PitTick(S)
  /\ UNCHANGED <<cpu, is_on, devVars, stepping, left, slot, interrupted>>

\* Mutant: a CPU with a message waiting is not offered the timer's, and the
\* devices are asked all the same.
PollPit_Yields ==
  LET asks == PitDoesInterrupt /\ ~cpu.interrupt
  IN  /\ phase = "pit"
      /\ phase' = "slots"
      /\ interrupted' = asks
      /\ IF asks THEN CpuOffer(TmrMsg[Reported]) ELSE UNCHANGED cpu
      /\ IF asks /\ Accepts(cpu) THEN PitServed ELSE UNCHANGED pitVars
      /\ UNCHANGED <<is_on, devVars, stepping, left, slot>>

\* Mutant: the timer's message does not ask whether the CPU accepts it.
PollPit_Forces ==
  /\ phase = "pit"
  /\ phase' = "slots"
  /\ interrupted' = PitDoesInterrupt
  /\ cpu' = IF PitDoesInterrupt
               THEN [cpu EXCEPT !.interrupt = TRUE, !.int_msg = TmrMsg[Reported]]
               ELSE cpu
  /\ IF PitDoesInterrupt THEN PitServed ELSE UNCHANGED pitVars
  /\ UNCHANGED <<is_on, devVars, stepping, left, slot>>

\* pit.DoesInterrupt, cpu->SendInterrupt, and pit.IACK if the CPU accepts.
PollPit ==
  /\ phase = "pit"
  /\ phase' = "slots"
  /\ interrupted' = PitDoesInterrupt
  /\ IF PitDoesInterrupt THEN CpuOffer(TmrMsg[Reported]) ELSE UNCHANGED cpu
  /\ IF PitDoesInterrupt /\ Accepts(cpu) THEN PitServed ELSE UNCHANGED pitVars
  /\ UNCHANGED <<is_on, devVars, stepping, left, slot>>

\* Mutant: every device forgets its request when it is read.
AfterPoll_Forgets(s, p) == FALSE

\* What the device in slot s still asks for after DoesInterrupt: a floppy drive
\* forgets its request when it is read, accepted or not.
AfterPoll(s, p) == p /\ s \in Level

\* A turn of the loop over the slots when an earlier request was found: the
\* device is ticked, which makes a floppy drive raise a request, but not polled.
VisitSlot(p) ==
  /\ phase = "slots" /\ slot < NSlots /\ interrupted
  /\ p => pending[slot] \/ slot \notin Level
  /\ pending[slot] => p
  /\ pending' = [pending EXCEPT ![slot] = p]
  /\ slot' = slot + 1
  /\ UNCHANGED <<cpu, pitVars, is_on, armed, phase, stepping, left, interrupted>>

\* A turn in which the device is polled too, and acknowledged if it asks and the
\* CPU accepts.
PollSlot(p) ==
  /\ phase = "slots" /\ slot < NSlots /\ ~interrupted
  /\ p => pending[slot] \/ slot \notin Level
  /\ pending[slot] => p
  /\ interrupted' = (p /\ armed[slot])
  /\ IF p /\ armed[slot] THEN CpuOffer(DevMsg[slot]) ELSE UNCHANGED cpu
  /\ pending' = [pending EXCEPT ![slot] =
       ~(p /\ armed[slot] /\ Accepts(cpu)) /\ AfterPoll(slot, p)]
  /\ slot' = slot + 1
  /\ UNCHANGED <<pitVars, is_on, armed, phase, stepping, left>>

\* The end of the loop; Step passes a trap of the CPU back to it, Tick does not.
Return ==
  /\ phase = "slots" /\ slot = NSlots
  /\ IF stepping /\ ~interrupted /\ DoesTrap(cpu)
       THEN CpuOffer(TrapMsg)
       ELSE UNCHANGED cpu
  /\ phase' = "idle" /\ stepping' = FALSE
  /\ left' = 0 /\ slot' = 0 /\ interrupted' = FALSE
  /\ UNCHANGED <<pitVars, is_on, devVars>>

Host ==
  \/ On \/ TurnOff \/ Reset \/ CallStep
  \/ \E k \in 0 .. MaxCycles : CallTick(k)
  \/ \E s \in Slot : HostRaise(s)

Call ==
  \/ \E ins \in Program, w \in Cost : RunCpu(ins, w)
  \/ \E w \in Cost : Store(w)
  \/ \E S \in SUBSET Chan : TickPit(S)
  \/ PollPit \/ Return
  \/ \E p \in BOOLEAN : VisitSlot(p) \/ PollSlot(p)

Next == Host \/ Call

Spec == Init /\ [][Next]_vars

\* A call that began returns; the host keeps calling Tick with enough time for a
\* CPU cycle; a timer that counts underflows again and again (KeepsFiring of
\* module Timer); and the program returns from its handlers and is not an
\* endless chain of skipped IFxx.
Fairness ==
  /\ WF_vars(Call)
  /\ SF_vars(\E k \in 1 .. MaxCycles : CallTick(k))
  /\ \A c \in Chan : SF_vars(\E S \in SUBSET Chan : c \in S /\ TickPit(S))
  /\ SF_vars(\E w \in Cost : Executing /\ RunCpu([op |-> "rfi"], w))
  /\ SF_vars(\E w \in Cost : Fetching /\ RunCpu(Plain, w))

FairSpec == Spec /\ Fairness

-----------------------------------------------------------------------------
(* Properties                                                              *)

\* The CPU took message m in this step.
Took(m) == Accepts(cpu) /\ cpu'.interrupt /\ cpu'.int_msg = m

\* A device that asks until it is acknowledged, and a timer channel, stop asking
\* only when the CPU took their own message, or the computer is reset: no order
\* of polls, refusals and register writes drops a request of theirs.
RequestHeld ==
  [][/\ \A s \in Level :
          armed[s] /\ pending[s] /\ ~pending'[s] => Took(DevMsg[s]) \/ On \/ Reset
     /\ \A c \in Chan :
          Asserts(c) /\ ~do_int'[c]
            => Took(TmrMsg[c]) \/ On \/ Reset]_vars

\* The request of the device in slot s is passed to the CPU in this step.
Taken(s) ==
  /\ phase = "slots" /\ slot = s /\ slot' = s + 1
  /\ ~interrupted /\ interrupted' /\ Accepts(cpu)

\* The CPU never takes the message of a device while the timer, or a device in a
\* lower slot, is still asking (vcomputer.cpp: "highest priority interrupt").
PriorityKept ==
  [][\A s \in Slot : Taken(s) =>
       /\ ~PitDoesInterrupt
       /\ \A t \in Level : t < s => ~(armed[t] /\ pending[t])]_vars

\* A CPU that sleeps with interrupts enabled and a timer running does not sleep
\* forever (asm/tr3200/clock.asm: "only when we wake up").
SleepEnds ==
  (cpu.sleeping /\ is_on /\ Accepts(cpu) /\ \E c \in Chan : en[c] /\ ie[c])
    ~> (~cpu.sleeping \/ ~is_on)

\* A message the CPU accepted is looked up in the vector table, unless the program
\* disables interrupts or the host turns the computer off.
AcceptedIsProcessed ==
  (cpu.interrupt /\ is_on) ~> (~cpu.interrupt \/ ~cpu.ei \/ ~is_on)

\* "Informs to the device that his interrupt has been accepted by the CPU"
\* (vcomputer.cpp:343-346): what the CPU accepted, and the device was told is
\* accepted, is not replaced by the message of another device.
AcceptedIsKept ==
  [][cpu.interrupt /\ cpu'.interrupt => cpu'.int_msg = cpu.int_msg]_vars
=============================================================================
