--------------------------- MODULE VComputer_proofs ---------------------------
(***************************************************************************)
(* Theorems about the TR3200, for every set of messages, every vector      *)
(* table, every program and every cycle table; and about the computer      *)
(* around it, for any number of devices and either number of timers.       *)
(***************************************************************************)
EXTENDS VComputer, TLAPS

-----------------------------------------------------------------------------
(* The CPU in any computer                                                 *)

\* The inductive invariant.  The two safety properties need each other: a handler
\* is entered only from outside one because a message never waits in a handler.
IInv == CpuTypeOK /\ OneFrame /\ RfiDropsNothing

Inside(c) == c \in Cpu /\ c.frames = (IF c.iflag THEN 1 ELSE 0)
                       /\ (c.iflag => ~c.interrupt)

\* Which cycle counts and messages there are is all the record's type needs.
LEMMA ResetInside == Inside(ResetCpu)
<1>1. AnyMsg \in Msg
  BY CpuAssumption DEF AnyMsg
<1> QED
  BY <1>1, CpuAssumption DEF Inside, ResetCpu, Cpu

LEMMA SendInside ==
  ASSUME NEW c, Inside(c), NEW m \in Msg
  PROVE  /\ Inside(SendInterrupt(c, m))
         /\ SendInterrupt(c, m).wait_cycles = c.wait_cycles
         /\ SendInterrupt(c, m).sleeping = c.sleeping
BY DEF Inside, SendInterrupt, Accepts, Cpu

LEMMA ProcessInside ==
  ASSUME NEW c, Inside(c)
  PROVE  /\ Inside(ProcessInterrupt(c))
         /\ ProcessInterrupt(c).wait_cycles = c.wait_cycles
<1>1. CASE ~(c.ei /\ c.interrupt)
  BY <1>1 DEF ProcessInterrupt
<1>2. CASE c.ei /\ c.interrupt /\ c.int_msg \in NullVector
  BY <1>2 DEF ProcessInterrupt, Inside, Cpu
<1>3. CASE c.ei /\ c.interrupt /\ c.int_msg \notin NullVector
  <2> DEFINE e == [c EXCEPT !.interrupt = FALSE, !.iflag = TRUE,
                            !.sleeping = FALSE, !.frames = 1]
  <2>1. c \in Cpu /\ c.frames = 0
    BY <1>3 DEF Inside
  <2>2. ProcessInterrupt(c) = e
    BY <1>3, <2>1 DEF ProcessInterrupt, EnterHandler
  <2>3. e \in Cpu
    BY <2>1 DEF Cpu
  <2>4. e.frames = 1 /\ e.iflag /\ ~e.interrupt /\ e.wait_cycles = c.wait_cycles
    BY <2>1 DEF Cpu
  <2> QED
    BY <2>2, <2>3, <2>4 DEF Inside
<1> QED
  BY <1>1, <1>2, <1>3

LEMMA ExecuteInside ==
  ASSUME NEW c, Inside(c), NEW ins \in Instr, Legal(c, ins)
  PROVE  /\ Inside(Execute(c, ins))
         /\ Execute(c, ins).wait_cycles = c.wait_cycles
<1>1. CASE ins.op = "sleep"
  BY <1>1 DEF Inside, Execute, Cpu
<1>2. CASE ins.op = "rfi"
  <2> DEFINE e == [c EXCEPT !.iflag = FALSE, !.interrupt = FALSE, !.frames = 0]
  <2>1. c \in Cpu /\ c.frames = 1
    BY <1>2 DEF Inside, Legal
  <2>2. Execute(c, ins) = e
    BY <1>2, <2>1 DEF Execute
  <2>3. e \in Cpu
    BY <2>1 DEF Cpu
  <2>4. e.frames = 0 /\ ~e.iflag /\ ~e.interrupt /\ e.wait_cycles = c.wait_cycles
    BY <2>1 DEF Cpu
  <2> QED
    BY <2>2, <2>3, <2>4 DEF Inside
<1>3. CASE ins.op = "int"
  <2>1. ins.msg \in Msg
    BY <1>3 DEF Instr, Branch
  <2>2. Execute(c, ins) = SendInterrupt(c, ins.msg)
    BY <1>3 DEF Execute
  <2> QED
    BY <2>1, <2>2, SendInside
<1>4. CASE ins.op = "flags"
  <2>1. ins.ei \in BOOLEAN /\ ins.ess \in BOOLEAN
    BY <1>4 DEF Instr, Branch
  <2>2. Execute(c, ins) = [c EXCEPT !.ei = ins.ei, !.ess = ins.ess]
    BY <1>4 DEF Execute
  <2> QED
    BY <2>1, <2>2 DEF Inside, Cpu
<1>5. CASE ins.op = "if_fail"
  BY <1>5 DEF Inside, Execute, Cpu
<1>6. CASE ins.op \notin {"sleep", "rfi", "int", "flags", "if_fail"}
  BY <1>6 DEF Execute
<1> QED
  BY <1>1, <1>2, <1>3, <1>4, <1>5, <1>6

LEMMA RealStepInside ==
  ASSUME NEW c, Inside(c), NEW ins \in Instr, NEW w \in Cost, Legal(c, ins)
  PROVE  /\ Inside(RealStep(c, ins, w))
         /\ RealStep(c, ins, w).wait_cycles \in Cost
<1>1. CASE c.skiping
  <2>1. RealStep(c, ins, w) = Skip(c, ins)
    BY <1>1 DEF RealStep
  <2> DEFINE b == ins.op \in Branch
             e == [c EXCEPT !.wait_cycles = 1, !.skiping = b]
  <2>2. b \in BOOLEAN
    OBVIOUS
  <2>3. RealStep(c, ins, w) = e
    BY <2>1 DEF Skip
  <2>4. 1 \in 0 .. MaxCost
    BY CpuAssumption
  <2> HIDE DEF b
  <2>5. e \in Cpu
    BY <2>2, <2>4 DEF Inside, Cpu
  <2>6. /\ e.frames = c.frames /\ e.iflag = c.iflag /\ e.interrupt = c.interrupt
        /\ e.wait_cycles = 1
    BY DEF Inside, Cpu
  <2> QED
    BY <2>3, <2>5, <2>6, CpuAssumption DEF Inside, Cost
<1>2. CASE ~c.skiping
  <2> DEFINE d == [c EXCEPT !.wait_cycles = w]
             e == Execute(d, ins)
             f == SetStepMode(e)
  <2>1. Inside(d) /\ d.wait_cycles = w /\ Legal(d, ins)
    BY CpuAssumption DEF Inside, Cpu, Cost, Legal
  <2>2. Inside(e) /\ e.wait_cycles = w
    BY <2>1, ExecuteInside
  <2>3. Inside(f) /\ f.wait_cycles = w
    BY <2>2 DEF SetStepMode, Inside, Cpu
  <2>4. RealStep(c, ins, w) = ProcessInterrupt(f)
    BY <1>2 DEF RealStep
  <2> HIDE DEF f
  <2> QED
    BY <2>3, <2>4, ProcessInside
<1> QED
  BY <1>1, <1>2

LEMMA StepInside ==
  ASSUME NEW c, Inside(c), NEW ins \in Instr, NEW w \in Cost, Legal(c, ins)
  PROVE  Inside(StepOnce(c, ins, w))
BY RealStepInside, ProcessInside DEF StepOnce

LEMMA CycleInside ==
  ASSUME NEW c, Inside(c), NEW ins \in Instr, NEW w \in Cost, Legal(c, ins)
  PROVE  Inside(Cycle(c, ins, w))
<1>1. CASE c.sleeping
  BY <1>1, ProcessInside DEF Cycle
<1>2. CASE ~c.sleeping
  <2> DEFINE d == IF c.wait_cycles = 0 THEN RealStep(c, ins, w) ELSE c
  <2>1. Inside(d) /\ d.wait_cycles \in Cost
    <3>1. CASE c.wait_cycles = 0
      BY <3>1, RealStepInside
    <3>2. CASE c.wait_cycles # 0
      BY <3>2, CpuAssumption DEF Inside, Cpu, Cost
    <3> QED
      BY <3>1, <3>2
  <2>2. Cycle(c, ins, w) = [d EXCEPT !.wait_cycles = @ - 1]
    BY <1>2 DEF Cycle
  <2> HIDE DEF d
  <2>3. d.wait_cycles - 1 \in 0 .. MaxCost
    BY <2>1, CpuAssumption DEF Cost
  <2> QED
    BY <2>1, <2>2, <2>3 DEF Inside, Cpu
<1> QED
  BY <1>1, <1>2

\* The CPU has nothing left to process.
Settled(c) == ~(c.ei /\ c.interrupt)

LEMMA ProcessSettles ==
  ASSUME NEW c, Inside(c)
  PROVE  Settled(ProcessInterrupt(c))
BY DEF Inside, Settled, ProcessInterrupt, EnterHandler, Cpu

LEMMA RealStepSettles ==
  ASSUME NEW c, Inside(c), NEW ins \in Instr, NEW w \in Cost, Legal(c, ins),
         ~c.sleeping, RealStep(c, ins, w).sleeping
  PROVE  Settled(RealStep(c, ins, w))
<1>1. CASE c.skiping
  <2>1. RealStep(c, ins, w).sleeping = c.sleeping
    BY <1>1 DEF RealStep, Skip, Inside, Cpu
  <2> QED
    BY <2>1
<1>2. CASE ~c.skiping
  <2> DEFINE d == [c EXCEPT !.wait_cycles = w]
             f == SetStepMode(Execute(d, ins))
  <2>1. Inside(d) /\ Legal(d, ins)
    BY CpuAssumption DEF Inside, Cpu, Cost, Legal
  <2>2. Inside(f)
    BY <2>1, ExecuteInside DEF SetStepMode, Inside, Cpu
  <2>3. RealStep(c, ins, w) = ProcessInterrupt(f)
    BY <1>2 DEF RealStep
  <2> HIDE DEF f
  <2> QED
    BY <2>2, <2>3, ProcessSettles
<1> QED
  BY <1>1, <1>2

LEMMA CycleSettles ==
  ASSUME NEW c, Inside(c), NEW ins \in Instr, NEW w \in Cost, Legal(c, ins),
         ~c.sleeping, Cycle(c, ins, w).sleeping
  PROVE  Settled(Cycle(c, ins, w))
<1> DEFINE d == IF c.wait_cycles = 0 THEN RealStep(c, ins, w) ELSE c
<1>1. d \in Cpu
  BY RealStepInside DEF Inside
<1>2. Cycle(c, ins, w) = [d EXCEPT !.wait_cycles = @ - 1]
  BY DEF Cycle
<1>3. d.sleeping => Settled(d)
  BY RealStepSettles
<1> HIDE DEF d
<1> QED
  BY <1>1, <1>2, <1>3 DEF Settled, Cpu

-----------------------------------------------------------------------------
\* Every step of a CPU preserves the invariant.
LEMMA CpuInductive == IInv /\ [CpuNext]_cpu => IInv'
<1> SUFFICES ASSUME IInv, [CpuNext]_cpu
             PROVE  Inside(cpu')
  BY DEF Inside, IInv, CpuTypeOK, OneFrame, RfiDropsNothing
<1>0. Inside(cpu)
  BY DEF Inside, IInv, CpuTypeOK, OneFrame, RfiDropsNothing
<1>1. CASE CpuReset
  BY <1>1, ResetInside DEF CpuReset
<1>2. ASSUME NEW m \in Msg, CpuOffer(m)
      PROVE  Inside(cpu')
  BY <1>0, <1>2, SendInside DEF CpuOffer
<1>3. ASSUME NEW ins \in Program, NEW w \in Cost, CpuTick(ins, w)
      PROVE  Inside(cpu')
  BY <1>0, <1>3, CycleInside, CpuAssumption DEF CpuTick
<1>4. ASSUME NEW ins \in Program, NEW w \in Cost, CpuStep(ins, w)
      PROVE  Inside(cpu')
  BY <1>0, <1>4, StepInside, CpuAssumption DEF CpuStep
<1>5. CASE UNCHANGED cpu
  BY <1>0, <1>5
<1> QED
  BY <1>1, <1>2, <1>3, <1>4, <1>5 DEF CpuNext

\* Interrupt masking is sound in every run: at most one interrupt frame is on the
\* stack, exactly while IF is set, and no accepted message waits inside a handler
\* (SendInterrupt, ProcessInterrupt and RFI of tr3200.cpp together).
THEOREM CpuInvariant == CpuSpec => []IInv
<1>1. CpuInit => IInv
  BY ResetInside
     DEF CpuInit, Inside, IInv, CpuTypeOK, OneFrame, RfiDropsNothing
<1> QED
  BY <1>1, CpuInductive, PTL DEF CpuSpec

\* A CPU never has more than the one frame that its IF flag stands for.
THEOREM FramesAreMasked == CpuSpec => []OneFrame
<1>1. IInv => OneFrame
  BY DEF IInv
<1> QED
  BY <1>1, CpuInvariant, PTL

\* RFI clears "interrupt", and there is never anything in it to lose.
THEOREM NothingDropped == CpuSpec => []RfiDropsNothing
<1>1. IInv => RfiDropsNothing
  BY DEF IInv
<1> QED
  BY <1>1, CpuInvariant, PTL

\* The CPU checks for a message after the SLEEP instruction has set "sleeping",
\* so it never falls asleep on a message it accepted before.
THEOREM NoLostWakeUp == CpuSpec => SleepSeesPending
<1>1. IInv /\ [CpuNext]_cpu
        => [~cpu.sleeping /\ cpu'.sleeping => ~(cpu'.ei /\ cpu'.interrupt)]_cpu
  <2> SUFFICES ASSUME IInv, CpuNext, ~cpu.sleeping, cpu'.sleeping
               PROVE  Settled(cpu')
    BY DEF Settled
  <2>0. Inside(cpu)
    BY DEF Inside, IInv, CpuTypeOK, OneFrame, RfiDropsNothing
  <2>1. ~CpuReset
    BY DEF CpuReset, ResetCpu
  <2>2. ASSUME NEW m \in Msg, CpuOffer(m)
        PROVE  FALSE
    BY <2>0, <2>2, SendInside DEF CpuOffer
  <2>3. ASSUME NEW ins \in Program, NEW w \in Cost, CpuTick(ins, w)
        PROVE  Settled(cpu')
    BY <2>0, <2>3, CycleSettles, CpuAssumption DEF CpuTick
  <2>4. ASSUME NEW ins \in Program, NEW w \in Cost, CpuStep(ins, w)
        PROVE  Settled(cpu')
    BY <2>0, <2>4, RealStepSettles, CpuAssumption DEF CpuStep, StepOnce
  <2> QED
    BY <2>1, <2>2, <2>3, <2>4 DEF CpuNext
<1> QED
  BY <1>1, CpuInvariant, PTL DEF CpuSpec, SleepSeesPending

-----------------------------------------------------------------------------
(* The computer                                                            *)

\* What TypeOK says of everything but the CPU.
RestTypeOK ==
  /\ PitTypeOK
  /\ is_on \in BOOLEAN
  /\ armed \in [Slot -> BOOLEAN]
  /\ pending \in [Slot -> BOOLEAN]
  /\ phase \in {"idle", "cpu", "pit", "slots"}
  /\ stepping \in BOOLEAN
  /\ left \in 0 .. MaxCycles + 1
  /\ slot \in 0 .. NSlots
  /\ interrupted \in BOOLEAN

\* Every step of the timer's line keeps its type.
LEMMA PitTyped ==
  /\ PitReset => PitTypeOK'
  /\ PitTypeOK => \A S \in SUBSET Chan : PitTick(S) => PitTypeOK'
  /\ PitTypeOK /\ PitServed => PitTypeOK'
  /\ PitTypeOK =>
       \A e, i \in [Chan -> BOOLEAN] : PitWriteCfg(e, i) => PitTypeOK'
<1>1. PitReset => PitTypeOK'
  BY DEF PitReset, PitTypeOK, PitOff
<1>2. ASSUME PitTypeOK, NEW S \in SUBSET Chan, PitTick(S) PROVE PitTypeOK'
  BY <1>2 DEF PitTick, PitTypeOK
<1>3. ASSUME PitTypeOK, PitServed PROVE PitTypeOK'
  <2>1. \A c \in Chan : (do_int[c] /\ c # Acked) \in BOOLEAN
    OBVIOUS
  <2> QED
    BY <1>3, <2>1 DEF PitServed, PitTypeOK
<1>4. ASSUME PitTypeOK, NEW e \in [Chan -> BOOLEAN], NEW i \in [Chan -> BOOLEAN],
             PitWriteCfg(e, i)
      PROVE  PitTypeOK'
  BY <1>4 DEF PitWriteCfg, PitTypeOK
<1> QED
  BY <1>1, <1>2, <1>3, <1>4

\* Only the CPU's type depends on what its steps compute.
LEMMA RestInit == Init => RestTypeOK
<1> SUFFICES ASSUME Init PROVE RestTypeOK
  OBVIOUS
<1>1. PitTypeOK
  BY DEF Init, PitInit, PitTypeOK, PitOff
<1>2. None \in [Slot -> BOOLEAN]
  BY DEF None
<1>3. 0 \in 0 .. MaxCycles + 1 /\ 0 \in 0 .. NSlots
  BY ComputerAssumption
<1> QED
  BY <1>1, <1>2, <1>3 DEF Init, RestTypeOK

LEMMA RestInductive == RestTypeOK /\ [Next]_vars => RestTypeOK'
<1> SUFFICES ASSUME RestTypeOK, [Next]_vars
             PROVE  RestTypeOK'
  OBVIOUS
<1> USE ComputerAssumption
<1>1. ASSUME On \/ Reset PROVE RestTypeOK'
  BY <1>1, PitTyped DEF RestTypeOK, On, Reset, ResetAll, None, callVars
<1>2. CASE TurnOff
  BY <1>2 DEF RestTypeOK, TurnOff, pitVars, PitTypeOK, devVars, callVars
<1>3. CASE CallStep
  <2>1. 1 \in 0 .. MaxCycles + 1
    OBVIOUS
  <2> QED
    BY <1>3, <2>1 DEF RestTypeOK, CallStep, pitVars, PitTypeOK, devVars
<1>4. ASSUME NEW k \in 0 .. MaxCycles, CallTick(k) PROVE RestTypeOK'
  <2>1. k \in 0 .. MaxCycles + 1
    OBVIOUS
  <2> QED
    BY <1>4, <2>1 DEF RestTypeOK, CallTick, pitVars, PitTypeOK, devVars
<1>5. ASSUME NEW s \in Slot, HostRaise(s) PROVE RestTypeOK'
  BY <1>5 DEF RestTypeOK, HostRaise, pitVars, PitTypeOK, callVars
<1>6. ASSUME NEW ins \in Program, NEW w \in Cost, RunCpu(ins, w) PROVE RestTypeOK'
  BY <1>6 DEF RestTypeOK, RunCpu, RunOne, pitVars, PitTypeOK, devVars
<1>7. ASSUME NEW w \in Cost, Store(w) PROVE RestTypeOK'
  <2>1. /\ left' \in 0 .. MaxCycles + 1
        /\ UNCHANGED <<phase, stepping, slot, interrupted, is_on>>
    BY <1>7 DEF Store, RunOne, RestTypeOK
  <2>2. PitTypeOK'
    BY <1>7, PitTyped DEF Store, RestTypeOK, pitVars, PitTypeOK
  <2>3. armed' \in [Slot -> BOOLEAN] /\ pending' \in [Slot -> BOOLEAN]
    BY <1>7 DEF Store, RestTypeOK, devVars
  <2> QED
    BY <2>1, <2>2, <2>3 DEF RestTypeOK
<1>8. ASSUME NEW S \in SUBSET Chan, TickPit(S) PROVE RestTypeOK'
  BY <1>8, PitTyped DEF RestTypeOK, TickPit, devVars
<1>9. CASE PollPit
  <2>1. PitTypeOK'
    BY <1>9, PitTyped DEF PollPit, RestTypeOK, pitVars, PitTypeOK
  <2>2. PitDoesInterrupt \in BOOLEAN
    BY DEF PitDoesInterrupt
  <2> QED
    BY <1>9, <2>1, <2>2 DEF PollPit, RestTypeOK, devVars
<1>10. CASE Return
  <2>1. 0 \in 0 .. MaxCycles + 1 /\ 0 \in 0 .. NSlots
    OBVIOUS
  <2> QED
    BY <1>10, <2>1 DEF Return, RestTypeOK, pitVars, PitTypeOK, devVars
<1>11. ASSUME NEW p \in BOOLEAN, VisitSlot(p) PROVE RestTypeOK'
  <2>1. slot + 1 \in 0 .. NSlots
    BY <1>11 DEF VisitSlot, RestTypeOK
  <2> QED
    BY <1>11, <2>1 DEF VisitSlot, RestTypeOK, pitVars, PitTypeOK
<1>12. ASSUME NEW p \in BOOLEAN, PollSlot(p) PROVE RestTypeOK'
  <2>1. slot \in Slot /\ slot + 1 \in 0 .. NSlots
    BY <1>12 DEF PollSlot, RestTypeOK, Slot
  <2>2. pending' \in [Slot -> BOOLEAN] /\ interrupted' \in BOOLEAN
    BY <1>12, <2>1 DEF PollSlot, RestTypeOK, AfterPoll
  <2> QED
    BY <1>12, <2>1, <2>2 DEF PollSlot, RestTypeOK, pitVars, PitTypeOK
<1>13. CASE UNCHANGED vars
  BY <1>13 DEF vars, pitVars, devVars, callVars, RestTypeOK, PitTypeOK
<1> QED
  BY <1>1, <1>2, <1>3, <1>4, <1>5, <1>6, <1>7, <1>8, <1>9, <1>10, <1>11, <1>12,
     <1>13 DEF Next, Host, Call

-----------------------------------------------------------------------------
\* A message the timer or a device reports is one the CPU knows.
LEMMA ReportedTyped == PitDoesInterrupt => Reported \in Chan
BY ChanAssumption DEF PitDoesInterrupt, Reported

\* Every step of the computer is a step of its CPU, or leaves it alone.
LEMMA StepsCpu == RestTypeOK /\ [Next]_vars => [CpuNext]_cpu
<1> SUFFICES ASSUME RestTypeOK, Next
             PROVE  [CpuNext]_cpu
  BY DEF vars
<1> USE ComputerAssumption
<1>1. ASSUME On \/ Reset PROVE [CpuNext]_cpu
  BY <1>1 DEF On, Reset, ResetAll, CpuNext
<1>2. CASE \/ TurnOff \/ CallStep \/ \E k \in 0 .. MaxCycles : CallTick(k)
           \/ \E s \in Slot : HostRaise(s)
  BY <1>2 DEF TurnOff, CallStep, CallTick, HostRaise
<1>3. ASSUME NEW ins \in Program, NEW w \in Cost, RunOne(ins, w)
      PROVE  [CpuNext]_cpu
  BY <1>3 DEF RunOne, CpuNext
<1>4. ASSUME NEW m \in Msg, CpuOffer(m) PROVE [CpuNext]_cpu
  BY <1>4 DEF CpuNext
<1>5. CASE PollPit
  <2>1. CASE PitDoesInterrupt
    <3>1. TmrMsg[Reported] \in Msg /\ CpuOffer(TmrMsg[Reported])
      BY <1>5, <2>1, ReportedTyped DEF PollPit
    <3> QED
      BY <1>4, <3>1
  <2>2. CASE ~PitDoesInterrupt
    BY <1>5, <2>2 DEF PollPit
  <2> QED
    BY <2>1, <2>2
<1>6. ASSUME NEW p \in BOOLEAN, PollSlot(p) PROVE [CpuNext]_cpu
  <2>1. slot \in Slot
    BY <1>6 DEF PollSlot, RestTypeOK, Slot
  <2> QED
    BY <1>4, <1>6, <2>1 DEF PollSlot
<1>7. CASE Return
  BY <1>4, <1>7 DEF Return
<1>8. ASSUME NEW ins \in Program, NEW w \in Cost, RunCpu(ins, w)
      PROVE  [CpuNext]_cpu
  BY <1>3, <1>8 DEF RunCpu
<1>9. ASSUME NEW w \in Cost, Store(w) PROVE [CpuNext]_cpu
  BY <1>3, <1>9 DEF Store
<1>10. ASSUME NEW S \in SUBSET Chan, TickPit(S) PROVE [CpuNext]_cpu
  BY <1>10 DEF TickPit
<1>11. ASSUME NEW p \in BOOLEAN, VisitSlot(p) PROVE [CpuNext]_cpu
  BY <1>11 DEF VisitSlot
<1>12. CASE Host
  BY <1>1, <1>2, <1>12 DEF Host
<1>13. CASE Call
  BY <1>5, <1>6, <1>7, <1>8, <1>9, <1>10, <1>11, <1>13 DEF Call
<1> QED
  BY <1>12, <1>13 DEF Next

\* The computer implements the specification of a CPU in any computer: no order
\* of polls, host calls and instructions makes it do to the CPU what CpuNext does
\* not allow.
THEOREM ComputerImplementsCpu == Spec => CpuSpec
<1>1. Init => CpuInit
  BY DEF Init
<1> QED
  BY <1>1, RestInit, RestInductive, StepsCpu, PTL DEF Spec, CpuSpec

\* ... so what is proved of the CPU holds in the computer: its variables keep
\* their types,
THEOREM TypeCorrect == Spec => []TypeOK
<1>1. RestTypeOK /\ IInv => TypeOK
  BY DEF RestTypeOK, IInv, TypeOK
<1> QED
  BY <1>1, RestInit, RestInductive, ComputerImplementsCpu, CpuInvariant, PTL
     DEF Spec

\* ... interrupts do not nest,
THEOREM InterruptsDoNotNest == Spec => []OneFrame
BY ComputerImplementsCpu, FramesAreMasked, PTL

\* ... a return from a handler drops no message,
THEOREM ReturnDropsNothing == Spec => []RfiDropsNothing
BY ComputerImplementsCpu, NothingDropped, PTL

\* ... and the CPU never falls asleep on an accepted message.
THEOREM ComputerLosesNoWakeUp == Spec => SleepSeesPending
BY ComputerImplementsCpu, NoLostWakeUp, PTL

-----------------------------------------------------------------------------
\* An offer to a CPU that accepts is taken.
LEMMA OfferTaken ==
  ASSUME cpu \in Cpu, NEW m \in Msg, CpuOffer(m), Accepts(cpu)
  PROVE  Took(m)
BY DEF CpuOffer, SendInterrupt, Took, Cpu

\* DoesInterrupt looks at the configuration and IACK does not, but when a channel
\* in use asks, the one acknowledged is the one reported.
LEMMA AckedIsReported ==
  ASSUME NEW c \in Chan, Asserts(c), c = Acked, do_int \in [Chan -> BOOLEAN]
  PROVE  c = Reported
BY ChanAssumption DEF Asserts, Acked, Reported

DeviceHeld ==
  \A s \in Level :
    armed[s] /\ pending[s] /\ ~pending'[s] => Took(DevMsg[s]) \/ On \/ Reset

ChannelHeld ==
  \A c \in Chan :
    Asserts(c) /\ ~do_int'[c] => Took(TmrMsg[c]) \/ On \/ Reset

LEMMA DeviceHeldStep == RestTypeOK /\ CpuTypeOK /\ Next => DeviceHeld
<1> SUFFICES ASSUME RestTypeOK, CpuTypeOK, Next,
                    NEW s \in Level, armed[s], pending[s], ~pending'[s],
                    ~On, ~Reset
             PROVE  Took(DevMsg[s])
  BY DEF DeviceHeld
<1> USE ComputerAssumption
<1>0. s \in Slot /\ pending \in [Slot -> BOOLEAN]
  BY DEF RestTypeOK
<1>1. pending' # pending
  OBVIOUS
<1>2. ~(TurnOff \/ CallStep \/ PollPit \/ Return)
  BY <1>1 DEF TurnOff, CallStep, PollPit, Return, devVars
<1>3. ASSUME NEW k \in 0 .. MaxCycles, CallTick(k) PROVE FALSE
  BY <1>1, <1>3 DEF CallTick, devVars
<1>4. ASSUME NEW t \in Slot, HostRaise(t) PROVE FALSE
  BY <1>0, <1>4 DEF HostRaise
<1>5. ASSUME NEW ins \in Program, NEW w \in Cost, RunCpu(ins, w) PROVE FALSE
  BY <1>1, <1>5 DEF RunCpu, devVars
<1>6. ASSUME NEW w \in Cost, Store(w) PROVE FALSE
  BY <1>0, <1>6 DEF Store, devVars
<1>7. ASSUME NEW S \in SUBSET Chan, TickPit(S) PROVE FALSE
  BY <1>1, <1>7 DEF TickPit, devVars
<1>8. ASSUME NEW p \in BOOLEAN, VisitSlot(p) PROVE FALSE
  BY <1>0, <1>8 DEF VisitSlot
<1>9. ASSUME NEW p \in BOOLEAN, PollSlot(p) PROVE Took(DevMsg[s])
  <2>1. slot = s /\ p
    BY <1>0, <1>9 DEF PollSlot
  <2>2. Accepts(cpu)
    BY <1>0, <1>9, <2>1 DEF PollSlot, AfterPoll
  <2>3. CpuOffer(DevMsg[s]) /\ DevMsg[s] \in Msg
    BY <1>0, <1>9, <2>1 DEF PollSlot
  <2> QED
    BY <2>2, <2>3, OfferTaken DEF CpuTypeOK
<1>10. CASE Host
  BY <1>2, <1>3, <1>4, <1>10 DEF Host
<1>11. CASE Call
  BY <1>2, <1>5, <1>6, <1>7, <1>8, <1>9, <1>11 DEF Call
<1> QED
  BY <1>10, <1>11 DEF Next

LEMMA ChannelHeldStep == RestTypeOK /\ CpuTypeOK /\ Next => ChannelHeld
<1> SUFFICES ASSUME RestTypeOK, CpuTypeOK, Next,
                    NEW c \in Chan, Asserts(c), ~do_int'[c], ~On, ~Reset
             PROVE  Took(TmrMsg[c])
  BY DEF ChannelHeld
<1> USE ComputerAssumption
<1>0. do_int \in [Chan -> BOOLEAN] /\ ie[c] /\ do_int[c]
  BY DEF RestTypeOK, PitTypeOK, Asserts
<1>1. do_int' # do_int
  BY <1>0
<1>2. ~(TurnOff \/ CallStep \/ Return)
  BY <1>1 DEF TurnOff, CallStep, Return, pitVars
<1>3. ASSUME NEW k \in 0 .. MaxCycles, CallTick(k) PROVE FALSE
  BY <1>1, <1>3 DEF CallTick, pitVars
<1>4. ASSUME NEW t \in Slot, HostRaise(t) PROVE FALSE
  BY <1>1, <1>4 DEF HostRaise, pitVars
<1>5. ASSUME NEW ins \in Program, NEW w \in Cost, RunCpu(ins, w) PROVE FALSE
  BY <1>1, <1>5 DEF RunCpu, pitVars
<1>6. ASSUME NEW w \in Cost, Store(w) PROVE FALSE
  BY <1>1, <1>6 DEF Store, PitWriteCfg, pitVars
<1>7. ASSUME NEW S \in SUBSET Chan, TickPit(S) PROVE FALSE
  BY <1>0, <1>7 DEF TickPit, PitTick
<1>8. ASSUME NEW p \in BOOLEAN, VisitSlot(p) \/ PollSlot(p) PROVE FALSE
  BY <1>1, <1>8 DEF VisitSlot, PollSlot, pitVars
<1>9. CASE PollPit
  <2>1. PitDoesInterrupt /\ Accepts(cpu) /\ PitServed
    BY <1>1, <1>9 DEF PollPit, pitVars
  <2>2. c = Acked
    BY <1>0, <2>1 DEF PitServed
  <2>3. c = Reported
    BY <1>0, <2>2, AckedIsReported
  <2>4. CpuOffer(TmrMsg[c]) /\ TmrMsg[c] \in Msg
    BY <1>9, <2>1, <2>3 DEF PollPit
  <2> QED
    BY <2>1, <2>4, OfferTaken DEF CpuTypeOK
<1>10. CASE Host
  BY <1>2, <1>3, <1>4, <1>10 DEF Host
<1>11. CASE Call
  BY <1>2, <1>5, <1>6, <1>7, <1>8, <1>9, <1>11 DEF Call
<1> QED
  BY <1>10, <1>11 DEF Next

\* No request of a device that asks until it is acknowledged, nor of a timer, is
\* dropped: it goes when the CPU takes that very message, or with a reset.
THEOREM RequestsAreHeld == Spec => RequestHeld
<1>1. RestTypeOK /\ CpuTypeOK /\ [Next]_vars => [DeviceHeld /\ ChannelHeld]_vars
  BY DeviceHeldStep, ChannelHeldStep
<1>2. TypeOK => RestTypeOK /\ CpuTypeOK
  BY DEF TypeOK, RestTypeOK
<1> QED
  BY <1>1, <1>2, TypeCorrect, PTL
     DEF Spec, RequestHeld, DeviceHeld, ChannelHeld

-----------------------------------------------------------------------------
\* While the loop over the slots has found no request, nothing it has passed asks.
Polled ==
  /\ phase # "slots" => slot = 0
  /\ phase = "slots" /\ ~interrupted =>
       /\ ~PitDoesInterrupt
       /\ \A t \in Level : t < slot => ~(armed[t] /\ pending[t])

LEMMA PolledInductive == RestTypeOK /\ Polled /\ [Next]_vars => Polled'
<1> SUFFICES ASSUME RestTypeOK, Polled, [Next]_vars
             PROVE  Polled'
  OBVIOUS
<1> USE ComputerAssumption
<1>0. /\ Level \subseteq Slot
      /\ pending \in [Slot -> BOOLEAN] /\ slot \in Nat
  BY DEF RestTypeOK
<1>1. ASSUME phase # "slots", phase' # "slots", slot' = slot PROVE Polled'
  BY <1>1 DEF Polled
<1>2. CASE On \/ TurnOff \/ CallStep
  BY <1>1, <1>2 DEF On, TurnOff, CallStep, callVars
<1>3. ASSUME NEW k \in 0 .. MaxCycles, CallTick(k) PROVE Polled'
  BY <1>1, <1>3 DEF CallTick
<1>4. ASSUME NEW s \in Slot, HostRaise(s) PROVE Polled'
  BY <1>1, <1>4 DEF HostRaise, callVars
<1>5. ASSUME NEW ins \in Program, NEW w \in Cost, RunOne(ins, w) PROVE Polled'
  BY <1>1, <1>5 DEF RunOne
<1>6. CASE Reset
  BY <1>1, <1>6 DEF Reset, callVars
<1>7. ASSUME NEW S \in SUBSET Chan, TickPit(S) PROVE Polled'
  BY <1>1, <1>7 DEF TickPit
<1>8. CASE PollPit
  <2>1. phase' = "slots" /\ slot' = 0 /\ interrupted' = PitDoesInterrupt
    BY <1>8 DEF PollPit, Polled
  <2>2. ~interrupted' => ~PitDoesInterrupt'
    BY <1>8, <2>1 DEF PollPit, pitVars, PitDoesInterrupt, Asserts
  <2>3. \A t \in Level : ~(t < slot')
    BY <1>0, <2>1 DEF Slot
  <2> QED
    BY <2>1, <2>2, <2>3 DEF Polled
<1>9. CASE Return
  BY <1>9 DEF Return, Polled
<1>10. ASSUME NEW p \in BOOLEAN, VisitSlot(p) PROVE Polled'
  BY <1>10 DEF VisitSlot, Polled
<1>11. ASSUME NEW p \in BOOLEAN, PollSlot(p), ~interrupted' PROVE Polled'
  <2>1. /\ phase' = "slots" /\ slot' = slot + 1 /\ armed' = armed
        /\ ~PitDoesInterrupt'
    BY <1>11 DEF PollSlot, Polled, pitVars, PitDoesInterrupt, Asserts
  <2>2. ASSUME NEW t \in Level, t < slot' PROVE ~(armed'[t] /\ pending'[t])
    <3>1. t \in Slot /\ t <= slot
      BY <1>0, <2>1, <2>2 DEF Slot
    <3>2. CASE t = slot
      BY <1>0, <1>11, <2>1, <3>1, <3>2 DEF PollSlot, AfterPoll
    <3>3. CASE t < slot
      BY <1>0, <1>11, <2>1, <3>1, <3>3 DEF PollSlot, Polled
    <3> QED
      BY <1>0, <3>1, <3>2, <3>3 DEF Slot
  <2> QED
    BY <2>1, <2>2 DEF Polled
<1>12. ASSUME NEW p \in BOOLEAN, PollSlot(p), interrupted' PROVE Polled'
  BY <1>12 DEF PollSlot, Polled
<1>13. CASE Host
  BY <1>2, <1>3, <1>4, <1>6, <1>13 DEF Host
<1>14. CASE Call
  BY <1>5, <1>7, <1>8, <1>9, <1>10, <1>11, <1>12, <1>14 DEF Call, RunCpu, Store
<1>15. CASE UNCHANGED vars
  BY <1>15 DEF vars, devVars, callVars, pitVars, Polled, PitDoesInterrupt, Asserts
<1> QED
  BY <1>13, <1>14, <1>15 DEF Next

\* The CPU takes the message of a device only when the timer and every device in
\* a lower slot that would have asked again do not ask.
THEOREM PriorityIsKept == Spec => PriorityKept
<1>1. Init => Polled
  BY DEF Init, Polled
<1>2. Polled /\ [Next]_vars =>
        [\A s \in Slot : Taken(s) =>
           /\ ~PitDoesInterrupt
           /\ \A t \in Level : t < s => ~(armed[t] /\ pending[t])]_vars
  BY DEF Polled, Taken
<1> QED
  BY <1>1, <1>2, RestInit, RestInductive, PolledInductive, PTL
     DEF Spec, PriorityKept
=============================================================================
