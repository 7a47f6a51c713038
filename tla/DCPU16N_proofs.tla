--------------------------- MODULE DCPU16N_proofs ---------------------------
(***************************************************************************)
(* The DCPU-16N, for any program, messages, ring, cycle table and slicing: *)
(* a handler inherits nothing of the instruction it interrupts; every      *)
(* phase holds what its instruction is to hold there, so that running,     *)
(* skipping and showing an instruction agree on its words but in one form, *)
(* a result goes to the address of its operand but of two kinds, and Step  *)
(* returns; the ring is a queue until it is overrun or loses its place;    *)
(* and the slices of time do not matter.                                   *)
(***************************************************************************)
EXTENDS DCPU16N, TLAPS, WellFoundedInduction

Fields ==
  {"phase", "phasenext", "wait_cycles", "addradd", "addrdec", "bytemode", "skip",
   "fire", "qint", "ia", "iqp", "iqe", "iqc", "intq", "r0", "opcl", "words", "aca",
   "bca", "wrt", "stored"}

\* The phases an instruction that waits in EXECW may go on with.
Later == {"OPFETCH", "UBWRITE", "SLEEP", "EXECJMP", "EXECRFI", "MARKSKIP"}

Ops == TwoOp \cup OneOp \cup NoOp

\* The record of a CPU, as far as the argument needs its types.
Cpu(c) ==
  /\ c = [f \in Fields |-> c[f]]
  /\ c.iqc \in Nat /\ c.phasenext \in Later /\ c.opcl.op \in Ops

\* No address is under way.
Quiet(c) == Cpu(c) /\ ~c.addradd /\ ~c.addrdec

\* No address is under way, and no interrupt.
Settled(c) == Quiet(c) /\ c.phase \in Phase \ {"INTERRUPT"}

\* What a handler may rely on.
Clean(c) ==
  /\ ~c.skip /\ ~c.bytemode /\ ~c.addradd /\ ~c.addrdec
  /\ ~c.qint /\ c.iqc > 0 /\ c.ia

\* An address is under way only in the phases that fetch it, and an interrupt begins
\* only in a clean state.
CInv(c) ==
  /\ Cpu(c) /\ c.phase \in Phase
  /\ c.addradd => c.phase \in {"NWAFETCH", "NWBFETCH"}
  /\ c.addrdec => c.phase \in {"NWAFETCH", "NWBFETCH", "ACUFETCH", "BCUFETCH"}
  /\ c.phase = "INTERRUPT" => Clean(c)

-----------------------------------------------------------------------------
\* A settled CPU is as it should be.
LEMMA SettledHolds == ASSUME NEW c, Settled(c) PROVE CInv(c)
  BY DEF Settled, Quiet, CInv

\* Sending a message changes the queue and nothing else of these.
LEMMA SendKeeps ==
  ASSUME NEW c, Cpu(c), NEW m
  PROVE  /\ Cpu(SendInterrupt(c, m))
         /\ SendInterrupt(c, m).phase = c.phase
         /\ SendInterrupt(c, m).addradd = c.addradd
         /\ SendInterrupt(c, m).addrdec = c.addrdec
         /\ SendInterrupt(c, m).skip = c.skip
         /\ SendInterrupt(c, m).bytemode = c.bytemode
         /\ SendInterrupt(c, m).qint = c.qint /\ SendInterrupt(c, m).ia = c.ia
         /\ SendInterrupt(c, m).iqc >= c.iqc
<1> DEFINE d == [c EXCEPT !.iqc = @ + 1, !.intq[c.iqp] = m, !.iqp = Wrap(@)]
           e == [c EXCEPT !.fire = TRUE]
           same(x) == /\ x.phase = c.phase /\ x.phasenext = c.phasenext
                      /\ x.addradd = c.addradd /\ x.addrdec = c.addrdec
                      /\ x.skip = c.skip /\ x.bytemode = c.bytemode
                      /\ x.qint = c.qint /\ x.ia = c.ia /\ x.opcl = c.opcl
<1>1. d = [f \in Fields |-> d[f]] /\ e = [f \in Fields |-> e[f]]
  BY DEF Cpu, Fields
<1>2. same(d) /\ d.iqc = c.iqc + 1
  BY DEF Cpu, Fields
<1>3. same(e) /\ e.iqc = c.iqc
  BY DEF Cpu, Fields
<1>4. SendInterrupt(c, m) \in {c, d, e}
  BY DEF SendInterrupt
<1> HIDE DEF d, e
<1>5. /\ Cpu(d) /\ d.iqc >= c.iqc
      /\ Cpu(e) /\ e.iqc >= c.iqc /\ c.iqc >= c.iqc
  BY <1>1, <1>2, <1>3 DEF Cpu
<1> QED
  BY <1>2, <1>3, <1>4, <1>5

LEMMA SendHolds == ASSUME NEW c, CInv(c), NEW m PROVE CInv(SendInterrupt(c, m))
<1>1. Cpu(c) /\ c.iqc \in Nat /\ SendInterrupt(c, m).iqc \in Nat
  BY SendKeeps DEF CInv, Cpu
<1> QED
  BY <1>1, SendKeeps DEF CInv, Clean

-----------------------------------------------------------------------------
(* Executing                                                               *)

LEMMA WriteBackSettles == ASSUME NEW c, Settled(c) PROVE Settled(WriteBack(c))
<1> DEFINE d == [c EXCEPT !.phase = IF c.wrt = "none" THEN @ ELSE "OPFETCH",
                          !.bytemode = @ /\ c.wrt = "none"]
<1>1. Settled(d)
  BY DEF Settled, Quiet, Cpu, Fields, Phase
<1> HIDE DEF d
<1>2. Settled([d EXCEPT !.stored = c.bca])
  BY <1>1 DEF Settled, Quiet, Cpu, Fields
<1> QED
  BY <1>1, <1>2 DEF WriteBack, d

LEMMA DoTwoSettles ==
  ASSUME NEW c, Quiet(c), c.phase = "OPFETCH", NEW v
  PROVE  Quiet(DoTwo(c, v)) /\ DoTwo(c, v).phase \in Later
  BY DEF DoTwo, Quiet, Cpu, Fields, Later

LEMMA DoNoneSettles ==
  ASSUME NEW c, Quiet(c), c.phase = "OPFETCH", c.opcl.op \in NoOp
  PROVE  Quiet(DoNone(c)) /\ DoNone(c).phase \in Later
<1> DEFINE d == [c EXCEPT !.wrt = "none"]
           h == [d EXCEPT !.bytemode = FALSE, !.phase = "SLEEP"]
<1>1. Quiet(d) /\ d.phase \in Later
  BY DEF Quiet, Cpu, Fields, Later
<1> HIDE DEF d
<1>2. /\ Quiet(h) /\ h.phase \in Later
      /\ Quiet([d EXCEPT !.bytemode = ~@]) /\ [d EXCEPT !.bytemode = ~@].phase \in Later
      /\ Quiet([d EXCEPT !.phase = "MARKSKIP"])
      /\ [d EXCEPT !.phase = "MARKSKIP"].phase \in Later
  BY <1>1 DEF Quiet, Cpu, Fields, Later
<1> HIDE DEF h
<1>3. Quiet(SendInterrupt(h, HaltMsg)) /\ SendInterrupt(h, HaltMsg).phase \in Later
  BY <1>2, SendKeeps DEF Quiet
<1> QED
  BY <1>1, <1>2, <1>3 DEF DoNone, NoOp, d, h

LEMMA DoOneSettles ==
  ASSUME NEW c, Quiet(c), c.phase = "OPFETCH", NEW v
  PROVE  Quiet(DoOne(c, v)) /\ DoOne(c, v).phase \in Later
<1> DEFINE d == [c EXCEPT !.bca = c.aca,
                          !.wrt = IF c.opcl.op \in Unary THEN "a" ELSE "none"]
           next(p) == [d EXCEPT !.phase = p]
<1>1. Quiet(d) /\ d.phase \in Later
  BY DEF Quiet, Cpu, Fields, Later
<1> HIDE DEF d
<1>2. \A p \in Later : Quiet(next(p)) /\ next(p).phase \in Later
  BY <1>1 DEF Quiet, Cpu, Fields, Later
<1>3. /\ Quiet([d EXCEPT !.fire = TRUE]) /\ [d EXCEPT !.fire = TRUE].phase \in Later
      /\ Quiet([d EXCEPT !.ia = v]) /\ [d EXCEPT !.ia = v].phase \in Later
      /\ Quiet([d EXCEPT !.qint = v]) /\ [d EXCEPT !.qint = v].phase \in Later
  BY <1>1 DEF Quiet, Cpu, Fields, Later
<1>4. Quiet(SendInterrupt(d, v)) /\ SendInterrupt(d, v).phase \in Later
  BY <1>1, SendKeeps DEF Quiet
<1>5. {"UBWRITE", "EXECJMP", "EXECRFI"} \subseteq Later
  BY DEF Later
<1>6. DoOne(c, v) \in {next("UBWRITE"), next("EXECJMP"), next("EXECRFI"),
                       [d EXCEPT !.fire = TRUE], SendInterrupt(d, v),
                       [d EXCEPT !.ia = v], [d EXCEPT !.qint = v], d}
  BY DEF DoOne, d
<1> QED
  BY <1>1, <1>2, <1>3, <1>4, <1>5, <1>6

LEMMA ExecSettles ==
  ASSUME NEW c, Quiet(c), NEW v
  PROVE  Settled(Exec(c, v))
<1> DEFINE o == c.opcl.op
           x == [c EXCEPT !.phase = "OPFETCH"]
           d == IF o \in TwoOp THEN DoTwo(x, v)
                ELSE IF o \in OneOp THEN DoOne(x, v) ELSE DoNone(x)
<1>1. Quiet(x) /\ x.phase = "OPFETCH" /\ x.opcl = c.opcl
  BY DEF Quiet, Cpu, Fields
<1> HIDE DEF x
<1>2. Quiet(d) /\ d.phase \in Later
  BY <1>1, DoTwoSettles, DoOneSettles, DoNoneSettles DEF Quiet, Cpu, Ops
<1> HIDE DEF d
<1>3. Settled(WriteBack(d))
  <2>1. Settled(d)
    BY <1>2 DEF Settled, Later, Phase
  <2> QED
    BY <2>1, WriteBackSettles
<1>4. ASSUME NEW n
      PROVE  Settled([d EXCEPT !.phase = "EXECW", !.phasenext = d.phase,
                               !.wait_cycles = n])
  BY <1>2 DEF Settled, Quiet, Cpu, Fields, Phase
<1> QED
  BY <1>3, <1>4 DEF Exec, d, x

-----------------------------------------------------------------------------
(* Fetching                                                                *)

LEMMA FetchBSettles ==
  ASSUME NEW c, Cpu(c), ~c.addradd, NEW v
  PROVE  Settled(FetchB(c, v))
<1> DEFINE d == [c EXCEPT !.addrdec = FALSE, !.bca = IF c.addrdec THEN "b" ELSE @]
<1>1. Quiet(d)
  BY DEF Quiet, Cpu, Fields
<1> HIDE DEF d
<1> QED
  BY <1>1, ExecSettles DEF FetchB, d

LEMMA ReadBHolds ==
  ASSUME NEW c, Quiet(c), NEW v
  PROVE  CInv(ReadB(c, v)) /\ ReadB(c, v).phase # "INTERRUPT"
<1> DEFINE b1 == [c EXCEPT !.phase = "BCUFETCH", !.addrdec = TRUE]
           b2 == [c EXCEPT !.phase = "NWBFETCH", !.addrdec = TRUE, !.addradd = TRUE]
           b3 == [c EXCEPT !.phase = "NWBFETCH", !.addrdec = TRUE]
           b4 == [c EXCEPT !.phase = "NWBFETCH"]
           good(d) == CInv(d) /\ d.phase # "INTERRUPT"
<1>1. good(b1) /\ good(b2)
  BY DEF CInv, Quiet, Cpu, Fields, Phase
<1>2. good(b3) /\ good(b4)
  BY DEF CInv, Quiet, Cpu, Fields, Phase
<1>3. good(FetchB(c, v))
  BY FetchBSettles, SettledHolds DEF Quiet, Settled
<1>4. ReadB(c, v) \in {b1, b2, b3, b4, FetchB(c, v)}
  BY DEF ReadB
<1> HIDE DEF b1, b2, b3, b4
<1> QED
  BY <1>1, <1>2, <1>3, <1>4

LEMMA FetchAHolds ==
  ASSUME NEW c, Cpu(c), ~c.addradd, NEW v
  PROVE  CInv(FetchA(c, v)) /\ FetchA(c, v).phase # "INTERRUPT"
<1> DEFINE d == [c EXCEPT !.addrdec = FALSE, !.aca = IF c.addrdec THEN "a" ELSE @]
<1>1. Quiet(d)
  BY DEF Quiet, Cpu, Fields
<1> HIDE DEF d
<1> QED
  BY <1>1, ReadBHolds DEF FetchA, d

LEMMA ReadAHolds ==
  ASSUME NEW c, Quiet(c), NEW v
  PROVE  CInv(ReadA(c, v)) /\ ReadA(c, v).phase # "INTERRUPT"
<1> DEFINE a1 == [c EXCEPT !.phase = "ACUFETCH", !.addrdec = TRUE]
           a2 == [c EXCEPT !.phase = "NWAFETCH", !.addrdec = TRUE, !.addradd = TRUE]
           a3 == [c EXCEPT !.phase = "NWAFETCH", !.addrdec = TRUE]
           a4 == [c EXCEPT !.phase = "NWAFETCH"]
           good(d) == CInv(d) /\ d.phase # "INTERRUPT"
<1>1. good(a1) /\ good(a2)
  BY DEF CInv, Quiet, Cpu, Fields, Phase
<1>2. good(a3) /\ good(a4)
  BY DEF CInv, Quiet, Cpu, Fields, Phase
<1>3. good(FetchA(c, v))
  BY FetchAHolds DEF Quiet
<1>4. ReadA(c, v) \in {a1, a2, a3, a4, FetchA(c, v)}
  BY DEF ReadA
<1> HIDE DEF a1, a2, a3, a4
<1> QED
  BY <1>1, <1>2, <1>3, <1>4

LEMMA NextWordsHold ==
  ASSUME NEW c, CInv(c)
  PROVE  CInv(NextWordA(c)) /\ CInv(NextWordB(c))
<1>1. CInv(NextWordA(c))
  BY DEF NextWordA, CInv, Cpu, Fields, Phase
<1>2. CInv(NextWordB(c))
  BY DEF NextWordB, CInv, Cpu, Fields, Phase
<1> QED
  BY <1>1, <1>2

LEMMA ForgetKeeps ==
  ASSUME NEW c, Settled(c)
  PROVE  Settled(Forget(c)) /\ Forget(c).skip = c.skip
  BY DEF Forget, Settled, Quiet, Cpu, Fields

LEMMA FetchHolds ==
  ASSUME NEW c, Settled(c), NEW i, i.op \in Ops, NEW v
  PROVE  CInv(Fetch(c, i, v))
<1> DEFINE d == [c EXCEPT !.opcl = i, !.words = 0, !.aca = "old", !.bca = "old",
                          !.wrt = "none", !.stored = "none"]
<1>1. Quiet(d) /\ d.phase \in Phase
  BY DEF Settled, Quiet, Cpu, Fields
<1> HIDE DEF d
<1>2. CInv([d EXCEPT !.phase = "EXECSKIP"])
  BY <1>1 DEF CInv, Quiet, Cpu, Fields, Phase
<1> QED
  BY <1>1, <1>2, ReadAHolds DEF Fetch, d

\* An interrupt begins where a program would have its next instruction, when no skip
\* and no BYT is pending.
LEMMA OpFetchHolds ==
  ASSUME NEW c, CInv(c), c.phase = "OPFETCH", NEW i, i.op \in Ops, NEW v
  PROVE  CInv(OpFetch(c, i, v))
<1>1. Settled(c)
  BY DEF CInv, Settled, Quiet
<1>2. CASE ~Interruptible(c)
  BY <1>1, <1>2, FetchHolds DEF OpFetch
<1>3. CASE Interruptible(c) /\ ~c.ia
  BY <1>1, <1>3, ForgetKeeps, FetchHolds DEF OpFetch
<1>4. CASE Interruptible(c) /\ c.ia
  <2>1. OpFetch(c, i, v) = [c EXCEPT !.phase = "INTERRUPT"]
    BY <1>4 DEF OpFetch
  <2>2. ~c.skip /\ ~c.bytemode /\ ~c.qint /\ c.iqc > 0
    BY <1>4 DEF Interruptible, Asked
  <2> QED
    BY <2>1, <2>2, <1>1, <1>4 DEF CInv, Clean, Settled, Quiet, Cpu, Fields, Phase
<1> QED
  BY <1>2, <1>3, <1>4

\* ... or out of sleep, which clears both.
LEMMA SleepHolds ==
  ASSUME NEW c, CInv(c), c.phase = "SLEEP"
  PROVE  CInv(Sleep(c))
<1>1. Settled(c)
  BY DEF CInv, Settled, Quiet
<1>2. CASE ~Asked(c)
  BY <1>2 DEF Sleep
<1>3. CASE Asked(c) /\ ~c.ia
  BY <1>1, <1>3, ForgetKeeps, SettledHolds DEF Sleep
<1>4. CASE Asked(c) /\ c.ia
  <2>1. Sleep(c) = [c EXCEPT !.phase = "INTERRUPT", !.skip = FALSE, !.bytemode = FALSE]
    BY <1>4 DEF Sleep
  <2>2. ~c.qint /\ c.iqc > 0
    BY <1>4 DEF Asked
  <2> QED
    BY <2>1, <2>2, <1>1, <1>4 DEF CInv, Clean, Settled, Quiet, Cpu, Fields, Phase
<1> QED
  BY <1>2, <1>3, <1>4

-----------------------------------------------------------------------------
(* Steps                                                                   *)

LEMMA OthersHold ==
  ASSUME NEW c, CInv(c), NEW n
  PROVE  /\ c.phase = "EXECW" => CInv(ExecWait(c, n))
         /\ c.phase = "EXECSKIP" => CInv(ExecSkip(c))
         /\ c.phase = "EXECJMP" => CInv([c EXCEPT !.phase = "OPFETCH"])
         /\ c.phase = "EXECRFI" => CInv(ReturnFromHandler(c))
         /\ c.phase = "MARKSKIP" => CInv([c EXCEPT !.phase = "OPFETCH", !.skip = TRUE])
         /\ c.phase = "INTERRUPT" => CInv(EnterHandler(c))
<1>1. ASSUME c.phase = "EXECW" PROVE CInv(ExecWait(c, n))
  <2>1. CInv([c EXCEPT !.phase = c.phasenext, !.phasenext = "OPFETCH", !.wait_cycles = 0])
    BY <1>1 DEF CInv, Cpu, Fields, Phase, Later
  <2>2. CInv([c EXCEPT !.wait_cycles = @ - 1])
    BY <1>1 DEF CInv, Cpu, Fields
  <2> QED
    BY <2>1, <2>2 DEF ExecWait
<1>2. ASSUME c.phase = "EXECSKIP" PROVE CInv(ExecSkip(c))
  BY <1>2 DEF ExecSkip, CInv, Cpu, Fields, Phase
<1>3. ASSUME c.phase = "EXECJMP" PROVE CInv([c EXCEPT !.phase = "OPFETCH"])
  BY <1>3 DEF CInv, Cpu, Fields, Phase
<1>4. ASSUME c.phase = "EXECRFI" PROVE CInv(ReturnFromHandler(c))
  BY <1>4 DEF ReturnFromHandler, CInv, Cpu, Fields, Phase
<1>5. ASSUME c.phase = "MARKSKIP"
      PROVE  CInv([c EXCEPT !.phase = "OPFETCH", !.skip = TRUE])
  BY <1>5 DEF CInv, Cpu, Fields, Phase
<1>6. ASSUME c.phase = "INTERRUPT" PROVE CInv(EnterHandler(c))
  <2>1. c.iqc - 1 \in Nat
    BY <1>6 DEF CInv, Clean, Cpu
  <2> QED
    BY <2>1, <1>6 DEF EnterHandler, CInv, Clean, Cpu, Fields, Phase
<1> QED
  BY <1>1, <1>2, <1>3, <1>4, <1>5, <1>6

LEMMA RoundHolds ==
  ASSUME NEW c, CInv(c), NEW n, NEW i, i.op \in Ops, NEW v
  PROVE  CInv(Round(c, n, i, v))
<1>1. c.phase \in Phase
  BY DEF CInv
<1>2. CASE c.phase = "OPFETCH"
  BY <1>2, OpFetchHolds DEF Round
<1>3. CASE c.phase \in {"NWAFETCH", "NWBFETCH"}
  BY <1>3, NextWordsHold DEF Round
<1>4. CASE c.phase = "ACUFETCH"
  <2>1. Cpu(c) /\ ~c.addradd
    BY <1>4 DEF CInv
  <2> QED
    BY <2>1, <1>4, FetchAHolds DEF Round
<1>5. CASE c.phase = "UBREAD"
  <2>1. Quiet(c)
    BY <1>5 DEF CInv, Quiet
  <2> QED
    BY <2>1, <1>5, ReadBHolds DEF Round
<1>6. CASE c.phase = "BCUFETCH"
  <2>1. Cpu(c) /\ ~c.addradd
    BY <1>6 DEF CInv
  <2> QED
    BY <2>1, <1>6, FetchBSettles, SettledHolds DEF Round
<1>7. CASE c.phase = "EXEC"
  <2>1. Quiet(c)
    BY <1>7 DEF CInv, Quiet
  <2> QED
    BY <2>1, <1>7, ExecSettles, SettledHolds DEF Round
<1>8. CASE c.phase = "UBWRITE"
  <2>1. Settled(c)
    BY <1>8 DEF CInv, Quiet, Settled
  <2> QED
    BY <2>1, <1>8, WriteBackSettles, SettledHolds DEF Round
<1>9. CASE c.phase = "SLEEP"
  BY <1>9, SleepHolds DEF Round
<1>10. CASE c.phase \in {"EXECW", "EXECSKIP", "EXECJMP", "EXECRFI", "MARKSKIP",
                         "INTERRUPT"}
  BY <1>10, OthersHold DEF Round
<1> QED
  BY <1>1, <1>2, <1>3, <1>4, <1>5, <1>6, <1>7, <1>8, <1>9, <1>10 DEF Phase

LEMMA ResetHolds == ASSUME NEW c PROVE CInv(ResetState(c))
  BY DEF ResetState, CInv, Cpu, Fields, Phase, Later, Nothing, Ops, NoOp

LEMMA StepHolds == CInv(dcpu) /\ [DcpuNext]_dcpuVars => CInv(dcpu)'
<1> SUFFICES ASSUME CInv(dcpu), [DcpuNext]_dcpuVars PROVE CInv(dcpu)'
  OBVIOUS
<1>1. CASE UNCHANGED dcpu
  BY <1>1 DEF CInv, Cpu, Clean
<1>2. CASE Run
  <2>1. PICK i \in Upcoming(dcpu) : \E n, v : dcpu' = Round(dcpu, n, i, v)
    BY <1>2 DEF Run, TickCycle, StepCycle
  <2>2. PICK n, v : dcpu' = Round(dcpu, n, i, v)
    BY <2>1
  <2>3. i.op \in Ops
    <3>1. \A j \in Program : j.op \in Ops
      BY ProgramAssumption DEF Instr, Ops
    <3> QED
      BY <3>1 DEF Upcoming, CInv, Cpu
  <2> QED
    BY <2>2, <2>3, RoundHolds
<1>3. CASE Devices
  BY <1>3, SendHolds DEF Devices, DcpuOffer
<1>4. CASE DcpuReset
  BY <1>4, ResetHolds DEF DcpuReset
<1>5. CASE CallStep \/ \E n \in 1 .. MaxSlice : CallTick(n)
  BY <1>5, <1>1 DEF CallStep, CallTick
<1> QED
  BY <1>1, <1>2, <1>3, <1>4, <1>5 DEF DcpuNext, Clock, dcpuVars

-----------------------------------------------------------------------------
\* Between the phases of DCPU16N::Tick an address is under way only where it is being
\* fetched, and an interrupt only in a clean state.
THEOREM DcpuInvariant == DcpuSpec => []CInv(dcpu)
<1>1. DcpuInit => CInv(dcpu)
  BY ResetHolds DEF DcpuInit
<1> QED
  BY <1>1, StepHolds, PTL DEF DcpuSpec

\* A handler begins between two instructions, whatever the program, the devices and the
\* slices of time: no skip, BYT prefix or half an address leaks into it.
THEOREM EntriesAreClean == DcpuSpec => []CleanEntry
<1>1. CInv(dcpu) => CleanEntry
  BY DEF CInv, Clean, CleanEntry
<1> QED
  BY <1>1, DcpuInvariant, PTL

-----------------------------------------------------------------------------
(* The instruction under way                                               *)

\* The next words an instruction passes as it runs, and the operand whose address each
\* of the two address registers then holds.
WordA(i) == IF i.a \in {"spnw", "memnw", "nw"} THEN 1 ELSE 0
WordB(i) == NextWord(i.b)
AddrA(i) == IF i.a \in {"ind", "spnw", "memnw"} THEN "a" ELSE "old"
AddrB(i) == IF i.b \in InMemory THEN "b" ELSE "old"

\* The operand it writes, and the address it writes it to.
Writes(i) ==
  IF i.op \in Arith THEN "b"
  ELSE IF i.op \in Unary \cup {"HWR"} THEN "a" ELSE "none"
Target(i) == IF i.op \in OneOp THEN AddrA(i) ELSE AddrB(i)
StoreAt(i) == IF Writes(i) # "none" /\ i[Writes(i)] \in InMemory THEN Target(i) ELSE "none"

\* What the operands are read with: nothing yet, operand a, both.
ReadyA(c) == Quiet(c) /\ c.words = 0 /\ c.aca = "old" /\ c.bca = "old" /\ c.stored = "none"
ReadyB(c) ==
  /\ Quiet(c) /\ c.words = WordA(c.opcl) /\ c.aca = AddrA(c.opcl) /\ c.bca = "old"
  /\ c.stored = "none"
ReadyX(c) ==
  /\ Quiet(c) /\ c.words = WordA(c.opcl) + WordB(c.opcl)
  /\ c.aca = AddrA(c.opcl) /\ c.bca = AddrB(c.opcl) /\ c.stored = "none"

\* An instruction that was executed may have its result still to write.
Executed(c) ==
  /\ c.words = WordA(c.opcl) + WordB(c.opcl) /\ c.stored = "none"
  /\ c.wrt = Writes(c.opcl) /\ c.bca = Target(c.opcl)

\* Where an instruction that has been fetched stands, by phase.
Stands(c) ==
  LET i == c.opcl IN
  /\ c.phase = "NWAFETCH" =>
       /\ c.words = 0 /\ c.aca = "old" /\ c.bca = "old" /\ c.stored = "none"
       /\ i.a \in {"spnw", "memnw", "nw"} /\ (c.addrdec <=> i.a # "nw")
  /\ c.phase = "ACUFETCH" =>
       /\ c.words = WordA(i) /\ c.aca = "old" /\ c.bca = "old" /\ c.stored = "none"
       /\ i.a \in {"ind", "spnw", "memnw"} /\ c.addrdec
  /\ c.phase = "UBREAD" => ReadyB(c)
  /\ c.phase = "NWBFETCH" =>
       /\ c.words = WordA(i) /\ c.aca = AddrA(i) /\ c.bca = "old" /\ c.stored = "none"
       /\ i.b \in HasNextWord /\ (c.addrdec <=> i.b # "nw")
  /\ c.phase = "BCUFETCH" =>
       /\ c.words = WordA(i) + WordB(i) /\ c.aca = AddrA(i) /\ c.bca = "old"
       /\ c.stored = "none" /\ i.b \in InMemory /\ c.addrdec
  /\ c.phase = "EXEC" => ReadyX(c)
  /\ c.phase = "EXECW" => Executed(c) /\ (c.phasenext = "UBWRITE" => c.wrt # "none")
  /\ c.phase = "UBWRITE" => Executed(c) /\ c.wrt # "none"
  /\ c.phase = "EXECSKIP" => c.words = 0 /\ c.stored = "none"
  /\ c.phase \in {"OPFETCH", "SLEEP", "EXECJMP", "EXECRFI", "MARKSKIP", "INTERRUPT"} =>
       /\ c.words \in {WordA(i) + WordB(i), skipadd(i)}
       /\ c.stored \in {"none", StoreAt(i)}

-----------------------------------------------------------------------------
LEMMA WriteBackStands ==
  ASSUME NEW c, Quiet(c), Executed(c), c.phase \in Later, c.phase = "UBWRITE" => c.wrt # "none"
  PROVE  /\ Stands(WriteBack(c)) /\ WriteBack(c).phase \in Later \ {"UBWRITE"}
         /\ WriteBack(c).opcl = c.opcl
<1> DEFINE d == [c EXCEPT !.phase = IF c.wrt = "none" THEN @ ELSE "OPFETCH",
                          !.bytemode = @ /\ c.wrt = "none"]
           e == [d EXCEPT !.stored = c.bca]
<1>1. /\ d = [f \in Fields |-> d[f]] /\ d.phase \in Later \ {"UBWRITE"}
      /\ d.opcl = c.opcl /\ d.words = c.words /\ d.stored = c.stored
  BY DEF Quiet, Cpu, Fields, Later
<1> HIDE DEF d
<1>2. e.phase = d.phase /\ e.opcl = c.opcl /\ e.words = c.words /\ e.stored = c.bca
  BY <1>1 DEF Fields
<1> HIDE DEF e
<1>3. WriteBack(c) = IF c.wrt # "none" /\ c.opcl[c.wrt] \in InMemory THEN e ELSE d
  BY DEF WriteBack, d, e
<1>4. c.wrt # "none" /\ c.opcl[c.wrt] \in InMemory => c.bca = StoreAt(c.opcl)
  BY DEF Executed, StoreAt
<1>5. \A x : x.phase \in Later \ {"UBWRITE"} /\ x.opcl = c.opcl /\ x.words = c.words
               /\ x.stored \in {"none", StoreAt(c.opcl)} => Stands(x)
  BY DEF Executed, Stands, Later
<1> QED
  BY <1>1, <1>2, <1>3, <1>4, <1>5 DEF Executed

\* What SendInterrupt leaves alone of the instruction.
LEMMA SendStands ==
  ASSUME NEW c, Cpu(c), NEW m
  PROVE  LET d == SendInterrupt(c, m) IN
         /\ d.opcl = c.opcl /\ d.words = c.words /\ d.aca = c.aca /\ d.bca = c.bca
         /\ d.wrt = c.wrt /\ d.stored = c.stored /\ d.wait_cycles = c.wait_cycles
BY DEF SendInterrupt, Cpu, Fields

LEMMA DoTwoExecutes ==
  ASSUME NEW c, ReadyX(c), c.phase = "OPFETCH", c.opcl.op \in TwoOp, NEW v
  PROVE  LET d == DoTwo(c, v) IN
         Executed(d) /\ d.opcl = c.opcl /\ (d.phase = "UBWRITE" => d.wrt # "none")
<1>1. c.opcl.op \notin OneOp
  BY DEF TwoOp, OneOp, Arith, Test, Unary
<1>2. c.opcl.op \notin Unary /\ "HWR" \notin Arith
  BY <1>1 DEF OneOp, Arith
<1>3. /\ DoTwo(c, v).opcl = c.opcl /\ DoTwo(c, v).words = c.words
      /\ DoTwo(c, v).bca = c.bca /\ DoTwo(c, v).stored = c.stored
  BY DEF DoTwo, ReadyX, Quiet, Cpu, Fields
<1>4. /\ DoTwo(c, v).wrt = Writes(c.opcl)
      /\ DoTwo(c, v).phase = "UBWRITE" => Writes(c.opcl) # "none"
  BY <1>2 DEF DoTwo, ReadyX, Quiet, Cpu, Fields, Writes
<1> QED
  BY <1>1, <1>3, <1>4 DEF ReadyX, Executed, Target

LEMMA DoOneExecutes ==
  ASSUME NEW c, ReadyX(c), c.phase = "OPFETCH", c.opcl.op \in OneOp, NEW v
  PROVE  LET d == DoOne(c, v) IN
         Executed(d) /\ d.opcl = c.opcl /\ (d.phase = "UBWRITE" => d.wrt # "none")
<1> DEFINE d == [c EXCEPT !.bca = c.aca,
                          !.wrt = IF c.opcl.op \in Unary THEN "a" ELSE "none"]
           good(x) == /\ x.opcl = c.opcl /\ x.words = c.words /\ x.bca = AddrA(c.opcl)
                      /\ x.stored = "none" /\ x.wrt = Writes(c.opcl)
<1>1. c.opcl.op \notin TwoOp
  BY DEF TwoOp, OneOp, Arith, Test, Unary
<1>2. c.opcl.op \notin Arith /\ c.opcl.op # "HWR"
  BY <1>1 DEF TwoOp
<1>3. good(d) /\ d = [f \in Fields |-> d[f]] /\ d.phase = "OPFETCH" /\ Cpu(d)
  BY <1>2 DEF ReadyX, Quiet, Cpu, Fields, Writes
<1> HIDE DEF d
<1>4. \A p : good([d EXCEPT !.phase = p]) /\ [d EXCEPT !.phase = p].phase = p
  BY <1>3 DEF Fields
<1>5. /\ good([d EXCEPT !.fire = TRUE]) /\ [d EXCEPT !.fire = TRUE].phase = "OPFETCH"
      /\ good([d EXCEPT !.ia = v]) /\ [d EXCEPT !.ia = v].phase = "OPFETCH"
      /\ good([d EXCEPT !.qint = v]) /\ [d EXCEPT !.qint = v].phase = "OPFETCH"
  BY <1>3 DEF Fields
<1>6. good(SendInterrupt(d, v)) /\ SendInterrupt(d, v).phase = "OPFETCH"
  BY <1>3, SendStands, SendKeeps
<1> HIDE DEF good
<1>7. c.opcl.op \notin Unary =>
        DoOne(c, v) \in {[d EXCEPT !.phase = "EXECJMP"], [d EXCEPT !.phase = "EXECRFI"],
                         [d EXCEPT !.fire = TRUE], SendInterrupt(d, v),
                         [d EXCEPT !.ia = v], [d EXCEPT !.qint = v], d}
  BY DEF DoOne, d
<1>8. c.opcl.op \in Unary => DoOne(c, v) = [d EXCEPT !.phase = "UBWRITE"]
  BY DEF DoOne, Unary, d
<1>9. good(DoOne(c, v)) /\ (DoOne(c, v).phase = "UBWRITE" => c.opcl.op \in Unary)
  BY <1>3, <1>4, <1>5, <1>6, <1>7, <1>8
<1>10. c.opcl.op \in Unary => Writes(c.opcl) = "a"
  BY <1>2 DEF Writes
<1> QED
  BY <1>9, <1>10 DEF good, ReadyX, Executed, Target

LEMMA DoNoneExecutes ==
  ASSUME NEW c, ReadyX(c), c.phase = "OPFETCH", c.opcl.op \in NoOp
  PROVE  LET d == DoNone(c) IN
         Executed(d) /\ d.opcl = c.opcl /\ d.phase # "UBWRITE"
<1> DEFINE d == [c EXCEPT !.wrt = "none"]
           h == [d EXCEPT !.bytemode = FALSE, !.phase = "SLEEP"]
           good(x) == /\ x.opcl = c.opcl /\ x.words = c.words /\ x.bca = c.bca
                      /\ x.stored = "none" /\ x.wrt = "none" /\ x.phase # "UBWRITE"
<1>1. /\ c.opcl.op \notin OneOp /\ c.opcl.op \notin Unary /\ c.opcl.op \notin Arith
      /\ c.opcl.op # "HWR"
  BY DEF NoOp, OneOp, Arith, Unary
<1>2. good(d) /\ d = [f \in Fields |-> d[f]] /\ d.phase = "OPFETCH" /\ Cpu(d)
  BY DEF ReadyX, Quiet, Cpu, Fields
<1> HIDE DEF d
<1>3. good(h) /\ Cpu(h)
  BY <1>2 DEF Cpu, Fields
<1>4. good([d EXCEPT !.bytemode = ~@]) /\ good([d EXCEPT !.phase = "MARKSKIP"])
  BY <1>2 DEF Fields
<1> HIDE DEF h
<1>5. good(SendInterrupt(h, HaltMsg))
  BY <1>3, SendStands, SendKeeps
<1> HIDE DEF good
<1>6. good(DoNone(c))
  BY <1>2, <1>3, <1>4, <1>5 DEF DoNone, NoOp, d, h
<1> QED
  BY <1>1, <1>6 DEF good, ReadyX, Executed, Target, Writes

LEMMA ExecStands ==
  ASSUME NEW c, ReadyX(c), NEW v
  PROVE  /\ Stands(Exec(c, v)) /\ Exec(c, v).opcl = c.opcl
         /\ Exec(c, v).phase = "EXECW" =>
              /\ cycletable[c.opcl.op] # 0
              /\ Exec(c, v).wait_cycles = cycletable[c.opcl.op] - 1
         /\ Exec(c, v).phase \in (Later \ {"UBWRITE"}) \cup {"EXECW"}
<1> DEFINE o == c.opcl.op
           x == [c EXCEPT !.phase = "OPFETCH"]
           d == IF o \in TwoOp THEN DoTwo(x, v)
                ELSE IF o \in OneOp THEN DoOne(x, v) ELSE DoNone(x)
           w(n) == [d EXCEPT !.phase = "EXECW", !.phasenext = d.phase, !.wait_cycles = n]
<1>1. ReadyX(x) /\ x.phase = "OPFETCH" /\ x.opcl = c.opcl
  BY DEF ReadyX, Quiet, Cpu, Fields
<1>2. o \in Ops
  BY DEF ReadyX, Quiet, Cpu
<1> HIDE DEF x
<1>3. Quiet(d) /\ d.phase \in Later
  BY <1>1, <1>2, DoTwoSettles, DoOneSettles, DoNoneSettles DEF ReadyX, Ops
<1>4. Executed(d) /\ d.opcl = c.opcl /\ (d.phase = "UBWRITE" => d.wrt # "none")
  BY <1>1, <1>2, DoTwoExecutes, DoOneExecutes, DoNoneExecutes DEF Ops
<1>5. Exec(c, v) = IF cycletable[o] = 0 THEN WriteBack(d) ELSE w(cycletable[o] - 1)
  BY DEF Exec, x
<1> HIDE DEF d
<1>6. ASSUME NEW n
      PROVE  /\ w(n).phase = "EXECW" /\ w(n).phasenext = d.phase /\ w(n).wait_cycles = n
             /\ w(n).opcl = d.opcl /\ w(n).words = d.words /\ w(n).stored = d.stored
             /\ w(n).wrt = d.wrt /\ w(n).bca = d.bca
  BY <1>3 DEF Quiet, Cpu, Fields
<1> HIDE DEF w
<1>7. ASSUME NEW n PROVE Stands(w(n))
  BY <1>4, <1>6 DEF Stands, Executed
<1>8. /\ Stands(WriteBack(d)) /\ WriteBack(d).phase \in Later \ {"UBWRITE"}
      /\ WriteBack(d).opcl = c.opcl
  BY <1>3, <1>4, WriteBackStands
<1>9. "EXECW" \notin Later
  BY DEF Later
<1> QED
  BY <1>4, <1>5, <1>6, <1>7, <1>8, <1>9

\* What follows a round that executes, one that reads operand b, one that reads a.
AfterX == (Later \ {"UBWRITE"}) \cup {"EXECW"}
AfterB == AfterX \cup {"NWBFETCH", "BCUFETCH"}
AfterA == AfterB \cup {"NWAFETCH", "ACUFETCH"}

\* A wait begins with the cycles of the table, less the one of EXEC.
Entered(c) ==
  c.phase = "EXECW" =>
    cycletable[c.opcl.op] # 0 /\ c.wait_cycles = cycletable[c.opcl.op] - 1

\* The instruction c is on its way, next in one of the phases P.
Goes(c, i, P) == Stands(c) /\ c.opcl = i /\ c.phase \in P /\ Entered(c)

LEMMA FetchBStands ==
  ASSUME NEW c, Cpu(c), ~c.addradd, NEW v,
         c.words = WordA(c.opcl) + WordB(c.opcl), c.aca = AddrA(c.opcl), c.bca = "old",
         c.stored = "none", c.addrdec <=> c.opcl.b \in InMemory
  PROVE  Goes(FetchB(c, v), c.opcl, AfterX)
<1> DEFINE d == [c EXCEPT !.addrdec = FALSE, !.bca = IF c.addrdec THEN "b" ELSE @]
<1>1. ReadyX(d) /\ d.opcl = c.opcl
  BY DEF ReadyX, Quiet, Cpu, Fields, AddrB
<1>2. FetchB(c, v) = Exec(d, v)
  BY DEF FetchB
<1> HIDE DEF d
<1> QED
  BY <1>1, <1>2, ExecStands DEF Goes, AfterX, Entered

LEMMA ReadBStands ==
  ASSUME NEW c, ReadyB(c), NEW v
  PROVE  Goes(ReadB(c, v), c.opcl, AfterB)
<1> DEFINE b == c.opcl.b
           b1 == [c EXCEPT !.phase = "BCUFETCH", !.addrdec = TRUE]
           b2 == [c EXCEPT !.phase = "NWBFETCH", !.addrdec = TRUE, !.addradd = TRUE]
           b3 == [c EXCEPT !.phase = "NWBFETCH", !.addrdec = TRUE]
           b4 == [c EXCEPT !.phase = "NWBFETCH"]
           same(d) == d.words = c.words /\ d.aca = c.aca /\ d.bca = c.bca
                        /\ d.stored = c.stored /\ d.opcl = c.opcl
<1>1. same(b1) /\ b1.phase = "BCUFETCH" /\ b1.addrdec
  BY DEF ReadyB, Quiet, Cpu, Fields
<1>2. /\ same(b2) /\ b2.phase = "NWBFETCH" /\ b2.addrdec
      /\ same(b3) /\ b3.phase = "NWBFETCH" /\ b3.addrdec
  BY DEF ReadyB, Quiet, Cpu, Fields
<1>3. same(b4) /\ b4.phase = "NWBFETCH" /\ ~b4.addrdec
  BY DEF ReadyB, Quiet, Cpu, Fields
<1>4. /\ b = "ind" => ReadB(c, v) = b1
      /\ b \in {"spnw", "regnw"} => ReadB(c, v) = b2
      /\ b = "memnw" => ReadB(c, v) = b3
      /\ b = "nw" => ReadB(c, v) = b4
      /\ b \notin {"ind", "spnw", "regnw", "memnw", "nw"} => ReadB(c, v) = FetchB(c, v)
  BY DEF ReadB
<1> HIDE DEF b1, b2, b3, b4
<1>5. CASE b = "ind"
  <2>1. WordB(c.opcl) = 0 /\ b \in InMemory
    BY <1>5 DEF WordB, NextWord, HasNextWord, InMemory
  <2>2. WordA(c.opcl) + 0 = WordA(c.opcl)
    BY DEF WordA
  <2> QED
    BY <1>1, <1>4, <1>5, <2>1, <2>2 DEF Goes, Stands, Entered, AfterB, ReadyB
<1>6. CASE b \in {"spnw", "regnw", "memnw"}
  BY <1>2, <1>4, <1>6 DEF Goes, Stands, Entered, AfterB, ReadyB, HasNextWord
<1>7. CASE b = "nw"
  BY <1>3, <1>4, <1>7 DEF Goes, Stands, Entered, AfterB, ReadyB, HasNextWord
<1>8. CASE b \notin {"ind", "spnw", "regnw", "memnw", "nw"}
  <2>1. WordB(c.opcl) = 0 /\ b \notin InMemory
    BY <1>8 DEF WordB, NextWord, HasNextWord, InMemory
  <2>2. WordA(c.opcl) + 0 = WordA(c.opcl)
    BY DEF WordA
  <2>3. Goes(FetchB(c, v), c.opcl, AfterX)
    BY <2>1, <2>2, FetchBStands DEF ReadyB, Quiet
  <2> QED
    BY <1>4, <1>8, <2>3 DEF Goes, AfterB
<1> QED
  BY <1>5, <1>6, <1>7, <1>8

LEMMA FetchAStands ==
  ASSUME NEW c, Cpu(c), ~c.addradd, NEW v,
         c.words = WordA(c.opcl), c.aca = "old", c.bca = "old", c.stored = "none",
         c.addrdec <=> c.opcl.a \in {"ind", "spnw", "memnw"}
  PROVE  Goes(FetchA(c, v), c.opcl, AfterB)
<1> DEFINE d == [c EXCEPT !.addrdec = FALSE, !.aca = IF c.addrdec THEN "a" ELSE @]
<1>1. ReadyB(d) /\ d.opcl = c.opcl
  BY DEF ReadyB, Quiet, Cpu, Fields, AddrA
<1> HIDE DEF d
<1> QED
  BY <1>1, ReadBStands DEF FetchA, d

LEMMA ReadAStands ==
  ASSUME NEW c, ReadyA(c), NEW v
  PROVE  Goes(ReadA(c, v), c.opcl, AfterA)
<1> DEFINE a == c.opcl.a
           a1 == [c EXCEPT !.phase = "ACUFETCH", !.addrdec = TRUE]
           a2 == [c EXCEPT !.phase = "NWAFETCH", !.addrdec = TRUE, !.addradd = TRUE]
           a3 == [c EXCEPT !.phase = "NWAFETCH", !.addrdec = TRUE]
           a4 == [c EXCEPT !.phase = "NWAFETCH"]
           same(d) == d.words = c.words /\ d.aca = c.aca /\ d.bca = c.bca
                        /\ d.stored = c.stored /\ d.opcl = c.opcl
<1>1. same(a1) /\ a1.phase = "ACUFETCH" /\ a1.addrdec
  BY DEF ReadyA, Quiet, Cpu, Fields
<1>2. /\ same(a2) /\ a2.phase = "NWAFETCH" /\ a2.addrdec
      /\ same(a3) /\ a3.phase = "NWAFETCH" /\ a3.addrdec
  BY DEF ReadyA, Quiet, Cpu, Fields
<1>3. same(a4) /\ a4.phase = "NWAFETCH" /\ ~a4.addrdec
  BY DEF ReadyA, Quiet, Cpu, Fields
<1>4. /\ a = "ind" => ReadA(c, v) = a1
      /\ a = "spnw" => ReadA(c, v) = a2
      /\ a = "memnw" => ReadA(c, v) = a3
      /\ a = "nw" => ReadA(c, v) = a4
      /\ a \notin {"ind", "spnw", "memnw", "nw"} => ReadA(c, v) = FetchA(c, v)
  BY DEF ReadA
<1> HIDE DEF a1, a2, a3, a4
<1>5. CASE a = "ind"
  BY <1>1, <1>4, <1>5 DEF Goes, Stands, Entered, AfterA, ReadyA, WordA
<1>6. CASE a \in {"spnw", "memnw"}
  BY <1>2, <1>4, <1>6 DEF Goes, Stands, Entered, AfterA, ReadyA
<1>7. CASE a = "nw"
  BY <1>3, <1>4, <1>7 DEF Goes, Stands, Entered, AfterA, ReadyA
<1>8. CASE a \notin {"ind", "spnw", "memnw", "nw"}
  <2>1. WordA(c.opcl) = 0
    BY <1>8 DEF WordA
  <2>2. Goes(FetchA(c, v), c.opcl, AfterB)
    BY <1>8, <2>1, FetchAStands DEF ReadyA, Quiet
  <2> QED
    BY <1>4, <1>8, <2>2 DEF Goes, AfterA
<1> QED
  BY <1>5, <1>6, <1>7, <1>8

\* The phases that fetch a next word.
LEMMA NextWordsStand ==
  ASSUME NEW c, CInv(c), Stands(c)
  PROVE  /\ c.phase = "NWAFETCH" =>
              Goes(NextWordA(c), c.opcl, {"ACUFETCH", "UBREAD"})
         /\ c.phase = "NWBFETCH" =>
              Goes(NextWordB(c), c.opcl, {"BCUFETCH", "EXEC"})
<1>1. ASSUME c.phase = "NWAFETCH"
      PROVE  Goes(NextWordA(c), c.opcl, {"ACUFETCH", "UBREAD"})
  <2> DEFINE d == NextWordA(c)
  <2>1. /\ d.opcl = c.opcl /\ d.words = 1 /\ d.aca = "old" /\ d.bca = "old"
        /\ d.stored = "none"
    BY <1>1 DEF NextWordA, CInv, Cpu, Fields, Stands
  <2>6. /\ ~d.addradd
        /\ c.addrdec => d.phase = "ACUFETCH" /\ d.addrdec
        /\ ~c.addrdec => d.phase = "UBREAD" /\ ~d.addrdec
    BY <1>1 DEF NextWordA, CInv, Cpu, Fields
  <2>2. Cpu(d)
    BY NextWordsHold DEF CInv
  <2>3. /\ c.opcl.a \in {"spnw", "memnw", "nw"} /\ (c.addrdec <=> c.opcl.a # "nw")
        /\ WordA(c.opcl) = 1
    BY <1>1 DEF Stands, WordA
  <2>4. CASE c.addrdec
    <3>1. d.phase = "ACUFETCH" /\ d.addrdec
      BY <2>4, <2>6
    <3>2. c.opcl.a \in {"ind", "spnw", "memnw"}
      BY <2>3, <2>4
    <3> QED
      BY <2>1, <2>3, <3>1, <3>2 DEF Goes, Stands, Entered
  <2>5. CASE ~c.addrdec
    <3>1. AddrA(c.opcl) = "old"
      BY <2>3, <2>5 DEF AddrA
    <3>2. ReadyB(d)
      BY <2>1, <2>2, <2>3, <2>5, <2>6, <3>1 DEF ReadyB, Quiet
    <3>3. d.phase = "UBREAD"
      BY <2>5, <2>6
    <3> QED
      BY <2>1, <3>2, <3>3 DEF Goes, Stands, Entered
  <2> QED
    BY <2>4, <2>5
<1>2. ASSUME c.phase = "NWBFETCH"
      PROVE  Goes(NextWordB(c), c.opcl, {"BCUFETCH", "EXEC"})
  <2> DEFINE d == NextWordB(c)
  <2>1. /\ d.opcl = c.opcl /\ d.words = c.words + 1 /\ d.aca = c.aca /\ d.bca = "old"
        /\ d.stored = "none"
    BY <1>2 DEF NextWordB, CInv, Cpu, Fields, Stands
  <2>6. /\ ~d.addradd
        /\ c.addrdec => d.phase = "BCUFETCH" /\ d.addrdec
        /\ ~c.addrdec => d.phase = "EXEC" /\ ~d.addrdec
    BY <1>2 DEF NextWordB, CInv, Cpu, Fields
  <2>2. Cpu(d)
    BY NextWordsHold DEF CInv
  <2>3. /\ c.opcl.b \in HasNextWord /\ (c.addrdec <=> c.opcl.b # "nw")
        /\ WordB(c.opcl) = 1 /\ c.words = WordA(c.opcl) /\ c.aca = AddrA(c.opcl)
    BY <1>2 DEF Stands, WordB, NextWord
  <2>4. CASE c.addrdec
    <3>1. c.opcl.b \in InMemory
      BY <2>3, <2>4 DEF InMemory, HasNextWord
    <3>2. d.phase = "BCUFETCH" /\ d.addrdec
      BY <2>4, <2>6
    <3> QED
      BY <2>1, <2>3, <3>1, <3>2 DEF Goes, Stands, Entered
  <2>5. CASE ~c.addrdec
    <3>1. AddrB(c.opcl) = "old"
      BY <2>3, <2>5 DEF AddrB, InMemory
    <3>2. ReadyX(d)
      BY <2>1, <2>2, <2>3, <2>5, <2>6, <3>1 DEF ReadyX, Quiet
    <3>3. d.phase = "EXEC"
      BY <2>5, <2>6
    <3> QED
      BY <2>1, <3>2, <3>3 DEF Goes, Stands, Entered
  <2> QED
    BY <2>4, <2>5
<1> QED
  BY <1>1, <1>2

-----------------------------------------------------------------------------
\* Between instructions, and in the phases that end one, the words and the address of
\* the result stay as they are.
Rest == {"OPFETCH", "SLEEP", "EXECJMP", "EXECRFI", "MARKSKIP", "INTERRUPT"}

\* A wait that is under way has cycles of its instruction left.
Waits(c) ==
  c.phase = "EXECW" =>
    cycletable[c.opcl.op] # 0 /\ c.wait_cycles \in 0 .. cycletable[c.opcl.op] - 1

LEMMA RestKeeps ==
  ASSUME NEW c, Stands(c), c.phase \in Rest, NEW d, d.phase \in Rest,
         d.opcl = c.opcl, d.words = c.words, d.stored = c.stored
  PROVE  Stands(d) /\ Waits(d)
BY DEF Stands, Rest, Waits

LEMMA GoesWaits ==
  ASSUME NEW d, NEW i, i.op \in Ops, NEW P, Goes(d, i, P)
  PROVE  Stands(d) /\ Waits(d) /\ d.opcl = i /\ d.phase \in P
<1>1. cycletable[i.op] \in Nat
  BY QAssumption DEF cycletable, Ops
<1> QED
  BY <1>1 DEF Goes, Entered, Waits

LEMMA FetchStands ==
  ASSUME NEW c, Settled(c), NEW i, i.op \in Ops, NEW v
  PROVE  Goes(Fetch(c, i, v), i, AfterA \cup {"EXECSKIP"})
<1> DEFINE d == [c EXCEPT !.opcl = i, !.words = 0, !.aca = "old", !.bca = "old",
                          !.wrt = "none", !.stored = "none"]
           e == [d EXCEPT !.phase = "EXECSKIP"]
<1>1. ReadyA(d) /\ d.opcl = i
  BY DEF ReadyA, Settled, Quiet, Cpu, Fields
<1>2. Fetch(c, i, v) = IF c.skip THEN e ELSE ReadA(d, v)
  BY DEF Fetch
<1> HIDE DEF d
<1>3. e.phase = "EXECSKIP" /\ e.opcl = i /\ e.words = 0 /\ e.stored = "none"
  BY <1>1 DEF ReadyA, Quiet, Cpu, Fields
<1>4. Goes(ReadA(d, v), i, AfterA)
  BY <1>1, ReadAStands
<1> HIDE DEF e
<1> QED
  BY <1>2, <1>3, <1>4 DEF Goes, Stands, Entered

LEMMA OpFetchStands ==
  ASSUME NEW c, CInv(c), Stands(c), c.phase = "OPFETCH", NEW i, i.op \in Ops, NEW v
  PROVE  LET d == OpFetch(c, i, v) IN
         /\ Stands(d) /\ Waits(d) /\ d.opcl \in {c.opcl, i}
         /\ d.phase \in AfterA \cup {"EXECSKIP", "INTERRUPT"}
<1>1. Settled(c) /\ Settled(Forget(c))
  BY ForgetKeeps DEF CInv, Settled, Quiet
<1>2. ASSUME NEW e, Settled(e)
      PROVE  LET d == Fetch(e, i, v) IN
             /\ Stands(d) /\ Waits(d) /\ d.opcl = i /\ d.phase \in AfterA \cup {"EXECSKIP"}
  BY <1>2, FetchStands, GoesWaits
<1> DEFINE h == [c EXCEPT !.phase = "INTERRUPT"]
<1>3. h.phase = "INTERRUPT" /\ h.opcl = c.opcl /\ h.words = c.words /\ h.stored = c.stored
  BY <1>1 DEF Settled, Quiet, Cpu, Fields
<1>4. OpFetch(c, i, v) \in {Fetch(c, i, v), Fetch(Forget(c), i, v), h}
  BY DEF OpFetch
<1> HIDE DEF h
<1>5. Stands(h) /\ Waits(h)
  BY <1>3, RestKeeps DEF Rest
<1> QED
  BY <1>1, <1>2, <1>3, <1>4, <1>5

LEMMA SleepStands ==
  ASSUME NEW c, CInv(c), Stands(c), c.phase = "SLEEP"
  PROVE  LET d == Sleep(c) IN
         /\ Stands(d) /\ Waits(d) /\ d.opcl = c.opcl /\ d.phase \in {"SLEEP", "INTERRUPT"}
<1> DEFINE h == [c EXCEPT !.phase = "INTERRUPT", !.skip = FALSE, !.bytemode = FALSE]
           f == Forget(c)
           same(d) == d.opcl = c.opcl /\ d.words = c.words /\ d.stored = c.stored
<1>1. h.phase = "INTERRUPT" /\ same(h) /\ f.phase = "SLEEP" /\ same(f)
  BY DEF Forget, CInv, Cpu, Fields
<1>2. Sleep(c) \in {c, h, f}
  BY DEF Sleep
<1> HIDE DEF h, f
<1>3. Stands(h) /\ Waits(h) /\ Stands(f) /\ Waits(f) /\ Waits(c)
  BY <1>1, RestKeeps DEF Rest, Waits
<1> QED
  BY <1>1, <1>2, <1>3

\* A wait goes on with one cycle less, or ends.
LEMMA ExecWaitStands ==
  ASSUME NEW c, CInv(c), Stands(c), Waits(c), c.phase = "EXECW", NEW n
  PROVE  LET d == ExecWait(c, n) IN
         /\ Stands(d) /\ Waits(d) /\ d.opcl = c.opcl
         /\ \/ d.phase = "EXECW" /\ c.wait_cycles > 0 /\ d.wait_cycles = c.wait_cycles - 1
            \/ d.phase \in Later
<1> DEFINE e == [c EXCEPT !.phase = c.phasenext, !.phasenext = "OPFETCH", !.wait_cycles = 0]
           w == [c EXCEPT !.wait_cycles = @ - 1]
           same(d) == d.opcl = c.opcl /\ d.words = c.words /\ d.stored = c.stored
                        /\ d.wrt = c.wrt /\ d.bca = c.bca
<1>1. Executed(c) /\ (c.phasenext = "UBWRITE" => c.wrt # "none") /\ c.phasenext \in Later
  BY DEF Stands, CInv, Cpu
<1>2. same(e) /\ e.phase = c.phasenext
  BY DEF CInv, Cpu, Fields
<1>3. /\ same(w) /\ w.phase = "EXECW" /\ w.phasenext = c.phasenext
      /\ w.wait_cycles = c.wait_cycles - 1
  BY DEF CInv, Cpu, Fields
<1>4. \/ ExecWait(c, n) = e
      \/ ExecWait(c, n) = w /\ c.wait_cycles # 0
  BY DEF ExecWait
<1>5. c.wait_cycles \in Nat /\ cycletable[c.opcl.op] \in Nat
  <2>1. c.opcl.op \in Ops
    BY DEF CInv, Cpu
  <2> QED
    BY <2>1, QAssumption DEF Waits, cycletable, Ops
<1> HIDE DEF e, w
<1>6. Stands(e) /\ Waits(e)
  BY <1>1, <1>2 DEF Stands, Executed, Waits, Later
<1>7. c.wait_cycles # 0 => Stands(w) /\ Waits(w)
  BY <1>1, <1>3, <1>5 DEF Stands, Executed, Waits
<1> QED
  BY <1>1, <1>2, <1>3, <1>4, <1>5, <1>6, <1>7

\* The phases that end an instruction, and the way into a handler.
LEMMA EndsStand ==
  ASSUME NEW c, CInv(c), Stands(c)
  PROVE  LET back(d) == /\ Stands(d) /\ Waits(d) /\ d.opcl = c.opcl /\ d.phase = "OPFETCH" IN
         /\ c.phase = "EXECSKIP" => back(ExecSkip(c))
         /\ c.phase = "EXECJMP" => back([c EXCEPT !.phase = "OPFETCH"])
         /\ c.phase = "EXECRFI" => back(ReturnFromHandler(c))
         /\ c.phase = "MARKSKIP" => back([c EXCEPT !.phase = "OPFETCH", !.skip = TRUE])
         /\ c.phase = "INTERRUPT" => back(EnterHandler(c))
<1> DEFINE back(d) == /\ Stands(d) /\ Waits(d) /\ d.opcl = c.opcl /\ d.phase = "OPFETCH"
           same(d) == /\ d.opcl = c.opcl /\ d.words = c.words /\ d.stored = c.stored
                      /\ d.phase = "OPFETCH"
<1>1. same([c EXCEPT !.phase = "OPFETCH"]) /\ same(ReturnFromHandler(c))
  BY DEF ReturnFromHandler, CInv, Cpu, Fields
<1>2. same([c EXCEPT !.phase = "OPFETCH", !.skip = TRUE]) /\ same(EnterHandler(c))
  BY DEF EnterHandler, CInv, Cpu, Fields
<1>3. ASSUME NEW d, same(d), c.phase \in Rest PROVE back(d)
  BY <1>3, RestKeeps DEF Rest
<1>4. ASSUME c.phase = "EXECSKIP" PROVE back(ExecSkip(c))
  <2>1. /\ ExecSkip(c).phase = "OPFETCH" /\ ExecSkip(c).opcl = c.opcl
        /\ ExecSkip(c).words = c.words + skipadd(c.opcl) /\ ExecSkip(c).stored = c.stored
    BY DEF ExecSkip, CInv, Cpu, Fields
  <2>2. c.words = 0 /\ c.stored = "none"
    BY <1>4 DEF Stands
  <2>3. 0 + skipadd(c.opcl) = skipadd(c.opcl)
    BY DEF skipadd, NextWord
  <2> QED
    BY <2>1, <2>2, <2>3 DEF Stands, Waits
<1> HIDE DEF back
<1>5. c.phase \in {"EXECJMP", "EXECRFI", "MARKSKIP", "INTERRUPT"} => c.phase \in Rest
  BY DEF Rest
<1> QED
  BY <1>1, <1>2, <1>3, <1>4, <1>5 DEF back

-----------------------------------------------------------------------------
\* The most rounds that Step makes until it gets to a phase.
Made(c) ==
  IF c.phase \in {"OPFETCH", "SLEEP"} THEN 0
  ELSE IF c.phase \in {"NWAFETCH", "EXECSKIP", "INTERRUPT"} THEN 1
  ELSE IF c.phase \in {"ACUFETCH", "UBREAD"} THEN 2
  ELSE IF c.phase = "NWBFETCH" THEN 3
  ELSE IF c.phase \in {"BCUFETCH", "EXEC"} THEN 4
  ELSE IF c.phase = "EXECW" THEN 4 + cycletable[c.opcl.op] - c.wait_cycles
  ELSE 5 + cycletable[c.opcl.op]

\* A round ends the instruction or gets nearer to its end.
Onward(c, d) == d.phase \in {"OPFETCH", "SLEEP"} \/ Made(c) + 1 <= Made(d)

\* The CPU and the instruction it has fetched, in every phase.
DInv(c) == CInv(c) /\ Stands(c) /\ Waits(c) /\ c.opcl \in Program \cup {Nothing}

LEMMA ProgramOps == \A i \in Program \cup {Nothing} : i \in Instr /\ i.op \in Ops
<1>1. Nothing \in Instr
  BY DEF Nothing, Instr, NoOp
<1>2. \A i \in Instr : i.op \in Ops
  BY DEF Instr, Ops
<1> QED
  BY <1>1, <1>2, ProgramAssumption

\* A phase that operands are read in takes the CPU to one farther on, and one of
\* waiting or writing nearer to the end.
LEMMA MadeGrows ==
  ASSUME NEW c, NEW d, cycletable[c.opcl.op] \in Nat, cycletable[d.opcl.op] \in Nat,
         Waits(d)
  PROVE  /\ c.phase = "OPFETCH" /\ d.phase \in AfterA \cup {"EXECSKIP", "INTERRUPT"}
              => Onward(c, d)
         /\ c.phase = "NWAFETCH" /\ d.phase \in {"ACUFETCH", "UBREAD"} => Onward(c, d)
         /\ c.phase \in {"ACUFETCH", "UBREAD"} /\ d.phase \in AfterB => Onward(c, d)
         /\ c.phase = "NWBFETCH" /\ d.phase \in {"BCUFETCH", "EXEC"} => Onward(c, d)
         /\ c.phase \in {"BCUFETCH", "EXEC"} /\ d.phase \in AfterX => Onward(c, d)
         /\ c.phase = "SLEEP" /\ d.phase \in {"SLEEP", "INTERRUPT"} => Onward(c, d)
<1>1. d.phase = "EXECW" => Made(d) >= 5 /\ Made(d) \in Nat
  <2> SUFFICES ASSUME d.phase = "EXECW" PROVE Made(d) >= 5 /\ Made(d) \in Nat
    OBVIOUS
  <2>1. d.wait_cycles \in Nat /\ d.wait_cycles <= cycletable[d.opcl.op] - 1
    BY DEF Waits
  <2>2. Made(d) = 4 + cycletable[d.opcl.op] - d.wait_cycles
    BY DEF Made
  <2> QED
    BY <2>1, <2>2
<1>2. ASSUME d.phase \in {"UBWRITE", "EXECJMP", "EXECRFI", "MARKSKIP"}
      PROVE  Made(d) >= 5 /\ Made(d) \in Nat
  <2>1. Made(d) = 5 + cycletable[d.opcl.op]
    BY <1>2 DEF Made
  <2> QED
    BY <2>1
<1>3. d.phase \in AfterX \cup {"UBWRITE"}
        => d.phase \in {"OPFETCH", "SLEEP"} \/ (Made(d) >= 5 /\ Made(d) \in Nat)
  BY <1>1, <1>2 DEF AfterX, Later
<1>4. /\ d.phase \in {"NWBFETCH"} => Made(d) = 3
      /\ d.phase \in {"BCUFETCH", "EXEC"} => Made(d) = 4
      /\ d.phase \in {"ACUFETCH", "UBREAD"} => Made(d) = 2
      /\ d.phase \in {"NWAFETCH", "EXECSKIP", "INTERRUPT"} => Made(d) = 1
  BY DEF Made
<1>5. /\ c.phase \in {"OPFETCH", "SLEEP"} => Made(c) = 0
      /\ c.phase \in {"NWAFETCH"} => Made(c) = 1
      /\ c.phase \in {"ACUFETCH", "UBREAD"} => Made(c) = 2
      /\ c.phase \in {"NWBFETCH"} => Made(c) = 3
      /\ c.phase \in {"BCUFETCH", "EXEC"} => Made(c) = 4
  BY DEF Made
<1> QED
  BY <1>3, <1>4, <1>5 DEF Onward, AfterA, AfterB

LEMMA RoundStands ==
  ASSUME NEW c, DInv(c), NEW n, NEW i \in Upcoming(c), NEW v
  PROVE  LET d == Round(c, n, i, v) IN
         /\ Stands(d) /\ Waits(d) /\ d.opcl \in Program \cup {Nothing} /\ Onward(c, d)
<1> DEFINE d == Round(c, n, i, v)
           good(e) == Stands(e) /\ Waits(e) /\ e.opcl \in {c.opcl, i}
<1>1. /\ CInv(c) /\ Stands(c) /\ Waits(c) /\ c.phase \in Phase
      /\ i \in Program \cup {Nothing} /\ i.op \in Ops /\ c.opcl.op \in Ops
  BY ProgramOps DEF DInv, CInv, Upcoming
<1>2. \A o \in Ops : cycletable[o] \in Nat
  BY QAssumption DEF cycletable, Ops
<1>3. \A e : good(e) => cycletable[e.opcl.op] \in Nat /\ e.opcl \in Program \cup {Nothing}
  BY <1>1, <1>2 DEF DInv
<1> SUFFICES good(d) /\ Onward(c, d)
  BY <1>3
<1>4. CASE c.phase = "OPFETCH"
  <2>1. d = OpFetch(c, i, v)
    BY <1>4 DEF Round
  <2>2. good(d) /\ d.phase \in AfterA \cup {"EXECSKIP", "INTERRUPT"}
    BY <1>1, <1>4, <2>1, OpFetchStands
  <2> HIDE DEF d
  <2> QED
    BY <1>1, <1>2, <1>3, <1>4, <2>2, MadeGrows
<1>5. CASE c.phase \in {"NWAFETCH", "NWBFETCH"}
  <2>1. d = IF c.phase = "NWAFETCH" THEN NextWordA(c) ELSE NextWordB(c)
    BY <1>5 DEF Round
  <2> HIDE DEF d
  <2>2. /\ good(d)
        /\ c.phase = "NWAFETCH" => d.phase \in {"ACUFETCH", "UBREAD"}
        /\ c.phase = "NWBFETCH" => d.phase \in {"BCUFETCH", "EXEC"}
    BY <1>1, <1>5, <2>1, NextWordsStand, GoesWaits
  <2> QED
    BY <1>1, <1>2, <1>3, <1>5, <2>2, MadeGrows
<1>6. CASE c.phase \in {"ACUFETCH", "UBREAD"}
  <2>1. d = IF c.phase = "ACUFETCH" THEN FetchA(c, v) ELSE ReadB(c, v)
    BY <1>6 DEF Round
  <2>2. c.phase = "ACUFETCH" => Goes(FetchA(c, v), c.opcl, AfterB)
    <3> SUFFICES ASSUME c.phase = "ACUFETCH" PROVE Goes(FetchA(c, v), c.opcl, AfterB)
      OBVIOUS
    <3>1. /\ Cpu(c) /\ ~c.addradd /\ c.words = WordA(c.opcl) /\ c.bca = "old"
          /\ c.aca = "old" /\ c.stored = "none" /\ c.addrdec
          /\ c.opcl.a \in {"ind", "spnw", "memnw"}
      BY <1>1 DEF CInv, Stands
    <3> QED
      BY <3>1, FetchAStands
  <2>3. c.phase = "UBREAD" => Goes(ReadB(c, v), c.opcl, AfterB)
    BY <1>1, ReadBStands DEF Stands
  <2> HIDE DEF d
  <2>4. good(d) /\ d.phase \in AfterB
    BY <1>1, <1>6, <2>1, <2>2, <2>3, GoesWaits
  <2> QED
    BY <1>1, <1>2, <1>3, <1>6, <2>4, MadeGrows
<1>7. CASE c.phase \in {"BCUFETCH", "EXEC"}
  <2>1. d = IF c.phase = "BCUFETCH" THEN FetchB(c, v) ELSE Exec(c, v)
    BY <1>7 DEF Round
  <2>2. c.phase = "BCUFETCH" => Goes(FetchB(c, v), c.opcl, AfterX)
    <3> SUFFICES ASSUME c.phase = "BCUFETCH" PROVE Goes(FetchB(c, v), c.opcl, AfterX)
      OBVIOUS
    <3>1. /\ Cpu(c) /\ ~c.addradd /\ c.words = WordA(c.opcl) + WordB(c.opcl)
          /\ c.aca = AddrA(c.opcl) /\ c.bca = "old" /\ c.stored = "none"
          /\ c.opcl.b \in InMemory /\ c.addrdec
      BY <1>1 DEF CInv, Stands
    <3> QED
      BY <3>1, FetchBStands
  <2>3. c.phase = "EXEC" => Goes(Exec(c, v), c.opcl, AfterX)
    BY <1>1, ExecStands DEF Stands, Goes, AfterX, Entered
  <2> HIDE DEF d
  <2>4. good(d) /\ d.phase \in AfterX
    BY <1>1, <1>7, <2>1, <2>2, <2>3, GoesWaits
  <2> QED
    BY <1>1, <1>2, <1>3, <1>7, <2>4, MadeGrows
<1>8. CASE c.phase = "UBWRITE"
  <2>1. d = WriteBack(c)
    BY <1>8 DEF Round
  <2>2. Quiet(c) /\ Executed(c) /\ c.wrt # "none" /\ c.phase \in Later
    BY <1>1, <1>8 DEF CInv, Quiet, Stands, Later
  <2>3. Stands(d) /\ d.opcl = c.opcl /\ d.phase \in Later \ {"UBWRITE"}
    BY <2>1, <2>2, WriteBackStands
  <2>4. d.phase = "OPFETCH"
    BY <2>1, <2>2 DEF WriteBack, Quiet, Cpu, Fields
  <2> HIDE DEF d
  <2> QED
    BY <2>3, <2>4 DEF Onward, Waits
<1>9. CASE c.phase = "SLEEP"
  <2>1. d = Sleep(c)
    BY <1>9 DEF Round
  <2>2. good(d) /\ d.phase \in {"SLEEP", "INTERRUPT"}
    BY <1>1, <1>9, <2>1, SleepStands
  <2> HIDE DEF d
  <2> QED
    BY <1>1, <1>2, <1>3, <1>9, <2>2, MadeGrows
<1>10. CASE c.phase = "EXECW"
  <2>1. d = ExecWait(c, n)
    BY <1>10 DEF Round
  <2>2. /\ good(d) /\ d.opcl = c.opcl
        /\ \/ d.phase = "EXECW" /\ c.wait_cycles > 0 /\ d.wait_cycles = c.wait_cycles - 1
           \/ d.phase \in Later
    BY <1>1, <1>10, <2>1, ExecWaitStands
  <2>3. c.wait_cycles \in Nat /\ cycletable[c.opcl.op] \in Nat
    BY <1>1, <1>2, <1>10 DEF Waits
  <2> HIDE DEF d
  <2>4. CASE d.phase = "EXECW"
    <3>1. d.wait_cycles = c.wait_cycles - 1
      BY <2>2, <2>4 DEF Later
    <3> QED
      BY <1>10, <2>2, <2>3, <2>4, <3>1 DEF Onward, Made
  <2>5. CASE d.phase \in Later
    <3>1. Made(c) + 1 <= 5 + cycletable[c.opcl.op]
      BY <1>10, <2>3 DEF Made
    <3>2. d.phase \in {"OPFETCH", "SLEEP"} \/ Made(d) = 5 + cycletable[c.opcl.op]
      BY <2>2, <2>5 DEF Made, Later
    <3> QED
      BY <2>2, <3>1, <3>2 DEF Onward
  <2> QED
    BY <2>2, <2>4, <2>5
<1>11. CASE c.phase \in {"EXECSKIP", "EXECJMP", "EXECRFI", "MARKSKIP", "INTERRUPT"}
  <2>1. good(d) /\ d.phase = "OPFETCH"
    BY <1>1, <1>11, EndsStand DEF Round
  <2> QED
    BY <2>1 DEF Onward
<1> QED
  BY <1>1, <1>4, <1>5, <1>6, <1>7, <1>8, <1>9, <1>10, <1>11 DEF Phase

-----------------------------------------------------------------------------
(* What an instruction passes, stores and takes                            *)

LEMMA ResetStands == ASSUME NEW c PROVE DInv(ResetState(c))
<1> DEFINE d == ResetState(c)
<1>1. d.phase = "OPFETCH" /\ d.opcl = Nothing /\ d.words = 0 /\ d.stored = "none"
  BY DEF ResetState
<1>2. WordA(Nothing) + WordB(Nothing) = 0
  BY DEF Nothing, WordA, WordB, NextWord, HasNextWord
<1> HIDE DEF d
<1>3. Stands(d) /\ Waits(d)
  BY <1>1, <1>2 DEF Stands, Waits
<1> QED
  BY <1>1, <1>3, ResetHolds DEF DInv, d

LEMMA OfferStands == ASSUME NEW c, DInv(c), NEW m PROVE DInv(SendInterrupt(c, m))
<1> DEFINE d == SendInterrupt(c, m)
<1>1. Cpu(c) /\ CInv(d)
  BY SendHolds DEF DInv, CInv
<1>2. /\ d.opcl = c.opcl /\ d.words = c.words /\ d.aca = c.aca /\ d.bca = c.bca
      /\ d.wrt = c.wrt /\ d.stored = c.stored /\ d.wait_cycles = c.wait_cycles
      /\ d.phase = c.phase /\ d.phasenext = c.phasenext
  BY <1>1, SendStands, SendKeeps DEF SendInterrupt, Cpu, Fields
<1>3. (c.addrdec => d.addrdec) /\ (d.addrdec => c.addrdec)
      /\ (c.addradd => d.addradd) /\ (d.addradd => c.addradd)
  BY <1>1, SendKeeps
<1>4. Cpu(d)
  BY <1>1 DEF CInv
<1> HIDE DEF d
<1>5. Stands(c) /\ Waits(c) /\ c.opcl \in Program \cup {Nothing}
  BY DEF DInv
<1>6. /\ ReadyB(c) => ReadyB(d)
      /\ ReadyX(c) => ReadyX(d)
      /\ Executed(c) => Executed(d)
  BY <1>2, <1>3, <1>4 DEF ReadyB, ReadyX, Executed, Quiet
<1>7. Stands(d)
  BY <1>2, <1>3, <1>5, <1>6 DEF Stands
<1>8. Waits(d)
  BY <1>2, <1>5 DEF Waits
<1> QED
  BY <1>1, <1>2, <1>5, <1>7, <1>8 DEF DInv, d

\* A round of a run, as the two loops make it.
LEMMA RunRounds ==
  Run => \E i \in Upcoming(dcpu) : \E v \in Value(i) : \E n :
            dcpu' = Round(dcpu, n, i, v)
  BY DEF Run, TickCycle, StepCycle

LEMMA RoundKeeps ==
  ASSUME NEW c, DInv(c), NEW n, NEW i \in Upcoming(c), NEW v
  PROVE  DInv(Round(c, n, i, v))
<1>1. CInv(c) /\ i.op \in Ops
  BY ProgramOps DEF DInv, CInv, Upcoming
<1>2. CInv(Round(c, n, i, v))
  BY <1>1, RoundHolds
<1> QED
  BY <1>2, RoundStands DEF DInv

LEMMA InstructionSteps == DInv(dcpu) /\ [DcpuNext]_dcpuVars => DInv(dcpu')
<1> SUFFICES ASSUME DInv(dcpu), [DcpuNext]_dcpuVars PROVE DInv(dcpu')
  OBVIOUS
<1>1. CASE dcpu' = dcpu
  BY <1>1
<1>2. CASE Run
  BY <1>2, RunRounds, RoundKeeps
<1>3. CASE Devices
  BY <1>3, OfferStands DEF Devices, DcpuOffer
<1>4. CASE DcpuReset
  BY <1>4, ResetStands DEF DcpuReset
<1>5. CASE CallStep \/ \E n \in 1 .. MaxSlice : CallTick(n)
  BY <1>5, <1>1 DEF CallStep, CallTick
<1> QED
  BY <1>1, <1>2, <1>3, <1>4, <1>5 DEF DcpuNext, Clock, dcpuVars

\* In every phase the words passed, the address registers and the cycles left are those
\* of the instruction that was fetched, however calls slice it, whatever interrupts come.
THEOREM InstructionInvariant == DcpuSpec => []DInv(dcpu)
<1>1. DcpuInit => DInv(dcpu)
  BY ResetStands DEF DcpuInit
<1>2. DInv(dcpu) /\ [DcpuNext]_dcpuVars => DInv(dcpu)'
  BY InstructionSteps
<1> QED
  BY <1>1, <1>2, PTL DEF DcpuSpec

-----------------------------------------------------------------------------
LEMMA WordsOf ==
  ASSUME NEW i \in Instr
  PROVE  /\ Disassembled(i) = skipadd(i)
         /\ i.a # "regnw" => WordA(i) + WordB(i) = skipadd(i)
         /\ i.a = "regnw" => WordA(i) + WordB(i) + 1 = skipadd(i)
<1>1. /\ NextWord("none") = 0
      /\ i.a \in Operand \cup {"none"}
  BY DEF NextWord, HasNextWord, Instr, Operand
<1>2. NextWord(i.a) \in Nat /\ NextWord(i.b) \in Nat
  BY DEF NextWord
<1>3. i.op \in OneOp => i.op \notin TwoOp
  BY DEF TwoOp, OneOp, Arith, Test, Unary
<1>4. i.op \in NoOp => i.op \notin TwoOp /\ i.op \notin OneOp
  BY DEF TwoOp, OneOp, NoOp, Arith, Test, Unary
<1>5. \/ i.op \in TwoOp
      \/ i.op \in OneOp /\ i.b = "none"
      \/ i.op \in NoOp /\ i.a = "none" /\ i.b = "none"
  BY DEF Instr
<1>6. Disassembled(i) = skipadd(i)
  <2>1. CASE i.op \in TwoOp
    BY <2>1 DEF Disassembled, skipadd
  <2>2. CASE i.op \in OneOp /\ i.b = "none"
    BY <2>2, <1>1, <1>2, <1>3 DEF Disassembled, skipadd
  <2>3. CASE i.op \in NoOp /\ i.a = "none" /\ i.b = "none"
    BY <2>3, <1>1, <1>4 DEF Disassembled, skipadd
  <2> QED
    BY <1>5, <2>1, <2>2, <2>3
<1>7. /\ i.a # "regnw" => WordA(i) = NextWord(i.a)
      /\ i.a = "regnw" => WordA(i) = 0 /\ NextWord(i.a) = 1
  BY DEF WordA, NextWord, HasNextWord
<1> QED
  BY <1>2, <1>6, <1>7 DEF WordB, skipadd

\* Running an instruction and skipping it pass the words the disassembler shows, in any
\* program; but an operand a that is [REG + nextword] is run as a register, a word less.
THEOREM WordsMatch == DcpuSpec => []WordsPassed
<1>1. DInv(dcpu) => WordsPassed
  <2> SUFFICES ASSUME DInv(dcpu), dcpu.phase = "OPFETCH"
               PROVE  \/ dcpu.words = Disassembled(dcpu.opcl)
                      \/ dcpu.opcl.a = "regnw" /\ dcpu.words + 1 = Disassembled(dcpu.opcl)
    BY DEF WordsPassed
  <2>1. dcpu.opcl \in Instr
    BY ProgramOps DEF DInv
  <2>2. dcpu.words \in {WordA(dcpu.opcl) + WordB(dcpu.opcl), skipadd(dcpu.opcl)}
    BY DEF DInv, Stands
  <2> QED
    BY <2>1, <2>2, WordsOf
<1> QED
  BY <1>1, InstructionInvariant, PTL

\* A result is stored at the address of its own operand, in any program; but HWR stores
\* it at that of operand b (dcpu16n.cpp:556), and a unary operation on an operand that
\* was run as a register at one of an earlier instruction.
THEOREM StoresMatch == DcpuSpec => []StoresAtOperand
<1>1. DInv(dcpu) => StoresAtOperand
  <2> SUFFICES ASSUME DInv(dcpu) PROVE StoresAtOperand
    OBVIOUS
  <2> DEFINE i == dcpu.opcl
             own == IF i.op \in Arith THEN "b" ELSE "a"
  <2>1. i \in Instr /\ i.op \in Ops /\ dcpu.phase \in Phase
    BY ProgramOps DEF DInv, CInv
  <2>2. dcpu.stored \in {"none", StoreAt(i)}
    BY <2>1 DEF DInv, Stands, Phase, ReadyB, ReadyX, Executed
  <2>3. IF Astray(i) THEN StoreAt(i) # own ELSE StoreAt(i) \in {"none", own}
    <3>1. CASE i.op \in Arith
      <4>1. i.op \notin OneOp /\ i.op \notin Unary /\ i.op # "HWR"
        BY <3>1 DEF Arith, OneOp, Unary
      <4> QED
        BY <3>1, <4>1 DEF Astray, StoreAt, Writes, Target, AddrB
    <3>2. CASE i.op \in Unary
      <4>1. i.op \notin Arith /\ i.op \in OneOp /\ i.op # "HWR"
        BY <3>2 DEF Arith, OneOp, Unary
      <4> QED
        BY <3>2, <4>1 DEF Astray, StoreAt, Writes, Target, AddrA, InMemory
    <3>3. CASE i.op = "HWR"
      <4>1. i.op \notin Arith /\ i.op \notin OneOp
        BY <3>3 DEF Arith, OneOp, Unary
      <4> QED
        BY <3>3, <4>1 DEF Astray, StoreAt, Writes, Target, AddrB
    <3>4. CASE i.op \notin Arith \cup Unary \cup {"HWR"}
      BY <3>4 DEF Astray, StoreAt, Writes
    <3> QED
      BY <3>1, <3>2, <3>3, <3>4
  <2> QED
    BY <2>2, <2>3 DEF StoresAtOperand
<1> QED
  BY <1>1, InstructionInvariant, PTL

-----------------------------------------------------------------------------
\* A call of Step has counted no more rounds than it takes to get where it is.
Counted ==
  /\ call.kind \in {"idle", "tick", "step"} /\ call = [f \in {"kind", "n"} |-> call[f]]
  /\ call.kind = "step" => call.n \in Nat /\ call.n <= Made(dcpu)

LEMMA MadeBounded ==
  ASSUME NEW c, DInv(c)
  PROVE  Made(c) \in Nat /\ Made(c) <= 5 + cycletable[c.opcl.op]
<1>1. cycletable[c.opcl.op] \in Nat
  <2>1. c.opcl.op \in Ops
    BY DEF DInv, CInv, Cpu
  <2> QED
    BY <2>1, QAssumption DEF cycletable, Ops
<1>2. CASE c.phase = "EXECW"
  <2>1. c.wait_cycles \in Nat /\ c.wait_cycles <= cycletable[c.opcl.op] - 1
    BY <1>1, <1>2 DEF DInv, Waits
  <2>2. Made(c) = 4 + cycletable[c.opcl.op] - c.wait_cycles
    BY <1>2 DEF Made
  <2> QED
    BY <1>1, <2>1, <2>2
<1>3. CASE c.phase # "EXECW"
  <2>1. Made(c) \in 0 .. 4 \/ Made(c) = 5 + cycletable[c.opcl.op]
    BY <1>3 DEF Made
  <2> QED
    BY <1>1, <2>1
<1> QED
  BY <1>2, <1>3

LEMMA CountSteps == DInv(dcpu) /\ Counted /\ [DcpuNext]_dcpuVars => Counted'
<1> SUFFICES ASSUME DInv(dcpu), Counted, [DcpuNext]_dcpuVars PROVE Counted'
  OBVIOUS
<1>1. CASE UNCHANGED dcpuVars
  BY <1>1 DEF Counted, dcpuVars
<1>3. ASSUME call' = Idle PROVE Counted'
  BY <1>3 DEF Counted, Idle
<1>4. CASE Run
  <2>0. PICK i \in Upcoming(dcpu) : \E v \in Value(i) : TickCycle(i, v) \/ StepCycle(i, v)
    BY <1>4 DEF Run
  <2>1. PICK v \in Value(i) : TickCycle(i, v) \/ StepCycle(i, v)
    BY <2>0
  <2>2. CASE TickCycle(i, v)
    <3>1. call.kind = "tick" /\ call = [f \in {"kind", "n"} |-> call[f]]
      BY <2>2 DEF TickCycle, Counted
    <3>2. ASSUME NEW n, call' = [call EXCEPT !.n = n] PROVE Counted'
      BY <3>1, <3>2 DEF Counted
    <3> QED
      BY <2>2, <1>3, <3>2 DEF TickCycle
  <2>3. CASE StepCycle(i, v)
    <3>1. call.kind = "step" /\ call = [f \in {"kind", "n"} |-> call[f]]
          /\ call.n \in Nat /\ call.n <= Made(dcpu)
      BY <2>3 DEF StepCycle, Counted
    <3>2. dcpu' = Round(dcpu, 0, i, v) /\ DInv(dcpu') /\ Onward(dcpu, dcpu')
      BY <2>3, RoundKeeps, RoundStands DEF StepCycle
    <3>3. CASE call' = Idle
      BY <3>3, <1>3
    <3>4. CASE call' = [call EXCEPT !.n = @ + 1] /\ dcpu'.phase \notin {"OPFETCH", "SLEEP"}
      <4>1. Made(dcpu) + 1 <= Made(dcpu')
        BY <3>2, <3>4 DEF Onward
      <4>2. Made(dcpu) \in Nat /\ Made(dcpu') \in Nat
        BY <3>2, MadeBounded
      <4>3. call.n + 1 \in Nat /\ call.n + 1 <= Made(dcpu')
        BY <3>1, <4>1, <4>2
      <4>4. call'.kind = "step" /\ call'.n = call.n + 1
            /\ call' = [f \in {"kind", "n"} |-> call'[f]]
        BY <3>1, <3>4
      <4> QED
        BY <4>3, <4>4 DEF Counted
    <3> QED
      BY <2>3, <3>3, <3>4 DEF StepCycle
  <2> QED
    BY <2>1, <2>2, <2>3
<1>5. CASE Devices \/ DcpuReset
  BY <1>5, <1>3 DEF Devices, DcpuOffer, DcpuReset
<1>6. CASE CallStep
  <2>1. Made(dcpu) \in Nat
    BY MadeBounded
  <2> QED
    BY <1>6, <2>1 DEF CallStep, Counted
<1>7. CASE \E n \in 1 .. MaxSlice : CallTick(n)
  BY <1>7 DEF CallTick, Counted
<1> QED
  BY <1>1, <1>4, <1>5, <1>6, <1>7 DEF DcpuNext, Clock

\* Step returns within five rounds and the cycles of the instruction, wherever Tick had
\* stopped: every round of Step gets farther in the instruction, or ends it.
THEOREM StepsAreBounded == DcpuSpec => []StepReturns
<1>1. DcpuInit => Counted
  BY DEF DcpuInit, Counted, Idle
<1>2. DInv(dcpu) /\ Counted /\ [DcpuNext]_dcpuVars => Counted'
  BY CountSteps
<1>3. DInv(dcpu) /\ Counted => StepReturns
  <2> SUFFICES ASSUME DInv(dcpu), Counted, call.kind = "step"
               PROVE  call.n <= 5 + cycletable[dcpu.opcl.op]
    BY DEF StepReturns
  <2>1. call.n \in Nat /\ call.n <= Made(dcpu)
    BY DEF Counted
  <2>2. dcpu.opcl.op \in Ops
    BY DEF DInv, CInv, Cpu
  <2>3. cycletable[dcpu.opcl.op] \in Nat
    BY <2>2, QAssumption DEF cycletable, Ops
  <2> QED
    BY <2>1, <2>3, MadeBounded
<1> QED
  BY <1>1, <1>2, <1>3, InstructionInvariant, PTL DEF DcpuSpec

-----------------------------------------------------------------------------
(* Types                                                                   *)

\* The record of the CPU, whatever the words passed.
Cpus ==
  [phase : Phase, phasenext : Phase, wait_cycles : Nat, addradd : BOOLEAN,
   addrdec : BOOLEAN, bytemode : BOOLEAN, skip : BOOLEAN, fire : BOOLEAN,
   qint : BOOLEAN, ia : BOOLEAN, iqp : Index, iqe : Index, iqc : 0 .. QSize + 1,
   intq : [Index -> Msg \cup {NoMsg}], r0 : Msg \cup {NoMsg}, opcl : Instr,
   words : Nat, aca : {"old", "a"}, bca : {"old", "a", "b"},
   wrt : {"none", "a", "b"}, stored : {"none", "old", "a", "b"}]

LEMMA WrapTyped == \A k \in Index : Wrap(k) \in Index
  BY QAssumption DEF Wrap, Index

LEMMA SendTyped ==
  ASSUME NEW c \in Cpus, NEW m \in Msg
  PROVE  SendInterrupt(c, m) \in Cpus
<1>1. [c EXCEPT !.fire = TRUE] \in Cpus
  BY DEF Cpus
<1>2. ASSUME c.iqc <= QSize
      PROVE  [c EXCEPT !.iqc = @ + 1, !.intq[c.iqp] = m, !.iqp = Wrap(@)] \in Cpus
  <2>1. c.iqp \in Index /\ c.iqc \in 0 .. QSize + 1 /\ Wrap(c.iqp) \in Index
        /\ c.intq \in [Index -> Msg \cup {NoMsg}]
    BY WrapTyped DEF Cpus
  <2>2. c.iqc + 1 \in 0 .. QSize + 1
    BY <2>1, <1>2, QAssumption
  <2>3. [c.intq EXCEPT ![c.iqp] = m] \in [Index -> Msg \cup {NoMsg}]
    BY <2>1
  <2> QED
    BY <2>1, <2>2, <2>3 DEF Cpus
<1>3. c.iqc > QSize \/ c.iqc <= QSize
  BY QAssumption DEF Cpus
<1> QED
  BY <1>1, <1>2, <1>3 DEF SendInterrupt

LEMMA WriteBackTyped == ASSUME NEW c \in Cpus PROVE WriteBack(c) \in Cpus
<1> DEFINE d == [c EXCEPT !.phase = IF c.wrt = "none" THEN @ ELSE "OPFETCH",
                          !.bytemode = @ /\ c.wrt = "none"]
<1>1. c.phase \in Phase /\ c.bca \in {"old", "a", "b"}
  BY DEF Cpus
<1>2. ASSUME NEW p \in Phase, NEW b \in BOOLEAN
      PROVE  [c EXCEPT !.phase = p, !.bytemode = b] \in Cpus
  BY DEF Cpus
<1>3. d \in Cpus
  <2>1. (IF c.wrt = "none" THEN c.phase ELSE "OPFETCH") \in Phase
    BY <1>1 DEF Phase
  <2>2. (c.bytemode /\ c.wrt = "none") \in BOOLEAN
    OBVIOUS
  <2> QED
    BY <1>2, <2>1, <2>2
<1> HIDE DEF d
<1>4. [d EXCEPT !.stored = c.bca] \in Cpus
  BY <1>1, <1>3 DEF Cpus
<1> QED
  BY <1>3, <1>4 DEF WriteBack, d

LEMMA DoTwoTyped == ASSUME NEW c \in Cpus, NEW v PROVE DoTwo(c, v) \in Cpus
<1>1. {"UBWRITE", "MARKSKIP"} \subseteq Phase
  BY DEF Phase
<1> QED
  BY <1>1 DEF DoTwo, Cpus

LEMMA DoNoneTyped ==
  ASSUME NEW c \in Cpus, c.opcl.op \in NoOp PROVE DoNone(c) \in Cpus
<1> DEFINE d == [c EXCEPT !.wrt = "none"]
           h == [d EXCEPT !.bytemode = FALSE, !.phase = "SLEEP"]
<1>1. d \in Cpus /\ {"SLEEP", "MARKSKIP"} \subseteq Phase
  BY DEF Cpus, Phase
<1> HIDE DEF d
<1>2. h \in Cpus /\ [d EXCEPT !.phase = "MARKSKIP"] \in Cpus
  BY <1>1 DEF Cpus
<1>4. [d EXCEPT !.bytemode = ~@] \in Cpus
  <2>1. ASSUME NEW b \in BOOLEAN PROVE [d EXCEPT !.bytemode = b] \in Cpus
    BY <1>1 DEF Cpus
  <2>2. (~d.bytemode) \in BOOLEAN
    OBVIOUS
  <2> QED
    BY <2>1, <2>2
<1> HIDE DEF h
<1>3. SendInterrupt(h, HaltMsg) \in Cpus
  BY <1>2, SendTyped, MsgAssumption
<1> QED
  BY <1>1, <1>2, <1>3, <1>4 DEF DoNone, NoOp, d, h

LEMMA DoOneTyped ==
  ASSUME NEW c \in Cpus, NEW v \in Value(c.opcl) PROVE DoOne(c, v) \in Cpus
<1> DEFINE o == c.opcl.op
           d == [c EXCEPT !.bca = c.aca, !.wrt = IF o \in Unary THEN "a" ELSE "none"]
<1>1. c.aca \in {"old", "a"}
  BY DEF Cpus
<1>2. d \in Cpus
  BY <1>1 DEF Cpus
<1>3. DoOne(c, v) =
        CASE o \in Unary          -> [d EXCEPT !.phase = "UBWRITE"]
          [] o \in {"JSR", "BSR"} -> [d EXCEPT !.phase = "EXECJMP"]
          [] o = "RFI"            -> [d EXCEPT !.phase = "EXECRFI"]
          [] o = "HCF"            -> [d EXCEPT !.fire = TRUE]
          [] o = "INT"            -> SendInterrupt(d, v)
          [] o = "IAS"            -> [d EXCEPT !.ia = v]
          [] o = "IAQ"            -> [d EXCEPT !.qint = v]
          [] OTHER                -> d
  BY DEF DoOne
<1> HIDE DEF d
<1>4. /\ [d EXCEPT !.phase = "UBWRITE"] \in Cpus
      /\ [d EXCEPT !.phase = "EXECJMP"] \in Cpus
      /\ [d EXCEPT !.phase = "EXECRFI"] \in Cpus
      /\ [d EXCEPT !.fire = TRUE] \in Cpus
  <2>1. {"UBWRITE", "EXECJMP", "EXECRFI"} \subseteq Phase
    BY DEF Phase
  <2> QED
    BY <1>2, <2>1 DEF Cpus
<1>5. v \in BOOLEAN => [d EXCEPT !.ia = v] \in Cpus /\ [d EXCEPT !.qint = v] \in Cpus
  BY <1>2 DEF Cpus
<1>6. v \in Msg => SendInterrupt(d, v) \in Cpus
  BY <1>2, SendTyped
<1>7. /\ o = "INT" => v \in Msg
      /\ o \in {"IAS", "IAQ"} => v \in BOOLEAN
  BY DEF Value
<1>8. o \in Unary => o \notin {"JSR", "BSR", "RFI", "HCF", "INT", "IAS", "IAQ"}
  BY DEF Unary
<1> QED
  BY <1>2, <1>3, <1>4, <1>5, <1>6, <1>7, <1>8

LEMMA ExecTyped ==
  ASSUME NEW c \in Cpus, NEW v \in Value(c.opcl) PROVE Exec(c, v) \in Cpus
<1> DEFINE o == c.opcl.op
           x == [c EXCEPT !.phase = "OPFETCH"]
           d == IF o \in TwoOp THEN DoTwo(x, v)
                ELSE IF o \in OneOp THEN DoOne(x, v) ELSE DoNone(x)
<1>1. x \in Cpus /\ x.opcl = c.opcl
  BY DEF Cpus, Phase
<1>2. o \in TwoOp \cup OneOp \cup NoOp
  <2>1. c.opcl \in Instr
    BY DEF Cpus
  <2> QED
    BY <2>1 DEF Instr
<1> HIDE DEF x
<1>3. d \in Cpus
  BY <1>1, <1>2, DoTwoTyped, DoOneTyped, DoNoneTyped
<1>4. Exec(c, v) = IF cycletable[o] = 0 THEN WriteBack(d)
                   ELSE [d EXCEPT !.phase = "EXECW", !.phasenext = d.phase,
                                  !.wait_cycles = cycletable[o] - 1]
  BY DEF Exec, x
<1> HIDE DEF d
<1>5. cycletable[o] \in Nat
  BY <1>2, QAssumption DEF cycletable
<1>6. ASSUME NEW n \in Nat
      PROVE  [d EXCEPT !.phase = "EXECW", !.phasenext = d.phase, !.wait_cycles = n] \in Cpus
  <2>1. "EXECW" \in Phase
    BY DEF Phase
  <2> QED
    BY <1>3, <2>1 DEF Cpus
<1>7. cycletable[o] # 0 => cycletable[o] - 1 \in Nat
  BY <1>5
<1> QED
  BY <1>3, <1>4, <1>6, <1>7, WriteBackTyped

LEMMA FetchBTyped ==
  ASSUME NEW c \in Cpus, NEW v \in Value(c.opcl) PROVE FetchB(c, v) \in Cpus
<1> DEFINE d == [c EXCEPT !.addrdec = FALSE, !.bca = IF c.addrdec THEN "b" ELSE @]
<1>1. d \in Cpus /\ d.opcl = c.opcl
  BY DEF Cpus
<1> HIDE DEF d
<1> QED
  BY <1>1, ExecTyped DEF FetchB, d

LEMMA ReadBTyped ==
  ASSUME NEW c \in Cpus, NEW v \in Value(c.opcl) PROVE ReadB(c, v) \in Cpus
<1>1. {"BCUFETCH", "NWBFETCH"} \subseteq Phase
  BY DEF Phase
<1>2. /\ [c EXCEPT !.phase = "BCUFETCH", !.addrdec = TRUE] \in Cpus
      /\ [c EXCEPT !.phase = "NWBFETCH", !.addrdec = TRUE, !.addradd = TRUE] \in Cpus
      /\ [c EXCEPT !.phase = "NWBFETCH", !.addrdec = TRUE] \in Cpus
      /\ [c EXCEPT !.phase = "NWBFETCH"] \in Cpus
  BY <1>1 DEF Cpus
<1> QED
  BY <1>2, FetchBTyped DEF ReadB

LEMMA FetchATyped ==
  ASSUME NEW c \in Cpus, NEW v \in Value(c.opcl) PROVE FetchA(c, v) \in Cpus
<1> DEFINE d == [c EXCEPT !.addrdec = FALSE, !.aca = IF c.addrdec THEN "a" ELSE @]
<1>1. d \in Cpus /\ d.opcl = c.opcl
  BY DEF Cpus
<1> HIDE DEF d
<1> QED
  BY <1>1, ReadBTyped DEF FetchA, d

LEMMA ReadATyped ==
  ASSUME NEW c \in Cpus, NEW v \in Value(c.opcl) PROVE ReadA(c, v) \in Cpus
<1>1. {"ACUFETCH", "NWAFETCH"} \subseteq Phase
  BY DEF Phase
<1>2. /\ [c EXCEPT !.phase = "ACUFETCH", !.addrdec = TRUE] \in Cpus
      /\ [c EXCEPT !.phase = "NWAFETCH", !.addrdec = TRUE, !.addradd = TRUE] \in Cpus
      /\ [c EXCEPT !.phase = "NWAFETCH", !.addrdec = TRUE] \in Cpus
      /\ [c EXCEPT !.phase = "NWAFETCH"] \in Cpus
  BY <1>1 DEF Cpus
<1> QED
  BY <1>2, FetchATyped DEF ReadA

LEMMA NextWordsTyped ==
  ASSUME NEW c \in Cpus PROVE NextWordA(c) \in Cpus /\ NextWordB(c) \in Cpus
<1>1. {"ACUFETCH", "UBREAD", "BCUFETCH", "EXEC"} \subseteq Phase /\ c.words + 1 \in Nat
  BY DEF Phase, Cpus
<1> QED
  BY <1>1 DEF Cpus, NextWordA, NextWordB

LEMMA ForgetTyped == ASSUME NEW c \in Cpus PROVE Forget(c) \in Cpus
<1>1. 0 \in 0 .. QSize + 1
  BY QAssumption
<1> QED
  BY <1>1 DEF Forget, Cpus

LEMMA OpFetchTyped ==
  ASSUME NEW c \in Cpus, NEW i \in Instr, NEW v \in Value(i) PROVE OpFetch(c, i, v) \in Cpus
<1>1. ASSUME NEW e \in Cpus PROVE Fetch(e, i, v) \in Cpus
  <2> DEFINE d == [e EXCEPT !.opcl = i, !.words = 0, !.aca = "old", !.bca = "old",
                            !.wrt = "none", !.stored = "none"]
  <2>1. d \in Cpus /\ d.opcl = i
    BY DEF Cpus
  <2> HIDE DEF d
  <2>2. [d EXCEPT !.phase = "EXECSKIP"] \in Cpus
    BY <2>1 DEF Cpus, Phase
  <2> QED
    BY <2>1, <2>2, ReadATyped DEF Fetch, d
<1>2. [c EXCEPT !.phase = "INTERRUPT"] \in Cpus
  BY DEF Cpus, Phase
<1> QED
  BY <1>1, <1>2, ForgetTyped DEF OpFetch

LEMMA OthersTyped ==
  ASSUME NEW c \in Cpus, NEW n
  PROVE  /\ Sleep(c) \in Cpus /\ ExecWait(c, n) \in Cpus /\ ExecSkip(c) \in Cpus
         /\ [c EXCEPT !.phase = "OPFETCH"] \in Cpus /\ ReturnFromHandler(c) \in Cpus
         /\ [c EXCEPT !.phase = "OPFETCH", !.skip = TRUE] \in Cpus
         /\ c.iqc > 0 => EnterHandler(c) \in Cpus
<1>1. "OPFETCH" \in Phase /\ "INTERRUPT" \in Phase
  BY DEF Phase
<1>2. Sleep(c) \in Cpus
  <2>1. [c EXCEPT !.phase = "INTERRUPT", !.skip = FALSE, !.bytemode = FALSE] \in Cpus
    BY <1>1 DEF Cpus
  <2> QED
    BY <2>1, ForgetTyped DEF Sleep
<1>3. ExecWait(c, n) \in Cpus
  <2>1. c.wait_cycles # 0 => c.wait_cycles - 1 \in Nat
    BY DEF Cpus
  <2>2. [c EXCEPT !.phase = c.phasenext, !.phasenext = "OPFETCH", !.wait_cycles = 0] \in Cpus
    BY <1>1 DEF Cpus
  <2>3. c.wait_cycles # 0 => [c EXCEPT !.wait_cycles = @ - 1] \in Cpus
    BY <2>1 DEF Cpus
  <2> QED
    BY <2>2, <2>3 DEF ExecWait
<1>4. ExecSkip(c) \in Cpus
  <2>1. c.words + skipadd(c.opcl) \in Nat
    BY DEF Cpus, skipadd, NextWord
  <2>2. (c.opcl.op \in Test \cup {"SKP"}) \in BOOLEAN
    OBVIOUS
  <2> QED
    BY <1>1, <2>1, <2>2 DEF ExecSkip, Cpus
<1>5. /\ [c EXCEPT !.phase = "OPFETCH"] \in Cpus /\ ReturnFromHandler(c) \in Cpus
      /\ [c EXCEPT !.phase = "OPFETCH", !.skip = TRUE] \in Cpus
  BY <1>1 DEF ReturnFromHandler, Cpus
<1>6. ASSUME c.iqc > 0 PROVE EnterHandler(c) \in Cpus
  <2>1. c.iqc - 1 \in 0 .. QSize + 1
    BY <1>6, QAssumption DEF Cpus
  <2>2. Wrap(c.iqe) \in Index /\ c.intq[c.iqe] \in Msg \cup {NoMsg}
    BY WrapTyped DEF Cpus
  <2> QED
    BY <1>1, <2>1, <2>2 DEF EnterHandler, Cpus
<1> QED
  BY <1>2, <1>3, <1>4, <1>5, <1>6

LEMMA RoundTyped ==
  ASSUME NEW c \in Cpus, DInv(c), NEW n, NEW i \in Upcoming(c), NEW v \in Value(i)
  PROVE  Round(c, n, i, v) \in Cpus
<1>1. i \in Instr /\ c.phase \in Phase
  BY ProgramAssumption DEF Upcoming, Cpus
<1>2. CASE c.phase = "OPFETCH"
  BY <1>1, <1>2, OpFetchTyped DEF Round
<1>3. CASE c.phase # "OPFETCH"
  <2>1. v \in Value(c.opcl)
    BY <1>3 DEF Upcoming
  <2>2. CASE c.phase \in {"NWAFETCH", "NWBFETCH", "ACUFETCH", "UBREAD", "BCUFETCH", "EXEC",
                          "UBWRITE"}
    BY <2>1, <2>2, NextWordsTyped, FetchATyped, ReadBTyped, FetchBTyped, ExecTyped,
       WriteBackTyped DEF Round
  <2>3. CASE c.phase \in {"EXECW", "SLEEP", "EXECSKIP", "EXECJMP", "EXECRFI", "MARKSKIP"}
    BY <2>3, OthersTyped DEF Round
  <2>4. CASE c.phase = "INTERRUPT"
    <3>1. c.iqc > 0
      BY <2>4 DEF DInv, CInv, Clean
    <3> QED
      BY <2>4, <3>1, OthersTyped DEF Round
  <2> QED
    BY <1>1, <1>3, <2>2, <2>3, <2>4 DEF Phase
<1> QED
  BY <1>2, <1>3

LEMMA ResetTyped ==
  ASSUME NEW c, c.intq \in [Index -> Msg \cup {NoMsg}] PROVE ResetState(c) \in Cpus
<1>1. 0 \in Index /\ 0 \in 0 .. QSize + 1 /\ NoMsg \in Msg \cup {NoMsg}
  BY QAssumption DEF Index
<1>2. Nothing \in Instr /\ "OPFETCH" \in Phase
  BY ProgramOps DEF Phase
<1> QED
  BY <1>1, <1>2 DEF ResetState, Cpus

LEMMA CpuSteps == dcpu \in Cpus /\ DInv(dcpu) /\ [DcpuNext]_dcpuVars => dcpu' \in Cpus
<1> SUFFICES ASSUME dcpu \in Cpus, DInv(dcpu), [DcpuNext]_dcpuVars PROVE dcpu' \in Cpus
  OBVIOUS
<1>1. CASE dcpu' = dcpu
  BY <1>1
<1>2. CASE Run
  BY <1>2, RunRounds, RoundTyped
<1>3. CASE Devices
  BY <1>3, SendTyped DEF Devices, DcpuOffer
<1>4. CASE DcpuReset
  <2>1. dcpu.intq \in [Index -> Msg \cup {NoMsg}]
    BY DEF Cpus
  <2> QED
    BY <1>4, <2>1, ResetTyped DEF DcpuReset
<1>5. CASE CallStep \/ \E n \in 1 .. MaxSlice : CallTick(n)
  BY <1>5, <1>1 DEF CallStep, CallTick
<1> QED
  BY <1>1, <1>2, <1>3, <1>4, <1>5 DEF DcpuNext, Clock, dcpuVars

CallTypes == {Idle} \cup [kind : {"tick"}, n : 1 .. MaxSlice] \cup [kind : {"step"}, n : Nat]

\* The cycles left are fewer than those there were.
LEMMA LeftShrinks ==
  ASSUME NEW c \in Cpus, NEW n \in Nat
  PROVE  Left(c, n) \in 0 .. n
<1>1. c.wait_cycles \in Nat
  BY DEF Cpus
<1> QED
  BY <1>1 DEF Left

LEMMA CallSteps ==
  dcpu \in Cpus /\ call \in CallTypes /\ [DcpuNext]_dcpuVars => call' \in CallTypes
<1> SUFFICES ASSUME dcpu \in Cpus, call \in CallTypes, [DcpuNext]_dcpuVars PROVE call' \in CallTypes
  OBVIOUS
<1>1. CASE call' = call
  BY <1>1
<1>2. ASSUME call' = Idle PROVE call' \in CallTypes
  BY <1>2 DEF CallTypes
<1>3. CASE Run
  <2>0. PICK i \in Upcoming(dcpu) : \E v \in Value(i) : TickCycle(i, v) \/ StepCycle(i, v)
    BY <1>3 DEF Run
  <2>1. PICK v \in Value(i) : TickCycle(i, v) \/ StepCycle(i, v)
    BY <2>0
  <2>2. CASE TickCycle(i, v)
    <3> DEFINE n == Left(dcpu, call.n - 1)
    <3>1. call \in [kind : {"tick"}, n : 1 .. MaxSlice]
      BY <2>2 DEF TickCycle, CallTypes, Idle
    <3>2. call.n \in 1 .. MaxSlice /\ call.n - 1 \in Nat
      BY <3>1, SliceAssumption
    <3>3. n \in 0 .. call.n - 1
      BY <3>2, LeftShrinks
    <3>4. call' = Idle \/ (n # 0 /\ call' = [call EXCEPT !.n = n])
      BY <2>2 DEF TickCycle
    <3> HIDE DEF n
    <3>5. n # 0 => n \in 1 .. MaxSlice
      BY <3>2, <3>3, SliceAssumption
    <3> QED
      BY <1>2, <3>1, <3>4, <3>5 DEF CallTypes
  <2>3. CASE StepCycle(i, v)
    <3>1. call \in [kind : {"step"}, n : Nat]
      BY <2>3 DEF StepCycle, CallTypes, Idle
    <3> QED
      BY <1>2, <2>3, <3>1 DEF StepCycle, CallTypes
  <2> QED
    BY <2>1, <2>2, <2>3
<1>4. CASE Devices \/ DcpuReset
  BY <1>4, <1>1 DEF Devices, DcpuOffer, DcpuReset
<1>5. CASE CallStep \/ \E n \in 1 .. MaxSlice : CallTick(n)
  BY <1>5 DEF CallStep, CallTick, CallTypes
<1> QED
  BY <1>1, <1>3, <1>4, <1>5 DEF DcpuNext, Clock, dcpuVars

\* The words of an instruction are three at most.
LEMMA WordsBounded == ASSUME NEW c, DInv(c) PROVE c.words \in 0 .. 2
<1>1. /\ WordA(c.opcl) \in 0 .. 1 /\ WordB(c.opcl) \in 0 .. 1
      /\ skipadd(c.opcl) \in 0 .. 2
  BY DEF WordA, WordB, skipadd, NextWord
<1>2. WordA(c.opcl) + WordB(c.opcl) \in 0 .. 2
  BY <1>1
<1>3. c.words \in {0, WordA(c.opcl), WordA(c.opcl) + WordB(c.opcl), skipadd(c.opcl)}
  BY DEF DInv, CInv, Stands, Phase, ReadyB, ReadyX, Executed
<1> QED
  BY <1>1, <1>2, <1>3

LEMMA TypesStay == DcpuSpec => [](dcpu \in Cpus /\ call \in CallTypes)
<1>1. DcpuInit => dcpu \in Cpus /\ call \in CallTypes
  <2> SUFFICES ASSUME DcpuInit PROVE dcpu \in Cpus /\ call \in CallTypes
    OBVIOUS
  <2> DEFINE c == [intq |-> [k \in Index |-> NoMsg], iqp |-> 0]
  <2>1. c.intq \in [Index -> Msg \cup {NoMsg}]
    OBVIOUS
  <2>2. dcpu = ResetState(c) /\ call = Idle
    BY DEF DcpuInit
  <2> QED
    BY <2>1, <2>2, ResetTyped DEF CallTypes
<1>2. dcpu \in Cpus /\ call \in CallTypes /\ DInv(dcpu) /\ [DcpuNext]_dcpuVars
        => (dcpu \in Cpus /\ call \in CallTypes)'
  BY CpuSteps, CallSteps DEF CallTypes, Idle
<1> QED
  BY <1>1, <1>2, InstructionInvariant, PTL DEF DcpuSpec

\* The indices stay in the ring, the count within one of its size, and no instruction
\* passes more than two words, for any size of the ring and any program.
THEOREM DcpuTypes == DcpuSpec => []DcpuTypeOK
<1>1. DInv(dcpu) /\ dcpu \in Cpus /\ call \in CallTypes => DcpuTypeOK
  <2> SUFFICES ASSUME DInv(dcpu), dcpu \in Cpus, call \in CallTypes PROVE DcpuTypeOK
    OBVIOUS
  <2>1. dcpu \in DcpuState
    BY WordsBounded DEF Cpus, DcpuState
  <2> QED
    BY <2>1 DEF DcpuTypeOK, CallTypes
<1> QED
  BY <1>1, TypesStay, InstructionInvariant, PTL


\* Only the clock changes "call", and no Step counts further than five rounds and the
\* longest cycles: the fairness of DcpuFairSpec is that of Clock.
THEOREM ClockIsCalls == DcpuSpec => [][call' # call => Clock /\ call' \in Calls]_dcpuVars
<1>1. ASSUME dcpu \in Cpus, call \in CallTypes, StepReturns PROVE call \in Calls
  <2>1. dcpu.opcl.op \in TwoOp \cup OneOp \cup NoOp
    BY <1>1 DEF Cpus, Instr
  <2>2. cycletable[dcpu.opcl.op] \in 0 .. 9 + HcfCycles
    BY <2>1, QAssumption DEF cycletable
  <2> QED
    BY <1>1, <2>2, QAssumption DEF CallTypes, Calls, StepReturns
<1>2. DcpuSpec => [](call \in Calls)
  BY <1>1, TypesStay, StepsAreBounded, PTL
<1>3. (call \in Calls)' /\ [DcpuNext]_dcpuVars
        => [call' # call => Clock /\ call' \in Calls]_dcpuVars
  BY DEF Calls, Idle, DcpuNext, Devices, DcpuOffer, DcpuReset
<1> QED
  BY <1>2, <1>3, PTL DEF DcpuSpec

-----------------------------------------------------------------------------
(* The ring of messages                                                    *)

\* The ring and the last message taken are the same.
Kept(c, d) ==
  d.iqp = c.iqp /\ d.iqe = c.iqe /\ d.iqc = c.iqc /\ d.intq = c.intq /\ d.r0 = c.r0

\* Executing may send one message.
Passes(c, d) == Kept(c, d) \/ \E m \in Msg : Kept(SendInterrupt(c, m), d)

LEMMA SendKept ==
  ASSUME NEW c \in Cpus, NEW d \in Cpus, Kept(c, d), c.ia <=> d.ia, NEW m
  PROVE  Kept(SendInterrupt(c, m), SendInterrupt(d, m))
<1>1. c.ia = d.ia
  BY DEF Cpus
<1>2. SendInterrupt(c, m).r0 = c.r0 /\ SendInterrupt(c, m).iqe = c.iqe
      /\ SendInterrupt(d, m).r0 = d.r0 /\ SendInterrupt(d, m).iqe = d.iqe
  BY DEF SendInterrupt, Cpus
<1>3. \A x \in Cpus :
        /\ x.ia /\ ~(x.iqc > QSize) =>
             /\ SendInterrupt(x, m).iqc = x.iqc + 1
             /\ SendInterrupt(x, m).iqp = Wrap(x.iqp)
             /\ SendInterrupt(x, m).intq = [x.intq EXCEPT ![x.iqp] = m]
        /\ ~x.ia \/ x.iqc > QSize =>
             /\ SendInterrupt(x, m).iqc = x.iqc
             /\ SendInterrupt(x, m).iqp = x.iqp
             /\ SendInterrupt(x, m).intq = x.intq
  BY DEF SendInterrupt, Cpus
<1>4. d.iqp = c.iqp /\ d.iqe = c.iqe /\ d.iqc = c.iqc /\ d.intq = c.intq /\ d.r0 = c.r0
  BY DEF Kept
<1>5. CASE c.ia /\ ~(c.iqc > QSize)
  <2>1. d.ia /\ ~(d.iqc > QSize)
    BY <1>1, <1>4, <1>5
  <2>2. /\ SendInterrupt(c, m).iqc = c.iqc + 1 /\ SendInterrupt(c, m).iqp = Wrap(c.iqp)
        /\ SendInterrupt(c, m).intq = [c.intq EXCEPT ![c.iqp] = m]
    BY <1>3, <1>5
  <2>3. /\ SendInterrupt(d, m).iqc = d.iqc + 1 /\ SendInterrupt(d, m).iqp = Wrap(d.iqp)
        /\ SendInterrupt(d, m).intq = [d.intq EXCEPT ![d.iqp] = m]
    BY <1>3, <2>1
  <2> QED
    BY <1>2, <1>4, <2>2, <2>3 DEF Kept
<1>6. CASE ~c.ia \/ c.iqc > QSize
  <2>1. ~d.ia \/ d.iqc > QSize
    BY <1>1, <1>4, <1>6
  <2> QED
    BY <1>2, <1>3, <1>4, <1>6, <2>1 DEF Kept
<1> QED
  BY <1>5, <1>6

LEMMA PassesAfter ==
  ASSUME NEW c \in Cpus, NEW x \in Cpus, NEW d, Kept(c, x), x.ia <=> c.ia, Passes(x, d)
  PROVE  Passes(c, d)
<1>1. \A m : Kept(SendInterrupt(c, m), SendInterrupt(x, m))
  BY SendKept
<1>2. Kept(x, d) => Kept(c, d)
  BY DEF Kept
<1>3. \A m : Kept(SendInterrupt(x, m), d) => Kept(SendInterrupt(c, m), d)
  BY <1>1 DEF Kept
<1> QED
  BY <1>2, <1>3 DEF Passes

LEMMA PassesThen ==
  ASSUME NEW c, NEW d, NEW e, Passes(c, d), Kept(d, e)
  PROVE  Passes(c, e)
<1>1. Kept(c, d) => Kept(c, e)
  BY DEF Kept
<1>2. \A m : Kept(SendInterrupt(c, m), d) => Kept(SendInterrupt(c, m), e)
  BY DEF Kept
<1> QED
  BY <1>1, <1>2 DEF Passes

LEMMA WriteBackKept == ASSUME NEW c \in Cpus PROVE Kept(c, WriteBack(c))
<1> DEFINE d == [c EXCEPT !.phase = IF c.wrt = "none" THEN @ ELSE "OPFETCH",
                          !.bytemode = @ /\ c.wrt = "none"]
           e == [d EXCEPT !.stored = c.bca]
<1>1. Kept(c, d) /\ d = [f \in Fields |-> d[f]]
  BY DEF Cpus, Fields, Kept
<1> HIDE DEF d
<1>2. Kept(c, e)
  BY <1>1 DEF Fields, Kept
<1> QED
  BY <1>1, <1>2 DEF WriteBack, d

LEMMA DoTwoPasses == ASSUME NEW c \in Cpus, NEW v PROVE Passes(c, DoTwo(c, v))
BY DEF DoTwo, Cpus, Kept, Passes

LEMMA DoNonePasses ==
  ASSUME NEW c \in Cpus, c.opcl.op \in NoOp
  PROVE  Passes(c, DoNone(c))
<1> DEFINE d == [c EXCEPT !.wrt = "none"]
           h == [d EXCEPT !.bytemode = FALSE, !.phase = "SLEEP"]
           same(x) == Kept(c, x) /\ x.ia = c.ia
<1>1. d \in Cpus /\ same(d)
  BY DEF Cpus, Kept
<1> HIDE DEF d
<1>2. h \in Cpus /\ same(h)
  <2>1. "SLEEP" \in Phase
    BY DEF Phase
  <2>2. h \in Cpus
    BY <1>1, <2>1 DEF Cpus
  <2> QED
    BY <1>1, <2>2 DEF Cpus, Kept
<1>3. same([d EXCEPT !.bytemode = ~@]) /\ same([d EXCEPT !.phase = "MARKSKIP"])
  BY <1>1 DEF Cpus, Kept
<1> HIDE DEF h
<1>4. Passes(c, SendInterrupt(h, HaltMsg))
  <2>1. Kept(SendInterrupt(c, HaltMsg), SendInterrupt(h, HaltMsg))
    BY <1>2, SendKept
  <2> QED
    BY <2>1, MsgAssumption DEF Passes
<1>5. \A x : same(x) => Passes(c, x)
  BY DEF Passes
<1>6. /\ c.opcl.op = "HLT" => DoNone(c) \in {h, SendInterrupt(h, HaltMsg)}
      /\ c.opcl.op # "HLT" =>
           DoNone(c) \in {h, [d EXCEPT !.bytemode = ~@], [d EXCEPT !.phase = "MARKSKIP"]}
  BY DEF DoNone, NoOp, d, h
<1> QED
  BY <1>2, <1>3, <1>4, <1>5, <1>6

LEMMA DoOnePasses ==
  ASSUME NEW c \in Cpus, NEW v \in Value(c.opcl)
  PROVE  Passes(c, DoOne(c, v))
<1> DEFINE o == c.opcl.op
           d == [c EXCEPT !.bca = c.aca, !.wrt = IF o \in Unary THEN "a" ELSE "none"]
<1>1. d \in Cpus /\ Kept(c, d) /\ d.ia = c.ia
  <2>1. c.aca \in {"old", "a"}
    BY DEF Cpus
  <2>2. d \in Cpus
    BY <2>1 DEF Cpus
  <2> QED
    BY <2>2 DEF Cpus, Kept
<1>2. /\ o \in Unary => DoOne(c, v) = [d EXCEPT !.phase = "UBWRITE"]
      /\ o = "INT" => DoOne(c, v) = SendInterrupt(d, v)
      /\ o \notin Unary /\ o # "INT" =>
           DoOne(c, v) \in {[d EXCEPT !.phase = "EXECJMP"], [d EXCEPT !.phase = "EXECRFI"],
                            [d EXCEPT !.fire = TRUE], [d EXCEPT !.ia = v],
                            [d EXCEPT !.qint = v], d}
  BY DEF DoOne, Unary
<1> HIDE DEF d
<1>3. /\ Kept(c, [d EXCEPT !.phase = "UBWRITE"]) /\ Kept(c, [d EXCEPT !.phase = "EXECJMP"])
      /\ Kept(c, [d EXCEPT !.phase = "EXECRFI"])
  BY <1>1 DEF Cpus, Kept
<1>4. /\ Kept(c, [d EXCEPT !.fire = TRUE]) /\ Kept(c, [d EXCEPT !.ia = v])
      /\ Kept(c, [d EXCEPT !.qint = v])
  BY <1>1 DEF Cpus, Kept
<1>5. o = "INT" => Passes(c, SendInterrupt(d, v))
  <2> SUFFICES ASSUME o = "INT" PROVE Passes(c, SendInterrupt(d, v))
    OBVIOUS
  <2>1. v \in Msg
    BY DEF Value
  <2>2. Kept(SendInterrupt(c, v), SendInterrupt(d, v))
    BY <1>1, SendKept
  <2> QED
    BY <2>1, <2>2 DEF Passes
<1>6. \A x : Kept(c, x) => Passes(c, x)
  BY DEF Passes
<1> QED
  BY <1>1, <1>2, <1>3, <1>4, <1>5, <1>6

LEMMA ExecPasses ==
  ASSUME NEW c \in Cpus, NEW v \in Value(c.opcl)
  PROVE  Passes(c, Exec(c, v))
<1> DEFINE o == c.opcl.op
           x == [c EXCEPT !.phase = "OPFETCH"]
           d == IF o \in TwoOp THEN DoTwo(x, v)
                ELSE IF o \in OneOp THEN DoOne(x, v) ELSE DoNone(x)
           w(n) == [d EXCEPT !.phase = "EXECW", !.phasenext = d.phase, !.wait_cycles = n]
<1>1. x \in Cpus /\ x.opcl = c.opcl /\ Kept(c, x) /\ x.ia = c.ia
  <2>1. "OPFETCH" \in Phase
    BY DEF Phase
  <2> QED
    BY <2>1 DEF Cpus, Kept
<1>2. o \in TwoOp \cup OneOp \cup NoOp
  <2>1. c.opcl \in Instr
    BY DEF Cpus
  <2> QED
    BY <2>1 DEF Instr
<1> HIDE DEF x
<1>3. d \in Cpus
  BY <1>1, <1>2, DoTwoTyped, DoOneTyped, DoNoneTyped
<1>4. Passes(x, d)
  BY <1>1, <1>2, DoTwoPasses, DoOnePasses, DoNonePasses
<1>5. Exec(c, v) = IF cycletable[o] = 0 THEN WriteBack(d) ELSE w(cycletable[o] - 1)
  BY DEF Exec, x
<1> HIDE DEF d
<1>6. ASSUME NEW n PROVE Kept(d, w(n))
  BY <1>3 DEF Cpus, Kept
<1> HIDE DEF w
<1>7. Passes(x, Exec(c, v))
  BY <1>3, <1>4, <1>5, <1>6, WriteBackKept, PassesThen
<1> QED
  BY <1>1, <1>7, PassesAfter

LEMMA FetchBPasses ==
  ASSUME NEW c \in Cpus, NEW v \in Value(c.opcl)
  PROVE  Passes(c, FetchB(c, v))
<1> DEFINE d == [c EXCEPT !.addrdec = FALSE, !.bca = IF c.addrdec THEN "b" ELSE @]
<1>1. d \in Cpus /\ d.opcl = c.opcl /\ Kept(c, d) /\ d.ia = c.ia
  BY DEF Cpus, Kept
<1> HIDE DEF d
<1>2. Passes(d, FetchB(c, v))
  BY <1>1, ExecPasses DEF FetchB, d
<1> QED
  BY <1>1, <1>2, PassesAfter

LEMMA ReadBPasses ==
  ASSUME NEW c \in Cpus, NEW v \in Value(c.opcl)
  PROVE  Passes(c, ReadB(c, v))
<1>1. /\ Kept(c, [c EXCEPT !.phase = "BCUFETCH", !.addrdec = TRUE])
      /\ Kept(c, [c EXCEPT !.phase = "NWBFETCH", !.addrdec = TRUE, !.addradd = TRUE])
      /\ Kept(c, [c EXCEPT !.phase = "NWBFETCH", !.addrdec = TRUE])
      /\ Kept(c, [c EXCEPT !.phase = "NWBFETCH"])
  BY DEF Cpus, Kept
<1>2. \A d : Kept(c, d) => Passes(c, d)
  BY DEF Passes
<1> QED
  BY <1>1, <1>2, FetchBPasses DEF ReadB

LEMMA FetchAPasses ==
  ASSUME NEW c \in Cpus, NEW v \in Value(c.opcl)
  PROVE  Passes(c, FetchA(c, v))
<1> DEFINE d == [c EXCEPT !.addrdec = FALSE, !.aca = IF c.addrdec THEN "a" ELSE @]
<1>1. d \in Cpus /\ d.opcl = c.opcl /\ Kept(c, d) /\ d.ia = c.ia
  BY DEF Cpus, Kept
<1> HIDE DEF d
<1>2. Passes(d, FetchA(c, v))
  BY <1>1, ReadBPasses DEF FetchA, d
<1> QED
  BY <1>1, <1>2, PassesAfter

LEMMA ReadAPasses ==
  ASSUME NEW c \in Cpus, NEW v \in Value(c.opcl)
  PROVE  Passes(c, ReadA(c, v))
<1>1. /\ Kept(c, [c EXCEPT !.phase = "ACUFETCH", !.addrdec = TRUE])
      /\ Kept(c, [c EXCEPT !.phase = "NWAFETCH", !.addrdec = TRUE, !.addradd = TRUE])
      /\ Kept(c, [c EXCEPT !.phase = "NWAFETCH", !.addrdec = TRUE])
      /\ Kept(c, [c EXCEPT !.phase = "NWAFETCH"])
  BY DEF Cpus, Kept
<1>2. \A d : Kept(c, d) => Passes(c, d)
  BY DEF Passes
<1> QED
  BY <1>1, <1>2, FetchAPasses DEF ReadA

\* What a round does to the ring: nothing, forget what waits, send one message while it
\* executes INT or HLT, or take one into a handler.
Turn(c, d) ==
  \/ Passes(c, d)
  \/ ~c.ia /\ Kept(Forget(c), d)
  \/ c.phase = "INTERRUPT" /\ d = EnterHandler(c)

LEMMA OpFetchTurns ==
  ASSUME NEW c \in Cpus, NEW i \in Instr, NEW v \in Value(i)
  PROVE  Turn(c, OpFetch(c, i, v))
<1>1. ASSUME NEW e \in Cpus PROVE Passes(e, Fetch(e, i, v))
  <2> DEFINE d == [e EXCEPT !.opcl = i, !.words = 0, !.aca = "old", !.bca = "old",
                            !.wrt = "none", !.stored = "none"]
             s == [d EXCEPT !.phase = "EXECSKIP"]
  <2>1. d \in Cpus /\ d.opcl = i /\ Kept(e, d) /\ d.ia = e.ia
    BY DEF Cpus, Kept
  <2> HIDE DEF d
  <2>2. Passes(d, s)
    BY <2>1 DEF Passes, Kept, Cpus
  <2>3. Passes(d, ReadA(d, v))
    BY <2>1, ReadAPasses
  <2>4. Fetch(e, i, v) \in {s, ReadA(d, v)}
    BY DEF Fetch, d
  <2> HIDE DEF s
  <2> QED
    BY <2>1, <2>2, <2>3, <2>4, PassesAfter
<1>2. ~c.ia => Turn(c, Fetch(Forget(c), i, v))
  <2> SUFFICES ASSUME ~c.ia PROVE Turn(c, Fetch(Forget(c), i, v))
    OBVIOUS
  <2>1. Passes(Forget(c), Fetch(Forget(c), i, v))
    BY <1>1, ForgetTyped
  <2>2. \A m : SendInterrupt(Forget(c), m) = Forget(c)
    BY DEF SendInterrupt, Forget, Cpus
  <2> QED
    BY <2>1, <2>2 DEF Passes, Turn
<1>3. Turn(c, [c EXCEPT !.phase = "INTERRUPT"])
  BY DEF Turn, Passes, Kept, Cpus
<1>4. Turn(c, Fetch(c, i, v))
  BY <1>1 DEF Turn
<1> QED
  BY <1>2, <1>3, <1>4 DEF OpFetch

LEMMA RoundTurns ==
  ASSUME NEW c \in Cpus, NEW n, NEW i \in Upcoming(c), NEW v \in Value(i)
  PROVE  Turn(c, Round(c, n, i, v))
<1>1. i \in Instr /\ c.phase \in Phase
  BY ProgramAssumption DEF Upcoming, Cpus
<1>0. \A d : Kept(c, d) => Turn(c, d)
  BY DEF Turn, Passes
<1>2. CASE c.phase = "OPFETCH"
  BY <1>1, <1>2, OpFetchTurns DEF Round
<1>3. CASE c.phase # "OPFETCH"
  <2>1. i = c.opcl /\ v \in Value(c.opcl)
    BY <1>3 DEF Upcoming
  <2>2. CASE c.phase \in {"NWAFETCH", "NWBFETCH"}
    <3>1. Kept(c, NextWordA(c)) /\ Kept(c, NextWordB(c))
      BY DEF NextWordA, NextWordB, Kept, Cpus
    <3> QED
      BY <1>0, <2>2, <3>1 DEF Round
  <2>3. CASE c.phase \in {"ACUFETCH", "UBREAD", "BCUFETCH", "EXEC"}
    <3>1. Passes(c, Round(c, n, i, v))
      BY <2>1, <2>3, FetchAPasses, ReadBPasses, FetchBPasses, ExecPasses DEF Round
    <3> QED
      BY <3>1 DEF Turn
  <2>4. CASE c.phase = "UBWRITE"
    BY <1>0, <2>4, WriteBackKept DEF Round
  <2>5. CASE c.phase = "SLEEP"
    <3>1. Round(c, n, i, v) = Sleep(c)
      BY <2>5 DEF Round
    <3>2. /\ Kept(c, c)
          /\ Kept(c, [c EXCEPT !.phase = "INTERRUPT", !.skip = FALSE, !.bytemode = FALSE])
          /\ Kept(Forget(c), Forget(c))
      BY DEF Kept, Cpus
    <3> QED
      BY <1>0, <3>1, <3>2 DEF Sleep, Turn
  <2>6. CASE c.phase = "EXECW"
    <3>1. Kept(c, ExecWait(c, n))
      BY DEF ExecWait, Kept, Cpus
    <3> QED
      BY <1>0, <2>6, <3>1 DEF Round
  <2>7. CASE c.phase \in {"EXECSKIP", "EXECJMP", "EXECRFI", "MARKSKIP"}
    <3>1. Kept(c, ExecSkip(c)) /\ Kept(c, ReturnFromHandler(c))
      BY DEF ExecSkip, ReturnFromHandler, Kept, Cpus
    <3>2. /\ Kept(c, [c EXCEPT !.phase = "OPFETCH"])
          /\ Kept(c, [c EXCEPT !.phase = "OPFETCH", !.skip = TRUE])
      BY DEF Kept, Cpus
    <3> QED
      BY <1>0, <2>7, <3>1, <3>2 DEF Round
  <2>8. CASE c.phase = "INTERRUPT"
    BY <2>8 DEF Round, Turn
  <2> QED
    BY <1>1, <1>3, <2>2, <2>3, <2>4, <2>5, <2>6, <2>7, <2>8 DEF Phase
<1> QED
  BY <1>2, <1>3

-----------------------------------------------------------------------------
\* The index k places after e.
LEMMA Slot ==
  ASSUME NEW e \in Index, NEW k \in 0 .. QSize + 1
  PROVE  /\ e + k < QSize => (e + k) % QSize = e + k
         /\ e + k >= QSize /\ e + k < QSize + QSize => (e + k) % QSize = e + k - QSize
         /\ e + k >= QSize + QSize => k = QSize + 1 /\ e = QSize - 1 /\ (e + k) % QSize = 0
         /\ (e + k) % QSize \in Index
<1>1. QSize \in Nat \ {0} /\ e \in 0 .. QSize - 1
  BY QAssumption DEF Index
<1>2. e + k >= QSize + QSize => k = QSize + 1 /\ e = QSize - 1
  BY <1>1
<1>3. (QSize - 1 + (QSize + 1)) % QSize = 0
  BY <1>1
<1>4. (e + k) % QSize \in 0 .. QSize - 1
  BY <1>1
<1>5. /\ e + k < QSize => (e + k) % QSize = e + k
      /\ e + k >= QSize /\ e + k < QSize + QSize => (e + k) % QSize = e + k - QSize
  BY <1>1
<1> QED
  BY <1>2, <1>3, <1>4, <1>5 DEF Index

\* One place on, seen from the place and from where it is counted.
LEMMA SlotOn ==
  ASSUME NEW e \in Index, NEW k \in 0 .. QSize
  PROVE  /\ (e + (k + 1)) % QSize = Wrap((e + k) % QSize)
         /\ (e + (k + 1)) % QSize = (Wrap(e) + k) % QSize
<1>1. /\ QSize \in Nat \ {0} /\ e \in 0 .. QSize - 1
      /\ k \in 0 .. QSize + 1 /\ k + 1 \in 0 .. QSize + 1 /\ Wrap(e) \in Index
  BY QAssumption, WrapTyped DEF Index
<1>2. /\ e + k < QSize => (e + k) % QSize = e + k
      /\ e + k >= QSize => (e + k) % QSize = e + k - QSize
  BY <1>1, Slot
<1>3. /\ e + (k + 1) < QSize => (e + (k + 1)) % QSize = e + (k + 1)
      /\ e + (k + 1) >= QSize /\ e + (k + 1) < QSize + QSize
           => (e + (k + 1)) % QSize = e + (k + 1) - QSize
      /\ e + (k + 1) >= QSize + QSize => k = QSize /\ e = QSize - 1 /\ (e + (k + 1)) % QSize = 0
  <2>1. \A j \in 0 .. QSize + 1 :
          /\ e + j < QSize => (e + j) % QSize = e + j
          /\ e + j >= QSize /\ e + j < QSize + QSize => (e + j) % QSize = e + j - QSize
          /\ e + j >= QSize + QSize => j = QSize + 1 /\ e = QSize - 1 /\ (e + j) % QSize = 0
    BY Slot
  <2>2. k + 1 = QSize + 1 => k = QSize
    BY <1>1
  <2> QED
    BY <1>1, <2>1, <2>2
<1>4. /\ Wrap(e) + k < QSize => (Wrap(e) + k) % QSize = Wrap(e) + k
      /\ Wrap(e) + k >= QSize => (Wrap(e) + k) % QSize = Wrap(e) + k - QSize
  BY <1>1, Slot DEF Index
<1>5. Wrap(e) = IF e = QSize - 1 THEN 0 ELSE e + 1
  BY <1>1 DEF Wrap
<1>6. \A x \in 0 .. QSize - 1 : Wrap(x) = IF x = QSize - 1 THEN 0 ELSE x + 1
  BY <1>1 DEF Wrap
<1>7. (e + k) % QSize \in 0 .. QSize - 1
  BY <1>1
<1>8. (e + (k + 1)) % QSize = Wrap((e + k) % QSize)
  BY <1>1, <1>2, <1>3, <1>6, <1>7
<1>9. (e + (k + 1)) % QSize = (Wrap(e) + k) % QSize
  BY <1>1, <1>3, <1>4, <1>5
<1> QED
  BY <1>8, <1>9

\* Places less than a round apart differ, a round comes back, and indices that are not
\* equal stay so.
LEMMA SlotsApart ==
  ASSUME NEW e \in Index
  PROVE  /\ \A j, k \in 0 .. QSize - 1 : (e + j) % QSize = (e + k) % QSize => j = k
         /\ \A k \in 0 .. QSize + 1 : (e + k) % QSize = e <=> k % QSize = 0
         /\ (e + 0) % QSize = e /\ (e + QSize) % QSize = e
         /\ \A x, y \in Index : Wrap(x) = Wrap(y) => x = y
<1>1. QSize \in Nat \ {0} /\ e \in 0 .. QSize - 1
  BY QAssumption DEF Index
<1>2. ASSUME NEW j \in 0 .. QSize - 1, NEW k \in 0 .. QSize - 1,
             (e + j) % QSize = (e + k) % QSize
      PROVE  j = k
  <2>1. /\ e + j < QSize => (e + j) % QSize = e + j
        /\ e + j >= QSize => (e + j) % QSize = e + j - QSize
    BY <1>1, Slot
  <2>2. /\ e + k < QSize => (e + k) % QSize = e + k
        /\ e + k >= QSize => (e + k) % QSize = e + k - QSize
    BY <1>1, Slot
  <2> QED
    BY <1>1, <1>2, <2>1, <2>2
<1>3. ASSUME NEW k \in 0 .. QSize + 1 PROVE (e + k) % QSize = e <=> k % QSize = 0
  <2>1. /\ e + k < QSize => (e + k) % QSize = e + k
        /\ e + k >= QSize /\ e + k < QSize + QSize => (e + k) % QSize = e + k - QSize
        /\ e + k >= QSize + QSize => k = QSize + 1 /\ e = QSize - 1 /\ (e + k) % QSize = 0
    BY Slot
  <2>2. /\ k < QSize => k % QSize = k
        /\ k >= QSize /\ k < QSize + QSize => k % QSize = k - QSize
        /\ k >= QSize + QSize => QSize = 1 /\ k % QSize = 0
    <3>1. 0 \in Index /\ 0 + k = k
      BY <1>1 DEF Index
    <3> QED
      BY <1>1, <3>1, Slot
  <2> QED
    BY <1>1, <2>1, <2>2
<1>4. (e + 0) % QSize = e /\ (e + QSize) % QSize = e
  <2>1. 0 \in 0 .. QSize + 1 /\ QSize \in 0 .. QSize + 1 /\ 0 % QSize = 0 /\ QSize % QSize = 0
    BY <1>1
  <2> QED
    BY <1>3, <2>1
<1>5. \A x, y \in Index : Wrap(x) = Wrap(y) => x = y
  BY <1>1 DEF Wrap, Index
<1> QED
  BY <1>2, <1>3, <1>4, <1>5

\* Append and Tail as functions.
LEMMA SeqFunctions ==
  ASSUME NEW T, NEW s \in Seq(T), NEW m \in T
  PROVE  /\ Append(s, m) = [k \in 1 .. Len(s) + 1 |-> IF k \in 1 .. Len(s) THEN s[k] ELSE m]
         /\ s # << >> => Tail(s) = [k \in 1 .. Len(s) - 1 |-> s[k + 1]]
<1>1. Len(s) \in Nat /\ Append(s, m) \in Seq(T) /\ Len(Append(s, m)) = Len(s) + 1
  OBVIOUS
<1>2. ASSUME NEW t \in Seq(T) PROVE t = [k \in 1 .. Len(t) |-> t[k]]
  <2>1. t \in [1 .. Len(t) -> T]
    OBVIOUS
  <2> QED
    BY <2>1
<1>3. Append(s, m) = [k \in 1 .. Len(s) + 1 |-> Append(s, m)[k]]
  BY <1>1, <1>2
<1>4. \A k \in 1 .. Len(s) + 1 :
        Append(s, m)[k] = IF k \in 1 .. Len(s) THEN s[k] ELSE m
  BY <1>1
<1>5. ASSUME s # << >> PROVE Tail(s) = [k \in 1 .. Len(s) - 1 |-> s[k + 1]]
  <2>1. Tail(s) \in Seq(T) /\ Len(Tail(s)) = Len(s) - 1
    BY <1>5
  <2>2. Tail(s) = [k \in 1 .. Len(s) - 1 |-> Tail(s)[k]]
    BY <1>2, <2>1
  <2>3. \A k \in 1 .. Len(s) - 1 : Tail(s)[k] = s[k + 1]
    BY <1>1, <1>5
  <2> QED
    BY <2>2, <2>3
<1>6. Append(s, m) = [k \in 1 .. Len(s) + 1 |-> IF k \in 1 .. Len(s) THEN s[k] ELSE m]
  BY <1>3, <1>4
<1> QED
  BY <1>5, <1>6

\* What waits, as a sequence.
LEMMA WaitingIs ==
  ASSUME NEW c \in Cpus
  PROVE  /\ Waiting(c) \in Seq(Msg \cup {NoMsg}) /\ Len(Waiting(c)) = c.iqc
         /\ DOMAIN Waiting(c) = 1 .. c.iqc
         /\ \A k \in 1 .. c.iqc :
              /\ k - 1 \in 0 .. QSize /\ (c.iqe + k - 1) % QSize = (c.iqe + (k - 1)) % QSize
              /\ (c.iqe + (k - 1)) % QSize \in Index
              /\ Waiting(c)[k] = c.intq[(c.iqe + (k - 1)) % QSize]
<1>1. /\ c.iqe \in Index /\ c.iqc \in 0 .. QSize + 1 /\ QSize \in Nat \ {0}
      /\ c.intq \in [Index -> Msg \cup {NoMsg}]
  BY QAssumption DEF Cpus
<1>2. ASSUME NEW k \in 1 .. c.iqc
      PROVE  /\ k - 1 \in 0 .. QSize /\ c.iqe + k - 1 = c.iqe + (k - 1)
             /\ (c.iqe + (k - 1)) % QSize \in Index
  BY <1>1 DEF Index
<1> QED
  BY <1>1, <1>2 DEF Waiting

\* One message more: at the end, on top of the oldest of a full ring, or beyond the end.
Sent(c, m, d) ==
  \/ Aligned(c) /\ c.iqc < QSize /\ Waiting(d) = Append(Waiting(c), m)
  \/ Aligned(c) /\ c.iqc = QSize /\ Waiting(d) = Append([Waiting(c) EXCEPT ![1] = m], m)
  \/ /\ ~Aligned(c) /\ c.iqc <= QSize
     /\ \E q \in {Waiting(c)} \cup {[Waiting(c) EXCEPT ![k] = m] : k \in DOMAIN Waiting(c)} :
          \E old \in Msg \cup {NoMsg} : Waiting(d) = Append(q, old)

LEMMA SendRings ==
  ASSUME NEW c \in Cpus, c.ia, c.iqc <= QSize, NEW m \in Msg, NEW d \in Cpus,
         Kept(SendInterrupt(c, m), d)
  PROVE  (Aligned(d) <=> Aligned(c)) /\ Sent(c, m, d) /\ d.r0 = c.r0
<1>1. /\ c.iqe \in Index /\ c.iqp \in Index /\ c.iqc \in 0 .. QSize /\ QSize \in Nat \ {0}
      /\ c.intq \in [Index -> Msg \cup {NoMsg}]
  BY QAssumption DEF Cpus
<1>2. SendInterrupt(c, m) = [c EXCEPT !.iqc = @ + 1, !.intq[c.iqp] = m, !.iqp = Wrap(@)]
  BY <1>1 DEF SendInterrupt
<1>3. /\ d.iqc = c.iqc + 1 /\ d.iqe = c.iqe /\ d.iqp = Wrap(c.iqp) /\ d.r0 = c.r0
      /\ d.intq = [c.intq EXCEPT ![c.iqp] = m]
  BY <1>2 DEF Kept, Cpus
<1> DEFINE s == Waiting(c)
           T == Msg \cup {NoMsg}
           last == (c.iqe + c.iqc) % QSize
           slot(k) == (c.iqe + (k - 1)) % QSize
<1>4. last \in Index /\ (c.iqe + (c.iqc + 1)) % QSize = Wrap(last)
  BY <1>1, Slot, SlotOn
<1>5. Aligned(d) <=> Aligned(c)
  BY <1>1, <1>3, <1>4, SlotsApart DEF Aligned
<1>6. /\ s \in Seq(T) /\ Len(s) = c.iqc /\ DOMAIN s = 1 .. c.iqc
      /\ \A k \in 1 .. c.iqc : slot(k) \in Index /\ s[k] = c.intq[slot(k)]
  BY WaitingIs
<1>7. /\ Waiting(d) \in Seq(T) /\ Len(Waiting(d)) = c.iqc + 1
      /\ \A k \in 1 .. c.iqc + 1 : Waiting(d)[k] = d.intq[slot(k)]
  BY <1>3, WaitingIs
<1>8. slot(c.iqc + 1) = last
  <2>1. c.iqe + ((c.iqc + 1) - 1) = c.iqe + c.iqc
    BY <1>1 DEF Index
  <2> QED
    BY <2>1, Zenon
<1>9. ASSUME NEW j \in 1 .. c.iqc, NEW k \in 1 .. c.iqc, slot(j) = slot(k) PROVE j = k
  <2>1. j - 1 \in 0 .. QSize - 1 /\ k - 1 \in 0 .. QSize - 1
    BY <1>1
  <2>2. j - 1 = k - 1
    BY <1>1, <1>9, <2>1, SlotsApart
  <2> QED
    BY <2>2
<1>10. /\ \A k \in 1 .. c.iqc :
            Waiting(d)[k] = IF slot(k) = c.iqp THEN m ELSE s[k]
       /\ Waiting(d)[c.iqc + 1] = IF last = c.iqp THEN m ELSE c.intq[last]
  <2>1. \A x \in Index : d.intq[x] = IF x = c.iqp THEN m ELSE c.intq[x]
    BY <1>1, <1>3
  <2>2. c.iqc + 1 \in 1 .. c.iqc + 1 /\ \A k \in 1 .. c.iqc : k \in 1 .. c.iqc + 1
    BY <1>1
  <2> HIDE DEF s, slot, last
  <2> QED
    BY <1>4, <1>6, <1>7, <1>8, <2>1, <2>2
<1> HIDE DEF slot, T
<1>11. ASSUME NEW q \in Seq(T), NEW x \in T, Len(q) = c.iqc,
              \A k \in 1 .. c.iqc : Waiting(d)[k] = q[k], Waiting(d)[c.iqc + 1] = x
       PROVE  Waiting(d) = Append(q, x)
  <2>1. Append(q, x) \in Seq(T) /\ Len(Append(q, x)) = c.iqc + 1
    BY <1>11
  <2>2. \A k \in 1 .. c.iqc + 1 : Append(q, x)[k] = IF k \in 1 .. c.iqc THEN q[k] ELSE x
    BY <1>1, <1>11
  <2>3. \A k \in 1 .. c.iqc + 1 : Waiting(d)[k] = Append(q, x)[k]
    BY <1>1, <1>11, <2>2
  <2> QED
    BY <1>7, <2>1, <2>3
<1>12. m \in T /\ c.intq[last] \in T
  BY <1>1, <1>4 DEF T
<1>13. ASSUME NEW k \in 1 .. c.iqc
       PROVE  /\ [s EXCEPT ![k] = m] \in Seq(T) /\ Len([s EXCEPT ![k] = m]) = c.iqc
              /\ \A j \in 1 .. c.iqc : [s EXCEPT ![k] = m][j] = IF j = k THEN m ELSE s[j]
  <2> HIDE DEF s
  <2> QED
    BY <1>6, <1>12
<1> HIDE DEF s
<1>14. CASE Aligned(c) /\ c.iqc < QSize
  <2>1. last = c.iqp
    BY <1>14 DEF Aligned
  <2>2. ASSUME NEW k \in 1 .. c.iqc PROVE slot(k) # c.iqp
    <3>1. k - 1 \in 0 .. QSize - 1 /\ c.iqc \in 0 .. QSize - 1 /\ k - 1 # c.iqc
      BY <1>1, <1>14
    <3> QED
      BY <1>1, <2>1, <3>1, SlotsApart DEF slot
  <2>3. Waiting(d) = Append(s, m)
    BY <1>6, <1>10, <1>11, <1>12, <2>1, <2>2
  <2> QED
    BY <1>3, <1>5, <1>14, <2>3 DEF Sent, s
<1>15. CASE Aligned(c) /\ c.iqc = QSize
  <2>1. last = c.iqp /\ c.iqp = c.iqe
    BY <1>1, <1>15, SlotsApart DEF Aligned
  <2>2. 1 \in 1 .. c.iqc /\ slot(1) = c.iqp
    BY <1>1, <1>15, <2>1, SlotsApart DEF slot
  <2>3. \A k \in 1 .. c.iqc : slot(k) = c.iqp <=> k = 1
    BY <1>9, <2>2
  <2>4. \A k \in 1 .. c.iqc : Waiting(d)[k] = [s EXCEPT ![1] = m][k]
    BY <1>10, <1>13, <2>2, <2>3
  <2>5. Waiting(d) = Append([s EXCEPT ![1] = m], m)
    BY <1>10, <1>11, <1>12, <1>13, <2>1, <2>2, <2>4
  <2> QED
    BY <1>3, <1>5, <1>15, <2>5 DEF Sent, s
<1>16. CASE ~Aligned(c)
  <2>1. last # c.iqp
    BY <1>16 DEF Aligned
  <2>2. CASE \A k \in 1 .. c.iqc : slot(k) # c.iqp
    <3>1. Waiting(d) = Append(s, c.intq[last])
      BY <1>6, <1>10, <1>11, <1>12, <2>1, <2>2
    <3> QED
      BY <1>3, <1>5, <1>12, <1>16, <3>1 DEF Sent, s, T
  <2>3. ASSUME NEW k \in 1 .. c.iqc, slot(k) = c.iqp
        PROVE  Sent(c, m, d)
    <3>1. \A j \in 1 .. c.iqc : slot(j) = c.iqp <=> j = k
      BY <1>9, <2>3
    <3>2. \A j \in 1 .. c.iqc : Waiting(d)[j] = [s EXCEPT ![k] = m][j]
      BY <1>10, <1>13, <3>1
    <3>3. Waiting(d) = Append([s EXCEPT ![k] = m], c.intq[last])
      BY <1>10, <1>11, <1>12, <1>13, <2>1, <3>2
    <3> QED
      BY <1>6, <1>12, <1>16, <3>3 DEF Sent, s, T
  <2> QED
    BY <1>3, <1>5, <2>2, <2>3
<1> QED
  BY <1>1, <1>14, <1>15, <1>16

\* A message less: the oldest.
LEMMA EnterRings ==
  ASSUME NEW c \in Cpus, c.iqc > 0
  PROVE  LET d == EnterHandler(c) IN
         /\ Aligned(d) <=> Aligned(c)
         /\ Waiting(c) # << >>
         /\ d.r0 = Head(Waiting(c)) /\ Waiting(d) = Tail(Waiting(c))
<1> DEFINE d == EnterHandler(c)
           s == Waiting(c)
<1>1. /\ c.iqe \in Index /\ c.iqc \in 1 .. QSize + 1 /\ QSize \in Nat \ {0}
      /\ Wrap(c.iqe) \in Index
  BY QAssumption, WrapTyped DEF Cpus
<1>2. /\ d.iqc = c.iqc - 1 /\ d.iqe = Wrap(c.iqe) /\ d.iqp = c.iqp
      /\ d.intq = c.intq /\ d.r0 = c.intq[c.iqe]
  BY DEF EnterHandler, Cpus
<1> HIDE DEF d
<1>3. ASSUME NEW k \in 0 .. c.iqc - 1
      PROVE  (d.iqe + k) % QSize = (c.iqe + (k + 1)) % QSize
  <2>1. k \in 0 .. QSize
    BY <1>1
  <2> QED
    BY <1>1, <1>2, <2>1, SlotOn
<1>4. Aligned(d) <=> Aligned(c)
  <2>1. c.iqc - 1 \in 0 .. c.iqc - 1 /\ (c.iqc - 1) + 1 = c.iqc
    BY <1>1
  <2> QED
    BY <1>2, <1>3, <2>1 DEF Aligned
<1>5. /\ s \in Seq(Msg \cup {NoMsg}) /\ Len(s) = c.iqc
      /\ \A k \in 1 .. c.iqc : s[k] = c.intq[(c.iqe + (k - 1)) % QSize]
  BY WaitingIs
<1> HIDE DEF s
<1>6. s # << >> /\ Head(s) = c.intq[c.iqe]
  <2>1. 1 \in 1 .. c.iqc /\ (c.iqe + (1 - 1)) % QSize = c.iqe
    BY <1>1, SlotsApart
  <2>2. s[1] = c.intq[c.iqe] /\ Len(s) # 0
    BY <1>1, <1>5, <2>1
  <2> QED
    BY <1>5, <2>2
<1>7. Tail(s) = [k \in 1 .. c.iqc - 1 |-> s[k + 1]]
  <2>1. NoMsg \in Msg \cup {NoMsg}
    OBVIOUS
  <2> QED
    BY <1>5, <1>6, <2>1, SeqFunctions
<1>8. ASSUME NEW k \in 1 .. c.iqc - 1
      PROVE  s[k + 1] = c.intq[(d.iqe + k - 1) % QSize]
  <2>1. k + 1 \in 1 .. c.iqc /\ k - 1 \in 0 .. c.iqc - 1 /\ (k + 1) - 1 = (k - 1) + 1
    BY <1>1
  <2>2. s[k + 1] = c.intq[(c.iqe + ((k - 1) + 1)) % QSize]
    BY <1>5, <2>1
  <2>3. (d.iqe + (k - 1)) % QSize = (c.iqe + ((k - 1) + 1)) % QSize
    BY <1>3, <2>1
  <2>4. d.iqe + k - 1 = d.iqe + (k - 1)
    BY <1>1, <1>2 DEF Index
  <2> QED
    BY <2>2, <2>3, <2>4
<1>9. Waiting(d) = [k \in 1 .. c.iqc - 1 |-> c.intq[(d.iqe + k - 1) % QSize]]
  BY <1>2 DEF Waiting
<1>10. Waiting(d) = Tail(s)
  BY <1>7, <1>8, <1>9
<1> QED
  BY <1>2, <1>4, <1>6, <1>10 DEF d, s

\* What InterruptQueue allows.
QStep(c, d) ==
  \/ Waiting(d) = Waiting(c) /\ d.r0 = c.r0 /\ (Aligned(d) <=> Aligned(c))
  \/ \E m \in Msg : Sent(c, m, d) /\ d.r0 = c.r0 /\ (Aligned(d) <=> Aligned(c))
  \/ /\ Waiting(c) # << >> /\ d.r0 = Head(Waiting(c)) /\ Waiting(d) = Tail(Waiting(c))
     /\ Aligned(d) <=> Aligned(c)
  \/ /\ Waiting(d) = << >> /\ d.r0 = c.r0
     /\ Aligned(c) => (Aligned(d) <=> c.iqc % QSize = 0)
  \/ Waiting(d) = << >> /\ d.r0 = NoMsg /\ Aligned(d)

LEMMA EmptyWaits == ASSUME NEW c, c.iqc = 0 PROVE Waiting(c) = << >>
<1>1. 1 .. 0 = {}
  OBVIOUS
<1> QED
  BY <1>1 DEF Waiting

LEMMA KeptSteps ==
  ASSUME NEW c, NEW d, Kept(c, d)
  PROVE  Waiting(d) = Waiting(c) /\ (Aligned(d) <=> Aligned(c)) /\ QStep(c, d)
<1>1. d.iqc = c.iqc /\ d.iqe = c.iqe /\ d.iqp = c.iqp /\ d.intq = c.intq /\ d.r0 = c.r0
  BY DEF Kept
<1>2. Waiting(d) = Waiting(c)
  BY <1>1 DEF Waiting
<1>3. Aligned(d) <=> Aligned(c)
  BY <1>1 DEF Aligned
<1> QED
  BY <1>1, <1>2, <1>3 DEF QStep

LEMMA PassesSteps ==
  ASSUME NEW c \in Cpus, NEW d \in Cpus, Passes(c, d)
  PROVE  QStep(c, d)
<1>1. CASE Kept(c, d)
  BY <1>1, KeptSteps
<1>2. ASSUME NEW m \in Msg, Kept(SendInterrupt(c, m), d) PROVE QStep(c, d)
  <2>1. CASE ~c.ia \/ c.iqc > QSize
    <3>1. SendInterrupt(c, m) \in {c, [c EXCEPT !.fire = TRUE]}
      BY <2>1 DEF SendInterrupt
    <3>2. Kept(c, c) /\ Kept(c, [c EXCEPT !.fire = TRUE])
      BY DEF Kept, Cpus
    <3>3. Kept(c, d)
      BY <1>2, <3>1, <3>2 DEF Kept
    <3> QED
      BY <3>3, KeptSteps
  <2>2. CASE c.ia /\ ~(c.iqc > QSize)
    <3>1. c.iqc <= QSize
      BY <2>2, QAssumption DEF Cpus
    <3> QED
      BY <1>2, <2>2, <3>1, SendRings DEF QStep
  <2> QED
    BY <2>1, <2>2
<1> QED
  BY <1>1, <1>2 DEF Passes

LEMMA TurnSteps ==
  ASSUME NEW c \in Cpus, NEW d \in Cpus, DInv(c), Turn(c, d)
  PROVE  QStep(c, d)
<1>1. /\ c.iqe \in Index /\ c.iqp \in Index /\ c.iqc \in 0 .. QSize + 1 /\ QSize \in Nat \ {0}
  BY QAssumption DEF Cpus
<1>2. CASE Passes(c, d)
  BY <1>2, PassesSteps
<1>3. CASE Kept(Forget(c), d)
  <2>1. d.iqp = c.iqp /\ d.iqe = c.iqe /\ d.iqc = 0 /\ d.r0 = c.r0
    BY <1>3 DEF Kept, Forget, Cpus
  <2>2. Aligned(c) => (Aligned(d) <=> c.iqc % QSize = 0)
    BY <1>1, <2>1, SlotsApart DEF Aligned
  <2> QED
    BY <2>1, <2>2, EmptyWaits DEF QStep
<1>4. CASE c.phase = "INTERRUPT" /\ d = EnterHandler(c)
  <2>1. c.iqc > 0
    BY <1>4 DEF DInv, CInv, Clean
  <2> QED
    BY <1>4, <2>1, EnterRings DEF QStep
<1> QED
  BY <1>2, <1>3, <1>4 DEF Turn

LEMMA ResetRing ==
  ASSUME NEW c
  PROVE  LET d == ResetState(c) IN Waiting(d) = << >> /\ d.r0 = NoMsg /\ Aligned(d)
<1> DEFINE d == ResetState(c)
<1>1. d.iqc = 0 /\ d.iqp = 0 /\ d.iqe = 0 /\ d.r0 = NoMsg
  BY DEF ResetState
<1> HIDE DEF d
<1>2. 0 \in Index
  BY QAssumption DEF Index
<1>3. Aligned(d)
  BY <1>1, <1>2, SlotsApart DEF Aligned
<1> QED
  BY <1>1, <1>3, EmptyWaits DEF d

LEMMA RingSteps ==
  dcpu \in Cpus /\ DInv(dcpu) /\ [DcpuNext]_dcpuVars => QStep(dcpu, dcpu')
<1> SUFFICES ASSUME dcpu \in Cpus, DInv(dcpu), [DcpuNext]_dcpuVars
             PROVE  QStep(dcpu, dcpu')
  OBVIOUS
<1>0. dcpu' \in Cpus
  BY CpuSteps
<1>1. CASE dcpu' = dcpu
  BY <1>1 DEF QStep
<1>2. CASE Run
  <2>1. PICK i \in Upcoming(dcpu) : \E v \in Value(i) : \E n : dcpu' = Round(dcpu, n, i, v)
    BY <1>2, RunRounds
  <2>2. Turn(dcpu, dcpu')
    BY <2>1, RoundTurns
  <2> QED
    BY <1>0, <2>2, TurnSteps
<1>3. CASE Devices
  <2>1. PICK m \in Msg : dcpu' = SendInterrupt(dcpu, m)
    BY <1>3 DEF Devices, DcpuOffer
  <2>2. Passes(dcpu, dcpu')
    BY <2>1 DEF Passes, Kept
  <2> QED
    BY <1>0, <2>2, PassesSteps
<1>4. CASE DcpuReset
  BY <1>4, ResetRing DEF DcpuReset, QStep
<1>5. CASE CallStep \/ \E n \in 1 .. MaxSlice : CallTick(n)
  BY <1>5, <1>1 DEF CallStep, CallTick
<1> QED
  BY <1>1, <1>2, <1>3, <1>4, <1>5 DEF DcpuNext, Clock, dcpuVars

\* The ring of DCPU16N::SendInterrupt implements a queue in a ring, for a ring of any
\* size, any program and any devices: in order and each once until a message came too
\* many or some were forgotten, and after that as many as were accepted.
THEOREM RingIsQueue == DcpuSpec => FifoQueue
<1>1. DcpuInit => Queue!QueueInit
  BY ResetRing DEF DcpuInit, Queue!QueueInit, Aligned
<1>2. dcpu \in Cpus /\ DInv(dcpu) /\ [DcpuNext]_dcpuVars
        => [Queue!RingNext]_<<Waiting(dcpu), dcpu.r0, Aligned(dcpu)>>
  <2> SUFFICES ASSUME dcpu \in Cpus, DInv(dcpu), [DcpuNext]_dcpuVars
               PROVE  \/ Queue!RingNext
                      \/ /\ Waiting(dcpu)' = Waiting(dcpu) /\ dcpu.r0' = dcpu.r0
                         /\ Aligned(dcpu)' = Aligned(dcpu)
    OBVIOUS
  <2>1. QStep(dcpu, dcpu')
    BY RingSteps
  <2>2. Len(Waiting(dcpu)) = dcpu.iqc
    BY WaitingIs
  <2>3. /\ Aligned(dcpu) \in BOOLEAN /\ Aligned(dcpu') \in BOOLEAN
        /\ Waiting(dcpu)' = Waiting(dcpu') /\ Aligned(dcpu)' = Aligned(dcpu')
    BY DEF Aligned, Waiting
  <2>4. CASE \E m \in Msg : /\ Sent(dcpu, m, dcpu') /\ dcpu'.r0 = dcpu.r0
                            /\ Aligned(dcpu') <=> Aligned(dcpu)
    BY <2>2, <2>3, <2>4
    DEF Sent, Queue!RingNext, Queue!Accept, Queue!Overrun, Queue!Misfile
  <2>5. CASE /\ Waiting(dcpu') = << >> /\ dcpu'.r0 = dcpu.r0
             /\ Aligned(dcpu) => (Aligned(dcpu') <=> dcpu.iqc % QSize = 0)
    BY <2>2, <2>3, <2>5 DEF Queue!RingNext, Queue!DropAll
  <2> QED
    BY <2>1, <2>3, <2>4, <2>5 DEF QStep, Queue!RingNext, Queue!Take, Queue!PowerCycle
<1> QED
  BY <1>1, <1>2, TypesStay, InstructionInvariant, PTL
  DEF DcpuSpec, FifoQueue, Queue!Spec, Queue!queueVars

-----------------------------------------------------------------------------
(* Slices of time                                                          *)

\* A set of numbers has a least one.
LEMMA Least ==
  ASSUME NEW T \in SUBSET Nat, T # {}
  PROVE  \E x \in T : \A y \in T : ~(y < x)
<1> DEFINE R == {ss \in Nat \X Nat : ss[1] < ss[2]}
<1>1. IsWellFoundedOn(R, Nat)
  BY NatLessThanWellFounded DEF OpToRel
<1>2. PICK x \in T : \A y \in T : ~(<<y, x>> \in R)
  BY <1>1, WFMin
<1>3. \A y \in T : ~(y < x)
  BY <1>2
<1> QED
  BY <1>3

\* F makes k rounds of one cycle from c.
Makes(F, c, k) ==
  F = [j \in 0 .. k |-> IF j = 0 THEN c ELSE Round(F[j - 1], 0, c.opcl, TRUE)]

\* Such a function is what SingleTicks computes.
LEMMA TicksAre ==
  ASSUME NEW c, NEW k \in Nat, NEW F, Makes(F, c, k)
  PROVE  SingleTicks(c, k) = F[k]
<1> DEFINE Next(f) == [j \in 0 .. k |-> IF j = 0 THEN c ELSE Round(f[j - 1], 0, c.opcl, TRUE)]
           at == CHOOSE f : f = Next(f)
<1>1. SingleTicks(c, k) = at[k]
  BY DEF SingleTicks
<1>2. F = Next(F)
  BY DEF Makes
<1> HIDE DEF Next
<1>3. at = Next(at)
  BY <1>2
<1> HIDE DEF at
<1> DEFINE T == {j \in 0 .. k : at[j] # F[j]}
<1>4. T = {}
  <2> SUFFICES ASSUME T # {} PROVE FALSE
    OBVIOUS
  <2>1. T \in SUBSET Nat
    OBVIOUS
  <2>2. PICK x \in T : \A y \in T : ~(y < x)
    BY <2>1, Least
  <2>3. x \in 0 .. k /\ at[x] # F[x]
    BY <2>2
  <2>4. CASE x = 0
    BY <1>2, <1>3, <2>3, <2>4 DEF Next
  <2>5. CASE x # 0
    <3>1. x - 1 \in 0 .. k /\ x - 1 < x
      BY <2>3, <2>5
    <3>2. at[x - 1] = F[x - 1]
      BY <2>2, <3>1
    <3>3. /\ Next(at)[x] = Round(at[x - 1], 0, c.opcl, TRUE)
          /\ Next(F)[x] = Round(F[x - 1], 0, c.opcl, TRUE)
      BY <2>3, <2>5 DEF Next
    <3> QED
      BY <1>2, <1>3, <2>3, <3>2, <3>3
  <2> QED
    BY <2>4, <2>5
<1>5. k \in 0 .. k
  OBVIOUS
<1>6. at[k] = F[k]
  BY <1>4, <1>5
<1> QED
  BY <1>1, <1>6

LEMMA OneTick ==
  ASSUME NEW c
  PROVE  SingleTicks(c, 1) = Round(c, 0, c.opcl, TRUE)
<1> DEFINE F == [j \in 0 .. 1 |-> IF j = 0 THEN c ELSE Round(c, 0, c.opcl, TRUE)]
<1>1. F[0] = c /\ F[1] = Round(c, 0, c.opcl, TRUE)
  OBVIOUS
<1>2. ASSUME NEW j \in 0 .. 1
      PROVE  (IF j = 0 THEN c ELSE Round(c, 0, c.opcl, TRUE))
               = IF j = 0 THEN c ELSE Round(F[j - 1], 0, c.opcl, TRUE)
  <2>1. j = 0 \/ j - 1 = 0
    OBVIOUS
  <2> QED
    BY <1>1, <2>1
<1>3. Makes(F, c, 1)
  BY <1>2 DEF Makes
<1> HIDE DEF F
<1> QED
  BY <1>1, <1>3, TicksAre

\* A sleeping CPU without a message to take stays as it is.
LEMMA SleepTicks ==
  ASSUME NEW c, c.phase = "SLEEP", ~Asked(c), NEW k \in Nat
  PROVE  SingleTicks(c, k) = c
<1> DEFINE F == [j \in 0 .. k |-> c]
<1>1. Round(c, 0, c.opcl, TRUE) = c
  BY DEF Round, Sleep
<1>2. ASSUME NEW j \in 0 .. k
      PROVE  c = IF j = 0 THEN c ELSE Round(F[j - 1], 0, c.opcl, TRUE)
  <2>1. j # 0 => j - 1 \in 0 .. k
    OBVIOUS
  <2> QED
    BY <1>1, <2>1
<1>3. Makes(F, c, k)
  BY <1>2 DEF Makes
<1>4. F[k] = c
  OBVIOUS
<1> HIDE DEF F
<1> QED
  BY <1>3, <1>4, TicksAre

\* A wait that is over, and one that has a cycle less.
Gone(c) == [c EXCEPT !.phase = c.phasenext, !.phasenext = "OPFETCH", !.wait_cycles = 0]
Less(c) == [c EXCEPT !.wait_cycles = @ - 1]

LEMMA WaitRound ==
  ASSUME NEW c, c.phase = "EXECW", c.wait_cycles \in Nat \ {0}, NEW i
  PROVE  Round(c, 0, i, TRUE)
           = IF c.wait_cycles = 1 THEN Gone(c) ELSE Less(c)
<1>1. Round(c, 0, i, TRUE) = ExecWait(c, 0)
  BY DEF Round
<1>2. (c.wait_cycles = 0 \/ 0 >= c.wait_cycles - 1) <=> c.wait_cycles = 1
  OBVIOUS
<1> QED
  BY <1>1, <1>2 DEF ExecWait, Gone, Less

\* A wait counts down and goes on.
LEMMA WaitTicks ==
  ASSUME NEW c \in Cpus, c.phase = "EXECW", c.wait_cycles > 0
  PROVE  SingleTicks(c, c.wait_cycles) = Gone(c)
<1> DEFINE w == c.wait_cycles
           e == Gone(c)
           G(m) == [c EXCEPT !.wait_cycles = m]
           F == [j \in 0 .. w |-> IF j < w THEN G(w - j) ELSE e]
<1>1. w \in Nat \ {0} /\ c = [f \in Fields |-> c[f]]
  BY DEF Cpus, Fields
<1>2. ASSUME NEW m \in Nat
      PROVE  /\ G(m).phase = "EXECW" /\ G(m).wait_cycles = m
             /\ Less(G(m)) = G(m - 1) /\ Gone(G(m)) = e
  BY DEF Cpus, Less, Gone
<1>3. G(w) = c
  BY DEF Cpus
<1> HIDE DEF G, e
<1>4. ASSUME NEW m \in Nat \ {0}
      PROVE  Round(G(m), 0, c.opcl, TRUE) = IF m = 1 THEN e ELSE G(m - 1)
  BY <1>2, WaitRound
<1>5. ASSUME NEW j \in 0 .. w
      PROVE  (IF j < w THEN G(w - j) ELSE e)
               = IF j = 0 THEN c ELSE Round(F[j - 1], 0, c.opcl, TRUE)
  <2>1. CASE j = 0
    BY <1>1, <1>3, <2>1
  <2>2. CASE j # 0
    <3>1. j - 1 \in 0 .. w /\ j - 1 < w /\ w - (j - 1) \in Nat \ {0}
      BY <1>1, <2>2
    <3>2. F[j - 1] = G(w - (j - 1))
      BY <3>1
    <3>3. w - (j - 1) = 1 <=> ~(j < w)
      BY <1>1
    <3>4. (w - (j - 1)) - 1 = w - j
      BY <1>1
    <3> QED
      BY <1>4, <2>2, <3>1, <3>2, <3>3, <3>4
  <2> QED
    BY <2>1, <2>2
<1>6. Makes(F, c, w)
  BY <1>3, <1>5 DEF Makes
<1>7. F[w] = e
  BY <1>1
<1> HIDE DEF F
<1>8. SingleTicks(c, w) = e
  BY <1>1, <1>6, <1>7, TicksAre
<1> QED
  BY <1>8 DEF e

\* Taking several cycles of a call at once ends where single ticks end, for every wait
\* and every length of a call.
THEOREM SlicesAreAlike == DcpuSpec => []SlicesAgree
<1>1. ASSUME NEW c \in Cpus, c.phase \in {"EXECW", "SLEEP"}, NEW n \in Nat
      PROVE  Round(c, n, c.opcl, TRUE) = SingleTicks(c, n + 1 - Left(c, n))
  <2>1. CASE c.phase = "SLEEP" /\ ~Asked(c)
    <3>1. Round(c, n, c.opcl, TRUE) = c
      BY <2>1 DEF Round, Sleep
    <3>2. n + 1 - Left(c, n) \in Nat
      BY <2>1 DEF Left
    <3> QED
      BY <2>1, <3>1, <3>2, SleepTicks
  <2>2. CASE c.phase = "SLEEP" /\ Asked(c)
    <3>1. n + 1 - Left(c, n) = 1
      BY <2>2 DEF Left
    <3>2. Round(c, n, c.opcl, TRUE) = Round(c, 0, c.opcl, TRUE)
      BY <2>2 DEF Round
    <3> QED
      BY <3>1, <3>2, OneTick
  <2>3. CASE c.phase = "EXECW"
    <3> DEFINE w == c.wait_cycles
    <3>1. w \in Nat
      BY DEF Cpus
    <3>2. ASSUME NEW m \in Nat PROVE Round(c, m, c.opcl, TRUE) = ExecWait(c, m)
      BY <2>3 DEF Round
    <3>3. CASE w > 0 /\ n >= w - 1
      <4>1. n + 1 - Left(c, n) = w
        BY <2>3, <3>1, <3>3 DEF Left
      <4>2. ExecWait(c, n) = Gone(c)
        BY <3>3 DEF ExecWait, Gone
      <4> QED
        BY <2>3, <3>2, <3>3, <4>1, <4>2, WaitTicks
    <3>4. CASE ~(w > 0 /\ n >= w - 1)
      <4>1. n + 1 - Left(c, n) = 1
        BY <2>3, <3>4 DEF Left
      <4>2. ExecWait(c, n) = ExecWait(c, 0)
        <5>1. (w = 0 \/ n >= w - 1) <=> (w = 0 \/ 0 >= w - 1)
          BY <3>1, <3>4
        <5> QED
          BY <5>1 DEF ExecWait
      <4> QED
        BY <3>2, <4>1, <4>2, OneTick
    <3> QED
      BY <3>3, <3>4
  <2> QED
    BY <1>1, <2>1, <2>2, <2>3
<1>2. dcpu \in Cpus => SlicesAgree
  <2>1. 0 .. HcfCycles \subseteq Nat
    BY QAssumption
  <2> QED
    BY <1>1, <2>1 DEF SlicesAgree
<1> QED
  BY <1>2, TypesStay, PTL
=============================================================================
