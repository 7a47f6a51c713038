------------------------------ MODULE DCPU16N ------------------------------
(***************************************************************************)
(* The DCPU-16N (dcpu16n.cpp): a CPU that spreads an instruction over      *)
(* several calls of Tick, one phase per cycle, with a ring of interrupt    *)
(* messages.  Registers and memory are abstracted; what an operand costs   *)
(* in phases and program words, where a result is stored, and everything   *)
(* interrupts depend on is kept.                                           *)
(***************************************************************************)
EXTENDS Naturals, Sequences

CONSTANTS
  Msg,        \* interrupt messages
  HaltMsg,    \* 0, the message HLT sends
  NoMsg,      \* no message: an empty slot, register A before any handler
  QSize,      \* slots of intq (256)
  Program,    \* instructions a program may hold
  HcfCycles,  \* cycles of HCF (420)
  MaxSlice    \* bound on the n of Tick(n)

ASSUME MsgAssumption == HaltMsg \in Msg /\ NoMsg \notin Msg
ASSUME QAssumption == QSize \in Nat \ {0} /\ HcfCycles \in Nat \ {0}
ASSUME SliceAssumption == MaxSlice \in Nat \ {0}

VARIABLES
  dcpu,    \* the CPU
  call     \* the call under way: the cycles Tick has left, or Step has counted

dcpuVars == <<dcpu, call>>

-----------------------------------------------------------------------------
(* Instructions                                                            *)

Arith == {"SET", "ADD", "SUB", "MUL", "MLI", "DIV", "DVI", "MOD", "MDI", "AND",
          "BOR", "XOR", "SHR", "ASR", "SHL", "ADX", "SBX", "STI", "STD"}
Test  == {"IFB", "IFC", "IFE", "IFN", "IFG", "IFA", "IFL", "IFU"}
TwoOp == Arith \cup Test \cup {"HWW", "HWR"}
Unary == {"NEG", "IAG", "MMR", "SXB", "SWP"}
OneOp == Unary \cup {"JSR", "BSR", "HCF", "INT", "IAS", "RFI", "IAQ", "MMW"}
NoOp  == {"HLT", "SLP", "BYT", "SKP"}

\* Operands: a literal, a register, memory at a register or at SP, memory at a
\* register, at SP or at 0 plus the next word, the next word itself.
Operand == {"lit", "reg", "ind", "regnw", "spnw", "memnw", "nw"}
InMemory == {"ind", "regnw", "spnw", "memnw"}

Instr == [op : TwoOp, a : Operand, b : Operand \ {"lit"}]
           \cup [op : OneOp, a : Operand, b : {"none"}]
           \cup [op : NoOp, a : {"none"}, b : {"none"}]

ASSUME ProgramAssumption == Program \subseteq Instr

cycletable ==
  [o \in TwoOp \cup OneOp \cup NoOp |->
     CASE o = "HCF"                                     -> HcfCycles
       [] o = "DVI"                                     -> 9
       [] o = "DIV"                                     -> 8
       [] o = "MDI"                                     -> 6
       [] o = "MOD"                                     -> 5
       [] o \in {"INT", "HLT"}                          -> 4
       [] o \in {"MLI", "BSR", "MMW", "MMR", "SLP"}     -> 3
       [] o \in Test \cup {"MUL", "ADX", "SBX", "HWW", "HWR", "RFI"} -> 2
       [] o \in {"ADD", "SUB", "STI", "STD", "JSR", "IAQ"} -> 1
       [] OTHER                                         -> 0]
-----------------------------------------------------------------------------
(* State                                                                   *)

Phase == {"OPFETCH", "NWAFETCH", "NWBFETCH", "ACUFETCH", "UBREAD", "BCUFETCH",
          "EXEC", "UBWRITE", "EXECW", "SLEEP", "EXECSKIP", "EXECJMP", "EXECRFI",
          "MARKSKIP", "INTERRUPT"}

Nothing == [op |-> "SLP", a |-> "none", b |-> "none"]

\* Mutant: a reset leaves the write index of the ring where it was.
ResetState_KeepsIndex(c) ==
  [phase |-> "OPFETCH", phasenext |-> "OPFETCH", wait_cycles |-> 0,
   addradd |-> FALSE, addrdec |-> FALSE, bytemode |-> FALSE, skip |-> FALSE,
   fire |-> FALSE, qint |-> FALSE, ia |-> FALSE, iqp |-> c.iqp, iqe |-> 0,
   iqc |-> 0, intq |-> c.intq, r0 |-> NoMsg, opcl |-> Nothing, words |-> 0,
   aca |-> "old", bca |-> "old", wrt |-> "none", stored |-> "none"]

\* Reset leaves the ring as it is.  A value that no later round reads (phasenext
\* and wait_cycles once the wait is over, wrt once the result is written) is not
\* kept.
\*   ia       "ia # 0", interrupts are enabled
\*   r0       register A as the last handler found it
\*   words    next words of the instruction passed so far
\*   aca,bca  the operand whose address the register holds
\*   wrt      the operand to write back, if any
\*   stored   the operand whose address the result was stored at
ResetState(c) ==
  [phase |-> "OPFETCH", phasenext |-> "OPFETCH", wait_cycles |-> 0,
   addradd |-> FALSE, addrdec |-> FALSE, bytemode |-> FALSE, skip |-> FALSE,
   fire |-> FALSE, qint |-> FALSE, ia |-> FALSE, iqp |-> 0, iqe |-> 0,
   iqc |-> 0, intq |-> c.intq, r0 |-> NoMsg, opcl |-> Nothing, words |-> 0,
   aca |-> "old", bca |-> "old", wrt |-> "none", stored |-> "none"]

Index == 0 .. QSize - 1

\* Mutant: the index may reach the size of the ring.
Wrap_Late(i) == IF i + 1 > QSize THEN 0 ELSE i + 1

\* The index after i in the ring.
Wrap(i) == IF i + 1 > QSize - 1 THEN 0 ELSE i + 1

\* The indices are as far apart as the count says.
Aligned(c) == (c.iqe + c.iqc) % QSize = c.iqp

\* The messages that wait, oldest first.
Waiting(c) == [k \in 1 .. c.iqc |-> c.intq[(c.iqe + k - 1) % QSize]]
-----------------------------------------------------------------------------
(* Interrupts                                                              *)

\* A message is dropped while interrupts are disabled, and the CPU catches fire
\* when the count is beyond the size of the ring.
SendInterrupt(c, m) ==
  IF ~c.ia THEN c
  ELSE IF c.iqc > QSize THEN [c EXCEPT !.fire = TRUE]
  ELSE [c EXCEPT !.iqc = @ + 1, !.intq[c.iqp] = m, !.iqp = Wrap(@)]

EnterHandler(c) ==
  [c EXCEPT !.phase = "OPFETCH", !.qint = TRUE, !.iqc = @ - 1,
            !.r0 = c.intq[c.iqe], !.iqe = Wrap(@)]

ReturnFromHandler(c) == [c EXCEPT !.phase = "OPFETCH", !.qint = FALSE]

\* Messages that wait with interrupts disabled are forgotten, in OPFETCH and in
\* SLEEP alike.  Both indices stay where they are.
Forget(c) == [c EXCEPT !.iqc = 0]

Asked(c) == c.iqc > 0 /\ ~c.qint

\* Mutant: a sleeping CPU does not look at its queue.
Sleep_Deaf(c) == c

Sleep(c) ==
  IF ~Asked(c) THEN c
  ELSE IF ~c.ia THEN Forget(c)
  ELSE [c EXCEPT !.phase = "INTERRUPT", !.skip = FALSE, !.bytemode = FALSE]

-----------------------------------------------------------------------------
(* Operands.  Each operator is a "case" of the switch in Tick and all it   *)
(* falls through to, up to the "break".                                    *)

\* UBWRITE and BCUWRITE.
WriteBack(c) ==
  LET d == [c EXCEPT !.phase = IF c.wrt = "none" THEN @ ELSE "OPFETCH",
                     !.bytemode = @ /\ c.wrt = "none"]
  IN  IF c.wrt # "none" /\ c.opcl[c.wrt] \in InMemory
      THEN [d EXCEPT !.stored = c.bca] ELSE d

\* The instructions with two operands: arithmetic writes b, HWR writes a, a test
\* that fails skips.
DoTwo(c, v) ==
  LET o == c.opcl.op IN
  IF o \in Arith     THEN [c EXCEPT !.phase = "UBWRITE", !.wrt = "b"]
  ELSE IF o = "HWR"  THEN [c EXCEPT !.phase = "UBWRITE", !.wrt = "a"]
  ELSE IF o \in Test /\ ~v THEN [c EXCEPT !.phase = "MARKSKIP", !.wrt = "none"]
  ELSE [c EXCEPT !.wrt = "none"]

\* Mutant: the address of operand a is not made that of the result.
DoOne_KeepsAddress(c, v) ==
  LET o == c.opcl.op
      d == [c EXCEPT !.wrt = IF o \in Unary THEN "a" ELSE "none"] IN
  CASE o \in Unary          -> [d EXCEPT !.phase = "UBWRITE"]
    [] o \in {"JSR", "BSR"} -> [d EXCEPT !.phase = "EXECJMP"]
    [] o = "RFI"            -> [d EXCEPT !.phase = "EXECRFI"]
    [] o = "HCF"            -> [d EXCEPT !.fire = TRUE]
    [] o = "INT"            -> SendInterrupt(d, v)
    [] o = "IAS"            -> [d EXCEPT !.ia = v]
    [] o = "IAQ"            -> [d EXCEPT !.qint = v]
    [] OTHER                -> d

\* The instructions with one operand, whose value is v.
DoOne(c, v) ==
  LET o == c.opcl.op
      d == [c EXCEPT !.bca = c.aca,
                     !.wrt = IF o \in Unary THEN "a" ELSE "none"] IN
  CASE o \in Unary          -> [d EXCEPT !.phase = "UBWRITE"]
    [] o \in {"JSR", "BSR"} -> [d EXCEPT !.phase = "EXECJMP"]
    [] o = "RFI"            -> [d EXCEPT !.phase = "EXECRFI"]
    [] o = "HCF"            -> [d EXCEPT !.fire = TRUE]
    [] o = "INT"            -> SendInterrupt(d, v)
    [] o = "IAS"            -> [d EXCEPT !.ia = v]
    [] o = "IAQ"            -> [d EXCEPT !.qint = v]
    [] OTHER                -> d

\* The instructions without operands.
DoNone(c) ==
  LET o == c.opcl.op
      d == [c EXCEPT !.wrt = "none"]
      h == [d EXCEPT !.bytemode = FALSE, !.phase = "SLEEP"] IN
  CASE o = "HLT" -> IF c.ia /\ ~c.qint THEN SendInterrupt(h, HaltMsg) ELSE h
    [] o = "SLP" -> h
    [] o = "BYT" -> [d EXCEPT !.bytemode = ~@]
    [] o = "SKP" -> [d EXCEPT !.phase = "MARKSKIP"]

\* EXEC: an instruction with more cycles waits in EXECW before it goes on.
Exec(c, v) ==
  LET o == c.opcl.op
      x == [c EXCEPT !.phase = "OPFETCH"]
      d == IF o \in TwoOp THEN DoTwo(x, v)
           ELSE IF o \in OneOp THEN DoOne(x, v) ELSE DoNone(x) IN
  IF cycletable[o] = 0 THEN WriteBack(d)
  ELSE [d EXCEPT !.phase = "EXECW", !.phasenext = d.phase,
                 !.wait_cycles = cycletable[o] - 1]

FetchB(c, v) ==
  Exec([c EXCEPT !.addrdec = FALSE, !.bca = IF c.addrdec THEN "b" ELSE @], v)

\* UBREAD: operand b.  Every form with an address waits a cycle for it.
ReadB(c, v) ==
  LET b == c.opcl.b IN
  CASE b = "ind"               -> [c EXCEPT !.phase = "BCUFETCH", !.addrdec = TRUE]
    [] b \in {"spnw", "regnw"} -> [c EXCEPT !.phase = "NWBFETCH", !.addrdec = TRUE,
                                            !.addradd = TRUE]
    [] b = "memnw"             -> [c EXCEPT !.phase = "NWBFETCH", !.addrdec = TRUE]
    [] b = "nw"                -> [c EXCEPT !.phase = "NWBFETCH"]
    [] OTHER                   -> FetchB(c, v)

FetchA(c, v) ==
  ReadB([c EXCEPT !.addrdec = FALSE, !.aca = IF c.addrdec THEN "a" ELSE @], v)

\* UAREAD: operand a.  A register plus the next word is read as the register: the
\* test for that form stands where its bit is known to be 0.
ReadA(c, v) ==
  LET a == c.opcl.a IN
  CASE a = "ind"   -> [c EXCEPT !.phase = "ACUFETCH", !.addrdec = TRUE]
    [] a = "spnw"  -> [c EXCEPT !.phase = "NWAFETCH", !.addrdec = TRUE,
                                !.addradd = TRUE]
    [] a = "memnw" -> [c EXCEPT !.phase = "NWAFETCH", !.addrdec = TRUE]
    [] a = "nw"    -> [c EXCEPT !.phase = "NWAFETCH"]
    [] OTHER       -> FetchA(c, v)

\* NWAFETCH and NWBFETCH.
NextWordA(c) ==
  [c EXCEPT !.words = @ + 1, !.addradd = FALSE,
            !.phase = IF c.addrdec THEN "ACUFETCH" ELSE "UBREAD"]

NextWordB(c) ==
  [c EXCEPT !.words = @ + 1, !.addradd = FALSE,
            !.phase = IF c.addrdec THEN "BCUFETCH" ELSE "EXEC"]

-----------------------------------------------------------------------------
(* Fetching and skipping                                                   *)

HasNextWord == {"regnw", "spnw", "memnw", "nw"}

NextWord(k) == IF k \in HasNextWord THEN 1 ELSE 0

\* Mutant: the table has no entry for [SP + nextword].
skipadd_Short(i) == NextWord(i.a) + NextWord(i.b)
                      - IF i.a = "spnw" THEN 1 ELSE 0

\* What EXECSKIP adds to the program counter, in words.
skipadd(i) == NextWord(i.a) + NextWord(i.b)

\* A skipped test, or SKP, skips on.
ExecSkip(c) ==
  [c EXCEPT !.phase = "OPFETCH", !.skip = c.opcl.op \in Test \cup {"SKP"},
            !.words = @ + skipadd(c.opcl)]

Fetch(c, i, v) ==
  LET d == [c EXCEPT !.opcl = i, !.words = 0, !.aca = "old", !.bca = "old",
                     !.wrt = "none", !.stored = "none"] IN
  IF c.skip THEN [d EXCEPT !.phase = "EXECSKIP"] ELSE ReadA(d, v)

\* Mutant: an interrupt may come between BYT and the instruction it is for.
Interruptible_Byte(c) == Asked(c) /\ ~c.skip

Interruptible(c) == Asked(c) /\ ~(c.skip \/ c.bytemode)

OpFetch(c, i, v) ==
  IF ~Interruptible(c) THEN Fetch(c, i, v)
  ELSE IF ~c.ia THEN Fetch(Forget(c), i, v)
  ELSE [c EXCEPT !.phase = "INTERRUPT"]

-----------------------------------------------------------------------------
(* Time.  n is the number of cycles the call has after this one.           *)

\* A long instruction takes as many cycles as the call has for it at once.
ExecWait(c, n) ==
  IF c.wait_cycles = 0 \/ n >= c.wait_cycles - 1
  THEN [c EXCEPT !.phase = c.phasenext, !.phasenext = "OPFETCH", !.wait_cycles = 0]
  ELSE [c EXCEPT !.wait_cycles = @ - 1]

\* Mutant: the cycles a long instruction took at once are not taken off.
Left_Free(c, n) == IF c.phase = "SLEEP" /\ ~Asked(c) THEN 0 ELSE n

\* The cycles the call has left after a round.
Left(c, n) ==
  IF c.phase = "SLEEP" /\ ~Asked(c) THEN 0
  ELSE IF c.phase = "EXECW" /\ c.wait_cycles > 0 /\ n >= c.wait_cycles - 1
       THEN n - (c.wait_cycles - 1)
  ELSE n

Round(c, n, i, v) ==
  CASE c.phase = "OPFETCH"   -> OpFetch(c, i, v)
    [] c.phase = "NWAFETCH"  -> NextWordA(c)
    [] c.phase = "NWBFETCH"  -> NextWordB(c)
    [] c.phase = "ACUFETCH"  -> FetchA(c, v)
    [] c.phase = "UBREAD"    -> ReadB(c, v)
    [] c.phase = "BCUFETCH"  -> FetchB(c, v)
    [] c.phase = "EXEC"      -> Exec(c, v)
    [] c.phase = "UBWRITE"   -> WriteBack(c)
    [] c.phase = "EXECW"     -> ExecWait(c, n)
    [] c.phase = "SLEEP"     -> Sleep(c)
    [] c.phase = "EXECSKIP"  -> ExecSkip(c)
    [] c.phase = "EXECJMP"   -> [c EXCEPT !.phase = "OPFETCH"]
    [] c.phase = "EXECRFI"   -> ReturnFromHandler(c)
    [] c.phase = "MARKSKIP"  -> [c EXCEPT !.phase = "OPFETCH", !.skip = TRUE]
    [] c.phase = "INTERRUPT" -> EnterHandler(c)

-----------------------------------------------------------------------------
(* Calls                                                                   *)

Idle == [kind |-> "idle", n |-> 0]

DcpuInit ==
  /\ dcpu = ResetState([intq |-> [k \in Index |-> NoMsg], iqp |-> 0])
  /\ call = Idle

\* Reset and SendInterrupt come between calls of Tick and Step.
DcpuReset == call = Idle /\ dcpu' = ResetState(dcpu) /\ UNCHANGED call

DcpuOffer(m) ==
  call = Idle /\ dcpu' = SendInterrupt(dcpu, m) /\ UNCHANGED call

CallTick(n) ==
  call = Idle /\ call' = [kind |-> "tick", n |-> n] /\ UNCHANGED dcpu

CallStep == call = Idle /\ call' = [kind |-> "step", n |-> 0] /\ UNCHANGED dcpu

\* One round of the loop in Tick.
TickCycle(i, v) ==
  /\ call.kind = "tick"
  /\ dcpu' = Round(dcpu, call.n - 1, i, v)
  /\ LET n == Left(dcpu, call.n - 1) IN
     call' = IF n = 0 THEN Idle ELSE [call EXCEPT !.n = n]

\* Mutant: Step waits for a sleeping CPU.
StepCycle_Awaits(i, v) ==
  /\ call.kind = "step"
  /\ dcpu' = Round(dcpu, 0, i, v)
  /\ call' = IF dcpu'.fire \/ dcpu'.phase = "OPFETCH"
             THEN Idle ELSE [call EXCEPT !.n = @ + 1]

\* One round of the loop in Step, a Tick(1), which it counts: it ends with the
\* instruction, in SLEEP, or on fire.
StepCycle(i, v) ==
  /\ call.kind = "step"
  /\ dcpu' = Round(dcpu, 0, i, v)
  /\ call' = IF dcpu'.fire \/ dcpu'.phase \in {"OPFETCH", "SLEEP"}
             THEN Idle ELSE [call EXCEPT !.n = @ + 1]

-----------------------------------------------------------------------------
(* Programs and devices                                                    *)

\* The instruction under way, or those a program may have next.
Upcoming(c) == IF c.phase = "OPFETCH" THEN Program ELSE {c.opcl}

\* The values of operands that matter: the message of INT, whether a test holds,
\* whether what IAS and IAQ write is 0.
Value(i) ==
  IF i.op = "INT" THEN Msg
  ELSE IF i.op \in Test \cup {"IAS", "IAQ"} THEN BOOLEAN
  ELSE {TRUE}

Run ==
  /\ call # Idle
  /\ \E i \in Upcoming(dcpu) : \E v \in Value(i) : TickCycle(i, v) \/ StepCycle(i, v)

\* VComputer offers a message whenever a device asks.
Devices == \E m \in Msg : DcpuOffer(m)

Clock == CallStep \/ Run \/ \E n \in 1 .. MaxSlice : CallTick(n)

DcpuNext == Clock \/ Devices \/ DcpuReset

DcpuSpec == DcpuInit /\ [][DcpuNext]_dcpuVars

\* What "call" may become: no Step counts further than five and the longest cycles.
Calls ==
  {Idle} \cup [kind : {"tick"}, n : 1 .. MaxSlice]
         \cup [kind : {"step"}, n : 0 .. 14 + HcfCycles]

\* The computer keeps its clock running: "call" changes, which is what Clock does in
\* every step and no other action does.
DcpuFairSpec == DcpuSpec /\ WF_call(call' \in Calls)

-----------------------------------------------------------------------------
(* Properties                                                              *)

DcpuState ==
  [phase : Phase, phasenext : Phase, wait_cycles : Nat, addradd : BOOLEAN,
   addrdec : BOOLEAN, bytemode : BOOLEAN, skip : BOOLEAN, fire : BOOLEAN,
   qint : BOOLEAN, ia : BOOLEAN, iqp : Index, iqe : Index, iqc : 0 .. QSize + 1,
   intq : [Index -> Msg \cup {NoMsg}], r0 : Msg \cup {NoMsg}, opcl : Instr,
   words : 0 .. 2, aca : {"old", "a"}, bca : {"old", "a", "b"},
   wrt : {"none", "a", "b"}, stored : {"none", "old", "a", "b"}]

\* The types of the variables: among others, the indices stay in the ring, the
\* count never exceeds it by more than one, and no instruction has more than two
\* words after its first.
DcpuTypeOK ==
  /\ dcpu \in DcpuState
  /\ call \in {Idle} \cup [kind : {"tick"}, n : 1 .. MaxSlice]
                     \cup [kind : {"step"}, n : Nat]

\* A handler begins between two instructions: nothing of the one under way (a
\* skip, a BYT prefix, half an address, a store to come) leaks into it.
CleanEntry ==
  dcpu.phase = "INTERRUPT" =>
    /\ ~dcpu.skip /\ ~dcpu.bytemode
    /\ ~dcpu.addradd /\ ~dcpu.addrdec
    /\ ~dcpu.qint /\ dcpu.iqc > 0 /\ dcpu.ia

Queue ==
  INSTANCE InterruptQueue
    WITH Size <- QSize, queue <- Waiting(dcpu), taken <- dcpu.r0, aligned <- Aligned(dcpu)

\* What the ring keeps of a queue, whatever programs and devices do: accepted
\* messages are delivered in order, each once, until one came too many (line 969 of
\* dcpu16n.cpp lets it in) or until some were forgotten and not their places (173, 876).
FifoQueue == Queue!Spec

\* "True if the CPU accepts the interrupt" (dcpu16n.hpp:50), and "remove one from
\* queue" (dcpu16n.cpp:949): an accepted message is delivered in its turn, once.
InOrderOnce == Queue!FifoSpec

\* The words the disassembler shows as part of an instruction.
Disassembled(i) ==
  (IF i.op \in TwoOp \cup OneOp THEN NextWord(i.a) ELSE 0)
    + IF i.op \in TwoOp THEN NextWord(i.b) ELSE 0

\* "[REG + nextword]" (dcpu16n.cpp:242): running an instruction and skipping it
\* pass the same words, those the disassembler shows: the next instruction begins
\* in one place.
WordsAgree == dcpu.phase = "OPFETCH" => dcpu.words = Disassembled(dcpu.opcl)

\* They do but for operand a in that form: running the instruction passes a word less.
WordsPassed ==
  dcpu.phase = "OPFETCH" =>
    \/ dcpu.words = Disassembled(dcpu.opcl)
    \/ dcpu.opcl.a = "regnw" /\ dcpu.words + 1 = Disassembled(dcpu.opcl)

\* HWR, "(rb wa)", writes a at the address register of b; the address of an operand a
\* that was read as a register was never taken.
Astray(i) == i.op = "HWR" \/ (i.op \in Unary /\ i.a = "regnw")

\* A result goes to memory at the address of the operand it belongs to, never at one
\* left from another operand or instruction; but the two instructions that have no
\* address of their own when they store never hit it.
StoresAtOperand ==
  LET own == IF dcpu.opcl.op \in Arith THEN "b" ELSE "a"
  IN  IF Astray(dcpu.opcl) THEN dcpu.stored # own ELSE dcpu.stored \in {"none", own}

\* k calls of Tick(1) while an instruction waits or the CPU sleeps.
SingleTicks(c, k) ==
  LET at[j \in 0 .. k] == IF j = 0 THEN c ELSE Round(at[j - 1], 0, c.opcl, TRUE)
  IN  at[k]

\* How the computer slices time does not matter to the CPU: where a long
\* instruction, or sleep, takes several cycles of a call at once, it ends where as
\* many calls of one cycle end.
SlicesAgree ==
  dcpu.phase \in {"EXECW", "SLEEP"} =>
    \A n \in 0 .. HcfCycles :
      Round(dcpu, n, dcpu.opcl, TRUE)
        = SingleTicks(dcpu, n + 1 - Left(dcpu, n))

\* A message that waits with interrupts not queued is delivered (or dropped with
\* the queue), and wakes the CPU if it sleeps, unless the program goes on with BYT
\* prefixes and skipped tests forever.
WaitingIsTaken ==
  []<>(~dcpu.skip /\ ~dcpu.bytemode) => (Asked(dcpu) ~> (dcpu.qint \/ dcpu.iqc = 0))

\* Step returns: it counts no more cycles than five for the operands and those
\* the cycle table has for the instruction, wherever the last call had stopped and
\* whether the CPU sleeps, skips or enters a handler.
StepReturns ==
  call.kind = "step" => call.n <= 5 + cycletable[dcpu.opcl.op]
=============================================================================
