------------------------------- MODULE Stack -------------------------------
(***************************************************************************)
(* The instructions of the TR3200 that move words: between registers, to   *)
(* and from RAM, and over the stack, with the jumps, calls and interrupt   *)
(* frames built on it (tr3200.cpp).  A machine is a record of registers r, *)
(* counter pc and RAM mem.  All of the address space is RAM here.          *)
(***************************************************************************)
EXTENDS Alu

\* The powers of the size of a byte.
BytePower(i) == Pow2[i * (W \div 4)]
ByteSize == BytePower(1)
Register == {"r0", "r1", "sp"}

Machine(r0, r1, sp, addr, byte) ==
  [r |-> [n \in Register |-> CASE n = "r0" -> r0 [] n = "r1" -> r1 [] n = "sp" -> sp],
   pc |-> addr, mem |-> [a \in DWords |-> byte]]

\* Any machine between two instructions.
AllMachines ==
  [r : [Register -> DWords], pc : {a \in DWords : a % 4 = 0}, mem : [DWords -> 0 .. ByteSize - 1]]

\* Some of them, for TLC.
Machines ==
  {Machine(r0, r1, sp, addr, byte) :
     r0 \in {0, Size - 1}, r1 \in DWords, sp \in DWords,
     addr \in {a \in DWords : a % 4 = 0}, byte \in {0, ByteSize - 1}}

Aligned(a) == a - (a % 4)

-----------------------------------------------------------------------------
(* RAM: n bytes, little endian, at any address                             *)

\* The loads and stores with three operands add two of them.
Indexed(rs, rn) == (rs + rn) % Size

LOAD(mem, addr, n) ==
  LET byte(i) == IF i < n THEN mem[(addr + i) % Size] * BytePower(i) ELSE 0
  IN  byte(0) + byte(1) + byte(2) + byte(3)

STORE(mem, addr, n, x) ==
  [a \in DWords |->
     LET i == (a - addr) % Size
     IN  IF i < n THEN (x \div BytePower(i)) % ByteSize ELSE mem[a]]

-----------------------------------------------------------------------------
(* Operand N of an instruction [big, literal, field, reg] whose literal    *)
(* has "bits" bits.  pc is past the first word.                            *)

FetchOperand(m, inst, bits) ==
  IF inst.big THEN LOAD(m.mem, m.pc, 4)
  ELSE IF inst.literal THEN SignExtended(inst.field, bits)
  ELSE m.r[inst.reg]

AfterOperand(m, inst) == IF inst.big THEN [m EXCEPT !.pc = (@ + 4) % Size] ELSE m

\* The branch of a skipped instruction.
Skipped(m, inst) == [m EXCEPT !.pc = IF inst.big THEN (@ + 4) % Size ELSE @]

NOT(x) == Size - 1 - x
SIGXB(x) == SignExtended(x, W \div 4)
SIGXW(x) == SignExtended(x, W \div 2)

\* Swaps the bytes of the low half.
XCHGB(x) ==
  LET low == x % BytePower(2)
  IN  (x - low) + ((low % ByteSize) * ByteSize) + (low \div ByteSize)

-----------------------------------------------------------------------------
(* The stack grows down, byte by byte from the highest                     *)

Pushed(m, x) ==
  LET sp == (m.r["sp"] - 4) % Size
  IN  [m EXCEPT !.r["sp"] = sp, !.mem = STORE(@, sp, 4, x)]

Top(m) == LOAD(m.mem, m.r["sp"], 4)
Dropped(m) == [m EXCEPT !.r["sp"] = (@ + 4) % Size]

\* PUSH takes the operand before SP moves.
PUSH(m, rn) == Pushed(m, m.r[rn])
POP(m, rn) == Dropped([m EXCEPT !.r[rn] = Top(m)])

\* Literals count words.
Target(m, inst, rn) == IF inst.literal THEN (rn * 4) % Size ELSE rn
JumpTo(m, addr) == [m EXCEPT !.pc = Aligned(addr % Size)]

JMP(m, inst, rn) == JumpTo(m, Target(m, inst, rn))
RJMP(m, inst, rn) == JumpTo(m, m.pc + Target(m, inst, rn))
JMP2(m, inst, rd, rn) == JumpTo(m, m.r[rd] + Target(m, inst, rn))

\* CALL and RCALL read a register after the push, CALL2 reads rn before and rd after.
CALL(m, inst, rn) == JMP(Pushed(m, m.pc), inst, rn)
RCALL(m, inst, rn) == RJMP(Pushed(m, m.pc), inst, rn)
CALL2(m, inst, rd, rn) == JMP2(Pushed(m, m.pc), inst, rd, rn)

RET(m) == Dropped(JumpTo(m, Top(m)))

\* The frame of ProcessInterrupt.
Frame(m, msg, addr) ==
  LET saved == Pushed(Pushed(m, m.r["r0"]), m.pc)
  IN  [saved EXCEPT !.r["r0"] = msg, !.pc = addr]

RFI(m) == POP(RET(m), "r0")

-----------------------------------------------------------------------------
(* What they mean, for the machines in S                                   *)

\* m1 is m but for what is in the n bytes under the stack of m.
SameBut(n, m, m1) ==
  /\ m1.r = m.r /\ m1.pc = m.pc
  /\ \A a \in DWords : (m.r["sp"] - a) % Size \notin 1 .. n => m1.mem[a] = m.mem[a]

Literal(v) == [big |-> FALSE, literal |-> TRUE, field |-> v, reg |-> "r0"]
Big == [big |-> TRUE, literal |-> TRUE, field |-> 0, reg |-> "r0"]
Direct(n) == [big |-> FALSE, literal |-> FALSE, field |-> 0, reg |-> n]

\* Calls and interrupts, also one in a subroutine, come back to where they left.
CallsReturn(S) ==
  \A m \in S :
    /\ SameBut(4, m, RET(CALL(m, Direct("r1"), m.r["r1"])))
    /\ SameBut(4, m, RET(RCALL(m, Literal(1), 1)))
    /\ SameBut(4, m, RET(CALL2(m, Direct("r1"), "r0", m.r["r1"])))
    /\ SameBut(8, m, RFI(Frame(m, 1, 4)))
    /\ SameBut(12, m, RET(RFI(Frame(CALL(m, Literal(2), 2), 1, 4))))

\* What is pushed is popped, into another register too.  POP %sp is the exception: it
\* adds 4 to the pointer it took.
PopsPushed(S) ==
  \A m \in S, n \in Register, k \in Register \ {"sp"} :
    LET m1 == POP(PUSH(m, n), k)
    IN  SameBut(4, [m EXCEPT !.r[k] = m.r[n]], m1)

\* A store of n bytes is read back whole or in parts, and touches no other byte.
StoresLoad(S) ==
  \A m \in S, n \in {1, 2, 4} :
    LET x == m.r["r1"]
        a == Indexed(m.r["sp"], m.r["r0"])
        mem1 == STORE(m.mem, a, n, x)
    IN  /\ LOAD(mem1, a, n) = x % BytePower(n)
        /\ \A i \in 0 .. n - 1 : LOAD(mem1, (a + i) % Size, 1) = (x \div BytePower(i)) % ByteSize
        /\ \A b \in DWords : (b - a) % Size >= n => mem1[b] = m.mem[b]

\* A jump by a literal of n words moves pc by n words, back too; a skipped instruction
\* is as long as an executed one, and its operand is the word that follows.
JumpsByWords(S) ==
  \A m \in S, v \in 0 .. 7 :
    LET n == FetchOperand(m, Literal(v), 3)
        step == IF v < 4 THEN v ELSE v - 8
    IN  /\ RJMP(m, Literal(v), n).pc = (m.pc + 4 * step) % Size
        /\ \A inst \in {Literal(v), Big, Direct("r1")} :
             Skipped(m, inst).pc = AfterOperand(m, inst).pc
        /\ FetchOperand([m EXCEPT !.mem = STORE(@, m.pc, 4, v)], Big, 3) = v

\* Negation by NOT and ADD 1, and the order of the bytes turned around.
SwapsAgree ==
  \A x \in DWords :
    /\ (ADDC(NOT(x), 1, 0).rd + x) % Size = 0
    /\ SIGXW(SIGXB(x)) = SIGXB(x)
    /\ SIGXB(x) % ByteSize = x % ByteSize
    /\ \A i \in 0 .. 3 : (XCHGB(XCHGW(XCHGB(x))) \div BytePower(i)) % ByteSize
                          = (x \div BytePower(3 - i)) % ByteSize

\* What compiled code relies on: arithmetic over several words has no error, calls
\* and interrupt frames come back with registers, pc and the stack above unharmed,
\* loads see the bytes stored, and jumps and skips move by whole instructions.
MachineAgrees(S) ==
  /\ AluAgrees
  /\ CallsReturn(S) /\ PopsPushed(S) /\ StoresLoad(S) /\ JumpsByWords(S) /\ SwapsAgree
=============================================================================
