------------------------------ MODULE EnumBlk ------------------------------
(***************************************************************************)
(* The enumeration and control block of a slot (enum_and_ctrl_blk.cpp):    *)
(* the guest's stores reach the device's registers and its command as      *)
(* bytes, the low byte of a register only latched, the high byte           *)
(* delivering both.                                                        *)
(***************************************************************************)
EXTENDS Integers

CONSTANTS
  Registers,  \* how many 16 bit registers there are, CMD being number 0 (6)
  ByteValue,  \* values of a byte
  Unwritten   \* history: a byte the guest has not written

ASSUME BlockAssumption == Registers \in Nat \ {0} /\ Unwritten \notin ByteValue

VARIABLES
  block,  \* the latches, the device's registers and the command the last store ran
  guest,  \* history: the bytes the guest wrote, and which registers are settled
  late    \* history: the registers the last store wrote after it ran a command

blockVars == <<block, guest, late>>

Reg == 0 .. Registers - 1
CMD == 0
REG_A == 1
Low == 0
High == 1
Word == [{Low, High} -> ByteValue]

\* The block of 20 addresses begins with eight of identification; CMD and A to E
\* follow.
RegAddr == 8
EnumCtrlBlkLast == RegAddr + 2 * Registers
RegOf(addr) == (addr - RegAddr) \div 2
ByteOf(addr) == (addr - RegAddr) % 2
IsReg(addr) == addr >= RegAddr /\ RegOf(addr) \in Reg

\* No constructor initialises the latches.  The device starts with zeros.
BlockInit ==
  /\ \E w \in [Reg -> Word] :
       block = [latch |-> w, regs |-> CHOOSE zero \in [Reg -> Word] : TRUE, ran |-> {}]
  /\ guest = [wrote |-> [r \in Reg |-> [b \in {Low, High} |-> Unwritten]], settled |-> {}]
  /\ late = {}

-----------------------------------------------------------------------------
WriteB(blk, addr, v) ==
  IF ~IsReg(addr) THEN blk
  ELSE LET r == RegOf(addr)
           word == [blk.latch[r] EXCEPT ![ByteOf(addr)] = v]
           latched == [blk EXCEPT !.latch[r] = word]
       IN  IF ByteOf(addr) = Low THEN latched
           ELSE IF r = CMD THEN [latched EXCEPT !.ran = {[cmd |-> word, regs |-> blk.regs]}]
           ELSE [latched EXCEPT !.regs[r] = word]

\* CMD, like all that lies outside the registers, is no variable of the device.
ReadB(blk, addr) ==
  IF IsReg(addr) /\ RegOf(addr) # CMD THEN blk.regs[RegOf(addr)][ByteOf(addr)] ELSE Unwritten

\* Mutant: the bytes of a word are written high byte first.
WriteW_HighFirst(blk, addr, lo, hi) == WriteB(WriteB(blk, addr + 1, hi), addr, lo)

\* The switch compares the whole address with offsets in the block and never
\* matches: a word is two bytes, in the order of their addresses.
WriteW(blk, addr, lo, hi) == WriteB(WriteB(blk, addr, lo), addr + 1, hi)

WriteDW(blk, addr, v) == WriteW(WriteW(blk, addr, v[1], v[2]), addr + 2, v[3], v[4])

\* What the guest knows after it stores the bytes v from addr on: a register is
\* settled when its high byte was the last one written and both are the guest's.
Wrote(g, addr, v) ==
  LET at(r, b) == RegAddr + 2 * r + b - addr + 1
      bytes == [r \in Reg |-> [b \in {Low, High} |->
                  IF at(r, b) \in DOMAIN v THEN v[at(r, b)] ELSE g.wrote[r][b]]]
  IN  [wrote |-> bytes,
       settled |-> {r \in Reg :
         /\ bytes[r][Low] # Unwritten /\ bytes[r][High] # Unwritten
         /\ \/ at(r, High) \in DOMAIN v
            \/ r \in g.settled /\ at(r, Low) \notin DOMAIN v}]

\* One instruction of the guest.  Four bytes at the command, or at its high byte, reach
\* A's high byte too, but the command runs before A is written
\* (enum_and_ctrl_blk.cpp:242).
BlockStore ==
  \E addr \in RegAddr - 1 .. EnumCtrlBlkLast :
    LET fresh == [block EXCEPT !.ran = {}] IN
    \/ \E x \in ByteValue :
         block' = WriteB(fresh, addr, x) /\ guest' = Wrote(guest, addr, <<x>>)
         /\ late' = {}
    \/ \E x, y \in ByteValue :
         block' = WriteW(fresh, addr, x, y) /\ guest' = Wrote(guest, addr, <<x, y>>)
         /\ late' = {}
    \/ \E v \in [1 .. 4 -> ByteValue] :
         block' = WriteDW(fresh, addr, v) /\ guest' = Wrote(guest, addr, v)
         /\ late' = IF addr \in {RegAddr, RegAddr + 1} THEN {REG_A} ELSE {}

\* The device answers a command in a register; the latch keeps what the guest wrote.
Answered ==
  /\ block.ran # {}
  /\ \E r \in Reg \ {CMD}, w \in Word :
       /\ block' = [block EXCEPT !.regs[r] = w]
       /\ guest' = [guest EXCEPT !.settled = @ \ {r}]
  /\ UNCHANGED late

BlockNext == BlockStore \/ Answered

-----------------------------------------------------------------------------
BlockTypeOK ==
  /\ block.latch \in [Reg -> Word] /\ block.regs \in [Reg -> Word]
  /\ block.ran \subseteq [cmd : Word, regs : [Reg -> Word]]
  /\ guest.wrote \in [Reg -> [{Low, High} -> ByteValue \cup {Unwritten}]]
  /\ guest.settled \subseteq Reg
  /\ late \subseteq {REG_A}

BlockSpec == BlockInit /\ [][BlockNext]_blockVars

\* A command the guest wrote runs as it wrote it, and with every register as the
\* guest last wrote it, whatever mixture of stores of one, two and four bytes wrote
\* them, aligned or not, and whatever the device answered before: no low byte is
\* stale or was never latched.  Only A is late for a command that the same store ran.
\* And the guest reads such a register as it wrote it.
CommandSeesRegisters ==
  /\ CMD \in guest.settled =>
       \A run \in block.ran :
         /\ run.cmd = guest.wrote[CMD]
         /\ \A r \in guest.settled \ ({CMD} \cup late) : run.regs[r] = guest.wrote[r]
  /\ \A r \in guest.settled \ {CMD}, b \in {Low, High} :
       ReadB(block, RegAddr + 2 * r + b) = guest.wrote[r][b]
=============================================================================
