----------------------------- MODULE Bus_proofs -----------------------------
(***************************************************************************)
(* The listeners of the bus implement the table of slots, for any slots,   *)
(* devices and ranges, and a block gives its device what the guest wrote,  *)
(* for any number of registers.                                            *)
(***************************************************************************)
EXTENDS Bus, EnumBlk, TLAPS

Block(s, d) == Listener(BlockStart(s), BlockStart(s) + EnumCtrlBlkSize, d)

\* No address has two listeners.
Apart ==
  /\ \A l \in listeners : l.start \in Int /\ l.end \in Int /\ l.start <= l.end
  /\ \A l, k \in listeners : l # k => ~Same(l, k.start, k.end)

\* A device in a slot has its block mapped.
BlocksMapped == \A s \in Slot : devices[s] # NoDev => Block(s, devices[s]) \in listeners

\* A listener of a device is the block of a slot.
DevicesInBlocks ==
  \A l \in listeners : l.to \in Device => \E s \in Slot : l = Block(s, l.to)

BInv ==
  /\ devices \in [Slot -> Device \cup {NoDev}]
  /\ Apart /\ BlocksMapped /\ DevicesInBlocks

\* The blocks of two slots have no address in common.
LEMMA BlocksApart ==
  ASSUME NEW s \in Slot, NEW t \in Slot, NEW a \in Int,
         BlockStart(s) <= a, a <= BlockStart(s) + EnumCtrlBlkSize,
         BlockStart(t) <= a, a <= BlockStart(t) + EnumCtrlBlkSize
  PROVE  s = t
<1> DEFINE K == SlotStep
<1>1. s \in Nat /\ t \in Nat /\ SlotBase \in Int /\ K \in Nat
        /\ EnumCtrlBlkSize \in Nat /\ EnumCtrlBlkSize < K
  BY BusAssumption
<1>2. \A i, j \in Nat : i < j => i * K + K <= j * K
  <2> SUFFICES ASSUME NEW i \in Nat, NEW j \in Nat, i < j PROVE i * K + K <= j * K
    OBVIOUS
  <2> HIDE DEF K
  <2>1. PICK d \in Nat : j = i + 1 + d
    <3>1. j - i - 1 \in Nat /\ j = i + 1 + (j - i - 1)
      OBVIOUS
    <3> QED
      BY <3>1
  <2>2. j * K = i * K + K + d * K
    BY <2>1, <1>1
  <2>3. d * K >= 0 /\ i * K \in Int
    BY <1>1
  <2> QED
    BY <2>2, <2>3, <1>1
<1>3. s * K \in Int /\ t * K \in Int
  BY <1>1
<1>4. /\ SlotBase + s * K <= a /\ a <= SlotBase + s * K + EnumCtrlBlkSize
      /\ SlotBase + t * K <= a /\ a <= SlotBase + t * K + EnumCtrlBlkSize
  BY DEF BlockStart
<1> HIDE DEF K
<1>5. ~(s < t) /\ ~(t < s)
  BY <1>1, <1>2, <1>3, <1>4
<1> QED
  BY <1>1, <1>5

LEMMA BlockTyped ==
  ASSUME NEW s \in Slot
  PROVE  BlockStart(s) \in Int /\ EnumCtrlBlkSize \in Nat
           /\ BlockStart(s) >= SlotBase
<1>1. s \in Nat /\ SlotStep \in Nat /\ SlotBase \in Nat /\ EnumCtrlBlkSize \in Nat
  BY BusAssumption
<1>2. s * SlotStep \in Nat
  BY <1>1
<1> QED
  BY <1>1, <1>2 DEF BlockStart

\* A well formed range keeps the listeners apart, inserted or refused.
LEMMA InsertedApart ==
  ASSUME Apart, NEW new, new.start \in Int, new.end \in Int, new.start <= new.end,
         listeners' = Inserted(listeners, new)
  PROVE  /\ Apart'
         /\ listeners \subseteq listeners' /\ listeners' \subseteq listeners \cup {new}
<1>1. CASE \E l \in listeners : Same(l, new.start, new.end)
  BY <1>1 DEF Inserted, Apart
<1>2. CASE ~\E l \in listeners : Same(l, new.start, new.end)
  <2>1. listeners' = listeners \cup {new}
    BY <1>2 DEF Inserted
  <2>2. \A l \in listeners : ~Same(l, new.start, new.end) /\ ~Same(new, l.start, l.end)
    BY <1>2 DEF Same, Apart
  <2> QED
    BY <2>1, <2>2 DEF Apart
<1> QED
  BY <1>1, <1>2

LEMMA BInit == BusInit => BInv
<1> SUFFICES ASSUME BusInit PROVE BInv
  OBVIOUS
<1>1. Apart
  BY RangeAssumption DEF BusInit, Apart
<1>2. devices \in [Slot -> Device \cup {NoDev}] /\ BlocksMapped
  BY DEF BusInit, BlocksMapped
<1>3. DevicesInBlocks
  BY RangeAssumption DEF BusInit, DevicesInBlocks
<1> QED
  BY <1>1, <1>2, <1>3 DEF BInv

\* Plugging in keeps the invariant and is Plug of the table, or nothing.
LEMMA AddDeviceKeeps ==
  ASSUME BInv, NEW s \in Slot, NEW d \in Device, AddDevice(s, d)
  PROVE  BInv' /\ (devices' = devices \/ devices' = [devices EXCEPT ![s] = d])
<1> DEFINE new == Block(s, d)
<1>1. /\ new.start = BlockStart(s) /\ new.end = BlockStart(s) + EnumCtrlBlkSize
      /\ new.to = d
  BY DEF Block, Listener
<1>2. listeners' = Inserted(listeners, new)
  BY DEF AddDevice, GetRange, Block
<1>3. Apart' /\ listeners \subseteq listeners' /\ listeners' \subseteq listeners \cup {new}
  BY <1>1, <1>2, BlockTyped, InsertedApart DEF BInv
<1>4. devices' = IF listeners' # listeners THEN [devices EXCEPT ![s] = d] ELSE devices
  BY DEF AddDevice
<1> HIDE DEF new
<1>5. devices' \in [Slot -> Device \cup {NoDev}]
  BY <1>4 DEF BInv
<1>6. BlocksMapped'
  <2>1. CASE listeners' = listeners
    BY <2>1, <1>4 DEF BInv, BlocksMapped, Block
  <2>2. CASE listeners' # listeners
    <3>1. new \in listeners' /\ devices' = [devices EXCEPT ![s] = d]
      BY <2>2, <1>3, <1>4
    <3>2. ASSUME NEW t \in Slot, devices'[t] # NoDev
          PROVE  Block(t, devices'[t]) \in listeners'
      <4>1. CASE t = s
        BY <4>1, <3>1 DEF BInv, new
      <4>2. CASE t # s
        <5>1. devices'[t] = devices[t]
          BY <4>2, <3>1 DEF BInv
        <5> QED
          BY <5>1, <3>2, <1>3 DEF BInv, BlocksMapped
      <4> QED
        BY <4>1, <4>2
    <3> QED
      BY <3>2 DEF BlocksMapped, Block
  <2> QED
    BY <2>1, <2>2
<1>7. DevicesInBlocks'
  BY <1>1, <1>3 DEF BInv, DevicesInBlocks, Block, new
<1> QED
  BY <1>3, <1>4, <1>5, <1>6, <1>7 DEF BInv

\* Taking out a device leaves its listener.
LEMMA RmDeviceKeeps ==
  ASSUME BInv, NEW s \in Slot, RmDevice(s)
  PROVE  BInv' /\ devices' = [devices EXCEPT ![s] = NoDev]
<1>1. listeners' = listeners /\ devices' = [devices EXCEPT ![s] = NoDev]
  BY DEF RmDevice
<1>2. Apart' /\ DevicesInBlocks'
  BY <1>1 DEF BInv, Apart, DevicesInBlocks, Block
<1>3. devices' \in [Slot -> Device \cup {NoDev}]
  BY <1>1 DEF BInv
<1>4. BlocksMapped'
  BY <1>1 DEF BInv, BlocksMapped, Block
<1> QED
  BY <1>1, <1>2, <1>3, <1>4 DEF BInv

LEMMA AddListenerKeeps ==
  ASSUME BInv, AddAddrListener
  PROVE  BInv' /\ devices' = devices
<1>1. PICK r \in HostRange : listeners' = Inserted(listeners, Listener(r[1], r[2], "host"))
  BY DEF AddAddrListener
<1> DEFINE new == Listener(r[1], r[2], "host")
<1>2. /\ new.start = r[1] /\ new.end = r[2] /\ new.to = "host"
      /\ new.start \in Int /\ new.end \in Int /\ new.start <= new.end
  BY RangeAssumption DEF Listener
<1>3. listeners' = Inserted(listeners, new) /\ devices' = devices
  BY <1>1 DEF AddAddrListener
<1> HIDE DEF new
<1>4. Apart' /\ listeners \subseteq listeners' /\ listeners' \subseteq listeners \cup {new}
  BY <1>2, <1>3, InsertedApart DEF BInv
<1>5. BlocksMapped'
  BY <1>3, <1>4 DEF BInv, BlocksMapped, Block
<1>6. "host" \notin Device
  BY BusAssumption
<1>7. DevicesInBlocks'
  BY <1>2, <1>4, <1>6 DEF BInv, DevicesInBlocks, Block
<1> QED
  BY <1>3, <1>4, <1>5, <1>7 DEF BInv

\* A removed listener is not the block of a device that is plugged in.
LEMMA RmListenerKeeps ==
  ASSUME BInv, RmAddrListener
  PROVE  BInv' /\ devices' = devices
<1>1. PICK old \in Dangling \cup {l \in listeners : l.to = "host"} :
        listeners' = listeners \ Find(old.start)
  BY DEF RmAddrListener
<1>2. old \in listeners /\ devices' = devices
  BY <1>1 DEF Dangling, RmAddrListener
<1>3. \A l \in Find(old.start) : l = old
  <2> SUFFICES ASSUME NEW l \in Find(old.start) PROVE l = old
    OBVIOUS
  <2>1. l \in listeners /\ Same(l, old.start, old.start)
    BY DEF Find
  <2>2. Same(l, old.start, old.end)
    BY <2>1, <1>2 DEF BInv, Apart, Same
  <2> QED
    BY <2>1, <2>2, <1>2 DEF BInv, Apart
<1>4. listeners' \subseteq listeners /\ \A l \in listeners : l # old => l \in listeners'
  BY <1>1, <1>3
<1>5. Apart' /\ DevicesInBlocks'
  BY <1>4 DEF BInv, Apart, DevicesInBlocks, Block
<1>6. ASSUME NEW t \in Slot, devices[t] # NoDev PROVE Block(t, devices[t]) # old
  <2> SUFFICES ASSUME Block(t, devices[t]) = old PROVE FALSE
    OBVIOUS
  <2>1. old.start = BlockStart(t) /\ old.to = devices[t] /\ devices[t] \in Device
    BY <1>6 DEF Block, Listener, BInv
  <2>2. CASE old.to = "host"
    BY <2>1, <2>2, BusAssumption
  <2>3. CASE old \in Dangling
    <3>1. PICK s \in Slot : old.start = BlockStart(s) /\ devices[s] # old.to
      BY <2>3 DEF Dangling
    <3>2. /\ BlockStart(s) = BlockStart(t) /\ BlockStart(t) \in Int
          /\ BlockStart(t) <= BlockStart(t) + EnumCtrlBlkSize
      BY <3>1, <2>1, BlockTyped
    <3>3. s = t
      BY <3>2, BlocksApart
    <3> QED
      BY <3>1, <3>3, <2>1
  <2> QED
    BY <2>2, <2>3, <1>1
<1>7. BlocksMapped'
  BY <1>2, <1>4, <1>6 DEF BInv, BlocksMapped, Block
<1> QED
  BY <1>2, <1>5, <1>7 DEF BInv

\* The answer as the table sees it.
Answer(x) == IF x \in Device THEN x ELSE NoDev

\* A listener that serves an address in the block of a slot is that of its device.
LEMMA FoundInBlock ==
  ASSUME BInv, Dangling = {}, NEW addr \in Int, NEW l \in Find(addr), l.to \in Device
  PROVE  \E s \in Slot : s \in BlockOf(addr) /\ devices[s] = l.to
<1>1. l \in listeners /\ Same(l, addr, addr)
  BY DEF Find
<1>2. PICK s \in Slot : l = Block(s, l.to)
  BY <1>1 DEF BInv, DevicesInBlocks
<1>3. l.start = BlockStart(s) /\ l.end = BlockStart(s) + EnumCtrlBlkSize
  BY <1>2 DEF Block, Listener
<1>4. s \in BlockOf(addr)
  BY <1>1, <1>3, BlockTyped DEF BlockOf, GetRange, Same
<1>5. devices[s] = l.to
  BY <1>1, <1>3 DEF Dangling
<1> QED
  BY <1>4, <1>5

LEMMA ListeningAnswers ==
  ASSUME BInv, Dangling = {}, NEW addr \in Int
  PROVE  /\ BlockOf(addr) = {} => Answer(Listening(addr)) = NoDev
         /\ \A s \in BlockOf(addr) : Answer(Listening(addr)) = devices[s]
<1> DEFINE l == CHOOSE l \in Find(addr) : TRUE
<1>1. Find(addr) = {} => Answer(Listening(addr)) = NoDev
  BY BusAssumption DEF Listening, Answer
<1>2. Find(addr) # {} => l \in Find(addr) /\ Listening(addr) = l.to
  BY DEF Listening
<1> HIDE DEF l
<1>3. ASSUME NEW s \in BlockOf(addr), NEW t \in BlockOf(addr) PROVE s = t
  BY BlocksApart DEF BlockOf, GetRange
<1>4. ASSUME BlockOf(addr) = {} PROVE Answer(Listening(addr)) = NoDev
  <2>1. CASE Find(addr) # {} /\ l.to \in Device
    BY <2>1, <1>2, <1>4, FoundInBlock
  <2>2. CASE Find(addr) # {} /\ l.to \notin Device
    BY <2>2, <1>2 DEF Answer
  <2> QED
    BY <1>1, <2>1, <2>2
<1>5. ASSUME NEW s \in BlockOf(addr) PROVE Answer(Listening(addr)) = devices[s]
  <2>1. s \in Slot
    BY DEF BlockOf
  <2>2. CASE devices[s] = NoDev
    <3>1. CASE Find(addr) # {} /\ l.to \in Device
      BY <3>1, <1>2, <1>3, <2>2, FoundInBlock, BusAssumption
    <3>2. CASE Find(addr) # {} /\ l.to \notin Device
      BY <3>2, <1>2, <2>2 DEF Answer
    <3> QED
      BY <1>1, <2>2, <3>1, <3>2
  <2>3. CASE devices[s] # NoDev
    <3> DEFINE b == Block(s, devices[s])
    <3>1. b \in listeners /\ devices[s] \in Device
      BY <2>1, <2>3 DEF BInv, BlocksMapped
    <3>2. /\ b.start = BlockStart(s) /\ b.end = BlockStart(s) + EnumCtrlBlkSize
          /\ b.to = devices[s]
      BY DEF Block, Listener
    <3> HIDE DEF b
    <3>3. b.start <= addr /\ addr <= b.end /\ b.start \in Int /\ b.end \in Int
      BY <3>2, <2>1, BlockTyped DEF BlockOf, GetRange
    <3>4. b \in Find(addr)
      BY <3>1, <3>3 DEF Find, Same
    <3>5. l \in listeners /\ Same(l, addr, addr)
      BY <1>2, <3>4 DEF Find
    <3>6. Same(l, b.start, b.end)
      BY <3>3, <3>5 DEF BInv, Apart, Same
    <3>7. l = b
      BY <3>1, <3>5, <3>6 DEF BInv, Apart
    <3> QED
      BY <1>2, <3>1, <3>2, <3>4, <3>7 DEF Answer
  <2> QED
    BY <2>2, <2>3
<1> QED
  BY <1>4, <1>5

\* An access is an access of the table.
LEMMA AccessAnswers ==
  ASSUME BInv, NEW a \in 0 .. AddrSpace + RamSize, NEW width \in {1, 2, 4},
         Access(a, width)
  PROVE  /\ BInv' /\ devices' = devices
         /\ asked' \in Slot \cup {NoSlot}
         /\ Answer(answer') = IF asked' \in Slot THEN devices[asked'] ELSE NoDev
<1> DEFINE addr == a % AddrSpace
<1>1. addr \in Nat
  BY BusAssumption
<1>2. /\ Dangling = {} /\ devices' = devices /\ listeners' = listeners
      /\ answer' \in {ReadsFrom(addr, width), WritesTo(addr, width)}
      /\ asked' = IF BlockOf(addr) = {} THEN NoSlot
                  ELSE CHOOSE s \in BlockOf(addr) : TRUE
  BY DEF Access
<1> HIDE DEF addr
<1>3. BInv'
  BY <1>2 DEF BInv, Apart, BlocksMapped, DevicesInBlocks, Block
<1>4. CASE BlockOf(addr) = {}
  <2>1. Answer(Listening(addr)) = NoDev
    BY <1>1, <1>2, <1>4, ListeningAnswers
  <2>2. Answer("RAM") = NoDev /\ Answer("ROM") = NoDev
    BY BusAssumption DEF Answer
  <2>3. answer' \in {"RAM", "ROM", Listening(addr)}
    BY <1>2 DEF ReadsFrom, WritesTo
  <2> QED
    BY <1>2, <1>3, <1>4, <2>1, <2>2, <2>3, BusAssumption
<1>5. CASE BlockOf(addr) # {}
  <2>1. asked' \in BlockOf(addr) /\ asked' \in Slot
    BY <1>2, <1>5 DEF BlockOf
  <2>2. Answer(Listening(addr)) = devices[asked']
    BY <1>1, <1>2, <2>1, ListeningAnswers
  <2>3. addr >= SlotBase
    BY <1>1, <2>1, BlockTyped, BusAssumption DEF BlockOf, GetRange
  <2>4. ~InRam(addr, width) /\ ~InRom(addr)
    BY <1>1, <2>3, BusAssumption DEF InRam, InRom
  <2>5. answer' = Listening(addr)
    BY <1>2, <2>4 DEF ReadsFrom, WritesTo
  <2> QED
    BY <1>2, <1>3, <2>1, <2>2, <2>5
<1> QED
  BY <1>4, <1>5

\* A step of the bus keeps the invariant and is a step of the table, or none.
LEMMA BStep ==
  ASSUME BInv, [BusNext]_busVars
  PROVE  BInv' /\ [Table!TableNext]_(Table!tableVars)
<1>1. ASSUME NEW s \in Slot, NEW d \in Device, AddDevice(s, d)
      PROVE  BInv' /\ [Table!TableNext]_(Table!tableVars)
  <2>1. devices[s] = NoDev /\ UNCHANGED <<asked, answer>>
    BY <1>1 DEF AddDevice
  <2>2. BInv' /\ (devices' = devices \/ devices' = [devices EXCEPT ![s] = d])
    BY <1>1, AddDeviceKeeps
  <2> QED
    BY <2>1, <2>2 DEF Table!TableNext, Table!Plug, Table!tableVars
<1>2. ASSUME NEW s \in Slot, RmDevice(s)
      PROVE  BInv' /\ [Table!TableNext]_(Table!tableVars)
  <2>1. UNCHANGED <<asked, answer>>
    BY <1>2 DEF RmDevice
  <2>2. BInv' /\ devices' = [devices EXCEPT ![s] = NoDev]
    BY <1>2, RmDeviceKeeps
  <2> QED
    BY <2>1, <2>2 DEF Table!TableNext, Table!Unplug, Table!tableVars
<1>3. ASSUME AddAddrListener PROVE BInv' /\ [Table!TableNext]_(Table!tableVars)
  BY <1>3, AddListenerKeeps DEF AddAddrListener, Table!tableVars
<1>4. ASSUME RmAddrListener PROVE BInv' /\ [Table!TableNext]_(Table!tableVars)
  BY <1>4, RmListenerKeeps DEF RmAddrListener, Table!tableVars
<1>5. ASSUME NEW a \in 0 .. AddrSpace + RamSize, NEW width \in {1, 2, 4},
             Access(a, width)
      PROVE  BInv' /\ [Table!TableNext]_(Table!tableVars)
  <2>1. /\ BInv' /\ devices' = devices
        /\ asked' \in Slot \cup {NoSlot}
        /\ Answer(answer') = IF asked' \in Slot THEN devices[asked'] ELSE NoDev
    BY <1>5, AccessAnswers
  <2>2. Table!Access(asked')
    BY <2>1 DEF Table!Access, Answer
  <2> QED
    BY <2>1, <2>2 DEF Table!TableNext
<1>6. ASSUME UNCHANGED busVars PROVE BInv' /\ [Table!TableNext]_(Table!tableVars)
  BY <1>6 DEF busVars, BInv, Apart, BlocksMapped, DevicesInBlocks, Block, Table!tableVars
<1> QED
  BY <1>1, <1>2, <1>3, <1>4, <1>5, <1>6 DEF BusNext

\* The listeners are consistent with the slots (vcomputer.cpp:127-166, 357-371), with
\* any host that removes what RmDevice left before the guest runs.
THEOREM BusInvariant == BusSpec => []BInv
<1>1. BusInit => BInv
  BY BInit
<1>2. BInv /\ [BusNext]_busVars => BInv'
  BY BStep
<1> QED
  BY <1>1, <1>2, PTL DEF BusSpec

\* The guest that addresses a slot's block reaches the device in the slot, or nothing,
\* and a device nowhere else (vcomputer.hpp:176-305).
THEOREM BusImplementsSlots == BusSpec => SlotsSpec
<1>1. BusInit => Table!TableInit
  BY BusAssumption DEF BusInit, Table!TableInit
<1>2. BInv /\ [BusNext]_busVars => [Table!TableNext]_(Table!tableVars)
  BY BStep
<1> QED
  BY <1>1, <1>2, BusInvariant, PTL DEF BusSpec, SlotsSpec, Table!TableSpec

-----------------------------------------------------------------------------

USE BlockAssumption

Half == {Low, High}
AddrOf(r, b) == RegAddr + 2 * r + b
Maybe == ByteValue \cup {Unwritten}

\* The types of a block, and of what its guest wrote.
BlockType(blk) ==
  /\ blk = [latch |-> blk.latch, regs |-> blk.regs, ran |-> blk.ran]
  /\ blk.latch \in [Reg -> Word] /\ blk.regs \in [Reg -> Word]
  /\ blk.ran \subseteq [cmd : Word, regs : [Reg -> Word]]

GuestType(g) ==
  /\ g = [wrote |-> g.wrote, settled |-> g.settled]
  /\ g.wrote \in [Reg -> [Half -> Maybe]] /\ g.settled \subseteq Reg

\* A latch holds what the guest wrote into it, a register that is settled all that was
\* written, and a command that ran saw the registers that are settled now, but those that
\* are late for it.
LatchHolds(blk, g) ==
  /\ \A r \in Reg, b \in Half : g.wrote[r][b] # Unwritten => blk.latch[r][b] = g.wrote[r][b]
  /\ \A r \in g.settled : \A b \in Half : g.wrote[r][b] # Unwritten
  /\ \A r \in g.settled \ {CMD} : blk.regs[r] = g.wrote[r]

Ran(blk, g, l) ==
  CMD \in g.settled =>
    \A run \in blk.ran :
      /\ run.cmd = g.wrote[CMD]
      /\ \A r \in g.settled \ ({CMD} \cup l) : run.regs[r] = g.wrote[r]

BlockInv(blk, g, l) ==
  /\ BlockType(blk) /\ GuestType(g) /\ l \subseteq {REG_A}
  /\ LatchHolds(blk, g) /\ Ran(blk, g, l)

\* A byte at a writes to no register, only latches, or completes a register that is late.
Harmless(a, l) == ~IsReg(a) \/ ByteOf(a) = Low \/ RegOf(a) \in l

\* What the guest knows after a store of one byte.
ByteWrote(g, a, x) ==
  LET bytes == [r \in Reg |-> [b \in Half |->
                  IF AddrOf(r, b) = a THEN x ELSE g.wrote[r][b]]]
  IN  [wrote |-> bytes,
       settled |-> {r \in Reg :
         /\ bytes[r][Low] # Unwritten /\ bytes[r][High] # Unwritten
         /\ AddrOf(r, High) = a \/ (r \in g.settled /\ AddrOf(r, Low) # a)}]

-----------------------------------------------------------------------------
\* An address belongs to one byte of one register, or to none.
LEMMA Addresses ==
  ASSUME NEW a \in Nat
  PROVE  /\ IsReg(a) => /\ RegOf(a) \in Reg /\ ByteOf(a) \in Half
                        /\ \A r \in Reg, b \in Half :
                             AddrOf(r, b) = a <=> r = RegOf(a) /\ b = ByteOf(a)
         /\ ~IsReg(a) => \A r \in Reg, b \in Half : AddrOf(r, b) # a
<1>1. ASSUME NEW r \in Reg, NEW b \in Half
      PROVE  /\ AddrOf(r, b) = a => a >= RegAddr /\ RegOf(a) = r /\ ByteOf(a) = b
             /\ a >= RegAddr /\ RegOf(a) = r /\ ByteOf(a) = b => AddrOf(r, b) = a
  BY DEF AddrOf, RegOf, ByteOf, RegAddr, Half, Low, High, Reg
<1>2. a >= RegAddr => ByteOf(a) \in Half
  BY DEF ByteOf, RegAddr, Half, Low, High
<1> QED
  BY <1>1, <1>2 DEF IsReg

LEMMA AddressOfByte ==
  ASSUME NEW r \in Reg, NEW b \in Half
  PROVE  /\ AddrOf(r, b) \in Nat /\ IsReg(AddrOf(r, b))
         /\ RegOf(AddrOf(r, b)) = r /\ ByteOf(AddrOf(r, b)) = b
<1>1. AddrOf(r, b) \in Nat
  BY DEF AddrOf, RegAddr, Half, Low, High, Reg
<1> QED
  BY <1>1, Addresses

\* A store of one byte, and one more byte of a longer store.
LEMMA WroteByte ==
  ASSUME NEW g, GuestType(g), NEW a \in Nat, NEW v, DOMAIN v = 1 .. 1
  PROVE  Wrote(g, a, v) = ByteWrote(g, a, v[1])
<1> DEFINE at(r, b) == RegAddr + 2 * r + b - a + 1
<1>1. ASSUME NEW r \in Reg, NEW b \in Half
      PROVE  /\ at(r, b) \in 1 .. 1 <=> AddrOf(r, b) = a
             /\ AddrOf(r, b) = a => at(r, b) = 1
  BY DEF AddrOf, RegAddr, Half, Low, High, Reg
<1> DEFINE new == [r \in Reg |-> [b \in Half |->
                     IF AddrOf(r, b) = a THEN v[1] ELSE g.wrote[r][b]]]
<1>2. [r \in Reg |-> [b \in {Low, High} |->
         IF at(r, b) \in DOMAIN v THEN v[at(r, b)] ELSE g.wrote[r][b]]] = new
  BY <1>1 DEF Half
<1>3. \A r \in Reg : /\ at(r, High) \in DOMAIN v <=> AddrOf(r, High) = a
                     /\ at(r, Low) \in DOMAIN v <=> AddrOf(r, Low) = a
  BY <1>1 DEF Half
<1>4. Wrote(g, a, v) =
        [wrote |-> new,
         settled |-> {r \in Reg :
           /\ new[r][Low] # Unwritten /\ new[r][High] # Unwritten
           /\ \/ at(r, High) \in DOMAIN v
              \/ r \in g.settled /\ at(r, Low) \notin DOMAIN v}]
  BY <1>2 DEF Wrote
<1> HIDE DEF new, at
<1> QED
  BY <1>3, <1>4 DEF ByteWrote, new

LEMMA WroteMore ==
  ASSUME NEW g, GuestType(g), NEW a \in Nat, NEW n \in Nat \ {0}, NEW v, NEW w,
         DOMAIN w = 1 .. n, DOMAIN v = 1 .. n + 1, \A k \in 1 .. n : w[k] = v[k]
  PROVE  Wrote(g, a, v) = ByteWrote(Wrote(g, a, w), a + n, v[n + 1])
<1> DEFINE at(r, b) == RegAddr + 2 * r + b - a + 1
           old == [r \in Reg |-> [b \in Half |->
                     IF at(r, b) \in 1 .. n THEN w[at(r, b)] ELSE g.wrote[r][b]]]
           new == [r \in Reg |-> [b \in Half |->
                     IF at(r, b) \in 1 .. n + 1 THEN v[at(r, b)] ELSE g.wrote[r][b]]]
           written(f, r) == f[r][Low] # Unwritten /\ f[r][High] # Unwritten
           h == Wrote(g, a, w)
<1>1. ASSUME NEW r \in Reg, NEW b \in Half
      PROVE  /\ AddrOf(r, b) = a + n <=> at(r, b) = n + 1
             /\ at(r, b) \in 1 .. n + 1 <=> at(r, b) \in 1 .. n \/ at(r, b) = n + 1
             /\ at(r, b) = n + 1 => at(r, b) \notin 1 .. n
  <2>1. AddrOf(r, b) \in Int /\ at(r, b) = AddrOf(r, b) - a + 1
    BY DEF AddrOf, RegAddr, Half, Low, High, Reg
  <2> HIDE DEF at
  <2> QED
    BY <2>1
<1>2. \A r \in Reg : at(r, High) = at(r, Low) + 1 /\ at(r, Low) \in Int
  BY DEF RegAddr, Low, High, Reg
<1>3. /\ h = [wrote |-> old,
              settled |-> {r \in Reg : /\ written(old, r)
                                       /\ \/ at(r, High) \in 1 .. n
                                          \/ r \in g.settled /\ at(r, Low) \notin 1 .. n}]
      /\ Wrote(g, a, v) =
           [wrote |-> new,
            settled |-> {r \in Reg : /\ written(new, r)
                                     /\ \/ at(r, High) \in 1 .. n + 1
                                        \/ r \in g.settled /\ at(r, Low) \notin 1 .. n + 1}]
  BY DEF Wrote, Half
<1>4. [r \in Reg |-> [b \in Half |->
         IF AddrOf(r, b) = a + n THEN v[n + 1] ELSE old[r][b]]] = new
  <2>1. ASSUME NEW r \in Reg, NEW b \in Half
        PROVE  (IF AddrOf(r, b) = a + n THEN v[n + 1] ELSE old[r][b])
                 = IF at(r, b) \in 1 .. n + 1 THEN v[at(r, b)] ELSE g.wrote[r][b]
    <3> HIDE DEF at
    <3> QED
      BY <1>1
  <2> HIDE DEF at, old
  <2> QED
    BY <2>1
<1>5. ByteWrote(h, a + n, v[n + 1]) =
        [wrote |-> new,
         settled |-> {r \in Reg : /\ written(new, r)
                                  /\ \/ AddrOf(r, High) = a + n
                                     \/ r \in h.settled /\ AddrOf(r, Low) # a + n}]
  <2>1. h.wrote = old
    BY <1>3
  <2> HIDE DEF h, old, new
  <2> QED
    BY <1>4, <2>1 DEF ByteWrote
<1>6. ASSUME NEW r \in Reg
      PROVE  /\ at(r, High) \in 1 .. n + 1 \/ (r \in g.settled /\ at(r, Low) \notin 1 .. n + 1)
             /\ written(new, r)
             <=> /\ AddrOf(r, High) = a + n \/ (r \in h.settled /\ AddrOf(r, Low) # a + n)
                 /\ written(new, r)
  <2>0. Low \in Half /\ High \in Half
    BY DEF Half
  <2>1. r \in h.settled <=>
          /\ written(old, r)
          /\ at(r, High) \in 1 .. n \/ (r \in g.settled /\ at(r, Low) \notin 1 .. n)
    <3> HIDE DEF at, old
    <3> QED
      BY <1>3
  <2>2. CASE at(r, High) = n + 1
    <3> HIDE DEF at, old, new, h
    <3> QED
      BY <1>1, <2>0, <2>2
  <2>3. CASE at(r, Low) = n + 1
    <3>1. at(r, High) = n + 2 /\ at(r, High) \notin 1 .. n + 1
      BY <1>2, <2>3
    <3> HIDE DEF at, old, new, h
    <3> QED
      BY <1>1, <2>0, <2>3, <3>1
  <2>4. CASE at(r, High) # n + 1 /\ at(r, Low) # n + 1
    <3>1. \A b \in Half : at(r, b) # n + 1
      BY <2>4 DEF Half
    <3>2. \A b \in Half : new[r][b] = old[r][b]
      <4> HIDE DEF at
      <4> QED
        BY <1>1, <3>1
    <3> HIDE DEF at, old, new, h
    <3> QED
      BY <1>1, <2>0, <2>1, <2>4, <3>2
  <2> QED
    BY <2>2, <2>3, <2>4
<1> HIDE DEF at, old, new, h
<1> QED
  BY <1>3, <1>5, <1>6 DEF h

\* The store v is the store w and one more byte.
Longer(v, w, n) ==
  /\ n \in Nat \ {0} /\ DOMAIN w = 1 .. n /\ DOMAIN v = 1 .. n + 1
  /\ \A k \in 1 .. n : w[k] = v[k]

LEMMA WroteLonger ==
  ASSUME NEW g, GuestType(g), NEW a \in Nat, NEW n, NEW v, NEW w, Longer(v, w, n)
  PROVE  Wrote(g, a, v) = ByteWrote(Wrote(g, a, w), a + n, v[n + 1])
BY WroteMore DEF Longer

-----------------------------------------------------------------------------
\* What one byte does to what the guest knows.
LEMMA GuestOfByte ==
  ASSUME NEW g, GuestType(g), NEW a \in Nat, NEW x \in ByteValue
  PROVE  LET h == ByteWrote(g, a, x) IN
         /\ GuestType(h)
         /\ \A r \in Reg, b \in Half :
              h.wrote[r][b] = IF AddrOf(r, b) = a THEN x ELSE g.wrote[r][b]
         /\ \A r \in h.settled :
              /\ r \in Reg /\ h.wrote[r][Low] # Unwritten /\ h.wrote[r][High] # Unwritten
              /\ AddrOf(r, High) = a \/ (r \in g.settled /\ AddrOf(r, Low) # a)
<1> DEFINE h == ByteWrote(g, a, x)
           bytes == [r \in Reg |-> [b \in Half |->
                       IF AddrOf(r, b) = a THEN x ELSE g.wrote[r][b]]]
<1>1. h = [wrote |-> bytes,
           settled |-> {r \in Reg :
             /\ bytes[r][Low] # Unwritten /\ bytes[r][High] # Unwritten
             /\ AddrOf(r, High) = a \/ (r \in g.settled /\ AddrOf(r, Low) # a)}]
  BY DEF ByteWrote
<1>2. bytes \in [Reg -> [Half -> Maybe]]
  <2>1. ASSUME NEW r \in Reg, NEW b \in Half
        PROVE  (IF AddrOf(r, b) = a THEN x ELSE g.wrote[r][b]) \in Maybe
    BY DEF GuestType, Maybe
  <2> QED
    BY <2>1
<1>3. \A r \in Reg, b \in Half :
        bytes[r][b] = IF AddrOf(r, b) = a THEN x ELSE g.wrote[r][b]
  OBVIOUS
<1> HIDE DEF h, bytes
<1>4. h.wrote = bytes /\ h = [wrote |-> h.wrote, settled |-> h.settled]
  BY <1>1
<1>5. \A r \in h.settled :
        /\ r \in Reg /\ h.wrote[r][Low] # Unwritten /\ h.wrote[r][High] # Unwritten
        /\ AddrOf(r, High) = a \/ (r \in g.settled /\ AddrOf(r, Low) # a)
  BY <1>1, <1>4
<1>6. GuestType(h)
  BY <1>2, <1>4, <1>5 DEF GuestType
<1> QED
  BY <1>3, <1>4, <1>5, <1>6 DEF h

\* A harmless byte, or any byte before the command runs, keeps the block right.
LEMMA ByteKeeps ==
  ASSUME NEW blk, NEW g, NEW l, BlockInv(blk, g, l), NEW a \in Nat, NEW x \in ByteValue,
         blk.ran = {} \/ Harmless(a, l)
  PROVE  /\ BlockInv(WriteB(blk, a, x), ByteWrote(g, a, x), l)
         /\ a # AddrOf(CMD, High) => WriteB(blk, a, x).ran = blk.ran
<1> DEFINE h == ByteWrote(g, a, x)
           r0 == RegOf(a)
           b0 == ByteOf(a)
<1>1. /\ GuestType(h)
      /\ \A r \in Reg, b \in Half :
           h.wrote[r][b] = IF AddrOf(r, b) = a THEN x ELSE g.wrote[r][b]
      /\ \A r \in h.settled :
           /\ r \in Reg /\ h.wrote[r][Low] # Unwritten /\ h.wrote[r][High] # Unwritten
           /\ AddrOf(r, High) = a \/ (r \in g.settled /\ AddrOf(r, Low) # a)
  BY GuestOfByte DEF BlockInv
<1>2. /\ GuestType(g) /\ BlockType(blk) /\ LatchHolds(blk, g) /\ Ran(blk, g, l)
      /\ Low \in Half /\ High \in Half /\ Low # High /\ x # Unwritten
      /\ \A b \in Half : b = Low \/ b = High
  BY DEF BlockInv, Half, Low, High
<1> HIDE DEF h
<1>3. ASSUME ~IsReg(a)
      PROVE  /\ BlockInv(WriteB(blk, a, x), h, l) /\ WriteB(blk, a, x) = blk
  <2>1. \A r \in Reg, b \in Half : AddrOf(r, b) # a
    BY <1>3, Addresses
  <2>2. WriteB(blk, a, x) = blk
    BY <1>3 DEF WriteB
  <2>3. h.settled \subseteq g.settled
    BY <1>1, <1>2, <2>1
  <2>4. \A r \in Reg : h.wrote[r] = g.wrote[r]
    BY <1>1, <1>2, <2>1 DEF GuestType
  <2>5. CMD \in Reg
    BY DEF Reg, CMD
  <2>6. LatchHolds(blk, h)
    BY <1>1, <1>2, <2>3, <2>4 DEF LatchHolds, GuestType
  <2>7. Ran(blk, h, l)
    BY <1>1, <1>2, <2>3, <2>4, <2>5 DEF Ran, GuestType
  <2> QED
    BY <1>1, <1>2, <2>2, <2>6, <2>7 DEF BlockInv
<1>4. ASSUME IsReg(a)
      PROVE  /\ BlockInv(WriteB(blk, a, x), h, l)
             /\ a # AddrOf(CMD, High) => WriteB(blk, a, x).ran = blk.ran
  <2> DEFINE word == [blk.latch[r0] EXCEPT ![b0] = x]
             lat == [blk.latch EXCEPT ![r0] = word]
  <2>1. /\ r0 \in Reg /\ b0 \in Half
        /\ \A r \in Reg, b \in Half : AddrOf(r, b) = a <=> r = r0 /\ b = b0
    BY <1>4, Addresses
  <2>2. word \in Word /\ word[b0] = x /\ \A b \in Half : b # b0 => word[b] = blk.latch[r0][b]
    BY <1>2, <2>1 DEF BlockType, Word, Half
  <2>3. /\ lat \in [Reg -> Word] /\ lat[r0] = word
        /\ \A r \in Reg : r # r0 => lat[r] = blk.latch[r]
    <3> HIDE DEF word
    <3> QED
      BY <1>2, <2>1, <2>2 DEF BlockType
  <2>4. \A r \in Reg, b \in Half : h.wrote[r][b] # Unwritten => lat[r][b] = h.wrote[r][b]
    <3> SUFFICES ASSUME NEW r \in Reg, NEW b \in Half, h.wrote[r][b] # Unwritten
                 PROVE  lat[r][b] = h.wrote[r][b]
      OBVIOUS
    <3> HIDE DEF lat, word
    <3>1. CASE r = r0 /\ b = b0
      BY <1>1, <2>1, <2>2, <2>3, <3>1
    <3>2. CASE ~(r = r0 /\ b = b0)
      <4>1. h.wrote[r][b] = g.wrote[r][b]
        BY <1>1, <2>1, <3>2
      <4>2. blk.latch[r][b] = g.wrote[r][b]
        BY <1>2, <4>1 DEF LatchHolds
      <4> QED
        BY <2>2, <2>3, <3>2, <4>1, <4>2
    <3> QED
      BY <3>1, <3>2
  <2>5. \A r \in h.settled : \A b \in Half : h.wrote[r][b] # Unwritten
    BY <1>1, <1>2
  <2>6. \A r \in Reg :
          r # r0 => h.wrote[r] = g.wrote[r] /\ (r \in h.settled => r \in g.settled)
    BY <1>1, <1>2, <2>1 DEF GuestType
  <2>7. b0 = Low => r0 \notin h.settled
    BY <1>1, <1>2, <2>1
  <2>8. \A r \in h.settled : r # r0 => r \in g.settled /\ h.wrote[r] = g.wrote[r] /\ r \in Reg
    <3> SUFFICES ASSUME NEW r \in h.settled, r # r0
                 PROVE  r \in g.settled /\ h.wrote[r] = g.wrote[r] /\ r \in Reg
      OBVIOUS
    <3>1. r \in Reg
      BY <1>1
    <3> HIDE DEF r0, b0
    <3> QED
      BY <2>6, <3>1
  <2>9. CMD \in Reg
    BY DEF Reg, CMD
  <2>10. r0 \in h.settled => word = h.wrote[r0]
    <3> SUFFICES ASSUME r0 \in h.settled PROVE word = h.wrote[r0]
      OBVIOUS
    <3>1. \A b \in Half : word[b] = h.wrote[r0][b]
      <4> HIDE DEF lat, word
      <4> QED
        BY <2>1, <2>3, <2>4, <2>5
    <3>2. word \in [Half -> ByteValue] /\ h.wrote[r0] \in [Half -> Maybe]
      BY <1>1, <2>1, <2>2 DEF GuestType, Word, Half
    <3> HIDE DEF word
    <3> QED
      BY <3>1, <3>2
  <2> HIDE DEF lat, word, r0, b0
  <2>11. CASE b0 = Low
    <3>1. WriteB(blk, a, x) = [latch |-> lat, regs |-> blk.regs, ran |-> blk.ran]
      BY <1>2, <1>4, <2>11 DEF WriteB, BlockType, lat, word, r0, b0
    <3>2. r0 \notin h.settled
      BY <2>7, <2>11
    <3>3. \A r \in h.settled : r \in g.settled /\ h.wrote[r] = g.wrote[r] /\ r \in Reg
      BY <2>8, <3>2
    <3> DEFINE d == [latch |-> lat, regs |-> blk.regs, ran |-> blk.ran]
    <3>4. LatchHolds(d, h)
      BY <1>2, <2>4, <2>5, <3>3 DEF LatchHolds
    <3>5. Ran(d, h, l)
      BY <1>2, <3>3 DEF Ran
    <3>6. BlockType(d)
      BY <1>2, <2>3 DEF BlockType
    <3> QED
      BY <1>1, <3>1, <3>4, <3>5, <3>6 DEF BlockInv
  <2>12. CASE b0 = High /\ r0 = CMD
    <3> DEFINE d == [latch |-> lat, regs |-> blk.regs,
                     ran |-> {[cmd |-> word, regs |-> blk.regs]}]
    <3>1. WriteB(blk, a, x) = d
      BY <1>2, <1>4, <2>12 DEF WriteB, BlockType, lat, word, r0, b0
    <3>2. \A r \in h.settled \ {CMD} : r \in g.settled /\ h.wrote[r] = g.wrote[r] /\ r \in Reg
      BY <2>12, <2>8
    <3>3. LatchHolds(d, h)
      BY <1>2, <2>4, <2>5, <3>2 DEF LatchHolds
    <3>4. Ran(d, h, l)
      BY <1>2, <2>10, <2>12, <3>2 DEF Ran, LatchHolds
    <3>5. BlockType(d)
      BY <1>2, <2>2, <2>3 DEF BlockType
    <3>6. a = AddrOf(CMD, High)
      BY <1>2, <2>1, <2>9, <2>12
    <3> QED
      BY <1>1, <3>1, <3>3, <3>4, <3>5, <3>6 DEF BlockInv
  <2>13. CASE b0 = High /\ r0 # CMD
    <3> DEFINE regs == [blk.regs EXCEPT ![r0] = word]
               d == [latch |-> lat, regs |-> regs, ran |-> blk.ran]
    <3>1. WriteB(blk, a, x) = d
      BY <1>2, <1>4, <2>13 DEF WriteB, BlockType, lat, word, r0, b0
    <3>2. blk.ran = {} \/ r0 \in l
      BY <1>2, <1>4, <2>13 DEF b0, r0, Harmless
    <3>3. /\ regs \in [Reg -> Word] /\ regs[r0] = word
          /\ \A r \in Reg : r # r0 => regs[r] = blk.regs[r]
      BY <1>2, <2>1, <2>2 DEF BlockType
    <3> HIDE DEF regs
    <3>4. LatchHolds(d, h)
      <4>1. ASSUME NEW r \in h.settled \ {CMD} PROVE regs[r] = h.wrote[r]
        <5>1. r \in Reg
          BY <1>1
        <5>2. CASE r = r0
          BY <2>10, <3>3, <5>2
        <5>3. CASE r # r0
          <6>1. r \in g.settled /\ r # CMD /\ h.wrote[r] = g.wrote[r] /\ regs[r] = blk.regs[r]
            BY <2>6, <3>3, <5>1, <5>3
          <6> QED
            BY <1>2, <6>1 DEF LatchHolds
        <5> QED
          BY <5>2, <5>3
      <4> QED
        BY <2>4, <2>5, <4>1 DEF LatchHolds
    <3>5. Ran(d, h, l)
      <4>1. CASE blk.ran = {}
        BY <4>1 DEF Ran
      <4>2. CASE r0 \in l
        <5>1. \A r \in h.settled \ ({CMD} \cup l) : r \in g.settled /\ h.wrote[r] = g.wrote[r]
          BY <2>8, <4>2
        <5>2. CMD \in h.settled => CMD \in g.settled /\ h.wrote[CMD] = g.wrote[CMD]
          BY <2>8, <2>13
        <5> QED
          BY <1>2, <5>1, <5>2 DEF Ran
      <4> QED
        BY <3>2, <4>1, <4>2
    <3>6. BlockType(d)
      BY <1>2, <2>3, <3>3 DEF BlockType
    <3> QED
      BY <1>1, <3>1, <3>4, <3>5, <3>6 DEF BlockInv
  <2> QED
    BY <1>2, <2>1, <2>11, <2>12, <2>13
<1> QED
  BY <1>3, <1>4 DEF h

\* Before a store no command has run; a byte at an address that is not the command's
\* high byte runs none.
LEMMA FreshKeeps ==
  ASSUME NEW l, l \subseteq {REG_A}, BlockInv(block, guest, late)
  PROVE  /\ BlockInv([block EXCEPT !.ran = {}], guest, l)
         /\ [block EXCEPT !.ran = {}].ran = {}
<1>1. block = [latch |-> block.latch, regs |-> block.regs, ran |-> block.ran]
  BY DEF BlockInv, BlockType
<1>2. [block EXCEPT !.ran = {}] = [latch |-> block.latch, regs |-> block.regs, ran |-> {}]
  BY <1>1
<1> QED
  BY <1>2 DEF BlockInv, BlockType, LatchHolds, Ran

\* What a store may write after the command's high byte: A, and the low byte of B.
LEMMA AfterCommand ==
  /\ AddrOf(CMD, High) = RegAddr + 1 /\ RegAddr \in Nat
  /\ ByteOf(RegAddr + 2) = Low /\ RegOf(RegAddr + 3) = REG_A /\ ByteOf(RegAddr + 4) = Low
BY DEF AddrOf, CMD, REG_A, High, Low, RegAddr, ByteOf, RegOf

\* A word is two bytes, of which the second may follow the command.
LEMMA WordKeeps ==
  ASSUME NEW blk, NEW g, NEW l, BlockInv(blk, g, l), NEW a \in Nat,
         blk.ran = {} \/ (Harmless(a, l) /\ Harmless(a + 1, l)),
         NEW x \in ByteValue, NEW y \in ByteValue
  PROVE  /\ BlockInv(WriteW(blk, a, x, y), Wrote(g, a, <<x, y>>), l)
         /\ a \notin {RegAddr, RegAddr + 1} => WriteW(blk, a, x, y).ran = blk.ran
<1> DEFINE b1 == WriteB(blk, a, x)
           g1 == ByteWrote(g, a, x)
<1>1. GuestType(g)
  BY DEF BlockInv
<1>2. BlockInv(b1, g1, l) /\ (a # AddrOf(CMD, High) => b1.ran = blk.ran)
  BY ByteKeeps
<1>3. Wrote(g, a, <<x>>) = g1
  BY <1>1, WroteByte
<1>4. Wrote(g, a, <<x, y>>) = ByteWrote(g1, a + 1, y)
  <2>1. Longer(<<x, y>>, <<x>>, 1) /\ <<x, y>>[1 + 1] = y
    BY DEF Longer
  <2> QED
    BY <1>1, <1>3, <2>1, WroteLonger
<1>5. b1.ran = {} \/ Harmless(a + 1, l)
  <2>1. CASE a = RegAddr + 1
    BY <2>1, AfterCommand DEF RegAddr, Harmless
  <2>2. CASE a # RegAddr + 1
    BY <1>2, <2>2, AfterCommand
  <2> QED
    BY <2>1, <2>2
<1>6. a + 1 \in Nat
  OBVIOUS
<1> HIDE DEF b1, g1
<1>7. /\ BlockInv(WriteB(b1, a + 1, y), ByteWrote(g1, a + 1, y), l)
      /\ a + 1 # AddrOf(CMD, High) => WriteB(b1, a + 1, y).ran = b1.ran
  BY <1>2, <1>5, <1>6, ByteKeeps
<1>8. WriteW(blk, a, x, y) = WriteB(b1, a + 1, y)
  BY DEF WriteW, b1
<1>9. a \notin {RegAddr, RegAddr + 1} => a # AddrOf(CMD, High) /\ a + 1 # AddrOf(CMD, High)
  BY AfterCommand
<1> QED
  BY <1>2, <1>4, <1>7, <1>8, <1>9

\* Two words are four bytes, which make A late when the first word runs a command.
LEMMA DoubleKeeps ==
  ASSUME NEW blk, NEW g, NEW l, BlockInv(blk, g, l), blk.ran = {}, NEW a \in Nat,
         a \in {RegAddr, RegAddr + 1} => REG_A \in l, NEW v \in [1 .. 4 -> ByteValue]
  PROVE  BlockInv(WriteDW(blk, a, v), Wrote(g, a, v), l)
<1> DEFINE low == <<v[1], v[2]>>
           last == <<v[3]>>
           three == <<v[1], v[2], v[3]>>
           high == <<v[3], v[4]>>
           b2 == WriteW(blk, a, v[1], v[2])
           g2 == Wrote(g, a, low)
<1>1. \A k \in 1 .. 4 : v[k] \in ByteValue
  OBVIOUS
<1>2. v[1] \in ByteValue /\ v[2] \in ByteValue /\ v[3] \in ByteValue /\ v[4] \in ByteValue
  BY <1>1
<1>3. BlockInv(b2, g2, l) /\ (a \notin {RegAddr, RegAddr + 1} => b2.ran = {})
  <2>1. blk.ran = {} \/ (Harmless(a, l) /\ Harmless(a + 1, l))
    OBVIOUS
  <2>2. /\ BlockInv(b2, g2, l)
        /\ a \notin {RegAddr, RegAddr + 1} => b2.ran = blk.ran
    BY <1>2, <2>1, WordKeeps
  <2> QED
    BY <2>2
<1>4. a + 2 \in Nat
  OBVIOUS
<1>5. GuestType(g) /\ GuestType(g2)
  BY <1>3 DEF BlockInv
<1> HIDE DEF b2, g2
<1>15. b2.ran = {} \/ (Harmless(a + 2, l) /\ Harmless(a + 2 + 1, l))
  <2>1. CASE a \notin {RegAddr, RegAddr + 1}
    BY <1>3, <2>1
  <2>2. CASE a = RegAddr
    BY <2>2, AfterCommand DEF Harmless, RegAddr
  <2>3. CASE a = RegAddr + 1
    BY <2>3, AfterCommand DEF Harmless, RegAddr
  <2> QED
    BY <2>1, <2>2, <2>3
<1>6. BlockInv(WriteW(b2, a + 2, v[3], v[4]), Wrote(g2, a + 2, high), l)
  BY <1>2, <1>3, <1>4, <1>15, WordKeeps
<1>7. WriteDW(blk, a, v) = WriteW(b2, a + 2, v[3], v[4])
  BY DEF WriteDW, b2
<1>8. /\ Longer(three, low, 2) /\ three[2 + 1] = v[3]
      /\ Longer(v, three, 3) /\ v[3 + 1] = v[4]
      /\ Longer(high, last, 1) /\ high[1 + 1] = v[4]
  BY DEF Longer
<1>9. DOMAIN last = 1 .. 1 /\ last[1] = v[3]
  OBVIOUS
<1> HIDE DEF low, last, three, high
<1>10. Wrote(g, a, three) = ByteWrote(g2, a + 2, v[3])
  BY <1>5, <1>8, WroteLonger DEF g2
<1>11. Wrote(g, a, v) = ByteWrote(Wrote(g, a, three), a + 3, v[4])
  BY <1>5, <1>8, WroteLonger
<1>12. Wrote(g2, a + 2, last) = ByteWrote(g2, a + 2, v[3])
  BY <1>4, <1>5, <1>9, WroteByte
<1>13. Wrote(g2, a + 2, high) = ByteWrote(Wrote(g2, a + 2, last), a + 2 + 1, v[4])
  BY <1>4, <1>5, <1>8, WroteLonger
<1>14. a + 2 + 1 = a + 3
  OBVIOUS
<1> QED
  BY <1>6, <1>7, <1>10, <1>11, <1>12, <1>13, <1>14

-----------------------------------------------------------------------------
LEMMA BlockInitHolds == BlockInit => BlockInv(block, guest, late)
<1> SUFFICES ASSUME BlockInit PROVE BlockInv(block, guest, late)
  OBVIOUS
<1>1. PICK w \in [Reg -> Word] :
        block = [latch |-> w, regs |-> CHOOSE zero \in [Reg -> Word] : TRUE, ran |-> {}]
  BY DEF BlockInit
<1> DEFINE regs == CHOOSE zero \in [Reg -> Word] : TRUE
<1>2. regs \in [Reg -> Word]
  BY <1>1
<1>3. block = [latch |-> w, regs |-> regs, ran |-> {}]
  BY <1>1
<1> HIDE DEF regs
<1>4. BlockType(block) /\ block.ran = {}
  BY <1>2, <1>3 DEF BlockType
<1>5. guest = [wrote |-> [r \in Reg |-> [b \in Half |-> Unwritten]], settled |-> {}]
  BY DEF BlockInit, Half
<1>6. GuestType(guest)
  BY <1>5 DEF GuestType, Maybe
<1>7. LatchHolds(block, guest)
  BY <1>5 DEF LatchHolds
<1> QED
  BY <1>4, <1>6, <1>7 DEF BlockInv, Ran, BlockInit

LEMMA AnsweredKeeps == BlockInv(block, guest, late) /\ Answered => BlockInv(block, guest, late)'
<1> SUFFICES ASSUME BlockInv(block, guest, late), Answered
             PROVE  BlockInv(block', guest', late')
  BY DEF BlockInv, BlockType, GuestType, LatchHolds, Ran
<1>1. PICK r \in Reg \ {CMD}, w \in Word :
        /\ block' = [block EXCEPT !.regs[r] = w]
        /\ guest' = [guest EXCEPT !.settled = @ \ {r}]
        /\ late' = late
  BY DEF Answered
<1> DEFINE regs == [block.regs EXCEPT ![r] = w]
<1>2. /\ block' = [latch |-> block.latch, regs |-> regs, ran |-> block.ran]
      /\ guest' = [wrote |-> guest.wrote, settled |-> guest.settled \ {r}]
      /\ late' = late
  BY <1>1 DEF BlockInv, BlockType, GuestType
<1>3. /\ regs \in [Reg -> Word]
      /\ \A q \in Reg : q # r => regs[q] = block.regs[q]
  BY DEF BlockInv, BlockType
<1> HIDE DEF regs
<1>4. BlockType(block') /\ GuestType(guest')
  BY <1>2, <1>3 DEF BlockInv, BlockType, GuestType
<1>5. LatchHolds(block', guest')
  <2>1. \A q \in guest'.settled : q \in Reg /\ q # r /\ q \in guest.settled
    BY <1>2 DEF BlockInv, GuestType
  <2> QED
    BY <1>2, <1>3, <2>1 DEF BlockInv, LatchHolds
<1>6. Ran(block', guest', late')
  BY <1>2 DEF BlockInv, Ran
<1> QED
  BY <1>2, <1>4, <1>5, <1>6 DEF BlockInv

LEMMA StoreKeeps == BlockInv(block, guest, late) /\ BlockStore => BlockInv(block, guest, late)'
<1> SUFFICES ASSUME BlockInv(block, guest, late), BlockStore
             PROVE  BlockInv(block', guest', late')
  BY DEF BlockInv, BlockType, GuestType, LatchHolds, Ran
<1> DEFINE fresh == [block EXCEPT !.ran = {}]
<1>1. PICK addr \in RegAddr - 1 .. EnumCtrlBlkLast :
        \/ \E x \in ByteValue :
             block' = WriteB(fresh, addr, x) /\ guest' = Wrote(guest, addr, <<x>>)
             /\ late' = {}
        \/ \E x, y \in ByteValue :
             block' = WriteW(fresh, addr, x, y) /\ guest' = Wrote(guest, addr, <<x, y>>)
             /\ late' = {}
        \/ \E v \in [1 .. 4 -> ByteValue] :
             block' = WriteDW(fresh, addr, v) /\ guest' = Wrote(guest, addr, v)
             /\ late' = IF addr \in {RegAddr, RegAddr + 1} THEN {REG_A} ELSE {}
  BY DEF BlockStore
<1>2. ASSUME late' \subseteq {REG_A} PROVE BlockInv(fresh, guest, late') /\ fresh.ran = {}
  BY <1>2, FreshKeeps
<1>3. addr \in Nat
  BY DEF RegAddr, EnumCtrlBlkLast
<1> HIDE DEF fresh
<1>4. ASSUME NEW x \in ByteValue,
             block' = WriteB(fresh, addr, x), guest' = Wrote(guest, addr, <<x>>),
             late' = {}
      PROVE  BlockInv(block', guest', late')
  <2>1. DOMAIN <<x>> = 1 .. 1 /\ <<x>>[1] = x
    OBVIOUS
  <2>2. GuestType(guest)
    BY DEF BlockInv
  <2>3. Wrote(guest, addr, <<x>>) = ByteWrote(guest, addr, x)
    BY <1>3, <2>1, <2>2, WroteByte
  <2> QED
    BY <1>2, <1>3, <1>4, <2>3, ByteKeeps
<1>5. ASSUME NEW x \in ByteValue, NEW y \in ByteValue,
             block' = WriteW(fresh, addr, x, y), guest' = Wrote(guest, addr, <<x, y>>),
             late' = {}
      PROVE  BlockInv(block', guest', late')
  BY <1>2, <1>3, <1>5, WordKeeps
<1>6. ASSUME NEW v \in [1 .. 4 -> ByteValue],
             block' = WriteDW(fresh, addr, v), guest' = Wrote(guest, addr, v),
             late' = IF addr \in {RegAddr, RegAddr + 1} THEN {REG_A} ELSE {}
      PROVE  BlockInv(block', guest', late')
  BY <1>2, <1>3, <1>6, DoubleKeeps
<1> QED
  BY <1>1, <1>4, <1>5, <1>6

\* In every reachable state a latch holds what the guest wrote, and what is settled is in
\* the device.
THEOREM BlockInvariant == BlockSpec => []BlockInv(block, guest, late)
<1>1. BlockInv(block, guest, late) /\ [BlockNext]_blockVars => BlockInv(block, guest, late)'
  <2>1. BlockInv(block, guest, late) /\ UNCHANGED blockVars => BlockInv(block, guest, late)'
    BY DEF blockVars, BlockInv, BlockType, GuestType, LatchHolds, Ran
  <2> QED
    BY <2>1, StoreKeeps, AnsweredKeeps DEF BlockNext
<1> QED
  BY <1>1, BlockInitHolds, PTL DEF BlockSpec

\* A command runs with every register as the guest last wrote it, for any number of
\* registers and any mixture of stores, and the guest reads them so.
THEOREM CommandsAreWhole == BlockSpec => []CommandSeesRegisters
<1>1. BlockInv(block, guest, late) => CommandSeesRegisters
  <2> SUFFICES ASSUME BlockInv(block, guest, late) PROVE CommandSeesRegisters
    OBVIOUS
  <2>1. ASSUME NEW r \in guest.settled \ {CMD}, NEW b \in Half
        PROVE  ReadB(block, AddrOf(r, b)) = guest.wrote[r][b]
    <3>1. r \in Reg
      BY DEF BlockInv, GuestType
    <3>2. /\ IsReg(AddrOf(r, b)) /\ RegOf(AddrOf(r, b)) = r /\ ByteOf(AddrOf(r, b)) = b
      BY <3>1, AddressOfByte
    <3>3. block.regs[r] = guest.wrote[r]
      BY DEF BlockInv, LatchHolds
    <3> QED
      BY <3>2, <3>3 DEF ReadB
  <2> QED
    BY <2>1 DEF BlockInv, Ran, CommandSeesRegisters, AddrOf, Half
<1> QED
  BY <1>1, BlockInvariant, PTL
=============================================================================
