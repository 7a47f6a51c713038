-------------------------------- MODULE Bus --------------------------------
(***************************************************************************)
(* The address bus of the computer (vcomputer.hpp, vcomputer.cpp,          *)
(* addr_listener.hpp): RAM, ROM and the listeners, which are the embedded  *)
(* devices, the blocks of the slots and those the host adds.               *)
(***************************************************************************)
EXTENDS Integers, FiniteSets

CONSTANTS
  Slot,         \* 0 .. MAX_N_DEVICES - 1
  Device,       \* the devices a host plugs in
  NoSlot, NoDev,
  AddrSpace,    \* 2^24
  RamSize,      \* bytes of RAM
  RomStart, RomEnd,
  SlotBase,     \* 0x110000
  SlotStep,     \* 0x100
  EnumCtrlBlkSize,
  Embedded,     \* the ranges of the embedded devices, as records of a listener
  HostRange     \* the ranges a host may listen to, as <<start, end>>

ASSUME BusAssumption ==
  /\ Slot \subseteq Nat /\ AddrSpace \in Nat \ {0}
  /\ {RomStart, RomEnd, SlotBase, SlotStep} \subseteq Nat
  /\ RamSize \in Nat \ (0 .. 3) /\ RamSize <= RomStart
  /\ RomStart <= RomEnd /\ RomEnd < SlotBase
  /\ EnumCtrlBlkSize \in Nat /\ EnumCtrlBlkSize < SlotStep
  /\ \A s \in Slot : SlotBase + s * SlotStep + EnumCtrlBlkSize < AddrSpace
  /\ NoSlot \notin Slot /\ NoDev \notin Device
  /\ Device \cap {"none", "host", "RAM", "ROM"} = {}

VARIABLES
  devices,    \* the device in each slot
  listeners,  \* the listeners, which std::map keeps disjoint
  asked,      \* history: the slot whose block the guest addressed last
  answer      \* history: what served the access

busVars == <<devices, listeners, asked, answer>>

\* A listener is a range, both ends included, and what it belongs to: a device in
\* a slot, an embedded device or the host.
Listener(start, end, to) == [start |-> start, end |-> end, to |-> to]

BlockStart(s) == SlotBase + s * SlotStep
GetRange(s) == <<BlockStart(s), BlockStart(s) + EnumCtrlBlkSize>>
BlockOf(addr) == {s \in Slot : addr >= GetRange(s)[1] /\ addr <= GetRange(s)[2]}

\* The comparison of Range makes ranges that share an address equal to the map.
Same(l, start, end) == ~(l.end < start) /\ ~(end < l.start)
Find(addr) == {l \in listeners : Same(l, addr, addr)}

\* Ranges are well formed, and the embedded devices keep apart.
ASSUME RangeAssumption ==
  /\ \A l \in Embedded : l.start \in Int /\ l.end \in Int /\ l.start <= l.end
                         /\ l.to \notin Device
  /\ \A l, k \in Embedded : l # k => ~Same(l, k.start, k.end)
  /\ \A r \in HostRange : r[1] \in Int /\ r[2] \in Int /\ r[1] <= r[2]

\* The enumeration block was deleted with its device, but its listener is left.
Dangling == {l \in listeners : l.to \in Device /\
               \E s \in Slot : l.start = BlockStart(s) /\ devices[s] # l.to}

BusInit ==
  /\ devices = [s \in Slot |-> NoDev]
  /\ listeners = Embedded
  /\ asked = NoSlot /\ answer = "none"

-----------------------------------------------------------------------------
(* The host                                                                *)

\* insert() does nothing when an equal key is there.
Inserted(ls, new) ==
  IF \E l \in ls : Same(l, new.start, new.end) THEN ls ELSE ls \cup {new}

\* Mutant: the slot is taken although its block could not be mapped.
AddDevice_Unchecked(s, d) ==
  LET block == Listener(GetRange(s)[1], GetRange(s)[2], d)
  IN  /\ devices[s] = NoDev
      /\ listeners' = Inserted(listeners, block)
      /\ devices' = [devices EXCEPT ![s] = d]
      /\ UNCHANGED <<asked, answer>>

\* A slot that is taken, or a block that overlaps a listener, leaves all as it was.
AddDevice(s, d) ==
  LET block == Listener(GetRange(s)[1], GetRange(s)[2], d)
  IN  /\ devices[s] = NoDev
      /\ listeners' = Inserted(listeners, block)
      /\ devices' = IF listeners' # listeners THEN [devices EXCEPT ![s] = d] ELSE devices
      /\ UNCHANGED <<asked, answer>>

\* "TODO RmDevice should remove the AddrListener"
RmDevice(s) ==
  /\ devices' = [devices EXCEPT ![s] = NoDev]
  /\ UNCHANGED <<listeners, asked, answer>>

AddAddrListener ==
  /\ \E r \in HostRange : listeners' = Inserted(listeners, Listener(r[1], r[2], "host"))
  /\ UNCHANGED <<devices, asked, answer>>

\* A careful host takes away what it added, and what RmDevice left.
RmAddrListener ==
  /\ \E old \in Dangling \cup {l \in listeners : l.to = "host"} :
       listeners' = listeners \ Find(old.start)
  /\ UNCHANGED <<devices, asked, answer>>

-----------------------------------------------------------------------------
(* The guest.  A listener that outlived its device is freed memory: the    *)
(* host removes it before it lets the guest run.                           *)

\* What an access of width bytes at a 24 bit address reaches: a read stops at RAM
\* or ROM, a write goes on to the listeners.
InRam(addr, width) == addr < RamSize - (width - 1)
InRom(addr) == addr >= RomStart /\ addr <= RomEnd

Listening(addr) == IF Find(addr) = {} THEN "none" ELSE (CHOOSE l \in Find(addr) : TRUE).to

ReadsFrom(addr, width) ==
  IF InRam(addr, width) THEN "RAM"
  ELSE IF InRom(addr) THEN "ROM"
  ELSE Listening(addr)

WritesTo(addr, width) ==
  IF Find(addr) = {} /\ InRam(addr, width) THEN "RAM" ELSE Listening(addr)

Access(a, width) ==
  /\ Dangling = {}
  /\ LET addr == a % AddrSpace IN
     /\ answer' \in {ReadsFrom(addr, width), WritesTo(addr, width)}
     /\ asked' = IF BlockOf(addr) = {} THEN NoSlot ELSE CHOOSE s \in BlockOf(addr) : TRUE
  /\ UNCHANGED <<devices, listeners>>

\* Addresses go beyond 24 bits.
BusNext ==
  \/ \E s \in Slot : RmDevice(s) \/ \E d \in Device : AddDevice(s, d)
  \/ AddAddrListener \/ RmAddrListener
  \/ \E a \in 0 .. AddrSpace + RamSize, width \in {1, 2, 4} : Access(a, width)

BusSpec == BusInit /\ [][BusNext]_busVars

-----------------------------------------------------------------------------
BusTypeOK ==
  /\ devices \in [Slot -> Device \cup {NoDev}]
  /\ \A l \in listeners :
       l.start \in 0 .. AddrSpace - 1 /\ l.end \in l.start .. AddrSpace - 1
  /\ asked \in Slot \cup {NoSlot}

\* The listeners implement the slots: with any order of plugging, failed plugging,
\* unplugging and listening, also at addresses of a block, the guest reaches in a
\* slot's block the device of that slot, and a device nowhere else.
Table == INSTANCE SlotTable WITH
  plugged <- devices, answer <- IF answer \in Device THEN answer ELSE NoDev

SlotsSpec == Table!TableSpec
=============================================================================
