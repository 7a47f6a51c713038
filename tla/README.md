# Specifications of the Trillek virtual computer

This directory holds TLA+ specifications of the virtual computer library
(`src/`, `include/`), TLC configurations that check them on small instances, and
proofs that TLAPS checks for every instance.

## The system

The library emulates a computer. A host program (a game server, or the emulator in
`tools/main.cpp`) owns a `VComputer`, plugs a CPU and devices into it, powers it on
and calls `Update`, `Tick` or `Step` again and again. Everything runs in the thread of
the caller; what interleaves is the calls of the host, the guest program that the
CPU runs, and the devices that ask for the CPU's attention.

| Part | State | Operations | Talks to | What must be right |
|---|---|---|---|---|
| Computer `vcomputer.cpp` | `is_on`, 32 slots, listeners by address range, breakpoints | On, Off, Reset, Update, Tick, Step, AddDevice, RmDevice, read and write | calls the CPU, ticks and polls the timer and the devices | an interrupt request is passed on once, to the right owner, by priority |
| TR3200 `tr3200/` | registers, `%flags`, `pc`, `interrupt`, `int_msg`, `skiping`, `sleeping`, `step_mode`, `wait_cycles` | Reset, Step, Tick, SendInterrupt, DoesTrap | memory and breakpoints of the computer | interrupts are masked in handlers, none is slept through |
| Timer (PIT) `devices/timer.cpp` | two counters, two reload values, `cfg`, two request flags | Tick, DoesInterrupt, IACK, writes | the computer's poll | no drift, one request per period, keeps going |
| Breakpoints `vcomputer.cpp:385-441` | the set, `breaking`, `last_break`, `recover_break` | Set, Rm, Clear, isBreakPoint, Resume | the CPU asks before each fetch; the host | none lost, none passed silently |
| Device bus `vcomputer.cpp:127-166`, `enum_and_ctrl_blk.cpp` | slot table, listener map, register latches | AddDevice, RmDevice, Add/RmAddrListener, register writes | devices | the table and the map agree; a register write arrives whole |
| Floppy drive `devices/m5fdd.cpp` | `state`, `error`, position, `busyCycles`, `pendingInterrupt` | SendCMD, Tick, insert, eject | media, memory (DMA), the poll | a command ends once, in success or an error |
| Media `devices/media.cpp`, `tools/makedisk.cpp` | file, bad sector bitmap | CHStoLBA, read, write, conversion of old images, copy of raw files | the file system | every sector has one address, no data is lost on the way into a file |
| Keyboard `devices/gkeyb.cpp` | key buffer of 64 | SendCMD, EnforceSendEvent | host, poll | keys arrive in order |
| Serial console | request flag, message | RX_Ready, SendCMD | host callbacks, poll | a request is held until acknowledged |
| TDA display `devices/tda.cpp` | pointers of text and font, cursor, request flag | DoVSync, SendCMD, DumpScreen, TDAtoRGBATexture | memory, host, poll | the screen shows what the guest wrote |
| DCPU-16N `dcpu16n/` | phase, registers, interrupt ring of 256 | Step, Tick, SendInterrupt, Reset | the computer | the ring keeps order and its bound, no phase leaks into a handler |
| NVRAM `devices/nvram.cpp`, with `tools/main.cpp` | 256 bytes, `dirty`, a file | Load, Save, writes | the emulator's stream | what the guest wrote comes back after a restart |
| RNG, RTC, beeper, device factory, disassemblers, `tools/` graphics and sound | small or none | reads and writes | | not modelled: registers without protocol, formatting, I/O |

The hard behaviour is in how requests travel. A device raises a flag; one call of
`Tick` or `Step` runs the CPU, ticks the timer, polls it, then ticks and polls the slots in
order; the first that asks is offered to the CPU, which accepts it or not; only an
accepted request is acknowledged; and the CPU looks at what it accepted later, after
an instruction or while asleep. Time comes in slices of any length, so a counter
may pass zero anywhere in a slice.

## The modules

| Module | What it is |
|---|---|
| `PitLine` | abstract: the interrupt line of the timer, counters left open |
| `Timer` | the counters; implements `PitLine` (`LineSpec`) |
| `TR3200` | the CPU's control state, as operators on a record, and `CpuSpec`: the CPU in any computer |
| `VComputer` | extends `TR3200` and `PitLine`: a call of Tick or Step, step by step, with devices and host; implements `CpuSpec` |
| `Breakpoints` | the debugger's side, with a CPU reduced to its fetches |
| `MC_VComputer` | messages, programs and wiring for TLC |
| `Alu`, `Stack` | what the instructions of the TR3200 compute, as operators on words of W bits: arithmetic; operands, memory, stack, jumps, calls, interrupt frames |
| `InterruptQueue` | abstract: a queue of messages, delivered in order or dropped as a whole (`FifoSpec`), and what a ring keeps of it when it is overrun or its places are not freed (`Spec`) |
| `DCPU16N` | the other CPU, phase by phase; its ring implements `InterruptQueue` (`FifoQueue`) |
| `MC_DCPU16N` | programs for TLC that have every operand form and cycle class |
| `SlotTable` | abstract: a table from slots to devices, which the guest's accesses look up |
| `Bus` | slots, listeners, and what serves an access; implements `SlotTable` (`SlotsSpec`) |
| `EnumBlk` | the register latches of one slot's block under stores of 1, 2 and 4 bytes |
| `Media`, `M5FDD` | sector addresses and an open image; the drive on top of it |
| `DiskFile` | the file of an image: conversion of version 1, and makedisk's copy |
| `Keyboard` | the key buffer between the emulator's key handler and the guest |
| `Emulator` | the NVRAM with the emulator's main loop, its file stream, exit and kill |
| `Tda` | which memory the text display shows and where it puts the pixels |
| `MC_Devices` | the device modules, `Timer` and `Breakpoints` side by side, with their instances |
| `Timer_proofs`, `Breakpoints_proofs`, `DCPU16N_proofs` | the theorems about the module of that name |
| `VComputer_proofs` | the theorems about `TR3200` and about `VComputer` |
| `Stack_proofs` | the theorems about `Alu` and `Stack` |
| `Bus_proofs` | the theorems about `Bus` and `EnumBlk` |
| `Disk_proofs` | the theorems about `M5FDD`, `DiskFile` and `Media` |
| `Devices_proofs` | the theorems about `Keyboard`, `Emulator` and `Tda`, and about the parts of `MC_Devices` side by side |

**`Timer`.** `tmr`, `re`, `do_int` are the fields of the class, `en` and `ie` the bits of
`cfg` (0 and 3, 1 and 4), all functions of the channel. `Tick(n)` is the code of
`Timer::Tick` with `DWord` arithmetic modulo `Modulus`: `Wraps` is the compare
`tmr0 > tmp`, `Reload` is `re0 - (0xFFFFFFFF - tmr0)`. `WriteTmr`, `WriteRe`, `WriteCfg` are the
write handlers: a byte lane write can leave any value, so any value is written.
`Served` is DoesInterrupt answering true, the CPU accepting and IACK. `lag` is not in
the code: it is an ideal counter to compare with, which becomes 0, "unknown", when a
slice was longer than a period.

**`TR3200`.** The record `cpu` has one field per control variable of the class;
`frames` counts the interrupt frames on the stack and has no counterpart in the code.
Instructions are classes: what changes no control state is `plain` (arithmetic, moves,
jumps), and `flags` is a write of `%flags` that leaves IF as it is. `RealStep` is the function of
that name: skip, or execute, set `step_mode`, process an interrupt. `Cycle` is one round of
the loop of `TR3200::Tick`, `StepOnce` is `TR3200::Step`.

Assumed of the guest, and stated where it is used: a program does not write IF itself
(`Instr`), it executes RFI in handlers only (`Legal`), and it does not change the vector table
(`NullVector` is a constant). The code enforces none of these; with a
program that breaks them the masking properties mean nothing.

**`VComputer`.** `phase` is the place in the code of a call: `CallTick`/`CallStep` start it,
`RunCpu` and `Store` are CPU cycles or the instruction, `TickPit`, `PollPit`, then `VisitSlot` or
`PollSlot` for each slot (the loop of `vcomputer.cpp:275-294` and `332-353`), and `Return` ends it,
after the trap in the case of Step. Actions of the host happen in `idle` only, for the program
has one thread. `pending` is `do_int`, `do_vsync` or `pendingInterrupt` of the device in
a slot, `armed` says that the guest gave it a message. Devices of `Level` (serial console, TDA,
keyboard) ask until IACK; the others are floppy drives, whose DoesInterrupt forgets
the request when read. The timer is `PitLine`: a tick lets any set of
counting channels underflow, which `Timer` is shown to refine.

**`Breakpoints`.** The four fields of the debugger, `pc` and the two fields of the CPU
that decide whether it fetches. `wanted` and `ran` are history. `CarefulHost` edits the set only
while nothing is halted or being resumed, as a debugger that asks the user to
continue first, and as `tools/main.cpp`, which sets breakpoints before it starts
(`main.cpp:309-315`), and does not reset between Resume and the instruction it resumes; `AnyHost` is everything the class allows. `On` after `Off` is `Reset`.
`isBreakPoint` is public and changes state, but nothing outside the CPU calls it in this
repository and no host of the model does.

**`Alu` and `Stack`.** Pure operators named after the instructions of `RealStep`, written as the C++
expressions (unsigned words, double words, casts), and under them what they mean: sums over
several words, signed overflow, the last bit shifted out, division towards zero; a call or an
interrupt frame that comes back. `MachineAgrees(S)` compares the two for every word and the machines in `S`: TLC takes
`Machines`, the proofs `AllMachines`, which has every machine whose pc is a multiple of four, as jumps leave it. The powers of two are
the function `Pow2` and not `^`, of which the provers know no law. A comment stands where the code departs from the meaning (the borrow of `SUBB` when
`rn + CF` wraps, `SMUL` as an unsigned product, `POP %sp`) and the property leaves that case out.

**`DCPU16N`.** `Round` is one round of the switch in `DCPU16N::Tick`: each operator is a `case` and what
it falls through to. `words`, `stored` and the tags in `aca` and `bca` record what the code's program
counter and address registers hold, so that "skipping and running pass the same words" and "a result is
stored at its own operand" can be said. `call` is the Tick or Step under way. Programs and devices do what they
like: devices send while the queue is full, programs send themselves messages with INT and HLT, and disable interrupts at any
moment. So the ring fills, takes the one message too many (`dcpu16n.cpp:969`), and is left with its indices apart when line 173
or 876 clears the count only. `FifoQueue` says what it keeps of a queue all the same, `InOrderOnce` that it is a queue, which it is not.

**`Bus`.** `listeners` is the map keyed by ranges, in which overlapping ranges are equal
(`addr_listener.hpp`): `Inserted` does nothing when one is there. An access is modelled by what it reaches,
RAM, ROM or the owner of a listener. RmDevice leaves its listener, which dangles; the host of the
model removes it before the guest runs, because an access to it is undefined in C++.

**`EnumBlk`.** `WriteB`, `WriteW`, `WriteDW` on the latches, the device's registers and the command that
the last store ran. The constructors leave the latches uninitialised: they start with any value.
`guest` remembers what the guest wrote, `late` that the last store wrote A after it had run a command, as a
store of four bytes at CMD does (`enum_and_ctrl_blk.cpp:242`).

**`Media`, `M5FDD`.** A sector is a function from positions to data, `ram` the sector of RAM the DMA speaks to.
`Moved` is one cycle of the loop in `M5FDD::Tick`, with the write that the code repeats in each cycle after the
buffer is full. The host inserts, ejects, protects, marks sectors and resets at any time: with a disk put in over another the code hides
that a transfer was broken off (`m5fdd.cpp:245`), and when the disk is marked during a write the drive does not look at what
`writeSector` answers (`m5fdd.cpp:230`). `spoiled` remembers that the host did so. The guest fills the sector of RAM between transfers only: a program
that writes there during one gets what it asked for. Failures of the file stream are left out: the code does not look at them.

**`DiskFile`.** The file is a function from offsets to the names of bytes. `MoveSector` is a round of the
conversion loop, from the last sector down, `CopySector` one of makedisk's.

**`Keyboard`.** Host: `KeyDown`, `KeyUp`, `CharDown` are the callbacks in `main.cpp`, `SendKeyEvent` the other
way in. Guest: the commands of `SendCMD`. `at` numbers the events in the order of typing; no code looks at it.
The guest puts an event back once, and before it takes the next.

**`Emulator`.** `emu.at` is the place in `main`. The stream has a buffer that the library may write at any time and
must write on a seek or when closed; `Kill` loses it. NVRAM cells are not initialised by the code. Files may be
missing or too short at the first start; the promise is made for files that were whole, since
a short one makes the stream fail for good (`main.cpp:250` says otherwise).

**`Tda`.** `MapBuffer` and `MapFont` are the tests of SendCMD, `ShownText` and `ShownFont` those of DumpScreen;
`Texture` the picture, each pixel as the set of colours written to it last. The cursor shows in frames below 8 and not in the others;
its blink bit (`tda.hpp:154`) is a field of the cursor that nothing reads, as in the code, so a guest cannot have a cursor that stays.

**`MC_Devices`.** The devices, the timer and the debugger share no state: `focus` names the one that moves in a behaviour, the others stay as
they began; in the focus `operators` nothing moves, and `AddressesAgree`, `PicturesAgree` and `InstructionsAgree` compare the operators
without state. Interleaving them would multiply the states and could break none of the
properties, each of which speaks of one of them. How they meet is `VComputer`'s subject.

## The runs

| Run | Shows |
|---|---|
| `timer_slices` | violation: one Tick(n) is not n ticks (`timer.hpp:37`) when n exceeds the reload value plus one |
| `timer_ack` | violation: IACK answers another channel than the one reported (`timer.hpp:50`, and the TODO of `timer.cpp:73`) |
| `vcomputer` | one timer, one level device, one floppy drive, messages with a null vector, single stepping, software interrupts: masking (`OneFrame`, `RfiDropsNothing`), `SleepSeesPending`, `RequestHeld`, `PriorityKept`, and that the computer implements `CpuSpec` |
| `vcomputer_live` | `SleepEnds` and `AcceptedIsProcessed` under fairness |
| `overwrite` | violation: an accepted message, whose device was told so, is overwritten by the next (`vcomputer.cpp:343`) |
| `skip` | violation: an interrupt after a failed IFxx moves the skip into the handler (`asm/tr3200/test.asm:31`) |
| `dcpu16n` | programs with every operand form, a ring of two, ticks of one and two cycles and single steps: `CleanEntry`, `WordsPassed` and `StoresAtOperand` (with the exceptions the code has, named), `SlicesAgree`, `StepReturns`, that the ring, overrun and misaligned too, does what `InterruptQueue` says, and under fairness `WaitingIsTaken` |
| `dcpu16n_indexed` | violation: running an instruction with `[REG + nextword]` as its first operand passes one word less than skipping or disassembling it (`dcpu16n.cpp:242`) |
| `dcpu16n_ring` | violation: a message too many is accepted, replaces the oldest one and is delivered twice (`dcpu16n.hpp:50`) |
| `devices` | a transfer moves its sector and ends, and no sector is torn (`TransferIsWhole`, `TransferEnds`, `NoTornSector`, `BusyHasDisk`); no data is lost in conversions (`ImageKeepsData`); keys in order with the right modifiers (`KeysInOrder`, `StatusIsHeld`); commands see the registers as written (`CommandSeesRegisters`); the bus implements `SlotTable`; the NVRAM survives exit and kill (`NvramKept`); with slices no longer than a period two timers stay where single ticks would have them, fire on time and go on firing, and implement `PitLine` (`NoDrift`, `FiresOnTime`, `KeepsFiring`, `LineSpec`); a careful host loses no breakpoint, passes none silently and gets past each (`NoneLost`, `StopsAtBreak`, `HaltHolds`, `ResumeGoesOn`); sectors, pixels and instructions (`AddressesAgree`, `PicturesAgree`, `InstructionsAgree`) |
| `floppy_insert` | violation: a disk put in over another during a transfer makes the drive ready, with a request and no error, and the sector was not moved (`m5fdd.hpp:49`) |
| `breakpoints_edit` | violation: after RmBreakPoint at the halt, Step executes an instruction while `isHalted` (`vcomputer.cpp:258`) |

### Bounds

- Registers of the timer have 3 values (5 and 2 in the violation runs): a slice can be
  shorter than, equal to and longer than a period, and wrap. The proofs take any width.
- One channel in the computer runs: what a second one adds, the choice between the two,
  is checked in `devices` and proved for both in `VComputer_proofs`.
- Two slots, one of each kind: order and both ways to ask. The proofs take any number.
- Instructions of at most two cycles and at most one CPU cycle per Tick: a call may end in the middle of an
  instruction, or run no cycle at all (n smaller than the clock ratio). A longer
  call is the same cycles without the polls between them.
- Three addresses and two cycles for breakpoints (two addresses in the violation run): the reset address, one more to hold a second
  breakpoint, and one to go on to.
- DCPU-16N: a ring of two slots fills, wraps, takes the third message that the code lets in, and is left with messages and no places freed; `HcfCycles` of
  3 in place of 420 is longer than `MaxSlice`, so a wait is cut by calls and a call by a wait.
  Fifteen instructions (five in the run with the indexed operand) between them use every form.
- Floppy: sectors of two bytes, three cycles (512 in the code) for a transfer, so that one is left after the
  buffer is full; `MaxStale` lets an aborted transfer leave a cycle behind; three sectors, two
  values. The drive has a disk of one side, one track and two sectors, of which one can be addressed.
  The addresses themselves are checked for twelve geometries. The proofs take any.
- Images of at most three sectors of two bytes, headers one and two bytes long: the places of neighbours overlap.
- Keys: a buffer of two, four events: one more than fits with the one the guest holds. Two
  keys share a modifier. The proofs take any.
- Bus: two slots, two devices, an embedded device, host ranges that overlap a block, touch one, and are apart from all.
  Addresses run over the end of the address space. The proofs take any.
- Blocks of two registers, CMD and A, with bytes 0 and 1: stores of four bytes cover both, aligned or not.
- NVRAM of two cells and two starts: a cell can be written before and after a save, and a kill come in between.
- Instructions on words of four bits (bytes of one bit), which `W` bounds in the run; pictures of two by two cells of
  two by two dots, in the first and last frame with the cursor and the first without. The proofs take words of any size that is a multiple of four, and pictures of any size.

`devices` checks no deadlock: a typist has a last event, an emulator a last start, and
a device out of focus stands still.

No state constraint is used; every counter is bounded by the model itself.

### Fairness

The host owns the clock, so what is assumed is about the host and the guest.
`VComputer`: a call that began goes on (it is a function that returns); the host
calls Tick with at least one CPU cycle infinitely often, unless it turned the
computer off; a channel that counts underflows again and again, which is `KeepsFiring` of
`Timer`; a program leaves its handlers and does not execute an endless chain of skipped IFxx.
The last two are strong fairness since a call goes through other phases in between.
Nothing is assumed about devices in the computer. `DCPU16N`: weak fairness of "`call` changes to another
that can be made", which is what `Clock` does and nothing else, as `ClockIsCalls` proves: a call goes on, and after one the computer makes another.
(The subscript is `call` since a round of a sleeping CPU changes nothing else.) `MC_Devices`: weak fairness of `Clock`, which is a device
cycle of the drive (the computer ticks every plugged device in every call), a tick of positive length of the timer or a round of the CPU, whichever is in focus: the
host keeps calling. In `KeepsFiring` the guest leaves the timer's registers alone from some point on, but not the requests.

## The proofs

Checked by TLAPS for all values of the constants, from the named ASSUMEs of the modules
(a message set that is not empty, positive cost of instructions, one or two timers, a
register with at least two values, words of a multiple of four bits, the wiring being typed).

- `Timer_proofs`. `TimerTypes` first. The heart is `SliceExact`: subtract, compare and reload in modular
  arithmetic give what the ideal counter gives, provided that the slice is no longer
  than a period. To `TimerTypeOK` is added that a known `lag` is one more than the counter
  (`NoDrift`), which is inductive as it stands; `FiresOnTime` and the refinement of `PitLine` follow.
- `VComputer_proofs`, the CPU. `OneFrame` and `RfiDropsNothing` are not inductive alone: a handler is entered
  outside of one only because no message waits inside one, and none waits there
  because it is entered with the mailbox emptied and IF set. `Inside(c)` says both of a record, and a lemma per
  operator shows it kept; `CpuInductive` puts them together. `NoLostWakeUp` rests on
  `ProcessSettles`: whatever comes out of ProcessInterrupt has nothing left to process.
- `VComputer_proofs`, the computer. `ComputerImplementsCpu`: each step of the computer is a step of
  `CpuSpec` or leaves the CPU alone, so the theorems about the CPU carry over unchanged.
  `RequestsAreHeld` looks at each action that could clear a request; the only ones are
  IACK, and there the message offered is the one acknowledged (`AckedIsReported`). `PriorityIsKept`
  needs `Polled`: while the loop has found nothing, nothing it has passed asks.
- `Breakpoints_proofs`. `NoneLost` needs `AtBreak`: from the halt until the fetch the CPU stays awake
  at the breakpoint, so the fetch that recovers is the one at `last_break`. `TypesAreKept` is a part of the same invariant.
- `Bus_proofs`. `BusImplementsSlots` needs that the listener at an address of a block is the device of that slot.
  `BInv` says why: no address has two listeners (`Apart`, the map's doing), a device in a slot
  has its block mapped (`BlocksMapped`, since AddDevice gives up when it cannot), and a listener of a device is a
  slot's block (`DevicesInBlocks`). That blocks of two slots do not meet is arithmetic (`BlocksApart`), and
  no block meets RAM or ROM by the layout of memory, which is assumed (`BusAssumption`).
  `CommandsAreWhole`: `BlockInv` ties each latch to what the guest wrote last into that byte (`LatchHolds`), and each
  command that ran to the registers that are settled *now* and not late (`Ran`), so every store has to be shown to unsettle
  what it touches; `Harmless` says which bytes may follow a command in one store. The wider stores are proved as the byte stores they amount to, `ByteWrote`, one lemma for each alignment.
- `Disk_proofs`. The drive's promises are about the end of a transfer, so `FInv` says what holds on the way (`Transfer`): a write has in its
  buffer what RAM holds up to the position, a read has in RAM what the buffer holds, the position and the time left
  add up to the time of a transfer or more (`InTime`), and a full buffer is on the disk unless the host spoiled the write (`MarkHolds` is the step that marks).
  Nothing is assumed of the sizes: a sector larger than the time of a transfer is cut short, and the theorem says so.
  `DataIsKept`: `FileInv` says what holds half way, that the sectors from `disk.i` up are in their new place and those
  below still in the old (`Upgrading`), and that a copy has brought over every byte before sector `disk.i` (`Copying`). A move upwards
  by less than a sector overwrites its own source, so the order of the loop, last sector first, is what the proof is about.
  `AddressesAreApart`: an address is a track number of two digits and a sector number in it (`DigitsOf`); the last sector of each track has none.
- `DCPU16N_proofs`. `CleanEntry` needs to know that no address is half fetched where an interrupt is looked for, in OPFETCH
  and SLEEP. `CInv` says in which phases one may be, and that an instruction waiting in EXECW goes on in a phase
  without one (`Later`); a lemma per `case` of the switch shows it kept.
  - `InstructionInvariant`. `DInv` adds what the words passed, the two address registers and the store are to be in each phase
    (`Stands`), and that a wait is shorter than its instruction (`Waits`). `WordsMatch` and `StoresMatch` read their
    properties off it in OPFETCH, for every program. Where the code departs the properties say how: an operand a that is `[REG + nextword]`
    is taken for a register (`dcpu16n.cpp:242`, the finding of `dcpu16n_indexed`) and runs one word short; and `HWR`, whose case of EXEC writes operand a at the
    address of operand b (`dcpu16n.cpp:556`), never stores at its own, nor does a unary operation on that operand (`Astray`).
  - `StepsAreBounded`. `Made` counts the rounds a Step can have made when it comes to a phase; every round ends the instruction or raises
    `Made` by one (`Onward`), and no phase has more than five and the cycles of the instruction.
  - `DcpuTypes`. `Cpus` is the type of the record without a bound on `words`; that bound comes from `Stands`.
  - `RingIsQueue`. Each round is a delivery, a dropping of everything, a sending or none of these (`QStep`), and is matched to a step of
    `InterruptQueue`. What a sending does to the queue depends on where the write index points: behind the last message, when the ring is aligned and has
    room; at the oldest, when it is full (`Overrun`); anywhere, when forgotten messages have left the indices apart (`Misfile`). No program,
    device or size is left out.
  - `ClockIsCalls` justifies the form in which fairness is stated.
  - `SlicesAreAlike`. That n cycles at once end where n single ones do is an induction over n; it is made
    by a least counterexample (`Least`), since an induction theorem cannot be instantiated.
- `Devices_proofs`. `KeysInOrder` is about what the guest holds followed by the buffer; inductive is that the buffer's numbers
  rise between the one the guest holds and the newest (`Rising`), kept by lemmas on Append, Tail
  and putting in front. `ModifiersAreHeld`: the handler's modifiers are always among those held down, and a step adds to
  the buffer only events it had or that carry the handler's (`Marked`).
  `NvramSurvives`: `SaveChain` follows the saves through the stream: with an empty buffer the file is the last save, else it is
  the one before and the buffer is the last, and the NVRAM is the last save unless it is dirty. `StoreTypes` has the positions of the stream, without which
  a write could land behind the file's end.
  `ScreenShows`: a pixel's address is a number of two digits twice over, line and column, cell and dot (`OneDot`), so the text
  writes each pixel once and the cursor only its own (`Puts`). `MappedShows` adds the memory behind the picture, and which addresses the wrapped sums let in. `DevicesAreAlone` carries the theorems about single devices over to
  `MC_Devices`; from it come `DevicesAreTyped`, from the type parts of the invariants (`FInv`, `FileInv`, `KInv`, `BlockInv`, `StoreInv`, `TimerTypeOK`, `BreakInv`), and
  `BusTypes`, for which the host's ranges have to lie in the address space, `RangesOnBus` (the code takes any; the guest cannot reach
  the others), `AddressesHold`, `PicturesHold` and `InstructionsAreRight`.
- `Stack_proofs`. Nothing moves here: `MachineAgrees` is about operators, and its proof is arithmetic with remainders.
  - The powers of two come first. That a function satisfies the recursion of `Pow2` is an induction, made by a least counterexample
    (`DoublesExist`, since an induction theorem cannot be instantiated), and so is that a sum of exponents
    is a product of powers (`Pow2Sum`), from which come bytes, halves and sign bits of a word (`PowFacts`, `WordFacts`, `ByteFacts`).
  - Quotients and remainders are handled by one fact, that a number has one quotient and one remainder (`DivIs`): to prove a sum, a
    shift or a rotation right is to name both (`DifferenceIs`, `TurnIs`, `TowardsZero`).
  - `StoresLoadHolds`: the bytes of a word make it up (`BytesMake`), and addresses are compared by their distance
    (`Offset`), which wraps once around the address space (`AddressBack`, `Distance`).
  - `CallsReturnHolds`: `Beneath(mem, mem1, sp, n)` says that two memories differ only in the n bytes under a stack pointer.
    A push does no more (`PushUnder`), two of them add up (`UnderTwice`), and what is beneath a pointer is not what a
    pop there reads (`TopUnder`): the twelve bytes of a call with an interrupt in it fit because a word of four bytes has at least sixteen values
    (`AddressFacts`). `JumpsByWordsHolds` needs that four divides their number.
  - `SwapsAgreeHolds`: a word is two pairs of bytes (`QuadOf`), which XCHGB and XCHGW exchange.

Only model-checked, and why:

- `KeepsFiring`, `SleepEnds`, `AcceptedIsProcessed`, `ResumeGoesOn`, `WaitingIsTaken`, `TransferEnds`: liveness under fairness and ENABLED are out
  of the prover's reach.

Every invariant, every safety property of steps and every refinement that a passing run checks is also a theorem.

## Where the code departs from what is said of it

Six departures have a run of their own, which shows a behaviour (`timer_slices`, `timer_ack`, `overwrite`, `skip`, `breakpoints_edit`, `dcpu16n_indexed`), and
two more came from letting hosts and devices do what they like (`dcpu16n_ring`, `floppy_insert`). These are met in the models too; the properties of the passing
runs name them as exceptions:

- `dcpu16n.cpp:556`: HWR, "(rb wa)", into memory stores at the address of operand b, or at an old one (`Astray`).
- `dcpu16n.cpp:173`, `:876`: forgetting messages does not free their places; later messages are delivered as old ones (`Misfile`).
- `dcpu16n.cpp:966`: a message that is dropped since interrupts are disabled is answered with true.
- `m5fdd.cpp:230`: a sector marked bad, or a disk protected, during a write is not written, and the drive reports no error (`spoiled`).
- `m5fdd.cpp:277`: a transfer takes 512 cycles whatever the size of a sector; a larger one is cut short (`TransferIsWhole`).
- `media.cpp:20`: the last sector of each track is refused (`SectorsApart`).
- `enum_and_ctrl_blk.cpp:242`: a store of four bytes at CMD runs the command before A is written (`late`).
- `tda.hpp:154`: the cursor's blink bit is not read (`Cursor`).
- `tda.cpp:140`, `:147`, `:150`: sums that wrap, and a font that begins less than its size below the ROM, pass the tests (`MappedIsShown`).

The properties about instructions leave three results out, where the code does not compute what they say (`Alu`, `Stack`): the borrow
of SUBB, SMUL, and the overflow of SUB.

## Not modelled, and the plan

In order:

1. Composition of breakpoints with the computer: the time given to devices when a Tick halts (the TODO of
   `vcomputer.cpp:317`), and the division of clock cycles, which drops remainders.
2. `Alu` and `Stack` joined with `TR3200`, so that a program's `%flags` and stack are the state machine's; then the guest need not be
   assumed to leave IF alone.
3. SetCPU and RmCPU (RmCPU leaves `is_on` set), and the vector table as memory, with its null entries and
   messages that share a vector.
4. QUERY_MEDIA of the drive, the words the serial console passes on, the palette of the TDA.

Out for good: GetState and SetState, which copy every field or do nothing; the RNG, the RTC and the beeper, which have
registers without protocol or read the host's clock; the device factory, a list; the TR3200's disassembler and most of the
DCPU-16N's, formatting; graphics, sound and arguments of the tools; what instructions of the DCPU-16N compute and its emulated
pages; errors of an image's file stream, which the drive does not look at.
