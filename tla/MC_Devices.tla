---------------------------- MODULE MC_Devices ----------------------------
(***************************************************************************)
(* The devices, the timer among them, and the breakpoints, side by side.   *)
(* They share no state, so a behaviour moves one of them, the one in       *)
(* focus, and leaves the others as they began.  In one more focus nothing  *)
(* moves: it is for the operators without state.                           *)
(***************************************************************************)
EXTENDS M5FDD, DiskFile, Keyboard, Bus, EnumBlk, Emulator, Stack, Tda, Timer, Breakpoints

VARIABLE focus

vars == <<focus, floppyVars, diskVars, keyVars, busVars, blockVars, nvramVars,
          timerVars, breakVars>>

Geo(s, t, n) == [NumSides |-> s, TracksPerSide |-> t, SectorsPerTrack |-> n]
MCDescriptors == {Geo(s, t, n) : s \in 1 .. 2, t \in 1 .. 2, n \in 1 .. 3}
MCGeometry == Geo(1, 1, 2)

\* Two keys of one modifier.
MCModOf(k) == "shift"

\* A range over the end of the first block, one before the second one that touches
\* nothing, one of a single address, and one over the whole second block.
MCEmbedded == {Listener(22, 23, "pit")}
MCHostRange == {<<11, 12>>, <<10, 10>>, <<13, 13>>, <<14, 18>>}

Init ==
  /\ focus \in {"floppy", "disk", "keys", "bus", "block", "nvram", "timer", "debugger",
                "operators"}
  /\ FloppyInit /\ KeyboardInit /\ BusInit /\ TimerInit
  /\ DiskInit /\ (focus # "disk" => disk.sectors = 1)
  /\ BlockInit /\ (focus # "block" => block.latch = block.regs)
  /\ NvramInit /\ (focus # "nvram" => ~file.exists)
  /\ BreakInit /\ (focus # "debugger" => last_break = Entry)

MoveFloppy == focus = "floppy" /\ FloppyNext
  /\ UNCHANGED <<focus, diskVars, keyVars, busVars, blockVars, nvramVars,
                 timerVars, breakVars>>
MoveDisk == focus = "disk" /\ DiskNext
  /\ UNCHANGED <<focus, floppyVars, keyVars, busVars, blockVars, nvramVars,
                 timerVars, breakVars>>
MoveKeys == focus = "keys" /\ KeyboardNext
  /\ UNCHANGED <<focus, floppyVars, diskVars, busVars, blockVars, nvramVars,
                 timerVars, breakVars>>
MoveBus == focus = "bus" /\ BusNext
  /\ UNCHANGED <<focus, floppyVars, diskVars, keyVars, blockVars, nvramVars,
                 timerVars, breakVars>>
MoveBlock == focus = "block" /\ BlockNext
  /\ UNCHANGED <<focus, floppyVars, diskVars, keyVars, busVars, nvramVars,
                 timerVars, breakVars>>
MoveNvram == focus = "nvram" /\ EmulatorNext
  /\ UNCHANGED <<focus, floppyVars, diskVars, keyVars, busVars, blockVars,
                 timerVars, breakVars>>
MoveTimer == focus = "timer" /\ TimerNext
  /\ UNCHANGED <<focus, floppyVars, diskVars, keyVars, busVars, blockVars,
                 nvramVars, breakVars>>
MoveDebugger == focus = "debugger" /\ BreakNext
  /\ UNCHANGED <<focus, floppyVars, diskVars, keyVars, busVars, blockVars,
                 nvramVars, timerVars>>

Next ==
  \/ MoveFloppy \/ MoveDisk \/ MoveKeys \/ MoveBus \/ MoveBlock \/ MoveNvram
  \/ MoveTimer \/ MoveDebugger

\* The clock of the computer, as the device in focus feels it: cycles of a transferring
\* drive, ticks of the timer, rounds of the CPU.
Clock ==
  /\ \/ /\ focus = "floppy" /\ FloppyTick
        /\ UNCHANGED <<timerVars, breakVars>>
     \/ /\ focus = "timer" /\ TimePasses
        /\ UNCHANGED <<floppyVars, breakVars>>
     \/ /\ focus = "debugger" /\ Clocked
        /\ UNCHANGED <<floppyVars, timerVars>>
  /\ UNCHANGED <<focus, diskVars, keyVars, busVars, blockVars, nvramVars>>

\* The host keeps the clock running.
Spec == Init /\ [][Next]_vars /\ WF_vars(Clock)

\* Every device keeps its types.
DevicesTypeOK ==
  /\ FloppyTypeOK /\ DiskTypeOK /\ KeyboardTypeOK
  /\ BusTypeOK /\ BlockTypeOK /\ EmulatorTypeOK
  /\ TimerTypeOK /\ BreakTypeOK

\* Addresses of sectors and sectors of an image agree.
AddressesAgree == focus = "operators" => SectorsApart

\* The screen shows what the guest maps and draws.
PicturesAgree == focus = "operators" => ScreenAgrees

\* The instructions of the TR3200 compute what compiled code relies on: arithmetic over
\* several words, calls and interrupt frames that come back, loads that see what was
\* stored, jumps by whole instructions.
InstructionsAgree == focus = "operators" => MachineAgrees(Machines)
=============================================================================
