------------------------------ MODULE Emulator ------------------------------
(***************************************************************************)
(* The NVRAM and its file (nvram.cpp, and main of the emulator, main.cpp): *)
(* the loop that saves what the guest wrote, the stream in between, which  *)
(* buffers, and an emulator that is closed, killed and started again.      *)
(***************************************************************************)
EXTENDS Integers, Sequences

CONSTANTS
  NvramSize,   \* 256
  NvramValue,  \* values of a cell
  ZeroValue,   \* what a new file is filled with
  MaxStarts    \* bound on the times the emulator is started

ASSUME NvramAssumption ==
  NvramSize \in Nat \ {0} /\ ZeroValue \in NvramValue /\ MaxStarts \in Nat

VARIABLES
  file,   \* the NVRAM file
  stream, \* the fstream on it
  nvram,  \* the device
  emu,    \* where main is
  saves   \* history: the contents saved last, and before that, of a whole file

nvramVars == <<file, stream, nvram, emu, saves>>

Cells == 1 .. NvramSize
Contents == [Cells -> NvramValue]
Zeros == [c \in Cells |-> ZeroValue]
WholeFile(bytes) == Len(bytes) >= NvramSize

\* There may be no file, or one that is too short.
NvramInit ==
  /\ file \in {[exists |-> FALSE, bytes |-> <<>>], [exists |-> TRUE, bytes |-> <<>>],
               [exists |-> TRUE, bytes |-> Zeros]}
  /\ stream = [good |-> FALSE, pos |-> 0, buffer |-> <<>>]
  /\ nvram = [eprom |-> Zeros, dirty |-> FALSE]
  /\ emu = [at |-> "start", loop |-> TRUE, debug |-> FALSE, starts |-> 0]
  /\ saves = [last |-> Zeros, before |-> Zeros, whole |-> FALSE]

-----------------------------------------------------------------------------
(* The stream.  Its buffer ends at pos.                                    *)

Written(bytes, st) ==
  LET first == st.pos - Len(st.buffer)
      end == IF Len(bytes) > st.pos THEN Len(bytes) ELSE st.pos
  IN  IF st.buffer = <<>> THEN bytes
      ELSE [i \in 1 .. end |->
              IF i > first /\ i <= st.pos THEN st.buffer[i - first]
              ELSE IF i <= Len(bytes) THEN bytes[i] ELSE ZeroValue]

Flush == file' = [file EXCEPT !.bytes = Written(@, stream)]

\* seekg writes what is buffered and goes to the beginning.
Sought == IF stream.good THEN [stream EXCEPT !.pos = 0, !.buffer = <<>>] ELSE stream

\* NVRAM::Save, to a stream in state st.
Save(st) ==
  IF ~st.good THEN UNCHANGED <<nvram, saves>> /\ stream' = st
  ELSE /\ stream' = [st EXCEPT !.pos = @ + NvramSize, !.buffer = @ \o nvram.eprom]
       /\ nvram' = [nvram EXCEPT !.dirty = FALSE]
       /\ saves' = [saves EXCEPT !.last = nvram.eprom, !.before = saves.last]

\* The library may write its buffer before it must.
WriteBuffer ==
  /\ stream.buffer # <<>>
  /\ Flush
  /\ stream' = [stream EXCEPT !.buffer = <<>>]
  /\ UNCHANGED <<nvram, emu, saves>>

-----------------------------------------------------------------------------
(* main                                                                    *)

\* The file is opened, or created and filled.  The cells are not initialised.
OpenFile ==
  /\ emu.at = "start" /\ emu.starts < MaxStarts
  /\ file' = [file EXCEPT !.exists = TRUE]
  /\ stream' = [good |-> TRUE, pos |-> IF file.exists THEN 0 ELSE NvramSize,
                buffer |-> IF file.exists THEN <<>> ELSE Zeros]
  /\ \E e \in Contents : nvram' = [eprom |-> e, dirty |-> FALSE]
  /\ emu' = [at |-> "open", loop |-> TRUE, debug |-> FALSE, starts |-> emu.starts + 1]
  /\ UNCHANGED saves

\* seekg and LoadNVRAM, whose answer main does not look at: a short file leaves the
\* stream failed for good.
LoadNVRAM ==
  /\ emu.at = "open"
  /\ Flush
  /\ LET bytes == file'.bytes
         e == [c \in Cells |-> IF c <= Len(bytes) THEN bytes[c] ELSE nvram.eprom[c]]
     IN  /\ nvram' = [eprom |-> e, dirty |-> FALSE]
         /\ stream' = [Sought EXCEPT !.good = WholeFile(bytes), !.pos = NvramSize]
         /\ saves' = [last |-> e, before |-> e, whole |-> WholeFile(bytes)]
  /\ \E d \in BOOLEAN : emu' = [emu EXCEPT !.at = "top", !.debug = d]

\* The window is closed.
Closing ==
  /\ emu.at = "top"
  /\ emu' = [emu EXCEPT !.at = "exit"]
  /\ UNCHANGED <<file, stream, nvram, saves>>

\* Update, or Step when debugging.
Update ==
  /\ emu.at = "top"
  /\ emu' = [emu EXCEPT !.at = "run"]
  /\ UNCHANGED <<file, stream, nvram, saves>>

\* WriteB, WriteW, WriteDW; the last two stop at the end of the NVRAM.
GuestStore ==
  /\ emu.at = "run"
  /\ \E addr \in 0 .. NvramSize - 1, width \in {1, 2, 4}, v \in Contents :
       nvram' = [eprom |-> [c \in Cells |->
                              IF c > addr /\ c <= addr + width THEN v[c] ELSE nvram.eprom[c]],
                 dirty |-> TRUE]
  /\ UNCHANGED <<file, stream, emu, saves>>

\* The call returns, perhaps at a breakpoint.
Returned ==
  /\ emu.at = "run"
  /\ \E halted \in BOOLEAN :
       emu' = [emu EXCEPT !.debug = @ \/ halted,
                          !.at = IF emu.debug \/ halted THEN "command" ELSE "bottom"]
  /\ UNCHANGED <<file, stream, nvram, saves>>

\* q leaves, s goes on stepping, r resumes: it steps once, here and not in the loop.
DebugCommand ==
  /\ emu.at = "command"
  /\ emu' \in {[emu EXCEPT !.at = "bottom", !.loop = FALSE],
               [emu EXCEPT !.at = "bottom"],
               [emu EXCEPT !.at = "bottom", !.debug = FALSE]}
  /\ \/ UNCHANGED nvram
     \/ ~emu'.debug /\ \E v \in Contents : nvram' = [eprom |-> v, dirty |-> TRUE]
  /\ UNCHANGED <<file, stream, saves>>

\* Mutant: the stream is not set back before the NVRAM is saved.
SaveIfDirty_Appends ==
  /\ emu.at = "bottom"
  /\ emu' = [emu EXCEPT !.at = IF emu.loop THEN "top" ELSE "exit"]
  /\ IF nvram.dirty THEN UNCHANGED file /\ Save(stream)
     ELSE UNCHANGED <<file, stream, nvram, saves>>

\* "Saves NVRAM if a changed happen"
SaveIfDirty ==
  /\ emu.at = "bottom"
  /\ emu' = [emu EXCEPT !.at = IF emu.loop THEN "top" ELSE "exit"]
  /\ IF nvram.dirty THEN Flush /\ Save(Sought)
     ELSE UNCHANGED <<file, stream, nvram, saves>>

SaveAtExit ==
  /\ emu.at = "exit"
  /\ emu' = [emu EXCEPT !.at = "saved"]
  /\ Flush /\ Save(Sought)

\* main returns and the stream closes.
CloseFile ==
  /\ emu.at = "saved"
  /\ emu' = [emu EXCEPT !.at = "done"]
  /\ Flush
  /\ stream' = [stream EXCEPT !.buffer = <<>>]
  /\ UNCHANGED <<nvram, saves>>

\* The process dies, and what is buffered with it.
Kill ==
  /\ emu.at \notin {"start", "done"}
  /\ emu' = [emu EXCEPT !.at = "start"]
  /\ stream' = [stream EXCEPT !.buffer = <<>>]
  /\ UNCHANGED <<file, nvram, saves>>

StartAgain ==
  /\ emu.at = "done"
  /\ emu' = [emu EXCEPT !.at = "start"]
  /\ UNCHANGED <<file, stream, nvram, saves>>

EmulatorNext ==
  \/ OpenFile \/ LoadNVRAM \/ Closing \/ Update \/ GuestStore \/ Returned \/ DebugCommand
  \/ SaveIfDirty \/ SaveAtExit \/ CloseFile \/ WriteBuffer \/ Kill \/ StartAgain

-----------------------------------------------------------------------------
EmulatorTypeOK ==
  /\ file \in [exists : BOOLEAN, bytes : Seq(NvramValue)]
  /\ stream.good \in BOOLEAN /\ stream.pos \in Nat
  /\ stream.buffer \in Seq(NvramValue)
  /\ nvram \in [eprom : Contents, dirty : BOOLEAN]
  /\ saves \in [last : Contents, before : Contents, whole : BOOLEAN]

NvramSpec == NvramInit /\ [][EmulatorNext]_nvramVars

Loaded == emu.at \notin {"start", "open"}

\* From a file that was whole when it was loaded: a round of the loop ends with all
\* that the guest wrote saved; the file is always as one save left it, the last or,
\* while that is buffered, the one before, so an emulator killed at any moment loses
\* the writes of a round or two and never mixes old and new; and after a regular
\* exit the file is the NVRAM.
NvramKept ==
  saves.whole =>
    /\ Loaded => file.bytes = IF stream.buffer = <<>> THEN saves.last ELSE saves.before
    /\ emu.at = "start" => file.bytes \in {saves.last, saves.before}
    /\ emu.at = "top" => nvram.eprom = saves.last /\ ~nvram.dirty
    /\ emu.at = "done" => file.bytes = nvram.eprom
=============================================================================
