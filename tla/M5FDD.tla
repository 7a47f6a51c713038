------------------------------- MODULE M5FDD -------------------------------
(***************************************************************************)
(* The floppy drive (m5fdd.cpp): commands of the guest, a transfer of one  *)
(* byte per device cycle between RAM and the sector buffer, and a host     *)
(* that inserts, ejects, marks and resets at any time.  The guest leaves   *)
(* the RAM of a transfer alone until it has ended.                         *)
(***************************************************************************)
EXTENDS Media

CONSTANTS
  BusyCycles,   \* cycles a transfer adds to busyCycles: 512, whatever Bytes is
  MaxStale      \* bound on the cycles an aborted transfer may leave behind

ASSUME BusyAssumption == BusyCycles \in Nat /\ MaxStale \in Nat

VARIABLES
  drive,   \* the drive's registers; spoiled is history: the host has marked the disk
           \* so that it would refuse the sector of this transfer
  image,   \* the image the host can insert
  ram      \* the sector of RAM at dmaLocation

floppyVars == <<drive, image, ram>>

\* Mutant: a reset keeps the state of the drive.
ResetDrive_KeepsState(d) ==
  [d EXCEPT !.error = "NONE", !.busyCycles = 0, !.lba = 0, !.curPosition = 0,
            !.pendingInterrupt = FALSE]

Ready == IF image.writeProtect THEN "READY_WP" ELSE "READY"

\* Reset leaves the buffer and "writing" as they are.
ResetDrive(d) ==
  [d EXCEPT !.state = IF d.floppy THEN Ready ELSE "NO_MEDIA",
            !.error = "NONE", !.busyCycles = 0, !.lba = 0, !.curPosition = 0,
            !.pendingInterrupt = FALSE]

FloppyInit ==
  /\ image = [writeProtect |-> FALSE, badSectors |-> {},
              sectors |-> [s \in Lbas |-> Whole(CHOOSE t \in Data : TRUE)]]
  /\ ram = Whole(CHOOSE t \in Data : TRUE)
  /\ drive = [floppy |-> FALSE, state |-> "NO_MEDIA", error |-> "NONE",
              busyCycles |-> 0, lba |-> 0, curPosition |-> 0, writing |-> FALSE,
              pendingInterrupt |-> FALSE, buffer |-> ram, spoiled |-> FALSE]

-----------------------------------------------------------------------------
(* Commands.  A, B and C, which QUERY_MEDIA answers in, hold the address   *)
(* and the RAM location of a command and are its parameters here.          *)

Refused(d) ==
  [d EXCEPT !.pendingInterrupt = TRUE,
            !.error = CASE d.state = "NO_MEDIA" -> "NO_MEDIA"
                        [] d.state = "BUSY"     -> "BUSY"
                        [] OTHER                -> "PROTECTED"]

\* setSector adds to what an ejected transfer left in busyCycles.
Started(d, lba, w) ==
  [d EXCEPT !.state = "BUSY", !.error = "NONE", !.busyCycles = @ + BusyCycles,
            !.lba = lba, !.curPosition = 0, !.writing = w,
            !.pendingInterrupt = TRUE, !.spoiled = FALSE]

Failed(d, e) == [d EXCEPT !.error = e, !.pendingInterrupt = TRUE]

\* "This not should happen never, but..."
Broken(d) == [d EXCEPT !.state = "NO_MEDIA", !.error = "BROKEN"]

ReadSectorCmd(d, lba) ==
  IF d.state \notin {"READY", "READY_WP"} THEN Refused(d)
  ELSE IF ~d.floppy THEN Broken(d)
  ELSE IF lba < 0   THEN [d EXCEPT !.error = "BAD_CHS"]
  ELSE IF readError(image, lba) # "NONE" THEN Failed(d, readError(image, lba))
  ELSE [Started(d, lba, FALSE) EXCEPT !.buffer = image.sectors[lba]]

WriteSectorCmd(d, lba) ==
  IF d.state # "READY" THEN Refused(d)
  ELSE IF ~d.floppy THEN Broken(d)
  ELSE IF lba < 0   THEN [d EXCEPT !.error = "BAD_CHS"]
  ELSE IF writeError(image, lba) # "NONE" THEN Failed(d, writeError(image, lba))
  ELSE Started(d, lba, TRUE)

\* The guest writes what it has put into RAM as one sector.
Command ==
  /\ drive.busyCycles <= MaxStale
  /\ \E x \in Chs(Geometry) :
       LET lba == CHStoLBA(Geometry, x[1], x[2], x[3]) IN
       \/ drive' = ReadSectorCmd(drive, lba)
       \/ (\E t \in Data : ram = Whole(t)) /\ drive' = WriteSectorCmd(drive, lba)
  /\ UNCHANGED <<image, ram>>

\* The guest's own rule, not the drive's.
FillRam == drive.state # "BUSY" /\ \E t \in Data : ram' = Whole(t)
             /\ UNCHANGED <<drive, image>>

-----------------------------------------------------------------------------
(* Time                                                                    *)

\* The byte of this cycle, while bytes are left.
Moving == drive.curPosition < Bytes

\* Mutant: the sector is written when its last byte is still to come.
Moved_Early ==
  LET pos == IF Moving THEN drive.curPosition + 1 ELSE drive.curPosition
      buf == IF Moving /\ drive.writing
             THEN [drive.buffer EXCEPT ![drive.curPosition] = ram[drive.curPosition]]
             ELSE drive.buffer
  IN  /\ drive' = [drive EXCEPT !.busyCycles = @ - 1, !.curPosition = pos,
                                !.buffer = buf]
      /\ ram' = IF Moving /\ ~drive.writing
                THEN [ram EXCEPT ![drive.curPosition] = drive.buffer[drive.curPosition]]
                ELSE ram
      /\ image' = IF drive.writing /\ pos = Bytes - 1
                  THEN writeSector(image, drive.lba, buf) ELSE image

\* One device cycle of a transfer.  Once the buffer is full, every cycle that is
\* left writes it to the disk again.
Moved ==
  LET pos == IF Moving THEN drive.curPosition + 1 ELSE drive.curPosition
      buf == IF Moving /\ drive.writing
             THEN [drive.buffer EXCEPT ![drive.curPosition] = ram[drive.curPosition]]
             ELSE drive.buffer
  IN  /\ drive' = [drive EXCEPT !.busyCycles = @ - 1, !.curPosition = pos,
                                !.buffer = buf]
      /\ ram' = IF Moving /\ ~drive.writing
                THEN [ram EXCEPT ![drive.curPosition] = drive.buffer[drive.curPosition]]
                ELSE ram
      /\ image' = IF drive.writing /\ pos = Bytes
                  THEN writeSector(image, drive.lba, buf) ELSE image

\* Mutant: a transfer ends when its sector has been moved, but not one that began
\* with cycles left from another.
FloppyTick_Exact ==
  \/ drive.state = "BUSY" /\ drive.busyCycles > 0 /\ Moved
  \/ /\ drive.state = "BUSY" /\ drive.busyCycles = 0 /\ drive.floppy
     /\ drive.curPosition < Bytes
     /\ drive' = [drive EXCEPT !.state = Ready, !.pendingInterrupt = TRUE]
     /\ UNCHANGED <<image, ram>>

\* One cycle of Tick(n).
FloppyTick ==
  \/ drive.state = "BUSY" /\ drive.busyCycles > 0 /\ Moved
  \/ /\ drive.state = "BUSY" /\ drive.busyCycles = 0 /\ drive.floppy
     /\ drive' = [drive EXCEPT !.state = Ready, !.pendingInterrupt = TRUE]
     /\ UNCHANGED <<image, ram>>

\* DoesInterrupt, and IACK after it, forget the request.
FloppyPoll ==
  /\ drive' = [drive EXCEPT !.pendingInterrupt = FALSE]
  /\ UNCHANGED <<image, ram>>

-----------------------------------------------------------------------------
(* The host                                                                *)

\* Mutant: an ejected disk leaves the transfer running.
Ejected_Running(d) ==
  [d EXCEPT !.floppy = FALSE, !.pendingInterrupt = TRUE,
            !.error = IF d.state = "BUSY" THEN "EJECT" ELSE "NONE",
            !.state = IF d.state = "BUSY" THEN @ ELSE "NO_MEDIA"]

Ejected(d) ==
  IF ~d.floppy THEN d
  ELSE [d EXCEPT !.floppy = FALSE, !.pendingInterrupt = TRUE,
                 !.error = IF d.state = "BUSY" THEN "EJECT" ELSE "NONE",
                 !.state = "NO_MEDIA"]

ejectFloppy == drive' = Ejected(drive) /\ UNCHANGED <<image, ram>>

\* "If there is a floppy disk previously inserted, this is ejected" (m5fdd.hpp:201),
\* and what the eject reported is overwritten.
insertFloppy ==
  /\ drive' = [Ejected(drive) EXCEPT !.floppy = TRUE, !.state = Ready,
                                     !.error = "NONE", !.pendingInterrupt = TRUE]
  /\ UNCHANGED <<image, ram>>

\* The host marks a sector or protects the disk; the drive hears nothing of it and
\* does not look at what its own writes answer.
MarkImage ==
  /\ \/ \E b \in BOOLEAN : image' = [image EXCEPT !.writeProtect = b]
     \/ \E s \in Lbas, b \in BOOLEAN : image' = setSectorBad(image, s, b)
  /\ drive' = [drive EXCEPT !.spoiled =
                  @ \/ (drive.state = "BUSY" /\ writeError(image', drive.lba) # "NONE")]
  /\ UNCHANGED ram

FloppyReset == drive' = ResetDrive(drive) /\ UNCHANGED <<image, ram>>

FloppyNext ==
  \/ Command \/ FillRam
  \/ FloppyTick \/ FloppyPoll
  \/ ejectFloppy \/ insertFloppy \/ MarkImage \/ FloppyReset

FloppySpec == FloppyInit /\ [][FloppyNext]_floppyVars

-----------------------------------------------------------------------------
(* Properties                                                              *)

FloppyTypeOK ==
  /\ image \in Image
  /\ ram \in Sector
  /\ drive \in
       [floppy : BOOLEAN, state : {"NO_MEDIA", "READY", "READY_WP", "BUSY"},
        error : {"NONE", "BUSY", "NO_MEDIA", "PROTECTED", "EJECT", "BAD_SECTOR",
                 "BAD_CHS"},
        busyCycles : 0 .. MaxStale + BusyCycles, lba : Nat,
        curPosition : 0 .. Bytes, writing : BOOLEAN, pendingInterrupt : BOOLEAN,
        buffer : Sector, spoiled : BOOLEAN]

\* A drive that transfers has a disk: Tick reads its descriptor without a look, and
\* the state that "should not happen never" does not, in any order of commands,
\* disk changes and resets.
BusyHasDisk ==
  /\ drive.floppy = (drive.state # "NO_MEDIA")
  /\ drive.state = "BUSY" => drive.curPosition <= Bytes

\* "Calling reset() while writing to the disk will not corrupt the VCD file"
\* (m5fdd.cpp:30), nor does taking the disk out: every sector of the image holds
\* what one write put there.
NoTornSector == \A s \in Lbas : \E t \in Data : image.sectors[s] = Whole(t)

\* A transfer that runs its time has moved as many bytes as the time allows, those a
\* reset, an eject or a refused command left behind never short of it, and if that is
\* the sector, then disk and RAM agree on it, unless the host spoiled the write.
TransferIsWhole ==
  [][FloppyTick /\ drive.state = "BUSY" /\ drive'.state # "BUSY" =>
       /\ drive.curPosition = Bytes \/ drive.curPosition >= BusyCycles
       /\ drive.curPosition = Bytes /\ ~(drive.writing /\ drive.spoiled) =>
            image.sectors[drive.lba] = ram]_floppyVars

\* "No error since the last poll" (m5fdd.hpp:49), where a disk taken out of a transfer
\* is one of the errors (m5fdd.hpp:53): a drive that leaves BUSY for READY with a
\* request and no error has moved its sector.
CompletionIsWhole ==
  [][/\ drive.state = "BUSY" /\ drive'.state \in {"READY", "READY_WP"}
     /\ drive'.pendingInterrupt /\ drive'.error = "NONE"
     => image.sectors[drive.lba] = ram]_floppyVars

\* Every transfer ends.
TransferEnds == drive.state = "BUSY" ~> drive.state # "BUSY"
=============================================================================
