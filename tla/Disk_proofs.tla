---------------------------- MODULE Disk_proofs -----------------------------
(***************************************************************************)
(* A transfer that runs its time is whole, for any geometry, sector size   *)
(* and time of a transfer, and an image keeps its data when its file is    *)
(* converted.                                                              *)
(***************************************************************************)
EXTENDS M5FDD, DiskFile, TLAPS

IsWhole(sector) == \E t \in Data : sector = Whole(t)

\* A write has put into the buffer what RAM holds, up to the current position; unless
\* it is spoiled, the disk will take it, and has it once the buffer is full.
WritesRam ==
  /\ IsWhole(ram)
  /\ \A p \in 0 .. Bytes - 1 : p < drive.curPosition => drive.buffer[p] = ram[p]
  /\ ~drive.spoiled =>
       /\ ~image.writeProtect /\ drive.lba \notin image.badSectors
       /\ drive.curPosition = Bytes => image.sectors[drive.lba] = drive.buffer

\* A read has the sector in its buffer, and in RAM up to the current position.
ReadsSector ==
  /\ drive.buffer = image.sectors[drive.lba]
  /\ \A p \in 0 .. Bytes - 1 : p < drive.curPosition => ram[p] = drive.buffer[p]

\* The cycles a transfer has had and has left are those that every transfer gets, at
\* least, until its sector has been moved: an aborted one can only leave it more.
InTime(cycles, pos) == pos = Bytes \/ BusyCycles <= cycles + pos

Transfer ==
  drive.state = "BUSY" =>
    /\ drive.lba \in Lbas
    /\ InTime(drive.busyCycles, drive.curPosition)
    /\ IF drive.writing THEN WritesRam ELSE ReadsSector

FInv == FloppyTypeOK /\ BusyHasDisk /\ NoTornSector /\ Transfer

USE BytesAssumption, BusyAssumption

-----------------------------------------------------------------------------
\* A sector of one value is a sector.
LEMMA WholeIsSector == ASSUME NEW t \in Data PROVE Whole(t) \in Sector
  BY DEF Whole, Sector

\* An image without its sectors' contents.
LEMMA ImageFields ==
  ASSUME image \in Image
  PROVE  /\ image.writeProtect \in BOOLEAN /\ image.badSectors \subseteq Lbas
         /\ image.sectors \in [Lbas -> Sector]
  BY DEF Image

\* A drive that has just started has nothing to answer for but the checks made.
LEMMA StartedHolds ==
  ASSUME FInv, drive.state \in {"READY", "READY_WP"}, NEW lba \in Lbas,
         drive.busyCycles <= MaxStale, NEW w \in BOOLEAN, NEW buf \in Sector,
         drive' = [Started(drive, lba, w) EXCEPT !.buffer = buf],
         UNCHANGED <<image, ram>>,
         w => IsWhole(ram) /\ ~image.writeProtect /\ lba \notin image.badSectors,
         ~w => buf = image.sectors[lba]
  PROVE  FInv'
<1>1. drive.busyCycles + BusyCycles \in 0 .. MaxStale + BusyCycles
  BY DEF FInv, FloppyTypeOK
<1>2. /\ drive'.state = "BUSY" /\ drive'.lba = lba /\ drive'.writing = w
      /\ drive'.busyCycles = drive.busyCycles + BusyCycles
      /\ drive'.curPosition = 0 /\ drive'.buffer = buf
      /\ drive'.floppy = drive.floppy /\ drive'.spoiled = FALSE
  BY DEF FInv, FloppyTypeOK, Started
<1>3. FloppyTypeOK'
  <2>1. lba \in Nat /\ 0 \in 0 .. Bytes
    BY DEF Lbas
  <2> QED
    BY <2>1, <1>1 DEF FInv, FloppyTypeOK, Started
<1>4. BusyHasDisk'
  BY <1>2 DEF FInv, BusyHasDisk
<1>5. NoTornSector'
  BY DEF FInv, NoTornSector
<1>6. Transfer'
  <2>1. InTime(drive'.busyCycles, drive'.curPosition)
    BY <1>2 DEF FInv, FloppyTypeOK, InTime
  <2>2. CASE w
    <3>1. IsWhole(ram)'
      BY <2>2 DEF IsWhole
    <3>2. \A p \in 0 .. Bytes - 1 : ~(p < drive'.curPosition)
      BY <1>2
    <3>3. drive'.curPosition # Bytes
      BY <1>2
    <3>4. ~image'.writeProtect /\ drive'.lba \notin image'.badSectors
      BY <2>2, <1>2
    <3>5. WritesRam'
      BY <3>1, <3>2, <3>3, <3>4 DEF WritesRam
    <3> QED
      BY <3>5, <2>1, <2>2, <1>2 DEF Transfer
  <2>3. CASE ~w
    <3>1. ReadsSector'
      BY <2>3, <1>2 DEF ReadsSector
    <3> QED
      BY <3>1, <2>1, <2>3, <1>2 DEF Transfer
  <2> QED
    BY <2>2, <2>3
<1> QED
  BY <1>3, <1>4, <1>5, <1>6 DEF FInv

\* A drive that does not transfer has nothing to answer for.
LEMMA RestHolds ==
  ASSUME FInv, image' \in Image, image'.sectors = image.sectors,
         ram' \in Sector, FloppyTypeOK', BusyHasDisk', drive'.state # "BUSY"
  PROVE  FInv'
  BY DEF FInv, NoTornSector, Transfer

\* A command that is refused or fails leaves the transfer alone.
LEMMA AnsweredHolds ==
  ASSUME FInv, UNCHANGED <<image, ram>>,
         NEW e \in {"NONE", "BUSY", "NO_MEDIA", "PROTECTED", "EJECT", "BAD_SECTOR",
                    "BAD_CHS"},
         NEW i \in BOOLEAN,
         drive' = [drive EXCEPT !.error = e, !.pendingInterrupt = i]
  PROVE  FInv'
<1>1. /\ drive'.state = drive.state /\ drive'.floppy = drive.floppy
      /\ drive'.busyCycles = drive.busyCycles /\ drive'.lba = drive.lba
      /\ drive'.curPosition = drive.curPosition /\ drive'.writing = drive.writing
      /\ drive'.buffer = drive.buffer /\ drive'.spoiled = drive.spoiled
  BY DEF FInv, FloppyTypeOK
<1>2. FloppyTypeOK'
  BY DEF FInv, FloppyTypeOK
<1>3. BusyHasDisk' /\ NoTornSector'
  BY <1>1 DEF FInv, BusyHasDisk, NoTornSector
<1>4. Transfer'
  BY <1>1 DEF FInv, Transfer, WritesRam, ReadsSector, IsWhole
<1> QED
  BY <1>2, <1>3, <1>4 DEF FInv

LEMMA CommandHolds == ASSUME FInv, Command PROVE FInv'
<1>1. /\ drive.busyCycles <= MaxStale /\ UNCHANGED <<image, ram>>
  BY DEF Command
<1>2. PICK lba : \/ drive' = ReadSectorCmd(drive, lba)
                 \/ IsWhole(ram) /\ drive' = WriteSectorCmd(drive, lba)
  BY DEF Command, IsWhole
<1>3. drive.state # "NO_MEDIA" => drive.floppy
  BY DEF FInv, BusyHasDisk
<1>4. drive.state \in {"NO_MEDIA", "READY", "READY_WP", "BUSY"}
        /\ drive.pendingInterrupt \in BOOLEAN /\ drive.error \in
             {"NONE", "BUSY", "NO_MEDIA", "PROTECTED", "EJECT", "BAD_SECTOR", "BAD_CHS"}
        /\ drive.buffer \in Sector /\ image \in Image
  BY DEF FInv, FloppyTypeOK
<1>5. drive = [drive EXCEPT !.error = drive.error,
                            !.pendingInterrupt = drive.pendingInterrupt]
  BY DEF FInv, FloppyTypeOK
<1>6. CASE drive' = Refused(drive)
  <2> DEFINE e == CASE drive.state = "NO_MEDIA" -> "NO_MEDIA"
                    [] drive.state = "BUSY"     -> "BUSY"
                    [] OTHER                    -> "PROTECTED"
  <2>1. e \in {"NO_MEDIA", "BUSY", "PROTECTED"}
    OBVIOUS
  <2>2. drive' = [drive EXCEPT !.error = e, !.pendingInterrupt = TRUE]
    BY <1>6 DEF Refused, FInv, FloppyTypeOK
  <2> HIDE DEF e
  <2> QED
    BY <2>1, <2>2, <1>1, AnsweredHolds
<1>7. ASSUME NEW x \in {"BAD_SECTOR", "PROTECTED"}, drive' = Failed(drive, x)
      PROVE  FInv'
  <2>1. drive' = [drive EXCEPT !.error = x, !.pendingInterrupt = TRUE]
    BY <1>7 DEF Failed
  <2> QED
    BY <2>1, <1>1, <1>7, AnsweredHolds
<1>8. CASE drive' = [drive EXCEPT !.error = "BAD_CHS"]
  <2>1. drive' = [drive EXCEPT !.error = "BAD_CHS",
                               !.pendingInterrupt = drive.pendingInterrupt]
    BY <1>8 DEF FInv, FloppyTypeOK
  <2> QED
    BY <2>1, <1>1, <1>4, AnsweredHolds
<1>9. CASE drive' = ReadSectorCmd(drive, lba)
  <2>1. CASE drive.state \notin {"READY", "READY_WP"}
    BY <2>1, <1>9, <1>6 DEF ReadSectorCmd
  <2>2. CASE drive.state \in {"READY", "READY_WP"} /\ lba < 0
    BY <2>2, <1>9, <1>3, <1>8 DEF ReadSectorCmd
  <2>3. CASE drive.state \in {"READY", "READY_WP"} /\ ~(lba < 0)
               /\ readError(image, lba) # "NONE"
    BY <2>3, <1>9, <1>3, <1>7 DEF ReadSectorCmd, readError
  <2>4. CASE drive.state \in {"READY", "READY_WP"} /\ ~(lba < 0)
               /\ readError(image, lba) = "NONE"
    <3>1. drive' = [Started(drive, lba, FALSE) EXCEPT !.buffer = image.sectors[lba]]
      BY <2>4, <1>9, <1>3 DEF ReadSectorCmd
    <3>2. lba \in Lbas
      BY <2>4 DEF readError, isSectorBad
    <3>3. image.sectors[lba] \in Sector
      BY <3>2, <1>4 DEF Image
    <3> QED
      BY <3>1, <3>2, <3>3, <2>4, <1>1, StartedHolds
  <2> QED
    BY <2>1, <2>2, <2>3, <2>4
<1>10. CASE IsWhole(ram) /\ drive' = WriteSectorCmd(drive, lba)
  <2>1. CASE drive.state # "READY"
    BY <2>1, <1>10, <1>6 DEF WriteSectorCmd
  <2>2. CASE drive.state = "READY" /\ lba < 0
    BY <2>2, <1>10, <1>3, <1>8 DEF WriteSectorCmd
  <2>3. CASE drive.state = "READY" /\ ~(lba < 0) /\ writeError(image, lba) # "NONE"
    BY <2>3, <1>10, <1>3, <1>7 DEF WriteSectorCmd, writeError
  <2>4. CASE drive.state = "READY" /\ ~(lba < 0) /\ writeError(image, lba) = "NONE"
    <3>1. drive' = Started(drive, lba, TRUE)
      BY <2>4, <1>10, <1>3 DEF WriteSectorCmd
    <3>2. drive' = [Started(drive, lba, TRUE) EXCEPT !.buffer = drive.buffer]
      BY <3>1 DEF Started, FInv, FloppyTypeOK
    <3>3. lba \in Lbas /\ ~image.writeProtect /\ lba \notin image.badSectors
      BY <2>4 DEF writeError, isSectorBad
    <3> QED
      BY <3>2, <3>3, <2>4, <1>1, <1>4, <1>10, StartedHolds
  <2> QED
    BY <2>1, <2>2, <2>3, <2>4
<1> QED
  BY <1>2, <1>9, <1>10

-----------------------------------------------------------------------------
\* A cycle of a write brings one more byte into the buffer, and the last one, and
\* every cycle after it, a whole sector to the disk.
LEMMA WriteMoves ==
  ASSUME FInv, drive.state = "BUSY", drive.busyCycles > 0, drive.writing, Moved
  PROVE  FInv'
<1> DEFINE pos == IF Moving THEN drive.curPosition + 1 ELSE drive.curPosition
           buf == IF Moving
                  THEN [drive.buffer EXCEPT ![drive.curPosition] = ram[drive.curPosition]]
                  ELSE drive.buffer
<1>1. /\ drive' = [drive EXCEPT !.busyCycles = @ - 1, !.curPosition = pos, !.buffer = buf]
      /\ ram' = ram
      /\ image' = IF pos = Bytes THEN writeSector(image, drive.lba, buf) ELSE image
  BY DEF Moved
<1>2. /\ drive.curPosition \in 0 .. Bytes /\ drive.buffer \in Sector /\ ram \in Sector
      /\ drive.busyCycles \in 0 .. MaxStale + BusyCycles /\ image \in Image
      /\ drive.lba \in Lbas /\ InTime(drive.busyCycles, drive.curPosition)
      /\ WritesRam
  BY DEF FInv, FloppyTypeOK, Transfer
<1>3. pos \in 0 .. Bytes /\ (Moving <=> drive.curPosition < Bytes)
  BY <1>2 DEF Moving
<1>4. buf \in Sector
  BY <1>2 DEF Sector
<1>5. \A p \in 0 .. Bytes - 1 : p < pos => buf[p] = ram[p]
  BY <1>2, <1>3 DEF WritesRam, Sector
<1>6. pos = Bytes => buf = ram
  BY <1>2, <1>4, <1>5 DEF Sector
<1>7. \/ pos = Bytes /\ image' = [image EXCEPT !.sectors[drive.lba] = buf]
      \/ (pos = Bytes => drive.spoiled) /\ image' = image
  BY <1>1, <1>2 DEF writeSector, writeError, isSectorBad, WritesRam
<1>8. /\ image' \in Image /\ image'.writeProtect = image.writeProtect
      /\ image'.badSectors = image.badSectors
      /\ \/ pos = Bytes /\ image'.sectors = [image.sectors EXCEPT ![drive.lba] = ram]
         \/ (pos = Bytes => drive.spoiled) /\ image'.sectors = image.sectors
  <2> HIDE DEF pos, buf
  <2>1. CASE pos = Bytes /\ image' = [image EXCEPT !.sectors[drive.lba] = buf]
    BY <2>1, <1>2, <1>4, <1>6 DEF Image
  <2>2. CASE (pos = Bytes => drive.spoiled) /\ image' = image
    BY <2>2, <1>2
  <2> QED
    BY <2>1, <2>2, <1>7
<1>9. InTime(drive.busyCycles - 1, pos)
  BY <1>2, <1>3 DEF InTime
<1> HIDE DEF pos, buf
<1>10. /\ drive'.state = "BUSY" /\ drive'.floppy = drive.floppy
       /\ drive'.busyCycles = drive.busyCycles - 1 /\ drive'.lba = drive.lba
       /\ drive'.curPosition = pos /\ drive'.writing /\ drive'.buffer = buf
       /\ drive'.spoiled = drive.spoiled
  BY <1>1 DEF FInv, FloppyTypeOK
<1>11. FloppyTypeOK'
  <2>1. drive.busyCycles - 1 \in 0 .. MaxStale + BusyCycles
    BY <1>2
  <2> QED
    BY <2>1, <1>1, <1>2, <1>3, <1>4, <1>8 DEF FInv, FloppyTypeOK
<1>12. BusyHasDisk'
  BY <1>10, <1>3 DEF FInv, BusyHasDisk
<1>13. NoTornSector'
  BY <1>2, <1>8 DEF FInv, NoTornSector, WritesRam, IsWhole, Image
<1>14. Transfer'
  <2>1. WritesRam'
    BY <1>1, <1>2, <1>5, <1>6, <1>8, <1>10 DEF WritesRam, IsWhole, Image
  <2> QED
    BY <2>1, <1>2, <1>3, <1>9, <1>10 DEF Transfer
<1> QED
  BY <1>11, <1>12, <1>13, <1>14 DEF FInv

\* A cycle of a read brings one more byte to RAM.
LEMMA ReadMoves ==
  ASSUME FInv, drive.state = "BUSY", drive.busyCycles > 0, ~drive.writing, Moved
  PROVE  FInv'
<1> DEFINE pos == IF Moving THEN drive.curPosition + 1 ELSE drive.curPosition
<1>1. /\ drive' = [drive EXCEPT !.busyCycles = @ - 1, !.curPosition = pos,
                                !.buffer = drive.buffer]
      /\ ram' = IF Moving
                THEN [ram EXCEPT ![drive.curPosition] = drive.buffer[drive.curPosition]]
                ELSE ram
      /\ image' = image
  BY DEF Moved
<1>2. /\ drive.curPosition \in 0 .. Bytes /\ drive.buffer \in Sector /\ ram \in Sector
      /\ drive.busyCycles \in 0 .. MaxStale + BusyCycles /\ image \in Image
      /\ drive.lba \in Lbas /\ InTime(drive.busyCycles, drive.curPosition)
      /\ ReadsSector
  BY DEF FInv, FloppyTypeOK, Transfer
<1>3. pos \in 0 .. Bytes /\ (Moving <=> drive.curPosition < Bytes)
  BY <1>2 DEF Moving
<1>4. ram' \in Sector
  BY <1>1, <1>2 DEF Sector
<1>5. \A p \in 0 .. Bytes - 1 : p < pos => ram'[p] = drive.buffer[p]
  BY <1>1, <1>2, <1>3 DEF ReadsSector, Sector
<1>6. InTime(drive.busyCycles - 1, pos)
  BY <1>2, <1>3 DEF InTime
<1> HIDE DEF pos
<1>7. /\ drive'.state = "BUSY" /\ drive'.floppy = drive.floppy
      /\ drive'.busyCycles = drive.busyCycles - 1 /\ drive'.lba = drive.lba
      /\ drive'.curPosition = pos /\ ~drive'.writing /\ drive'.buffer = drive.buffer
  BY <1>1 DEF FInv, FloppyTypeOK
<1>8. FloppyTypeOK'
  <2>1. drive.busyCycles - 1 \in 0 .. MaxStale + BusyCycles
    BY <1>2
  <2> QED
    BY <2>1, <1>1, <1>2, <1>3, <1>4 DEF FInv, FloppyTypeOK
<1>9. BusyHasDisk' /\ NoTornSector'
  BY <1>1, <1>3, <1>7 DEF FInv, BusyHasDisk, NoTornSector
<1>10. Transfer'
  BY <1>1, <1>2, <1>3, <1>5, <1>6, <1>7 DEF Transfer, ReadsSector
<1> QED
  BY <1>8, <1>9, <1>10 DEF FInv

LEMMA TickHolds == ASSUME FInv, FloppyTick PROVE FInv'
<1>1. CASE drive.state = "BUSY" /\ drive.busyCycles > 0 /\ Moved
  <2>1. drive.writing \in BOOLEAN
    BY DEF FInv, FloppyTypeOK
  <2> QED
    BY <2>1, <1>1, WriteMoves, ReadMoves
<1>2. CASE /\ drive.state = "BUSY" /\ drive.floppy
           /\ drive' = [drive EXCEPT !.state = Ready, !.pendingInterrupt = TRUE]
           /\ UNCHANGED <<image, ram>>
  <2>1. Ready \in {"READY", "READY_WP"}
    BY DEF Ready
  <2>2. FloppyTypeOK' /\ BusyHasDisk' /\ drive'.state # "BUSY"
    BY <1>2, <2>1 DEF FInv, FloppyTypeOK, BusyHasDisk
  <2> QED
    BY <1>2, <2>2, RestHolds DEF FInv, FloppyTypeOK
<1> QED
  BY <1>1, <1>2 DEF FloppyTick

-----------------------------------------------------------------------------
\* Marking the disk moves nothing, and a transfer that the disk would refuse from now on
\* is spoiled.
LEMMA MarkHolds == ASSUME FInv, MarkImage PROVE FInv'
<1>0. image \in Image /\ ram \in Sector
  BY DEF FInv, FloppyTypeOK
<1>1. image' \in Image /\ image'.sectors = image.sectors /\ ram' = ram
  BY <1>0 DEF MarkImage, setSectorBad, Image
<1> DEFINE s == drive.spoiled \/ (drive.state = "BUSY" /\ writeError(image', drive.lba) # "NONE")
<1>2. drive' = [drive EXCEPT !.spoiled = s] /\ s \in BOOLEAN
  BY DEF MarkImage, FInv, FloppyTypeOK
<1>3. drive.state = "BUSY" /\ ~s => ~image'.writeProtect /\ drive.lba \notin image'.badSectors
  BY DEF writeError, isSectorBad
<1>4. ~s => ~drive.spoiled
  OBVIOUS
<1> HIDE DEF s
<1>5. /\ drive'.state = drive.state /\ drive'.floppy = drive.floppy
      /\ drive'.busyCycles = drive.busyCycles /\ drive'.lba = drive.lba
      /\ drive'.curPosition = drive.curPosition /\ drive'.writing = drive.writing
      /\ drive'.buffer = drive.buffer /\ drive'.spoiled = s
  BY <1>2 DEF FInv, FloppyTypeOK
<1>6. FloppyTypeOK'
  BY <1>0, <1>1, <1>2 DEF FInv, FloppyTypeOK
<1>7. BusyHasDisk' /\ NoTornSector'
  BY <1>1, <1>5 DEF FInv, BusyHasDisk, NoTornSector
<1>8. Transfer'
  <2> SUFFICES ASSUME drive.state = "BUSY" PROVE Transfer'
    BY <1>5 DEF Transfer
  <2>1. /\ drive.lba \in Lbas /\ InTime(drive.busyCycles, drive.curPosition)
        /\ IF drive.writing THEN WritesRam ELSE ReadsSector
    BY DEF FInv, Transfer
  <2>2. drive.writing => WritesRam'
    BY <2>1, <1>1, <1>3, <1>4, <1>5 DEF WritesRam, IsWhole
  <2>3. ~drive.writing => ReadsSector'
    BY <2>1, <1>1, <1>5 DEF ReadsSector
  <2> QED
    BY <2>1, <2>2, <2>3, <1>5 DEF Transfer
<1> QED
  BY <1>6, <1>7, <1>8 DEF FInv

LEMMA HostHolds ==
  ASSUME FInv, FillRam \/ FloppyPoll \/ ejectFloppy \/ insertFloppy \/ MarkImage
                 \/ FloppyReset
  PROVE  FInv'
<1>0. /\ image \in Image /\ ram \in Sector
      /\ Ready \in {"READY", "READY_WP"}
  BY DEF FInv, FloppyTypeOK, Ready
<1>1. CASE FillRam
  <2>1. ram' \in Sector
    BY <1>1, WholeIsSector DEF FillRam
  <2>2. FloppyTypeOK' /\ BusyHasDisk' /\ drive'.state # "BUSY" /\ image' = image
    BY <1>1, <2>1 DEF FillRam, FInv, FloppyTypeOK, BusyHasDisk
  <2> QED
    BY <1>0, <2>1, <2>2, RestHolds
<1>2. CASE FloppyPoll
  <2>1. drive' = [drive EXCEPT !.error = drive.error, !.pendingInterrupt = FALSE]
    BY <1>2 DEF FloppyPoll, FInv, FloppyTypeOK
  <2>2. drive.error \in {"NONE", "BUSY", "NO_MEDIA", "PROTECTED", "EJECT",
                         "BAD_SECTOR", "BAD_CHS"}
    BY DEF FInv, FloppyTypeOK
  <2> QED
    BY <1>2, <2>1, <2>2, AnsweredHolds DEF FloppyPoll
<1>3. CASE ejectFloppy
  <2>1. CASE ~drive.floppy
    <3>1. UNCHANGED <<drive, image, ram>>
      BY <1>3, <2>1 DEF ejectFloppy, Ejected
    <3>2. drive'.state # "BUSY" /\ FloppyTypeOK' /\ BusyHasDisk'
      BY <3>1, <2>1 DEF FInv, BusyHasDisk, FloppyTypeOK
    <3> QED
      BY <3>1, <3>2, <1>0, RestHolds
  <2>2. CASE drive.floppy
    <3>1. FloppyTypeOK' /\ BusyHasDisk' /\ drive'.state # "BUSY"
      BY <1>3, <2>2 DEF ejectFloppy, Ejected, FInv, FloppyTypeOK, BusyHasDisk
    <3> QED
      BY <1>3, <3>1, <1>0, RestHolds DEF ejectFloppy
  <2> QED
    BY <2>1, <2>2
<1>4. CASE insertFloppy
  <2>1. FloppyTypeOK' /\ BusyHasDisk' /\ drive'.state # "BUSY"
    BY <1>4, <1>0 DEF insertFloppy, Ejected, FInv, FloppyTypeOK, BusyHasDisk
  <2> QED
    BY <1>4, <2>1, <1>0, RestHolds DEF insertFloppy
<1>5. CASE MarkImage
  BY <1>5, MarkHolds
<1>6. CASE FloppyReset
  <2> DEFINE st == IF drive.floppy THEN Ready ELSE "NO_MEDIA"
  <2>0. /\ st \in {"READY", "READY_WP", "NO_MEDIA"} /\ 0 \in 0 .. Bytes
        /\ 0 \in 0 .. MaxStale + BusyCycles /\ drive.floppy = (st # "NO_MEDIA")
    BY <1>0 DEF FInv, FloppyTypeOK
  <2>1. FloppyTypeOK' /\ BusyHasDisk' /\ drive'.state # "BUSY"
    <3>1. drive' = [drive EXCEPT !.state = st, !.error = "NONE", !.busyCycles = 0,
                      !.lba = 0, !.curPosition = 0, !.pendingInterrupt = FALSE]
      BY <1>6 DEF FloppyReset, ResetDrive
    <3> HIDE DEF st
    <3>2. /\ drive'.state = st /\ drive'.floppy = drive.floppy
      BY <3>1 DEF FInv, FloppyTypeOK
    <3>3. drive' = [floppy |-> drive.floppy, state |-> st, error |-> "NONE",
                    busyCycles |-> 0, lba |-> 0, curPosition |-> 0,
                    writing |-> drive.writing, pendingInterrupt |-> FALSE,
                    buffer |-> drive.buffer, spoiled |-> drive.spoiled]
      BY <3>1 DEF FInv, FloppyTypeOK
    <3>4. FloppyTypeOK'
      BY <3>3, <2>0, <1>6, <1>0 DEF FloppyReset, FInv, FloppyTypeOK
    <3> QED
      BY <3>2, <3>4, <2>0 DEF BusyHasDisk
  <2> QED
    BY <1>6, <2>1, <1>0, RestHolds DEF FloppyReset
<1> QED
  BY <1>1, <1>2, <1>3, <1>4, <1>5, <1>6

LEMMA FloppyStarts == FloppyInit => FInv
<1> SUFFICES ASSUME FloppyInit PROVE FInv
  OBVIOUS
<1>1. (CHOOSE t \in Data : TRUE) \in Data
  OBVIOUS
<1>2. ram \in Sector /\ image \in Image /\ NoTornSector
  BY <1>1, WholeIsSector DEF FloppyInit, Image, NoTornSector
<1>3. 0 \in 0 .. Bytes /\ 0 \in 0 .. MaxStale + BusyCycles
  OBVIOUS
<1>4. FloppyTypeOK
  BY <1>2, <1>3 DEF FloppyInit, FloppyTypeOK
<1>5. BusyHasDisk /\ Transfer
  BY DEF FloppyInit, BusyHasDisk, Transfer
<1> QED
  BY <1>2, <1>4, <1>5 DEF FInv

LEMMA FloppyStep == FInv /\ [FloppyNext]_floppyVars => FInv'
<1> SUFFICES ASSUME FInv, [FloppyNext]_floppyVars PROVE FInv'
  OBVIOUS
<1>1. CASE UNCHANGED floppyVars
  BY <1>1 DEF floppyVars, FInv, FloppyTypeOK, BusyHasDisk, NoTornSector, Transfer,
              WritesRam, ReadsSector, IsWhole
<1>2. CASE FloppyNext
  BY <1>2, CommandHolds, TickHolds, HostHolds DEF FloppyNext
<1> QED
  BY <1>1, <1>2

-----------------------------------------------------------------------------
\* The drive (m5fdd.cpp) keeps its types, and what a transfer has moved so far is
\* what it says, in any order of commands, cycles, disk changes and resets.
THEOREM FloppyInvariant == FloppySpec => []FInv
<1> QED
  BY FloppyStarts, FloppyStep, PTL DEF FloppySpec

\* A drive that transfers has a disk: Tick (m5fdd.cpp) reads its descriptor without
\* a look.
THEOREM TransferHasDisk == FloppySpec => []BusyHasDisk
<1>1. FInv => BusyHasDisk
  BY DEF FInv
<1> QED
  BY <1>1, FloppyInvariant, PTL

\* No reset or disk change in the middle of a write tears a sector (m5fdd.cpp:30).
THEOREM SectorsAreWhole == FloppySpec => []NoTornSector
<1>1. FInv => NoTornSector
  BY DEF FInv
<1> QED
  BY <1>1, FloppyInvariant, PTL

\* A transfer that runs its time (m5fdd.cpp:210) has moved its sector, or as much of it
\* as the time allows, whatever the host and earlier transfers did.
THEOREM TransfersAreWhole == FloppySpec => TransferIsWhole
<1> DEFINE Ends == FloppyTick /\ drive.state = "BUSY" /\ drive'.state # "BUSY"
           Done == /\ drive.curPosition = Bytes \/ drive.curPosition >= BusyCycles
                   /\ drive.curPosition = Bytes /\ ~(drive.writing /\ drive.spoiled) =>
                        image.sectors[drive.lba] = ram
<1>1. ASSUME FInv, Ends PROVE Done
  <2>1. drive.busyCycles = 0
    BY <1>1 DEF FloppyTick, Moved, FInv, FloppyTypeOK
  <2>2. drive.lba \in Lbas /\ InTime(0, drive.curPosition)
    BY <1>1, <2>1 DEF FInv, Transfer
  <2>3. drive.curPosition = Bytes \/ drive.curPosition >= BusyCycles
    BY <1>1, <2>2 DEF InTime, FInv, FloppyTypeOK
  <2>4. ASSUME drive.curPosition = Bytes, ~(drive.writing /\ drive.spoiled)
        PROVE  image.sectors[drive.lba] = ram
    <3>1. image.sectors[drive.lba] \in Sector /\ ram \in Sector /\ drive.buffer \in Sector
      BY <2>2, <1>1 DEF FInv, FloppyTypeOK, Image
    <3>2. IF drive.writing THEN WritesRam ELSE ReadsSector
      BY <1>1 DEF FInv, Transfer
    <3>3. drive.buffer = ram /\ image.sectors[drive.lba] = drive.buffer
      BY <2>4, <3>1, <3>2 DEF WritesRam, ReadsSector, Sector
    <3> QED
      BY <3>3
  <2> QED
    BY <2>3, <2>4
<1>2. FInv /\ [FloppyNext]_floppyVars => [Ends => Done]_floppyVars
  BY <1>1
<1> QED
  BY <1>2, FloppyInvariant, PTL DEF FloppySpec, TransferIsWhole

-----------------------------------------------------------------------------

\* The number of the first byte of a sector on the disk, and the name of a byte.
StartOf(k) == k * SectorSize
NameOf(b) == <<b \div SectorSize, b % SectorSize>>

\* The fields that never change their types.
DiskFields ==
  /\ disk.sectors \in 1 .. MaxSectors /\ disk.i \in 0 .. disk.sectors
  /\ disk.task \in {"copy", "upgrade", "open"} => disk.version = 2

\* A conversion has moved the sectors from i on, and those below i are still where
\* version 1 has them; what lies behind the bitmap of version 2 was never used.
Upgrading ==
  /\ \A b \in 0 .. StartOf(disk.i) - 1 : datafile[OldHeader + b] = NameOf(b)
  /\ \A b \in StartOf(disk.i) .. StartOf(disk.sectors) - 1 :
       datafile[NewHeader + b] = NameOf(b)
  /\ disk.badSectors = Bitmap

Unused == \A o \in Offsets : o > NewHeader + StartOf(disk.sectors) => datafile[o] = Gap

\* A copy has brought the bytes of the first i sectors to their places.
Copying ==
  /\ disk.size <= StartOf(disk.sectors)
  /\ \A b \in 0 .. disk.size - 1 :
       b < StartOf(disk.i) => datafile[NewHeader + b] = NameOf(b)

FileInv ==
  /\ DiskTypeOK /\ DiskFields
  /\ disk.task = "closed" => /\ disk.version = 1 /\ disk.i = disk.sectors
                             /\ datafile = Layout(OldHeader, disk.sectors)
  /\ disk.task = "upgrade" => Upgrading /\ Unused
  /\ disk.task = "open" =>
       \A o \in Offsets :
         o >= NewHeader => datafile[o] = Layout(NewHeader, disk.sectors)[o]
  /\ disk.task = "copy" => Copying

USE HeaderAssumption

-----------------------------------------------------------------------------
\* Sectors follow one another.
LEMMA Starts ==
  /\ StartOf(0) = 0
  /\ \A k \in Nat : StartOf(k) \in Nat /\ StartOf(k + 1) = StartOf(k) + SectorSize
  /\ \A j, k \in Nat : j <= k => StartOf(j) <= StartOf(k)
<1>1. ASSUME NEW j \in Nat, NEW k \in Nat, j <= k PROVE j * SectorSize <= k * SectorSize
  BY <1>1
<1>2. ASSUME NEW k \in Nat
      PROVE  k * SectorSize \in Nat /\ (k + 1) * SectorSize = k * SectorSize + SectorSize
  OBVIOUS
<1>3. 0 * SectorSize = 0
  OBVIOUS
<1> QED
  BY <1>1, <1>2, <1>3 DEF StartOf

\* Division finds the sector and the place of a byte.
LEMMA Division ==
  ASSUME NEW b \in Nat
  PROVE  /\ b \div SectorSize \in Nat /\ b % SectorSize \in Places
         /\ b = StartOf(b \div SectorSize) + (b % SectorSize)
<1>1. /\ b \div SectorSize \in Nat /\ b % SectorSize \in 0 .. SectorSize - 1
      /\ b = SectorSize * (b \div SectorSize) + (b % SectorSize)
  OBVIOUS
<1> QED
  BY <1>1 DEF StartOf, Places

LEMMA NameOfByte ==
  ASSUME NEW k \in Nat, NEW p \in Places
  PROVE  NameOf(StartOf(k) + p) = <<k, p>>
<1> DEFINE b == StartOf(k) + p
           q == b \div SectorSize
           r == b % SectorSize
<1>0. StartOf(k) \in Nat
  BY Starts
<1>1. b \in Nat /\ p \in Nat /\ p < SectorSize
  BY <1>0 DEF Places
<1>2. q \in Nat /\ r \in Places /\ b = StartOf(q) + r
  BY <1>1, Division
<1>3. r \in Nat /\ r < SectorSize
  BY <1>2 DEF Places
<1> HIDE DEF q, r
<1>4. StartOf(k) + p = StartOf(q) + r
  BY <1>2
<1>5. ~(q + 1 <= k)
  <2>1. ASSUME q + 1 <= k PROVE FALSE
    <3>1. StartOf(q) + SectorSize <= StartOf(k) /\ StartOf(q) \in Nat /\ StartOf(k) \in Nat
      BY <1>2, <2>1, Starts
    <3> QED
      BY <3>1, <1>1, <1>3, <1>4
  <2> QED
    BY <2>1
<1>6. ~(k + 1 <= q)
  <2>1. ASSUME k + 1 <= q PROVE FALSE
    <3>1. StartOf(k) + SectorSize <= StartOf(q) /\ StartOf(q) \in Nat /\ StartOf(k) \in Nat
      BY <1>2, <2>1, Starts
    <3> QED
      BY <3>1, <1>1, <1>3, <1>4
  <2> QED
    BY <2>1
<1>7. q = k
  BY <1>2, <1>5, <1>6
<1>8. r = p
  BY <1>0, <1>1, <1>3, <1>4, <1>7
<1> QED
  BY <1>7, <1>8 DEF NameOf, q, r

\* A byte of the disk is a cell.
LEMMA NamesAreCells ==
  ASSUME NEW n \in 1 .. MaxSectors, NEW b \in 0 .. StartOf(n) - 1
  PROVE  NameOf(b) \in Cell
<1> DEFINE q == b \div SectorSize
           r == b % SectorSize
<1>1. b \in Nat /\ b < StartOf(n)
  BY Starts
<1>2. q \in Nat /\ r \in Places /\ b = StartOf(q) + r
  BY <1>1, Division
<1> HIDE DEF q, r
<1>3. ~(n <= q)
  BY <1>1, <1>2, Starts DEF Places
<1> QED
  BY <1>2, <1>3 DEF NameOf, Cell, q, r

\* Where the parts of an image of n sectors are.
LEMMA LayoutFacts ==
  ASSUME NEW n \in 1 .. MaxSectors, NEW first \in {OldHeader, NewHeader}
  PROVE  /\ Layout(first, n) \in [Offsets -> Cell]
         /\ first + StartOf(n) \in Offsets
         /\ Layout(first, n)[first + StartOf(n)] = Bitmap
         /\ \A b \in 0 .. StartOf(n) - 1 :
              first + b \in Offsets /\ Layout(first, n)[first + b] = NameOf(b)
         /\ \A o \in Offsets : o > first + StartOf(n) => Layout(first, n)[o] = Gap
<1>0. n \in Nat /\ MaxSectors \in Nat /\ n <= MaxSectors
  OBVIOUS
<1>1. /\ first \in Nat /\ first <= NewHeader /\ StartOf(n) \in Nat
      /\ StartOf(n) <= StartOf(MaxSectors) /\ StartOf(MaxSectors) \in Nat
  <2>1. StartOf(n) \in Nat /\ StartOf(MaxSectors) \in Nat
          /\ StartOf(n) <= StartOf(MaxSectors)
    BY <1>0, Starts
  <2> QED
    BY <2>1
<1>2. Offsets = 0 .. NewHeader + StartOf(MaxSectors)
  BY DEF Offsets, StartOf
<1>3. Layout(first, n) =
        [o \in Offsets |->
           IF o = first + StartOf(n) THEN Bitmap
           ELSE IF o >= first /\ o < first + StartOf(n) THEN NameOf(o - first) ELSE Gap]
  BY DEF Layout, StartOf, NameOf
<1>4. ASSUME NEW o \in Offsets
      PROVE  (IF o = first + StartOf(n) THEN Bitmap
              ELSE IF o >= first /\ o < first + StartOf(n) THEN NameOf(o - first)
              ELSE Gap) \in Cell
  <2>1. Gap \in Cell /\ Bitmap \in Cell
    BY DEF Cell
  <2>2. ASSUME o >= first, o < first + StartOf(n) PROVE NameOf(o - first) \in Cell
    <3>1. o - first \in 0 .. StartOf(n) - 1
      BY <1>1, <1>2, <2>2
    <3> QED
      BY <3>1, NamesAreCells
  <2> QED
    BY <2>1, <2>2
<1>5. first + StartOf(n) \in Offsets
  BY <1>1, <1>2
<1>6. \A b \in 0 .. StartOf(n) - 1 :
        /\ first + b \in Offsets /\ first + b >= first /\ first + b < first + StartOf(n)
        /\ first + b # first + StartOf(n) /\ first + b - first = b
  BY <1>1, <1>2
<1>7. \A o \in Offsets : o > first + StartOf(n) =>
        o # first + StartOf(n) /\ ~(o < first + StartOf(n))
  BY <1>1, <1>2
<1>8. Layout(first, n) \in [Offsets -> Cell]
  BY <1>3, <1>4
<1> HIDE DEF Layout
<1> QED
  BY <1>3, <1>5, <1>6, <1>7, <1>8

\* What the steps need to know of the state.
LEMMA DiskFacts ==
  ASSUME FileInv
  PROVE  /\ disk.sectors \in 1 .. MaxSectors /\ disk.i \in Nat /\ disk.i <= disk.sectors
         /\ datafile \in [Offsets -> Cell] /\ disk.buffer \in [Places -> Cell]
         /\ StartOf(disk.i) \in Nat /\ StartOf(disk.sectors) \in Nat
         /\ StartOf(disk.i) <= StartOf(disk.sectors) /\ disk.size \in Nat
         /\ \A b \in 0 .. StartOf(disk.sectors) :
              OldHeader + b \in Offsets /\ NewHeader + b \in Offsets
         /\ offset_bitmap(disk) = makeOffsets(disk.version) + StartOf(disk.sectors)
         /\ disk = [task |-> disk.task, version |-> disk.version, sectors |-> disk.sectors,
                    i |-> disk.i, badSectors |-> disk.badSectors, size |-> disk.size,
                    buffer |-> disk.buffer]
<1>1. /\ disk.sectors \in 1 .. MaxSectors /\ disk.i \in Nat /\ disk.i <= disk.sectors
      /\ disk.sectors \in Nat /\ MaxSectors \in Nat
  BY DEF FileInv, DiskFields
<1>2. /\ StartOf(disk.i) \in Nat /\ StartOf(disk.sectors) \in Nat
      /\ StartOf(MaxSectors) \in Nat /\ StartOf(disk.i) <= StartOf(disk.sectors)
      /\ StartOf(disk.sectors) <= StartOf(MaxSectors)
  <2>1. disk.sectors <= MaxSectors
    BY <1>1
  <2> QED
    BY <1>1, <2>1, Starts
<1>3. \A b \in 0 .. StartOf(disk.sectors) :
        OldHeader + b \in Offsets /\ NewHeader + b \in Offsets
  <2>1. Offsets = 0 .. NewHeader + StartOf(MaxSectors)
    BY DEF Offsets, StartOf
  <2> QED
    BY <1>2, <2>1
<1>4. /\ datafile \in [Offsets -> Cell] /\ disk.buffer \in [Places -> Cell]
      /\ disk.size \in Nat
      /\ disk = [task |-> disk.task, version |-> disk.version, sectors |-> disk.sectors,
                 i |-> disk.i, badSectors |-> disk.badSectors, size |-> disk.size,
                 buffer |-> disk.buffer]
  BY DEF FileInv, DiskTypeOK
<1>5. offset_bitmap(disk) = makeOffsets(disk.version) + StartOf(disk.sectors)
  BY DEF offset_bitmap, StartOf
<1> QED
  BY <1>1, <1>2, <1>3, <1>4, <1>5

\* The record of a disk has its types.
LEMMA DiskRecord ==
  ASSUME NEW t \in {"closed", "upgrade", "open", "copy"}, NEW v \in 1 .. 2,
         NEW n \in 1 .. MaxSectors, NEW k \in 0 .. n, NEW c \in Cell,
         NEW m \in 0 .. MaxSectors * SectorSize, NEW buf \in [Places -> Cell]
  PROVE  [task |-> t, version |-> v, sectors |-> n, i |-> k, badSectors |-> c,
          size |-> m, buffer |-> buf]
            \in [task : {"closed", "upgrade", "open", "copy"}, version : 1 .. 2,
                 sectors : 1 .. MaxSectors, i : 0 .. MaxSectors, badSectors : Cell,
                 size : 0 .. MaxSectors * SectorSize, buffer : [Places -> Cell]]
<1>1. k \in 0 .. MaxSectors
  OBVIOUS
<1> QED
  BY <1>1

-----------------------------------------------------------------------------
\* Opening finds the bitmap where version 1 has it.
LEMMA OpenMediaKeeps == FileInv /\ OpenMedia => FileInv'
<1> SUFFICES ASSUME FileInv, OpenMedia PROVE FileInv'
  OBVIOUS
<1> DEFINE n == disk.sectors
<1>1. /\ disk.version = 1 /\ disk.i = n /\ datafile = Layout(OldHeader, n)
      /\ n \in 1 .. MaxSectors /\ datafile' = datafile
  BY DiskFacts DEF FileInv, OpenMedia
<1>2. /\ datafile[OldHeader + StartOf(n)] = Bitmap
      /\ \A b \in 0 .. StartOf(n) - 1 : datafile[OldHeader + b] = NameOf(b)
      /\ \A o \in Offsets : o > OldHeader + StartOf(n) => datafile[o] = Gap
  BY <1>1, LayoutFacts
<1>3. disk' = [task |-> "upgrade", version |-> 2, sectors |-> n, i |-> n,
               badSectors |-> Bitmap, size |-> disk.size, buffer |-> disk.buffer]
  <2>1. datafile[offset_bitmap(disk)] = Bitmap
    BY <1>1, <1>2, DiskFacts DEF makeOffsets
  <2> QED
    BY <1>1, <2>1, DiskFacts DEF OpenMedia
<1>4. Upgrading'
  <2>1. \A b \in StartOf(n) .. StartOf(n) - 1 : FALSE
    BY DiskFacts
  <2> QED
    BY <1>1, <1>2, <1>3, <2>1 DEF Upgrading
<1>5. Unused'
  <2>1. ASSUME NEW o \in Offsets, o > NewHeader + StartOf(n) PROVE datafile[o] = Gap
    <3>1. o \in Int /\ StartOf(n) \in Nat
      BY DiskFacts DEF Offsets
    <3>2. o > OldHeader + StartOf(n)
      BY <2>1, <3>1
    <3> QED
      BY <1>2, <3>2
  <2> QED
    BY <1>1, <1>3, <2>1 DEF Unused
<1>6. DiskTypeOK'
  <2>1. Bitmap \in Cell /\ disk.size \in 0 .. MaxSectors * SectorSize
    BY DEF Cell, FileInv, DiskTypeOK
  <2>2. n \in 0 .. n
    BY <1>1
  <2> QED
    BY <1>1, <1>3, <2>1, <2>2, DiskFacts, DiskRecord DEF DiskTypeOK
<1> QED
  BY <1>1, <1>3, <1>4, <1>5, <1>6, DiskFacts DEF FileInv, DiskFields

\* A sector is moved: its old place is still whole, for the sectors moved before it
\* went to higher offsets, and its new place lies below theirs.
LEMMA MoveKeeps == FileInv /\ MoveSector => FileInv'
<1> SUFFICES ASSUME FileInv, MoveSector PROVE FileInv'
  OBVIOUS
<1> DEFINE n == disk.sectors
           at == StartOf(disk.i - 1)
           end == StartOf(disk.i)
           old(b) == datafile[OldHeader + b]
<1>1. /\ disk.i > 0 /\ disk.i \in Nat /\ disk.i - 1 \in Nat /\ disk.version = 2
      /\ Upgrading /\ Unused /\ disk.task = "upgrade"
  BY DiskFacts DEF FileInv, MoveSector, DiskFields
<1>2. /\ at \in Nat /\ end = at + SectorSize /\ end <= StartOf(n) /\ StartOf(n) \in Nat
  <2>1. (disk.i - 1) + 1 = disk.i
    BY <1>1
  <2> QED
    BY <1>1, <2>1, Starts, DiskFacts
<1>3. at = NextSector(disk) * SectorSize
  BY DEF NextSector, StartOf
<1> HIDE DEF at, end
<1>4. disk' = [task |-> "upgrade", version |-> 2, sectors |-> n, i |-> disk.i - 1,
               badSectors |-> disk.badSectors, size |-> disk.size, buffer |-> disk.buffer]
  BY <1>1, DiskFacts DEF MoveSector
<1>5. datafile' = [o \in Offsets |->
                     IF o - NewHeader - at \in Places
                     THEN [p \in Places |-> datafile[OldHeader + at + p]][o - NewHeader - at]
                     ELSE datafile[o]]
  BY <1>3 DEF MoveSector
<1>6. \A o \in Offsets :
        datafile'[o] = IF o >= NewHeader + at /\ o < NewHeader + end
                       THEN old(o - NewHeader) ELSE datafile[o]
  <2> SUFFICES ASSUME NEW o \in Offsets
               PROVE  datafile'[o] = IF o >= NewHeader + at /\ o < NewHeader + end
                                     THEN old(o - NewHeader) ELSE datafile[o]
    OBVIOUS
  <2>1. o \in Int /\ (o - NewHeader - at \in Places
                      <=> o >= NewHeader + at /\ o < NewHeader + end)
    BY <1>2 DEF Offsets, Places
  <2>2. OldHeader + at + (o - NewHeader - at) = OldHeader + (o - NewHeader)
    BY <1>2, <2>1
  <2> QED
    BY <1>5, <2>1, <2>2
<1>7. datafile' \in [Offsets -> Cell]
  <2>1. DOMAIN datafile' = Offsets /\ datafile' = [o \in Offsets |-> datafile'[o]]
    BY <1>5
  <2>2. ASSUME NEW o \in Offsets PROVE datafile'[o] \in Cell
    <3>1. CASE o >= NewHeader + at /\ o < NewHeader + end
      <4>1. o - NewHeader \in 0 .. StartOf(n)
        BY <1>2, <3>1 DEF Offsets
      <4>2. old(o - NewHeader) \in Cell
        BY <4>1, DiskFacts
      <4> QED
        BY <1>6, <3>1, <4>2
    <3>2. CASE ~(o >= NewHeader + at /\ o < NewHeader + end)
      BY <1>6, <3>2, DiskFacts
    <3> QED
      BY <3>1, <3>2
  <2> QED
    BY <2>1, <2>2
<1>8. Upgrading'
  <2>1. ASSUME NEW b \in 0 .. at - 1 PROVE datafile'[OldHeader + b] = NameOf(b)
    <3>1. /\ b \in 0 .. StartOf(n) /\ b \in 0 .. end - 1
          /\ ~(OldHeader + b >= NewHeader + at)
      BY <1>2
    <3> QED
      BY <1>1, <1>6, <3>1, DiskFacts DEF Upgrading, end
  <2>2. ASSUME NEW b \in at .. StartOf(n) - 1 PROVE datafile'[NewHeader + b] = NameOf(b)
    <3>1. b \in 0 .. StartOf(n) /\ NewHeader + b \in Offsets /\ NewHeader + b - NewHeader = b
            /\ NewHeader + b >= NewHeader + at
      BY <1>2, DiskFacts
    <3>2. CASE b < end
      <4>1. b \in 0 .. end - 1 /\ NewHeader + b < NewHeader + end
        BY <1>2, <3>1, <3>2
      <4>2. old(b) = NameOf(b)
        BY <1>1, <4>1 DEF Upgrading, end
      <4> QED
        BY <1>6, <3>1, <4>1, <4>2
    <3>3. CASE ~(b < end)
      <4>1. b \in end .. StartOf(n) - 1 /\ ~(NewHeader + b < NewHeader + end)
        BY <1>2, <3>3
      <4> QED
        BY <1>1, <1>6, <3>1, <4>1 DEF Upgrading, end
    <3> QED
      BY <3>2, <3>3
  <2> QED
    BY <1>1, <1>4, <2>1, <2>2 DEF Upgrading, at
<1>9. Unused'
  <2>1. ASSUME NEW o \in Offsets, o > NewHeader + StartOf(n) PROVE datafile'[o] = Gap
    <3>1. ~(o < NewHeader + end)
      BY <1>2, <2>1 DEF Offsets
    <3> QED
      BY <1>1, <1>6, <2>1, <3>1 DEF Unused
  <2> QED
    BY <1>4, <2>1 DEF Unused
<1>10. DiskTypeOK'
  <2>1. /\ disk.badSectors \in Cell /\ disk.size \in 0 .. MaxSectors * SectorSize
        /\ disk.i - 1 \in 0 .. n
    BY <1>1, DiskFacts DEF FileInv, DiskTypeOK
  <2> QED
    BY <1>4, <1>7, <2>1, DiskFacts, DiskRecord DEF DiskTypeOK
<1>11. DiskFields'
  BY <1>1, <1>4, DiskFacts DEF DiskFields
<1> QED
  BY <1>4, <1>8, <1>9, <1>10, <1>11 DEF FileInv

\* The bitmap is written behind the last sector.
LEMMA FinishKeeps == FileInv /\ FinishUpgrade => FileInv'
<1> SUFFICES ASSUME FileInv, FinishUpgrade PROVE FileInv'
  OBVIOUS
<1> DEFINE n == disk.sectors
           map == NewHeader + StartOf(n)
<1>1. /\ disk.i = 0 /\ Upgrading /\ Unused /\ disk.version = 2 /\ disk.badSectors = Bitmap
      /\ n \in 1 .. MaxSectors /\ StartOf(n) \in Nat
  BY DiskFacts DEF FileInv, FinishUpgrade, DiskFields, Upgrading
<1>2. disk' = [task |-> "open", version |-> 2, sectors |-> n, i |-> 0,
               badSectors |-> disk.badSectors, size |-> disk.size, buffer |-> disk.buffer]
  BY <1>1, DiskFacts DEF FinishUpgrade
<1>3. datafile' = [datafile EXCEPT ![map] = Bitmap] /\ map \in Offsets
  BY <1>1, DiskFacts DEF FinishUpgrade, makeOffsets
<1>4. \A o \in Offsets : datafile'[o] = IF o = map THEN Bitmap ELSE datafile[o]
  BY <1>3, DiskFacts
<1>5. ASSUME NEW o \in Offsets, o >= NewHeader
      PROVE  datafile'[o] = Layout(NewHeader, n)[o]
  <2>0. o \in Int /\ map \in Int
    BY <1>1 DEF Offsets
  <2>1. CASE o = map
    BY <1>1, <1>4, <2>1, LayoutFacts
  <2>2. CASE o > map
    BY <1>1, <1>4, <2>0, <2>2, LayoutFacts DEF Unused
  <2>3. CASE o < map
    <3> DEFINE b == o - NewHeader
    <3>1. b \in 0 .. StartOf(n) - 1 /\ NewHeader + b = o /\ o # map
      BY <1>1, <1>5, <2>0, <2>3
    <3> HIDE DEF b
    <3>2. StartOf(disk.i) = 0
      BY <1>1, Starts
    <3>3. datafile[NewHeader + b] = NameOf(b)
      BY <1>1, <3>1, <3>2 DEF Upgrading
    <3>4. Layout(NewHeader, n)[NewHeader + b] = NameOf(b)
      BY <1>1, <3>1, LayoutFacts
    <3> QED
      BY <1>4, <3>1, <3>3, <3>4
  <2> QED
    BY <2>0, <2>1, <2>2, <2>3
<1>6. DiskTypeOK'
  <2>1. Bitmap \in Cell /\ disk.size \in 0 .. MaxSectors * SectorSize /\ 0 \in 0 .. n
    BY <1>1 DEF Cell, FileInv, DiskTypeOK
  <2>2. datafile' \in [Offsets -> Cell]
    BY <1>3, <2>1, DiskFacts
  <2> QED
    BY <1>1, <1>2, <2>1, <2>2, DiskFacts, DiskRecord DEF DiskTypeOK
<1>7. DiskFields'
  BY <1>1, <1>2 DEF DiskFields
<1> QED
  BY <1>2, <1>5, <1>6, <1>7 DEF FileInv

-----------------------------------------------------------------------------
\* makedisk begins with an image that holds nothing.
LEMMA CreateKeeps == FileInv /\ CreateMedia => FileInv'
<1> SUFFICES ASSUME FileInv, CreateMedia PROVE FileInv'
  OBVIOUS
<1> DEFINE n == disk.sectors
<1>1. PICK size \in 0 .. n * SectorSize :
        disk' = [disk EXCEPT !.task = "copy", !.version = 2, !.i = 0, !.size = size]
  BY DEF CreateMedia
<1>2. /\ n \in 1 .. MaxSectors /\ StartOf(n) \in Nat /\ StartOf(n) <= StartOf(MaxSectors)
      /\ StartOf(MaxSectors) \in Nat /\ n \in Nat /\ MaxSectors \in Nat /\ n <= MaxSectors
  <2>1. n \in 1 .. MaxSectors /\ n \in Nat /\ MaxSectors \in Nat /\ n <= MaxSectors
    BY DiskFacts
  <2> QED
    BY <2>1, Starts
<1>3. /\ size \in Nat /\ size <= StartOf(n) /\ size \in 0 .. MaxSectors * SectorSize
      /\ 0 \in 0 .. n
  BY <1>2 DEF StartOf
<1>4. disk' = [task |-> "copy", version |-> 2, sectors |-> n, i |-> 0,
               badSectors |-> disk.badSectors, size |-> size, buffer |-> disk.buffer]
  BY <1>1, DiskFacts
<1>5. datafile' \in [Offsets -> Cell]
  <2>1. Bitmap \in Cell /\ Gap \in Cell
    BY DEF Cell
  <2> QED
    BY <2>1 DEF CreateMedia
<1>6. DiskTypeOK'
  <2>1. disk.badSectors \in Cell
    BY DEF FileInv, DiskTypeOK
  <2> QED
    BY <1>2, <1>3, <1>4, <1>5, <2>1, DiskFacts, DiskRecord DEF DiskTypeOK
<1>7. DiskFields'
  BY <1>2, <1>3, <1>4 DEF DiskFields
<1>8. Copying'
  <2>1. ASSUME NEW b \in 0 .. size - 1 PROVE ~(b < StartOf(0))
    BY Starts
  <2> QED
    BY <1>3, <1>4, <2>1 DEF Copying
<1> QED
  BY <1>4, <1>6, <1>7, <1>8 DEF FileInv

\* One more sector of the raw file is in its place.
LEMMA CopyKeeps == FileInv /\ CopySector => FileInv'
<1> SUFFICES ASSUME FileInv, CopySector PROVE FileInv'
  OBVIOUS
<1> DEFINE n == disk.sectors
           k == disk.i
           at == StartOf(k)
           end == StartOf(k + 1)
           sector == [p \in Places |-> IF at + p < disk.size THEN <<k, p>> ELSE disk.buffer[p]]
<1>1. /\ k \in Nat /\ n \in 1 .. MaxSectors /\ disk.size \in Nat /\ disk.version = 2
      /\ Copying /\ disk.task = "copy" /\ disk.badSectors \in Cell
      /\ disk.size \in 0 .. MaxSectors * SectorSize
  BY DiskFacts DEF FileInv, CopySector, DiskFields, DiskTypeOK
<1>2. k < n
  <2>1. top_sector(disk) <= n
    <3>1. disk.size \div SectorSize \in Nat
      BY <1>1, Division
    <3> QED
      BY <1>1, <3>1 DEF top_sector
  <2>2. k < top_sector(disk) /\ top_sector(disk) \in Int
    <3>1. disk.size \div SectorSize \in Nat
      BY <1>1, Division
    <3> QED
      BY <1>1, <3>1 DEF top_sector, CopySector
  <2> QED
    BY <1>1, <2>1, <2>2
<1>3. at \in Nat /\ end = at + SectorSize
  BY <1>1, Starts
<1>4. /\ datafile' = [o \in Offsets |-> IF o - (NewHeader + at) \in Places
                                        THEN sector[o - (NewHeader + at)] ELSE datafile[o]]
      /\ disk' = [disk EXCEPT !.i = @ + 1, !.buffer = sector]
  BY DEF CopySector, StartOf
<1>5. sector \in [Places -> Cell]
  <2>1. ASSUME NEW p \in Places PROVE <<k, p>> \in Cell
    BY <1>1, <1>2 DEF Cell
  <2> QED
    BY <2>1, DiskFacts
<1>6. disk' = [task |-> "copy", version |-> 2, sectors |-> n, i |-> k + 1,
               badSectors |-> disk.badSectors, size |-> disk.size, buffer |-> sector]
  BY <1>1, <1>4, DiskFacts
<1> HIDE DEF at, end
<1>7. datafile' \in [Offsets -> Cell]
  <2> HIDE DEF sector
  <2> QED
    BY <1>4, <1>5, DiskFacts
<1>8. DiskTypeOK'
  <2>1. k + 1 \in 0 .. n
    BY <1>1, <1>2
  <2> HIDE DEF sector
  <2> QED
    BY <1>1, <1>5, <1>6, <1>7, <2>1, DiskRecord DEF DiskTypeOK
<1>9. DiskFields'
  BY <1>1, <1>2, <1>6 DEF DiskFields
<1>10. ASSUME NEW o \in Offsets, NEW d, d = o - (NewHeader + at)
       PROVE  /\ d \in Places => datafile'[o] = sector[d]
              /\ d \notin Places => datafile'[o] = datafile[o]
  <2> HIDE DEF sector
  <2> QED
    BY <1>4, <1>10
<1>11. ASSUME NEW b \in 0 .. disk.size - 1, b < end
       PROVE  datafile'[NewHeader + b] = NameOf(b)
  <2>1. NewHeader + b \in Offsets
    <3>1. b \in 0 .. StartOf(n)
      BY <1>1, DiskFacts DEF Copying
    <3> QED
      BY <3>1, DiskFacts
  <2>2. CASE b < at
    <3> DEFINE d == NewHeader + b - (NewHeader + at)
    <3>1. d \notin Places
      BY <1>3, <2>2 DEF Places
    <3>2. datafile[NewHeader + b] = NameOf(b)
      BY <1>1, <2>2 DEF Copying, at
    <3> DEFINE o == NewHeader + b
    <3>3. o \in Offsets
      BY <2>1
    <3>4. d = o - (NewHeader + at)
      BY <1>3
    <3>5. datafile[o] = NameOf(b)
      BY <3>2
    <3>6. SUFFICES datafile'[o] = NameOf(b)
      OBVIOUS
    <3> HIDE DEF d, o, sector
    <3> QED
      BY <1>10, <3>1, <3>3, <3>5, <3>4
  <2>3. CASE ~(b < at)
    <3> DEFINE p == b - at
    <3>1. p \in Places /\ NewHeader + b - (NewHeader + at) = p /\ at + p = b /\ at + p < disk.size
      BY <1>1, <1>3, <1>11, <2>3 DEF Places
    <3>2. sector[p] = <<k, p>>
      BY <3>1
    <3>3. NameOf(at + p) = <<k, p>>
      BY <1>1, <3>1, NameOfByte DEF at
    <3> HIDE DEF p, sector
    <3> QED
      BY <1>3, <1>10, <2>1, <3>1, <3>2, <3>3
  <2> QED
    BY <2>2, <2>3
<1>12. Copying'
  <2> HIDE DEF sector
  <2> QED
    BY <1>1, <1>6, <1>11 DEF Copying, end
<1> QED
  BY <1>6, <1>8, <1>9, <1>12 DEF FileInv

-----------------------------------------------------------------------------
\* A conversion and a copy leave each byte either where it was or where it goes.
THEOREM FileInvariant == DiskSpec => []FileInv
<1>1. DiskInit => FileInv
  <2> SUFFICES ASSUME DiskInit PROVE FileInv
    OBVIOUS
  <2>1. PICK n \in 1 .. MaxSectors :
          /\ datafile = Layout(OldHeader, n)
          /\ disk = [task |-> "closed", version |-> 1, sectors |-> n, i |-> n,
                     badSectors |-> Gap, size |-> 0, buffer |-> [p \in Places |-> Gap]]
    BY DEF DiskInit
  <2>2. Gap \in Cell /\ [p \in Places |-> Gap] \in [Places -> Cell]
    BY DEF Cell
  <2>3. 0 \in 0 .. MaxSectors * SectorSize /\ n \in 0 .. n
    <3>1. StartOf(MaxSectors) \in Nat
      BY Starts
    <3> QED
      BY <3>1 DEF StartOf
  <2>4. DiskTypeOK
    BY <2>1, <2>2, <2>3, LayoutFacts, DiskRecord DEF DiskTypeOK
  <2> QED
    BY <2>1, <2>3, <2>4 DEF FileInv, DiskFields
<1>2. FileInv /\ [DiskNext]_diskVars => FileInv'
  <2> SUFFICES ASSUME FileInv, [DiskNext]_diskVars PROVE FileInv'
    OBVIOUS
  <2>1. CASE UNCHANGED diskVars
    BY <2>1 DEF diskVars, FileInv, DiskTypeOK, DiskFields, Upgrading, Unused, Copying
  <2>2. CASE DiskNext
    BY <2>2, OpenMediaKeeps, MoveKeeps, FinishKeeps, CreateKeeps, CopyKeeps DEF DiskNext
  <2> QED
    BY <2>1, <2>2
<1> QED
  BY <1>1, <1>2, PTL DEF DiskSpec

\* A conversion ends with every byte and the bitmap where version 2 looks for them, a
\* copy with every byte of the raw file in its place, for any image.
THEOREM DataIsKept == DiskSpec => []ImageKeepsData
<1>1. FileInv => ImageKeepsData
  <2> SUFFICES ASSUME FileInv, disk.task = "copy", disk.i = top_sector(disk),
                      NEW b \in 0 .. disk.size - 1
               PROVE  datafile[NewHeader + b] = NameOf(b)
    BY DEF ImageKeepsData, FileInv, NameOf
  <2> DEFINE q == disk.size \div SectorSize
             r == disk.size % SectorSize
  <2>1. q \in Nat /\ r \in Places /\ disk.size = StartOf(q) + r /\ disk.size \in Nat
    BY DiskFacts, Division
  <2>2. disk.i = q + 1 \/ disk.i = disk.sectors
    BY DEF top_sector
  <2>3. disk.size <= StartOf(disk.i)
    <3>1. StartOf(q + 1) = StartOf(q) + SectorSize /\ StartOf(q) \in Nat
      BY <2>1, Starts
    <3> HIDE DEF q, r
    <3> QED
      BY <2>1, <2>2, <3>1 DEF FileInv, Copying, Places
  <2> QED
    BY <2>1, <2>3, DiskFacts DEF FileInv, Copying
<1> QED
  BY <1>1, FileInvariant, PTL

-----------------------------------------------------------------------------
\* Two numbers of two digits, low digit below P, are equal only digit by digit.
LEMMA DigitsApart ==
  ASSUME NEW P \in Nat, NEW a \in Nat, NEW b \in Nat, NEW c \in Nat, NEW d \in Nat,
         b < P, d < P, a * P + b = c * P + d
  PROVE  a = c /\ b = d
<1>1. ASSUME NEW x \in Nat, NEW y \in Nat, x < y PROVE x * P + P <= y * P
  <2>1. y - x - 1 \in Nat /\ y = x + 1 + (y - x - 1)
    BY <1>1
  <2>2. (y - x - 1) * P \in Nat /\ x * P \in Nat
    BY <2>1
  <2>3. y * P = x * P + P + (y - x - 1) * P
    BY <2>1
  <2> QED
    BY <2>2, <2>3
<1>2. a * P \in Nat /\ c * P \in Nat
  OBVIOUS
<1>3. ~(a < c)
  <2>1. a < c => a * P + P <= c * P
    BY <1>1
  <2> QED
    BY <1>2, <2>1
<1>4. ~(c < a)
  <2>1. c < a => c * P + P <= a * P
    BY <1>1
  <2> QED
    BY <1>2, <2>1
<1>5. a = c
  BY <1>3, <1>4
<1> QED
  BY <1>2, <1>5

\* ... and below a third digit.
LEMMA DigitsBelow ==
  ASSUME NEW P \in Nat, NEW n \in Nat, NEW a \in Nat, NEW b \in Nat, a < n, b < P
  PROVE  a * P + b < n * P
<1>1. n - a - 1 \in Nat /\ n = a + 1 + (n - a - 1)
  OBVIOUS
<1>2. (n - a - 1) * P \in Nat /\ a * P \in Nat
  BY <1>1
<1>3. n * P = a * P + P + (n - a - 1) * P
  BY <1>1
<1> QED
  BY <1>2, <1>3

\* A number below m * P has a first digit below m and a second below P.
LEMMA DigitsOf ==
  ASSUME NEW P \in Nat, NEW m \in Nat, NEW n \in Nat, n < m * P
  PROVE  /\ P # 0 /\ n \div P \in Nat /\ n \div P < m
         /\ n % P \in Nat /\ n % P < P /\ n = (n \div P) * P + (n % P)
<1>1. P # 0
  OBVIOUS
<1>2. n \div P \in Nat /\ n % P \in 0 .. P - 1 /\ n = (n \div P) * P + (n % P)
  BY <1>1
<1> DEFINE q == n \div P
           r == n % P
<1>3. q \in Nat /\ r \in Nat /\ r < P /\ n = q * P + r
  BY <1>2
<1> HIDE DEF q, r
<1>4. ~(m <= q)
  <2> SUFFICES ASSUME m <= q PROVE FALSE
    OBVIOUS
  <2>1. q - m \in Nat /\ q = m + (q - m)
    BY <1>3
  <2>2. (q - m) * P \in Nat /\ m * P \in Nat
    BY <2>1
  <2>3. q * P = m * P + (q - m) * P
    BY <1>3, <2>1
  <2> QED
    BY <1>3, <2>2, <2>3
<1>5. q < m
  BY <1>3, <1>4
<1> QED
  BY <1>1, <1>3, <1>5 DEF q, r

\* For every geometry, no two addresses of a disk share a sector of the image, none is
\* past its end, where the bitmap of bad sectors begins, and none but the last of each
\* track is without an address.
THEOREM AddressesAreApart == SectorsApart
<1> SUFFICES ASSUME NEW g \in Descriptors
             PROVE  LET Lba(x) == CHStoLBA(g, x[1], x[2], x[3])
                        Valid == {x \in Chs(g) : Lba(x) >= 0}
                    IN  /\ \A x \in Valid : Lba(x) < getTotalSectors(g)
                        /\ \A x, y \in Valid : Lba(x) = Lba(y) => x = y
                        /\ \A l \in 0 .. getTotalSectors(g) - 1 :
                             (\E x \in Valid : Lba(x) = l)
                               <=> l % g.SectorsPerTrack # g.SectorsPerTrack - 1
  BY DEF SectorsApart
<1> DEFINE S == g.NumSides
           T == g.TracksPerSide
           P == g.SectorsPerTrack
           Lba(x) == CHStoLBA(g, x[1], x[2], x[3])
           Valid == {x \in Chs(g) : Lba(x) >= 0}
           track(x) == x[1] * S + x[2]
<1>1. S \in Nat /\ T \in Nat /\ P \in Nat
  BY GeometryAssumption
<1>2. ASSUME NEW x \in Valid
      PROVE  /\ x = <<x[1], x[2], x[3]>>
             /\ x[1] \in Nat /\ x[2] \in Nat /\ x[3] \in Nat /\ x[3] - 1 \in Nat
             /\ x[1] < T /\ x[2] < S /\ x[3] - 1 < P /\ x[3] - 1 # P - 1
             /\ Lba(x) = track(x) * P + x[3] - 1
  <2>1. x \in (0 .. T) \X (0 .. S) \X (0 .. P + 1)
    BY DEF Chs
  <2>2. ~BadChs(g, x[1], x[2], x[3])
    BY DEF CHStoLBA
  <2>3. ~(x[2] >= S) /\ ~(x[1] >= T) /\ ~(x[3] >= P) /\ x[3] # 0
    BY <2>2 DEF BadChs
  <2>4. Lba(x) = track(x) * P + x[3] - 1
    BY <2>2 DEF CHStoLBA
  <2> QED
    BY <1>1, <2>1, <2>3, <2>4
<1>3. getTotalSectors(g) = (T * S) * P
  BY <1>1 DEF getTotalSectors
<1>3a. ASSUME NEW q \in 0 .. T - 1, NEW h \in 0 .. S - 1, NEW p \in 1 .. P - 1
       PROVE  /\ <<q, h, p>> \in Valid
              /\ Lba(<<q, h, p>>) = (q * S + h) * P + p - 1
  <2>1. <<q, h, p>> \in Chs(g)
    BY <1>1 DEF Chs
  <2>2. ~BadChs(g, q, h, p)
    BY <1>1 DEF BadChs
  <2>3. Lba(<<q, h, p>>) = (q * S + h) * P + p - 1
    BY <2>2 DEF CHStoLBA
  <2>4. q * S \in Nat /\ q * S + h \in Nat
    BY <1>1
  <2>5. (q * S + h) * P \in Nat
    BY <1>1, <2>4
  <2> QED
    BY <2>1, <2>3, <2>5
<1>3b. \A n \in Nat : n % P = n % g.SectorsPerTrack
  OBVIOUS
<1> HIDE DEF S, T, P, Valid, Lba
<1>4. ASSUME NEW x \in Valid PROVE Lba(x) < (T * S) * P
  <2>1. track(x) \in Nat /\ T * S \in Nat
    BY <1>1, <1>2
  <2>2. track(x) < T * S
    BY <1>1, <1>2, DigitsBelow
  <2>3. track(x) * P + (x[3] - 1) < (T * S) * P
    BY <1>1, <1>2, <2>1, <2>2, DigitsBelow
  <2>4. track(x) * P \in Nat
    BY <1>1, <2>1
  <2>5. track(x) * P + x[3] - 1 = track(x) * P + (x[3] - 1)
    BY <1>2, <2>4
  <2> QED
    BY <1>2, <2>3, <2>5
<1>5. ASSUME NEW x \in Valid, NEW y \in Valid, Lba(x) = Lba(y) PROVE x = y
  <2>1. track(x) \in Nat /\ track(y) \in Nat
    BY <1>1, <1>2
  <2>2. track(x) * P \in Nat /\ track(y) * P \in Nat
    BY <1>1, <2>1
  <2>3. track(x) * P + (x[3] - 1) = track(y) * P + (y[3] - 1)
    BY <1>2, <1>5, <2>2
  <2>4. track(x) = track(y) /\ x[3] - 1 = y[3] - 1
    <3> DEFINE tx == track(x)
               ty == track(y)
               px == x[3] - 1
               py == y[3] - 1
    <3>1. /\ P \in Nat /\ tx \in Nat /\ ty \in Nat /\ px \in Nat /\ py \in Nat
          /\ px < P /\ py < P /\ tx * P + px = ty * P + py
      BY <1>1, <1>2, <2>1, <2>3
    <3> HIDE DEF tx, ty, px, py
    <3>2. tx = ty /\ px = py
      BY <3>1, DigitsApart
    <3> QED
      BY <3>2 DEF tx, ty, px, py
  <2>5. x[1] = y[1] /\ x[2] = y[2]
    <3> DEFINE x1 == x[1]
               x2 == x[2]
               y1 == y[1]
               y2 == y[2]
    <3>1. /\ S \in Nat /\ x1 \in Nat /\ x2 \in Nat /\ y1 \in Nat /\ y2 \in Nat
          /\ x2 < S /\ y2 < S /\ x1 * S + x2 = y1 * S + y2
      BY <1>1, <1>2, <2>4
    <3> HIDE DEF x1, x2, y1, y2
    <3>2. x1 = y1 /\ x2 = y2
      BY <3>1, DigitsApart
    <3> QED
      BY <3>2 DEF x1, x2, y1, y2
  <2>6. x[3] = y[3]
    BY <1>2, <2>4
  <2>7. x = <<x[1], x[2], x[3]>> /\ y = <<y[1], y[2], y[3]>>
    BY <1>2
  <2> QED
    BY <2>5, <2>6, <2>7
<1>6. ASSUME NEW l \in 0 .. (T * S) * P - 1
      PROVE  (\E x \in Valid : Lba(x) = l) <=> l % P # P - 1
  <2>0. T * S \in Nat /\ (T * S) * P \in Nat /\ l \in Nat /\ l < (T * S) * P
    BY <1>1
  <2> DEFINE k == l \div P
             r == l % P
             q == k \div S
             h == k % S
  <2>1. /\ P # 0 /\ k \in Nat /\ k < T * S /\ r \in Nat /\ r < P /\ l = k * P + r
    BY <1>1, <2>0, DigitsOf
  <2> HIDE DEF k, r
  <2>2. q \in Nat /\ q < T /\ h \in Nat /\ h < S /\ k = q * S + h
    BY <1>1, <2>1, DigitsOf
  <2> HIDE DEF q, h
  <2>3. ASSUME NEW x \in Valid, Lba(x) = l PROVE r # P - 1
    <3> DEFINE tx == track(x)
               px == x[3] - 1
    <3>1. track(x) \in Nat
      BY <1>1, <1>2
    <3>2. track(x) * P \in Nat
      BY <1>1, <3>1
    <3>3. /\ tx \in Nat /\ px \in Nat /\ px < P /\ px # P - 1 /\ tx * P + px = k * P + r
      BY <1>2, <2>1, <2>3, <3>1, <3>2
    <3> HIDE DEF tx, px
    <3>4. px = r
      BY <1>1, <2>1, <3>3, DigitsApart
    <3> QED
      BY <3>3, <3>4
  <2>4. ASSUME r # P - 1 PROVE \E x \in Valid : Lba(x) = l
    <3>1. r + 1 \in 1 .. P - 1 /\ q \in 0 .. T - 1 /\ h \in 0 .. S - 1
      BY <1>1, <2>1, <2>2, <2>4
    <3>2. /\ <<q, h, r + 1>> \in Valid
          /\ Lba(<<q, h, r + 1>>) = (q * S + h) * P + (r + 1) - 1
      BY <1>3a, <3>1
    <3>3. k * P \in Nat
      BY <1>1, <2>1
    <3>4. k * P + (r + 1) - 1 = k * P + r
      BY <2>1, <3>3
    <3>5. Lba(<<q, h, r + 1>>) = l
      BY <2>1, <2>2, <3>2, <3>4
    <3> QED
      BY <3>2, <3>5
  <2> QED
    BY <2>3, <2>4 DEF r
<1> QED
  BY <1>3, <1>4, <1>5, <1>6 DEF Valid, Lba, P
=============================================================================
