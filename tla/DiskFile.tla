------------------------------ MODULE DiskFile ------------------------------
(***************************************************************************)
(* What is done to the file of a disk image outside the drive: a version 1 *)
(* image is converted when it is opened, which moves every sector upwards  *)
(* inside the file (media.cpp), and makedisk copies a raw file into the    *)
(* sectors of a new image (makedisk.cpp).  The file is a function from     *)
(* offsets to bytes; a byte of a sector is named by the sector and place   *)
(* it belongs to.                                                          *)
(***************************************************************************)
EXTENDS Integers

CONSTANTS
  OldHeader,   \* where the sectors begin in version 1 (11)
  NewHeader,   \* ... and in version 2 (0x20)
  SectorSize,  \* BytesPerSector (512)
  MaxSectors   \* bound on the sectors of an image

ASSUME HeaderAssumption ==
  /\ OldHeader \in Nat /\ NewHeader \in Nat /\ OldHeader < NewHeader
  /\ SectorSize \in Nat \ {0} /\ MaxSectors \in Nat \ {0}

VARIABLES
  datafile,    \* the file
  disk         \* the Media object, and how far its loop has come

diskVars == <<datafile, disk>>

\* A byte that belongs to no sector (a header, a gap, an old place).
Gap == <<-1, 0>>
\* The bitmap is one cell.
Bitmap == <<-2, 0>>

Places == 0 .. SectorSize - 1
Offsets == 0 .. NewHeader + MaxSectors * SectorSize
Cell == ((0 .. MaxSectors - 1) \X Places) \cup {Gap, Bitmap}

\* An image of n sectors, with the first one at offset first.
Layout(first, n) ==
  [o \in Offsets |->
     IF o = first + n * SectorSize THEN Bitmap
     ELSE IF o >= first /\ o < first + n * SectorSize
          THEN <<(o - first) \div SectorSize, (o - first) % SectorSize>>
          ELSE Gap]

DiskInit ==
  \E n \in 1 .. MaxSectors :
    /\ datafile = Layout(OldHeader, n)
    /\ disk = [task |-> "closed", version |-> 1, sectors |-> n, i |-> n,
               badSectors |-> Gap, size |-> 0, buffer |-> [p \in Places |-> Gap]]

-----------------------------------------------------------------------------
(* The conversion                                                          *)

makeOffsets(version) == IF version = 1 THEN OldHeader ELSE NewHeader
offset_bitmap(d) == makeOffsets(d.version) + d.sectors * SectorSize

\* readHeader, makeOffsets and readBitmap; upgradeMedia takes the new version at
\* once, in memory.
OpenMedia ==
  /\ disk.task = "closed"
  /\ disk' = [disk EXCEPT !.task = "upgrade", !.version = 2,
                          !.badSectors = datafile[offset_bitmap(disk)]]
  /\ UNCHANGED datafile

\* Mutant: the sectors are moved from the first one up.
NextSector_Upwards(d) == d.sectors - d.i

\* "move sector data up by starting at the end and going down"
NextSector(d) == d.i - 1

\* One round of the loop: a sector is read from its old place and written to its
\* new one.
MoveSector ==
  /\ disk.task = "upgrade" /\ disk.i > 0
  /\ LET at == NextSector(disk) * SectorSize
         sector == [p \in Places |-> datafile[OldHeader + at + p]]
     IN  datafile' = [o \in Offsets |->
                        IF o - NewHeader - at \in Places
                        THEN sector[o - NewHeader - at] ELSE datafile[o]]
  /\ disk' = [disk EXCEPT !.i = @ - 1]

\* writeHeader and writeBitmap.
FinishUpgrade ==
  /\ disk.task = "upgrade" /\ disk.i = 0
  /\ datafile' = [datafile EXCEPT ![offset_bitmap(disk)] = disk.badSectors]
  /\ disk' = [disk EXCEPT !.task = "open"]

-----------------------------------------------------------------------------
(* makedisk.  A raw file of "size" bytes is copied; its bytes are named by *)
(* the place of the disk they should come to.                              *)

CreateMedia ==
  /\ disk.task = "closed"
  /\ \E size \in 0 .. disk.sectors * SectorSize :
       disk' = [disk EXCEPT !.task = "copy", !.version = 2, !.i = 0, !.size = size]
  /\ datafile' = [o \in Offsets |-> IF o = NewHeader + disk.sectors * SectorSize
                                    THEN Bitmap ELSE Gap]

\* One sector more than the file fills is written, when the disk has room.
top_sector(d) ==
  IF d.size \div SectorSize + 1 < d.sectors
  THEN d.size \div SectorSize + 1 ELSE d.sectors

\* At the end of the file read() leaves the rest of the buffer as the sector before
\* left it, and that is written too.
CopySector ==
  /\ disk.task = "copy" /\ disk.i < top_sector(disk)
  /\ LET sector == [p \in Places |-> IF disk.i * SectorSize + p < disk.size
                                     THEN <<disk.i, p>> ELSE disk.buffer[p]]
         at == NewHeader + disk.i * SectorSize
     IN  /\ datafile' = [o \in Offsets |-> IF o - at \in Places
                                           THEN sector[o - at] ELSE datafile[o]]
         /\ disk' = [disk EXCEPT !.i = @ + 1, !.buffer = sector]

DiskNext ==
  \/ OpenMedia \/ MoveSector \/ FinishUpgrade
  \/ CreateMedia \/ CopySector

-----------------------------------------------------------------------------
DiskTypeOK ==
  /\ datafile \in [Offsets -> Cell]
  /\ disk \in [task : {"closed", "upgrade", "open", "copy"}, version : 1 .. 2,
               sectors : 1 .. MaxSectors, i : 0 .. MaxSectors, badSectors : Cell,
               size : 0 .. MaxSectors * SectorSize, buffer : [Places -> Cell]]

DiskSpec == DiskInit /\ [][DiskNext]_diskVars

\* Nothing of a disk is lost on its way into a version 2 file.  The old and the new
\* place of a sector overlap, and the bitmap lies where the last sector goes, yet
\* after the conversion every byte and the bitmap are where version 2 looks for
\* them; and every byte of a raw file comes to its place on the disk.
ImageKeepsData ==
  /\ disk.task = "open" =>
       \A o \in Offsets :
         o >= NewHeader => datafile[o] = Layout(NewHeader, disk.sectors)[o]
  /\ disk.task = "copy" /\ disk.i = top_sector(disk) =>
       \A b \in 0 .. disk.size - 1 :
         datafile[NewHeader + b] = <<b \div SectorSize, b % SectorSize>>
=============================================================================
