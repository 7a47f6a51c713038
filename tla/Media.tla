------------------------------- MODULE Media -------------------------------
(***************************************************************************)
(* Disk images (media.cpp): addresses of sectors, the bad-sector bitmap,   *)
(* reading and writing a sector.  The file of an image is module DiskFile. *)
(***************************************************************************)
EXTENDS Integers

CONSTANTS
  Descriptors,  \* geometries for the address conversion
  Geometry,     \* the geometry of the disk in the drive
  Bytes,        \* BytesPerSector
  Data          \* values of a byte

ASSUME GeometryAssumption ==
  /\ Geometry \in Descriptors
  /\ \A g \in Descriptors :
       g.NumSides \in Nat /\ g.TracksPerSide \in Nat /\ g.SectorsPerTrack \in Nat
ASSUME BytesAssumption == Bytes \in Nat \ {0} /\ Data # {}

getTotalSectors(g) == g.NumSides * g.TracksPerSide * g.SectorsPerTrack

-----------------------------------------------------------------------------
(* Addresses                                                               *)

BadChs(g, track, head, sector) ==
  \/ head >= g.NumSides
  \/ track >= g.TracksPerSide
  \/ sector >= g.SectorsPerTrack
  \/ sector = 0

\* Mutant: the track is multiplied by the sectors of one side only.
CHStoLBA_OneSide(g, track, head, sector) ==
  IF BadChs(g, track, head, sector) THEN -1
  ELSE (track + head) * g.SectorsPerTrack + sector - 1

CHStoLBA(g, track, head, sector) ==
  IF BadChs(g, track, head, sector) THEN -1
  ELSE (track * g.NumSides + head) * g.SectorsPerTrack + sector - 1

\* Addresses of a geometry, some beyond its bounds.
Chs(g) == (0 .. g.TracksPerSide) \X (0 .. g.NumSides) \X (0 .. g.SectorsPerTrack + 1)

\* The address conversion sends no two addresses to one sector and none past the
\* end of the image (where the bitmap begins), for every geometry.  It reaches every
\* sector but the last one of each track, whose number it refuses.
SectorsApart ==
  \A g \in Descriptors :
    LET Lba(x) == CHStoLBA(g, x[1], x[2], x[3])
        Valid == {x \in Chs(g) : Lba(x) >= 0}
    IN  /\ \A x \in Valid : Lba(x) < getTotalSectors(g)
        /\ \A x, y \in Valid : Lba(x) = Lba(y) => x = y
        /\ \A l \in 0 .. getTotalSectors(g) - 1 :
             (\E x \in Valid : Lba(x) = l) <=> l % g.SectorsPerTrack # g.SectorsPerTrack - 1

-----------------------------------------------------------------------------
(* An open image.  setSectorBad writes the bitmap through to the file, so  *)
(* one set stands for the bitmap in memory and in the file.                *)

Lbas == 0 .. getTotalSectors(Geometry) - 1
Sector == [0 .. Bytes - 1 -> Data]
Whole(t) == [p \in 0 .. Bytes - 1 |-> t]
Image == [writeProtect : BOOLEAN, badSectors : SUBSET Lbas, sectors : [Lbas -> Sector]]

isSectorBad(im, lba) == lba \notin Lbas \/ lba \in im.badSectors

setSectorBad(im, lba, bad) ==
  IF lba \notin Lbas THEN im
  ELSE [im EXCEPT !.badSectors = IF bad THEN @ \cup {lba} ELSE @ \ {lba}]

readError(im, lba) == IF isSectorBad(im, lba) THEN "BAD_SECTOR" ELSE "NONE"

\* writeSector as a dry run.
writeError(im, lba) ==
  IF isSectorBad(im, lba) THEN "BAD_SECTOR"
  ELSE IF im.writeProtect THEN "PROTECTED"
  ELSE "NONE"

writeSector(im, lba, buffer) ==
  IF writeError(im, lba) = "NONE" THEN [im EXCEPT !.sectors[lba] = buffer] ELSE im
=============================================================================
