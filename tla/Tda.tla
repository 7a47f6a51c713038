-------------------------------- MODULE Tda --------------------------------
(***************************************************************************)
(* The text display (tda.cpp, tda.hpp): which part of memory it shows and  *)
(* where a picture puts the pixels of each character.  Its interrupt is in *)
(* module VComputer.  Addresses are those of a bus of TdaSpace.            *)
(***************************************************************************)
EXTENDS Integers, FiniteSets

CONSTANTS
  WidthChars, HeightChars,  \* 40 and 30
  CharSize,                 \* pixels of a character, both ways (8)
  FontSize,                 \* FONT_BUFFER_SIZE
  TdaSpace,                 \* DWords count modulo it (2^32)
  TdaRomStart               \* 0x100000

ASSUME TdaAssumption ==
  /\ {WidthChars, HeightChars, CharSize, FontSize, TdaSpace, TdaRomStart} \subseteq Nat \ {0}
  /\ FontSize <= TdaRomStart /\ 2 * TdaRomStart <= TdaSpace

TxtBufferSize == WidthChars * HeightChars * 2
TextureSize == WidthChars * HeightChars * CharSize * CharSize

-----------------------------------------------------------------------------
(* The pointers.  All sums are of DWords.                                  *)

DWordSum(a, b) == (a + b) % TdaSpace

\* Command 0 with the address in B:A.
MapBuffer(ramSize, buffer_ptr, addr) ==
  IF DWordSum(addr, TxtBufferSize) < ramSize THEN addr ELSE buffer_ptr

\* Command 1.
MapFont(ramSize, romSize, font_ptr, addr) ==
  IF \/ DWordSum(addr, FontSize) <= ramSize
     \/ DWordSum(addr - TdaRomStart, FontSize) <= romSize
  THEN addr ELSE font_ptr

\* What DumpScreen copies, as <<memory, first address>>; the text of the last dump
\* stays, and the font is the one of the display, if it copies nothing.
ShownText(ramSize, buffer_ptr) ==
  IF buffer_ptr # 0 /\ DWordSum(buffer_ptr, TxtBufferSize) < ramSize
  THEN <<"ram", buffer_ptr>> ELSE <<"kept", 0>>

ShownFont(ramSize, romSize, font_ptr) ==
  IF font_ptr = 0 THEN <<"own", 0>>
  ELSE IF DWordSum(font_ptr, FontSize) <= ramSize THEN <<"ram", font_ptr>>
  ELSE IF DWordSum(font_ptr - TdaRomStart, FontSize) <= romSize
       THEN <<"rom", font_ptr - TdaRomStart>>
  ELSE <<"own", 0>>

-----------------------------------------------------------------------------
(* The picture                                                             *)

TextCells == (0 .. WidthChars - 1) \X (0 .. HeightChars - 1)
Dots == (0 .. CharSize - 1) \X (0 .. CharSize - 1)

\* Mutant: rows of characters are one line of pixels apart.
PixelAddr_OneLine(col, row, x, y) ==
  x + col * CharSize + WidthChars * CharSize * (y + row)

PixelAddr(col, row, x, y) ==
  x + col * CharSize + WidthChars * CharSize * (y + row * CharSize)

\* The writes of the text: the ink in the dots of the glyph, else the paper.
Text(txt, font) ==
  {<<PixelAddr(c[1], c[2], d[1], d[2]),
     IF d \in font[txt[c].glyph] THEN txt[c].fg ELSE txt[c].bg>> : c \in TextCells, d \in Dots}

\* The cursor paints whole lines of its cell, if it has one, in the frames below 8.  Its
\* blink bit (tda.hpp:154) reaches the picture and is not read: a cursor that is shown
\* blinks.
Cursor(cur, frames) ==
  IF cur.enabled /\ frames < 8 /\ cur.row < HeightChars /\ cur.col < WidthChars
  THEN {<<PixelAddr(cur.col, cur.row, x, y), cur.color>> :
          x \in 0 .. CharSize - 1, y \in cur.start .. cur.end}
  ELSE {}

Texture(txt, font, cur, frames) ==
  LET top == Cursor(cur, frames)
      writes == {w \in Text(txt, font) : \A v \in top : v[1] # w[1]} \cup top
  IN  [a \in 0 .. TextureSize - 1 |-> {w[2] : w \in {v \in writes : v[1] = a}}]

-----------------------------------------------------------------------------
Glyphs == 0 .. 1
Font == [g \in Glyphs |-> IF g = 0 THEN {} ELSE {d \in Dots : d[1] = d[2]}]
Texts ==
  [TextCells -> {[glyph |-> g, fg |-> f, bg |-> "black"] : g \in Glyphs, f \in {"red", "blue"}}]
Cursors ==
  [enabled : BOOLEAN, blink : BOOLEAN, row : 0 .. HeightChars, col : 0 .. WidthChars,
   color : {"white"}, start : 0 .. CharSize - 1, end : 0 .. CharSize - 1]

\* The first and the last frame with the cursor, and the first one without.
Frames == {0, 7, 8}

\* Dot d of cell c as a reader of the screen expects it.
Expected(txt, cur, frames, c, d) ==
  IF cur.enabled /\ frames < 8 /\ <<cur.col, cur.row>> = c /\ d[2] \in cur.start .. cur.end THEN cur.color
  ELSE IF d \in Font[txt[c].glyph] THEN txt[c].fg ELSE txt[c].bg

\* Every pixel of the picture has one colour, that of the dot of the one cell it shows,
\* and the cursor stays in its cell and in its frames, whatever its blink bit says.
PictureAgrees ==
  \A txt \in Texts, cur \in Cursors, frames \in Frames :
    LET picture == Texture(txt, Font, cur, frames)
    IN  \A i \in 0 .. WidthChars * CharSize - 1, j \in 0 .. HeightChars * CharSize - 1 :
          picture[i + WidthChars * CharSize * j] =
            {Expected(txt, cur, frames, <<i \div CharSize, j \div CharSize>>,
                      <<i % CharSize, j % CharSize>>)}

\* An address other than 0 that the display takes is what the next dump shows, and the
\* dump stays within that memory, but for the addresses that the sums of DWords let in:
\* those from where the end wraps around, and less than a font below the ROM.
MappedIsShown ==
  \A ramSize, romSize \in 0 .. TdaRomStart, addr \in 1 .. TdaSpace - 1 :
    LET text == ShownText(ramSize, MapBuffer(ramSize, 0, addr))
        font == ShownFont(ramSize, romSize, MapFont(ramSize, romSize, 0, addr))
    IN  /\ MapBuffer(ramSize, 0, addr) = addr =>
             /\ text = <<"ram", addr>>
             /\ addr + TxtBufferSize < ramSize \/ addr + TxtBufferSize >= TdaSpace
        /\ MapFont(ramSize, romSize, 0, addr) = addr =>
             \/ /\ font = <<"ram", addr>>
                /\ addr + FontSize <= ramSize \/ addr + FontSize >= TdaSpace
             \/ /\ font = <<"rom", addr - TdaRomStart>>
                /\ addr - TdaRomStart \in (0 .. romSize - FontSize) \cup (-FontSize .. -1)

\* What the guest wrote is what the screen shows.
ScreenAgrees == PictureAgrees /\ MappedIsShown
=============================================================================
