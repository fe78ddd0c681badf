-------------------------------- MODULE Uvi --------------------------------
(***************************************************************************)
(* The Signetics 2637 UVI: its address window, the beam, the latches taken *)
(* at the top of the frame, SENSE and CHARLINE, the collision registers    *)
(* and the drawing of a line.  The module holds no variable: a UVI is a    *)
(* record u, and each method of the source is an operator on it, so that a *)
(* system may hold one UVI or compare two.                                 *)
(*                                                                         *)
(* The window is a function from the offsets written since reset; every    *)
(* other byte is 0.  A drawn row of pixels is abstracted to what it was    *)
(* drawn from (RowOf); the built-in font is a parameter.                   *)
(***************************************************************************)
EXTENDS Bytes, FiniteSetsExt

CONSTANTS
    Lines,         \* raster lines per frame (262 NTSC, 312 PAL)
    VrstLines,     \* vertical reset at the end of a frame (20 NTSC, 43 PAL)
    FieldTop,      \* the line the field starts on when VSCROLL is 0 (255)
    Rows,          \* character rows of the field (13, doubled by PAL0 bit 6)
    RowLines,      \* raster lines per row (16, halved by PAL1 bit 7)
    SpriteLines,   \* raster lines of a sprite (16, halved by its size bit)
    Font(_, _)     \* pattern byte of a built-in glyph: code, raster of the row

ASSUME UviAssumption ==
    /\ Lines \in Nat \ {0, 1}
    /\ VrstLines \in 1 .. Lines - 1
    /\ FieldTop \in Byte
    /\ Rows \in 1 .. 13
    /\ RowLines \in 2 .. 16 /\ RowLines % 2 = 0
    /\ SpriteLines \in 2 .. 16 /\ SpriteLines % 2 = 0

\* Offsets of the registers in the window, and of the imagery.
CHARLINE      == 255
VSCROLL       == 252
PITCH         == 253
SOUND         == 254
SPRITEPOS     == 240
UDG           == 384
PAL0          == 504
PAL1          == 505
SIZES         == 507
BGCOLLIDE     == 508
SPRITECOLLIDE == 509
PADDLES       == {510, 511}
Registers     == BGCOLLIDE .. 511

Width == 192        \* framebuffer columns
XPos == 32          \* the field's left edge in the framebuffer
FontSize == 56      \* built-in glyphs; higher codes are user-defined
Sprites == 0 .. 3

Active == Lines - VrstLines

\* The byte behind offset o.
At(u, o) == IF o \in DOMAIN u.mem THEN u.mem[o] ELSE 0

\* A row of the framebuffer nothing has been drawn on since reset.
BlankRow == [frame |-> -1]

\* A UVI as created; reset keeps the host inputs and the render mark.
NewUvi ==
    [ mem        |-> [o \in {} |-> 0],
      line       |-> 0,
      frames     |-> 0,
      frame      |-> [y \in 0 .. Active - 1 |-> BlankRow],
      pots       |-> [p \in 0 .. 1 |-> [axis \in 0 .. 1 |-> 112]],
      invert     |-> TRUE,
      vscroll    |-> 0,
      spos       |-> [i \in Sprites |-> [y |-> 0, x |-> 0]],
      lo         |-> 0,
      hi         |-> 0,
      shift      |-> 0,
      bgHit      |-> {},
      sprHit     |-> {},
      renderFrom |-> 0 ]

UviReset(u) ==
    [NewUvi EXCEPT !.pots = u.pots, !.invert = u.invert,
                   !.renderFrom = u.renderFrom]

-----------------------------------------------------------------------------
(* The beam against the field.                                             *)

Sense(u) == u.line >= Active

RowHeight(u) == IF Bit(At(u, PAL1), 128) = 1 THEN RowLines \div 2 ELSE RowLines
FieldRows(u) == IF Bit(At(u, PAL0), 64) = 1 THEN 2 * Rows ELSE Rows
FieldStart(u) == FieldTop - u.vscroll

FieldRow(u) == (u.line - FieldStart(u)) \div RowHeight(u)
FieldSub(u) == (u.line - FieldStart(u)) % RowHeight(u)
InField(u) == u.line >= FieldStart(u) /\ FieldRow(u) < FieldRows(u)

\* Faulty Dma: rows 14 to 26 are not shown as 0 to 12 again.
DmaUnwrapped(u) ==
    IF Sense(u) \/ u.line < FieldStart(u) THEN 15
    ELSE IF InField(u) THEN FieldRow(u)
    ELSE 13

\* Low nibble of CHARLINE: the DMA row; 15 before the field and in VRST, 13
\* after it.
Dma(u) ==
    IF Sense(u) \/ u.line < FieldStart(u) THEN 15
    ELSE IF InField(u) THEN FieldRow(u) % Rows
    ELSE 13

\* Faulty StableLinesFrom: the horizon includes the line of the change.
StableLinesOneMore(u, l, sense, charline) ==
    (IF (sense \/ charline) /\ l < Active THEN Active ELSE Lines) - l

\* Faulty StableLinesFrom: one row of the field is like another.
StableLinesNoRows(u, l, sense, charline) ==
    LET f0 == FieldStart(u)
        next == IF charline /\ l < Active THEN Least(IF l < f0 THEN f0 ELSE Active, Active)
                ELSE IF sense /\ l < Active THEN Active
                ELSE Lines
    IN  IF charline /\ l = 0 /\ At(u, VSCROLL) # u.vscroll THEN 0 ELSE next - l - 1

\* How many further line calls keep SENSE and CHARLINE (those asked for) at
\* their values and the frame the same, seen from line l of this frame.
StableLinesFrom(u, l, sense, charline) ==
    LET f0 == FieldStart(u)
        h == RowHeight(u)
        edge == IF l < f0 THEN f0
                ELSE IF l < f0 + FieldRows(u) * h THEN f0 + ((l - f0) \div h + 1) * h
                ELSE Active
        next == IF charline /\ l < Active THEN Least(edge, Active)
                ELSE IF sense /\ l < Active THEN Active
                ELSE Lines
    IN  IF charline /\ l = 0 /\ At(u, VSCROLL) # u.vscroll THEN 0
        ELSE next - l - 1

StableLines(u, sense, charline) == StableLinesFrom(u, u.line, sense, charline)

-----------------------------------------------------------------------------
(* Reads and writes of the window.                                         *)

\* A hit clears its bit in the collision registers: a sprite's in BGCOLLIDE, a
\* pair's in SPRITECOLLIDE.
Unhit(hits, x) == IF x \in hits THEN 0 ELSE 1

BgCollide(u) ==
    240 + Unhit(u.bgHit, 0) + 2 * Unhit(u.bgHit, 1) + 4 * Unhit(u.bgHit, 2)
        + 8 * Unhit(u.bgHit, 3)

SpriteCollide(u) ==
    192 + Unhit(u.sprHit, {0, 1}) + 2 * Unhit(u.sprHit, {0, 2})
        + 4 * Unhit(u.sprHit, {0, 3}) + 8 * Unhit(u.sprHit, {1, 2})
        + 16 * Unhit(u.sprHit, {1, 3}) + 32 * Unhit(u.sprHit, {2, 3})

Peek(u, o) ==
    CASE o = CHARLINE      -> 240 + Dma(u)
      [] o = BGCOLLIDE     -> BgCollide(u)
      [] o = SPRITECOLLIDE -> SpriteCollide(u)
      [] o \in PADDLES     -> IF Sense(u) THEN u.pots[511 - o][Bit(At(u, PAL1), 64)]
                              ELSE 255
      [] OTHER             -> At(u, o)

\* Reading a collision register clears it.
AfterRead(u, o) ==
    CASE o = BGCOLLIDE     -> [u EXCEPT !.bgHit = {}]
      [] o = SPRITECOLLIDE -> [u EXCEPT !.sprHit = {}]
      [] OTHER             -> u

Write(u, o, v) ==
    IF o = CHARLINE \/ o \in Registers THEN u
    ELSE [u EXCEPT !.mem = [i \in DOMAIN @ \cup {o} |-> IF i = o THEN v ELSE @[i]]]

-----------------------------------------------------------------------------
(* A line of the display.                                                  *)

\* The line a sprite with ordinate sy starts on; 0 switches it off.
SpriteTop(sy) == FieldTop + 1 - sy

\* At line 0: VSCROLL, the sprites' places and the lines they can occupy are
\* latched, and the collisions forgotten.
Latch(u) ==
    LET spos == [i \in Sprites |->
                    [y |-> At(u, SPRITEPOS + 2 * i), x |-> At(u, SPRITEPOS + 2 * i + 1)]]
        tops == {SpriteTop(spos[i].y) : i \in {j \in Sprites : spos[j].y # 0}}
    IN  IF u.line # 0 THEN u
        ELSE [u EXCEPT !.vscroll = At(u, VSCROLL),
                       !.spos = spos,
                       !.lo = IF tops = {} THEN 65535 ELSE Min(tops),
                       !.hi = IF tops = {} THEN 0 ELSE Max(tops) + SpriteLines,
                       !.bgHit = {},
                       !.sprHit = {}]

\* The horizontal shift is taken from SOUND on the first line of each row.
LatchShift(u) ==
    IF InField(u) /\ FieldSub(u) = 0
    THEN [u EXCEPT !.shift = At(u, SOUND) \div 32]
    ELSE u

\* Framebuffer columns of pattern byte b drawn with its bit 7 at column x.
Columns(b, x) ==
    {c \in x .. x + 7 : c \in 0 .. Width - 1 /\ Bit(b, 2 ^ (7 - (c - x))) = 1}

\* Columns sprite i puts pixels on in this line.
SpriteColumns(u, i) ==
    LET d == u.line - SpriteTop(u.spos[i].y)
        ctrl == At(u, SIZES - (i \div 2))
        short == Bit(ctrl, IF i % 2 = 0 THEN 128 ELSE 64) = 1
        height == IF short THEN SpriteLines \div 2 ELSE SpriteLines
        row == IF short THEN d ELSE d \div 2
    IN  IF u.spos[i].y = 0 \/ d \notin 0 .. height - 1 THEN {}
        ELSE Columns(At(u, UDG + 8 * i + row), u.spos[i].x - 43 + XPos)

\* Block-graphics pattern of a three-bit group.
Tri(k) == 3 * Bit(k, 1) + 28 * Bit(k, 2) + 224 * Bit(k, 4)

\* Pattern byte of cell j of field row n, glyph raster r.  $C0 and $40 switch
\* block graphics on and off for the cells from there on.
CellPattern(u, n, r, j) ==
    LET base == IF n < Rows THEN n * 16 ELSE 512 + (n - Rows) * 16
        switches == {i \in 0 .. j : At(u, base + i) \in {64, 192}}
        block == IF switches = {} THEN Bit(At(u, PAL0), 128) = 1
                 ELSE At(u, base + Max(switches)) = 192
        code == At(u, base + j) % 64
    IN  IF block THEN Tri((IF r < 4 THEN code ELSE code \div 8) % 8)
        ELSE IF code < FontSize THEN Font(code, r)
        ELSE At(u, UDG + 8 * (code - FontSize) + r)

\* Columns the characters put pixels on in this line.
FieldColumns(u) ==
    LET r == IF RowHeight(u) = RowLines THEN FieldSub(u) \div 2 ELSE FieldSub(u)
    IN  IF ~InField(u) THEN {}
        ELSE UNION {Columns(CellPattern(u, FieldRow(u), r, j), XPos + u.shift + 8 * j)
                        : j \in 0 .. 15}

\* What a drawn row shows: the frame it belongs to and what it was drawn from.
RowOf(u, live, flag) ==
    [ frame    |-> u.frames,
      field    |-> IF InField(u) THEN FieldRow(u) ELSE -1,
      shift    |-> u.shift,
      palettes |-> <<At(u, PAL0), At(u, PAL1), Bit(At(u, PITCH), 128)>>,
      sprites  |-> live,
      inverted |-> u.invert /\ flag ]

\* Faulty Render: frames nobody sees have no collisions.
RenderDrawnOnly(u, flag) ==
    LET columns == [i \in Sprites |-> SpriteColumns(u, i)]
        live == {i \in Sprites : columns[i] # {}}
        ground == FieldColumns(u)
    IN  IF u.frames < u.renderFrom THEN u
        ELSE [u EXCEPT !.bgHit = @ \cup {i \in live : columns[i] \cap ground # {}},
                       !.frame = [@ EXCEPT ![u.line] = RowOf(u, live, flag)]]

\* Faulty Render: the first frame to be seen is not drawn.
RenderLate(u, flag) ==
    LET live == {i \in Sprites : SpriteColumns(u, i) # {}}
    IN  IF u.frames <= u.renderFrom THEN u
        ELSE [u EXCEPT !.frame = [@ EXCEPT ![u.line] = RowOf(u, live, flag)]]

\* Collisions and pixels of this line.  While nobody will see the frame only
\* collisions are computed, and only on lines a sprite may occupy.
Render(u, flag) ==
    LET drawing == u.frames >= u.renderFrom
        columns == [i \in Sprites |-> SpriteColumns(u, i)]
        live == {i \in Sprites : columns[i] # {}}
        ground == IF live = {} THEN {} ELSE FieldColumns(u)
        bg == {i \in live : columns[i] \cap ground # {}}
        spr == {p \in SUBSET live : Cardinality(p) = 2
                    /\ \A i, j \in p : columns[i] \cap columns[j] # {}}
    IN  IF ~drawing /\ u.line \notin u.lo .. u.hi - 1 THEN u
        ELSE [u EXCEPT !.bgHit = @ \cup bg,
                       !.sprHit = @ \cup spr,
                       !.frame = IF drawing THEN [@ EXCEPT ![u.line] = RowOf(u, live, flag)]
                                 ELSE @]

\* Faulty NextLine: the frame ends a line late.
NextLineLate(u) ==
    IF u.line = Lines
    THEN [u EXCEPT !.line = 0, !.frames = @ + 1]
    ELSE [u EXCEPT !.line = @ + 1]

\* Uvi::line: draw the line the beam is on and move the beam to the next.
NextLine(u) ==
    IF u.line + 1 = Lines
    THEN [u EXCEPT !.line = 0, !.frames = @ + 1]
    ELSE [u EXCEPT !.line = @ + 1]

Line(u, flag) ==
    LET Drawn(l) == IF Sense(l) THEN l ELSE Render(LatchShift(l), flag)
    IN  NextLine(Drawn(Latch(u)))

=============================================================================
