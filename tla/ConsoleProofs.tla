--------------------------- MODULE ConsoleProofs ---------------------------
(***************************************************************************)
(* What is proved of the console for every cartridge, every raster and     *)
(* every order of host calls: that it does what RunLoop promises, and that *)
(* a completed run_frames shows the last frame asked for.                  *)
(***************************************************************************)
EXTENDS Console, UviProofs, FiniteSetTheorems, WellFoundedInduction

(***************************************************************************)
(* Induction over the natural numbers.                                     *)
(***************************************************************************)

\* Every set of natural numbers has a least element.
LEMMA Smallest ==
    ASSUME NEW T \in SUBSET Nat, T # {}
    PROVE  \E x \in T : \A y \in T : x <= y
<1> DEFINE R == OpToRel(<, Nat)
<1>1. IsWellFoundedOn(R, Nat)
  BY NatLessThanWellFounded
<1>2. \A x, y \in Nat : y < x => <<y, x>> \in R
  BY DEF OpToRel
<1> HIDE DEF R
<1>3. \E x \in T : \A y \in T : ~ (<<y, x>> \in R)
  BY <1>1, WFMin
<1>4. PICK x \in T : \A y \in T : ~ (<<y, x>> \in R)
  BY <1>3
<1>5. \A y \in T : ~ (y < x)
  BY <1>2, <1>4
<1>6. QED
  BY <1>5

\* So a set that holds 0, and each number's successor, holds them all.
LEMMA Induction ==
    ASSUME NEW S \in SUBSET Nat, 0 \in S, \A n \in S : n + 1 \in S
    PROVE  S = Nat
<1> SUFFICES ASSUME S # Nat PROVE FALSE
  OBVIOUS
<1>1. PICK x \in Nat \ S : \A y \in Nat \ S : x <= y
  <2>1. Nat \ S \in SUBSET Nat /\ Nat \ S # {}
    OBVIOUS
  <2>2. QED
    BY <2>1, Smallest
<1>2. x - 1 \in Nat /\ x - 1 \in S
  BY <1>1
<1>3. QED
  BY <1>1, <1>2

(***************************************************************************)
(* Lines of the display.                                                   *)
(***************************************************************************)

\* The UVI after each of n lines, and after the last.
After(u, flag, n, g) == g = [k \in 0 .. n |-> IF k = 0 THEN u ELSE Line(g[k - 1], flag)]

\* After one line more there is that line more.
LEMMA AfterNext ==
    ASSUME NEW u, NEW flag, NEW n \in Nat, NEW g, After(u, flag, n, g),
           NEW k \in Nat, k + 1 <= n
    PROVE  g[k + 1] = Line(g[k], flag)
<1>1. /\ k + 1 \in 0 .. n /\ k + 1 # 0 /\ (k + 1) - 1 = k
  OBVIOUS
<1>2. g = [i \in 0 .. n |-> IF i = 0 THEN u ELSE Line(g[i - 1], flag)]
  BY DEF After
<1>3. g[k + 1] = IF k + 1 = 0 THEN u ELSE Line(g[(k + 1) - 1], flag)
  BY <1>1, <1>2, Zenon
<1>4. QED
  BY <1>1, <1>3

\* The lines drawn one after another are a function of their number.
LEMMA AfterExists ==
    ASSUME NEW u, NEW flag, NEW n \in Nat
    PROVE  \E g : After(u, flag, n, g)
<1> DEFINE S == {m \in Nat : \E g : After(u, flag, m, g)}
<1>1. 0 \in S
  <2>1. After(u, flag, 0, [k \in 0 .. 0 |-> u])
    BY DEF After
  <2>2. QED
    BY <2>1
<1>2. ASSUME NEW m \in S
      PROVE  m + 1 \in S
  <2>1. PICK g : After(u, flag, m, g)
    OBVIOUS
  <2> DEFINE h == [k \in 0 .. m + 1 |-> IF k = m + 1 THEN Line(g[m], flag) ELSE g[k]]
  <2>2. \A k \in 0 .. m + 1 : h[k] = IF k = 0 THEN u ELSE Line(h[k - 1], flag)
    BY <2>1 DEF After
  <2>3. After(u, flag, m + 1, h)
    BY <2>2 DEF After
  <2>4. QED
    BY <2>3
<1> HIDE DEF S
<1>3. S = Nat
  <2>1. S \in SUBSET Nat
    BY DEF S
  <2>2. QED
    BY <1>1, <1>2, <2>1, Induction
<1>4. QED
  BY <1>3 DEF S

\* draw_lines is its recursive function, given by name.
LEMMA DrawLinesIs ==
    ASSUME NEW b, NEW n \in Nat
    PROVE  \E g : /\ After(b.uvi, b.flag, n, g)
                  /\ DrawLines(b, n) = [b EXCEPT !.uvi = g[n]]
<1> DEFINE after[k \in 0 .. n] == IF k = 0 THEN b.uvi ELSE Line(after[k - 1], b.flag)
<1>1. PICK g : After(b.uvi, b.flag, n, g)
  BY AfterExists
<1>2. after = [k \in 0 .. n |-> IF k = 0 THEN b.uvi ELSE Line(after[k - 1], b.flag)]
  BY <1>1 DEF After
<1>3. DrawLines(b, n) = [b EXCEPT !.uvi = after[n]]
  BY DEF DrawLines
<1> HIDE DEF after
<1>4. After(b.uvi, b.flag, n, after)
  BY <1>2 DEF After
<1>5. QED
  BY <1>3, <1>4

\* Lines drawn since reset.
Beam(u) == u.frames * Lines + u.line

\* The frame the beam last passed row y in.
Passed(u, y) == IF y < u.line THEN u.frames ELSE u.frames - 1

\* Every row last passed in frame n or later shows that frame.
Fresh(u, n) ==
    \A y \in 0 .. Active - 1 : Passed(u, y) >= n => u.frame[y].frame = Passed(u, y)

\* A window of bytes, and a UVI in a console.
Memories == UNION {[D -> Byte] : D \in SUBSET Int}

UviOK(u) ==
    /\ UviTypeOK(u)
    /\ u.mem \in Memories
    /\ u.pots \in [0 .. 1 -> [0 .. 1 -> Byte]]
    /\ u.renderFrom \in Nat

\* The beam is a count of lines since reset.
LEMMA BeamType ==
    ASSUME NEW u, UviOK(u)
    PROVE  Beam(u) \in Nat
<1>1. u.frames \in Nat /\ u.line \in Nat /\ Lines \in Nat
  BY UviAssumption DEF UviOK, UviTypeOK
<1>2. u.frames * Lines \in Nat
  BY <1>1, OneMore
<1>3. QED
  BY <1>1, <1>2 DEF Beam

\* One line more.  It leaves the rows as fresh as they were, as long as frames
\* from renderFrom on are what is asked for.
LEMMA OneLine ==
    ASSUME NEW u, UviOK(u), NEW flag
    PROVE  LET w == Line(u, flag)
           IN  /\ UviOK(w)
               /\ Beam(w) = Beam(u) + 1
               /\ w.renderFrom = u.renderFrom
               /\ \A n \in Int : n >= u.renderFrom /\ Fresh(u, n) => Fresh(w, n)
<1> DEFINE w == Line(u, flag)
<1>1. /\ WholeUvi(u) /\ RangeOK(u) /\ MemoryOK(u) /\ u.line \in 0 .. Lines - 1
      /\ u.frames \in Nat /\ u.frame = [y \in 0 .. Active - 1 |-> u.frame[y]]
      /\ u.renderFrom \in Nat /\ Lines \in Nat \ {0} /\ Active \in 1 .. Lines - 1
  BY UviAssumption DEF UviOK, UviTypeOK, Active
<1>2. /\ w.mem = u.mem /\ w.pots = u.pots /\ w.renderFrom = u.renderFrom
      /\ w.line = IF u.line + 1 = Lines THEN 0 ELSE u.line + 1
      /\ w.frames = IF u.line + 1 = Lines THEN u.frames + 1 ELSE u.frames
  BY <1>1, LineKeeps
<1>3. UviTypeOK(w)
  BY LineType DEF UviOK
<1>4. PICK row : row.frame = u.frames /\ w.frame = Redrawn(u, row)
  <2>1. Twins(u, u) /\ u.line \in Nat
    BY <1>1 DEF Twins
  <2>2. QED
    BY <1>1, <2>1, LineTwins
<1> HIDE DEF w
<1>5. UviOK(w)
  BY <1>2, <1>3 DEF UviOK
<1>6. Beam(w) = Beam(u) + 1
  <2> DEFINE m == u.frames * Lines
             n == w.frames * Lines
  <2>1. m \in Nat /\ (u.frames + 1) * Lines = m + Lines
    BY <1>1, OneMore
  <2>2. n = IF u.line + 1 = Lines THEN m + Lines ELSE m
    BY <1>2, <2>1
  <2>3. m \in Nat
    BY <2>1
  <2>4. Beam(u) = m + u.line /\ Beam(w) = n + w.line
    BY DEF Beam
  <2>5. /\ u.line \in Nat /\ Lines \in Nat
        /\ w.line = IF u.line + 1 = Lines THEN 0 ELSE u.line + 1
    BY <1>1, <1>2
  <2> HIDE DEF m, n
  <2>6. QED
    BY <2>2, <2>3, <2>4, <2>5
<1>7. ASSUME NEW n \in Int, n >= u.renderFrom, Fresh(u, n), NEW y \in 0 .. Active - 1,
             Passed(w, y) >= n
      PROVE  w.frame[y].frame = Passed(w, y)
  <2>1. CASE y = u.line
    <3>1. Passed(w, y) = u.frames
      BY <1>1, <1>2, <2>1 DEF Passed
    <3>2. w.frame[y] = row
      BY <1>1, <1>4, <1>7, <2>1, <3>1 DEF Redrawn
    <3>3. QED
      BY <1>4, <3>1, <3>2
  <2>2. CASE y # u.line
    <3>1. Passed(w, y) = Passed(u, y)
      BY <1>1, <1>2, <2>2 DEF Passed
    <3>2. w.frame[y] = u.frame[y]
      BY <1>1, <1>4, <2>2 DEF Redrawn
    <3>3. QED
      BY <1>7, <3>1, <3>2 DEF Fresh
  <2>3. QED
    BY <2>1, <2>2
<1>8. \A n \in Int : n >= u.renderFrom /\ Fresh(u, n) => Fresh(w, n)
  BY <1>7 DEF Fresh
<1>9. QED
  BY <1>2, <1>5, <1>6, <1>8 DEF w

\* A board.
Inputs == {"sense", "charline", "volatile"}

BoardOK(b) ==
    /\ b = [ rom |-> b.rom, uvi |-> b.uvi, ce |-> b.ce, flag |-> b.flag,
             effects |-> b.effects, reads |-> b.reads ]
    /\ \A o \in DOMAIN b.rom : b.rom[o] \in Byte
    /\ UviOK(b.uvi)
    /\ b.ce \in [0 .. 15 -> Byte]
    /\ b.flag \in BOOLEAN /\ b.effects \in Nat /\ b.reads \in SUBSET Inputs

\* Any number of lines more.
LEMMA Drawing ==
    ASSUME NEW b, BoardOK(b), NEW n \in Nat
    PROVE  LET w == DrawLines(b, n).uvi
           IN  /\ DrawLines(b, n) = [b EXCEPT !.uvi = w]
               /\ UviOK(w)
               /\ Beam(w) = Beam(b.uvi) + n
               /\ w.renderFrom = b.uvi.renderFrom
               /\ \A m \in Int : m >= w.renderFrom /\ Fresh(b.uvi, m) => Fresh(w, m)
<1> DEFINE u == b.uvi
           Good(w, k) ==
              /\ UviOK(w)
              /\ Beam(w) = Beam(u) + k
              /\ w.renderFrom = u.renderFrom
              /\ \A m \in Int : m >= w.renderFrom /\ Fresh(u, m) => Fresh(w, m)
<1>1. PICK g : After(u, b.flag, n, g) /\ DrawLines(b, n) = [b EXCEPT !.uvi = g[n]]
  BY DrawLinesIs
<1>2. UviOK(u) /\ Beam(u) \in Nat
  BY BeamType DEF BoardOK
<1> DEFINE S == {k \in Nat : k <= n => Good(g[k], k)}
<1>3. 0 \in S
  <2>1. g[0] = u
    BY <1>1 DEF After
  <2>2. Good(u, 0)
    BY <1>2
  <2> HIDE DEF Good
  <2>3. QED
    BY <2>1, <2>2
<1>4. ASSUME NEW k \in S
      PROVE  k + 1 \in S
  <2> SUFFICES ASSUME k + 1 <= n PROVE Good(g[k + 1], k + 1)
    OBVIOUS
  <2>1. Good(g[k], k)
    OBVIOUS
  <2>2. k \in Nat
    OBVIOUS
  <2>3. g[k + 1] = Line(g[k], b.flag)
    BY <1>1, <2>2, AfterNext
  <2> DEFINE w == Line(g[k], b.flag)
  <2>4. /\ UviOK(w)
        /\ Beam(w) = Beam(g[k]) + 1
        /\ w.renderFrom = g[k].renderFrom
        /\ \A m \in Int : m >= g[k].renderFrom /\ Fresh(g[k], m) => Fresh(w, m)
    BY <2>1, OneLine
  <2> HIDE DEF w
  <2>5. Good(w, k + 1)
    BY <1>2, <2>1, <2>4
  <2> HIDE DEF Good
  <2>6. QED
    BY <2>3, <2>5 DEF w
<1>5. Good(g[n], n)
  <2> HIDE DEF Good
  <2>1. S \in SUBSET Nat
    OBVIOUS
  <2> HIDE DEF S
  <2>2. S = Nat
    BY <1>3, <1>4, <2>1, Induction
  <2>3. QED
    BY <2>2 DEF S
<1>6. DrawLines(b, n).uvi = g[n]
  BY <1>1 DEF BoardOK
<1>7. QED
  BY <1>1, <1>5, <1>6

(***************************************************************************)
(* The board as a bus.                                                     *)
(***************************************************************************)

\* What a board may become between two lines: the program writes the window
\* and FLAG and reads the inputs.
UvisAround(u) ==
    [ mem : Memories, line : {u.line}, frames : {u.frames}, frame : {u.frame},
      pots : {u.pots}, invert : {u.invert}, vscroll : {u.vscroll}, spos : {u.spos},
      lo : {u.lo}, hi : {u.hi}, shift : {u.shift}, bgHit : SUBSET Sprites,
      sprHit : SUBSET SUBSET Sprites, renderFrom : {u.renderFrom} ]

BoardsAround(b) ==
    [ rom : {b.rom}, uvi : UvisAround(b.uvi), ce : {b.ce}, flag : BOOLEAN,
      effects : Nat, reads : SUBSET Inputs ]

\* The chips a chip may become by reads alone: the beam and the pictures stay.
LEMMA UvisAroundIs ==
    ASSUME NEW u, UviOK(u)
    PROVE  /\ u \in UvisAround(u)
           /\ \A w \in UvisAround(u) :
                 /\ UviOK(w) /\ Beam(w) = Beam(u) /\ w.renderFrom = u.renderFrom
                 /\ w.frames = u.frames /\ w.line = u.line
                 /\ \A n : Fresh(w, n) = Fresh(u, n)
<1>1. WholeUvi(u) /\ u.bgHit \in SUBSET Sprites /\ u.sprHit \in SUBSET SUBSET Sprites
  BY DEF UviOK, UviTypeOK
<1>2. u \in UvisAround(u)
  BY <1>1 DEF UvisAround, WholeUvi, UviOK
<1>3. ASSUME NEW w \in UvisAround(u)
      PROVE  /\ UviOK(w) /\ Beam(w) = Beam(u) /\ w.renderFrom = u.renderFrom
             /\ w.frames = u.frames /\ w.line = u.line
             /\ \A n : Fresh(w, n) = Fresh(u, n)
  <2>1. /\ WholeUvi(w) /\ w.mem \in Memories /\ w.bgHit \in SUBSET Sprites
        /\ w.sprHit \in SUBSET SUBSET Sprites
        /\ w.line = u.line /\ w.frames = u.frames /\ w.frame = u.frame
        /\ w.pots = u.pots /\ w.vscroll = u.vscroll /\ w.spos = u.spos /\ w.lo = u.lo
        /\ w.hi = u.hi /\ w.shift = u.shift /\ w.renderFrom = u.renderFrom
    BY DEF UvisAround, WholeUvi
  <2>2. MemoryOK(w)
    BY <2>1 DEF Memories, MemoryOK
  <2>3. RangeOK(w)
    BY <2>1 DEF UviOK, UviTypeOK, RangeOK
  <2>4. UviOK(w)
    BY <2>1, <2>2, <2>3 DEF UviOK, UviTypeOK
  <2>5. QED
    BY <2>1, <2>4 DEF Beam, Fresh, Passed
<1>4. QED
  BY <1>2, <1>3

\* The boards a board may become by reads alone.
LEMMA BoardsAroundAre ==
    ASSUME NEW b, BoardOK(b)
    PROVE  /\ b \in BoardsAround(b)
           /\ \A c \in BoardsAround(b) :
                 /\ BoardOK(c) /\ c.uvi \in UvisAround(b.uvi)
<1>1. UviOK(b.uvi) /\ b.uvi \in UvisAround(b.uvi)
  BY UvisAroundIs DEF BoardOK
<1>2. b \in BoardsAround(b)
  BY <1>1 DEF BoardsAround, BoardOK
<1>3. ASSUME NEW c \in BoardsAround(b)
      PROVE  BoardOK(c) /\ c.uvi \in UvisAround(b.uvi)
  <2>1. /\ c = [ rom |-> c.rom, uvi |-> c.uvi, ce |-> c.ce, flag |-> c.flag,
                 effects |-> c.effects, reads |-> c.reads ]
        /\ c.rom = b.rom /\ c.uvi \in UvisAround(b.uvi) /\ c.ce = b.ce
        /\ c.flag \in BOOLEAN /\ c.effects \in Nat /\ c.reads \in SUBSET Inputs
    BY DEF BoardsAround
  <2>2. UviOK(c.uvi)
    BY <1>1, <2>1, UvisAroundIs
  <2>3. QED
    BY <2>1, <2>2 DEF BoardOK
<1>4. QED
  BY <1>2, <1>3

\* The bytes and addresses of the CPU are those of the board.
LEMMA Same ==
    /\ C!Byte = Byte /\ C!Address = Address
    /\ \A v, m : C!Bit(v, m) = Bit(v, m)
<1>1. C!Byte = Byte /\ C!Address = Address
  BY SMT DEF C!Byte, Byte, C!Address, Address
<1>2. \A v, m : C!Bit(v, m) = Bit(v, m)
  BY DEF C!Bit, Bit
<1>3. QED
  BY <1>1, <1>2

\* An address is a number.
LEMMA AddressIs == Address \subseteq Int
BY SMT DEF Address

\* A byte of the chip's memory.
LEMMA AtType ==
    ASSUME NEW u, UviOK(u), NEW o
    PROVE  At(u, o) \in Byte
BY DEF At, Byte, MemoryOK, UviOK, UviTypeOK

\* CHARLINE, the collision registers, the paddles and the memory are bytes.
LEMMA PeekType ==
    ASSUME NEW u, UviOK(u), NEW o \in Int
    PROVE  Peek(u, o) \in Byte
<1>1. 240 + Dma(u) \in Byte
  <2>1. u.vscroll \in Byte /\ Rows \in 1 .. 13
    BY UviAssumption DEF UviOK, UviTypeOK
  <2>2. FieldRow(u) \in Int
    <3>1. u.line - FieldStart(u) \in Int /\ RowHeight(u) \in Nat \ {0}
      BY <2>1, Geometry DEF UviOK, UviTypeOK
    <3>2. QED
      BY <3>1 DEF FieldRow
  <2>3. Dma(u) \in 0 .. 15
    BY <2>1, <2>2 DEF Dma
  <2>4. QED
    BY <2>3 DEF Byte
<1>2. \A hits, x : Unhit(hits, x) \in {0, 1}
  BY DEF Unhit
<1>3. BgCollide(u) \in Byte
  BY <1>2 DEF BgCollide, Byte
<1>4. SpriteCollide(u) \in Byte
  BY <1>2 DEF SpriteCollide, Byte
<1>5. ASSUME o \in PADDLES
      PROVE  u.pots[511 - o][Bit(At(u, PAL1), 64)] \in Byte
  <2> DEFINE i == 511 - o
             j == Bit(At(u, PAL1), 64)
  <2>1. i \in 0 .. 1
    BY <1>5 DEF PADDLES
  <2>2. j \in 0 .. 1
    <3>1. At(u, PAL1) \in Byte
      BY AtType
    <3>2. QED
      BY <3>1 DEF Bit, Byte
  <2> HIDE DEF i, j
  <2>3. u.pots[i][j] \in Byte
    BY <2>1, <2>2 DEF UviOK
  <2>4. QED
    BY <2>3 DEF i, j
<1>6. 255 \in Byte /\ At(u, o) \in Byte
  BY AtType DEF Byte
<1>7. /\ o = CHARLINE => Peek(u, o) = 240 + Dma(u)
      /\ o # CHARLINE /\ o = BGCOLLIDE => Peek(u, o) = BgCollide(u)
      /\ o # CHARLINE /\ o # BGCOLLIDE /\ o = SPRITECOLLIDE => Peek(u, o) = SpriteCollide(u)
      /\ o \notin {CHARLINE, BGCOLLIDE, SPRITECOLLIDE} /\ o \in PADDLES =>
            Peek(u, o) \in {u.pots[511 - o][Bit(At(u, PAL1), 64)], 255}
      /\ o \notin {CHARLINE, BGCOLLIDE, SPRITECOLLIDE} /\ o \notin PADDLES =>
            Peek(u, o) = At(u, o)
  BY DEF Peek, CHARLINE, BGCOLLIDE, SPRITECOLLIDE, PADDLES
<1>8. QED
  BY <1>1, <1>3, <1>4, <1>5, <1>6, <1>7

\* Reading and writing the window changes what UvisAround lets change.
LEMMA WindowType ==
    ASSUME NEW u, UviOK(u), NEW w \in UvisAround(u), NEW o \in Int, NEW v \in Byte
    PROVE  AfterRead(w, o) \in UvisAround(u) /\ Write(w, o, v) \in UvisAround(u)
<1>1. AfterRead(w, o) \in {[w EXCEPT !.bgHit = {}], [w EXCEPT !.sprHit = {}], w}
  BY DEF AfterRead
<1>2. [w EXCEPT !.bgHit = {}] \in UvisAround(u) /\ [w EXCEPT !.sprHit = {}] \in UvisAround(u)
  BY DEF UvisAround
<1> DEFINE D == DOMAIN w.mem \cup {o}
           mem == [i \in D |-> IF i = o THEN v ELSE w.mem[i]]
<1>3. Write(w, o, v) \in {w, [w EXCEPT !.mem = mem]}
  BY DEF Write
<1>4. DOMAIN w.mem \subseteq Int /\ \A i \in DOMAIN w.mem : w.mem[i] \in Byte
  BY ZenonT(30) DEF UvisAround, Memories
<1>5. D \in SUBSET Int /\ mem \in [D -> Byte]
  BY <1>4
<1> HIDE DEF D, mem
<1>6. mem \in Memories
  BY <1>5 DEF Memories
<1>7. [w EXCEPT !.mem = mem] \in UvisAround(u)
  BY <1>6 DEF UvisAround
<1>8. QED
  BY <1>1, <1>2, <1>3, <1>7

\* A board with a part replaced.
LEMMA BoardWith ==
    ASSUME NEW b, NEW c \in BoardsAround(b)
    PROVE  /\ c.uvi \in UvisAround(b.uvi) /\ c.effects \in Nat /\ c.reads \in SUBSET Inputs
           /\ \A w \in UvisAround(b.uvi) : [c EXCEPT !.uvi = w] \in BoardsAround(b)
           /\ \A f \in BOOLEAN : [c EXCEPT !.flag = f] \in BoardsAround(b)
           /\ \A n \in Nat : [c EXCEPT !.effects = n] \in BoardsAround(b)
           /\ \A r \in SUBSET Inputs : [c EXCEPT !.reads = r] \in BoardsAround(b)
BY DEF BoardsAround

\* The board answers bytes and stays a board.
LEMMA BoardBus ==
    ASSUME NEW b, BoardOK(b)
    PROVE  C!BusOK(BoardsAround(b))
<1> DEFINE Boards == BoardsAround(b)
<1>1. ASSUME NEW c \in Boards
      PROVE  BoardOK(c) /\ UviOK(b.uvi) /\ UviOK(c.uvi)
  BY BoardsAroundAre DEF BoardOK
<1> HIDE DEF Boards
<1>2. ASSUME NEW c \in Boards, NEW a \in Address
      PROVE  Window(a) \in Int
  BY AddressIs DEF Window
<1>3. ASSUME NEW c \in Boards, NEW a \in Address
      PROVE  BoardPeek(c, a) \in Byte
  <2>1. BoardOK(c) /\ UviOK(c.uvi) /\ Window(a) \in Int
    BY <1>1, <1>2
  <2>2. RomByte(c, a) \in Byte
    <3>1. \A o \in DOMAIN c.rom : c.rom[o] \in Byte
      BY <2>1 DEF BoardOK
    <3>2. 255 \in Byte
      BY SMT DEF Byte
    <3>3. QED
      BY <3>1, <3>2 DEF RomByte
  <2>3. Ce(c, Window(a)) \in Byte
    <3>1. c.ce \in [0 .. 15 -> Byte]
      BY <2>1 DEF BoardOK
    <3>2. 0 \in Byte
      BY DEF Byte
    <3>3. QED
      BY <3>1, <3>2 DEF Ce
  <2>4. Peek(c.uvi, Window(a)) \in Byte
    BY <2>1, PeekType
  <2>5. QED
    BY <2>2, <2>3, <2>4 DEF BoardPeek
<1>4. ASSUME NEW c \in Boards, NEW a \in Address
      PROVE  BoardRead(c, a).v \in Byte /\ BoardRead(c, a).bus \in Boards
  <2> DEFINE w == AfterRead(c.uvi, Window(a))
             r == c.reads \cup Noted(Window(a))
  <2>1. w \in UvisAround(b.uvi)
    <3>1. c.uvi \in UvisAround(b.uvi)
      BY BoardWith DEF Boards
    <3>2. 0 \in Byte
      BY DEF Byte
    <3>3. QED
      BY <1>1, <1>2, <3>1, <3>2, WindowType
  <2>2. r \in SUBSET Inputs
    <3>1. c.reads \in SUBSET Inputs
      BY BoardWith DEF Boards
    <3>2. QED
      BY <3>1 DEF Noted, Inputs
  <2>3. BoardRead(c, a).v = BoardPeek(c, a)
    BY DEF BoardRead
  <2>4. BoardRead(c, a).bus \in {c, [[c EXCEPT !.uvi = w] EXCEPT !.reads = r]}
    BY DEF BoardRead
  <2> HIDE DEF w, r
  <2>5. [c EXCEPT !.uvi = w] \in Boards
    BY <2>1, BoardWith DEF Boards
  <2>6. [[c EXCEPT !.uvi = w] EXCEPT !.reads = r] \in Boards
    BY <2>2, <2>5, BoardWith DEF Boards
  <2>7. QED
    BY <1>3, <2>3, <2>4, <2>6
<1>5. ASSUME NEW c \in Boards, NEW a \in Address, NEW v \in Byte
      PROVE  BoardWrite(c, a, v) \in Boards
  <2> DEFINE n == c.effects + 1
             d == [c EXCEPT !.effects = n]
             w == Write(d.uvi, Window(a), v)
  <2>1. n \in Nat
    BY BoardWith DEF Boards
  <2>2. BoardWrite(c, a, v) \in {d, [d EXCEPT !.uvi = w]}
    BY DEF BoardWrite
  <2> HIDE DEF n
  <2>3. d \in Boards
    BY <2>1, BoardWith DEF Boards
  <2> HIDE DEF d
  <2>4. w \in UvisAround(b.uvi)
    <3>1. d.uvi \in UvisAround(b.uvi)
      BY <2>3, BoardWith DEF Boards
    <3>2. QED
      BY <1>1, <1>2, <3>1, WindowType
  <2> HIDE DEF w
  <2>5. [d EXCEPT !.uvi = w] \in Boards
    BY <2>3, <2>4, BoardWith DEF Boards
  <2>6. QED
    BY <2>2, <2>3, <2>5
<1>6. ASSUME NEW c \in Boards
      PROVE  BoardSense(c) \in [v : {0, 1}, bus : Boards]
  <2> DEFINE r == c.reads \cup {"sense"}
             v == IF Sense(c.uvi) THEN 1 ELSE 0
             d == [c EXCEPT !.reads = r]
  <2>1. r \in SUBSET Inputs
    <3>1. c.reads \in SUBSET Inputs
      BY BoardWith DEF Boards
    <3>2. QED
      BY <3>1 DEF Inputs
  <2>2. BoardSense(c) = [v |-> v, bus |-> d]
    BY DEF BoardSense
  <2> HIDE DEF r
  <2>3. d \in Boards
    BY <2>1, BoardWith DEF Boards
  <2>4. v \in {0, 1}
    OBVIOUS
  <2> HIDE DEF d, v
  <2>5. QED
    BY <2>2, <2>3, <2>4
<1>7. ASSUME NEW c \in Boards, NEW level \in {0, 1}
      PROVE  BoardFlag(c, level) \in Boards
  <2> DEFINE n == c.effects + 1
             f == level = 1
             d == [c EXCEPT !.effects = n]
  <2>1. n \in Nat /\ f \in BOOLEAN
    BY BoardWith DEF Boards
  <2>2. BoardFlag(c, level) = [d EXCEPT !.flag = f]
    BY DEF BoardFlag
  <2> HIDE DEF n, f
  <2>3. d \in Boards
    BY <2>1, BoardWith DEF Boards
  <2> HIDE DEF d
  <2>4. QED
    BY <2>1, <2>2, <2>3, BoardWith DEF Boards
<1>8. ASSUME NEW c \in Boards
      PROVE  BoardIntAck(c) \in Byte
  BY DEF BoardIntAck, Byte
<1>9. QED
  BY <1>4, <1>5, <1>6, <1>7, <1>8, Same DEF C!BusOK, Boards

(***************************************************************************)
(* The CPU on its board.                                                   *)
(***************************************************************************)

CpuOK(s) ==
    /\ s.clocks \in Nat
    /\ BoardOK(s.bus)
    /\ s \in C!Cpus({s.bus}, s.clocks)

\* A CPU on a bus of one set is, if its bus is of another, on a bus of the other.
LEMMA Rebased ==
    ASSUME NEW A, NEW B, NEW now, NEW s \in C!Cpus(A, now), s.bus \in B
    PROVE  s \in C!Cpus(B, now)
BY DEF C!Cpus

\* A step of it.
LEMMA CpuSteps ==
    ASSUME NEW s, CpuOK(s)
    PROVE  LET e == C!CpuStep(s)
           IN  /\ e.k \in 6 .. 18
               /\ CpuOK(e.s)
               /\ e.s.clocks = s.clocks + e.k
               /\ e.s.bus \in BoardsAround(s.bus)
<1> DEFINE k == C!CpuStep(s).k
           t == C!CpuStep(s).s
           now == s.clocks
           Boards == BoardsAround(s.bus)
<1>1. now \in Nat /\ s \in C!Cpus({s.bus}, now) /\ BoardOK(s.bus)
  BY DEF CpuOK
<1>2. C!BusOK(Boards) /\ s.bus \in Boards
  BY <1>1, BoardBus, BoardsAroundAre
<1>3. s \in C!Cpus(Boards, now)
  BY <1>1, <1>2, Rebased
<1> HIDE DEF Boards
<1>4. k \in 6 .. 18 /\ t \in C!Cpus(Boards, now + k)
  BY <1>1, <1>2, <1>3, C!StepType
<1> HIDE DEF k, t, now
<1>5. now + k \in Nat
  BY <1>1, <1>4
<1>6. t.clocks = now + k /\ t.bus \in Boards
  BY <1>4, <1>5, C!Parts
<1>7. BoardOK(t.bus)
  BY <1>1, <1>6, BoardsAroundAre DEF Boards
<1>8. t \in C!Cpus({t.bus}, t.clocks)
  BY <1>4, <1>6, Rebased
<1>9. CpuOK(t)
  BY <1>5, <1>6, <1>7, <1>8 DEF CpuOK
<1>10. QED
  BY <1>4, <1>6, <1>9 DEF k, t, now, Boards

\* A CPU with a part replaced.
LEMMA CpuWith ==
    ASSUME NEW s, CpuOK(s)
    PROVE  /\ \A b : BoardOK(b) => /\ CpuOK([s EXCEPT !.bus = b])
                                   /\ [s EXCEPT !.bus = b].bus = b
                                   /\ [s EXCEPT !.bus = b].clocks = s.clocks
                                   /\ [s EXCEPT !.bus = b].pc = s.pc
           /\ \A n \in Nat : /\ CpuOK([s EXCEPT !.clocks = n])
                             /\ [s EXCEPT !.clocks = n].bus = s.bus
                             /\ [s EXCEPT !.clocks = n].clocks = n
                             /\ [s EXCEPT !.clocks = n].pc = s.pc
           /\ \A i \in 0 .. 6, v \in Byte : /\ CpuOK([s EXCEPT !.r[i] = v])
                                           /\ [s EXCEPT !.r[i] = v].bus = s.bus
                                           /\ [s EXCEPT !.r[i] = v].clocks = s.clocks
                                           /\ [s EXCEPT !.r[i] = v].pc = s.pc
<1>1. s \in C!Cpus({s.bus}, s.clocks) /\ s.clocks \in Nat /\ BoardOK(s.bus)
  BY DEF CpuOK
<1>2. ASSUME NEW b, BoardOK(b)
      PROVE  /\ CpuOK([s EXCEPT !.bus = b])
             /\ [s EXCEPT !.bus = b].bus = b
             /\ [s EXCEPT !.bus = b].clocks = s.clocks
             /\ [s EXCEPT !.bus = b].pc = s.pc
  <2> DEFINE t == [s EXCEPT !.bus = b]
  <2>1. t.bus = b /\ t.clocks = s.clocks /\ t.pc = s.pc /\ t \in C!Cpus({b}, s.clocks)
    BY <1>1 DEF C!Cpus
  <2> HIDE DEF t
  <2>2. CpuOK(t)
    BY <1>1, <1>2, <2>1 DEF CpuOK
  <2>3. QED
    BY <2>1, <2>2 DEF t
<1>3. ASSUME NEW n \in Nat
      PROVE  /\ CpuOK([s EXCEPT !.clocks = n])
             /\ [s EXCEPT !.clocks = n].bus = s.bus
             /\ [s EXCEPT !.clocks = n].clocks = n
             /\ [s EXCEPT !.clocks = n].pc = s.pc
  <2> DEFINE t == [s EXCEPT !.clocks = n]
  <2>1. t.bus = s.bus /\ t.clocks = n /\ t.pc = s.pc /\ t \in C!Cpus({s.bus}, n)
    BY <1>1 DEF C!Cpus
  <2> HIDE DEF t
  <2>2. CpuOK(t)
    BY <1>1, <2>1 DEF CpuOK
  <2>3. QED
    BY <2>1, <2>2 DEF t
<1>4. ASSUME NEW i \in 0 .. 6, NEW v \in Byte
      PROVE  /\ CpuOK([s EXCEPT !.r[i] = v])
             /\ [s EXCEPT !.r[i] = v].bus = s.bus
             /\ [s EXCEPT !.r[i] = v].clocks = s.clocks
             /\ [s EXCEPT !.r[i] = v].pc = s.pc
  <2> DEFINE t == [s EXCEPT !.r[i] = v]
  <2>1. t \in C!Cpus({s.bus}, s.clocks)
    BY <1>1, C!WithRegister, Same
  <2>2. t.bus = s.bus /\ t.clocks = s.clocks /\ t.pc = s.pc
    BY <1>1 DEF C!Cpus
  <2> HIDE DEF t
  <2>3. CpuOK(t)
    BY <1>1, <2>1, <2>2 DEF CpuOK
  <2>4. QED
    BY <2>2, <2>3 DEF t
<1>5. QED
  BY <1>2, <1>3, <1>4

(***************************************************************************)
(* The machine: the beam is where the clock says.                          *)
(***************************************************************************)

WholeMachine(m) ==
    m \in [ cpu : {m.cpu}, acc : {m.acc}, idle : {m.idle}, fast : {m.fast},
            breaks : {m.breaks}, nbreak : {m.nbreak}, cov : {m.cov}, call : {m.call} ]

\* The clock is k clocks ahead of the lines drawn and the remainder kept.
Ahead(m, k) ==
    m.cpu.clocks * ClocksDen
        = Beam(m.cpu.bus.uvi) * ClocksNum + m.acc + k * ClocksDen

\* A machine whose beam is k clocks behind.
Behind(m, k) ==
    /\ WholeMachine(m)
    /\ CpuOK(m.cpu)
    /\ m.acc \in 0 .. ClocksNum - 1
    /\ Ahead(m, k)

\* What a turn leaves alone.
KeepsHost(m, w) ==
    /\ w.fast = m.fast /\ w.breaks = m.breaks /\ w.nbreak = m.nbreak /\ w.call = m.call

\* Rows it may not make stale.
KeepsRows(u, w) ==
    /\ w.renderFrom = u.renderFrom
    /\ \A n \in Int : n >= w.renderFrom /\ Fresh(u, n) => Fresh(w, n)

\* A machine with its CPU and its remainder replaced.
LEMMA MachineWith ==
    ASSUME NEW m, WholeMachine(m), NEW a, NEW s
    PROVE  LET w == [m EXCEPT !.acc = a, !.cpu = s]
           IN  /\ WholeMachine(w) /\ w.acc = a /\ w.cpu = s /\ w.idle = m.idle
               /\ w.cov = m.cov /\ KeepsHost(m, w)
BY DEF WholeMachine, KeepsHost

\* Catching up draws the lines that became due, and keeps the rest.
LEMMA CatchingUp ==
    ASSUME NEW m, NEW k \in Nat, Behind(m, k)
    PROVE  LET w == CatchUp(m, k)
           IN  /\ Behind(w, 0)
               /\ w.cpu.clocks = m.cpu.clocks /\ w.cpu.pc = m.cpu.pc
               /\ KeepsHost(m, w) /\ w.idle = m.idle /\ w.cov = m.cov
               /\ KeepsRows(m.cpu.bus.uvi, w.cpu.bus.uvi)
               /\ Beam(w.cpu.bus.uvi)
                     = Beam(m.cpu.bus.uvi) + (m.acc + k * ClocksDen) \div ClocksNum
<1> DEFINE total == m.acc + k * ClocksDen
           n == total \div ClocksNum
           a == total % ClocksNum
           b == m.cpu.bus
           d == DrawLines(b, n)
           s == [m.cpu EXCEPT !.bus = d]
           w == [m EXCEPT !.acc = a, !.cpu = s]
<1>1. CatchUp(m, k) = w
  BY DEF CatchUp
<1>2. /\ WholeMachine(m) /\ CpuOK(m.cpu) /\ m.acc \in Nat /\ BoardOK(b)
      /\ ClocksNum \in Nat \ {0} /\ ClocksDen \in Nat
  BY MachineAssumption DEF Behind, CpuOK
<1>3. total \in Nat
  <2>1. k * ClocksDen \in Nat
    BY <1>2
  <2>2. QED
    BY <1>2, <2>1
<1>4. n \in Nat /\ a \in 0 .. ClocksNum - 1 /\ total = n * ClocksNum + a
  <2> HIDE DEF total
  <2>1. QED
    BY <1>2, <1>3, Division
<1> HIDE DEF n, a
<1>5. /\ d = [b EXCEPT !.uvi = d.uvi]
      /\ UviOK(d.uvi)
      /\ Beam(d.uvi) = Beam(b.uvi) + n
      /\ KeepsRows(b.uvi, d.uvi)
  BY <1>2, <1>4, Drawing DEF KeepsRows
<1> HIDE DEF d
<1>6. BoardOK(d)
  <2> DEFINE v == d.uvi
  <2>1. d = [b EXCEPT !.uvi = v]
    BY <1>5
  <2>2. UviOK(v)
    BY <1>5
  <2> HIDE DEF v
  <2>3. BoardOK([b EXCEPT !.uvi = v])
    BY <1>2, <2>2 DEF BoardOK
  <2>4. QED
    BY <2>1, <2>3
<1>7. /\ CpuOK(s) /\ s.bus = d /\ s.clocks = m.cpu.clocks /\ s.pc = m.cpu.pc
  BY <1>2, <1>6, CpuWith
<1> HIDE DEF s
<1>8. /\ WholeMachine(w) /\ w.acc = a /\ w.cpu = s /\ w.idle = m.idle
      /\ w.cov = m.cov /\ KeepsHost(m, w)
  BY <1>2, MachineWith
<1> HIDE DEF w
<1>9. Ahead(w, 0)
  <2> DEFINE now == m.cpu.clocks * ClocksDen
             x == Beam(b.uvi) * ClocksNum
             y == n * ClocksNum
             z == (Beam(b.uvi) + n) * ClocksNum
  <2>1. Beam(b.uvi) \in Nat
    BY <1>2, BeamType DEF BoardOK
  <2>2. now = x + total /\ total = y + a
    <3> DEFINE q == k * ClocksDen
    <3>1. q \in Nat /\ x \in Nat
      BY <1>2, <2>1
    <3>2. now = x + m.acc + q
      BY DEF Behind, Ahead
    <3>3. total = m.acc + q
      OBVIOUS
    <3> HIDE DEF q, x, now, total
    <3>4. now = x + total
      BY <1>2, <3>1, <3>2, <3>3
    <3>5. QED
      BY <1>4, <3>4 DEF total
  <2>3. z = x + y /\ x \in Nat /\ y \in Nat
    <3>1. \A p, q, r \in Nat : (p + q) * r = p * r + q * r /\ p * r \in Nat /\ q * r \in Nat
      OBVIOUS
    <3>2. QED
      BY <1>2, <1>4, <2>1, <3>1
  <2>4. 0 * ClocksDen = 0 /\ a \in Nat
    BY <1>2, <1>4
  <2>5. Ahead(w, 0) <=> now = z + a + 0 * ClocksDen
    BY <1>5, <1>7, <1>8 DEF Ahead
  <2> HIDE DEF now, x, y, z, total
  <2>6. QED
    BY <1>3, <2>2, <2>3, <2>4, <2>5
<1>10. Behind(w, 0)
  BY <1>4, <1>7, <1>8, <1>9 DEF Behind
<1>11. QED
  BY <1>1, <1>5, <1>7, <1>8, <1>10 DEF n

\* The beam's frame.
LEMMA FrameOfBeam ==
    ASSUME NEW u, UviOK(u)
    PROVE  /\ u.frames \in Nat /\ u.line \in 0 .. Lines - 1 /\ Lines \in Nat \ {0}
           /\ u.frames = Beam(u) \div Lines /\ u.line = Beam(u) % Lines
<1>1. u.frames \in Nat /\ u.line \in 0 .. Lines - 1 /\ Lines \in Nat \ {0}
  BY UviAssumption DEF UviOK, UviTypeOK
<1>2. QED
  BY <1>1, Quotient DEF Beam

\* A few lines on, short of the last of the frame, it is the same frame.
LEMMA SameFrame ==
    ASSUME NEW u, UviOK(u), NEW w, UviOK(w), NEW n \in Nat,
           u.line + n < Lines, Beam(w) \in Beam(u) .. Beam(u) + n
    PROVE  w.frames = u.frames
<1>1. /\ u.frames \in Nat /\ u.line \in 0 .. Lines - 1 /\ Lines \in Nat \ {0}
      /\ u.frames = Beam(u) \div Lines /\ w.frames = Beam(w) \div Lines
  BY FrameOfBeam
<1>2. Beam(u) \in Nat /\ Beam(w) \in Nat
  BY BeamType
<1>3. (u.frames + 1) * Lines = u.frames * Lines + Lines /\ u.frames * Lines \in Nat
  BY <1>1, OneMore
<1>4. Beam(w) < (Beam(u) \div Lines + 1) * Lines
  <2> DEFINE x == u.frames * Lines
             y == (u.frames + 1) * Lines
  <2>1. Beam(u) = x + u.line /\ y = x + Lines /\ x \in Nat
    BY <1>3 DEF Beam
  <2> HIDE DEF x, y
  <2>2. Beam(w) < y
    BY <1>1, <1>2, <2>1
  <2>3. QED
    BY <1>1, <2>2 DEF y
<1> DEFINE a == Beam(u)
           b == Beam(w)
<1>5. a \in Nat /\ b \in Nat /\ a <= b /\ b < (a \div Lines + 1) * Lines
  BY <1>2, <1>4
<1> HIDE DEF a, b
<1>6. b \div Lines = a \div Lines
  BY <1>1, <1>5, SameBlock
<1>7. QED
  BY <1>1, <1>6 DEF a, b

\* Time passes without instructions.  Within the budget of some lines short of
\* the frame's last, the frame stays the same.
LEMMA Advancing ==
    ASSUME NEW m, Behind(m, 0), NEW k \in Nat
    PROVE  LET w == Advance(m, k)
           IN  /\ Behind(w, 0)
               /\ w.cpu.clocks = m.cpu.clocks + k /\ w.cpu.pc = m.cpu.pc
               /\ KeepsHost(m, w) /\ w.idle = m.idle /\ w.cov = m.cov
               /\ KeepsRows(m.cpu.bus.uvi, w.cpu.bus.uvi)
               /\ \A n \in Nat : m.cpu.bus.uvi.line + n < Lines
                                 /\ k * ClocksDen <= Budget(m, n) =>
                     w.cpu.bus.uvi.frames = m.cpu.bus.uvi.frames
<1> DEFINE c == m.cpu.clocks + k
           t == [m.cpu EXCEPT !.clocks = c]
           l == [m EXCEPT !.cpu = t]
           w == CatchUp(l, k)
           u == m.cpu.bus.uvi
<1>1. Advance(m, k) = w
  BY DEF Advance
<1>2. /\ WholeMachine(m) /\ CpuOK(m.cpu) /\ m.acc \in 0 .. ClocksNum - 1 /\ UviOK(u)
      /\ m.cpu.clocks \in Nat
      /\ ClocksNum \in Nat \ {0} /\ ClocksDen \in Nat \ {0}
  BY MachineAssumption DEF Behind, CpuOK, BoardOK
<1>3. c \in Nat
  BY <1>2
<1>4. CpuOK(t) /\ t.bus = m.cpu.bus /\ t.clocks = c /\ t.pc = m.cpu.pc
  BY <1>2, <1>3, CpuWith
<1> HIDE DEF t
<1>5. /\ WholeMachine(l) /\ l.cpu = t /\ l.acc = m.acc /\ l.idle = m.idle /\ l.cov = m.cov
      /\ KeepsHost(m, l)
  BY <1>2 DEF WholeMachine, KeepsHost
<1> HIDE DEF l
<1>6. Ahead(l, k)
  <2> DEFINE x == m.cpu.clocks * ClocksDen
             y == k * ClocksDen
             z == Beam(u) * ClocksNum
             v == c * ClocksDen
  <2>1. v = x + y
    BY <1>2
  <2>2. Beam(u) \in Nat
    BY <1>2, BeamType
  <2>3. z \in Nat /\ y \in Nat /\ x \in Nat
    BY <1>2, <2>2
  <2>4. x = z + m.acc
    <3>1. x = z + m.acc + 0 * ClocksDen
      BY DEF Behind, Ahead
    <3>2. 0 * ClocksDen = 0
      BY <1>2
    <3> HIDE DEF x, z
    <3>3. QED
      BY <1>2, <2>3, <3>1, <3>2
  <2>5. Ahead(l, k) <=> v = z + m.acc + y
    BY <1>4, <1>5 DEF Ahead
  <2> HIDE DEF x, y, z, v
  <2>6. QED
    BY <2>1, <2>4, <2>5
<1>7. Behind(l, k)
  BY <1>2, <1>4, <1>5, <1>6 DEF Behind
<1>8. /\ Behind(w, 0)
      /\ w.cpu.clocks = c /\ w.cpu.pc = m.cpu.pc
      /\ KeepsHost(l, w) /\ w.idle = m.idle /\ w.cov = m.cov
      /\ KeepsRows(u, w.cpu.bus.uvi)
      /\ Beam(w.cpu.bus.uvi) = Beam(u) + (m.acc + k * ClocksDen) \div ClocksNum
  BY <1>4, <1>5, <1>7, CatchingUp
<1>9. ASSUME NEW n \in Nat, u.line + n < Lines, k * ClocksDen <= Budget(m, n)
      PROVE  w.cpu.bus.uvi.frames = u.frames
  <2> DEFINE q == k * ClocksDen
             total == m.acc + q
             p == n + 1
             r == p * ClocksNum
  <2>1. q \in Nat /\ p \in Nat /\ r \in Nat
    <3>1. p \in Nat
      OBVIOUS
    <3> HIDE DEF p
    <3>2. QED
      BY <1>2, <3>1
  <2>2. q <= r - 1 - m.acc
    BY <1>9 DEF Budget
  <2> HIDE DEF q, r
  <2>3. total \in Nat /\ total < r
    BY <1>2, <2>1, <2>2
  <2> HIDE DEF total, p
  <2>4. total \div ClocksNum < p /\ total \div ClocksNum \in Nat
    <3>1. total < p * ClocksNum
      BY <2>3 DEF r
    <3>2. QED
      BY <1>2, <2>1, <2>3, <3>1, Blocks, Division
  <2>5. Beam(w.cpu.bus.uvi) = Beam(u) + total \div ClocksNum
    BY <1>8 DEF total, q
  <2>6. UviOK(w.cpu.bus.uvi) /\ Beam(u) \in Nat
    BY <1>2, <1>8, BeamType DEF Behind, CpuOK, BoardOK
  <2>7. Beam(w.cpu.bus.uvi) \in Beam(u) .. Beam(u) + n
    BY <2>4, <2>5, <2>6 DEF p
  <2> HIDE DEF w, u
  <2>8. QED
    BY <1>2, <1>9, <2>6, <2>7, SameFrame
<1>10. KeepsHost(m, w)
  BY <1>5, <1>8 DEF KeepsHost
<1> HIDE DEF w
<1>11. QED
  BY <1>1, <1>8, <1>9, <1>10

(***************************************************************************)
(* Machine::step.                                                          *)
(***************************************************************************)

\* Coverage counts up to 255 at addresses.
CoverageOK(cov) ==
    /\ cov \in [on : BOOLEAN, count : {cov.count}]
    /\ \A a \in DOMAIN cov.count : a \in Address /\ cov.count[a] \in 1 .. 255

\* A machine between two instructions.
MachineOK(m) ==
    /\ Behind(m, 0)
    /\ CoverageOK(m.cov)
    /\ m.idle # Nothing => m.idle.clocks \in 0 .. m.cpu.clocks

\* Counting the pc changes the coverage only, and saturates.
LEMMA Covering ==
    ASSUME NEW m, MachineOK(m)
    PROVE  \E c : /\ Cover(m) = [m EXCEPT !.cov = c]
                  /\ CoverageOK(c) /\ c.on = m.cov.on
<1> DEFINE s == m.cpu
           f == m.cov.count
           n == IF s.pc \in DOMAIN f THEN f[s.pc] ELSE 0
           x == Least(n + 1, 255)
           g == [a \in DOMAIN f \cup {s.pc} |-> IF a = s.pc THEN x ELSE f[a]]
           c == [m.cov EXCEPT !.count = g]
<1>1. /\ CoverageOK(m.cov) /\ WholeMachine(m) /\ s.pc \in Address
      /\ \A a \in DOMAIN f : a \in Address /\ f[a] \in 1 .. 255
  <2>1. s.pc \in C!Address
    BY C!Parts DEF MachineOK, Behind, CpuOK
  <2>2. QED
    BY <2>1, Same DEF MachineOK, Behind, CoverageOK
<1>2. Cover(m) \in {m, [m EXCEPT !.cov = c]}
  BY DEF Cover
<1>3. x \in 1 .. 255
  <2>1. n \in 0 .. 255
    <3>1. CASE s.pc \in DOMAIN f
      <4>1. f[s.pc] \in 1 .. 255
        BY <1>1, <3>1
      <4>2. \A k \in 1 .. 255 : k \in 0 .. 255
        OBVIOUS
      <4>3. QED
        BY <3>1, <4>1, <4>2
    <3>2. CASE s.pc \notin DOMAIN f
      BY <3>2
    <3>3. QED
      BY <3>1, <3>2
  <2> HIDE DEF n
  <2>2. QED
    BY <2>1 DEF Least
<1> HIDE DEF x
<1>4. \A a \in DOMAIN g : a \in Address /\ g[a] \in 1 .. 255
  BY <1>1, <1>3
<1> HIDE DEF g
<1>5. c.count = g /\ c.on = m.cov.on /\ c \in [on : BOOLEAN, count : {c.count}]
  BY <1>1 DEF CoverageOK
<1> HIDE DEF c
<1>6. CoverageOK(c)
  BY <1>4, <1>5 DEF CoverageOK
<1>7. m = [m EXCEPT !.cov = m.cov]
  BY <1>1 DEF WholeMachine
<1>8. QED
  BY <1>1, <1>2, <1>5, <1>6, <1>7

\* One instruction, and the lines it spans.
LEMMA Stepping ==
    ASSUME NEW m, MachineOK(m)
    PROVE  LET w == Step(m)
           IN  /\ MachineOK(w)
               /\ w.cpu.clocks \in m.cpu.clocks + 6 .. m.cpu.clocks + 18
               /\ KeepsHost(m, w) /\ w.idle = m.idle /\ w.cov.on = m.cov.on
               /\ KeepsRows(m.cpu.bus.uvi, w.cpu.bus.uvi)
<1> DEFINE k == C!CpuStep(m.cpu).k
           t == C!CpuStep(m.cpu).s
           u == m.cpu.bus.uvi
<1>1. PICK c : /\ Cover(m) = [m EXCEPT !.cov = c]
               /\ CoverageOK(c) /\ c.on = m.cov.on
  BY Covering
<1> DEFINE l == [[m EXCEPT !.cov = c] EXCEPT !.cpu = t]
           w == CatchUp(l, k)
<1>2. Step(m) = w
  BY <1>1 DEF Step
<1>3. /\ WholeMachine(m) /\ CpuOK(m.cpu) /\ m.acc \in 0 .. ClocksNum - 1
      /\ m.cpu.clocks \in Nat /\ BoardOK(m.cpu.bus) /\ UviOK(u)
      /\ ClocksNum \in Nat \ {0} /\ ClocksDen \in Nat \ {0}
  BY MachineAssumption DEF MachineOK, Behind, CpuOK, BoardOK
<1>4. k \in 6 .. 18 /\ CpuOK(t) /\ t.clocks = m.cpu.clocks + k
      /\ t.bus \in BoardsAround(m.cpu.bus)
  BY <1>3, CpuSteps
<1>5. /\ Beam(t.bus.uvi) = Beam(u) /\ t.bus.uvi.renderFrom = u.renderFrom
      /\ \A n : Fresh(t.bus.uvi, n) = Fresh(u, n)
  <2>1. t.bus.uvi \in UvisAround(u)
    BY <1>3, <1>4, BoardsAroundAre
  <2>2. QED
    BY <1>3, <2>1, UvisAroundIs
<1> HIDE DEF k, t
<1>6. /\ WholeMachine(l) /\ l.cpu = t /\ l.acc = m.acc /\ l.idle = m.idle /\ l.cov = c
      /\ KeepsHost(m, l)
  BY <1>3 DEF WholeMachine, KeepsHost
<1> HIDE DEF l
<1>7. Ahead(l, k)
  <2> DEFINE x == m.cpu.clocks * ClocksDen
             y == k * ClocksDen
             z == Beam(u) * ClocksNum
             v == (m.cpu.clocks + k) * ClocksDen
  <2>1. v = x + y
    BY <1>3, <1>4
  <2>2. Beam(u) \in Nat
    BY <1>3, BeamType
  <2>3. z \in Nat /\ y \in Nat /\ x \in Nat
    BY <1>3, <1>4, <2>2
  <2>4. x = z + m.acc
    <3>1. x = z + m.acc + 0 * ClocksDen
      BY DEF MachineOK, Behind, Ahead
    <3>2. 0 * ClocksDen = 0
      BY <1>3
    <3> HIDE DEF x, z
    <3>3. QED
      BY <1>3, <2>3, <3>1, <3>2
  <2>5. Ahead(l, k) <=> v = z + m.acc + y
    BY <1>4, <1>5, <1>6 DEF Ahead
  <2> HIDE DEF x, y, z, v
  <2>6. QED
    BY <2>1, <2>4, <2>5
<1>8. Behind(l, k)
  BY <1>3, <1>4, <1>6, <1>7 DEF Behind
<1>9. /\ Behind(w, 0)
      /\ w.cpu.clocks = t.clocks /\ w.cpu.pc = t.pc
      /\ KeepsHost(l, w) /\ w.idle = l.idle /\ w.cov = l.cov
      /\ KeepsRows(t.bus.uvi, w.cpu.bus.uvi)
  <2>1. k \in Nat
    BY <1>4
  <2>2. QED
    BY <1>6, <1>8, <2>1, CatchingUp
<1> HIDE DEF w
<1>10. KeepsHost(m, w) /\ KeepsRows(u, w.cpu.bus.uvi)
  BY <1>5, <1>6, <1>9 DEF KeepsHost, KeepsRows
<1>11. w.idle # Nothing => w.idle.clocks \in 0 .. w.cpu.clocks
  <2>1. m.idle # Nothing => m.idle.clocks \in 0 .. m.cpu.clocks
    BY DEF MachineOK
  <2>2. w.idle = m.idle /\ w.cpu.clocks = m.cpu.clocks + k
    BY <1>4, <1>6, <1>9
  <2>3. QED
    BY <1>3, <1>4, <2>1, <2>2
<1>12. MachineOK(w)
  BY <1>1, <1>6, <1>9, <1>11 DEF MachineOK
<1>13. QED
  BY <1>1, <1>2, <1>3, <1>4, <1>6, <1>9, <1>10, <1>12

(***************************************************************************)
(* The fast path.                                                          *)
(***************************************************************************)

\* As many of a size as divide a number fit into it.
LEMMA Within ==
    ASSUME NEW b \in Nat, NEW d \in Nat \ {0}, NEW n \in Nat, n <= b \div d
    PROVE  n * d <= b
<1>1. b \div d \in Nat /\ b % d \in Nat /\ b = (b \div d) * d + (b % d)
  BY Division
<1>2. n * d <= (b \div d) * d /\ n * d \in Nat /\ (b \div d) * d \in Nat
  BY <1>1, Monotone
<1> DEFINE x == n * d
           y == (b \div d) * d
           z == b % d
<1>3. x <= y /\ x \in Nat /\ y \in Nat /\ z \in Nat /\ b = y + z
  BY <1>1, <1>2
<1> HIDE DEF x, y, z
<1>4. x <= b
  BY <1>3
<1>5. QED
  BY <1>4 DEF x

\* There are clocks left, or none, before the line after the next n.
LEMMA BudgetType ==
    ASSUME NEW m, m.acc \in 0 .. ClocksNum - 1, NEW n \in Nat
    PROVE  Budget(m, n) \in Nat
<1> DEFINE x == n * ClocksNum
           y == (n + 1) * ClocksNum
<1>1. ClocksNum \in Nat \ {0}
  BY MachineAssumption
<1>2. x \in Nat /\ y = x + ClocksNum
  BY <1>1, OneMore
<1>3. Budget(m, n) = y - 1 - m.acc
  BY DEF Budget
<1> HIDE DEF x, y
<1>4. QED
  BY <1>1, <1>2, <1>3

\* From m the machine skips to w: to a later clock of the same frame, and to no
\* clock past the limit.
Skips(m, w, limit) ==
    /\ Behind(w, 0)
    /\ w.cpu.clocks >= m.cpu.clocks
    /\ w.cpu.clocks = m.cpu.clocks \/ w.cpu.clocks <= limit
    /\ w.cpu.bus.uvi.frames = m.cpu.bus.uvi.frames
    /\ w.cpu.pc = m.cpu.pc
    /\ KeepsHost(m, w) /\ w.idle = m.idle /\ w.cov = m.cov
    /\ KeepsRows(m.cpu.bus.uvi, w.cpu.bus.uvi)

\* A machine may skip nothing, and one skip may follow another.
LEMMA SkipsNothing ==
    ASSUME NEW m, Behind(m, 0), NEW limit
    PROVE  Skips(m, m, limit)
<1>1. m.cpu.clocks \in Nat
  BY DEF Behind, CpuOK
<1>2. KeepsHost(m, m) /\ KeepsRows(m.cpu.bus.uvi, m.cpu.bus.uvi)
  BY DEF KeepsHost, KeepsRows
<1>3. QED
  BY <1>1, <1>2 DEF Skips

\* Two skips make one.
LEMMA SkipsTwice ==
    ASSUME NEW m, m.cpu.clocks \in Nat, NEW limit \in Nat,
           NEW w, Skips(m, w, limit), NEW x, Skips(w, x, limit)
    PROVE  Skips(m, x, limit)
<1>1. w.cpu.clocks \in Nat /\ x.cpu.clocks \in Nat
  BY DEF Skips, Behind, CpuOK
<1>2. /\ x.cpu.clocks >= m.cpu.clocks
      /\ x.cpu.clocks = m.cpu.clocks \/ x.cpu.clocks <= limit
  BY <1>1 DEF Skips
<1>3. KeepsHost(m, x)
  BY DEF Skips, KeepsHost
<1>4. KeepsRows(m.cpu.bus.uvi, x.cpu.bus.uvi)
  BY DEF Skips, KeepsRows
<1>5. QED
  BY <1>2, <1>3, <1>4 DEF Skips

\* Clocks within the limit and within the budget of a few lines may be skipped.
LEMMA SkipsAhead ==
    ASSUME NEW m, Behind(m, 0), NEW k \in Nat, NEW limit \in Nat,
           k = 0 \/ m.cpu.clocks + k <= limit,
           NEW n \in Nat, m.cpu.bus.uvi.line + n < Lines, k * ClocksDen <= Budget(m, n)
    PROVE  Skips(m, Advance(m, k), limit)
<1> DEFINE w == Advance(m, k)
<1>1. /\ Behind(w, 0)
      /\ w.cpu.clocks = m.cpu.clocks + k /\ w.cpu.pc = m.cpu.pc
      /\ KeepsHost(m, w) /\ w.idle = m.idle /\ w.cov = m.cov
      /\ KeepsRows(m.cpu.bus.uvi, w.cpu.bus.uvi)
      /\ w.cpu.bus.uvi.frames = m.cpu.bus.uvi.frames
  BY Advancing
<1>2. m.cpu.clocks \in Nat
  BY DEF Behind, CpuOK
<1> HIDE DEF w
<1>3. /\ w.cpu.clocks >= m.cpu.clocks
      /\ w.cpu.clocks = m.cpu.clocks \/ w.cpu.clocks <= limit
  BY <1>1, <1>2
<1>4. QED
  BY <1>1, <1>3 DEF w, Skips

\* The larger of two numbers, and the smallest of three.
LEMMA Larger ==
    ASSUME NEW a \in Int, NEW b \in Int
    PROVE  Max({a, b}) \in {a, b} /\ a <= Max({a, b}) /\ b <= Max({a, b})
<1> DEFINE S == {a, b}
<1>1. \E x \in S : \A y \in S : x >= y
  OBVIOUS
<1>2. Max(S) \in S /\ \A y \in S : Max(S) >= y
  <2> HIDE DEF S
  <2>1. QED
    BY <1>1 DEF Max
<1>3. QED
  BY <1>2

\* What Min is of three numbers.
LEMMA Smallest3 ==
    ASSUME NEW a \in Int, NEW b \in Int, NEW c \in Int
    PROVE  /\ Min({a, b, c}) \in {a, b, c}
           /\ Min({a, b, c}) <= a /\ Min({a, b, c}) <= b /\ Min({a, b, c}) <= c
<1> DEFINE S == {a, b, c}
<1>1. \E x \in S : \A y \in S : x <= y
  <2>1. CASE a <= b /\ a <= c
    BY <2>1
  <2>2. CASE b <= a /\ b <= c
    BY <2>2
  <2>3. CASE c <= a /\ c <= b
    BY <2>3
  <2>4. QED
    BY <2>1, <2>2, <2>3
<1>2. Min(S) \in S /\ \A y \in S : Min(S) <= y
  <2> HIDE DEF S
  <2>1. QED
    BY <1>1 DEF Min
<1>3. QED
  BY <1>2

\* The lines a fast path may cross end before the frame does.
LEMMA FewLines ==
    ASSUME NEW u, UviOK(u), NEW s \in BOOLEAN, NEW c \in BOOLEAN
    PROVE  StableLines(u, s, c) \in Nat /\ u.line + StableLines(u, s, c) < Lines
<1>1. WholeUvi(u) /\ u.vscroll \in Byte /\ u.line \in 0 .. Lines - 1
  BY DEF UviOK, UviTypeOK
<1>2. QED
  BY <1>1, Horizon DEF StableLines

\* At a counting loop, its iterations are skipped.
LEMMA Counting ==
    ASSUME NEW m, Behind(m, 0), NEW limit \in Nat
    PROVE  Skips(m, CountLoop(m, limit), limit)
<1> DEFINE s == m.cpu
           op == BoardPeek(s.bus, s.pc)
           down == Bit(op, 32) = 1
           r == C!Reg(s, op % 4)
           taken == IF down THEN (r - 1) % 256 ELSE 255 - r
           no == FALSE
           lines == StableLines(s.bus.uvi, no, no)
           d == 9 * ClocksDen
           fit == Budget(m, lines) \div d
           left == Max({limit - s.clocks, 0})
           most == left \div 9
           k == Min({taken, fit, most})
           v == (IF down THEN r - k ELSE r + k) % 256
           t == C!SetReg(s, op % 4, v)
           w == [m EXCEPT !.cpu = t]
           j == 9 * k
<1>1. CountLoop(m, limit) \in
         {m, IF op \notin (216 .. 219) \cup (248 .. 251) \/ k = 0 THEN m ELSE Advance(w, j)}
  BY DEF CountLoop
<1> SUFFICES ASSUME op \in (216 .. 219) \cup (248 .. 251), k # 0
             PROVE  Skips(m, Advance(w, j), limit)
  BY <1>1, SkipsNothing
<1>2. /\ WholeMachine(m) /\ CpuOK(s) /\ m.acc \in 0 .. ClocksNum - 1
      /\ s.clocks \in Nat /\ BoardOK(s.bus) /\ UviOK(s.bus.uvi)
      /\ ClocksNum \in Nat \ {0} /\ ClocksDen \in Nat \ {0}
      /\ s \in C!Cpus({s.bus}, s.clocks)
  BY MachineAssumption DEF Behind, CpuOK, BoardOK
<1>3. op % 4 \in 0 .. 3
  OBVIOUS
<1> HIDE DEF op
<1>4. r \in Byte /\ C!Ri(s, op % 4) \in 0 .. 6
  BY <1>2, <1>3, C!RegisterType, Same
<1>5. r \in 0 .. 255
  BY <1>4 DEF Byte
<1> HIDE DEF r, down
<1>6. taken \in Nat
  BY <1>5
<1> HIDE DEF taken
<1>7. no \in BOOLEAN
  OBVIOUS
<1> HIDE DEF no
<1>8. lines \in Nat /\ s.bus.uvi.line + lines < Lines
  BY <1>2, <1>7, FewLines
<1> HIDE DEF lines
<1>9. Budget(m, lines) \in Nat /\ d \in Nat \ {0}
  BY <1>2, <1>8, BudgetType
<1> HIDE DEF d
<1>10. fit \in Nat
  BY <1>9, Division
<1>11. left \in Nat /\ (left > 0 => left = limit - s.clocks)
  <2> DEFINE x == limit - s.clocks
  <2>1. x \in Int /\ 0 \in Int
    BY <1>2
  <2>2. left = Max({x, 0})
    OBVIOUS
  <2> HIDE DEF x, left
  <2>3. left \in {x, 0} /\ x <= left /\ 0 <= left
    BY <2>1, <2>2, Larger
  <2>4. left \in Nat /\ (left > 0 => left = x)
    BY <2>1, <2>3
  <2>5. QED
    BY <2>4 DEF x
<1> HIDE DEF left
<1>12. most \in Nat
  BY <1>11, Division
<1> HIDE DEF fit, most
<1>13. k \in Nat /\ k <= fit /\ k <= most
  <2>1. taken \in Int /\ fit \in Int /\ most \in Int
    BY <1>6, <1>10, <1>12
  <2>2. k \in {taken, fit, most} /\ k <= fit /\ k <= most
    BY <2>1, Smallest3
  <2> HIDE DEF k
  <2>3. QED
    BY <1>6, <1>10, <1>12, <2>2
<1> HIDE DEF k
<1>14. v \in Byte
  <2>1. (r - k) % 256 \in Byte /\ (r + k) % 256 \in Byte
    BY <1>5, <1>13 DEF Byte
  <2>2. QED
    BY <2>1
<1> HIDE DEF v
<1>15. CpuOK(t) /\ t.bus = s.bus /\ t.clocks = s.clocks /\ t.pc = s.pc
  BY <1>2, <1>4, <1>14, CpuWith DEF C!SetReg
<1> HIDE DEF t
<1>16. /\ WholeMachine(w) /\ w.acc = m.acc /\ w.cpu = t /\ w.idle = m.idle
       /\ w.cov = m.cov /\ KeepsHost(m, w)
  BY <1>2 DEF WholeMachine, KeepsHost
<1> HIDE DEF w
<1>17. Behind(w, 0)
  BY <1>2, <1>15, <1>16 DEF Behind, Ahead
<1>18. Budget(w, lines) = Budget(m, lines)
  BY <1>16 DEF Budget
<1>19. j * ClocksDen <= Budget(w, lines)
  <2>1. k * d <= Budget(m, lines)
    <3>1. k <= Budget(m, lines) \div d
      BY <1>13 DEF fit
    <3>2. QED
      BY <1>9, <1>13, <3>1, Within
  <2>2. \A p, q \in Nat : p * (9 * q) = (9 * p) * q
    OBVIOUS
  <2>3. k * d = j * ClocksDen
    BY <1>2, <1>13, <2>2 DEF d
  <2>4. QED
    BY <1>18, <2>1, <2>3
<1>20. j \in Nat /\ w.cpu.clocks + j <= limit
  <2>1. k * 9 <= left
    <3>1. k <= left \div 9 /\ 9 \in Nat \ {0}
      BY <1>13 DEF most
    <3>2. QED
      BY <1>11, <1>13, <3>1, Within
  <2>2. QED
    BY <1>2, <1>11, <1>13, <1>15, <1>16, <2>1
<1> HIDE DEF j
<1>21. Skips(w, Advance(w, j), limit)
  BY <1>8, <1>15, <1>16, <1>17, <1>19, <1>20, SkipsAhead
<1>22. QED
  BY <1>15, <1>16, <1>21 DEF Skips, KeepsHost

\* Where a machine stands that checks whether its loop is idle: past the last
\* checkpoint, for an instruction has passed.
PastCheckpoint(m) == m.idle # Nothing => m.idle.clocks \in 0 .. m.cpu.clocks - 1

\* In an idle loop, its iterations are skipped.
LEMMA Idling ==
    ASSUME NEW m, Behind(m, 0), PastCheckpoint(m), NEW limit \in Nat
    PROVE  Skips(m, SkipIdle(m, limit), limit)
<1> DEFINE b == m.cpu.bus
           now == m.cpu.clocks
           k == now - m.idle.clocks
           sense == "sense" \in b.reads
           charline == "charline" \in b.reads
           lines == StableLines(b.uvi, sense, charline)
           fit == Budget(m, lines) \div (k * ClocksDen)
           left == Max({limit - now, 0})
           most == left \div k
           n == Least(fit, most)
           j == n * k
<1>1. Iterations(m, k, limit) = n
  BY DEF Iterations
<1>2. SkipIdle(m, limit) = IF Repeats(m) /\ n > 0 THEN Advance(m, j) ELSE m
  BY <1>1 DEF SkipIdle
<1>3. Repeats(m) => m.idle # Nothing
  BY DEF Repeats
<1> SUFFICES ASSUME m.idle # Nothing, n > 0
             PROVE  Skips(m, Advance(m, j), limit)
  BY <1>2, <1>3, SkipsNothing
<1>4. /\ m.acc \in 0 .. ClocksNum - 1 /\ now \in Nat /\ UviOK(b.uvi)
      /\ ClocksNum \in Nat \ {0} /\ ClocksDen \in Nat \ {0}
  BY MachineAssumption DEF Behind, CpuOK, BoardOK
<1>5. k \in Nat \ {0}
  <2>1. m.idle.clocks \in 0 .. now - 1
    BY DEF PastCheckpoint
  <2>2. QED
    BY <1>4, <2>1
<1> HIDE DEF k
<1>6. sense \in BOOLEAN /\ charline \in BOOLEAN
  OBVIOUS
<1> HIDE DEF sense, charline
<1>7. lines \in Nat /\ b.uvi.line + lines < Lines
  BY <1>4, <1>6, FewLines
<1> HIDE DEF lines
<1>8. Budget(m, lines) \in Nat
  BY <1>4, <1>7, BudgetType
<1>9. \A p, q \in Nat \ {0} : p * q \in Nat \ {0}
  OBVIOUS
<1>10. k * ClocksDen \in Nat \ {0}
  BY <1>4, <1>5, <1>9
<1>11. fit \in Nat
  BY <1>8, <1>10, Division
<1>12. left \in Nat /\ (left > 0 => left = limit - now)
  <2> DEFINE x == limit - now
  <2>1. x \in Int /\ 0 \in Int
    BY <1>4
  <2>2. left = Max({x, 0})
    OBVIOUS
  <2> HIDE DEF x, left
  <2>3. left \in {x, 0} /\ x <= left /\ 0 <= left
    BY <2>1, <2>2, Larger
  <2>4. left \in Nat /\ (left > 0 => left = x)
    BY <2>1, <2>3
  <2>5. QED
    BY <2>4 DEF x
<1> HIDE DEF left
<1>13. most \in Nat
  BY <1>5, <1>12, Division
<1>14. n \in Nat /\ n <= fit /\ n <= most
  <2> HIDE DEF fit, most
  <2>1. QED
    BY <1>11, <1>13 DEF Least
<1>15. n * (k * ClocksDen) <= Budget(m, lines)
  <2> DEFINE d == k * ClocksDen
  <2>1. n <= Budget(m, lines) \div d /\ d \in Nat \ {0} /\ n \in Nat
    BY <1>10, <1>14
  <2> HIDE DEF d, n
  <2>2. n * d <= Budget(m, lines)
    BY <1>8, <2>1, Within
  <2>3. QED
    BY <2>2 DEF d
<1>16. n * k <= left
  <2>1. n <= left \div k /\ n \in Nat
    BY <1>14
  <2> HIDE DEF n
  <2>2. QED
    BY <1>5, <1>12, <2>1, Within
<1> HIDE DEF n
<1>17. j * ClocksDen <= Budget(m, lines)
  <2>1. \A p, q, r \in Nat : p * (q * r) = (p * q) * r
    OBVIOUS
  <2>2. n * (k * ClocksDen) = j * ClocksDen
    BY <1>4, <1>5, <1>14, <2>1
  <2>3. QED
    BY <1>15, <2>2
<1>18. j \in Nat /\ now + j <= limit
  <2>1. j \in Nat \ {0}
    BY <1>5, <1>9, <1>14
  <2>2. j <= left
    BY <1>16
  <2> HIDE DEF j
  <2>3. QED
    BY <1>4, <1>12, <2>1, <2>2
<1> HIDE DEF j
<1>19. QED
  BY <1>7, <1>17, <1>18, SkipsAhead

\* idle_check: the loops, and a new checkpoint.
Checked(m, w, limit) ==
    /\ MachineOK(w)
    /\ w.cpu.clocks >= m.cpu.clocks
    /\ w.cpu.clocks = m.cpu.clocks \/ w.cpu.clocks <= limit
    /\ w.cpu.bus.uvi.frames = m.cpu.bus.uvi.frames
    /\ KeepsHost(m, w) /\ w.cov.on = m.cov.on
    /\ KeepsRows(m.cpu.bus.uvi, w.cpu.bus.uvi)

\* idle_check, whatever it noted, skips to no later than the limit.
LEMMA Checking ==
    ASSUME NEW m, MachineOK(m), PastCheckpoint(m), NEW from, NEW limit \in Nat
    PROVE  Checked(m, IdleCheck(m, from, limit), limit)
<1> DEFINE c == IF from = m.cpu.pc THEN CountLoop(m, limit) ELSE m
           e == SkipIdle(c, limit)
           b == e.cpu.bus
           x == Checkpoint(e)
           d == [b EXCEPT !.effects = 0, !.reads = {}]
           s == [e.cpu EXCEPT !.bus = d]
           w == [e EXCEPT !.idle = x, !.cpu = s]
<1>1. IdleCheck(m, from, limit) = w
  BY DEF IdleCheck
<1>2. Behind(m, 0) /\ m.cpu.clocks \in Nat /\ CoverageOK(m.cov)
  BY DEF MachineOK, Behind, CpuOK
<1>3. Skips(m, c, limit)
  BY <1>2, Counting, SkipsNothing
<1> HIDE DEF c
<1>4. Behind(c, 0) /\ PastCheckpoint(c)
  <2>1. /\ c.cpu.clocks \in Nat /\ c.cpu.clocks >= m.cpu.clocks /\ c.idle = m.idle
        /\ Behind(c, 0)
    BY <1>3 DEF Skips, Behind, CpuOK
  <2>2. QED
    BY <1>2, <2>1 DEF PastCheckpoint
<1>5. Skips(m, e, limit)
  BY <1>2, <1>3, <1>4, Idling, SkipsTwice
<1> HIDE DEF e
<1>6. /\ WholeMachine(e) /\ CpuOK(e.cpu) /\ BoardOK(b) /\ e.cpu.clocks \in Nat
      /\ e.acc \in 0 .. ClocksNum - 1
  BY <1>5 DEF Skips, Behind, CpuOK
<1>7. BoardOK(d) /\ d.uvi = b.uvi
  <2> DEFINE d1 == [b EXCEPT !.effects = 0]
             d2 == [d1 EXCEPT !.reads = {}]
  <2>1. d = d2
    OBVIOUS
  <2>2. b \in BoardsAround(b) /\ 0 \in Nat /\ {} \in SUBSET Inputs
    BY <1>6, BoardsAroundAre
  <2>3. d1 \in BoardsAround(b) /\ d1.uvi = b.uvi
    BY <1>6, <2>2, BoardWith DEF BoardOK
  <2> HIDE DEF d1
  <2>4. d2 \in BoardsAround(b)
    BY <2>2, <2>3, BoardWith
  <2>5. d2.uvi = b.uvi
    BY <2>3 DEF BoardsAround
  <2> HIDE DEF d, d2
  <2>6. QED
    BY <1>6, <2>1, <2>4, <2>5, BoardsAroundAre
<1> HIDE DEF d
<1>8. CpuOK(s) /\ s.bus = d /\ s.clocks = e.cpu.clocks
  BY <1>6, <1>7, CpuWith
<1> HIDE DEF s
<1>9. x.clocks = e.cpu.clocks
  BY DEF Checkpoint
<1> HIDE DEF x
<1>10. /\ WholeMachine(w) /\ w.acc = e.acc /\ w.cpu = s /\ w.idle = x /\ w.cov = e.cov
       /\ KeepsHost(e, w)
  BY <1>6 DEF WholeMachine, KeepsHost
<1> HIDE DEF w
<1>11. Behind(w, 0)
  <2>1. Ahead(e, 0)
    BY <1>5 DEF Skips, Behind
  <2>2. Ahead(w, 0)
    BY <1>7, <1>8, <1>10, <2>1 DEF Ahead
  <2>3. QED
    BY <1>6, <1>8, <1>10, <2>2 DEF Behind
<1>12. MachineOK(w)
  <2>1. w.idle.clocks \in 0 .. w.cpu.clocks
    BY <1>6, <1>8, <1>9, <1>10
  <2>2. CoverageOK(w.cov)
    BY <1>2, <1>5, <1>10 DEF Skips
  <2>3. QED
    BY <1>11, <2>1, <2>2 DEF MachineOK
<1>13. /\ KeepsHost(m, w) /\ w.cov = m.cov
       /\ KeepsRows(m.cpu.bus.uvi, w.cpu.bus.uvi)
       /\ w.cpu.bus.uvi.frames = m.cpu.bus.uvi.frames
       /\ w.cpu.clocks = e.cpu.clocks
  BY <1>5, <1>7, <1>8, <1>10 DEF Skips, KeepsHost
<1>14. QED
  BY <1>1, <1>5, <1>12, <1>13 DEF Checked, Skips

(***************************************************************************)
(* Turns of a run.                                                         *)
(***************************************************************************)

\* The runs a host may call.
Calls == [kind : {"frames", "clocks"}, target : Nat, first : BOOLEAN]

\* A turn is an instruction and, on the fast path and if the run goes on after
\* it, a skip.
LEMMA Turning ==
    ASSUME NEW m, MachineOK(m), m.call \in Calls
    PROVE  LET w == Turn(m)
           IN  \E x : /\ MachineOK(x)
                      /\ x.cpu.clocks \in m.cpu.clocks + 6 .. m.cpu.clocks + 18
                      /\ x.cov.on = m.cov.on /\ KeepsRows(m.cpu.bus.uvi, x.cpu.bus.uvi)
                      /\ x.fast = m.fast /\ x.breaks = m.breaks /\ x.nbreak = m.nbreak
                      /\ x.call = [m.call EXCEPT !.first = FALSE]
                      /\ \/ w = x
                         \/ Fast(m) /\ More(x) /\ Checked(x, w, Limit(m))
<1> DEFINE c == [m.call EXCEPT !.first = FALSE]
           l == [m EXCEPT !.call = c]
           x == Step(l)
           w == IdleCheck(x, m.cpu.pc, Limit(m))
<1>1. Turn(m) \in {x, IF Fast(m) /\ More(x) THEN w ELSE x}
  BY DEF Turn
<1>2. /\ l.cpu = m.cpu /\ l.acc = m.acc /\ l.idle = m.idle /\ l.cov = m.cov
      /\ l.fast = m.fast /\ l.breaks = m.breaks /\ l.nbreak = m.nbreak /\ l.call = c
      /\ WholeMachine(l)
  <2>1. WholeMachine(m)
    BY DEF MachineOK, Behind
  <2> HIDE DEF c
  <2>2. QED
    BY <2>1 DEF WholeMachine
<1> HIDE DEF l
<1>3. MachineOK(l)
  BY <1>2 DEF MachineOK, Behind, Ahead
<1>4. /\ MachineOK(x)
      /\ x.cpu.clocks \in l.cpu.clocks + 6 .. l.cpu.clocks + 18
      /\ KeepsHost(l, x) /\ x.idle = l.idle /\ x.cov.on = l.cov.on
      /\ KeepsRows(l.cpu.bus.uvi, x.cpu.bus.uvi)
  BY <1>3, Stepping
<1> HIDE DEF x
<1>5. PastCheckpoint(x)
  <2>1. m.idle # Nothing => m.idle.clocks \in 0 .. m.cpu.clocks
    BY DEF MachineOK
  <2>2. m.cpu.clocks \in Nat
    BY DEF MachineOK, Behind, CpuOK
  <2>3. QED
    BY <1>2, <1>4, <2>1, <2>2 DEF PastCheckpoint
<1>6. Limit(m) \in Nat
  BY DEF Limit, Calls, Huge
<1>7. Checked(x, w, Limit(m))
  BY <1>4, <1>5, <1>6, Checking
<1> HIDE DEF w
<1>8. /\ x.fast = m.fast /\ x.breaks = m.breaks /\ x.nbreak = m.nbreak /\ x.call = c
      /\ x.cov.on = m.cov.on /\ KeepsRows(m.cpu.bus.uvi, x.cpu.bus.uvi)
      /\ x.cpu.clocks \in m.cpu.clocks + 6 .. m.cpu.clocks + 18
  BY <1>2, <1>4 DEF KeepsHost
<1>9. QED
  BY <1>1, <1>4, <1>7, <1>8

(***************************************************************************)
(* The inductive invariant.                                                *)
(***************************************************************************)

\* Every row shows the frame the beam last passed it in, and is to.
Shown(u) == u.renderFrom = 0 /\ Fresh(u, 0)

\* While run_frames leaves frames undrawn, the rows of the last but one it is
\* asked for, and of those after, are fresh; and no breakpoint can stop it.
Undrawing(m) ==
    LET u == m.cpu.bus.uvi
    IN  /\ m.call.kind = "frames" /\ m.nbreak = 0
        /\ IF m.call.target = 0 THEN u.frames = 0 /\ Fresh(u, 0)
           ELSE u.renderFrom = m.call.target - 1 /\ Fresh(u, m.call.target - 1)

BreaksOK(m) ==
    /\ m.breaks \subseteq Breaks /\ IsFiniteSet(m.breaks)
    /\ m.nbreak = Cardinality(m.breaks)

\* Between the host's calls, and in one.
Resting == machine.call = Nothing /\ Shown(machine.cpu.bus.uvi)
Turned ==
    /\ machine.call \in Calls /\ stop = NoStop
    /\ Shown(machine.cpu.bus.uvi) \/ Undrawing(machine)

Stops == [why : {"none", "frames", "clocks", "breakpoint"}, target : Nat]

IInv ==
    /\ MachineOK(machine)
    /\ machine.fast \in BOOLEAN
    /\ BreaksOK(machine)
    /\ stop \in Stops
    /\ Resting \/ Turned

\* A machine at reset, over a board whose UVI has been reset.
LEMMA AtReset ==
    ASSUME NEW b, BoardOK(b), b.uvi.line = 0, b.uvi.frames = 0, NEW m, WholeMachine(m),
           m.cpu = C!NewCpu(b), m.acc = 0, m.idle = Nothing, CoverageOK(m.cov)
    PROVE  MachineOK(m) /\ m.cpu.clocks = 0 /\ m.cpu.pc = 0
<1>1. C!NewCpu(b) \in C!Cpus({b}, 0)
  BY C!NewType
<1>2. m.cpu.bus = b /\ m.cpu.clocks = 0 /\ m.cpu.pc = 0
  BY DEF C!NewCpu
<1>3. CpuOK(m.cpu)
  BY <1>1, <1>2 DEF CpuOK
<1>4. ClocksNum \in Nat \ {0} /\ ClocksDen \in Nat \ {0} /\ Lines \in Nat
  BY MachineAssumption, UviAssumption
<1>5. Ahead(m, 0)
  <2>1. 0 * Lines = 0 /\ 0 * ClocksNum = 0 /\ 0 * ClocksDen = 0
    BY <1>4
  <2>2. Beam(b.uvi) = 0
    BY <2>1 DEF Beam
  <2>3. QED
    BY <1>2, <2>1, <2>2 DEF Ahead
<1>6. m.acc \in 0 .. ClocksNum - 1
  BY <1>4
<1>7. QED
  BY <1>2, <1>3, <1>5, <1>6 DEF MachineOK, Behind

\* A new UVI, and one that is reset.
LEMMA NewUviOK ==
    /\ UviOK(NewUvi) /\ NewUvi.line = 0 /\ NewUvi.frames = 0 /\ Shown(NewUvi)
<1>1. UviTypeOK(NewUvi)
  <2> DEFINE u == NewUvi
  <2>1. /\ u.mem = [o \in {} |-> 0] /\ u.line = 0 /\ u.frames = 0 /\ u.vscroll = 0
        /\ u.frame = [y \in 0 .. Active - 1 |-> BlankRow] /\ u.shift = 0
        /\ u.spos = [i \in Sprites |-> [y |-> 0, x |-> 0]]
        /\ u.lo = 0 /\ u.hi = 0 /\ u.bgHit = {} /\ u.sprHit = {} /\ WholeUvi(u)
    BY NewUviIs DEF NewUvi
  <2> HIDE DEF u
  <2>2. RangeOK(u)
    BY <2>1 DEF RangeOK, Byte
  <2>3. MemoryOK(u)
    BY <2>1 DEF MemoryOK
  <2>4. UviTypeOK(u)
    BY <2>1, <2>2, <2>3, UviAssumption DEF UviTypeOK, Byte
  <2>5. QED
    BY <2>4 DEF u
<1>2. NewUvi.mem \in Memories
  <2>1. NewUvi.mem = [o \in {} |-> 0]
    BY DEF NewUvi
  <2>2. [o \in {} |-> 0] \in [{} -> Byte]
    OBVIOUS
  <2>3. QED
    BY <2>1, <2>2 DEF Memories
<1>3. NewUvi.pots \in [0 .. 1 -> [0 .. 1 -> Byte]]
  BY DEF NewUvi, Byte
<1>4. NewUvi.line = 0 /\ NewUvi.frames = 0 /\ NewUvi.renderFrom = 0
  BY DEF NewUvi
<1>5. Fresh(NewUvi, 0)
  <2>1. Active \in Int
    BY UviAssumption DEF Active
  <2>2. \A y \in 0 .. Active - 1 : Passed(NewUvi, y) = 0 - 1
    BY <1>4, <2>1 DEF Passed
  <2>3. QED
    BY <2>2 DEF Fresh
<1>6. QED
  BY <1>1, <1>2, <1>3, <1>4, <1>5 DEF UviOK, Shown

\* Reset keeps the chip's pots, its inverted picture and the mark.
LEMMA UviResetOK ==
    ASSUME NEW u, UviOK(u)
    PROVE  /\ UviOK(UviReset(u)) /\ UviReset(u).line = 0 /\ UviReset(u).frames = 0
           /\ Shown(u) => Shown(UviReset(u))
<1> DEFINE x == [NewUvi EXCEPT !.pots = u.pots]
           y == [x EXCEPT !.invert = u.invert]
           w == [y EXCEPT !.renderFrom = u.renderFrom]
<1>1. /\ w.line = NewUvi.line /\ w.frames = NewUvi.frames /\ w.frame = NewUvi.frame
      /\ w.mem = NewUvi.mem /\ w.pots = u.pots /\ w.invert = u.invert
      /\ w.renderFrom = u.renderFrom /\ w.vscroll = NewUvi.vscroll /\ w.spos = NewUvi.spos
      /\ w.lo = NewUvi.lo /\ w.hi = NewUvi.hi /\ w.shift = NewUvi.shift
      /\ w.bgHit = NewUvi.bgHit /\ w.sprHit = NewUvi.sprHit /\ WholeUvi(w)
  <2>1. WholeUvi(x)
    BY NewUviIs DEF WholeUvi
  <2>2. /\ x.line = NewUvi.line /\ x.frames = NewUvi.frames /\ x.frame = NewUvi.frame
        /\ x.mem = NewUvi.mem /\ x.pots = u.pots /\ x.vscroll = NewUvi.vscroll
        /\ x.spos = NewUvi.spos /\ x.lo = NewUvi.lo /\ x.hi = NewUvi.hi
        /\ x.shift = NewUvi.shift /\ x.bgHit = NewUvi.bgHit /\ x.sprHit = NewUvi.sprHit
    BY DEF NewUvi
  <2> HIDE DEF x
  <2>3. WholeUvi(y) /\ y = [x EXCEPT !.invert = y.invert] /\ y.invert = u.invert
    BY <2>1 DEF WholeUvi
  <2> HIDE DEF y
  <2>4. /\ y.line = x.line /\ y.frames = x.frames /\ y.frame = x.frame
        /\ y.mem = x.mem /\ y.pots = x.pots /\ y.vscroll = x.vscroll
        /\ y.spos = x.spos /\ y.lo = x.lo /\ y.hi = x.hi
        /\ y.shift = x.shift /\ y.bgHit = x.bgHit /\ y.sprHit = x.sprHit
    BY <2>1, <2>3 DEF WholeUvi
  <2>5. WholeUvi(w)
    BY <2>3 DEF WholeUvi
  <2>6. /\ w.line = y.line /\ w.frames = y.frames /\ w.frame = y.frame
        /\ w.mem = y.mem /\ w.pots = y.pots /\ w.vscroll = y.vscroll
        /\ w.spos = y.spos /\ w.lo = y.lo /\ w.hi = y.hi /\ w.invert = y.invert
        /\ w.shift = y.shift /\ w.bgHit = y.bgHit /\ w.sprHit = y.sprHit
        /\ w.renderFrom = u.renderFrom
    BY <2>3 DEF WholeUvi
  <2>7. QED
    BY <2>2, <2>3, <2>4, <2>5, <2>6
<1>2. UviReset(u) = w
  BY DEF UviReset
<1> HIDE DEF w
<1>3. UviTypeOK(w)
  BY <1>1, NewUviOK DEF UviOK, UviTypeOK, MemoryOK, RangeOK
<1>4. UviOK(w)
  BY <1>1, <1>3, NewUviOK DEF UviOK
<1>5. Shown(u) => Shown(w)
  BY <1>1, NewUviOK DEF Shown, Fresh, Passed
<1>6. QED
  BY <1>1, <1>2, <1>4, <1>5, NewUviOK

\* A machine whose host settings change is the machine it was.
LEMMA SameMachine ==
    ASSUME NEW m, MachineOK(m), NEW w, WholeMachine(w), w.cpu = m.cpu, w.acc = m.acc,
           w.idle \in {m.idle, Nothing}, CoverageOK(w.cov)
    PROVE  MachineOK(w)
<1>1. Behind(w, 0)
  BY DEF MachineOK, Behind, Ahead
<1>2. QED
  BY <1>1 DEF MachineOK

\* And so is one whose mark moves.
LEMMA Marking ==
    ASSUME NEW m, MachineOK(m), NEW n \in Nat
    PROVE  LET w == RenderFrom(m, n)
               u == m.cpu.bus.uvi
               v == w.cpu.bus.uvi
           IN  /\ MachineOK(w) /\ KeepsHost(m, w) /\ w.cov = m.cov /\ w.idle = m.idle
               /\ w.cpu.clocks = m.cpu.clocks /\ w.cpu.pc = m.cpu.pc
               /\ v.renderFrom = n /\ v.frames = u.frames
               /\ \A f : Fresh(v, f) = Fresh(u, f)
<1> DEFINE u == m.cpu.bus.uvi
           b == m.cpu.bus
           v == [u EXCEPT !.renderFrom = n]
           d == [b EXCEPT !.uvi = v]
           s == [m.cpu EXCEPT !.bus = d]
           w == [m EXCEPT !.cpu = s]
<1>1. RenderFrom(m, n) = w
  BY DEF RenderFrom
<1>2. /\ WholeMachine(m) /\ CpuOK(m.cpu) /\ BoardOK(b) /\ UviOK(u) /\ WholeUvi(u)
  BY DEF MachineOK, Behind, CpuOK, BoardOK, UviOK, UviTypeOK
<1>3. /\ WholeUvi(v) /\ v.renderFrom = n /\ v.mem = u.mem /\ v.line = u.line
      /\ v.frames = u.frames /\ v.frame = u.frame /\ v.pots = u.pots
      /\ v.vscroll = u.vscroll /\ v.spos = u.spos /\ v.lo = u.lo /\ v.hi = u.hi
      /\ v.shift = u.shift /\ v.bgHit = u.bgHit /\ v.sprHit = u.sprHit
  BY <1>2 DEF WholeUvi
<1> HIDE DEF v
<1>4. UviOK(v)
  BY <1>2, <1>3 DEF UviOK, UviTypeOK, MemoryOK, RangeOK
<1>5. Beam(v) = Beam(u) /\ \A f : Fresh(v, f) = Fresh(u, f)
  BY <1>3 DEF Beam, Fresh, Passed
<1>6. BoardOK(d) /\ d.uvi = v
  BY <1>2, <1>4 DEF BoardOK
<1> HIDE DEF d
<1>7. CpuOK(s) /\ s.bus = d /\ s.clocks = m.cpu.clocks /\ s.pc = m.cpu.pc
  BY <1>2, <1>6, CpuWith
<1> HIDE DEF s
<1>8. /\ WholeMachine(w) /\ w.acc = m.acc /\ w.cpu = s /\ w.idle = m.idle /\ w.cov = m.cov
      /\ KeepsHost(m, w)
  BY <1>2 DEF WholeMachine, KeepsHost
<1> HIDE DEF w
<1>9. Behind(w, 0)
  BY <1>5, <1>6, <1>7, <1>8 DEF MachineOK, Behind, Ahead
<1>10. MachineOK(w)
  BY <1>7, <1>8, <1>9 DEF MachineOK
<1>11. QED
  BY <1>1, <1>3, <1>5, <1>6, <1>7, <1>8, <1>10

\* Breakpoints set and cleared are counted.
LEMMA SettingBreakpoint ==
    ASSUME NEW m, MachineOK(m), BreaksOK(m), NEW a \in Breaks, NEW enabled \in BOOLEAN
    PROVE  LET w == SetBreakpoint(m, a, enabled)
           IN  /\ MachineOK(w) /\ BreaksOK(w)
               /\ w.cpu = m.cpu /\ w.fast = m.fast /\ w.cov = m.cov /\ w.call = m.call
               /\ (a \in m.breaks) = enabled => w.breaks = m.breaks /\ w.nbreak = m.nbreak
               /\ enabled /\ a \notin m.breaks =>
                     w.breaks = m.breaks \cup {a} /\ w.nbreak = m.nbreak + 1
               /\ ~enabled /\ a \in m.breaks =>
                     w.breaks = m.breaks \ {a} /\ w.nbreak = m.nbreak - 1
<1> DEFINE breaks == IF enabled THEN m.breaks \cup {a} ELSE m.breaks \ {a}
           nbreak == IF enabled THEN m.nbreak + 1 ELSE m.nbreak - 1
           w == [m EXCEPT !.breaks = breaks, !.nbreak = nbreak]
<1>1. a % 32768 = a
  <2>1. a \in Address
    BY ConsoleAssumption
  <2>2. a \in Int /\ 0 <= a /\ a < 32768
    BY <2>1, C!AddressIs, Same
  <2>3. QED
    BY <2>2
<1>2. SetBreakpoint(m, a, enabled) = IF (a \in m.breaks) = enabled THEN m ELSE w
  <2> DEFINE p == a % 32768
             at(q) == IF (q \in m.breaks) = enabled THEN m
                      ELSE [m EXCEPT !.breaks = IF enabled THEN @ \cup {q} ELSE @ \ {q},
                                     !.nbreak = IF enabled THEN @ + 1 ELSE @ - 1]
  <2>1. SetBreakpoint(m, a, enabled) = at(p)
    BY DEF SetBreakpoint
  <2>2. at(a) = IF (a \in m.breaks) = enabled THEN m ELSE w
    OBVIOUS
  <2>3. p = a
    BY <1>1
  <2> HIDE DEF p, at
  <2>4. at(p) = at(a)
    BY <2>3
  <2>5. QED
    BY <2>1, <2>2, <2>4
<1>3. WholeMachine(m)
  BY DEF MachineOK, Behind
<1>4. CASE (a \in m.breaks) = enabled
  BY <1>2, <1>4
<1>5. CASE (a \in m.breaks) # enabled
  <2>1. breaks \subseteq Breaks /\ IsFiniteSet(breaks) /\ nbreak = Cardinality(breaks)
    <3>1. m.breaks \subseteq Breaks /\ IsFiniteSet(m.breaks) /\ m.nbreak = Cardinality(m.breaks)
      BY DEF BreaksOK
    <3>2. CASE enabled
      BY <1>5, <3>1, <3>2, FS_AddElement
    <3>3. CASE ~enabled
      BY <1>5, <3>1, <3>3, FS_RemoveElement
    <3>4. QED
      BY <3>2, <3>3
  <2> HIDE DEF breaks, nbreak
  <2>2. /\ WholeMachine(w) /\ w.cpu = m.cpu /\ w.acc = m.acc /\ w.idle = m.idle
        /\ w.fast = m.fast /\ w.cov = m.cov /\ w.call = m.call
        /\ w.breaks = breaks /\ w.nbreak = nbreak
    BY <1>3 DEF WholeMachine
  <2> HIDE DEF w
  <2>3. CoverageOK(w.cov)
    BY <2>2 DEF MachineOK
  <2>4. MachineOK(w)
    BY <2>2, <2>3, SameMachine
  <2>5. BreaksOK(w)
    BY <2>1, <2>2 DEF BreaksOK
  <2>6. SetBreakpoint(m, a, enabled) = w
    BY <1>2, <1>5
  <2>7. QED
    BY <1>5, <2>2, <2>4, <2>5, <2>6 DEF breaks, nbreak
<1>6. QED
  BY <1>4, <1>5

\* A console at power-on.
LEMMA PowerOn ==
    ASSUME NEW cart \in Carts, NEW pal, NEW fast
    PROVE  LET m == NewMachine(cart, pal, fast)
           IN  /\ MachineOK(m) /\ BreaksOK(m) /\ Shown(m.cpu.bus.uvi)
               /\ m.cpu.clocks = 0 /\ m.cpu.pc = 0
               /\ m.breaks = {} /\ m.nbreak = 0 /\ m.fast = fast /\ ~m.cov.on
               /\ m.call = Nothing
<1> DEFINE v == [NewUvi EXCEPT !.invert = pal]
           b == NewBoard(cart, pal)
           s == C!NewCpu(b)
           no == FALSE
           cov == [on |-> no, count |-> << >>]
           m == [ cpu |-> s, acc |-> 0, idle |-> Nothing, fast |-> fast, breaks |-> {},
                  nbreak |-> 0, cov |-> cov, call |-> Nothing ]
<1>1. NewMachine(cart, pal, fast) = m
  BY DEF NewMachine
<1>2. /\ WholeUvi(v) /\ v.renderFrom = NewUvi.renderFrom /\ v.mem = NewUvi.mem
      /\ v.line = NewUvi.line /\ v.frames = NewUvi.frames /\ v.frame = NewUvi.frame
      /\ v.pots = NewUvi.pots /\ v.vscroll = NewUvi.vscroll /\ v.spos = NewUvi.spos
      /\ v.lo = NewUvi.lo /\ v.hi = NewUvi.hi /\ v.shift = NewUvi.shift
      /\ v.bgHit = NewUvi.bgHit /\ v.sprHit = NewUvi.sprHit
  BY NewUviIs DEF WholeUvi
<1>3. b = [ rom |-> cart, uvi |-> v, ce |-> [i \in 0 .. 15 |-> 0], flag |-> no,
            effects |-> 0, reads |-> {} ]
  BY DEF NewBoard
<1> HIDE DEF v
<1>4. UviOK(v) /\ Shown(v) /\ v.line = 0 /\ v.frames = 0
  BY <1>2, NewUviOK DEF UviOK, UviTypeOK, MemoryOK, RangeOK, Shown, Fresh, Passed
<1>5. no \in BOOLEAN /\ ~no
  OBVIOUS
<1> HIDE DEF no, b
<1>6. BoardOK(b) /\ b.uvi = v
  <2>1. \A o \in DOMAIN cart : cart[o] \in Byte
    BY ConsoleAssumption
  <2>2. [i \in 0 .. 15 |-> 0] \in [0 .. 15 -> Byte]
    BY DEF Byte
  <2> DEFINE ce == [i \in 0 .. 15 |-> 0]
  <2> HIDE DEF ce
  <2>3. b = [ rom |-> cart, uvi |-> v, ce |-> ce, flag |-> no, effects |-> 0, reads |-> {} ]
    BY <1>3 DEF ce
  <2>4. ce \in [0 .. 15 -> Byte]
    BY <2>2 DEF ce
  <2>5. QED
    BY <1>4, <1>5, <2>1, <2>3, <2>4 DEF BoardOK
<1> HIDE DEF s
<1>7. CoverageOK(cov) /\ ~cov.on
  BY <1>5 DEF CoverageOK
<1> HIDE DEF cov
<1>8. /\ WholeMachine(m) /\ m.cpu = s /\ m.acc = 0 /\ m.idle = Nothing /\ m.fast = fast
      /\ m.breaks = {} /\ m.nbreak = 0 /\ m.cov = cov /\ m.call = Nothing
  BY DEF WholeMachine
<1> HIDE DEF m
<1>9. MachineOK(m) /\ m.cpu.clocks = 0 /\ m.cpu.pc = 0
  BY <1>4, <1>6, <1>7, <1>8, AtReset DEF s
<1>10. BreaksOK(m)
  BY <1>8, FS_EmptySet DEF BreaksOK
<1>11. m.cpu.bus.uvi = v
  <2>1. s.bus = b
    BY DEF s, C!NewCpu
  <2>2. QED
    BY <1>6, <1>8, <2>1
<1>12. QED
  BY <1>1, <1>4, <1>7, <1>8, <1>9, <1>10, <1>11

\* A reset.
LEMMA Resetting ==
    ASSUME NEW m, MachineOK(m)
    PROVE  LET w == ResetMachine(m)
           IN  /\ MachineOK(w) /\ KeepsHost(m, w) /\ w.cov = m.cov
               /\ w.cpu.clocks = 0 /\ w.cpu.pc = 0
               /\ Shown(m.cpu.bus.uvi) => Shown(w.cpu.bus.uvi)
<1> DEFINE b == m.cpu.bus
           v == UviReset(b.uvi)
           no == FALSE
           d1 == [b EXCEPT !.uvi = v]
           d == [d1 EXCEPT !.flag = no]
           s == C!NewCpu(d)
           w1 == [m EXCEPT !.cpu = s]
           w2 == [w1 EXCEPT !.acc = 0]
           w == [w2 EXCEPT !.idle = Nothing]
<1>1. ResetMachine(m) = w
  BY DEF ResetMachine
<1>2. WholeMachine(m) /\ CpuOK(m.cpu) /\ BoardOK(b) /\ UviOK(b.uvi) /\ CoverageOK(m.cov)
  BY DEF MachineOK, Behind, CpuOK, BoardOK
<1>3. UviOK(v) /\ v.line = 0 /\ v.frames = 0 /\ (Shown(b.uvi) => Shown(v))
  BY <1>2, UviResetOK
<1> HIDE DEF v
<1>4. no \in BOOLEAN
  OBVIOUS
<1> HIDE DEF no
<1>5. BoardOK(d1) /\ d1.uvi = v
  BY <1>2, <1>3 DEF BoardOK
<1> HIDE DEF d1
<1>6. BoardOK(d) /\ d.uvi = v
  BY <1>4, <1>5 DEF BoardOK
<1> HIDE DEF d
<1>7. s.bus = d
  BY DEF C!NewCpu
<1> HIDE DEF s
<1>8. WholeMachine(w1) /\ w1.cpu = s /\ w1.cov = m.cov /\ KeepsHost(m, w1)
  BY <1>2 DEF WholeMachine, KeepsHost
<1> HIDE DEF w1
<1>9. WholeMachine(w2) /\ w2.cpu = s /\ w2.acc = 0 /\ w2.cov = m.cov /\ KeepsHost(m, w2)
  BY <1>8 DEF WholeMachine, KeepsHost
<1> HIDE DEF w2
<1>10. /\ WholeMachine(w) /\ w.cpu = s /\ w.acc = 0 /\ w.idle = Nothing /\ w.cov = m.cov
       /\ KeepsHost(m, w)
  BY <1>9 DEF WholeMachine, KeepsHost
<1> HIDE DEF w
<1>11. MachineOK(w) /\ w.cpu.clocks = 0 /\ w.cpu.pc = 0
  BY <1>2, <1>3, <1>6, <1>10, AtReset DEF s
<1>12. QED
  BY <1>1, <1>3, <1>6, <1>7, <1>10, <1>11

\* Clearing the breakpoints, and the switch of the fast path.
LEMMA Switching ==
    ASSUME NEW m, MachineOK(m), NEW on
    PROVE  /\ LET w == ClearBreakpoints(m)
              IN  /\ MachineOK(w) /\ w.breaks = {} /\ w.nbreak = 0
                  /\ w.cpu = m.cpu /\ w.fast = m.fast /\ w.cov = m.cov /\ w.call = m.call
           /\ LET w == [m EXCEPT !.fast = on]
              IN  /\ MachineOK(w) /\ w.breaks = m.breaks /\ w.nbreak = m.nbreak
                  /\ w.cpu = m.cpu /\ w.fast = on /\ w.cov = m.cov /\ w.call = m.call
<1>1. WholeMachine(m) /\ CoverageOK(m.cov)
  BY DEF MachineOK, Behind
<1>2. LET w == ClearBreakpoints(m)
      IN  /\ MachineOK(w) /\ w.breaks = {} /\ w.nbreak = 0
          /\ w.cpu = m.cpu /\ w.fast = m.fast /\ w.cov = m.cov /\ w.call = m.call
  <2> DEFINE w == [m EXCEPT !.breaks = {}, !.nbreak = 0]
  <2>1. ClearBreakpoints(m) = w
    BY DEF ClearBreakpoints
  <2>2. /\ WholeMachine(w) /\ w.breaks = {} /\ w.nbreak = 0 /\ w.acc = m.acc
        /\ w.idle = m.idle /\ w.cpu = m.cpu /\ w.fast = m.fast /\ w.cov = m.cov
        /\ w.call = m.call
    BY <1>1 DEF WholeMachine
  <2> HIDE DEF w
  <2>3. MachineOK(w)
    BY <1>1, <2>2, SameMachine
  <2>4. QED
    BY <2>1, <2>2, <2>3
<1>3. LET w == [m EXCEPT !.fast = on]
      IN  /\ MachineOK(w) /\ w.breaks = m.breaks /\ w.nbreak = m.nbreak
          /\ w.cpu = m.cpu /\ w.fast = on /\ w.cov = m.cov /\ w.call = m.call
  <2> DEFINE w == [m EXCEPT !.fast = on]
  <2>1. /\ WholeMachine(w) /\ w.breaks = m.breaks /\ w.nbreak = m.nbreak /\ w.acc = m.acc
        /\ w.idle = m.idle /\ w.cpu = m.cpu /\ w.fast = on /\ w.cov = m.cov
        /\ w.call = m.call
    BY <1>1 DEF WholeMachine
  <2> HIDE DEF w
  <2>2. MachineOK(w)
    BY <1>1, <2>1, SameMachine
  <2>3. QED
    BY <2>1, <2>2 DEF w
<1>4. QED
  BY <1>2, <1>3

\* The switch of coverage.
LEMMA Covered ==
    ASSUME NEW m, MachineOK(m), NEW on \in BOOLEAN
    PROVE  LET w == SetCoverage(m, on)
           IN  MachineOK(w) /\ w.cpu = m.cpu /\ KeepsHost(m, w) /\ w.cov.on = on
<1> DEFINE cov == [on |-> on, count |-> << >>]
           w == [m EXCEPT !.cov = cov]
<1>1. SetCoverage(m, on) = w
  BY DEF SetCoverage
<1>2. CoverageOK(cov) /\ cov.on = on
  BY DEF CoverageOK
<1> HIDE DEF cov
<1>3. WholeMachine(m)
  BY DEF MachineOK, Behind
<1>4. /\ WholeMachine(w) /\ w.acc = m.acc /\ w.idle = m.idle /\ w.cpu = m.cpu
      /\ w.cov = cov /\ KeepsHost(m, w)
  BY <1>3 DEF WholeMachine, KeepsHost
<1> HIDE DEF w
<1>5. MachineOK(w)
  BY <1>2, <1>4, SameMachine
<1>6. QED
  BY <1>1, <1>2, <1>4, <1>5

\* A run is entered, and returns.
LEMMA Entering ==
    ASSUME NEW m, MachineOK(m), NEW kind \in {"frames", "clocks"}, NEW target \in Nat
    PROVE  LET w == Enter(m, kind, target)
           IN  /\ MachineOK(w) /\ w.cpu = m.cpu /\ w.fast = m.fast /\ w.breaks = m.breaks
               /\ w.nbreak = m.nbreak /\ w.cov = m.cov
               /\ w.call \in Calls /\ w.call.kind = kind /\ w.call.target = target
               /\ w.call.first
<1> DEFINE yes == TRUE
           c == [kind |-> kind, target |-> target, first |-> yes]
           idle == IF Fast(m) THEN Nothing ELSE m.idle
           w == [m EXCEPT !.call = c, !.idle = idle]
<1>1. Enter(m, kind, target) = w
  BY DEF Enter
<1>2. WholeMachine(m) /\ CoverageOK(m.cov)
  BY DEF MachineOK, Behind
<1>3. yes \in BOOLEAN /\ yes
  OBVIOUS
<1> HIDE DEF yes
<1>4. c \in Calls /\ c.kind = kind /\ c.target = target /\ c.first
  BY <1>3 DEF Calls
<1> HIDE DEF c
<1>5. idle \in {m.idle, Nothing}
  OBVIOUS
<1> HIDE DEF idle
<1>6. /\ WholeMachine(w) /\ w.acc = m.acc /\ w.idle = idle /\ w.cpu = m.cpu /\ w.call = c
      /\ w.fast = m.fast /\ w.breaks = m.breaks /\ w.nbreak = m.nbreak /\ w.cov = m.cov
  BY <1>2 DEF WholeMachine
<1> HIDE DEF w
<1>7. MachineOK(w)
  BY <1>2, <1>5, <1>6, SameMachine
<1>8. QED
  BY <1>1, <1>4, <1>6, <1>7

\* A call that returns takes its mark off, and leaves everything else.
LEMMA Returning ==
    ASSUME NEW m, MachineOK(m)
    PROVE  LET w == Return(m)
               u == m.cpu.bus.uvi
               v == w.cpu.bus.uvi
           IN  /\ MachineOK(w) /\ w.call = Nothing
               /\ w.fast = m.fast /\ w.breaks = m.breaks /\ w.nbreak = m.nbreak
               /\ w.cov = m.cov /\ w.cpu.clocks = m.cpu.clocks /\ w.cpu.pc = m.cpu.pc
               /\ v.renderFrom = IF m.call.kind = "frames" THEN 0 ELSE u.renderFrom
               /\ \A n : Fresh(v, n) = Fresh(u, n)
<1> DEFINE u == m.cpu.bus.uvi
           from == IF m.call.kind = "frames" THEN 0 ELSE u.renderFrom
           r == RenderFrom(m, from)
           w == [r EXCEPT !.call = Nothing]
<1>1. Return(m) = w
  BY DEF Return
<1>2. from \in Nat
  BY DEF MachineOK, Behind, CpuOK, BoardOK, UviOK
<1> HIDE DEF from
<1>3. /\ MachineOK(r) /\ KeepsHost(m, r) /\ r.cov = m.cov
      /\ r.cpu.clocks = m.cpu.clocks /\ r.cpu.pc = m.cpu.pc
      /\ r.cpu.bus.uvi.renderFrom = from
      /\ \A n : Fresh(r.cpu.bus.uvi, n) = Fresh(u, n)
  BY <1>2, Marking
<1> HIDE DEF r
<1>4. WholeMachine(r) /\ CoverageOK(r.cov)
  BY <1>3 DEF MachineOK, Behind
<1>5. /\ WholeMachine(w) /\ w.acc = r.acc /\ w.idle = r.idle /\ w.cpu = r.cpu
      /\ w.call = Nothing /\ w.fast = r.fast /\ w.breaks = r.breaks
      /\ w.nbreak = r.nbreak /\ w.cov = r.cov
  BY <1>4 DEF WholeMachine
<1> HIDE DEF w
<1>6. MachineOK(w)
  BY <1>3, <1>4, <1>5, SameMachine
<1>7. QED
  BY <1>1, <1>3, <1>5, <1>6 DEF from, KeepsHost

\* A call is something.
LEMMA CallIs ==
    ASSUME NEW c \in Calls
    PROVE  c # Nothing /\ c # NoCall
<1>1. c # NoCall
  BY DEF Calls, NoCall
<1>2. c # Nothing
  <2>1. DOMAIN c = {"kind", "target", "first"}
    BY DEF Calls
  <2>2. DOMAIN Nothing = {"none"}
    BY DEF Nothing
  <2>3. QED
    BY <2>1, <2>2
<1>3. QED
  BY <1>1, <1>2

\* Whether the machine runs.
LEMMA RunningOrNot ==
    ASSUME IInv
    PROVE  /\ Running(machine) => Turned
           /\ ~Running(machine) => Resting
BY CallIs DEF IInv, Running, Resting, Turned

\* The host changes a machine at rest.
LEMMA AtRest ==
    ASSUME IInv, ~Running(machine), NEW w, machine' = w,
           MachineOK(w), w.fast \in BOOLEAN, BreaksOK(w), w.call = machine.call,
           Shown(machine.cpu.bus.uvi) => Shown(w.cpu.bus.uvi),
           stop' \in {stop, NoStop}
    PROVE  IInv'
<1>1. Resting
  BY RunningOrNot
<1>2. stop' \in Stops
  BY DEF IInv, Stops, NoStop
<1>3. Resting'
  BY <1>1 DEF Resting
<1>4. MachineOK(machine') /\ machine'.fast \in BOOLEAN /\ BreaksOK(machine')
  OBVIOUS
<1>5. QED
  BY <1>2, <1>3, <1>4 DEF IInv

\* Power-on, for every cartridge,
LEMMA IInvInit == Init => IInv
<1> SUFFICES ASSUME Init PROVE IInv
  OBVIOUS
<1>0. PICK cart \in Carts : \E yes : yes = TRUE /\ machine = NewMachine(cart, yes, yes)
  BY Zenon DEF Init
<1>1. PICK yes : yes = TRUE /\ machine = NewMachine(cart, yes, yes)
  BY <1>0
<1>2. stop \in Stops
  BY DEF Init, NoStop, Stops
<1>3. yes \in BOOLEAN
  BY <1>1
<1>4. /\ MachineOK(machine) /\ BreaksOK(machine) /\ Shown(machine.cpu.bus.uvi)
      /\ machine.fast = yes /\ machine.call = Nothing
  <2>1. machine = NewMachine(cart, yes, yes)
    BY <1>1
  <2>2. QED
    BY <2>1, PowerOn
<1>5. QED
  BY <1>2, <1>3, <1>4 DEF IInv, Resting

\* The machine as IInv has it.
LEMMA Now ==
    ASSUME IInv
    PROVE  /\ MachineOK(machine) /\ BreaksOK(machine) /\ machine.fast \in BOOLEAN
           /\ machine.cpu.clocks \in Nat /\ UviOK(machine.cpu.bus.uvi)
           /\ machine.cpu.bus.uvi.frames \in Nat
BY DEF IInv, MachineOK, Behind, CpuOK, BoardOK, UviOK, UviTypeOK

\* ... setting and clearing a breakpoint,
LEMMA BreakpointKeeps ==
    ASSUME IInv, NEW a \in Breaks, NEW enabled \in BOOLEAN, Breakpoint(a, enabled)
    PROVE  IInv'
<1> DEFINE w == SetBreakpoint(machine, a, enabled)
<1>1. ~Running(machine) /\ machine' = w /\ stop' = stop
  BY DEF Breakpoint, HostSets
<1>2. /\ MachineOK(w) /\ BreaksOK(w) /\ w.cpu = machine.cpu /\ w.fast = machine.fast
      /\ w.call = machine.call
  <2>1. MachineOK(machine) /\ BreaksOK(machine)
    BY Now
  <2>2. QED
    BY <2>1, SettingBreakpoint
<1> HIDE DEF w
<1>3. QED
  BY <1>1, <1>2, Now, AtRest

\* ... clearing them all,
LEMMA ClearAllKeeps ==
    ASSUME IInv, ClearAll
    PROVE  IInv'
<1> DEFINE w == ClearBreakpoints(machine)
<1>1. ~Running(machine) /\ machine' = w /\ stop' = stop
  BY DEF ClearAll, HostSets
<1>2. /\ MachineOK(w) /\ w.breaks = {} /\ w.nbreak = 0 /\ w.cpu = machine.cpu
      /\ w.fast = machine.fast /\ w.call = machine.call
  BY Now, Switching
<1> HIDE DEF w
<1>3. BreaksOK(w)
  BY <1>2, FS_EmptySet DEF BreaksOK
<1>4. QED
  BY <1>1, <1>2, <1>3, Now, AtRest

\* ... switching the coverage,
LEMMA CoverageKeeps ==
    ASSUME IInv, NEW enabled \in BOOLEAN, Coverage(enabled)
    PROVE  IInv'
<1> DEFINE w == SetCoverage(machine, enabled)
<1>1. ~Running(machine) /\ machine' = w /\ stop' = stop
  BY DEF Coverage, HostSets
<1>2. MachineOK(w) /\ w.cpu = machine.cpu /\ KeepsHost(machine, w)
  <2>1. MachineOK(machine)
    BY Now
  <2>2. QED
    BY <2>1, Covered
<1> HIDE DEF w
<1>3. BreaksOK(w) /\ w.fast \in BOOLEAN /\ w.call = machine.call
  BY <1>2, Now DEF BreaksOK, KeepsHost
<1>4. QED
  BY <1>1, <1>2, <1>3, AtRest

\* ... and the fast path,
LEMMA FastSwitchKeeps ==
    ASSUME IInv, NEW on \in BOOLEAN, FastSwitch(on)
    PROVE  IInv'
<1> DEFINE w == [machine EXCEPT !.fast = on]
<1>1. ~Running(machine) /\ machine' = w /\ stop' = stop
  BY DEF FastSwitch, HostSets
<1>2. /\ MachineOK(w) /\ w.breaks = machine.breaks /\ w.nbreak = machine.nbreak
      /\ w.cpu = machine.cpu /\ w.fast = on /\ w.call = machine.call
  BY Now, Switching
<1> HIDE DEF w
<1>3. BreaksOK(w)
  BY <1>2, Now DEF BreaksOK
<1>4. QED
  BY <1>1, <1>2, <1>3, AtRest

\* ... RESET,
LEMMA ResetKeeps ==
    ASSUME IInv, Reset
    PROVE  IInv'
<1> DEFINE w == ResetMachine(machine)
<1>1. ~Running(machine) /\ machine' = w /\ stop' = NoStop
  BY DEF Reset, HostSets
<1>2. /\ MachineOK(w) /\ KeepsHost(machine, w)
      /\ Shown(machine.cpu.bus.uvi) => Shown(w.cpu.bus.uvi)
  BY Now, Resetting
<1> HIDE DEF w
<1>3. BreaksOK(w) /\ w.fast \in BOOLEAN /\ w.call = machine.call
  BY <1>2, Now DEF BreaksOK, KeepsHost
<1>4. QED
  BY <1>1, <1>2, <1>3, AtRest

\* Rows of a machine that draws every frame stay fresh.
LEMMA StillShown ==
    ASSUME NEW u, NEW w, KeepsRows(u, w), Shown(u)
    PROVE  Shown(w)
<1>1. w.renderFrom = 0 /\ 0 \in Int /\ Fresh(u, 0)
  BY DEF KeepsRows, Shown
<1>2. QED
  BY <1>1 DEF KeepsRows, Shown

\* ... the host's single step,
LEMMA SingleStepKeeps ==
    ASSUME IInv, SingleStep
    PROVE  IInv'
<1> DEFINE w == Step(machine)
<1>1. ~Running(machine) /\ machine' = w /\ stop' = NoStop
  BY DEF SingleStep, HostSets
<1>2. /\ MachineOK(w) /\ KeepsHost(machine, w)
      /\ KeepsRows(machine.cpu.bus.uvi, w.cpu.bus.uvi)
  BY Now, Stepping
<1> HIDE DEF w
<1>3. BreaksOK(w) /\ w.fast \in BOOLEAN /\ w.call = machine.call
  BY <1>2, Now DEF BreaksOK, KeepsHost
<1>4. Shown(machine.cpu.bus.uvi) => Shown(w.cpu.bus.uvi)
  BY <1>2, StillShown
<1>5. QED
  BY <1>1, <1>2, <1>3, <1>4, AtRest

\* A call begins.
LEMMA Begins ==
    ASSUME IInv, NEW w, machine' = w, stop' = NoStop,
           MachineOK(w), w.fast = machine.fast, w.breaks = machine.breaks,
           w.nbreak = machine.nbreak, w.call \in Calls,
           Shown(w.cpu.bus.uvi) \/ Undrawing(w)
    PROVE  IInv'
<1>1. stop' \in Stops
  BY DEF Stops, NoStop
<1>2. BreaksOK(w) /\ w.fast \in BOOLEAN
  BY Now DEF BreaksOK
<1>3. Turned'
  BY DEF Turned
<1>4. MachineOK(machine') /\ machine'.fast \in BOOLEAN /\ BreaksOK(machine')
  BY <1>2
<1>5. QED
  BY <1>1, <1>3, <1>4 DEF IInv

\* ... the calls run_clocks
LEMMA RunClocksKeeps ==
    ASSUME IInv, NEW n \in ClockCalls, Call(RunClocks(machine, n))
    PROVE  IInv'
<1> DEFINE target == Clocks(machine) + n
           w == Enter(machine, "clocks", target)
<1>1. ~Running(machine) /\ machine' = w /\ stop' = NoStop
  BY DEF Call, RunClocks
<1>2. target \in Nat
  <2>1. n \in Nat /\ machine.cpu.clocks \in Nat
    BY ConsoleAssumption, Now
  <2>2. QED
    BY <2>1 DEF Clocks
<1> HIDE DEF target
<1>3. /\ MachineOK(w) /\ w.cpu = machine.cpu /\ w.fast = machine.fast
      /\ w.breaks = machine.breaks /\ w.nbreak = machine.nbreak /\ w.call \in Calls
  <2>1. "clocks" \in {"frames", "clocks"} /\ MachineOK(machine)
    BY Now
  <2>2. QED
    BY <1>2, <2>1, Entering
<1> HIDE DEF w
<1>4. Shown(w.cpu.bus.uvi)
  BY <1>1, <1>3, RunningOrNot DEF Resting
<1>5. QED
  BY <1>1, <1>3, <1>4, Begins

\* ... and run_frames, which marks where the pictures begin,
LEMMA RunFramesKeeps ==
    ASSUME IInv, NEW n \in FrameCalls, Call(RunFrames(machine, n))
    PROVE  IInv'
<1> DEFINE m == machine
           u == m.cpu.bus.uvi
           target == Frames(m) + n
           mark == Mark(m, target)
           r == RenderFrom(m, mark)
           v == r.cpu.bus.uvi
           w == Enter(r, "frames", target)
<1>1. ~Running(machine) /\ machine' = w /\ stop' = NoStop
  BY DEF Call, RunFrames
<1>2. /\ MachineOK(m) /\ UviOK(u) /\ u.frames \in Nat /\ n \in Nat
      /\ Resting /\ u.renderFrom = 0 /\ Fresh(u, 0) /\ u.renderFrom \in Nat
  BY <1>1, ConsoleAssumption, Now, RunningOrNot DEF Resting, Shown
<1>3. target = u.frames + n /\ target \in Nat
  BY <1>2 DEF Frames
<1> HIDE DEF target
<1>4. /\ mark \in Nat
      /\ mark = u.renderFrom \/ (m.nbreak = 0 /\ (target # 0 => mark = target - 1))
  BY <1>2, <1>3 DEF Mark, Huge
<1> HIDE DEF mark
<1>5. /\ MachineOK(r) /\ KeepsHost(m, r) /\ v.renderFrom = mark /\ v.frames = u.frames
      /\ \A f : Fresh(v, f) = Fresh(u, f)
  BY <1>2, <1>4, Marking
<1> HIDE DEF r
<1>6. /\ MachineOK(w) /\ w.cpu = r.cpu /\ w.fast = r.fast /\ w.breaks = r.breaks
      /\ w.nbreak = r.nbreak /\ w.call \in Calls /\ w.call.kind = "frames"
      /\ w.call.target = target
  <2>1. "frames" \in {"frames", "clocks"} /\ MachineOK(r) /\ target \in Nat
    BY <1>3, <1>5
  <2>2. QED
    BY <2>1, Entering
<1> HIDE DEF w
<1>7. w.fast = m.fast /\ w.breaks = m.breaks /\ w.nbreak = m.nbreak /\ w.cpu.bus.uvi = v
  BY <1>5, <1>6 DEF KeepsHost
<1>8. ASSUME NEW f \in Nat PROVE Fresh(v, f)
  <2>1. \A y : Passed(u, y) \in Int
    BY <1>2 DEF Passed
  <2>2. Fresh(u, f)
    BY <1>2, <2>1 DEF Fresh
  <2>3. QED
    BY <1>5, <2>2
<1>9. Shown(v) \/ Undrawing(w)
  <2>1. CASE mark = u.renderFrom
    BY <1>2, <1>5, <1>8, <2>1 DEF Shown
  <2>2. CASE m.nbreak = 0 /\ (target # 0 => mark = target - 1)
    <3>1. CASE target = 0
      BY <1>2, <1>3, <1>5, <1>6, <1>7, <1>8, <2>2, <3>1 DEF Undrawing
    <3>2. CASE target # 0
      <4>1. target - 1 \in Nat
        BY <1>3, <3>2
      <4>2. QED
        BY <1>5, <1>6, <1>7, <1>8, <2>2, <3>2, <4>1 DEF Undrawing
    <3>3. QED
      BY <3>1, <3>2
  <2>3. QED
    BY <1>4, <2>1, <2>2
<1>10. QED
  BY <1>1, <1>6, <1>7, <1>9, Begins

\* ... a turn of their loop
LEMMA MachineTurnKeeps ==
    ASSUME IInv, MachineTurn
    PROVE  IInv'
<1> DEFINE m == machine
           u == m.cpu.bus.uvi
           w == Turn(m)
           v == w.cpu.bus.uvi
<1>1. Running(m) /\ ~Finished(m) /\ machine' = w /\ stop' = stop
  BY DEF MachineTurn
<1>2. MachineOK(m) /\ BreaksOK(m) /\ m.fast \in BOOLEAN /\ Turned /\ m.call \in Calls
  BY <1>1, Now, RunningOrNot DEF Turned
<1>3. PICK x : /\ MachineOK(x)
               /\ x.cpu.clocks \in m.cpu.clocks + 6 .. m.cpu.clocks + 18
               /\ x.cov.on = m.cov.on /\ KeepsRows(u, x.cpu.bus.uvi)
               /\ x.fast = m.fast /\ x.breaks = m.breaks /\ x.nbreak = m.nbreak
               /\ x.call = [m.call EXCEPT !.first = FALSE]
               /\ \/ w = x
                  \/ Fast(m) /\ More(x) /\ Checked(x, w, Limit(m))
  BY <1>2, Turning
<1> HIDE DEF w
<1>4. /\ MachineOK(w) /\ KeepsRows(u, v) /\ w.fast = m.fast /\ w.breaks = m.breaks
      /\ w.nbreak = m.nbreak /\ w.call = x.call
  BY <1>3 DEF Checked, KeepsHost, KeepsRows
<1>5. w.call \in Calls /\ w.call.kind = m.call.kind /\ w.call.target = m.call.target
  <2>1. x.call \in Calls /\ x.call.kind = m.call.kind /\ x.call.target = m.call.target
    BY <1>2, <1>3 DEF Calls
  <2>2. QED
    BY <1>4, <2>1
<1>6. Shown(v) \/ Undrawing(w)
  <2>1. CASE Shown(u)
    BY <1>4, <2>1, StillShown
  <2>2. CASE Undrawing(m)
    <3>1. m.call.kind = "frames" /\ m.nbreak = 0 /\ m.call.target \in Nat
      BY <1>2, <2>2 DEF Undrawing, Calls
    <3>2. u.frames < m.call.target
      BY <1>1, <3>1 DEF Finished, More, Frames
    <3>3. m.call.target # 0 /\ m.call.target - 1 \in Int
      BY <3>1, <3>2, Now
    <3>4. u.renderFrom = m.call.target - 1 /\ Fresh(u, m.call.target - 1)
      BY <2>2, <3>3 DEF Undrawing
    <3>5. v.renderFrom = m.call.target - 1 /\ Fresh(v, m.call.target - 1)
      BY <1>4, <3>3, <3>4 DEF KeepsRows
    <3>6. QED
      BY <1>4, <1>5, <3>1, <3>3, <3>5 DEF Undrawing
  <2>3. QED
    BY <1>2, <2>1, <2>2 DEF Turned
<1>7. stop' = NoStop
  BY <1>1, <1>2 DEF Turned
<1>8. QED
  BY <1>1, <1>4, <1>5, <1>6, <1>7, Begins

\* ... and their return: each keeps the invariant.
LEMMA MachineReturnKeeps ==
    ASSUME IInv, MachineReturn
    PROVE  IInv'
<1> DEFINE m == machine
           u == m.cpu.bus.uvi
           w == Return(m)
           v == w.cpu.bus.uvi
<1>1. Running(m) /\ Finished(m) /\ machine' = w
      /\ stop' = [ why    |-> IF More(m) THEN "breakpoint" ELSE m.call.kind,
                   target |-> m.call.target ]
  BY DEF MachineReturn
<1>2. MachineOK(m) /\ BreaksOK(m) /\ m.fast \in BOOLEAN /\ Turned /\ m.call \in Calls
  BY <1>1, Now, RunningOrNot DEF Turned
<1>3. /\ MachineOK(w) /\ w.call = Nothing
      /\ w.fast = m.fast /\ w.breaks = m.breaks /\ w.nbreak = m.nbreak
      /\ v.renderFrom = IF m.call.kind = "frames" THEN 0 ELSE u.renderFrom
      /\ \A n : Fresh(v, n) = Fresh(u, n)
  BY <1>2, Returning
<1> HIDE DEF w
<1>4. stop' \in Stops
  BY <1>1, <1>2 DEF Calls, Stops
<1>5. Shown(v)
  <2>1. CASE Shown(u)
    BY <1>3, <2>1 DEF Shown
  <2>2. CASE Undrawing(m)
    <3>1. m.call.kind = "frames" /\ m.nbreak = 0 /\ m.call.target \in Nat
      BY <1>2, <2>2 DEF Undrawing, Calls
    <3>2. m.breaks = {}
      BY <1>2, <3>1, FS_EmptySet DEF BreaksOK
    <3>3. ~ (u.frames < m.call.target)
      BY <1>1, <3>1, <3>2 DEF Finished, AtBreak, More, Frames
    <3>4. Fresh(u, 0)
      <4>1. CASE m.call.target = 0
        BY <2>2, <4>1 DEF Undrawing
      <4>2. CASE m.call.target # 0
        <5>1. Fresh(u, m.call.target - 1)
          BY <2>2, <4>2 DEF Undrawing
        <5>2. u.frames \in Nat
          BY Now
        <5>3. \A y : Passed(u, y) >= m.call.target - 1
          BY <3>1, <3>3, <5>2 DEF Passed
        <5>4. QED
          BY <5>1, <5>3 DEF Fresh
      <4>3. QED
        BY <4>1, <4>2
    <3>5. QED
      BY <1>3, <3>1, <3>4 DEF Shown
  <2>3. QED
    BY <1>2, <2>1, <2>2 DEF Turned
<1>6. Resting'
  BY <1>1, <1>3, <1>5 DEF Resting
<1>7. MachineOK(machine') /\ machine'.fast \in BOOLEAN /\ BreaksOK(machine')
  BY <1>1, <1>2, <1>3 DEF BreaksOK
<1>8. QED
  BY <1>4, <1>6, <1>7 DEF IInv

\* So every step does.
LEMMA IInvNext == IInv /\ [Next]_vars => IInv'
<1> SUFFICES ASSUME IInv, [Next]_vars PROVE IInv'
  OBVIOUS
<1>1. CASE MachineTurn
  BY <1>1, MachineTurnKeeps
<1>2. CASE MachineReturn
  BY <1>2, MachineReturnKeeps
<1>3. ASSUME NEW n \in FrameCalls, Call(RunFrames(machine, n)) PROVE IInv'
  BY <1>3, RunFramesKeeps
<1>4. ASSUME NEW n \in ClockCalls, Call(RunClocks(machine, n)) PROVE IInv'
  BY <1>4, RunClocksKeeps
<1>5. ASSUME NEW a \in Breaks, NEW enabled \in BOOLEAN, Breakpoint(a, enabled) PROVE IInv'
  BY <1>5, BreakpointKeeps
<1>6. CASE ClearAll
  BY <1>6, ClearAllKeeps
<1>7. ASSUME NEW on \in BOOLEAN, Coverage(on) PROVE IInv'
  BY <1>7, CoverageKeeps
<1>8. ASSUME NEW on \in BOOLEAN, FastSwitch(on) PROVE IInv'
  BY <1>8, FastSwitchKeeps
<1>9. CASE Reset
  BY <1>9, ResetKeeps
<1>10. CASE SingleStep
  BY <1>10, SingleStepKeeps
<1>11. CASE UNCHANGED vars
  BY <1>11 DEF vars, IInv, Resting, Turned
<1>12. QED
  BY <1>1, <1>2, <1>3, <1>4, <1>5, <1>6, <1>7, <1>8, <1>9, <1>10, <1>11 DEF Next

\* For every cartridge, raster and sequence of host calls.
THEOREM Invariance == Spec => []IInv
BY IInvInit, IInvNext, PTL DEF Spec

\* Whatever runs, and however it is skipped, the beam is where the clock says:
\* no line is lost or drawn twice.
OnTime ==
    LET u == machine.cpu.bus.uvi
    IN  /\ Clocks(machine) * ClocksDen = (u.frames * Lines + u.line) * ClocksNum + machine.acc
        /\ u.line \in 0 .. Lines - 1 /\ machine.acc \in 0 .. ClocksNum - 1

\* The clock and the beam agree in every state, fast path or not.
THEOREM BeamOnTime == Spec => []OnTime
<1>1. IInv => OnTime
  <2> SUFFICES ASSUME IInv PROVE OnTime
    OBVIOUS
  <2>1. MachineOK(machine) /\ UviOK(machine.cpu.bus.uvi)
    BY Now
  <2> DEFINE x == Clocks(machine) * ClocksDen
             y == (machine.cpu.bus.uvi.frames * Lines + machine.cpu.bus.uvi.line) * ClocksNum
             z == 0 * ClocksDen
  <2>2. x = y + machine.acc + z
    BY <2>1 DEF MachineOK, Behind, Ahead, Beam, Clocks
  <2>3. z = 0
    BY MachineAssumption
  <2>4. x \in Int /\ y \in Int
    <3>1. Clocks(machine) \in Nat /\ Beam(machine.cpu.bus.uvi) \in Nat
      BY Now, BeamType DEF Clocks
    <3>2. \A p, q \in Nat : p * q \in Int
      OBVIOUS
    <3>3. QED
      BY <3>1, <3>2, MachineAssumption DEF Beam
  <2>5. machine.acc \in 0 .. ClocksNum - 1 /\ ClocksNum \in Nat
    BY <2>1, MachineAssumption DEF MachineOK, Behind
  <2> HIDE DEF x, y, z
  <2>6. x = y + machine.acc
    BY <2>2, <2>3, <2>4, <2>5
  <2>7. machine.cpu.bus.uvi.line \in 0 .. Lines - 1
    BY <2>1, FrameOfBeam
  <2>8. QED
    BY <2>5, <2>6, <2>7 DEF OnTime, x, y
<1>2. QED
  BY <1>1, Invariance, PTL

\* The types, for a program that may run anywhere.
THEOREM TypeCorrect ==
    ASSUME Address \subseteq Pcs
    PROVE  Spec => []TypeOK
<1>1. IInv => TypeOK
  <2> SUFFICES ASSUME IInv PROVE TypeOK
    OBVIOUS
  <2>1. MachineOK(machine) /\ BreaksOK(machine) /\ UviOK(machine.cpu.bus.uvi)
        /\ stop \in Stops
    BY Now DEF IInv
  <2>2. machine.cpu.pc \in Address
    <3>1. machine.cpu.pc \in C!Address
      BY <2>1, C!Parts DEF MachineOK, Behind, CpuOK
    <3>2. QED
      BY <3>1, Same
  <2>3. machine.breaks \subseteq Breaks /\ machine.nbreak \in Nat
    BY <2>1, FS_CardinalityType DEF BreaksOK
  <2>4. machine.acc \in 0 .. ClocksNum - 1
    BY <2>1 DEF MachineOK, Behind
  <2>5. machine.cpu.bus.uvi.renderFrom \in Nat
    BY <2>1 DEF UviOK
  <2>6. \A a \in DOMAIN machine.cov.count : a \in Pcs /\ machine.cov.count[a] \in 1 .. 255
    BY <2>1 DEF MachineOK, CoverageOK
  <2>7. QED
    BY <2>1, <2>2, <2>3, <2>4, <2>5, <2>6 DEF TypeOK, Stops
<1>2. QED
  BY <1>1, Invariance, PTL

\* A completed run_frames shows the last frame asked for, on the fast path too.
THEOREM PicturesComplete == Spec => []PictureComplete
<1>1. IInv => PictureComplete
  <2> DEFINE u == machine.cpu.bus.uvi
  <2> SUFFICES ASSUME IInv, stop.why = "frames", u.frames > 0, NEW y \in DOMAIN u.frame
               PROVE  u.frame[y].frame = IF y < u.line THEN u.frames ELSE u.frames - 1
    BY DEF PictureComplete
  <2>1. Fresh(u, 0)
    <3>1. stop # NoStop
      BY DEF NoStop
    <3>2. QED
      BY <3>1, RunningOrNot DEF Turned, Resting, Shown
  <2>2. u.frames \in Nat /\ y \in 0 .. Active - 1
    <3>1. u.frame = [z \in 0 .. Active - 1 |-> u.frame[z]]
      BY Now DEF UviOK, UviTypeOK
    <3>2. QED
      BY <3>1, Now
  <2>3. Passed(u, y) >= 0
    BY <2>2 DEF Passed
  <2>4. QED
    BY <2>1, <2>2, <2>3 DEF Fresh, Passed
<1>2. QED
  BY <1>1, Invariance, PTL

(***************************************************************************)
(* The refinement.                                                         *)
(***************************************************************************)

\* Frames completed, by the clock and by the beam.
LEMMA FramesNow ==
    ASSUME NEW m, MachineOK(m)
    PROVE  Promise!FramesAt(m.cpu.clocks) = m.cpu.bus.uvi.frames
<1> DEFINE u == m.cpu.bus.uvi
           n == Lines * ClocksNum
           r == u.line * ClocksNum + m.acc
<1>1. /\ u.frames \in Nat /\ u.line \in 0 .. Lines - 1 /\ Lines \in Nat \ {0}
      /\ ClocksNum \in Nat \ {0} /\ ClocksDen \in Nat /\ m.acc \in 0 .. ClocksNum - 1
      /\ m.cpu.clocks \in Nat
  BY MachineAssumption, FrameOfBeam DEF MachineOK, Behind, CpuOK, BoardOK
<1>2. n \in Nat \ {0}
  <2>1. \A p, q \in Nat \ {0} : p * q \in Nat \ {0}
    OBVIOUS
  <2>2. QED
    BY <1>1, <2>1
<1>3. r \in 0 .. n - 1
  <2> DEFINE p == u.line + 1
             a == u.line * ClocksNum
             b == p * ClocksNum
  <2>1. a \in Nat /\ b = a + ClocksNum
    BY <1>1, OneMore
  <2>2. b <= n
    <3>1. p \in Nat /\ p <= Lines
      BY <1>1
    <3> HIDE DEF p
    <3>2. QED
      BY <1>1, <3>1, Monotone
  <2>3. r = a + m.acc
    OBVIOUS
  <2> HIDE DEF a, b, n, r
  <2>4. QED
    BY <1>1, <1>2, <2>1, <2>2, <2>3
<1>4. m.cpu.clocks * ClocksDen = u.frames * n + r
  <2> DEFINE x == m.cpu.clocks * ClocksDen
             y == Beam(u) * ClocksNum
             z == 0 * ClocksDen
             a == u.line * ClocksNum
             b == u.frames * n
  <2>1. x = y + m.acc + z
    BY DEF MachineOK, Behind, Ahead
  <2>2. z = 0
    BY <1>1
  <2>3. y = b + a
    <3>1. \A f, l, k, c \in Nat : (f * k + l) * c = f * (k * c) + l * c
      OBVIOUS
    <3>2. QED
      BY <1>1, <3>1 DEF Beam
  <2>4. a \in Nat /\ b \in Nat
    <3>1. \A p, q \in Nat : p * q \in Nat
      OBVIOUS
    <3>2. QED
      BY <1>1, <1>2, <3>1
  <2>5. r = a + m.acc
    OBVIOUS
  <2> HIDE DEF x, y, z, a, b, r
  <2>6. x = b + r
    BY <1>1, <2>1, <2>2, <2>3, <2>4, <2>5
  <2>7. QED
    BY <2>6 DEF x, b
<1>5. Promise!FramesAt(m.cpu.clocks) = (u.frames * n + r) \div n
  BY <1>4 DEF Promise!FramesAt
<1> HIDE DEF n, r
<1>6. QED
  BY <1>1, <1>2, <1>3, <1>5, Quotient

\* Two clocks of a frame are less than a frame apart.
LEMMA WithinFrame ==
    ASSUME NEW c \in Nat, NEW t \in Nat, c <= t,
           Promise!FramesAt(c) = Promise!FramesAt(t)
    PROVE  t <= c + (Lines * ClocksNum) \div ClocksDen
<1> DEFINE n == Lines * ClocksNum
           p == c * ClocksDen
           q == t * ClocksDen
           d == t - c
           s == d * ClocksDen
<1>1. /\ Lines \in Nat \ {0} /\ ClocksNum \in Nat \ {0} /\ ClocksDen \in Nat \ {0}
      /\ d \in Nat
  BY MachineAssumption, UviAssumption
<1>2. n \in Nat \ {0} /\ p \in Nat /\ q \in Nat /\ s \in Nat
  <2>1. \A x, y \in Nat \ {0} : x * y \in Nat \ {0}
    OBVIOUS
  <2>2. \A x, y \in Nat : x * y \in Nat
    OBVIOUS
  <2>3. QED
    BY <1>1, <2>1, <2>2
<1>3. q = p + s
  <2>1. \A x, y, z \in Nat : (x + y) * z = x * z + y * z
    OBVIOUS
  <2>2. (c + d) * ClocksDen = p + s
    BY <1>1, <2>1
  <2>3. c + d = t
    OBVIOUS
  <2>4. QED
    BY <2>2, <2>3
<1>4. p \div n = q \div n
  BY DEF Promise!FramesAt
<1> HIDE DEF n, p, q
<1>5. s < n
  <2>1. /\ p = (p \div n) * n + (p % n) /\ q = (q \div n) * n + (q % n)
        /\ p % n \in 0 .. n - 1 /\ q % n \in 0 .. n - 1
        /\ p \div n \in Nat
    BY <1>2, Division
  <2> DEFINE e == (p \div n) * n
             f == p % n
             g == q % n
  <2>2. p = e + f /\ q = e + g
    BY <1>4, <2>1
  <2>3. f \in 0 .. n - 1 /\ g \in 0 .. n - 1
    BY <2>1
  <2>4. e \in Nat
    BY <1>2, <2>1, OneMore
  <2> HIDE DEF e, f, g, s
  <2>5. QED
    BY <1>2, <1>3, <2>2, <2>3, <2>4
<1> HIDE DEF s, d
<1>6. d <= n \div ClocksDen
  <2> SUFFICES ASSUME ~ (d <= n \div ClocksDen) PROVE FALSE
    OBVIOUS
  <2>1. n \div ClocksDen \in Nat
    BY <1>1, <1>2, Division
  <2>2. n \div ClocksDen < d
    BY <1>1, <2>1
  <2>3. n < s
    BY <1>1, <1>2, <2>2, Blocks DEF s
  <2>4. QED
    BY <1>2, <1>5, <2>3
<1>7. n \div ClocksDen \in Nat
  BY <1>1, <1>2, Division
<1>8. t <= c + n \div ClocksDen
  <2> DEFINE e == n \div ClocksDen
  <2>1. e \in Nat /\ d <= e /\ t = c + d
    BY <1>6, <1>7 DEF d
  <2> HIDE DEF e
  <2>2. t <= c + e
    BY <1>1, <2>1
  <2>3. QED
    BY <2>2 DEF e
<1>9. QED
  BY <1>8 DEF n

\* What RunLoop sees of the call, and whether it sees one.
Seen == IF Running(machine) THEN machine.call ELSE NoCall

\* The promise and the machine agree on what no call and no stop are.
LEMMA SameNames == Promise!NoCall = NoCall /\ Promise!NoStop = NoStop
BY DEF Promise!NoCall, Promise!NoStop, NoCall, NoStop

\* The promise sees a call exactly when one runs.
LEMMA SeenRunning ==
    ASSUME IInv
    PROVE  /\ Promise!Running <=> Running(machine)
           /\ Running(machine) => Seen = machine.call /\ machine.call \in Calls
           /\ ~Running(machine) => Seen = NoCall
           /\ Running(machine)' <=> machine'.call # Nothing
<1>1. Running(machine) => machine.call \in Calls
  BY RunningOrNot DEF Turned
<1>2. Running(machine) => machine.call # NoCall
  BY <1>1, CallIs
<1>3. Promise!Running <=> Seen # NoCall
  BY SameNames DEF Promise!Running, Seen
<1>4. QED
  BY <1>1, <1>2, <1>3 DEF Seen, Running

\* The pc stays within the addresses.
LEMMA PcIs ==
    ASSUME NEW m, MachineOK(m)
    PROVE  m.cpu.pc \in Address
<1>1. m.cpu.pc \in C!Address
  BY C!Parts DEF MachineOK, Behind, CpuOK
<1>2. QED
  BY <1>1, Same

\* Power-on is the promise's,
LEMMA InitImplements == Init => Promise!Init
<1> SUFFICES ASSUME Init PROVE Promise!Init
  OBVIOUS
<1>0. PICK cart \in Carts : \E yes : yes = TRUE /\ machine = NewMachine(cart, yes, yes)
  BY Zenon DEF Init
<1>1. PICK yes : yes = TRUE /\ machine = NewMachine(cart, yes, yes)
  BY <1>0
<1>2. /\ machine.cpu.clocks = 0 /\ machine.cpu.pc = 0 /\ machine.breaks = {}
      /\ machine.nbreak = 0 /\ machine.fast = yes /\ ~machine.cov.on
      /\ machine.call = Nothing
  <2>1. machine = NewMachine(cart, yes, yes)
    BY <1>1
  <2>2. QED
    BY <2>1, PowerOn
<1>3. machine.fast = TRUE
  BY <1>1, <1>2
<1>4. machine.cov.on \in BOOLEAN
  BY IInvInit, Now DEF MachineOK, CoverageOK
<1>5. Seen = NoCall
  BY <1>2 DEF Seen, Running
<1>6. stop = NoStop
  BY DEF Init
<1>7. machine.cov.on = FALSE
  BY <1>2, <1>4
<1>8. QED
  BY <1>2, <1>3, <1>5, <1>6, <1>7, SameNames DEF Promise!Init, Clocks, Seen

\* Setting or clearing a breakpoint is the promise's too,
LEMMA BreakpointImplements ==
    ASSUME Address \subseteq Pcs, IInv, NEW a \in Breaks, NEW enabled \in BOOLEAN,
           Breakpoint(a, enabled)
    PROVE  a \in Pcs /\ Promise!SetBreakpoint(a, enabled)
<1> DEFINE m == machine
           w == SetBreakpoint(m, a, enabled)
<1>1. ~Running(m) /\ machine' = w /\ stop' = stop
  BY DEF Breakpoint, HostSets
<1>2. a \in Pcs
  BY ConsoleAssumption
<1>3. /\ w.cpu = m.cpu /\ w.fast = m.fast /\ w.cov = m.cov /\ w.call = m.call
      /\ (a \in m.breaks) = enabled => w.breaks = m.breaks /\ w.nbreak = m.nbreak
      /\ enabled /\ a \notin m.breaks =>
            w.breaks = m.breaks \cup {a} /\ w.nbreak = m.nbreak + 1
      /\ ~enabled /\ a \in m.breaks =>
            w.breaks = m.breaks \ {a} /\ w.nbreak = m.nbreak - 1
  <2>1. MachineOK(m) /\ BreaksOK(m)
    BY Now
  <2>2. QED
    BY <2>1, SettingBreakpoint
<1> HIDE DEF w
<1>4. ~Promise!Running /\ Seen' = Seen
  BY <1>1, <1>3, SeenRunning DEF Seen, Running
<1>5. IF (a \in m.breaks) = enabled THEN UNCHANGED <<m.breaks, m.nbreak>>
      ELSE /\ m.breaks' = IF enabled THEN m.breaks \cup {a} ELSE m.breaks \ {a}
           /\ m.nbreak' = IF enabled THEN m.nbreak + 1 ELSE m.nbreak - 1
  <2>1. CASE (a \in m.breaks) = enabled
    BY <1>1, <1>3, <2>1
  <2>2. CASE enabled /\ a \notin m.breaks
    BY <1>1, <1>3, <2>2
  <2>3. CASE ~enabled /\ a \in m.breaks
    BY <1>1, <1>3, <2>3
  <2>4. QED
    BY <2>1, <2>2, <2>3
<1>6. UNCHANGED <<m.cpu.pc, Clocks(m), m.fast, m.cov.on, stop>>
  BY <1>1, <1>3 DEF Clocks
<1>7. QED
  BY <1>2, <1>4, <1>5, <1>6 DEF Promise!SetBreakpoint, Seen

\* ... and so is clearing every breakpoint,
LEMMA ClearAllImplements ==
    ASSUME IInv, ClearAll
    PROVE  Promise!ClearBreakpoints
<1> DEFINE m == machine
           w == ClearBreakpoints(m)
<1>1. ~Running(m) /\ machine' = w /\ stop' = stop
  BY DEF ClearAll, HostSets
<1>2. /\ w.cpu = m.cpu /\ w.fast = m.fast /\ w.cov = m.cov /\ w.call = m.call
      /\ w.breaks = {} /\ w.nbreak = 0
  BY Now, Switching
<1> HIDE DEF w
<1>3. ~Promise!Running /\ Seen' = Seen
  BY <1>1, <1>2, SeenRunning DEF Seen, Running
<1>4. QED
  BY <1>1, <1>2, <1>3 DEF Promise!ClearBreakpoints, Seen, Clocks

\* ... switching the coverage,
LEMMA CoverageImplements ==
    ASSUME IInv, NEW enabled \in BOOLEAN, Coverage(enabled)
    PROVE  Promise!SetMode(machine.fast, enabled)
<1> DEFINE m == machine
           w == SetCoverage(m, enabled)
<1>1. ~Running(m) /\ machine' = w /\ stop' = stop
  BY DEF Coverage, HostSets
<1>2. w.cpu = m.cpu /\ KeepsHost(m, w) /\ w.cov.on = enabled
  <2>1. MachineOK(m)
    BY Now
  <2>2. QED
    BY <2>1, Covered
<1> HIDE DEF w
<1>3. ~Promise!Running /\ Seen' = Seen
  BY <1>1, <1>2, SeenRunning DEF Seen, Running, KeepsHost
<1>4. QED
  BY <1>1, <1>2, <1>3 DEF Promise!SetMode, Seen, Clocks, KeepsHost

\* ... and the fast path,
LEMMA FastSwitchImplements ==
    ASSUME IInv, NEW on \in BOOLEAN, FastSwitch(on)
    PROVE  Promise!SetMode(on, machine.cov.on)
<1> DEFINE m == machine
           w == [m EXCEPT !.fast = on]
<1>1. ~Running(m) /\ machine' = w /\ stop' = stop
  BY DEF FastSwitch, HostSets
<1>2. /\ w.breaks = m.breaks /\ w.nbreak = m.nbreak /\ w.cpu = m.cpu /\ w.fast = on
      /\ w.cov = m.cov /\ w.call = m.call
  BY Now, Switching
<1> HIDE DEF w
<1>3. ~Promise!Running /\ Seen' = Seen
  BY <1>1, <1>2, SeenRunning DEF Seen, Running
<1>4. QED
  BY <1>1, <1>2, <1>3 DEF Promise!SetMode, Seen, Clocks

\* ... RESET,
LEMMA ResetImplements ==
    ASSUME IInv, Reset
    PROVE  Promise!Reset
<1> DEFINE m == machine
           w == ResetMachine(m)
<1>1. ~Running(m) /\ machine' = w /\ stop' = NoStop
  BY DEF Reset, HostSets
<1>2. KeepsHost(m, w) /\ w.cov = m.cov /\ w.cpu.clocks = 0 /\ w.cpu.pc = 0
  BY Now, Resetting
<1> HIDE DEF w
<1>3. ~Promise!Running /\ Seen' = Seen
  BY <1>1, <1>2, SeenRunning DEF Seen, Running, KeepsHost
<1>4. QED
  BY <1>1, <1>2, <1>3, SameNames DEF Promise!Reset, Seen, Clocks, KeepsHost

\* ... the host's single step,
LEMMA SingleStepImplements ==
    ASSUME Address \subseteq Pcs, IInv, SingleStep
    PROVE  \E c \in 1 .. MaxCost : Promise!Step(c)
<1> DEFINE m == machine
           w == Step(m)
<1>1. ~Running(m) /\ machine' = w /\ stop' = NoStop /\ Clocks(m) < MaxClocks
  BY DEF SingleStep, HostSets
<1>2. /\ MachineOK(w) /\ KeepsHost(m, w) /\ w.cov.on = m.cov.on
      /\ w.cpu.clocks \in m.cpu.clocks + 6 .. m.cpu.clocks + 18
  BY Now, Stepping
<1> HIDE DEF w
<1>3. ~Promise!Running /\ Seen' = Seen
  BY <1>1, <1>2, SeenRunning DEF Seen, Running, KeepsHost
<1>4. PICK c \in 1 .. MaxCost : w.cpu.clocks = m.cpu.clocks + c
  <2>1. m.cpu.clocks \in Nat
    BY Now
  <2> DEFINE c == w.cpu.clocks - m.cpu.clocks
  <2>2. c \in 1 .. MaxCost /\ w.cpu.clocks = m.cpu.clocks + c
    BY <1>2, <2>1, ConsoleAssumption
  <2>3. QED
    BY <2>2
<1>5. w.cpu.pc \in Pcs
  BY <1>2, PcIs
<1>6. Promise!Step(c)
  BY <1>1, <1>2, <1>3, <1>4, <1>5, SameNames DEF Promise!Step, Seen, Clocks, KeepsHost
<1>7. QED
  BY <1>6

\* A call.
LEMMA CallImplements ==
    ASSUME IInv, ~Running(machine), Clocks(machine) < MaxClocks, stop' = NoStop,
           NEW kind \in {"frames", "clocks"}, NEW target \in Nat, NEW w, machine' = w,
           w.cpu.pc = machine.cpu.pc, w.cpu.clocks = machine.cpu.clocks,
           w.breaks = machine.breaks, w.nbreak = machine.nbreak, w.fast = machine.fast,
           w.cov = machine.cov, w.call \in Calls, w.call.kind = kind,
           w.call.target = target, w.call.first
    PROVE  Promise!Start(kind, target)
<1>1. ~Promise!Running
  BY SeenRunning
<1>2. Seen' = w.call
  BY CallIs DEF Seen, Running
<1>3. w.call = [kind |-> kind, target |-> target, first |-> TRUE]
  BY DEF Calls
<1>4. QED
  BY <1>1, <1>2, <1>3, SameNames DEF Promise!Start, Seen, Clocks

\* ... the calls run_clocks
LEMMA RunClocksImplements ==
    ASSUME IInv, NEW n \in ClockCalls, Call(RunClocks(machine, n))
    PROVE  Promise!RunClocks(n)
<1> DEFINE target == Clocks(machine) + n
           kind == "clocks"
           w == Enter(machine, kind, target)
<1>1. ~Running(machine) /\ machine' = w /\ stop' = NoStop /\ Clocks(machine) < MaxClocks
  BY DEF Call, RunClocks
<1>2. target \in Nat
  <2>1. n \in Nat /\ machine.cpu.clocks \in Nat
    BY ConsoleAssumption, Now
  <2>2. QED
    BY <2>1 DEF Clocks
<1>3. kind \in {"frames", "clocks"} /\ MachineOK(machine)
  BY Now
<1>4. Promise!Start(kind, target) => Promise!RunClocks(n)
  BY DEF Promise!RunClocks
<1> HIDE DEF target, kind
<1>5. /\ w.cpu = machine.cpu /\ w.fast = machine.fast /\ w.breaks = machine.breaks
      /\ w.nbreak = machine.nbreak /\ w.cov = machine.cov /\ w.call \in Calls
      /\ w.call.kind = kind /\ w.call.target = target /\ w.call.first
  BY <1>2, <1>3, Entering, SMTT(30)
<1> HIDE DEF w
<1>6. Promise!Start(kind, target)
  BY <1>1, <1>2, <1>3, <1>5, CallImplements
<1>7. QED
  BY <1>4, <1>6

\* ... and run_frames,
LEMMA RunFramesImplements ==
    ASSUME IInv, NEW n \in FrameCalls, Call(RunFrames(machine, n))
    PROVE  Promise!RunFrames(n)
<1> DEFINE m == machine
           target == Frames(m) + n
           kind == "frames"
           mark == Mark(m, target)
           r == RenderFrom(m, mark)
           w == Enter(r, kind, target)
<1>1. ~Running(m) /\ machine' = w /\ stop' = NoStop /\ Clocks(m) < MaxClocks
  BY DEF Call, RunFrames
<1>2. /\ MachineOK(m) /\ m.cpu.bus.uvi.frames \in Nat /\ n \in Nat
      /\ m.cpu.bus.uvi.renderFrom \in Nat
  BY ConsoleAssumption, Now DEF UviOK
<1>3. target \in Nat /\ target = m.cpu.bus.uvi.frames + n
  BY <1>2 DEF Frames
<1>4. target = Promise!FramesAt(Clocks(m)) + n
  BY <1>2, <1>3, FramesNow DEF Clocks
<1>5. Promise!Start(kind, target) => Promise!RunFrames(n)
  BY <1>4 DEF Promise!RunFrames
<1>6. kind \in {"frames", "clocks"}
  OBVIOUS
<1> HIDE DEF target, kind
<1>7. mark \in Nat
  BY <1>2, <1>3 DEF Mark, Huge
<1> HIDE DEF mark
<1>8. /\ MachineOK(r) /\ KeepsHost(m, r) /\ r.cov = m.cov
      /\ r.cpu.clocks = m.cpu.clocks /\ r.cpu.pc = m.cpu.pc
  BY <1>2, <1>7, Marking
<1> HIDE DEF r
<1>9. /\ w.cpu = r.cpu /\ w.fast = r.fast /\ w.breaks = r.breaks
      /\ w.nbreak = r.nbreak /\ w.cov = r.cov /\ w.call \in Calls
      /\ w.call.kind = kind /\ w.call.target = target /\ w.call.first
  <2>1. MachineOK(r) /\ target \in Nat
    BY <1>3, <1>8
  <2>2. QED
    BY <1>6, <2>1, Entering
<1> HIDE DEF w
<1>10. /\ w.cpu.pc = m.cpu.pc /\ w.cpu.clocks = m.cpu.clocks /\ w.fast = m.fast
       /\ w.breaks = m.breaks /\ w.nbreak = m.nbreak /\ w.cov = m.cov
  BY <1>8, <1>9 DEF KeepsHost
<1>11. Promise!Start(kind, target)
  BY <1>1, <1>3, <1>6, <1>9, <1>10, CallImplements
<1>12. QED
  BY <1>5, <1>11

\* Whether a run goes on, stops at a breakpoint and takes the fast path.
LEMMA SameTests ==
    ASSUME IInv, Running(machine)
    PROVE  /\ Promise!Running
           /\ Promise!More(Clocks(machine)) <=> More(machine)
           /\ Promise!FastPath <=> Fast(machine)
           /\ Promise!AtBreak <=> ~Fast(machine) /\ AtBreak(machine)
<1>1. Promise!Running /\ Seen = machine.call
  BY SeenRunning
<1>2. Promise!FramesAt(Clocks(machine)) = Frames(machine)
  BY Now, FramesNow DEF Clocks, Frames
<1>3. Promise!More(Clocks(machine)) <=> More(machine)
  BY <1>1, <1>2 DEF Promise!More, More, Seen
<1>4. Promise!FastPath <=> Fast(machine)
  BY DEF Promise!FastPath, Fast
<1>5. Promise!AtBreak <=> ~Fast(machine) /\ AtBreak(machine)
  BY <1>1, <1>4 DEF Promise!AtBreak, AtBreak, Seen
<1>6. QED
  BY <1>1, <1>3, <1>4, <1>5

\* ... and their return, for the reason the loop left them,
LEMMA ReturnImplements ==
    ASSUME IInv, MachineReturn
    PROVE  Promise!ReturnDone \/ Promise!ReturnBreakpoint
<1> DEFINE m == machine
           w == Return(m)
<1>1. Running(m) /\ Finished(m) /\ machine' = w
      /\ stop' = [ why    |-> IF More(m) THEN "breakpoint" ELSE m.call.kind,
                   target |-> m.call.target ]
  BY DEF MachineReturn
<1>2. /\ w.call = Nothing /\ w.fast = m.fast /\ w.breaks = m.breaks
      /\ w.nbreak = m.nbreak /\ w.cov = m.cov /\ w.cpu.clocks = m.cpu.clocks
      /\ w.cpu.pc = m.cpu.pc
  BY Now, Returning
<1> HIDE DEF w
<1>3. Seen = m.call /\ Seen' = NoCall
  BY <1>1, <1>2, SeenRunning DEF Seen, Running
<1>4. CASE More(m)
  <2>1. Promise!AtBreak /\ Promise!More(Clocks(m)) /\ Promise!Running
    BY <1>1, <1>4, SameTests DEF Finished
  <2>2. stop' = [why |-> "breakpoint", target |-> Seen.target]
    BY <1>1, <1>3, <1>4
  <2>3. Promise!ReturnBreakpoint
    BY <1>1, <1>2, <1>3, <2>1, <2>2, SameNames DEF Promise!ReturnBreakpoint, Seen, Clocks
  <2>4. QED
    BY <2>3
<1>5. CASE ~More(m)
  <2>1. ~Promise!More(Clocks(m)) /\ Promise!Running
    BY <1>1, <1>5, SameTests
  <2>2. stop' = [why |-> Seen.kind, target |-> Seen.target]
    BY <1>1, <1>3, <1>5
  <2>3. Promise!ReturnDone
    BY <1>1, <1>2, <1>3, <2>1, <2>2, SameNames DEF Promise!ReturnDone, Seen, Clocks
  <2>4. QED
    BY <2>3
<1>6. QED
  BY <1>4, <1>5

\* A turn, skipping or not.
LEMMA TurnImplements ==
    ASSUME Address \subseteq Pcs, IInv, MachineTurn
    PROVE  \E c \in 1 .. MaxCost : Promise!PlainTurn(c) \/ Promise!FastTurn(c)
<1> DEFINE m == machine
           w == Turn(m)
<1>1. Running(m) /\ ~Finished(m) /\ machine' = w /\ stop' = stop
  BY DEF MachineTurn
<1>2. /\ MachineOK(m) /\ m.call \in Calls /\ Seen = m.call
      /\ m.cpu.clocks \in Nat
  BY <1>1, Now, SeenRunning
<1>3. PICK x : /\ MachineOK(x)
               /\ x.cpu.clocks \in m.cpu.clocks + 6 .. m.cpu.clocks + 18
               /\ x.cov.on = m.cov.on /\ KeepsRows(m.cpu.bus.uvi, x.cpu.bus.uvi)
               /\ x.fast = m.fast /\ x.breaks = m.breaks /\ x.nbreak = m.nbreak
               /\ x.call = [m.call EXCEPT !.first = FALSE]
               /\ \/ w = x
                  \/ Fast(m) /\ More(x) /\ Checked(x, w, Limit(m))
  BY <1>2, Turning
<1> HIDE DEF w
<1>4. /\ MachineOK(w) /\ w.fast = m.fast /\ w.breaks = m.breaks
      /\ w.nbreak = m.nbreak /\ w.call = x.call /\ w.cov.on = m.cov.on
  BY <1>3 DEF Checked, KeepsHost
<1>5. /\ x.call \in Calls /\ x.call.kind = m.call.kind /\ x.call.target = m.call.target
  BY <1>2, <1>3 DEF Calls
<1>6. Seen' = [Seen EXCEPT !.first = FALSE]
  <2>1. w.call # Nothing
    BY <1>4, <1>5, CallIs
  <2>2. QED
    BY <1>1, <1>2, <1>3, <1>4, <2>1 DEF Seen, Running
<1>7. w.cpu.pc \in Pcs
  BY <1>4, PcIs
<1>8. Promise!Instruction
  <2>1. Promise!Running /\ Promise!More(Clocks(m)) /\ ~Promise!AtBreak
    BY <1>1, SameTests DEF Finished
  <2>2. QED
    BY <1>1, <1>4, <1>6, <1>7, <2>1 DEF Promise!Instruction, Seen
<1>9. PICK c \in 1 .. MaxCost : x.cpu.clocks = m.cpu.clocks + c
  <2> DEFINE c == x.cpu.clocks - m.cpu.clocks
  <2>1. c \in 1 .. MaxCost /\ x.cpu.clocks = m.cpu.clocks + c
    BY <1>2, <1>3, ConsoleAssumption
  <2>2. QED
    BY <2>1
<1>10. CASE ~Fast(m)
  <2>1. w = x
    BY <1>3, <1>10
  <2>2. Promise!PlainTurn(c)
    BY <1>1, <1>8, <1>9, <1>10, <2>1, SameTests DEF Promise!PlainTurn, Clocks
  <2>3. QED
    BY <2>2
<1>11. CASE Fast(m)
  <2> DEFINE d == x.cpu.clocks
             t == w.cpu.clocks
  <2>1. d = Clocks(m) + c /\ Clocks(machine)' = t
    BY <1>1, <1>9 DEF Clocks
  <2>2. d \in Nat /\ t \in Nat
    BY <1>3, <1>4 DEF MachineOK, Behind, CpuOK
  <2>3. t \in Promise!Reach(d)
    <3>1. CASE t = d
      BY <3>1 DEF Promise!Reach
    <3>2. CASE t # d
      <4>1. More(x) /\ Checked(x, w, Limit(m))
        BY <1>3, <3>2
      <4>2. t >= d /\ t <= Limit(m) /\ w.cpu.bus.uvi.frames = x.cpu.bus.uvi.frames
        BY <3>2, <4>1 DEF Checked
      <4>3. Promise!FramesAt(d) = x.cpu.bus.uvi.frames
        BY <1>3, FramesNow
      <4>4. Promise!FramesAt(t) = w.cpu.bus.uvi.frames
        BY <1>4, FramesNow
      <4>5. Promise!FramesAt(t) = Promise!FramesAt(d)
        BY <4>2, <4>3, <4>4
      <4>6. Promise!More(d)
        <5>1. IF m.call.kind = "frames" THEN x.cpu.bus.uvi.frames < m.call.target
              ELSE d < m.call.target
          BY <1>5, <4>1 DEF More, Frames, Clocks
        <5>2. IF Seen.kind = "frames" THEN Promise!FramesAt(d) < Seen.target
              ELSE d < Seen.target
          BY <1>2, <4>3, <5>1
        <5>3. QED
          BY <5>2 DEF Promise!More, Seen
      <4>7. Seen.kind = "clocks" => t <= Seen.target
        BY <1>2, <4>2 DEF Limit
      <4>8. t <= d + (Lines * ClocksNum) \div ClocksDen
        BY <2>2, <4>2, <4>5, WithinFrame
      <4>9. t \in d .. d + (Lines * ClocksNum) \div ClocksDen
        <5>1. (Lines * ClocksNum) \div ClocksDen \in Int
          BY MachineAssumption, UviAssumption
        <5>2. QED
          BY <2>2, <4>2, <4>8, <5>1
      <4>10. QED
        BY <4>5, <4>6, <4>7, <4>9 DEF Promise!Reach, Seen
    <3>3. QED
      BY <3>1, <3>2
  <2> HIDE DEF d, t
  <2>4. Promise!FastTurn(c)
    BY <1>1, <1>8, <1>11, <2>1, <2>3, SameTests DEF Promise!FastTurn
  <2>5. QED
    BY <2>4
<1>12. QED
  BY <1>10, <1>11

\* So every step is one of the promise's, or a stutter of it.
LEMMA NextImplements ==
    ASSUME Address \subseteq Pcs
    PROVE  IInv /\ [Next]_vars => [Promise!Next]_(Promise!vars)
<1> SUFFICES ASSUME IInv, [Next]_vars PROVE [Promise!Next]_(Promise!vars)
  OBVIOUS
<1>1. CASE MachineTurn
  BY <1>1, TurnImplements DEF Promise!Next, Promise!Turn
<1>2. CASE MachineReturn
  BY <1>2, ReturnImplements DEF Promise!Next, Promise!Turn
<1>3. ASSUME NEW n \in FrameCalls, Call(RunFrames(machine, n)) PROVE Promise!Next
  BY <1>3, RunFramesImplements DEF Promise!Next
<1>4. ASSUME NEW n \in ClockCalls, Call(RunClocks(machine, n)) PROVE Promise!Next
  BY <1>4, RunClocksImplements DEF Promise!Next
<1>5. ASSUME NEW a \in Breaks, NEW enabled \in BOOLEAN, Breakpoint(a, enabled)
      PROVE  Promise!Next
  BY <1>5, BreakpointImplements DEF Promise!Next
<1>6. CASE ClearAll
  BY <1>6, ClearAllImplements DEF Promise!Next
<1>7. ASSUME NEW on \in BOOLEAN, Coverage(on) PROVE Promise!Next
  <2>1. machine.fast \in BOOLEAN
    BY Now
  <2>2. QED
    BY <1>7, <2>1, CoverageImplements DEF Promise!Next
<1>8. ASSUME NEW on \in BOOLEAN, FastSwitch(on) PROVE Promise!Next
  <2>1. machine.cov.on \in BOOLEAN
    BY Now DEF MachineOK, CoverageOK
  <2>2. QED
    BY <1>8, <2>1, FastSwitchImplements DEF Promise!Next
<1>9. CASE Reset
  BY <1>9, ResetImplements DEF Promise!Next
<1>10. CASE SingleStep
  BY <1>10, SingleStepImplements DEF Promise!Next
<1>11. CASE UNCHANGED vars
  BY <1>11 DEF vars, Promise!vars, Clocks, Running
<1>12. QED
  BY <1>1, <1>2, <1>3, <1>4, <1>5, <1>6, <1>7, <1>8, <1>9, <1>10, <1>11 DEF Next

\* The machine, its CPU executing any program byte by byte over any raster, keeps
\* what RunLoop promises a host.
THEOREM Refinement ==
    ASSUME Address \subseteq Pcs
    PROVE  Spec => ImplementsRunLoop
<1>1. IInv /\ [Next]_vars => [Promise!Next]_(Promise!vars)
  BY NextImplements
<1>2. QED
  BY <1>1, InitImplements, Invariance, PTL DEF Spec, ImplementsRunLoop, Promise!Spec

(***************************************************************************)
(* What RunLoop is proved to promise, of the machine.                      *)
(***************************************************************************)

\* The promise's constants are what it assumes of them.
LEMMA Promising ==
    ASSUME Address \subseteq Pcs
    PROVE  /\ 0 \in Pcs
           /\ Lines * ClocksNum \in Nat \ {0} /\ ClocksDen \in Nat \ {0}
           /\ MaxCost \in Nat \ {0} /\ MaxCost * ClocksDen <= Lines * ClocksNum
           /\ FrameCalls \subseteq Nat /\ ClockCalls \subseteq Nat
           /\ MaxClocks \in Nat
<1>1. 0 \in Address
  BY C!AddressIs, Same
<1>2. Lines * ClocksNum \in Nat \ {0}
  <2>1. Lines \in Nat \ {0} /\ ClocksNum \in Nat \ {0}
    BY MachineAssumption, UviAssumption
  <2>2. \A p, q \in Nat \ {0} : p * q \in Nat \ {0}
    OBVIOUS
  <2>3. QED
    BY <2>1, <2>2
<1>3. MaxCost \in Nat \ {0}
  BY ConsoleAssumption
<1>4. QED
  BY <1>1, <1>2, <1>3, ConsoleAssumption, MachineAssumption

\* Where a run of the machine stops: run_frames in the frame asked for, by the
\* count of the UVI, and run_clocks less than one instruction late.
RunOnTarget ==
    /\ stop.why = "frames" => machine.cpu.bus.uvi.frames = stop.target
    /\ stop.why = "clocks" => Clocks(machine) \in stop.target .. stop.target + MaxCost - 1

\* For every cartridge, run_frames and run_clocks stop on target, however many
\* iterations of idle loops they skip.
THEOREM RunsStopOnTarget ==
    ASSUME Address \subseteq Pcs
    PROVE  Spec => []RunOnTarget
<1>1. Promise!Spec => []Promise!StopsOnTarget
  BY Promising, Promise!RunsStopOnTarget
<1>2. IInv /\ Promise!StopsOnTarget => RunOnTarget
  <2> SUFFICES ASSUME IInv, Promise!StopsOnTarget PROVE RunOnTarget
    OBVIOUS
  <2>1. Promise!FramesAt(machine.cpu.clocks) = machine.cpu.bus.uvi.frames
    BY Now, FramesNow
  <2>2. QED
    BY <2>1 DEF Promise!StopsOnTarget, RunOnTarget, Clocks
<1>3. QED
  BY <1>1, <1>2, Refinement, Invariance, PTL DEF ImplementsRunLoop

\* For every cartridge, no instruction at a breakpoint is executed but the first
\* of a run: the fast path, which looks at none, is not taken while one is set.
THEOREM BreakpointsHonoured ==
    ASSUME Address \subseteq Pcs
    PROVE  Spec => Promise!NoBreakPassed
<1>1. Promise!Spec => Promise!NoBreakPassed
  BY Promising, Promise!BreakpointsHonoured
<1>2. QED
  BY <1>1, Refinement, PTL DEF ImplementsRunLoop

=============================================================================
