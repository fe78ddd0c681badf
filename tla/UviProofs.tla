----------------------------- MODULE UviProofs -----------------------------
(***************************************************************************)
(* What the UVI's operators do, for every raster and every register: which *)
(* parts of a UVI a line call changes, how long stable_lines may promise   *)
(* its inputs, where CHARLINE goes from line to line, and that no line     *)
(* outside the sprites' range has a sprite on it.                          *)
(***************************************************************************)
EXTENDS Uvi, FiniteSetTheorems, TLAPS

\* A UVI is a record of these fields.
WholeUvi(u) ==
    u = [ mem |-> u.mem, line |-> u.line, frames |-> u.frames, frame |-> u.frame,
          pots |-> u.pots, invert |-> u.invert, vscroll |-> u.vscroll, spos |-> u.spos,
          lo |-> u.lo, hi |-> u.hi, shift |-> u.shift, bgHit |-> u.bgHit,
          sprHit |-> u.sprHit, renderFrom |-> u.renderFrom ]

\* The window holds bytes.
MemoryOK(u) == \A o \in DOMAIN u.mem : u.mem[o] \in Byte

(***************************************************************************)
(* Arithmetic.                                                             *)
(***************************************************************************)

\* Division of a natural number leaves a quotient and a remainder.
LEMMA Division ==
    ASSUME NEW n \in Nat \ {0}, NEW a \in Nat
    PROVE  /\ a \div n \in Nat
           /\ a % n \in 0 .. n - 1
           /\ a = (a \div n) * n + (a % n)
OBVIOUS

\* Quotient and remainder, from the equation and the range that define them.
LEMMA Quotient ==
    ASSUME NEW n \in Nat \ {0}, NEW q \in Nat, NEW r \in 0 .. n - 1
    PROVE  (q * n + r) \div n = q /\ (q * n + r) % n = r
OBVIOUS

\* One more block of n numbers.
LEMMA OneMore ==
    ASSUME NEW n \in Nat, NEW q \in Nat
    PROVE  q * n \in Nat /\ (q + 1) * n = q * n + n
OBVIOUS

\* Fewer blocks hold fewer numbers.
LEMMA Monotone ==
    ASSUME NEW n \in Nat, NEW a \in Nat, NEW b \in Nat, a <= b
    PROVE  a * n \in Nat /\ b * n \in Nat /\ a * n <= b * n
OBVIOUS

\* A number below q blocks of n is in one of the first q, and conversely.
LEMMA Blocks ==
    ASSUME NEW n \in Nat \ {0}, NEW q \in Nat, NEW a \in Nat
    PROVE  a \div n < q <=> a < q * n
<1>1. PICK p \in Nat, r \in 0 .. n - 1 : p = a \div n /\ a = p * n + r
  BY Division
<1>2. CASE p < q
  <2>1. p + 1 <= q /\ p + 1 \in Nat
    BY <1>1, <1>2
  <2>2. (p + 1) * n <= q * n /\ q * n \in Nat
    BY <2>1, Monotone
  <2>3. QED
    BY <1>1, <1>2, <2>2, OneMore
<1>3. CASE q <= p
  <2>1. q * n <= p * n /\ p * n \in Nat /\ q * n \in Nat
    BY <1>1, <1>3, Monotone
  <2>2. QED
    BY <1>1, <1>3, <2>1
<1>4. QED
  BY <1>1, <1>2, <1>3

\* Two numbers are in the same block when the second is not past its end.
LEMMA SameBlock ==
    ASSUME NEW n \in Nat \ {0}, NEW a \in Nat, NEW b \in Nat,
           a <= b, b < (a \div n + 1) * n
    PROVE  b \div n = a \div n
<1>1. PICK q \in Nat, r \in 0 .. n - 1 : q = a \div n /\ a = q * n + r
  BY Division
<1>2. q * n \in Nat /\ (q + 1) * n = q * n + n
  BY <1>1, OneMore
<1>3. b - q * n \in 0 .. n - 1 /\ b = q * n + (b - q * n)
  BY <1>1, <1>2
<1>4. QED
  BY <1>1, <1>3, Quotient

\* The next number is in the same block or at the start of the next.
LEMMA NextBlock ==
    ASSUME NEW n \in Nat \ {0}, NEW a \in Nat
    PROVE  (a + 1) \div n \in {a \div n, a \div n + 1}
<1>1. PICK q \in Nat, r \in 0 .. n - 1 : q = a \div n /\ a = q * n + r
  BY Division
<1>2. q * n \in Nat /\ (q + 1) * n = q * n + n
  BY <1>1, OneMore
<1>3. CASE r = n - 1
  <2>1. PICK p \in Nat, z \in 0 .. n - 1 : p = q + 1 /\ z = 0
    OBVIOUS
  <2>2. a + 1 = p * n + z
    BY <1>1, <1>2, <1>3, <2>1
  <2>3. (p * n + z) \div n = p
    BY Quotient
  <2>4. QED
    BY <1>1, <2>1, <2>2, <2>3
<1>4. CASE r # n - 1
  <2>1. a + 1 = q * n + (r + 1) /\ r + 1 \in 0 .. n - 1
    BY <1>1, <1>2, <1>4
  <2>2. QED
    BY <1>1, <2>1, Quotient, ZenonT(30)
<1>5. QED
  BY <1>3, <1>4

\* The remainder of the next number.
LEMMA Remainder ==
    ASSUME NEW n \in Nat \ {0}, NEW a \in Nat
    PROVE  a % n \in 0 .. n - 1 /\ (a + 1) % n = ((a % n) + 1) % n
<1>1. PICK q \in Nat, r \in 0 .. n - 1 : q = a \div n /\ r = a % n /\ a = q * n + r
  BY Division
<1>2. q * n \in Nat /\ (q + 1) * n = q * n + n
  BY <1>1, OneMore
<1>3. CASE r = n - 1
  <2>1. PICK p \in Nat, z \in 0 .. n - 1, k \in Nat : p = q + 1 /\ z = 0 /\ k = 1
    OBVIOUS
  <2>2. a + 1 = p * n + z /\ (r + 1) = k * n + z
    BY <1>1, <1>2, <1>3, <2>1
  <2>3. (p * n + z) % n = z /\ (k * n + z) % n = z
    BY Quotient
  <2>4. QED
    BY <1>1, <2>2, <2>3
<1>4. CASE r # n - 1
  <2>1. PICK s \in 0 .. n - 1, k \in Nat : s = r + 1 /\ k = 0
    BY <1>4
  <2>2. a + 1 = q * n + s /\ s = k * n + s
    BY <1>1, <1>2, <2>1
  <2>3. (q * n + s) % n = s /\ (k * n + s) % n = s
    BY Quotient
  <2>4. QED
    BY <1>1, <2>1, <2>2, <2>3
<1>5. QED
  BY <1>3, <1>4

(***************************************************************************)
(* The record: which fields an operator changes.                           *)
(***************************************************************************)

\* A UVI as created has every field.
LEMMA NewUviIs == WholeUvi(NewUvi)
BY DEF WholeUvi, NewUvi

\* A record with the same window and the same VSCROLL latch has the same field.
LEMMA FieldDependsOn ==
    ASSUME NEW u, NEW v, v.mem = u.mem, v.vscroll = u.vscroll
    PROVE  /\ \A o : At(v, o) = At(u, o)
           /\ FieldStart(v) = FieldStart(u)
           /\ RowHeight(v) = RowHeight(u)
           /\ FieldRows(v) = FieldRows(u)
BY DEF At, FieldStart, RowHeight, FieldRows

\* The latches of line 0.
LEMMA LatchKeeps ==
    ASSUME NEW u, WholeUvi(u)
    PROVE  LET w == Latch(u)
           IN  /\ WholeUvi(w)
               /\ w.mem = u.mem /\ w.line = u.line /\ w.frames = u.frames
               /\ w.frame = u.frame /\ w.pots = u.pots /\ w.invert = u.invert
               /\ w.shift = u.shift /\ w.renderFrom = u.renderFrom
               /\ w.vscroll = IF u.line = 0 THEN At(u, VSCROLL) ELSE u.vscroll
<1>1. CASE u.line # 0
  BY <1>1 DEF Latch
<1>2. CASE u.line = 0
  <2> DEFINE spos == [i \in Sprites |-> [y |-> At(u, SPRITEPOS + 2 * i),
                                        x |-> At(u, SPRITEPOS + 2 * i + 1)]]
             tops == {SpriteTop(spos[i].y) : i \in {j \in Sprites : spos[j].y # 0}}
             lo == IF tops = {} THEN 65535 ELSE Min(tops)
             hi == IF tops = {} THEN 0 ELSE Max(tops) + SpriteLines
  <2>1. Latch(u) = [u EXCEPT !.vscroll = At(u, VSCROLL), !.spos = spos, !.lo = lo,
                             !.hi = hi, !.bgHit = {}, !.sprHit = {}]
    BY <1>2 DEF Latch
  <2> HIDE DEF spos, tops, lo, hi
  <2>2. QED
    BY <1>2, <2>1 DEF WholeUvi
<1>3. QED
  BY <1>1, <1>2

\* The shift latch touches the shift only.
LEMMA LatchShiftKeeps ==
    ASSUME NEW u, WholeUvi(u)
    PROVE  LET w == LatchShift(u)
           IN  /\ WholeUvi(w)
               /\ w = [u EXCEPT !.shift = w.shift]
               /\ w.shift \in {u.shift, At(u, SOUND) \div 32}
BY DEF LatchShift, WholeUvi

\* Moving the beam touches the line and the frame count only.
LEMMA NextLineKeeps ==
    ASSUME NEW u, WholeUvi(u)
    PROVE  LET w == NextLine(u)
           IN  /\ WholeUvi(w)
               /\ w = [u EXCEPT !.line = w.line, !.frames = w.frames]
               /\ w.line = IF u.line + 1 = Lines THEN 0 ELSE u.line + 1
               /\ w.frames = IF u.line + 1 = Lines THEN u.frames + 1 ELSE u.frames
BY DEF NextLine, WholeUvi

\* Drawing adds collisions and a row of the picture, and touches nothing else.
LEMMA RenderKeeps ==
    ASSUME NEW u, WholeUvi(u), NEW flag
    PROVE  LET w == Render(u, flag)
           IN  /\ WholeUvi(w)
               /\ w = [u EXCEPT !.bgHit = w.bgHit, !.sprHit = w.sprHit, !.frame = w.frame]
BY DEF Render, WholeUvi

\* A line call: the beam, VSCROLL, the window.
LEMMA LineKeeps ==
    ASSUME NEW u, WholeUvi(u), NEW flag
    PROVE  LET w == Line(u, flag)
           IN  /\ WholeUvi(w)
               /\ w.mem = u.mem /\ w.pots = u.pots /\ w.invert = u.invert
               /\ w.renderFrom = u.renderFrom
               /\ w.line = IF u.line + 1 = Lines THEN 0 ELSE u.line + 1
               /\ w.frames = IF u.line + 1 = Lines THEN u.frames + 1 ELSE u.frames
               /\ w.vscroll = IF u.line = 0 THEN At(u, VSCROLL) ELSE u.vscroll
<1> DEFINE l == Latch(u)
           s == LatchShift(l)
           r == Render(s, flag)
           d == IF Sense(l) THEN l ELSE r
<1>1. Line(u, flag) = NextLine(d)
  BY DEF Line
<1> HIDE DEF l, s, r
<1>2. /\ WholeUvi(l)
      /\ l.mem = u.mem /\ l.line = u.line /\ l.frames = u.frames /\ l.pots = u.pots
      /\ l.invert = u.invert /\ l.renderFrom = u.renderFrom
      /\ l.vscroll = IF u.line = 0 THEN At(u, VSCROLL) ELSE u.vscroll
  BY LatchKeeps DEF l
<1>3. WholeUvi(s) /\ s = [l EXCEPT !.shift = s.shift]
  BY <1>2, LatchShiftKeeps DEF s
<1>4. /\ s.mem = l.mem /\ s.line = l.line /\ s.frames = l.frames /\ s.pots = l.pots
      /\ s.invert = l.invert /\ s.renderFrom = l.renderFrom /\ s.vscroll = l.vscroll
  BY <1>2, <1>3 DEF WholeUvi
<1>5. WholeUvi(r) /\ r = [s EXCEPT !.bgHit = r.bgHit, !.sprHit = r.sprHit, !.frame = r.frame]
  BY <1>3, RenderKeeps DEF r
<1>6. /\ r.mem = s.mem /\ r.line = s.line /\ r.frames = s.frames /\ r.pots = s.pots
      /\ r.invert = s.invert /\ r.renderFrom = s.renderFrom /\ r.vscroll = s.vscroll
  BY <1>3, <1>5 DEF WholeUvi
<1>7. /\ WholeUvi(d)
      /\ d.mem = u.mem /\ d.line = u.line /\ d.frames = u.frames /\ d.pots = u.pots
      /\ d.invert = u.invert /\ d.renderFrom = u.renderFrom
      /\ d.vscroll = IF u.line = 0 THEN At(u, VSCROLL) ELSE u.vscroll
  BY <1>2, <1>4, <1>5, <1>6
<1> HIDE DEF d
<1>8. WholeUvi(NextLine(d)) /\ LET w == NextLine(d)
      IN  /\ w = [d EXCEPT !.line = w.line, !.frames = w.frames]
          /\ w.line = IF d.line + 1 = Lines THEN 0 ELSE d.line + 1
          /\ w.frames = IF d.line + 1 = Lines THEN d.frames + 1 ELSE d.frames
  BY <1>7, NextLineKeeps
<1>9. LET w == NextLine(d)
      IN  /\ w.mem = d.mem /\ w.pots = d.pots /\ w.invert = d.invert
          /\ w.renderFrom = d.renderFrom /\ w.vscroll = d.vscroll
  <2> DEFINE w == NextLine(d)
             k == w.line
             n == w.frames
  <2>1. w = [d EXCEPT !.line = k, !.frames = n]
    BY <1>8
  <2> HIDE DEF w, k, n
  <2>2. WholeUvi(d)
    BY <1>7
  <2>3. /\ w.mem = d.mem /\ w.pots = d.pots /\ w.invert = d.invert
        /\ w.renderFrom = d.renderFrom /\ w.vscroll = d.vscroll
    BY <2>1, <2>2 DEF WholeUvi
  <2>4. QED
    BY <2>3 DEF w
<1>10. QED
  BY <1>1, <1>7, <1>8, <1>9

(***************************************************************************)
(* The beam against the field, and the horizon of stable_lines.            *)
(***************************************************************************)

\* A UVI whose beam is on line l, everything else being the same.
OnLine(u, l) == [u EXCEPT !.line = l]

\* Constants, and the geometry of the field.
LEMMA Geometry ==
    ASSUME NEW u, u.vscroll \in Byte
    PROVE  /\ Lines \in Nat /\ Active \in 1 .. Lines - 1
           /\ FieldStart(u) \in Int
           /\ RowHeight(u) \in Nat \ {0}
           /\ FieldRows(u) \in Nat \ {0}
           /\ Rows \in 1 .. 13
BY UviAssumption DEF Active, FieldStart, RowHeight, FieldRows, Byte

\* SENSE and CHARLINE on line l: 15 before the field and in VRST, the row in
\* the field, 13 after it.
LEMMA BeamOnLine ==
    ASSUME NEW u, WholeUvi(u), NEW l
    PROVE  LET f0 == FieldStart(u)
               row == (l - f0) \div RowHeight(u)
           IN  /\ Sense(OnLine(u, l)) = (l >= Active)
               /\ Dma(OnLine(u, l)) = IF l >= Active \/ l < f0 THEN 15
                                      ELSE IF l >= f0 /\ row < FieldRows(u) THEN row % Rows
                                      ELSE 13
<1> DEFINE v == OnLine(u, l)
<1>1. v.line = l /\ v.mem = u.mem /\ v.vscroll = u.vscroll
  BY DEF OnLine, WholeUvi
<1> HIDE DEF v
<1>2. FieldStart(v) = FieldStart(u) /\ RowHeight(v) = RowHeight(u) /\ FieldRows(v) = FieldRows(u)
  BY <1>1, FieldDependsOn
<1>3. Sense(v) = (l >= Active)
  BY <1>1 DEF Sense
<1>4. Dma(v) = IF l >= Active \/ l < FieldStart(u) THEN 15
               ELSE IF /\ l >= FieldStart(u)
                       /\ (l - FieldStart(u)) \div RowHeight(u) < FieldRows(u)
                    THEN ((l - FieldStart(u)) \div RowHeight(u)) % Rows
               ELSE 13
  BY <1>1, <1>2, <1>3 DEF Dma, InField, FieldRow
<1>5. QED
  BY <1>3, <1>4 DEF v

\* stable_lines promises less than the rest of the frame; and as long as it
\* lasts, from any line l on, SENSE and CHARLINE are what they are on l.
LEMMA Horizon ==
    ASSUME NEW u, WholeUvi(u), u.vscroll \in Byte,
           NEW l \in 0 .. Lines - 1, NEW s \in BOOLEAN, NEW c \in BOOLEAN
    PROVE  LET n == StableLinesFrom(u, l, s, c)
           IN  /\ n \in Nat /\ l + n < Lines
               /\ \A m \in l .. l + n :
                     /\ s => Sense(OnLine(u, m)) = Sense(OnLine(u, l))
                     /\ c => Dma(OnLine(u, m)) = Dma(OnLine(u, l))
<1> DEFINE f0 == FieldStart(u)
           h == RowHeight(u)
           rows == FieldRows(u)
           q == (l - f0) \div h
           edge == IF l < f0 THEN f0
                   ELSE IF l < f0 + rows * h THEN f0 + (q + 1) * h
                   ELSE Active
           next == IF c /\ l < Active THEN Least(edge, Active)
                   ELSE IF s /\ l < Active THEN Active
                   ELSE Lines
           n == StableLinesFrom(u, l, s, c)
           D(m) == IF m >= Active \/ m < f0 THEN 15
                   ELSE IF m >= f0 /\ (m - f0) \div h < rows THEN ((m - f0) \div h) % Rows
                   ELSE 13
<1>1. /\ Lines \in Nat /\ Active \in 1 .. Lines - 1 /\ f0 \in Int
      /\ h \in Nat \ {0} /\ rows \in Nat \ {0} /\ l \in 0 .. Lines - 1
  BY Geometry
<1>2. n = IF c /\ l = 0 /\ At(u, VSCROLL) # u.vscroll THEN 0 ELSE next - l - 1
  BY DEF StableLinesFrom
<1>3. \A m : /\ Sense(OnLine(u, m)) = (m >= Active)
             /\ Dma(OnLine(u, m)) = D(m)
  BY BeamOnLine
<1> HIDE DEF f0, h, rows, D
<1> HIDE DEF n
<1> USE DEF D
<1>4. /\ rows * h \in Nat
      /\ l >= f0 => q \in Nat /\ q * h \in Nat /\ (q + 1) * h = q * h + h
                    /\ l - f0 \in q * h .. q * h + h - 1
                    /\ (q < rows <=> l - f0 < rows * h)
  <2>1. rows * h \in Nat
    BY <1>1
  <2>2. ASSUME l >= f0
        PROVE  q \in Nat /\ q * h \in Nat /\ (q + 1) * h = q * h + h
               /\ l - f0 \in q * h .. q * h + h - 1
               /\ (q < rows <=> l - f0 < rows * h)
    <3>1. l - f0 \in Nat
      BY <1>1, <2>2
    <3>2. PICK p \in Nat, r \in 0 .. h - 1 : p = q /\ l - f0 = p * h + r
      BY <1>1, <3>1, Division
    <3>3. p * h \in Nat /\ (p + 1) * h = p * h + h
      BY <1>1, OneMore
    <3>4. q < rows <=> l - f0 < rows * h
      BY <1>1, <3>1, Blocks
    <3>5. l - f0 \in p * h .. p * h + h - 1
      BY <1>1, <3>2, <3>3
    <3>6. QED
      BY <3>2, <3>3, <3>4, <3>5
  <2>3. QED
    BY <2>1, <2>2
<1> HIDE DEF q
<1>5. PICK rh \in Nat : rh = rows * h
  BY <1>4
<1>6. PICK e \in Int : e = (q + 1) * h /\ (l >= f0 => e > l - f0)
  <2>1. CASE l >= f0
    BY <1>1, <1>4, <2>1
  <2>2. CASE ~(l >= f0)
    <3>1. \E e \in Int : e = (q + 1) * h
      BY <1>1 DEF q
    <3>2. QED
      BY <2>2, <3>1
  <2>3. QED
    BY <2>1, <2>2
<1>7. next \in Int /\ next > l /\ next <= Lines /\ (s /\ l < Active => next <= Active)
  BY <1>1, <1>5, <1>6 DEF Least
<1> DEFINE Steady ==
        /\ n \in Nat /\ l + n < Lines
        /\ \A m \in l .. l + n :
              /\ s => (m >= Active) = (l >= Active)
              /\ c => D(m) = D(l)
<1>8. ASSUME c /\ l = 0 /\ At(u, VSCROLL) # u.vscroll
      PROVE  Steady
  BY <1>1, <1>2, <1>8
<1>9. ASSUME ~(c /\ l = 0 /\ At(u, VSCROLL) # u.vscroll)
      PROVE  Steady
  <2>1. n = next - l - 1
    BY <1>2, <1>9
  <2>2. n \in Nat /\ l + n < Lines
    BY <1>1, <1>7, <2>1
  <2>3. ASSUME NEW m \in l .. l + n
        PROVE  m \in Int /\ m >= l /\ m < next /\ m < Lines
    BY <1>1, <1>7, <2>1, <2>2, <2>3
  <2>4. ASSUME NEW m \in l .. l + n, s
        PROVE  (m >= Active) = (l >= Active)
    BY <1>1, <1>7, <2>3, <2>4
  <2>5. ASSUME NEW m \in l .. l + n, c
        PROVE  D(m) = D(l)
    <3>1. m \in Int /\ m >= l /\ m < next
      BY <2>3
    <3>2. CASE l >= Active
      BY <1>1, <3>1, <3>2
    <3>3. CASE l < Active /\ l < f0
      <4>1. m < f0 /\ m < Active
        BY <1>1, <2>5, <3>1, <3>3 DEF Least
      <4>2. QED
        BY <1>1, <3>3, <4>1
    <3>4. CASE l < Active /\ l >= f0 /\ l < f0 + rows * h
      <4>1. m < f0 + (q + 1) * h /\ m < Active
        BY <1>1, <1>5, <1>6, <2>5, <3>1, <3>4 DEF Least
      <4>2. l - f0 \in Nat /\ m - f0 \in Nat /\ l - f0 <= m - f0 /\ m - f0 < (q + 1) * h
        BY <1>1, <1>6, <3>1, <3>4, <4>1
      <4>3. (m - f0) \div h = q
        BY <1>1, <4>2, SameBlock DEF q
      <4>4. QED
        BY <1>1, <3>1, <3>4, <4>1, <4>2, <4>3 DEF q
    <3>5. CASE l < Active /\ l >= f0 /\ ~(l < f0 + rows * h)
      <4>1. m < Active
        BY <1>1, <1>5, <2>5, <3>1, <3>5 DEF Least
      <4>2. m - f0 \in Nat /\ l - f0 \in Nat /\ ~(l - f0 < rows * h) /\ ~(m - f0 < rows * h)
        BY <1>1, <1>5, <3>1, <3>5
      <4>3. ~((m - f0) \div h < rows) /\ ~((l - f0) \div h < rows)
        BY <1>1, <4>2, Blocks
      <4>4. QED
        BY <1>1, <3>1, <3>5, <4>1, <4>3
    <3>6. QED
      BY <1>1, <1>5, <3>2, <3>3, <3>4, <3>5
  <2>6. QED
    BY <2>2, <2>4, <2>5
<1> HIDE DEF D
<1>10. Steady
  BY <1>8, <1>9
<1>11. ASSUME NEW m \in l .. l + n
       PROVE  /\ s => Sense(OnLine(u, m)) = Sense(OnLine(u, l))
              /\ c => Dma(OnLine(u, m)) = Dma(OnLine(u, l))
  <2>1. /\ Sense(OnLine(u, m)) = (m >= Active) /\ Sense(OnLine(u, l)) = (l >= Active)
        /\ Dma(OnLine(u, m)) = D(m) /\ Dma(OnLine(u, l)) = D(l)
    BY <1>3, Zenon
  <2>2. s => Sense(OnLine(u, m)) = Sense(OnLine(u, l))
    BY <1>10, <1>11, <2>1, Zenon
  <2>3. c => Dma(OnLine(u, m)) = Dma(OnLine(u, l))
    BY <1>10, <1>11, <2>1, Zenon
  <2>4. QED
    BY <2>2, <2>3
<1>12. QED
  BY <1>10, <1>11 DEF n

\* From one line to the next CHARLINE stays, or goes from before the field into
\* its first row, from a row to the next (or out of the field), or from below
\* the field into VRST.
LEMMA NextRow ==
    ASSUME NEW u, WholeUvi(u), u.vscroll \in Byte, NEW l \in 0 .. Active - 1
    PROVE  LET d == Dma(OnLine(u, l))
               e == Dma(OnLine(u, l + 1))
           IN  \/ e = d
               \/ d = 15 /\ e = 0
               \/ d < 13 /\ e \in {(d + 1) % Rows, 13, 15}
               \/ d = 13 /\ e = 15
<1> DEFINE f0 == FieldStart(u)
           h == RowHeight(u)
           rows == FieldRows(u)
           D(m) == IF m >= Active \/ m < f0 THEN 15
                   ELSE IF m >= f0 /\ (m - f0) \div h < rows THEN ((m - f0) \div h) % Rows
                   ELSE 13
<1>1. /\ Lines \in Nat /\ Active \in 1 .. Lines - 1 /\ f0 \in Int
      /\ h \in Nat \ {0} /\ rows \in Nat \ {0} /\ Rows \in Nat \ {0} /\ Rows <= 13
  BY Geometry
<1>2. Dma(OnLine(u, l)) = D(l) /\ Dma(OnLine(u, l + 1)) = D(l + 1)
  BY BeamOnLine
<1> HIDE DEF f0, h, rows
<1>3. CASE l + 1 >= Active
  <2>1. D(l + 1) = 15
    BY <1>3
  <2>2. D(l) \in {15, 13} \/ D(l) < 13
    <3>1. CASE l >= f0 /\ (l - f0) \div h < rows
      <4>1. PICK q \in Nat : q = (l - f0) \div h
        <5>1. l - f0 \in Nat
          BY <1>1, <3>1
        <5>2. (l - f0) \div h \in Nat
          BY <1>1, <5>1, Division
        <5>3. QED
          BY <5>2
      <4>2. q % Rows \in 0 .. Rows - 1
        BY <1>1, <4>1, Division
      <4>3. QED
        BY <1>1, <3>1, <4>1, <4>2
    <3>2. CASE ~(l >= f0 /\ (l - f0) \div h < rows)
      BY <1>1, <3>2
    <3>3. QED
      BY <3>1, <3>2
  <2> HIDE DEF D
  <2>3. QED
    BY <1>2, <2>1, <2>2
<1>4. CASE l + 1 < Active /\ l + 1 < f0
  <2>1. D(l + 1) = 15 /\ D(l) = 15
    BY <1>1, <1>4
  <2>2. QED
    BY <1>2, <2>1
<1>5. CASE l + 1 < Active /\ l + 1 = f0
  <2>1. PICK z \in Nat : z = 0
    OBVIOUS
  <2>2. z \div h = 0 /\ z % Rows = 0 /\ z = l + 1 - f0
    BY <1>1, <1>5, <2>1
  <2>3. D(l + 1) = 0 /\ D(l) = 15
    BY <1>1, <1>5, <2>1, <2>2
  <2>4. QED
    BY <1>2, <2>3
<1>6. CASE l + 1 < Active /\ l >= f0
  <2>1. PICK a \in Nat : a = l - f0
    BY <1>1, <1>6
  <2>2. PICK q \in Nat, p \in Nat : q = a \div h /\ p = (a + 1) \div h
    <3>1. a + 1 \in Nat
      OBVIOUS
    <3>2. a \div h \in Nat /\ (a + 1) \div h \in Nat
      BY <1>1, <3>1, Division
    <3>3. QED
      BY <3>2
  <2>3. p \in {q, q + 1}
    BY <1>1, <2>2, NextBlock
  <2>4. /\ D(l) = IF q < rows THEN q % Rows ELSE 13
        /\ D(l + 1) = IF p < rows THEN p % Rows ELSE 13
    <3>1. a + 1 = (l + 1) - f0
      BY <1>1, <2>1
    <3>2. D(l) = IF q < rows THEN q % Rows ELSE 13
      BY <1>1, <1>6, <2>1, <2>2
    <3>3. D(l + 1) = IF p < rows THEN p % Rows ELSE 13
      BY <1>1, <1>6, <2>2, <3>1
    <3>4. QED
      BY <3>2, <3>3
  <2>5. q % Rows \in 0 .. Rows - 1 /\ (q + 1) % Rows = ((q % Rows) + 1) % Rows
    BY <1>1, Remainder
  <2> HIDE DEF D
  <2>6. CASE p = q
    BY <1>2, <2>4, <2>6
  <2>7. CASE p = q + 1
    BY <1>1, <1>2, <2>4, <2>5, <2>7
  <2>8. QED
    BY <2>3, <2>6, <2>7
<1>7. QED
  BY <1>1, <1>3, <1>4, <1>5, <1>6

(***************************************************************************)
(* Sprites: the range of lines they may occupy, and collisions.            *)
(***************************************************************************)

\* The latched range of lines covers every sprite that is on.
RangeOK(u) ==
    /\ u.lo \in Int /\ u.hi \in Int
    /\ \A i \in Sprites :
          u.spos[i].y \in Byte
          /\ (u.spos[i].y # 0 =>
                 /\ u.lo <= SpriteTop(u.spos[i].y)
                 /\ SpriteTop(u.spos[i].y) + SpriteLines <= u.hi)

\* A set of numbers is empty or has a least and a greatest.
Bounded(S) ==
    S # {} => /\ \E x \in S : \A y \in S : x <= y
              /\ \E x \in S : \A y \in S : x >= y

\* Adding a number to a set keeps it bounded.
LEMMA OneMoreElement ==
    ASSUME NEW S \in SUBSET Int, NEW a \in Int, Bounded(S \ {a})
    PROVE  Bounded(S)
<1>1. CASE a \notin S
  <2>1. S \ {a} = S
    BY <1>1
  <2>2. QED
    BY <2>1
<1>2. CASE S \ {a} = {}
  BY <1>2 DEF Bounded
<1>3. CASE a \in S /\ S \ {a} # {}
  <2>1. PICK x \in S \ {a} : \A y \in S \ {a} : x <= y
    BY <1>3 DEF Bounded
  <2>2. PICK z \in S \ {a} : \A y \in S \ {a} : z >= y
    BY <1>3 DEF Bounded
  <2>3. \E w \in S : \A y \in S : w <= y
    <3>1. CASE x <= a
      BY <1>3, <2>1, <3>1
    <3>2. CASE a < x
      BY <1>3, <2>1, <3>2
    <3>3. QED
      BY <2>1, <3>1, <3>2
  <2>4. \E w \in S : \A y \in S : w >= y
    <3>1. CASE z >= a
      BY <1>3, <2>2, <3>1
    <3>2. CASE a > z
      BY <1>3, <2>2, <3>2
    <3>3. QED
      BY <2>2, <3>1, <3>2
  <2>5. QED
    BY <2>3, <2>4 DEF Bounded
<1>4. QED
  BY <1>1, <1>2, <1>3

\* A set of at most four numbers has a least and a greatest.
LEMMA Extremes ==
    ASSUME NEW a \in Int, NEW b \in Int, NEW c \in Int, NEW d \in Int,
           NEW S \in SUBSET {a, b, c, d}, S # {}
    PROVE  /\ Min(S) \in Int /\ \A x \in S : Min(S) <= x
           /\ Max(S) \in Int /\ \A x \in S : x <= Max(S)
<1>1. /\ \E x \in S : \A y \in S : x <= y
      /\ \E x \in S : \A y \in S : x >= y
  <2>1. S \in SUBSET Int /\ ((S \ {a}) \ {b}) \ {c} \subseteq {d}
    OBVIOUS
  <2>2. Bounded(((S \ {a}) \ {b}) \ {c})
    <3>1. Bounded((((S \ {a}) \ {b}) \ {c}) \ {d})
      BY <2>1 DEF Bounded
    <3>2. QED
      BY <2>1, <3>1, OneMoreElement
  <2>3. Bounded((S \ {a}) \ {b})
    BY <2>1, <2>2, OneMoreElement
  <2>4. Bounded(S \ {a})
    BY <2>1, <2>3, OneMoreElement
  <2>5. Bounded(S)
    BY <2>1, <2>4, OneMoreElement
  <2>6. QED
    BY <2>5 DEF Bounded
<1>3. Min(S) \in S /\ \A y \in S : Min(S) <= y
  BY <1>1 DEF Min
<1>4. Max(S) \in S /\ \A y \in S : Max(S) >= y
  BY <1>1 DEF Max
<1>5. S \subseteq Int
  OBVIOUS
<1>6. QED
  BY <1>3, <1>4, <1>5

\* The line a sprite starts on is a number, negative above the raster.
LEMMA SpriteTopType ==
    ASSUME NEW y \in Byte
    PROVE  SpriteTop(y) \in Int
<1>1. FieldTop \in Int /\ y \in Int
  BY UviAssumption DEF Byte
<1>2. QED
  BY <1>1 DEF SpriteTop

\* At line 0 the range is latched with the sprites' places.
LEMMA LatchRange ==
    ASSUME NEW u, WholeUvi(u), MemoryOK(u), RangeOK(u)
    PROVE  RangeOK(Latch(u))
<1> DEFINE spos == [i \in Sprites |-> [y |-> At(u, SPRITEPOS + 2 * i),
                                      x |-> At(u, SPRITEPOS + 2 * i + 1)]]
           tops == {SpriteTop(spos[i].y) : i \in {j \in Sprites : spos[j].y # 0}}
           lo == IF tops = {} THEN 65535 ELSE Min(tops)
           hi == IF tops = {} THEN 0 ELSE Max(tops) + SpriteLines
<1>1. CASE u.line # 0
  BY <1>1 DEF Latch
<1>2. CASE u.line = 0
  <2>1. Latch(u) = [u EXCEPT !.vscroll = At(u, VSCROLL), !.spos = spos, !.lo = lo,
                             !.hi = hi, !.bgHit = {}, !.sprHit = {}]
    BY <1>2 DEF Latch
  <2>2. \A o : At(u, o) \in Byte
    BY DEF At, MemoryOK, Byte
  <2>3. \A i \in Sprites : spos[i].y \in Byte
    BY <2>2
  <2> HIDE DEF spos
  <2>4. \A i \in Sprites : SpriteTop(spos[i].y) \in Int
    BY <2>3, SpriteTopType
  <2>5. tops \in SUBSET {SpriteTop(spos[0].y), SpriteTop(spos[1].y),
                        SpriteTop(spos[2].y), SpriteTop(spos[3].y)}
    BY DEF Sprites
  <2>6. /\ SpriteTop(spos[0].y) \in Int /\ SpriteTop(spos[1].y) \in Int
        /\ SpriteTop(spos[2].y) \in Int /\ SpriteTop(spos[3].y) \in Int
    BY <2>4 DEF Sprites
  <2>7. \A i \in Sprites : spos[i].y # 0 => SpriteTop(spos[i].y) \in tops
    OBVIOUS
  <2> HIDE DEF tops
  <2>8. /\ lo \in Int /\ hi \in Int
        /\ \A x \in tops : lo <= x /\ x + SpriteLines <= hi
    <3>1. CASE tops = {}
      BY <3>1
    <3>2. CASE tops # {}
      <4>1. /\ Min(tops) \in Int /\ \A x \in tops : Min(tops) <= x
            /\ Max(tops) \in Int /\ \A x \in tops : x <= Max(tops)
        BY <2>5, <2>6, <3>2, Extremes
      <4>2. tops \subseteq Int
        BY <2>5, <2>6
      <4>3. QED
        BY <3>2, <4>1, <4>2, UviAssumption
    <3>3. QED
      BY <3>1, <3>2
  <2> HIDE DEF lo, hi
  <2>9. Latch(u).spos = spos /\ Latch(u).lo = lo /\ Latch(u).hi = hi
    BY <2>1 DEF WholeUvi
  <2>10. QED
    BY <2>3, <2>7, <2>8, <2>9 DEF RangeOK
<1>3. QED
  BY <1>1, <1>2

\* Nothing of a sprite is on a line outside the range.
LEMMA OffRange ==
    ASSUME NEW u, RangeOK(u), u.line \in Nat, u.line \notin u.lo .. u.hi - 1,
           NEW i \in Sprites
    PROVE  SpriteColumns(u, i) = {}
<1> DEFINE y == u.spos[i].y
           top == SpriteTop(y)
           short == Bit(At(u, SIZES - (i \div 2)), IF i % 2 = 0 THEN 128 ELSE 64) = 1
           height == IF short THEN SpriteLines \div 2 ELSE SpriteLines
<1>1. CASE y = 0
  BY <1>1 DEF SpriteColumns
<1>2. CASE y # 0
  <2>1. /\ u.lo \in Int /\ u.hi \in Int /\ top \in Int
        /\ u.lo <= top /\ top + SpriteLines <= u.hi
    BY <1>2, SpriteTopType DEF RangeOK
  <2>2. height \in Int /\ height <= SpriteLines
    BY UviAssumption
  <2> HIDE DEF height
  <2>3. u.line - top \notin 0 .. height - 1
    BY <2>1, <2>2, UviAssumption
  <2>4. QED
    BY <2>3 DEF SpriteColumns, height
<1>3. QED
  BY <1>1, <1>2

\* What is drawn on a line depends on the window, the beam and the latches.
SameScene(u, v) ==
    /\ v.mem = u.mem /\ v.line = u.line /\ v.vscroll = u.vscroll
    /\ v.spos = u.spos /\ v.shift = u.shift

\* Two UVIs with the same scene put pixels on the same columns of the line.
LEMMA SameColumns ==
    ASSUME NEW u, NEW v, SameScene(u, v)
    PROVE  /\ FieldColumns(v) = FieldColumns(u)
           /\ \A i \in Sprites : SpriteColumns(v, i) = SpriteColumns(u, i)
<1>1. /\ \A o : At(v, o) = At(u, o)
      /\ FieldStart(v) = FieldStart(u)
      /\ RowHeight(v) = RowHeight(u)
      /\ FieldRows(v) = FieldRows(u)
  BY FieldDependsOn DEF SameScene
<1>2. /\ InField(v) = InField(u) /\ FieldRow(v) = FieldRow(u)
      /\ FieldSub(v) = FieldSub(u)
  BY <1>1 DEF SameScene, InField, FieldRow, FieldSub
<1>3. \A n, r, j : CellPattern(v, n, r, j) = CellPattern(u, n, r, j)
  BY <1>1 DEF CellPattern
<1>4. FieldColumns(v) = FieldColumns(u)
  BY <1>1, <1>2, <1>3, ZenonT(30) DEF FieldColumns, SameScene
<1>5. ASSUME NEW i \in Sprites PROVE SpriteColumns(v, i) = SpriteColumns(u, i)
  BY <1>1 DEF SpriteColumns, SameScene
<1>6. QED
  BY <1>4, <1>5

\* The sprites on the line, those over characters and the pairs over each other.
Live(u) == {i \in Sprites : SpriteColumns(u, i) # {}}
GroundHits(u) == {i \in Live(u) : SpriteColumns(u, i) \cap FieldColumns(u) # {}}
PairHits(u) ==
    {p \in SUBSET Live(u) : /\ Cardinality(p) = 2
                           /\ \A i, j \in p : SpriteColumns(u, i) \cap SpriteColumns(u, j) # {}}

\* Drawn or not, a line adds the same collisions: where none are computed there
\* is no sprite.
LEMMA RenderIs ==
    ASSUME NEW u, WholeUvi(u), RangeOK(u), u.line \in Nat, NEW flag
    PROVE  LET w == Render(u, flag)
           IN  /\ w.bgHit = u.bgHit \cup GroundHits(u)
               /\ w.sprHit = u.sprHit \cup PairHits(u)
               /\ w.frame = IF u.frames >= u.renderFrom
                            THEN [u.frame EXCEPT ![u.line] = RowOf(u, Live(u), flag)]
                            ELSE u.frame
<1> DEFINE drawing == u.frames >= u.renderFrom
           columns == [i \in Sprites |-> SpriteColumns(u, i)]
           live == {i \in Sprites : columns[i] # {}}
           ground == IF live = {} THEN {} ELSE FieldColumns(u)
           bg == {i \in live : columns[i] \cap ground # {}}
           spr == {p \in SUBSET live : Cardinality(p) = 2
                     /\ \A i, j \in p : columns[i] \cap columns[j] # {}}
           off == ~drawing /\ u.line \notin u.lo .. u.hi - 1
           shown == IF drawing THEN [u.frame EXCEPT ![u.line] = RowOf(u, live, flag)]
                    ELSE u.frame
<1>1. Render(u, flag) =
          IF off THEN u ELSE [u EXCEPT !.bgHit = u.bgHit \cup bg, !.sprHit = u.sprHit \cup spr,
                                       !.frame = shown]
  BY DEF Render, WholeUvi
<1>2. live = Live(u)
  BY DEF Live
<1>3. bg = GroundHits(u)
  BY <1>2 DEF GroundHits, Live
<1>4. spr = PairHits(u)
  BY <1>2 DEF PairHits, Live
<1> HIDE DEF live, bg, spr, drawing
<1>5. CASE off
  <2>1. Live(u) = {}
    BY <1>5, OffRange DEF Live
  <2>2. GroundHits(u) = {} /\ PairHits(u) = {}
    BY <2>1, FS_EmptySet DEF GroundHits, PairHits
  <2>3. Render(u, flag) = u
    BY <1>1, <1>5
  <2>4. QED
    BY <1>5, <2>2, <2>3 DEF drawing
<1> HIDE DEF off, shown
<1>6. CASE ~off
  <2>1. Render(u, flag) = [u EXCEPT !.bgHit = u.bgHit \cup bg, !.sprHit = u.sprHit \cup spr,
                                    !.frame = shown]
    BY <1>1, <1>6
  <2>2. /\ Render(u, flag).bgHit = u.bgHit \cup bg
        /\ Render(u, flag).sprHit = u.sprHit \cup spr
        /\ Render(u, flag).frame = shown
    BY <2>1 DEF WholeUvi
  <2>3. QED
    BY <1>2, <1>3, <1>4, <2>2 DEF shown, drawing
<1>7. QED
  BY <1>5, <1>6

(***************************************************************************)
(* Two UVIs that differ in their pictures only.                            *)
(***************************************************************************)

Twins(u, v) ==
    /\ v.mem = u.mem /\ v.line = u.line /\ v.frames = u.frames /\ v.pots = u.pots
    /\ v.invert = u.invert /\ v.vscroll = u.vscroll /\ v.spos = u.spos
    /\ v.lo = u.lo /\ v.hi = u.hi /\ v.shift = u.shift
    /\ v.bgHit = u.bgHit /\ v.sprHit = u.sprHit

\* The latches of line 0 keep twins alike.
LEMMA LatchTwins ==
    ASSUME NEW u, NEW v, WholeUvi(u), WholeUvi(v), Twins(u, v)
    PROVE  Twins(Latch(u), Latch(v))
<1> DEFINE spos(w) == [i \in Sprites |-> [y |-> At(w, SPRITEPOS + 2 * i),
                                         x |-> At(w, SPRITEPOS + 2 * i + 1)]]
           tops(w) == {SpriteTop(spos(w)[i].y) : i \in {j \in Sprites : spos(w)[j].y # 0}}
           lo(w) == IF tops(w) = {} THEN 65535 ELSE Min(tops(w))
           hi(w) == IF tops(w) = {} THEN 0 ELSE Max(tops(w)) + SpriteLines
<1>1. CASE u.line # 0
  BY <1>1 DEF Latch, Twins
<1>2. CASE u.line = 0
  <2>1. /\ Latch(u) = [u EXCEPT !.vscroll = At(u, VSCROLL), !.spos = spos(u), !.lo = lo(u),
                                !.hi = hi(u), !.bgHit = {}, !.sprHit = {}]
        /\ Latch(v) = [v EXCEPT !.vscroll = At(v, VSCROLL), !.spos = spos(v), !.lo = lo(v),
                                !.hi = hi(v), !.bgHit = {}, !.sprHit = {}]
    BY <1>2 DEF Latch, Twins
  <2>2. \A o : At(v, o) = At(u, o)
    BY FieldDependsOn DEF Twins
  <2>3. spos(v) = spos(u)
    BY <2>2
  <2> HIDE DEF spos
  <2>4. lo(v) = lo(u) /\ hi(v) = hi(u)
    BY <2>3
  <2> HIDE DEF lo, hi
  <2>5. QED
    BY <2>1, <2>2, <2>3, <2>4 DEF WholeUvi, Twins
<1>3. QED
  BY <1>1, <1>2

\* The shift latch keeps twins alike.
LEMMA LatchShiftTwins ==
    ASSUME NEW u, NEW v, WholeUvi(u), WholeUvi(v), Twins(u, v)
    PROVE  Twins(LatchShift(u), LatchShift(v))
<1>1. /\ \A o : At(v, o) = At(u, o)
      /\ FieldStart(v) = FieldStart(u) /\ RowHeight(v) = RowHeight(u)
      /\ FieldRows(v) = FieldRows(u)
  BY FieldDependsOn DEF Twins
<1>2. InField(v) = InField(u) /\ FieldSub(v) = FieldSub(u)
  BY <1>1 DEF Twins, InField, FieldRow, FieldSub
<1>3. QED
  BY <1>1, <1>2 DEF LatchShift, Twins, WholeUvi

\* Twins have the same collisions on a line, and would draw the same row.
LEMMA RowTwins ==
    ASSUME NEW u, NEW v, Twins(u, v), NEW flag
    PROVE  /\ GroundHits(v) = GroundHits(u) /\ PairHits(v) = PairHits(u)
           /\ RowOf(v, Live(v), flag) = RowOf(u, Live(u), flag)
<1>1. /\ \A o : At(v, o) = At(u, o)
      /\ FieldStart(v) = FieldStart(u) /\ RowHeight(v) = RowHeight(u)
      /\ FieldRows(v) = FieldRows(u)
  BY FieldDependsOn DEF Twins
<1>2. InField(v) = InField(u) /\ FieldRow(v) = FieldRow(u)
  BY <1>1 DEF Twins, InField, FieldRow
<1>3. /\ FieldColumns(v) = FieldColumns(u)
      /\ \A i \in Sprites : SpriteColumns(v, i) = SpriteColumns(u, i)
  BY SameColumns DEF SameScene, Twins
<1>4. Live(v) = Live(u)
  BY <1>3 DEF Live
<1>5. Live(u) \subseteq Sprites
  BY DEF Live
<1>6. GroundHits(v) = GroundHits(u)
  BY <1>3, <1>4, <1>5 DEF GroundHits
<1>7. PairHits(v) = PairHits(u)
  BY <1>3, <1>4, <1>5 DEF PairHits
<1>8. RowOf(v, Live(v), flag) = RowOf(u, Live(u), flag)
  BY <1>1, <1>2, <1>4 DEF RowOf, Twins
<1>9. QED
  BY <1>6, <1>7, <1>8

\* The picture with row drawn where the beam is, if this frame is drawn.
Redrawn(w, row) ==
    IF w.line >= Active \/ ~(w.frames >= w.renderFrom) THEN w.frame
    ELSE [w.frame EXCEPT ![w.line] = row]

\* A line call keeps two such UVIs alike, and draws the same row on both, a row
\* of this frame, each in a picture of its own and if it is drawing this frame.
LEMMA LineTwins ==
    ASSUME NEW u, NEW v, WholeUvi(u), WholeUvi(v), Twins(u, v),
           RangeOK(u), MemoryOK(u), u.line \in Nat, NEW flag
    PROVE  /\ Twins(Line(u, flag), Line(v, flag))
           /\ RangeOK(Line(u, flag))
           /\ \E row : /\ row.frame = u.frames
                       /\ Line(u, flag).frame = Redrawn(u, row)
                       /\ Line(v, flag).frame = Redrawn(v, row)
<1> DEFINE s(w) == LatchShift(Latch(w))
           d(w) == IF Sense(Latch(w)) THEN Latch(w) ELSE Render(s(w), flag)
           row == RowOf(s(u), Live(s(u)), flag)
<1>1. Twins(Latch(u), Latch(v)) /\ RangeOK(Latch(u))
  BY LatchTwins, LatchRange
<1>2. /\ WholeUvi(Latch(u)) /\ Latch(u).line = u.line /\ Latch(u).frames = u.frames
      /\ Latch(u).frame = u.frame /\ Latch(u).renderFrom = u.renderFrom
      /\ WholeUvi(Latch(v)) /\ Latch(v).line = u.line /\ Latch(v).frames = u.frames
      /\ Latch(v).frame = v.frame /\ Latch(v).renderFrom = v.renderFrom
  BY LatchKeeps DEF Twins
<1>3. Twins(s(u), s(v))
  BY <1>1, <1>2, LatchShiftTwins
<1>4. ASSUME NEW w, WholeUvi(w)
      PROVE  LET z == LatchShift(w)
             IN  /\ WholeUvi(z) /\ z.line = w.line /\ z.frames = w.frames
                 /\ z.frame = w.frame /\ z.renderFrom = w.renderFrom
                 /\ z.lo = w.lo /\ z.hi = w.hi /\ z.spos = w.spos
  <2>1. WholeUvi(LatchShift(w)) /\ LatchShift(w) = [w EXCEPT !.shift = LatchShift(w).shift]
    BY <1>4, LatchShiftKeeps
  <2>2. QED
    BY <1>4, <2>1 DEF WholeUvi
<1>5. /\ WholeUvi(s(u)) /\ s(u).line = u.line /\ s(u).frames = u.frames
      /\ s(u).frame = u.frame /\ s(u).renderFrom = u.renderFrom
      /\ WholeUvi(s(v)) /\ s(v).line = u.line /\ s(v).frames = u.frames
      /\ s(v).frame = v.frame /\ s(v).renderFrom = v.renderFrom
  BY <1>2, <1>4
<1>6. RangeOK(s(u))
  BY <1>1, <1>2, <1>4 DEF RangeOK
<1>7. RangeOK(s(v))
  BY <1>3, <1>6 DEF RangeOK, Twins
<1>8. /\ GroundHits(s(v)) = GroundHits(s(u)) /\ PairHits(s(v)) = PairHits(s(u))
      /\ RowOf(s(v), Live(s(v)), flag) = row
  BY <1>3, RowTwins
<1>20. row.frame = u.frames
  BY <1>5 DEF RowOf
<1> HIDE DEF s
<1>9. \A w \in {u, v} :
         /\ Render(s(w), flag).bgHit = s(w).bgHit \cup GroundHits(s(u))
         /\ Render(s(w), flag).sprHit = s(w).sprHit \cup PairHits(s(u))
         /\ Render(s(w), flag).frame = IF u.frames >= w.renderFrom
                                       THEN [w.frame EXCEPT ![u.line] = row]
                                       ELSE w.frame
  BY <1>5, <1>6, <1>7, <1>8, RenderIs
<1> HIDE DEF row
<1>10. ASSUME NEW w, WholeUvi(w)
       PROVE  LET z == Render(w, flag)
              IN  /\ WholeUvi(z) /\ z.mem = w.mem /\ z.line = w.line /\ z.frames = w.frames
                  /\ z.pots = w.pots /\ z.invert = w.invert /\ z.vscroll = w.vscroll
                  /\ z.spos = w.spos /\ z.lo = w.lo /\ z.hi = w.hi /\ z.shift = w.shift
  <2>1. LET z == Render(w, flag)
        IN  WholeUvi(z) /\ z = [w EXCEPT !.bgHit = z.bgHit, !.sprHit = z.sprHit,
                                      !.frame = z.frame]
    BY <1>10, RenderKeeps
  <2>2. QED
    BY <1>10, <2>1 DEF WholeUvi
<1>11. Twins(Render(s(u), flag), Render(s(v), flag)) /\ RangeOK(Render(s(u), flag))
  <2>1. Twins(Render(s(u), flag), Render(s(v), flag))
    BY <1>3, <1>5, <1>9, <1>10 DEF Twins
  <2>2. RangeOK(Render(s(u), flag))
    BY <1>5, <1>6, <1>10 DEF RangeOK
  <2>3. QED
    BY <2>1, <2>2
<1>12. Sense(Latch(u)) = (u.line >= Active) /\ Sense(Latch(v)) = (u.line >= Active)
  BY <1>2 DEF Sense
<1>13. /\ WholeUvi(d(u)) /\ WholeUvi(d(v)) /\ Twins(d(u), d(v)) /\ RangeOK(d(u))
       /\ \A w \in {u, v} :
             d(w).frame = IF u.line >= Active \/ ~(u.frames >= w.renderFrom) THEN w.frame
                          ELSE [w.frame EXCEPT ![u.line] = row]
  <2>1. CASE u.line >= Active
    BY <1>1, <1>2, <1>12, <2>1
  <2>2. CASE ~(u.line >= Active)
    <3>1. d(u) = Render(s(u), flag) /\ d(v) = Render(s(v), flag)
      BY <1>12, <2>2
    <3>2. WholeUvi(d(u)) /\ WholeUvi(d(v))
      BY <1>5, <1>10, <3>1
    <3>3. QED
      BY <1>9, <1>11, <2>2, <3>1, <3>2
  <2>3. QED
    BY <2>1, <2>2
<1>14. \A w \in {u, v} : Line(w, flag) = NextLine(d(w))
  BY DEF Line, s
<1> HIDE DEF d
<1>15. Twins(NextLine(d(u)), NextLine(d(v)))
  BY <1>13 DEF NextLine, Twins, WholeUvi
<1>16. RangeOK(NextLine(d(u)))
  <2>1. /\ NextLine(d(u)).lo = d(u).lo /\ NextLine(d(u)).hi = d(u).hi
        /\ NextLine(d(u)).spos = d(u).spos
    BY <1>13 DEF NextLine, WholeUvi
  <2>2. QED
    BY <1>13, <2>1 DEF RangeOK
<1>17. NextLine(d(u)).frame = d(u).frame /\ NextLine(d(v)).frame = d(v).frame
  BY <1>13 DEF NextLine, WholeUvi
<1>18. /\ Line(u, flag).frame = Redrawn(u, row)
       /\ Line(v, flag).frame = Redrawn(v, row)
  BY <1>13, <1>14, <1>17 DEF Redrawn, Twins
<1>19. QED
  BY <1>14, <1>15, <1>16, <1>18, <1>20

(***************************************************************************)
(* The type of a UVI.                                                      *)
(***************************************************************************)

UviTypeOK(u) ==
    /\ WholeUvi(u) /\ MemoryOK(u) /\ RangeOK(u)
    /\ u.line \in 0 .. Lines - 1
    /\ u.frames \in Nat
    /\ u.vscroll \in Byte
    /\ u.shift \in 0 .. 7
    /\ u.bgHit \subseteq Sprites
    /\ u.sprHit \subseteq SUBSET Sprites
    /\ u.frame = [y \in 0 .. Active - 1 |-> u.frame[y]]

\* A line call keeps the type.
LEMMA LineType ==
    ASSUME NEW u, UviTypeOK(u), NEW flag
    PROVE  UviTypeOK(Line(u, flag))
<1> DEFINE l == Latch(u)
           s == LatchShift(l)
           r == Render(s, flag)
           d == IF Sense(l) THEN l ELSE r
<1>1. Line(u, flag) = NextLine(d)
  BY DEF Line
<1>2. \A o : At(u, o) \in Byte
  BY DEF At, MemoryOK, Byte, UviTypeOK
<1>3. /\ WholeUvi(l) /\ l.mem = u.mem /\ l.line = u.line /\ l.frames = u.frames
      /\ l.frame = u.frame /\ l.shift = u.shift /\ RangeOK(l)
  BY LatchKeeps, LatchRange DEF UviTypeOK
<1>4. l.bgHit \subseteq Sprites /\ l.sprHit \subseteq SUBSET Sprites
  <2> DEFINE spos == [i \in Sprites |-> [y |-> At(u, SPRITEPOS + 2 * i),
                                        x |-> At(u, SPRITEPOS + 2 * i + 1)]]
             tops == {SpriteTop(spos[i].y) : i \in {j \in Sprites : spos[j].y # 0}}
             lo == IF tops = {} THEN 65535 ELSE Min(tops)
             hi == IF tops = {} THEN 0 ELSE Max(tops) + SpriteLines
  <2>1. l \in {u, [u EXCEPT !.vscroll = At(u, VSCROLL), !.spos = spos, !.lo = lo,
                            !.hi = hi, !.bgHit = {}, !.sprHit = {}]}
    BY DEF Latch
  <2> HIDE DEF l, spos, tops, lo, hi
  <2>2. l.bgHit \in {u.bgHit, {}} /\ l.sprHit \in {u.sprHit, {}}
    BY <2>1 DEF UviTypeOK, WholeUvi
  <2>3. QED
    BY <2>2 DEF UviTypeOK
<1> HIDE DEF l
<1>5. /\ WholeUvi(s) /\ s = [l EXCEPT !.shift = s.shift]
      /\ s.shift \in {l.shift, At(l, SOUND) \div 32}
  BY <1>3, LatchShiftKeeps
<1>6. s.shift \in 0 .. 7
  <2>1. At(l, SOUND) \in Byte
    BY <1>2, <1>3 DEF At
  <2>2. At(l, SOUND) \div 32 \in 0 .. 7
    BY <2>1 DEF Byte
  <2>3. QED
    BY <1>3, <1>5, <2>2 DEF UviTypeOK
<1> HIDE DEF s
<1>7. /\ s.mem = l.mem /\ s.line = l.line /\ s.frames = l.frames
      /\ s.frame = l.frame /\ s.bgHit = l.bgHit /\ s.sprHit = l.sprHit
      /\ s.lo = l.lo /\ s.hi = l.hi /\ s.spos = l.spos
  BY <1>3, <1>5 DEF WholeUvi
<1>8. WholeUvi(r) /\ r = [s EXCEPT !.bgHit = r.bgHit, !.sprHit = r.sprHit, !.frame = r.frame]
  BY <1>5, RenderKeeps
<1>9. RangeOK(s) /\ s.line \in Nat
  BY <1>3, <1>7, UviAssumption DEF RangeOK, UviTypeOK
<1>10. /\ r.bgHit = s.bgHit \cup GroundHits(s) /\ r.sprHit = s.sprHit \cup PairHits(s)
       /\ r.frame = IF s.frames >= s.renderFrom
                    THEN [s.frame EXCEPT ![s.line] = RowOf(s, Live(s), flag)]
                    ELSE s.frame
  BY <1>5, <1>9, RenderIs
<1> HIDE DEF r
<1>11. r.bgHit \subseteq Sprites /\ r.sprHit \subseteq SUBSET Sprites
  <2>1. Live(s) \subseteq Sprites
    BY DEF Live
  <2>2. GroundHits(s) \subseteq Sprites /\ PairHits(s) \subseteq SUBSET Sprites
    BY <2>1 DEF GroundHits, PairHits
  <2>3. QED
    BY <1>4, <1>7, <1>10, <2>2
<1>12. r.frame = [y \in 0 .. Active - 1 |-> r.frame[y]]
  <2>1. s.frame = [y \in 0 .. Active - 1 |-> s.frame[y]]
    BY <1>3, <1>7 DEF UviTypeOK
  <2>2. CASE r.frame = s.frame
    BY <2>1, <2>2
  <2>3. CASE r.frame = [s.frame EXCEPT ![s.line] = RowOf(s, Live(s), flag)]
    <3> DEFINE row == RowOf(s, Live(s), flag)
    <3> HIDE DEF row
    <3>1. r.frame = [s.frame EXCEPT ![s.line] = row]
      BY <2>3 DEF row
    <3>2. QED
      BY <2>1, <3>1
  <2>4. QED
    BY <1>10, <2>2, <2>3
<1>13. /\ r.mem = s.mem /\ r.line = s.line /\ r.frames = s.frames /\ r.shift = s.shift
       /\ r.lo = s.lo /\ r.hi = s.hi /\ r.spos = s.spos
  BY <1>5, <1>8 DEF WholeUvi
<1>14. /\ WholeUvi(d) /\ d.mem = u.mem /\ d.line = u.line /\ d.frames = u.frames
       /\ RangeOK(d) /\ d.shift \in 0 .. 7
       /\ d.bgHit \subseteq Sprites /\ d.sprHit \subseteq SUBSET Sprites
       /\ d.frame = [y \in 0 .. Active - 1 |-> d.frame[y]]
  <2>1. RangeOK(r)
    BY <1>9, <1>13 DEF RangeOK
  <2>2. CASE Sense(l)
    BY <1>3, <1>4, <2>2 DEF UviTypeOK
  <2>3. CASE ~Sense(l)
    BY <1>3, <1>6, <1>7, <1>8, <1>11, <1>12, <1>13, <2>1, <2>3
  <2>4. QED
    BY <2>2, <2>3
<1> HIDE DEF d
<1>15. LET w == NextLine(d)
       IN  /\ w.mem = d.mem /\ w.lo = d.lo /\ w.hi = d.hi /\ w.spos = d.spos
           /\ w.shift = d.shift /\ w.bgHit = d.bgHit /\ w.sprHit = d.sprHit
           /\ w.frame = d.frame
  BY <1>14 DEF NextLine, WholeUvi
<1>16. LET w == Line(u, flag)
       IN  /\ WholeUvi(w) /\ w.mem = u.mem
           /\ w.line = IF u.line + 1 = Lines THEN 0 ELSE u.line + 1
           /\ w.frames = IF u.line + 1 = Lines THEN u.frames + 1 ELSE u.frames
           /\ w.vscroll = IF u.line = 0 THEN At(u, VSCROLL) ELSE u.vscroll
  BY LineKeeps DEF UviTypeOK
<1>17. MemoryOK(Line(u, flag)) /\ RangeOK(Line(u, flag))
  BY <1>1, <1>14, <1>15, <1>16 DEF MemoryOK, RangeOK, UviTypeOK
<1>18. /\ Line(u, flag).line \in 0 .. Lines - 1 /\ Line(u, flag).frames \in Nat
       /\ Line(u, flag).vscroll \in Byte
  BY <1>2, <1>16, UviAssumption DEF UviTypeOK
<1>19. QED
  BY <1>1, <1>14, <1>15, <1>16, <1>17, <1>18 DEF UviTypeOK

\* A write changes the window only, a read a collision latch only.
LEMMA WriteKeeps ==
    ASSUME NEW u, WholeUvi(u), NEW o, NEW v
    PROVE  /\ WholeUvi(Write(u, o, v))
           /\ Write(u, o, v) = [u EXCEPT !.mem = Write(u, o, v).mem]
BY DEF Write, WholeUvi

\* A write of a byte keeps the type.
LEMMA WriteType ==
    ASSUME NEW u, UviTypeOK(u), NEW o, NEW v \in Byte
    PROVE  UviTypeOK(Write(u, o, v))
<1> DEFINE w == Write(u, o, v)
<1>1. MemoryOK(w)
  <2>1. CASE w = u
    BY <2>1 DEF UviTypeOK
  <2>2. CASE w = [u EXCEPT !.mem = [i \in DOMAIN u.mem \cup {o} |-> IF i = o THEN v ELSE u.mem[i]]]
    <3>1. w.mem = [i \in DOMAIN u.mem \cup {o} |-> IF i = o THEN v ELSE u.mem[i]]
      BY <2>2 DEF UviTypeOK, WholeUvi
    <3>2. QED
      BY <3>1 DEF UviTypeOK, MemoryOK
  <2>3. QED
    BY <2>1, <2>2 DEF Write
<1>2. WholeUvi(w) /\ w = [u EXCEPT !.mem = w.mem]
  BY WriteKeeps DEF UviTypeOK
<1> HIDE DEF w
<1>3. /\ w.line = u.line /\ w.frames = u.frames /\ w.vscroll = u.vscroll
      /\ w.shift = u.shift /\ w.bgHit = u.bgHit /\ w.sprHit = u.sprHit
      /\ w.frame = u.frame /\ w.lo = u.lo /\ w.hi = u.hi /\ w.spos = u.spos
  BY <1>2 DEF UviTypeOK, WholeUvi
<1>4. UviTypeOK(w)
  BY <1>1, <1>2, <1>3 DEF UviTypeOK, RangeOK
<1>5. QED
  BY <1>4 DEF w

\* Reading a collision register clears at most that latch.
LEMMA ReadKeeps ==
    ASSUME NEW u, WholeUvi(u), NEW o
    PROVE  LET w == AfterRead(u, o)
           IN  /\ WholeUvi(w)
               /\ w = [u EXCEPT !.bgHit = w.bgHit, !.sprHit = w.sprHit]
               /\ w.bgHit \in {u.bgHit, {}} /\ w.sprHit \in {u.sprHit, {}}
<1> DEFINE w == AfterRead(u, o)
<1>1. w = u \/ w = [u EXCEPT !.bgHit = {}] \/ w = [u EXCEPT !.sprHit = {}]
  BY DEF AfterRead
<1> HIDE DEF w
<1>2. WholeUvi(w) /\ w.bgHit \in {u.bgHit, {}} /\ w.sprHit \in {u.sprHit, {}}
  BY <1>1 DEF WholeUvi
<1>3. w = [u EXCEPT !.bgHit = w.bgHit, !.sprHit = w.sprHit]
  <2>1. CASE w = u
    BY <2>1 DEF WholeUvi
  <2>2. CASE w = [u EXCEPT !.bgHit = {}]
    BY <2>2 DEF WholeUvi
  <2>3. CASE w = [u EXCEPT !.sprHit = {}]
    BY <2>3 DEF WholeUvi
  <2>4. QED
    BY <1>1, <2>1, <2>2, <2>3
<1>4. QED
  BY <1>2, <1>3 DEF w

\* Reading a collision register keeps the type.
LEMMA ReadType ==
    ASSUME NEW u, UviTypeOK(u), NEW o
    PROVE  UviTypeOK(AfterRead(u, o))
<1> DEFINE w == AfterRead(u, o)
<1>1. /\ WholeUvi(w) /\ w = [u EXCEPT !.bgHit = w.bgHit, !.sprHit = w.sprHit]
      /\ w.bgHit \in {u.bgHit, {}} /\ w.sprHit \in {u.sprHit, {}}
  BY ReadKeeps DEF UviTypeOK
<1> HIDE DEF w
<1>2. /\ w.mem = u.mem /\ w.line = u.line /\ w.frames = u.frames /\ w.vscroll = u.vscroll
      /\ w.shift = u.shift /\ w.frame = u.frame /\ w.lo = u.lo /\ w.hi = u.hi
      /\ w.spos = u.spos
  BY <1>1 DEF UviTypeOK, WholeUvi
<1>3. UviTypeOK(w)
  BY <1>1, <1>2 DEF UviTypeOK, RangeOK, MemoryOK
<1>4. QED
  BY <1>3 DEF w

\* The same write keeps twins alike.
LEMMA WriteTwins ==
    ASSUME NEW u, NEW v, WholeUvi(u), WholeUvi(v), Twins(u, v), NEW o, NEW b
    PROVE  Twins(Write(u, o, b), Write(v, o, b))
BY DEF Write, Twins, WholeUvi

\* The same read keeps twins alike.
LEMMA ReadTwins ==
    ASSUME NEW u, NEW v, WholeUvi(u), WholeUvi(v), Twins(u, v), NEW o
    PROVE  Twins(AfterRead(u, o), AfterRead(v, o))
BY DEF AfterRead, Twins, WholeUvi, BGCOLLIDE, SPRITECOLLIDE

=============================================================================
