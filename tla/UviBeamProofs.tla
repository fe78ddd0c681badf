--------------------------- MODULE UviBeamProofs ---------------------------
(***************************************************************************)
(* Proofs about UviBeam: stable_lines is right looking ahead and looking   *)
(* back, whatever the registers and whatever the CPU writes; CHARLINE      *)
(* counts the rows; and a UVI that leaves frames undrawn keeps the         *)
(* collisions, the latches and, from the next whole frame on, the picture  *)
(* of one that draws them all.                                             *)
(***************************************************************************)
EXTENDS UviBeam, UviProofs

Typed ==
    /\ UviTypeOK(u) /\ u.frames <= MaxFrames /\ u.renderFrom = 0
    /\ UviTypeOK(blind) /\ blind.renderFrom = BlindUntil
    /\ scene \in Scenes /\ writes \in 0 .. scene.most

\* Once the twin draws, the rows above the beam are alike; once it has drawn a
\* whole frame, all of them are.
PicturesAlike ==
    u.frames >= BlindUntil =>
        \A y \in 0 .. Active - 1 :
            (y < u.line \/ u.frames > BlindUntil) => blind.frame[y] = u.frame[y]

\* A UVI whose beam is on line l and whose field is scrolled by b.
Scrolled(v, l, b) == [OnLine(v, l) EXCEPT !.vscroll = b]

\* What was recorded on a line is what the UVI as it is now would show with its
\* beam there; on line 0, before VSCROLL was latched, with some other VSCROLL.
Recorded ==
    /\ DOMAIN seen \subseteq 0 .. u.line
    /\ \A l \in DOMAIN seen :
          IF l > 0 \/ u.line = 0 THEN seen[l] = Forecast(OnLine(u, l))
          ELSE /\ u.vscroll = At(u, VSCROLL)
               /\ \E w \in Byte : seen[l] = Forecast(Scrolled(u, l, w))

IInv == Typed /\ Twins(u, blind) /\ PicturesAlike /\ Recorded

(***************************************************************************)
(* What the CPU sees depends on the window, the beam and VSCROLL.          *)
(***************************************************************************)

\* The inputs and their forecast are the same on the same window, line and VSCROLL.
LEMMA SeenDependsOn ==
    ASSUME NEW v, NEW w, v.mem = w.mem, v.line = w.line, v.vscroll = w.vscroll
    PROVE  Sense(v) = Sense(w) /\ Dma(v) = Dma(w) /\ Forecast(v) = Forecast(w)
<1>1. /\ \A o : At(v, o) = At(w, o)
      /\ FieldStart(v) = FieldStart(w) /\ RowHeight(v) = RowHeight(w)
      /\ FieldRows(v) = FieldRows(w)
  BY FieldDependsOn
<1>2. Sense(v) = Sense(w) /\ InField(v) = InField(w) /\ FieldRow(v) = FieldRow(w)
  BY <1>1 DEF Sense, InField, FieldRow
<1>3. Dma(v) = Dma(w)
  BY <1>1, <1>2 DEF Dma
<1>4. ASSUME NEW s \in BOOLEAN, NEW c \in BOOLEAN
      PROVE  StableLines(v, s, c) = StableLines(w, s, c)
  BY <1>1 DEF StableLines, StableLinesFrom
<1>5. [s \in BOOLEAN |-> [c \in BOOLEAN |-> StableLines(v, s, c)]]
          = [s \in BOOLEAN |-> [c \in BOOLEAN |-> StableLines(w, s, c)]]
  BY <1>4
<1>6. Forecast(v) = Forecast(w)
  BY <1>2, <1>3, <1>5 DEF Forecast
<1>7. QED
  BY <1>2, <1>3, <1>6

\* Moving the beam to where it is changes nothing.
LEMMA OnItsLine ==
    ASSUME NEW v, WholeUvi(v)
    PROVE  OnLine(v, v.line) = v
BY DEF OnLine, WholeUvi

\* Moving the beam changes the line only.
LEMMA OnLineIs ==
    ASSUME NEW v, WholeUvi(v), NEW l
    PROVE  /\ WholeUvi(OnLine(v, l)) /\ OnLine(v, l).line = l
           /\ OnLine(v, l).mem = v.mem /\ OnLine(v, l).vscroll = v.vscroll
BY DEF OnLine, WholeUvi

\* Moving the beam and scrolling the field change these two only.
LEMMA ScrolledIs ==
    ASSUME NEW v, WholeUvi(v), NEW l, NEW b
    PROVE  LET z == Scrolled(v, l, b)
           IN  WholeUvi(z) /\ z.line = l /\ z.mem = v.mem /\ z.vscroll = b
BY OnLineIs DEF Scrolled, WholeUvi

(***************************************************************************)
(* The invariant holds to begin with.                                      *)
(***************************************************************************)

\* What is recorded of one more line, afresh or beside the lines before.
LEMMA SeenIs ==
    ASSUME NEW v
    PROVE  /\ DOMAIN SeenAfresh(v) = {v.line}
           /\ SeenAfresh(v)[v.line] = Forecast(v)
           /\ DOMAIN SeenToo(v) = DOMAIN seen \cup {v.line}
           /\ SeenToo(v)[v.line] = Forecast(v)
           /\ \A l \in DOMAIN seen \ {v.line} : SeenToo(v)[l] = seen[l]
BY DEF SeenAfresh, SeenToo

\* The invariant holds of a new UVI and its twin.
LEMMA Initially == Init => IInv
<1> SUFFICES ASSUME Init PROVE IInv
  OBVIOUS
<1>1. PICK m : m = scene.setup /\ \A o \in DOMAIN m : m[o] \in Byte
  BY UviBeamAssumption DEF Init
<1>2. u = [NewUvi EXCEPT !.mem = m] /\ blind = [u EXCEPT !.renderFrom = BlindUntil]
  BY <1>1 DEF Init
<1>3. /\ u.mem = m /\ u.line = 0 /\ u.frames = 0 /\ u.vscroll = 0 /\ u.shift = 0
      /\ u.frame = [y \in 0 .. Active - 1 |-> BlankRow]
      /\ u.spos = [i \in Sprites |-> [y |-> 0, x |-> 0]]
      /\ u.lo = 0 /\ u.hi = 0 /\ u.bgHit = {} /\ u.sprHit = {} /\ u.renderFrom = 0
      /\ WholeUvi(u)
  BY <1>2 DEF NewUvi, WholeUvi
<1>4. WholeUvi(blind) /\ Twins(u, blind) /\ blind.frame = u.frame /\ blind.renderFrom = BlindUntil
  BY <1>2, <1>3 DEF WholeUvi, Twins
<1>5. RangeOK(u)
  BY <1>3 DEF RangeOK, Byte
<1>6. UviTypeOK(u)
  BY <1>1, <1>3, <1>5, UviAssumption DEF UviTypeOK, MemoryOK, Byte
<1>7. UviTypeOK(blind)
  BY <1>4, <1>6 DEF UviTypeOK, Twins, MemoryOK, RangeOK
<1>8. Typed
  BY <1>3, <1>4, <1>6, <1>7, UviBeamAssumption DEF Typed, Init
<1>9. PicturesAlike
  BY <1>3, <1>4 DEF PicturesAlike
<1>10. Recorded
  <2>1. seen = SeenAfresh(u)
    BY DEF Init
  <2>2. DOMAIN seen = {0} /\ seen[0] = Forecast(u)
    BY <1>3, <2>1, SeenIs
  <2>3. OnLine(u, 0) = u
    BY <1>3, OnItsLine
  <2>4. QED
    BY <1>3, <2>2, <2>3 DEF Recorded
<1>11. QED
  BY <1>4, <1>8, <1>9, <1>10 DEF IInv

(***************************************************************************)
(* Every step preserves it.                                                *)
(***************************************************************************)

\* The forecast of a line does not change while window and VSCROLL stay.
LEMMA SameForecast ==
    ASSUME NEW v, NEW w, WholeUvi(v), WholeUvi(w), v.mem = w.mem, v.vscroll = w.vscroll, NEW l
    PROVE  Forecast(OnLine(v, l)) = Forecast(OnLine(w, l))
<1> DEFINE x == OnLine(v, l)
           y == OnLine(w, l)
<1>1. x.mem = v.mem /\ x.line = l /\ x.vscroll = v.vscroll
  BY OnLineIs
<1>2. y.mem = w.mem /\ y.line = l /\ y.vscroll = w.vscroll
  BY OnLineIs
<1> HIDE DEF x, y
<1>3. Forecast(x) = Forecast(y)
  BY <1>1, <1>2, SeenDependsOn
<1>4. QED
  BY <1>3 DEF x, y

\* Nor does that of a line under a given VSCROLL, while the window stays.
LEMMA SameScrolled ==
    ASSUME NEW v, NEW w, WholeUvi(v), WholeUvi(w), v.mem = w.mem, NEW l, NEW b
    PROVE  Forecast(Scrolled(v, l, b)) = Forecast(Scrolled(w, l, b))
<1> DEFINE x == Scrolled(v, l, b)
           y == Scrolled(w, l, b)
<1>1. x.mem = v.mem /\ x.line = l /\ x.vscroll = b
  BY ScrolledIs
<1>2. y.mem = w.mem /\ y.line = l /\ y.vscroll = b
  BY ScrolledIs
<1> HIDE DEF x, y
<1>3. Forecast(x) = Forecast(y)
  BY <1>1, <1>2, SeenDependsOn
<1>4. QED
  BY <1>3 DEF x, y

\* A line call preserves the invariant.
LEMMA BeamStep ==
    ASSUME IInv, BeamLine
    PROVE  IInv'
<1>1. /\ Lines \in Nat /\ Lines >= 2 /\ Active \in Nat /\ Active >= 1 /\ Active < Lines
      /\ BlindUntil \in Nat /\ MaxFrames \in Nat
      /\ u.line \in Nat /\ u.line < Lines /\ u.frames \in Nat
  BY UviAssumption, UviBeamAssumption DEF IInv, Typed, UviTypeOK, Active
<1>2. /\ UviTypeOK(u) /\ UviTypeOK(blind) /\ Twins(u, blind)
      /\ u' = Line(u, FALSE) /\ blind' = Line(blind, FALSE)
  BY DEF IInv, Typed, BeamLine
<1>3. /\ u.frames < MaxFrames /\ scene' = scene /\ writes' = writes
      /\ u'.line = 0 => seen' = SeenAfresh(u')
      /\ u'.line # 0 => seen' = SeenToo(u')
  BY Zenon DEF BeamLine
<1>4. UviTypeOK(u') /\ UviTypeOK(blind')
  BY <1>2, LineType
<1>5. /\ u'.mem = u.mem /\ u'.renderFrom = u.renderFrom
      /\ blind'.renderFrom = blind.renderFrom
      /\ u'.line = IF u.line + 1 = Lines THEN 0 ELSE u.line + 1
      /\ u'.frames = IF u.line + 1 = Lines THEN u.frames + 1 ELSE u.frames
      /\ u'.vscroll = IF u.line = 0 THEN At(u, VSCROLL) ELSE u.vscroll
  <2>1. WholeUvi(u) /\ WholeUvi(blind)
    BY <1>2 DEF UviTypeOK
  <2>2. QED
    BY <1>2, <2>1, LineKeeps
<1>6. Typed'
  <2>1. u'.frames <= MaxFrames
    BY <1>1, <1>3, <1>5
  <2>2. QED
    BY <1>4, <1>5, <1>3, <2>1 DEF IInv, Typed
<1>7. PICK row : /\ Twins(u', blind')
                 /\ u'.frame = Redrawn(u, row) /\ blind'.frame = Redrawn(blind, row)
  <2>1. WholeUvi(u) /\ WholeUvi(blind) /\ RangeOK(u) /\ MemoryOK(u)
    BY <1>2 DEF UviTypeOK
  <2>2. u.line \in Nat /\ Twins(u, blind)
    BY <1>1, <1>2
  <2>3. ASSUME NEW f
        PROVE  /\ Twins(Line(u, f), Line(blind, f))
               /\ \E row : /\ Line(u, f).frame = Redrawn(u, row)
                           /\ Line(blind, f).frame = Redrawn(blind, row)
    BY <2>1, <2>2, LineTwins
  <2>4. QED
    BY <1>2, <2>3, Zenon
<1>8. PicturesAlike'
  <2>1. /\ u.frame = [y \in 0 .. Active - 1 |-> u.frame[y]]
        /\ blind.frame = [y \in 0 .. Active - 1 |-> blind.frame[y]]
        /\ u.renderFrom = 0 /\ blind.renderFrom = BlindUntil
    BY DEF IInv, Typed, UviTypeOK
  <2>2. ASSUME NEW y \in 0 .. Active - 1,
               u'.frames >= BlindUntil, y < u'.line \/ u'.frames > BlindUntil
        PROVE  blind'.frame[y] = u'.frame[y]
    <3>1. u.frames >= BlindUntil
      BY <1>1, <1>5, <2>2
    <3>2. y < u.line \/ u.frames > BlindUntil => blind.frame[y] = u.frame[y]
      BY <3>1 DEF IInv, PicturesAlike
    <3>3. CASE u.line >= Active
      <4>1. u'.frame = u.frame /\ blind'.frame = blind.frame
        BY <1>2, <1>7, <3>3 DEF Redrawn, Twins
      <4>2. QED
        BY <1>1, <1>5, <2>2, <3>1, <3>2, <3>3, <4>1
    <3>4. CASE u.line < Active
      <4>1. /\ u'.frame = [u.frame EXCEPT ![u.line] = row]
            /\ blind'.frame = [blind.frame EXCEPT ![u.line] = row]
        <5>1. ~(u.line >= Active) /\ u.frames >= u.renderFrom /\ u.frames >= blind.renderFrom
          BY <1>1, <2>1, <3>1, <3>4
        <5>2. QED
          BY <1>2, <1>7, <5>1 DEF Redrawn, Twins
      <4>2. CASE y = u.line
        <5>1. u'.frame[y] = row /\ blind'.frame[y] = row
          BY <2>1, <4>1, <4>2
        <5>2. QED
          BY <5>1
      <4>3. CASE y # u.line
        <5>1. u'.frame[y] = u.frame[y] /\ blind'.frame[y] = blind.frame[y]
          BY <2>1, <4>1, <4>3
        <5>2. y < u.line \/ u.frames > BlindUntil
          BY <1>1, <1>5, <2>2, <3>4, <4>3
        <5>3. QED
          BY <3>2, <5>1, <5>2
      <4>4. QED
        BY <4>2, <4>3
    <3>5. QED
      BY <1>1, <3>3, <3>4
  <2>3. QED
    BY <2>2 DEF PicturesAlike
<1>9. Recorded'
  <2>1. CASE u.line + 1 = Lines
    <3>1. u'.line = 0 /\ seen' = SeenAfresh(u')
      BY <1>3, <1>5, <2>1
    <3>2. DOMAIN seen' = {0} /\ seen'[0] = Forecast(u')
      BY <3>1, SeenIs
    <3>3. OnLine(u', 0) = u'
      BY <1>4, <3>1, OnItsLine DEF UviTypeOK
    <3>4. QED
      BY <3>1, <3>2, <3>3 DEF Recorded
  <2>2. CASE u.line + 1 # Lines
    <3>1. u'.line = u.line + 1 /\ u'.line # 0 /\ seen' = SeenToo(u')
      BY <1>1, <1>3, <1>5, <2>2
    <3>2. /\ DOMAIN seen' = DOMAIN seen \cup {u.line + 1}
          /\ seen'[u.line + 1] = Forecast(u')
          /\ \A l \in DOMAIN seen \ {u.line + 1} : seen'[l] = seen[l]
      BY <3>1, SeenIs
    <3>3. DOMAIN seen \subseteq 0 .. u.line
      BY DEF IInv, Recorded
    <3>4. DOMAIN seen' \subseteq 0 .. u'.line
      BY <1>1, <3>1, <3>2, <3>3
    <3>5. WholeUvi(u) /\ WholeUvi(u')
      BY <1>2, <1>4 DEF UviTypeOK
    <3>6. ASSUME NEW l \in DOMAIN seen', l > 0
          PROVE  seen'[l] = Forecast(OnLine(u', l))
      <4>1. CASE l = u.line + 1
        <5>1. OnLine(u', l) = u'
          BY <3>1, <3>5, <4>1, OnItsLine
        <5>2. QED
          BY <3>2, <4>1, <5>1
      <4>2. CASE l # u.line + 1
        <5>1. l \in DOMAIN seen /\ seen'[l] = seen[l]
          BY <3>2, <4>2
        <5>2. seen[l] = Forecast(OnLine(u, l))
          BY <3>6, <5>1 DEF IInv, Recorded
        <5>3. u'.vscroll = u.vscroll
          BY <1>1, <1>5, <3>3, <3>6, <5>1
        <5>4. QED
          <6>1. Forecast(OnLine(u', l)) = Forecast(OnLine(u, l))
            BY <1>5, <3>5, <5>3, SameForecast
          <6>2. QED
            BY <5>1, <5>2, <6>1
      <4>3. QED
        BY <4>1, <4>2
    <3>7. ASSUME 0 \in DOMAIN seen'
          PROVE  /\ u'.vscroll = At(u', VSCROLL)
                 /\ \E w \in Byte : seen'[0] = Forecast(Scrolled(u', 0, w))
      <4>1. 0 \in DOMAIN seen /\ seen'[0] = seen[0]
        BY <1>1, <3>2, <3>7
      <4>2. At(u', VSCROLL) = At(u, VSCROLL)
        BY <1>5 DEF At
      <4>3. CASE u.line = 0
        <5>1. OnLine(u, 0) = u /\ Scrolled(u, 0, u.vscroll) = u
          <6>1. OnLine(u, 0) = u
            BY <3>5, <4>3, OnItsLine
          <6>2. QED
            BY <3>5, <6>1 DEF WholeUvi, Scrolled
        <5>2. seen[0] = Forecast(Scrolled(u, 0, u.vscroll))
          BY <4>1, <4>3, <5>1 DEF IInv, Recorded
        <5>3. seen'[0] = Forecast(Scrolled(u', 0, u.vscroll))
          BY <1>5, <3>5, <4>1, <5>2, SameScrolled
        <5>4. u.vscroll \in Byte
          BY <1>2 DEF UviTypeOK
        <5>5. QED
          BY <1>5, <4>2, <4>3, <5>3, <5>4
      <4>4. CASE u.line # 0
        <5>1. /\ u.vscroll = At(u, VSCROLL)
              /\ \E w \in Byte : seen[0] = Forecast(Scrolled(u, 0, w))
          BY <4>1, <4>4 DEF IInv, Recorded
        <5>2. PICK w \in Byte : seen[0] = Forecast(Scrolled(u, 0, w))
          BY <5>1
        <5>3. seen'[0] = Forecast(Scrolled(u', 0, w))
          BY <1>5, <3>5, <4>1, <5>2, SameScrolled
        <5>4. QED
          BY <1>5, <4>2, <4>4, <5>1, <5>3
      <4>5. QED
        BY <4>3, <4>4
    <3>8. ASSUME NEW l \in DOMAIN seen'
          PROVE  IF l > 0 \/ u'.line = 0 THEN seen'[l] = Forecast(OnLine(u', l))
                 ELSE /\ u'.vscroll = At(u', VSCROLL)
                      /\ \E w \in Byte : seen'[l] = Forecast(Scrolled(u', l, w))
      <4>1. CASE l > 0
        BY <3>6, <4>1
      <4>2. CASE ~(l > 0)
        <5>1. l = 0
          BY <3>4, <4>2
        <5>2. QED
          BY <3>1, <3>7, <5>1
      <4>3. QED
        BY <4>1, <4>2
    <3>9. QED
      BY <3>4, <3>8 DEF Recorded
  <2>3. QED
    BY <2>1, <2>2
<1>10. QED
  BY <1>6, <1>7, <1>8, <1>9 DEF IInv

\* A write of the CPU preserves the invariant.
LEMMA WriteStep ==
    ASSUME IInv, NEW o, NEW v \in Byte, CpuWrite(o, v)
    PROVE  IInv'
<1>1. /\ UviTypeOK(u) /\ UviTypeOK(blind) /\ Twins(u, blind)
      /\ u.renderFrom = 0 /\ blind.renderFrom = BlindUntil
      /\ u' = Write(u, o, v) /\ blind' = Write(blind, o, v)
      /\ scene' = scene /\ writes < scene.most /\ writes' = writes + 1
      /\ seen' = SeenAfresh(u')
  BY DEF IInv, Typed, CpuWrite
<1>2. UviTypeOK(u') /\ UviTypeOK(blind')
  BY <1>1, WriteType
<1>3. WholeUvi(u) /\ WholeUvi(blind)
  BY <1>1 DEF UviTypeOK
<1>4. Twins(u', blind')
  BY <1>1, <1>3, WriteTwins
<1>5. /\ u'.line = u.line /\ u'.frames = u.frames /\ u'.vscroll = u.vscroll
      /\ u'.frame = u.frame /\ u'.renderFrom = u.renderFrom
  <2>1. u' = [u EXCEPT !.mem = u'.mem]
    BY <1>1, <1>3, WriteKeeps
  <2>2. QED
    BY <1>3, <2>1 DEF WholeUvi
<1>6. blind'.frame = blind.frame /\ blind'.renderFrom = blind.renderFrom
  <2>1. blind' = [blind EXCEPT !.mem = blind'.mem]
    BY <1>1, <1>3, WriteKeeps
  <2>2. QED
    BY <1>3, <2>1 DEF WholeUvi
<1>7. Typed'
  <2>1. writes' \in 0 .. scene'.most
    BY <1>1, UviBeamAssumption DEF IInv, Typed
  <2>2. QED
    BY <1>1, <1>2, <1>5, <1>6, <2>1 DEF IInv, Typed
<1>8. PicturesAlike'
  BY <1>5, <1>6 DEF IInv, PicturesAlike
<1>9. Recorded'
  <2>1. DOMAIN seen' = {u'.line} /\ seen'[u'.line] = Forecast(u')
    BY <1>1, SeenIs
  <2>2. OnLine(u', u'.line) = u'
    BY <1>2, OnItsLine DEF UviTypeOK
  <2>3. u'.line \in Nat
    BY <1>2, UviAssumption DEF UviTypeOK
  <2>4. QED
    BY <2>1, <2>2, <2>3 DEF Recorded
<1>10. QED
  BY <1>4, <1>7, <1>8, <1>9 DEF IInv

\* A read of a collision register preserves the invariant.
LEMMA ReadStep ==
    ASSUME IInv, NEW o, CpuRead(o)
    PROVE  IInv'
<1>1. /\ UviTypeOK(u) /\ UviTypeOK(blind) /\ Twins(u, blind)
      /\ u' = AfterRead(u, o) /\ blind' = AfterRead(blind, o)
      /\ seen' = seen /\ scene' = scene /\ writes' = writes
  BY DEF IInv, Typed, CpuRead
<1>2. UviTypeOK(u') /\ UviTypeOK(blind')
  BY <1>1, ReadType
<1>3. WholeUvi(u) /\ WholeUvi(blind) /\ WholeUvi(u')
  BY <1>1, <1>2 DEF UviTypeOK
<1>4. Twins(u', blind')
  BY <1>1, <1>3, ReadTwins
<1>5. /\ u'.line = u.line /\ u'.frames = u.frames /\ u'.vscroll = u.vscroll
      /\ u'.mem = u.mem /\ u'.frame = u.frame /\ u'.renderFrom = u.renderFrom
  <2>1. u' = [u EXCEPT !.bgHit = u'.bgHit, !.sprHit = u'.sprHit]
    BY <1>1, <1>3, ReadKeeps
  <2>2. QED
    BY <1>3, <2>1 DEF WholeUvi
<1>6. blind'.frame = blind.frame /\ blind'.renderFrom = blind.renderFrom
  <2>1. blind' = [blind EXCEPT !.bgHit = blind'.bgHit, !.sprHit = blind'.sprHit]
    BY <1>1, <1>3, ReadKeeps
  <2>2. QED
    BY <1>3, <2>1 DEF WholeUvi
<1>7. Typed'
  BY <1>1, <1>2, <1>5, <1>6 DEF IInv, Typed
<1>8. PicturesAlike'
  BY <1>5, <1>6 DEF IInv, PicturesAlike
<1>9. Recorded'
  <2>1. At(u', VSCROLL) = At(u, VSCROLL)
    BY <1>5 DEF At
  <2>2. \A l : Forecast(OnLine(u', l)) = Forecast(OnLine(u, l))
    BY <1>3, <1>5, SameForecast
  <2>3. \A l, w : Forecast(Scrolled(u', l, w)) = Forecast(Scrolled(u, l, w))
    BY <1>3, <1>5, SameScrolled
  <2>4. QED
    BY <1>1, <1>5, <2>1, <2>2, <2>3 DEF IInv, Recorded
<1>10. QED
  BY <1>4, <1>7, <1>8, <1>9 DEF IInv

\* The invariant holds always.
THEOREM Invariance == Spec => []IInv
<1>1. IInv /\ [Next]_vars => IInv'
  <2> SUFFICES ASSUME IInv, [Next]_vars
               PROVE  IInv'
    OBVIOUS
  <2>1. CASE BeamLine
    BY <2>1, BeamStep
  <2>2. CASE \E w \in scene.writes : CpuWrite(w[1], w[2])
    <3>1. PICK w \in scene.writes : CpuWrite(w[1], w[2])
      BY <2>2
    <3>2. w[2] \in Byte
      BY UviBeamAssumption DEF IInv, Typed
    <3>3. QED
      BY <3>1, <3>2, WriteStep
  <2>3. CASE \E o \in {BGCOLLIDE, SPRITECOLLIDE} : CpuRead(o)
    BY <2>3, ReadStep
  <2>4. CASE UNCHANGED vars
    BY <2>4 DEF vars, IInv, Typed, PicturesAlike, Recorded
  <2>5. QED
    BY <2>1, <2>2, <2>3, <2>4 DEF Next
<1>2. QED
  BY Initially, <1>1, PTL DEF Spec

(***************************************************************************)
(* What it implies.                                                        *)
(***************************************************************************)

\* The UVI keeps its type: the beam stays on the raster, the shift fits the
\* three bits it comes from, the latches name sprites and pairs of them.
THEOREM TypeCorrect == Spec => []TypeOK
<1>1. IInv => TypeOK
  <2> SUFFICES ASSUME IInv PROVE TypeOK
    OBVIOUS
  <2>1. UviTypeOK(u) /\ u.frames <= MaxFrames /\ writes \in 0 .. scene.most
    BY DEF IInv, Typed
  <2>2. u.frames \in 0 .. MaxFrames
    BY <2>1, UviBeamAssumption DEF UviTypeOK
  <2>3. DOMAIN u.frame = 0 .. Active - 1
    BY <2>1 DEF UviTypeOK
  <2>4. QED
    BY <2>1, <2>2, <2>3 DEF TypeOK, UviTypeOK, IInv, Recorded
<1>2. QED
  BY Invariance, <1>1, PTL

\* Frames left undrawn (render_from) change nothing the CPU can read: the twins
\* agree in every register, latch and collision, whatever is drawn when.
THEOREM Undrawn == Spec => []CollisionsAgree
<1>1. IInv => CollisionsAgree
  <2> SUFFICES ASSUME IInv PROVE CollisionsAgree
    OBVIOUS
  <2>1. WholeUvi(u) /\ WholeUvi(blind) /\ Twins(u, blind)
    BY DEF IInv, Typed, UviTypeOK
  <2>2. QED
    BY <2>1 DEF CollisionsAgree, WholeUvi, Twins
<1>2. QED
  BY Invariance, <1>1, PTL

\* One whole frame after drawing resumes, the picture is the one of the UVI
\* that drew every frame.
THEOREM Redrawing == Spec => []PictureAgrees
<1>1. IInv => PictureAgrees
  <2> SUFFICES ASSUME IInv, blind.frames > BlindUntil
               PROVE  blind.frame = u.frame
    BY DEF PictureAgrees
  <2>1. /\ u.frame = [y \in 0 .. Active - 1 |-> u.frame[y]]
        /\ blind.frame = [y \in 0 .. Active - 1 |-> blind.frame[y]]
        /\ u.frames = blind.frames /\ u.frames \in Nat
    BY DEF IInv, Typed, UviTypeOK, Twins
  <2>2. u.frames > BlindUntil /\ u.frames >= BlindUntil
    BY <2>1, UviBeamAssumption
  <2>3. \A y \in 0 .. Active - 1 : blind.frame[y] = u.frame[y]
    BY <2>2 DEF IInv, PicturesAlike
  <2>4. QED
    BY <2>1, <2>3
<1>2. QED
  BY Invariance, <1>1, PTL

\* The parts of a forecast.
LEMMA ForecastIs ==
    ASSUME NEW v, NEW s \in BOOLEAN, NEW c \in BOOLEAN
    PROVE  /\ Forecast(v).sense = Sense(v)
           /\ Forecast(v).charline = Dma(v)
           /\ Forecast(v).horizon[s][c] = StableLinesFrom(v, v.line, s, c)
BY DEF Forecast, StableLines

\* From the line of v to the line of w, on the same field.
LEMMA FromThere ==
    ASSUME NEW v, WholeUvi(v), v.vscroll \in Byte, v.line \in 0 .. Lines - 1,
           NEW w, WholeUvi(w), w.mem = v.mem, w.vscroll = v.vscroll,
           w.line \in 0 .. Lines - 1, v.line <= w.line,
           NEW s \in BOOLEAN, NEW c \in BOOLEAN
    PROVE  LET n == StableLinesFrom(v, v.line, s, c)
           IN  /\ n \in Nat /\ v.line + n < Lines
               /\ w.line - v.line <= n => /\ s => Sense(w) = Sense(v)
                                          /\ c => Dma(w) = Dma(v)
<1> DEFINE n == StableLinesFrom(v, v.line, s, c)
           z == OnLine(v, w.line)
<1>1. /\ n \in Nat /\ v.line + n < Lines
      /\ \A m \in v.line .. v.line + n :
            /\ s => Sense(OnLine(v, m)) = Sense(OnLine(v, v.line))
            /\ c => Dma(OnLine(v, m)) = Dma(OnLine(v, v.line))
  BY Horizon
<1> HIDE DEF n
<1>2. OnLine(v, v.line) = v
  BY OnItsLine
<1>3. Sense(z) = Sense(w) /\ Dma(z) = Dma(w)
  <2>1. z.mem = v.mem /\ z.line = w.line /\ z.vscroll = v.vscroll
    BY OnLineIs
  <2> HIDE DEF z
  <2>2. QED
    BY <2>1, SeenDependsOn
<1>4. ASSUME w.line - v.line <= n
      PROVE  (s => Sense(w) = Sense(v)) /\ (c => Dma(w) = Dma(v))
  <2>1. w.line \in v.line .. v.line + n
    BY <1>1, <1>4, UviAssumption
  <2>2. (s => Sense(z) = Sense(v)) /\ (c => Dma(z) = Dma(v))
    BY <1>1, <1>2, <2>1
  <2>3. QED
    BY <1>3, <2>2, Zenon
<1>5. QED
  BY <1>1, <1>4 DEF n

\* stable_lines never promises too much, whatever the registers and whatever the
\* CPU writes: until that many lines have passed, SENSE and CHARLINE read as they
\* did, and the frame has not ended.
THEOREM LookingAhead == Spec => []HorizonSound
<1>1. IInv => HorizonSound
  <2> SUFFICES ASSUME IInv, NEW l \in DOMAIN seen, NEW s \in BOOLEAN, NEW c \in BOOLEAN
               PROVE  LET n == seen[l].horizon[s][c]
                      IN  /\ n >= 0 /\ l + n < Lines
                          /\ u.line - l <= n => /\ s => seen[l].sense = Sense(u)
                                                /\ c => seen[l].charline = Dma(u)
    BY DEF HorizonSound
  <2>1. /\ WholeUvi(u) /\ u.vscroll \in Byte /\ u.line \in 0 .. Lines - 1
        /\ l \in 0 .. u.line
    BY DEF IInv, Typed, UviTypeOK, Recorded
  <2>2. l \in 0 .. Lines - 1 /\ l <= u.line
    BY <2>1, UviAssumption
  <2>3. CASE l > 0 \/ u.line = 0
    <3> DEFINE v == OnLine(u, l)
    <3>1. seen[l] = Forecast(v)
      BY <2>3 DEF IInv, Recorded
    <3>2. WholeUvi(v) /\ v.line = l /\ v.mem = u.mem /\ v.vscroll = u.vscroll
      BY <2>1, OnLineIs
    <3> HIDE DEF v
    <3>3. LET n == StableLinesFrom(v, l, s, c)
          IN  /\ n \in Nat /\ l + n < Lines
              /\ u.line - l <= n => /\ s => Sense(u) = Sense(v)
                                    /\ c => Dma(u) = Dma(v)
      BY <2>1, <2>2, <3>2, FromThere
    <3>4. /\ seen[l].sense = Sense(v) /\ seen[l].charline = Dma(v)
          /\ seen[l].horizon[s][c] = StableLinesFrom(v, l, s, c)
      BY <3>1, <3>2, ForecastIs
    <3>5. QED
      BY <3>3, <3>4
  <2>4. CASE ~(l > 0 \/ u.line = 0)
    <3>1. l = 0 /\ u.line > 0
      BY <2>1, <2>4
    <3>2. PICK b \in Byte : seen[0] = Forecast(Scrolled(u, 0, b))
      BY <2>4, <3>1 DEF IInv, Recorded
    <3>3. u.vscroll = At(u, VSCROLL)
      BY <2>4, <3>1 DEF IInv, Recorded
    <3> DEFINE v == Scrolled(u, 0, b)
               w == Scrolled(u, u.line, b)
    <3>4. /\ WholeUvi(v) /\ v.line = 0 /\ v.mem = u.mem /\ v.vscroll = b
          /\ WholeUvi(w) /\ w.line = u.line /\ w.mem = u.mem /\ w.vscroll = b
      BY <2>1, ScrolledIs
    <3>5. /\ seen[0].sense = Sense(v) /\ seen[0].charline = Dma(v)
          /\ seen[0].horizon[s][c] = StableLinesFrom(v, 0, s, c)
      BY <3>2, <3>4, ForecastIs
    <3> HIDE DEF v, w
    <3>6. LET n == StableLinesFrom(v, 0, s, c)
          IN  /\ n \in Nat /\ 0 + n < Lines
              /\ u.line - 0 <= n => /\ s => Sense(w) = Sense(v)
                                    /\ c => Dma(w) = Dma(v)
      BY <2>1, <2>2, <3>1, <3>4, FromThere
    <3>7. Sense(w) = Sense(u)
      BY <3>4 DEF Sense
    <3>8. ASSUME c, u.line - 0 <= StableLinesFrom(v, 0, s, c)
          PROVE  Dma(w) = Dma(u)
      <4>1. At(v, VSCROLL) = At(u, VSCROLL)
        BY <3>4 DEF At
      <4>2. CASE b = u.vscroll
        BY <3>4, <4>2, SeenDependsOn
      <4>3. CASE b # u.vscroll
        <5>1. StableLinesFrom(v, 0, s, c) = 0
          BY <3>3, <3>4, <3>8, <4>1, <4>3 DEF StableLinesFrom
        <5>2. u.line \in Int /\ u.line > 0
          BY <2>1, <3>1, UviAssumption
        <5>3. ~(u.line - 0 <= 0)
          BY <5>2
        <5>4. QED
          BY <3>8, <5>1, <5>3, Zenon
      <4>4. QED
        BY <4>2, <4>3
    <3>9. QED
      BY <3>1, <3>5, <3>6, <3>7, <3>8
  <2>5. QED
    BY <2>3, <2>4
<1>2. QED
  BY Invariance, <1>1, PTL

\* Looking back from any line below it, stable_lines_from (idle_check at the
\* line of its checkpoint) says of a line of this frame what was so there.
THEOREM LookingBack == Spec => []HindsightSound
<1>1. IInv => HindsightSound
  <2> SUFFICES ASSUME IInv, NEW l \in DOMAIN seen \ {0},
                      NEW s \in BOOLEAN, NEW c \in BOOLEAN,
                      StableLinesFrom(u, l, s, c) >= u.line - l
               PROVE  /\ s => seen[l].sense = Sense(u)
                      /\ c => seen[l].charline = Dma(u)
    BY DEF HindsightSound
  <2>1. /\ WholeUvi(u) /\ u.vscroll \in Byte /\ u.line \in 0 .. Lines - 1
        /\ l \in 0 .. u.line /\ l # 0
    BY DEF IInv, Typed, UviTypeOK, Recorded
  <2>2. l \in 0 .. Lines - 1 /\ l <= u.line /\ l > 0
    BY <2>1, UviAssumption
  <2> DEFINE v == OnLine(u, l)
  <2>3. seen[l] = Forecast(v)
    BY <2>2 DEF IInv, Recorded
  <2>4. WholeUvi(v) /\ v.line = l /\ v.mem = u.mem /\ v.vscroll = u.vscroll
    BY <2>1, OnLineIs
  <2>5. StableLinesFrom(v, l, s, c) = StableLinesFrom(u, l, s, c)
    <3>1. /\ \A o : At(v, o) = At(u, o)
          /\ FieldStart(v) = FieldStart(u) /\ RowHeight(v) = RowHeight(u)
          /\ FieldRows(v) = FieldRows(u)
      BY <2>4, FieldDependsOn
    <3> HIDE DEF v
    <3>2. QED
      BY <2>4, <3>1 DEF StableLinesFrom
  <2> HIDE DEF v
  <2>6. LET n == StableLinesFrom(v, l, s, c)
        IN  /\ n \in Nat /\ l + n < Lines
            /\ u.line - l <= n => /\ s => Sense(u) = Sense(v)
                                  /\ c => Dma(u) = Dma(v)
    BY <2>1, <2>2, <2>4, FromThere
  <2>7. u.line - l <= StableLinesFrom(v, l, s, c)
    BY <2>1, <2>5, <2>6
  <2>8. seen[l].sense = Sense(v) /\ seen[l].charline = Dma(v)
    BY <2>3, ForecastIs
  <2>9. QED
    BY <2>6, <2>7, <2>8
<1>2. QED
  BY Invariance, <1>1, PTL

\* Below the latch of line 0, a line call moves CHARLINE as the hardware notes
\* say: it stays, or goes from 15 into row 0, from a row to the next (again from
\* row 0 in a 26-row field) or out of the field, or from 13 into VRST's 15.
THEOREM CharlineCounts == Spec => DocumentedCharline
<1> DEFINE A == BeamLine /\ u.line \in 1 .. Active - 1 =>
                    \/ Dma(u') = Dma(u)
                    \/ Dma(u) = 15 /\ Dma(u') = 0
                    \/ Dma(u) < 13 /\ Dma(u') \in {(Dma(u) + 1) % Rows, 13, 15}
                    \/ Dma(u) = 13 /\ Dma(u') = 15
<1>1. IInv => A
  <2> SUFFICES ASSUME IInv, BeamLine, u.line \in 1 .. Active - 1
               PROVE  \/ Dma(u') = Dma(u)
                      \/ Dma(u) = 15 /\ Dma(u') = 0
                      \/ Dma(u) < 13 /\ Dma(u') \in {(Dma(u) + 1) % Rows, 13, 15}
                      \/ Dma(u) = 13 /\ Dma(u') = 15
    OBVIOUS
  <2>1. /\ WholeUvi(u) /\ u.vscroll \in Byte /\ u' = Line(u, FALSE)
    BY DEF IInv, Typed, UviTypeOK, BeamLine
  <2>2. /\ u'.mem = u.mem
        /\ u'.line = IF u.line + 1 = Lines THEN 0 ELSE u.line + 1
        /\ u'.vscroll = IF u.line = 0 THEN At(u, VSCROLL) ELSE u.vscroll
    BY <2>1, LineKeeps
  <2>3. Active \in Nat /\ Active < Lines /\ Lines \in Nat
    BY UviAssumption DEF Active
  <2>4. /\ u.line \in 0 .. Active - 1
        /\ u'.line = u.line + 1 /\ u'.vscroll = u.vscroll
    BY <2>2, <2>3
  <2>5. Dma(OnLine(u, u.line)) = Dma(u)
    BY <2>1, OnItsLine
  <2>6. Dma(OnLine(u, u.line + 1)) = Dma(u')
    <3> DEFINE v == OnLine(u, u.line + 1)
    <3>1. v.mem = u.mem /\ v.line = u.line + 1 /\ v.vscroll = u.vscroll
      BY <2>1, OnLineIs
    <3> HIDE DEF v
    <3>2. Dma(v) = Dma(u')
      BY <2>2, <2>4, <3>1, SeenDependsOn
    <3>3. QED
      BY <3>2 DEF v
  <2>7. QED
    BY <2>1, <2>4, <2>5, <2>6, NextRow
<1> HIDE DEF A
<1>2. Spec => [][A]_vars
  BY Invariance, <1>1, PTL DEF Spec
<1>3. QED
  BY <1>2 DEF DocumentedCharline, A

=============================================================================
