------------------------------ MODULE UviBeam ------------------------------
(***************************************************************************)
(* A UVI under a CPU that writes its registers and reads its collision     *)
(* latches between any two raster lines, beside a twin that goes through   *)
(* the same and differs only in not drawing frames before BlindUntil (as   *)
(* run_frames asks of the fast path).                                      *)
(***************************************************************************)
EXTENDS Uvi

CONSTANTS
    Scenes,        \* what the window may hold when the run starts (setup), and
                   \* the <<offset, byte>> writes the CPU may then make (writes)
    BlindUntil,    \* the twin's render_from
    MaxFrames      \* bound: frames completed

ASSUME UviBeamAssumption ==
    /\ BlindUntil \in Nat /\ MaxFrames \in Nat
    /\ \A s \in Scenes :
          /\ DOMAIN s.setup \subseteq 0 .. 767
          /\ \A o \in DOMAIN s.setup : s.setup[o] \in Byte
          /\ \A w \in s.writes : w[1] \in 0 .. 767 /\ w[2] \in Byte
          /\ s.most \in Nat

VARIABLES
    u,         \* the UVI
    blind,     \* its twin
    seen,      \* what the CPU could see and foresee on the lines since the
               \* last write, or since line 0
    scene,     \* the scene
    writes     \* writes made so far

vars == <<u, blind, seen, scene, writes>>

\* SENSE and CHARLINE on the line the beam is on, and how long StableLines
\* says that they (those asked for) will last.
Forecast(v) ==
    [ sense    |-> Sense(v),
      charline |-> Dma(v),
      horizon  |-> [s \in BOOLEAN |-> [c \in BOOLEAN |-> StableLines(v, s, c)]] ]

SeenAfresh(v) == [l \in {v.line} |-> Forecast(v)]
SeenToo(v) ==
    [l \in DOMAIN seen \cup {v.line} |-> IF l = v.line THEN Forecast(v) ELSE seen[l]]

Init ==
    /\ scene \in Scenes
    /\ u = [NewUvi EXCEPT !.mem = scene.setup]
    /\ blind = [u EXCEPT !.renderFrom = BlindUntil]
    /\ seen = SeenAfresh(u)
    /\ writes = 0

BeamLine ==
    /\ u.frames < MaxFrames
    /\ u' = Line(u, FALSE)
    /\ blind' = Line(blind, FALSE)
    /\ seen' = IF u'.line = 0 THEN SeenAfresh(u') ELSE SeenToo(u')
    /\ UNCHANGED <<scene, writes>>

CpuWrite(o, v) ==
    /\ writes < scene.most
    /\ writes' = writes + 1
    /\ u' = Write(u, o, v)
    /\ blind' = Write(blind, o, v)
    /\ seen' = SeenAfresh(u')
    /\ UNCHANGED scene

CpuRead(o) ==
    /\ u' = AfterRead(u, o)
    /\ blind' = AfterRead(blind, o)
    /\ UNCHANGED <<seen, scene, writes>>

Next ==
    \/ BeamLine
    \/ \E w \in scene.writes : CpuWrite(w[1], w[2])
    \/ \E o \in {BGCOLLIDE, SPRITECOLLIDE} : CpuRead(o)

Spec == Init /\ [][Next]_vars

-----------------------------------------------------------------------------
TypeOK ==
    /\ u.line \in 0 .. Lines - 1
    /\ u.frames \in 0 .. MaxFrames
    /\ u.vscroll \in Byte
    /\ u.shift \in 0 .. 7
    /\ u.bgHit \subseteq Sprites
    /\ u.sprHit \subseteq SUBSET Sprites
    /\ DOMAIN u.frame = 0 .. Active - 1
    /\ DOMAIN seen \subseteq 0 .. u.line
    /\ writes \in 0 .. scene.most

\* stable_lines never promises too much: until that many lines have passed,
\* the inputs asked for read as they did and the frame has not ended.
HorizonSound ==
    \A l \in DOMAIN seen, s, c \in BOOLEAN :
        LET n == seen[l].horizon[s][c]
        IN  /\ n >= 0 /\ l + n < Lines
            /\ u.line - l <= n => /\ s => seen[l].sense = Sense(u)
                                  /\ c => seen[l].charline = Dma(u)

\* Looking back, as idle_check does at the line of its checkpoint: if the
\* inputs are stable from there to here, they read the same there as here.
\* Line 0 is left out: there CHARLINE was read before VSCROLL was latched.
HindsightSound ==
    \A l \in DOMAIN seen \ {0}, s, c \in BOOLEAN :
        StableLinesFrom(u, l, s, c) >= u.line - l =>
            /\ s => seen[l].sense = Sense(u)
            /\ c => seen[l].charline = Dma(u)

\* Not drawing a frame changes nothing the CPU can read: the collisions, the
\* shift they depend on and every latch are those of the UVI that draws.
CollisionsAgree ==
    [blind EXCEPT !.frame = u.frame, !.renderFrom = u.renderFrom] = u

\* One whole frame after drawing resumes the framebuffers are the same.
PictureAgrees ==
    blind.frames > BlindUntil => blind.frame = u.frame

\* Down a frame CHARLINE runs 15, then the rows in order (again from row 0 in
\* a 26-row field), then 13, then 15.
DocumentedCharline ==
    [][ BeamLine /\ u.line \in 1 .. Active - 1 =>
          \/ Dma(u') = Dma(u)
          \/ Dma(u) = 15 /\ Dma(u') = 0
          \/ Dma(u) < 13 /\ Dma(u') \in {(Dma(u) + 1) % Rows, 13, 15}
          \/ Dma(u) = 13 /\ Dma(u') = 15 ]_vars

=============================================================================
