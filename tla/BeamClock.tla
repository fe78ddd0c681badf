----------------------------- MODULE BeamClock -----------------------------
(***************************************************************************)
(* What the raster scheduler promises: "lines are scheduled from the CPU   *)
(* clock with exact integer arithmetic".  The lines the beam has completed *)
(* since reset are a function of the clocks elapsed since reset, however   *)
(* those clocks were grouped into instructions and skips.                  *)
(***************************************************************************)
EXTENDS Integers

CONSTANTS ClocksNum, ClocksDen

VARIABLES
    clocks,   \* CPU clocks since reset
    beam      \* raster lines completed since reset

vars == <<clocks, beam>>

LinesAt(t) == (t * ClocksDen) \div ClocksNum

Init == clocks = 0 /\ beam = 0

\* Any number of clocks pass at once.
Elapse ==
    /\ clocks' >= clocks
    /\ beam' = LinesAt(clocks')

Reset == clocks' = 0 /\ beam' = 0

Next == Elapse \/ Reset

Spec == Init /\ [][Next]_vars

=============================================================================
