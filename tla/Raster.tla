------------------------------- MODULE Raster -------------------------------
(***************************************************************************)
(* The raster scheduler of the Fountain Force 2 machine: how CPU clocks    *)
(* are turned into raster lines.  An instruction of c clocks adds          *)
(* c * ClocksDen to the accumulator and drains it by ClocksNum a line at a *)
(* time (Machine::step); the fast path adds any number of clocks at once   *)
(* and computes the lines by division (Machine::advance).  Both loops are  *)
(* modelled one Uvi::line call per step.                                   *)
(***************************************************************************)
EXTENDS Integers

CONSTANTS
    Lines,        \* raster lines per frame (262 NTSC, 312 PAL)
    ClocksNum,    \* CPU clocks per line are ClocksNum / ClocksDen (227 / 4)
    ClocksDen,
    MaxCost,      \* the dearest instruction, in clocks (12 + 6 for indirection)
    MaxSkip,      \* bound: the clocks the fast path adds at once
    MaxClocks     \* bound: clocks since reset at which no more work starts

ASSUME RasterAssumption ==
    /\ Lines \in Nat \ {0}
    /\ ClocksNum \in Nat \ {0}
    /\ ClocksDen \in Nat \ {0}
    /\ MaxCost \in Nat \ {0}
    /\ MaxSkip \in Nat
    /\ MaxClocks \in Nat

VARIABLES
    clocks,       \* Cpu.clocks: CPU clocks since reset
    acc,          \* Machine.acc: clocks owed to the beam, times ClocksDen
    line,         \* Uvi.line: the raster line the beam is on
    frames,       \* Uvi.frames: frames completed
    phase,        \* which loop is running: none, the one of step or of advance
    left          \* line calls the loop of advance has still to make

vars == <<clocks, acc, line, frames, phase, left>>

Init ==
    /\ clocks = 0
    /\ acc = 0
    /\ line = 0
    /\ frames = 0
    /\ phase = "run"
    /\ left = 0

\* Faulty LineWrap: the frame ends a line late.
LineWrapLate ==
    IF line = Lines
    THEN line' = 0 /\ frames' = frames + 1
    ELSE line' = line + 1 /\ UNCHANGED frames

\* The beam's part of Uvi::line.
LineWrap ==
    IF line + 1 = Lines
    THEN line' = 0 /\ frames' = frames + 1
    ELSE line' = line + 1 /\ UNCHANGED frames

-----------------------------------------------------------------------------
(* Machine::step: the CPU reports the clocks its instruction took.         *)

Step(c) ==
    /\ phase = "run"
    /\ clocks < MaxClocks
    /\ clocks' = clocks + c
    /\ acc' = acc + c * ClocksDen
    /\ phase' = "step"
    /\ UNCHANGED <<line, frames, left>>

\* Faulty StepLine: the remainder is thrown away.
StepLineClears ==
    /\ phase = "step"
    /\ acc >= ClocksNum
    /\ acc' = 0
    /\ LineWrap
    /\ UNCHANGED <<clocks, phase, left>>

StepLine ==
    /\ phase = "step"
    /\ acc >= ClocksNum
    /\ acc' = acc - ClocksNum
    /\ LineWrap
    /\ UNCHANGED <<clocks, phase, left>>

\* Faulty StepDone: the loop may end with lines still owed.
StepDoneEarly ==
    /\ phase = "step"
    /\ phase' = "run"
    /\ UNCHANGED <<clocks, acc, line, frames, left>>

StepDone ==
    /\ phase = "step"
    /\ acc < ClocksNum
    /\ phase' = "run"
    /\ UNCHANGED <<clocks, acc, line, frames, left>>

-----------------------------------------------------------------------------
(* Machine::advance: the fast path lets n clocks pass at once.             *)

\* Faulty Advance: clocks already owed are not counted.
AdvanceForgets(n) ==
    /\ phase = "run"
    /\ clocks < MaxClocks
    /\ clocks' = clocks + n
    /\ left' = (n * ClocksDen) \div ClocksNum
    /\ phase' = "skip"
    /\ UNCHANGED <<line, frames, acc>>

Advance(n) ==
    /\ phase = "run"
    /\ clocks < MaxClocks
    /\ clocks' = clocks + n
    /\ acc' = (acc + n * ClocksDen) % ClocksNum
    /\ left' = (acc + n * ClocksDen) \div ClocksNum
    /\ phase' = "skip"
    /\ UNCHANGED <<line, frames>>

SkipLine ==
    /\ phase = "skip"
    /\ left > 0
    /\ left' = left - 1
    /\ LineWrap
    /\ UNCHANGED <<clocks, acc, phase>>

SkipDone ==
    /\ phase = "skip"
    /\ left = 0
    /\ phase' = "run"
    /\ UNCHANGED <<clocks, acc, line, frames, left>>

\* Machine::reset.
Reset ==
    /\ phase = "run"
    /\ clocks' = 0
    /\ acc' = 0
    /\ line' = 0
    /\ frames' = 0
    /\ UNCHANGED <<phase, left>>

Next ==
    \/ \E c \in 1 .. MaxCost : Step(c)
    \/ StepLine
    \/ StepDone
    \/ \E n \in 0 .. MaxSkip : Advance(n)
    \/ SkipLine
    \/ SkipDone
    \/ Reset

Spec == Init /\ [][Next]_vars

-----------------------------------------------------------------------------
\* Lines completed since reset, and those the running loop still owes.
Beam == frames * Lines + line
Owed == left + acc \div ClocksNum

TypeOK ==
    /\ clocks \in Nat
    /\ acc \in Nat
    /\ line \in 0 .. Lines - 1
    /\ frames \in Nat
    /\ phase \in {"run", "step", "skip"}
    /\ left \in Nat

\* Between instructions the beam is exactly where the clock says: no line is
\* early, late or lost, and the accumulator is the remainder.
BeamOnTime ==
    phase = "run" =>
        /\ Beam = (clocks * ClocksDen) \div ClocksNum
        /\ acc = (clocks * ClocksDen) % ClocksNum

\* The accumulator never holds more than one instruction on top of a line's
\* remainder, so the u32 that Machine.acc is cannot overflow.
AccBounded == acc < ClocksNum + MaxCost * ClocksDen

\* The strengthening of BeamOnTime that every step preserves: in the loops,
\* lines made, lines owed and remainder still add up to the clocks elapsed.
Conservation ==
    /\ (Beam + left) * ClocksNum + acc = clocks * ClocksDen
    /\ phase # "step" => acc < ClocksNum
    /\ phase # "skip" => left = 0

IInv == TypeOK /\ Conservation /\ AccBounded

\* The two loops only catch up with the clock: counting the lines they owe as
\* made, stepping and skipping are both the ideal clock.
Ideal == INSTANCE BeamClock WITH beam <- Beam + Owed

ImplementsBeamClock == Ideal!Spec

=============================================================================
