---------------------------- MODULE RasterProofs ----------------------------
(***************************************************************************)
(* For every frame height, clock ratio and instruction cost: the beam is   *)
(* where the clock says it is, and the accumulator stays small.            *)
(***************************************************************************)
EXTENDS Raster, TLAPS

(***************************************************************************)
(* Arithmetic.                                                             *)
(***************************************************************************)

\* Quotient and remainder, from the equation and the range that define them.
LEMMA Quotient ==
    ASSUME NEW n \in Nat \ {0}, NEW q \in Int, NEW r \in 0 .. n - 1
    PROVE  (q * n + r) \div n = q /\ (q * n + r) % n = r
OBVIOUS

\* Division of a natural number leaves a quotient and a remainder.
LEMMA Division ==
    ASSUME NEW n \in Nat \ {0}, NEW a \in Nat
    PROVE  /\ a \div n \in Nat
           /\ a % n \in 0 .. n - 1
           /\ a = (a \div n) * n + (a % n)
OBVIOUS

\* One more line, in clocks.
LEMMA OneMore ==
    ASSUME NEW n \in Nat, NEW b \in Nat
    PROVE  (b + 1) * n = b * n + n
OBVIOUS

\* c more clocks, times the denominator.
LEMMA MoreClocks ==
    ASSUME NEW n \in Nat, NEW t \in Nat, NEW c \in Nat
    PROVE  /\ (t + c) * n = t * n + c * n
           /\ t * n \in Nat
           /\ c * n \in Nat
OBVIOUS

\* A cost is never dearer than the dearest.
LEMMA Dearest ==
    ASSUME NEW n \in Nat, NEW m \in Nat, NEW c \in 1 .. m
    PROVE  c * n <= m * n
OBVIOUS

\* Lines in two parts, in clocks.
LEMMA Distribute ==
    ASSUME NEW n \in Nat, NEW a \in Nat, NEW b \in Nat
    PROVE  /\ a * n \in Nat
           /\ b * n \in Nat
           /\ (a + b) * n = a * n + b * n
OBVIOUS

(***************************************************************************)
(* The beam.                                                               *)
(***************************************************************************)

\* A line call moves the beam one line on, within the frame or to the next.
LEMMA LineWrapMovesBeam ==
    ASSUME TypeOK, LineWrap
    PROVE  /\ line' \in 0 .. Lines - 1
           /\ frames' \in Nat
           /\ Beam \in Nat
           /\ Beam' = Beam + 1
<1>1. Lines \in Nat \ {0} /\ line \in 0 .. Lines - 1 /\ frames \in Nat
  BY RasterAssumption DEF TypeOK
<1>2. frames * Lines \in Nat
  BY <1>1
<1>3. Beam \in Nat
  BY <1>1, <1>2 DEF Beam
<1>4. CASE line + 1 = Lines
  <2>1. line' = 0 /\ frames' = frames + 1
    BY <1>4 DEF LineWrap
  <2>2. (frames + 1) * Lines = frames * Lines + Lines
    BY <1>1, OneMore
  <2>3. Beam' = Beam + 1
    BY <1>1, <1>2, <1>4, <2>1, <2>2 DEF Beam
  <2>4. QED
    BY <1>1, <1>3, <2>1, <2>3
<1>5. CASE line + 1 # Lines
  <2>1. line' = line + 1 /\ frames' = frames
    BY <1>5 DEF LineWrap
  <2>2. Beam' = Beam + 1
    BY <1>1, <1>2, <2>1 DEF Beam
  <2>3. QED
    BY <1>1, <1>3, <1>5, <2>1, <2>2
<1>6. QED
  BY <1>4, <1>5

\* The invariant holds of a machine just created or reset.
LEMMA IInvInit == Init => IInv
<1> SUFFICES ASSUME Init PROVE IInv
  OBVIOUS
<1>1. TypeOK /\ acc < ClocksNum /\ left = 0
  BY RasterAssumption DEF Init, TypeOK
<1>2. Beam = 0 /\ clocks = 0 /\ acc = 0 /\ left = 0
  BY RasterAssumption DEF Init, Beam
<1>3. Conservation
  BY RasterAssumption, <1>1, <1>2 DEF Conservation
<1>4. MaxCost * ClocksDen \in Nat
  BY RasterAssumption
<1>5. AccBounded
  BY RasterAssumption, <1>2, <1>4 DEF AccBounded
<1>6. QED
  BY <1>1, <1>3, <1>5 DEF IInv

\* Every step of either loop preserves it: a line made is a line's clocks
\* paid, and the division of advance pays exactly the lines it owes.
LEMMA IInvNext == IInv /\ [Next]_vars => IInv'
<1> SUFFICES ASSUME IInv, [Next]_vars PROVE IInv'
  OBVIOUS
<1> USE RasterAssumption
<1>1. /\ TypeOK /\ Conservation /\ AccBounded
      /\ clocks \in Nat /\ acc \in Nat /\ line \in 0 .. Lines - 1
      /\ frames \in Nat /\ left \in Nat
      /\ phase \in {"run", "step", "skip"}
  BY DEF IInv, TypeOK
<1>2. Beam \in Nat
  BY <1>1 DEF Beam
<1>3. MaxCost * ClocksDen \in Nat
  OBVIOUS
<1>4. ASSUME NEW c \in 1 .. MaxCost, Step(c)
      PROVE  IInv'
  <2>1. /\ phase = "run" /\ phase' = "step" /\ clocks' = clocks + c
        /\ acc' = acc + c * ClocksDen
        /\ line' = line /\ frames' = frames /\ left' = left
    BY <1>4 DEF Step
  <2>2. acc < ClocksNum /\ left = 0 /\ Beam * ClocksNum + acc = clocks * ClocksDen
    BY <1>1, <1>2, <2>1 DEF Conservation
  <2>3. /\ (clocks + c) * ClocksDen = clocks * ClocksDen + c * ClocksDen
        /\ c * ClocksDen \in Nat
    BY <1>1, MoreClocks
  <2>4. c * ClocksDen <= MaxCost * ClocksDen
    BY Dearest
  <2>5. TypeOK'
    BY <1>1, <2>1, <2>3 DEF TypeOK
  <2>6. Beam' = Beam
    BY <2>1 DEF Beam
  <2>7. Conservation'
    <3>1. Beam * ClocksNum \in Nat /\ clocks * ClocksDen \in Nat
      BY <1>1, <1>2
    <3>2. Beam * ClocksNum + (acc + c * ClocksDen)
            = clocks * ClocksDen + c * ClocksDen
      BY <1>1, <2>2, <2>3, <3>1
    <3>3. ((Beam + left) * ClocksNum + acc)' = (clocks * ClocksDen)'
      BY <1>1, <1>2, <2>1, <2>2, <2>3, <2>6, <3>2
    <3>4. QED
      BY <2>1, <2>2, <3>3 DEF Conservation
  <2>8. AccBounded'
    BY <1>1, <1>3, <2>1, <2>2, <2>3, <2>4 DEF AccBounded
  <2>9. QED
    BY <2>5, <2>7, <2>8 DEF IInv
<1>5. CASE StepLine
  <2>1. /\ phase = "step" /\ phase' = phase /\ clocks' = clocks
        /\ acc >= ClocksNum /\ acc' = acc - ClocksNum /\ left' = left
        /\ LineWrap
    BY <1>5 DEF StepLine
  <2>2. /\ line' \in 0 .. Lines - 1 /\ frames' \in Nat /\ Beam' = Beam + 1
    BY <1>1, <2>1, LineWrapMovesBeam
  <2>3. left = 0 /\ Beam * ClocksNum + acc = clocks * ClocksDen
    BY <1>1, <1>2, <2>1 DEF Conservation
  <2>4. (Beam + 1) * ClocksNum = Beam * ClocksNum + ClocksNum
    BY <1>2, OneMore
  <2>5. TypeOK'
    BY <1>1, <2>1, <2>2 DEF TypeOK
  <2>6. Conservation'
    <3>1. Beam * ClocksNum \in Nat
      BY <1>2
    <3>2. (Beam + 1) * ClocksNum + (acc - ClocksNum) = clocks * ClocksDen
      BY <1>1, <2>3, <2>4, <3>1
    <3>3. ((Beam + left) * ClocksNum + acc)' = (clocks * ClocksDen)'
      BY <1>2, <2>1, <2>2, <2>3, <3>2
    <3>4. QED
      BY <2>1, <2>3, <3>3 DEF Conservation
  <2>7. AccBounded'
    BY <1>1, <1>3, <2>1 DEF AccBounded
  <2>8. QED
    BY <2>5, <2>6, <2>7 DEF IInv
<1>6. CASE StepDone
  BY <1>1, <1>6 DEF StepDone, IInv, TypeOK, Conservation, AccBounded, Beam
<1>7. ASSUME NEW n \in 0 .. MaxSkip, Advance(n)
      PROVE  IInv'
  <2> DEFINE total == acc + n * ClocksDen
  <2>1. /\ phase = "run" /\ phase' = "skip" /\ clocks' = clocks + n
        /\ acc' = total % ClocksNum /\ left' = total \div ClocksNum
        /\ line' = line /\ frames' = frames
    BY <1>7 DEF Advance
  <2>2. left = 0 /\ Beam * ClocksNum + acc = clocks * ClocksDen
    BY <1>1, <1>2, <2>1 DEF Conservation
  <2>3. /\ (clocks + n) * ClocksDen = clocks * ClocksDen + n * ClocksDen
        /\ n * ClocksDen \in Nat
    BY <1>1, MoreClocks
  <2>4. total \in Nat
    BY <1>1, <2>3
  <2> HIDE DEF total
  <2>5. /\ total \div ClocksNum \in Nat
        /\ total % ClocksNum \in 0 .. ClocksNum - 1
        /\ total = (total \div ClocksNum) * ClocksNum + (total % ClocksNum)
    BY <2>4, Division
  <2>6. /\ left' \in Nat
        /\ acc' \in 0 .. ClocksNum - 1
        /\ left' * ClocksNum + acc' = acc + n * ClocksDen
    BY <2>1, <2>5 DEF total
  <2>7. TypeOK'
    BY <1>1, <2>1, <2>6 DEF TypeOK
  <2>8. Beam' = Beam
    BY <2>1 DEF Beam
  <2>9. Conservation'
    <3>1. PICK beamClocks \in Nat : beamClocks = Beam * ClocksNum
      BY <1>2, Distribute
    <3>2. PICK leftClocks \in Nat : leftClocks = left' * ClocksNum
      BY <2>6, Distribute
    <3>3. (Beam + left') * ClocksNum = beamClocks + leftClocks
      BY <1>2, <2>6, <3>1, <3>2, Distribute
    <3>4. PICK before \in Nat : before = clocks * ClocksDen
      BY <1>1, MoreClocks
    <3>5. PICK skipped \in Nat : skipped = n * ClocksDen
      BY <2>3
    <3>6. PICK old \in Nat, new \in Nat : old = acc /\ new = acc'
      BY <1>1, <2>6
    <3>7. beamClocks + old = before /\ leftClocks + new = old + skipped
      BY <2>2, <2>6, <3>1, <3>2, <3>4, <3>5, <3>6
    <3>8. (beamClocks + leftClocks) + new = before + skipped
      BY ONLY beamClocks \in Nat, leftClocks \in Nat, before \in Nat,
              skipped \in Nat, old \in Nat, new \in Nat, <3>7
    <3>9. ((Beam + left) * ClocksNum + acc)' = (clocks * ClocksDen)'
      BY <2>1, <2>3, <2>8, <3>3, <3>4, <3>5, <3>6, <3>8
    <3>10. QED
      BY <1>1, <2>1, <2>6, <3>9 DEF Conservation
  <2>10. AccBounded'
    BY <1>3, <2>6 DEF AccBounded
  <2>11. QED
    BY <2>7, <2>9, <2>10 DEF IInv
<1>8. CASE SkipLine
  <2>1. /\ phase = "skip" /\ phase' = phase /\ clocks' = clocks
        /\ acc' = acc /\ left > 0 /\ left' = left - 1
        /\ LineWrap
    BY <1>8 DEF SkipLine
  <2>2. /\ line' \in 0 .. Lines - 1 /\ frames' \in Nat /\ Beam' = Beam + 1
    BY <1>1, <2>1, LineWrapMovesBeam
  <2>3. TypeOK'
    BY <1>1, <2>1, <2>2 DEF TypeOK
  <2>4. Beam' + left' = Beam + left
    BY <1>1, <1>2, <2>1, <2>2
  <2>5. Conservation' /\ AccBounded'
    BY <1>1, <2>1, <2>4 DEF Conservation, AccBounded
  <2>6. QED
    BY <2>3, <2>5 DEF IInv
<1>9. CASE SkipDone
  BY <1>1, <1>9 DEF SkipDone, IInv, TypeOK, Conservation, AccBounded, Beam
<1>10. CASE Reset
  <2>1. /\ clocks' = 0 /\ acc' = 0 /\ line' = 0 /\ frames' = 0
        /\ left' = left /\ phase' = phase /\ phase = "run"
    BY <1>10 DEF Reset
  <2>2. left = 0
    BY <1>1, <2>1 DEF Conservation
  <2>3. TypeOK'
    BY <1>1, <2>1 DEF TypeOK
  <2>4. Beam' = 0
    BY <2>1 DEF Beam
  <2>5. Conservation' /\ AccBounded'
    BY <1>3, <2>1, <2>2, <2>4 DEF Conservation, AccBounded
  <2>6. QED
    BY <2>3, <2>5 DEF IInv
<1>11. CASE UNCHANGED vars
  BY <1>1, <1>11 DEF vars, IInv, TypeOK, Conservation, AccBounded, Beam
<1>12. QED
  BY <1>4, <1>5, <1>6, <1>7, <1>8, <1>9, <1>10, <1>11 DEF Next

(***************************************************************************)
(* Theorems.                                                               *)
(***************************************************************************)

\* The strengthened invariant holds throughout.
LEMMA InductiveInvariant == Spec => []IInv
<1>1. Init => IInv
  BY IInvInit
<1>2. IInv /\ [Next]_vars => IInv'
  BY IInvNext
<1>3. QED
  BY <1>1, <1>2, PTL DEF Spec

\* Every variable of the scheduler keeps its type: the beam's line stays
\* below Lines whatever the loops do (Uvi::line, Machine::step and advance).
THEOREM TypeCorrect == Spec => []TypeOK
<1>1. IInv => TypeOK
  BY DEF IInv
<1>2. QED
  BY <1>1, InductiveInvariant, PTL

\* Between instructions the beam is at the whole number of lines that fit the
\* clocks elapsed, and the accumulator is the remainder (Machine::step and
\* advance): skipping clocks or stepping through them makes no difference.
THEOREM BeamIsOnTime == Spec => []BeamOnTime
<1>1. IInv => BeamOnTime
  <2> SUFFICES ASSUME IInv, phase = "run"
               PROVE  /\ Beam = (clocks * ClocksDen) \div ClocksNum
                      /\ acc = (clocks * ClocksDen) % ClocksNum
    BY DEF BeamOnTime
  <2>1. /\ Beam \in Int /\ acc \in 0 .. ClocksNum - 1 /\ left = 0
        /\ ClocksNum \in Nat \ {0}
    BY RasterAssumption DEF IInv, TypeOK, Conservation, Beam
  <2>2. Beam * ClocksNum + acc = clocks * ClocksDen
    BY <2>1 DEF IInv, Conservation
  <2>3. QED
    BY <2>1, <2>2, Quotient
<1>2. QED
  BY <1>1, InductiveInvariant, PTL

\* The accumulator stays below a line plus one instruction (Machine::acc is a
\* u32, and step adds to it before it drains it).
THEOREM AccIsBounded == Spec => []AccBounded
<1>1. IInv => AccBounded
  BY DEF IInv
<1>2. QED
  BY <1>1, InductiveInvariant, PTL

\* In the midst of the two loops too, lines made, lines owed and remainder add
\* up to the clocks elapsed.
THEOREM ClocksConserved == Spec => []Conservation
<1>1. IInv => Conservation
  BY DEF IInv
<1>2. QED
  BY <1>1, InductiveInvariant, PTL

(***************************************************************************)
(* Refinement.                                                             *)
(***************************************************************************)

\* Counting the lines the running loop still owes, the beam is on time in the
\* loops too.
LEMMA OwedIsOnTime == IInv => Beam + Owed = Ideal!LinesAt(clocks)
<1> SUFFICES ASSUME IInv PROVE Beam + Owed = Ideal!LinesAt(clocks)
  OBVIOUS
<1>1. /\ acc \in Nat /\ left \in Nat /\ clocks \in Nat
      /\ ClocksNum \in Nat \ {0} /\ ClocksDen \in Nat
      /\ (Beam + left) * ClocksNum + acc = clocks * ClocksDen
  BY RasterAssumption DEF IInv, TypeOK, Conservation
<1>2. Beam \in Nat
  BY RasterAssumption DEF IInv, TypeOK, Beam
<1>3. PICK q \in Nat, r \in 0 .. ClocksNum - 1 :
        /\ q = acc \div ClocksNum
        /\ acc = q * ClocksNum + r
  BY <1>1, Division
<1>4. PICK b \in Nat : b = Beam + left
  BY <1>1, <1>2
<1>5. (b + q) * ClocksNum = b * ClocksNum + q * ClocksNum
  BY <1>1, Distribute
<1>6. PICK bn \in Nat, qn \in Nat : bn = b * ClocksNum /\ qn = q * ClocksNum
  BY <1>1, Distribute
<1>7. (b + q) * ClocksNum + r = clocks * ClocksDen
  <2>1. bn + (qn + r) = clocks * ClocksDen
    BY <1>1, <1>3, <1>4, <1>6
  <2>2. bn + (qn + r) = (bn + qn) + r
    OBVIOUS
  <2>3. QED
    BY <1>5, <1>6, <2>1, <2>2
<1>8. b + q \in Int
  OBVIOUS
<1>9. (clocks * ClocksDen) \div ClocksNum = b + q
  BY <1>1, <1>7, <1>8, Quotient
<1>10. Beam + Owed = b + q
  BY <1>1, <1>2, <1>3, <1>4 DEF Owed
<1>11. QED
  BY <1>9, <1>10 DEF Ideal!LinesAt

\* Machine::step and Machine::advance both implement the clock that
\* docs/emulator.md promises: lines are a function of the clocks elapsed.
THEOREM SchedulerImplementsBeamClock == Spec => ImplementsBeamClock
<1>1. Init => Ideal!Init
  <2> SUFFICES ASSUME Init PROVE Ideal!Init
    OBVIOUS
  <2>1. clocks = 0 /\ Beam = 0 /\ left = 0 /\ acc = 0
    BY RasterAssumption DEF Init, Beam
  <2>2. Owed = 0
    BY RasterAssumption, <2>1 DEF Owed
  <2>3. QED
    BY <2>1, <2>2 DEF Ideal!Init
<1>2. (IInv => Beam + Owed = Ideal!LinesAt(clocks))'
  BY OwedIsOnTime, PTL
<1>3. IInv /\ IInv' /\ [Next]_vars => [Ideal!Next]_(Ideal!vars)
  <2> SUFFICES ASSUME IInv, IInv', [Next]_vars
               PROVE  [Ideal!Next]_(Ideal!vars)
    OBVIOUS
  <2> USE DEF Ideal!Next
  <2>1. (Beam + Owed)' = Ideal!LinesAt(clocks')
    BY <1>2 DEF Ideal!LinesAt
  <2>2. clocks \in Nat
    BY DEF IInv, TypeOK
  <2>3. CASE clocks' \in Nat /\ clocks' >= clocks
    BY <2>1, <2>3 DEF Ideal!Elapse
  <2>4. ASSUME NEW c \in 1 .. MaxCost, Step(c)
        PROVE  clocks' \in Nat /\ clocks' >= clocks
    BY <2>2, <2>4 DEF Step
  <2>5. ASSUME NEW n \in 0 .. MaxSkip, Advance(n)
        PROVE  clocks' \in Nat /\ clocks' >= clocks
    BY <2>2, <2>5 DEF Advance
  <2>6. ASSUME StepLine \/ StepDone \/ SkipLine \/ SkipDone \/ UNCHANGED vars
        PROVE  clocks' \in Nat /\ clocks' >= clocks
    BY <2>2, <2>6 DEF StepLine, StepDone, SkipLine, SkipDone, vars
  <2>7. CASE Reset
    <3>1. clocks' = 0
      BY <2>7 DEF Reset
    <3>2. Ideal!LinesAt(clocks') = 0
      BY RasterAssumption, <3>1 DEF Ideal!LinesAt
    <3>3. QED
      BY <2>1, <3>1, <3>2 DEF Ideal!Reset
  <2>8. QED
    BY <2>3, <2>4, <2>5, <2>6, <2>7 DEF Next
<1>4. QED
  BY <1>1, <1>3, InductiveInvariant, PTL
  DEF Spec, ImplementsBeamClock, Ideal!Spec

=============================================================================
