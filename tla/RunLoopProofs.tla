--------------------------- MODULE RunLoopProofs ---------------------------
(***************************************************************************)
(* For every program, frame length and sequence of host calls: breakpoints *)
(* are counted right and never run through, and runs stop on target.       *)
(***************************************************************************)
EXTENDS RunLoop, FiniteSetTheorems, TLAPS

(***************************************************************************)
(* Frames.                                                                 *)
(***************************************************************************)

\* Division of a natural number leaves a quotient and a remainder.
LEMMA Division ==
    ASSUME NEW n \in Nat \ {0}, NEW a \in Nat
    PROVE  /\ a \div n \in Nat
           /\ a % n \in 0 .. n - 1
           /\ a = (a \div n) * n + (a % n)
OBVIOUS

\* Multiplication by a natural number keeps the order, and distributes.
LEMMA Monotone ==
    ASSUME NEW n \in Nat, NEW a \in Nat, NEW b \in Nat, a <= b
    PROVE  a * n \in Nat /\ b * n \in Nat /\ a * n <= b * n
OBVIOUS

LEMMA Distribute ==
    ASSUME NEW n \in Nat, NEW a \in Nat, NEW b \in Nat
    PROVE  (a + b) * n = a * n + b * n
OBVIOUS

\* At most n more units end at most one more block of n.
LEMMA OneMore ==
    ASSUME NEW n \in Nat \ {0}, NEW a \in Nat, NEW e \in 0 .. n
    PROVE  (a + e) \div n <= a \div n + 1
<1> DEFINE p == a \div n
           q == (a + e) \div n
           r == a % n
           s == (a + e) % n
<1>1. p \in Nat /\ r \in 0 .. n - 1 /\ a = p * n + r
  BY Division
<1>2. a + e \in Nat
  OBVIOUS
<1>3. q \in Nat /\ s \in 0 .. n - 1 /\ a + e = q * n + s
  BY <1>2, Division
<1> HIDE DEF p, q, r, s
<1>4. SUFFICES ASSUME q >= p + 2 PROVE FALSE
  BY <1>1, <1>3 DEF p, q
<1>5. (p + 2) * n <= q * n /\ p * n \in Nat /\ q * n \in Nat
  BY <1>1, <1>3, <1>4, Monotone
<1>6. (p + 2) * n = p * n + 2 * n
  BY <1>1, Distribute
<1>7. QED
  BY <1>1, <1>3, <1>5, <1>6

LEMMA FramesType ==
    ASSUME NEW c \in Nat
    PROVE  FramesAt(c) \in Nat
<1>1. c * ClocksDen \in Nat
  BY RunLoopAssumption
<1>2. QED
  BY <1>1, Division, RunLoopAssumption DEF FramesAt

\* An instruction ends at most one frame.
LEMMA OneFrame ==
    ASSUME NEW c \in Nat, NEW d \in 1 .. MaxCost
    PROVE  FramesAt(c + d) <= FramesAt(c) + 1
<1>1. ClocksDen \in Nat /\ MaxCost \in Nat /\ d \in Nat /\ FrameClocks \in Nat \ {0}
  BY RunLoopAssumption
<1>2. (c + d) * ClocksDen = c * ClocksDen + d * ClocksDen
  BY <1>1, Distribute
<1>3. d * ClocksDen \in Nat /\ d * ClocksDen <= MaxCost * ClocksDen
  BY <1>1, Monotone
<1>4. c * ClocksDen \in Nat
  BY <1>1
<1>5. MaxCost * ClocksDen <= FrameClocks /\ MaxCost * ClocksDen \in Nat
  BY <1>1, RunLoopAssumption
<1>6. d * ClocksDen \in 0 .. FrameClocks
  BY <1>1, <1>3, <1>5
<1>7. QED
  BY <1>1, <1>2, <1>4, <1>6, OneMore DEF FramesAt

(***************************************************************************)
(* The invariant.                                                          *)
(***************************************************************************)

LEMMA IInvInit == Init => IInv
<1> SUFFICES ASSUME Init PROVE IInv
  OBVIOUS
<1>1. TypeOK
  BY RunLoopAssumption DEF Init, TypeOK, NoCall, NoStop
<1>2. IsFiniteSet(breaks) /\ BreaksCounted
  BY FS_EmptySet DEF Init, BreaksCounted
<1>3. CallBounded /\ StopsOnTarget
  BY DEF Init, CallBounded, StopsOnTarget, Running, NoStop
<1>4. QED
  BY <1>1, <1>2, <1>3 DEF IInv

\* What an instruction, with the skip it may allow, does to clocks and target.
LEMMA InstructionBounded ==
    ASSUME IInv, Instruction, NEW c \in 1 .. MaxCost,
           clocks' = clocks + c \/ (FastPath /\ clocks' \in Reach(clocks + c))
    PROVE  IInv'
<1>1. /\ clocks \in Nat /\ c \in Nat /\ MaxCost \in Nat /\ clocks + c \in Nat
      /\ FrameClocks \div ClocksDen \in Nat
  <2>1. clocks \in Nat /\ MaxCost \in Nat
    BY RunLoopAssumption DEF IInv, TypeOK
  <2>2. ClocksDen \in Nat \ {0} /\ FrameClocks \in Nat
    BY RunLoopAssumption
  <2>3. FrameClocks \div ClocksDen \in Nat
    BY <2>2, Division
  <2>4. QED
    BY <2>1, <2>3
<1>2. /\ call \in [kind : {"frames", "clocks"}, target : Nat, first : BOOLEAN]
      /\ call' = [call EXCEPT !.first = FALSE]
      /\ call # NoCall
  BY DEF IInv, TypeOK, Instruction, Running
<1>3. /\ call' \in [kind : {"frames", "clocks"}, target : Nat, first : BOOLEAN]
      /\ call'.kind = call.kind /\ call'.target = call.target
      /\ call.target \in Nat
  BY <1>2
<1>4. /\ clocks' \in Nat
      /\ \/ clocks' = clocks + c
         \/ /\ FramesAt(clocks') = FramesAt(clocks + c)
            /\ call.kind = "clocks" => clocks' <= call.target
  BY <1>1 DEF Reach
<1>5. FramesAt(clocks') <= FramesAt(clocks) + 1
  BY <1>1, <1>4, OneFrame
<1>6. FramesAt(clocks) \in Nat /\ FramesAt(clocks') \in Nat
  BY <1>1, <1>4, FramesType
<1>7. /\ call.kind = "frames" => FramesAt(clocks) < call.target
      /\ call.kind # "frames" => clocks < call.target
  BY DEF Instruction, More
<1>8. stop' = stop /\ stop.why = "none"
  BY DEF Instruction, IInv, CallBounded
<1>9. TypeOK'
  BY <1>3, <1>4 DEF IInv, TypeOK, Instruction
<1>10. (IsFiniteSet(breaks) /\ BreaksCounted)'
  BY DEF IInv, BreaksCounted, Instruction
<1>11. call'.kind = "frames" => FramesAt(clocks') <= call'.target
  BY <1>3, <1>5, <1>6, <1>7
<1>12. call'.kind = "clocks" => clocks' <= call'.target + MaxCost - 1
  BY <1>1, <1>3, <1>4, <1>7
<1>13. CallBounded'
  BY <1>8, <1>11, <1>12 DEF CallBounded, FramesAt
<1>14. StopsOnTarget'
  BY <1>8 DEF StopsOnTarget
<1>15. QED
  BY <1>9, <1>10, <1>13, <1>14 DEF IInv

LEMMA IInvNext == IInv /\ [Next]_vars => IInv'
<1> SUFFICES ASSUME IInv, [Next]_vars PROVE IInv'
  OBVIOUS
<1> USE DEF IInv
<1>1. ASSUME NEW c \in 1 .. MaxCost, PlainTurn(c) PROVE IInv'
  BY <1>1, InstructionBounded DEF PlainTurn
<1>2. ASSUME NEW c \in 1 .. MaxCost, FastTurn(c) PROVE IInv'
  BY <1>2, InstructionBounded DEF FastTurn
<1>3. CASE ReturnDone
  <2>1. /\ call \in [kind : {"frames", "clocks"}, target : Nat, first : BOOLEAN]
        /\ clocks \in Nat /\ FramesAt(clocks) \in Nat
    BY <1>3, FramesType DEF ReturnDone, TypeOK, Running
  <2>2. TypeOK'
    BY <1>3, <2>1 DEF ReturnDone, TypeOK, NoCall
  <2>3. StopsOnTarget'
    <3>1. call.kind = "frames" => FramesAt(clocks) = call.target
      BY <1>3, <2>1 DEF ReturnDone, More, CallBounded
    <3>2. call.kind = "clocks" => clocks \in call.target .. call.target + MaxCost - 1
      BY <1>3, <2>1, RunLoopAssumption DEF ReturnDone, More, CallBounded
    <3>3. stop' = [why |-> call.kind, target |-> call.target] /\ clocks' = clocks
      BY <1>3 DEF ReturnDone
    <3>4. QED
      BY <3>1, <3>2, <3>3 DEF StopsOnTarget, FramesAt
  <2>4. QED
    BY <1>3, <2>2, <2>3 DEF ReturnDone, CallBounded, BreaksCounted, Running
<1>4. CASE ReturnBreakpoint
  <2>1. call \in [kind : {"frames", "clocks"}, target : Nat, first : BOOLEAN]
    BY <1>4 DEF ReturnBreakpoint, TypeOK, Running
  <2>2. TypeOK'
    BY <1>4, <2>1 DEF ReturnBreakpoint, TypeOK, NoCall
  <2>3. QED
    BY <1>4, <2>2 DEF ReturnBreakpoint, CallBounded, BreaksCounted, Running, StopsOnTarget
<1>5. ASSUME NEW n \in FrameCalls, RunFrames(n) PROVE IInv'
  <2>1. n \in Nat /\ clocks \in Nat /\ FramesAt(clocks) \in Nat
    BY RunLoopAssumption, FramesType DEF TypeOK
  <2>2. /\ call' = [kind |-> "frames", target |-> FramesAt(clocks) + n, first |-> TRUE]
        /\ stop' = NoStop
        /\ UNCHANGED <<pc, clocks, breaks, nbreak, fast, cov>>
    BY <1>5 DEF RunFrames, Start
  <2>3. TypeOK'
    BY <2>1, <2>2 DEF TypeOK, NoStop
  <2>4. CallBounded'
    BY <2>1, <2>2 DEF CallBounded, NoStop, FramesAt
  <2>5. QED
    BY <2>2, <2>3, <2>4 DEF BreaksCounted, StopsOnTarget, NoStop
<1>6. ASSUME NEW n \in ClockCalls, RunClocks(n) PROVE IInv'
  <2>1. n \in Nat /\ clocks \in Nat /\ MaxCost \in Nat \ {0}
    BY RunLoopAssumption DEF TypeOK
  <2>2. /\ call' = [kind |-> "clocks", target |-> clocks + n, first |-> TRUE]
        /\ stop' = NoStop
        /\ UNCHANGED <<pc, clocks, breaks, nbreak, fast, cov>>
    BY <1>6 DEF RunClocks, Start
  <2>3. TypeOK'
    BY <2>1, <2>2 DEF TypeOK, NoStop
  <2>4. CallBounded'
    BY <2>1, <2>2 DEF CallBounded, NoStop
  <2>5. QED
    BY <2>2, <2>3, <2>4 DEF BreaksCounted, StopsOnTarget, NoStop
<1>7. ASSUME NEW p \in Pcs, NEW enabled \in BOOLEAN, SetBreakpoint(p, enabled)
      PROVE  IInv'
  <2>1. /\ ~Running
        /\ UNCHANGED <<pc, clocks, fast, cov, call, stop>>
    BY <1>7 DEF SetBreakpoint
  <2>2. (IsFiniteSet(breaks) /\ BreaksCounted)' /\ breaks' \in SUBSET Pcs
    <3>1. CASE (p \in breaks) = enabled
      BY <1>7, <3>1 DEF SetBreakpoint, BreaksCounted, TypeOK
    <3>2. CASE p \notin breaks /\ enabled
      <4>1. breaks' = breaks \cup {p} /\ nbreak' = nbreak + 1
        BY <1>7, <3>2 DEF SetBreakpoint
      <4>2. IsFiniteSet(breaks') /\ Cardinality(breaks') = Cardinality(breaks) + 1
        BY <3>2, <4>1, FS_AddElement
      <4>3. QED
        BY <4>1, <4>2 DEF BreaksCounted, TypeOK
    <3>3. CASE p \in breaks /\ ~enabled
      BY <1>7, <3>3, FS_RemoveElement DEF SetBreakpoint, BreaksCounted, TypeOK
    <3>4. QED
      BY <3>1, <3>2, <3>3
  <2>3. nbreak' \in Nat
    BY <2>2, FS_CardinalityType DEF BreaksCounted
  <2>4. TypeOK'
    BY <2>1, <2>2, <2>3 DEF TypeOK
  <2>5. QED
    BY <2>1, <2>2, <2>4 DEF CallBounded, StopsOnTarget, Running
<1>8. CASE ClearBreakpoints
  BY <1>8, FS_EmptySet
  DEF ClearBreakpoints, TypeOK, BreaksCounted, CallBounded, StopsOnTarget, Running
<1>9. ASSUME NEW f \in BOOLEAN, NEW c \in BOOLEAN, SetMode(f, c) PROVE IInv'
  BY <1>9 DEF SetMode, TypeOK, BreaksCounted, CallBounded, StopsOnTarget, Running
<1>10. CASE Reset
  BY <1>10, RunLoopAssumption
  DEF Reset, TypeOK, BreaksCounted, CallBounded, StopsOnTarget, Running, NoStop
<1>11. ASSUME NEW c \in 1 .. MaxCost, Step(c) PROVE IInv'
  BY <1>11, RunLoopAssumption
  DEF Step, TypeOK, BreaksCounted, CallBounded, StopsOnTarget, Running, NoStop
<1>12. CASE UNCHANGED vars
  BY <1>12 DEF vars, TypeOK, BreaksCounted, CallBounded, StopsOnTarget, Running, FramesAt, More
<1>13. QED
  BY <1>1, <1>2, <1>3, <1>4, <1>5, <1>6, <1>7, <1>8, <1>9, <1>10, <1>11, <1>12
  DEF Next, Turn

LEMMA InductiveInvariant == Spec => []IInv
BY IInvInit, IInvNext, PTL DEF Spec

(***************************************************************************)
(* The promises.                                                           *)
(***************************************************************************)

\* Type correctness of the run loop and its host interface.
THEOREM TypeCorrect == Spec => []TypeOK
<1>1. IInv => TypeOK
  BY DEF IInv
<1>2. QED
  BY <1>1, InductiveInvariant, PTL

\* Machine::set_breakpoint and clear_breakpoints keep nbreak the number of
\* bits set, whatever is enabled or disabled twice.
THEOREM BreakpointsCounted == Spec => []BreaksCounted
<1>1. IInv => BreaksCounted
  BY DEF IInv
<1>2. QED
  BY <1>1, InductiveInvariant, PTL

\* run_frames returns in the very frame asked for and run_clocks less than one
\* instruction after its target, with skips and without.
THEOREM RunsStopOnTarget == Spec => []StopsOnTarget
<1>1. IInv => StopsOnTarget
  BY DEF IInv
<1>2. QED
  BY <1>1, InductiveInvariant, PTL

\* The fast path, which looks at no breakpoint, is taken only when there is
\* none; the plain path stops at each.
THEOREM BreakpointsHonoured == Spec => NoBreakPassed
<1>1. IInv /\ [Next]_vars =>
        [clocks' # clocks /\ Running /\ pc \in breaks => call.first]_vars
  <2> SUFFICES ASSUME IInv, [Next]_vars, clocks' # clocks, Running, pc \in breaks
               PROVE  call.first
    OBVIOUS
  <2>1. nbreak # 0
    BY FS_EmptySet DEF IInv, BreaksCounted
  <2>2. ~FastPath
    BY <2>1 DEF FastPath
  <2>3. call.first \in BOOLEAN
    BY DEF IInv, TypeOK, Running
  <2>4. ASSUME NEW c \in 1 .. MaxCost, PlainTurn(c) PROVE call.first
    BY <2>2, <2>4 DEF PlainTurn, Instruction, AtBreak
  <2>5. ASSUME NEW c \in 1 .. MaxCost, FastTurn(c) PROVE call.first
    BY <2>2, <2>5 DEF FastTurn
  <2>6. QED
    BY <2>4, <2>5
    DEF Next, Turn, vars, ReturnDone, ReturnBreakpoint, RunFrames, RunClocks, Start,
        SetBreakpoint, ClearBreakpoints, SetMode, Reset, Step
<1>2. QED
  BY <1>1, InductiveInvariant, PTL DEF Spec, NoBreakPassed

=============================================================================
