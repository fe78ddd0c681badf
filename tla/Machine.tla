------------------------------ MODULE Machine ------------------------------
(***************************************************************************)
(* The console: a CPU on its board, the raster scheduler, breakpoints,     *)
(* coverage, and the fast path that skips idle and delay loops.  A machine *)
(* is a record m, its CPU and board together in m.cpu (see Cpu), so that a *)
(* specification may run one machine or compare two.                       *)
(*                                                                         *)
(* A run_frames or run_clocks in progress is m.call; one turn of its loop  *)
(* is the operator Turn.                                                   *)
(***************************************************************************)
EXTENDS Board

CONSTANTS
    ClocksNum,     \* CPU clocks per raster line are ClocksNum / ClocksDen
    ClocksDen

ASSUME MachineAssumption ==
    ClocksNum \in Nat \ {0} /\ ClocksDen \in Nat \ {0}

\* The CPU, with what is proved of it over any bus.
C == INSTANCE CpuProofs WITH BusRead <- BoardRead, BusWrite <- BoardWrite,
        BusSense <- BoardSense, BusFlag <- BoardFlag, IntAck <- BoardIntAck

Huge == 2000000000              \* u64::MAX, out of reach of clocks and frames
Nothing == [none |-> TRUE]      \* None: no checkpoint, no call

NewMachine(cart, pal, fast) ==
    [ cpu    |-> C!NewCpu(NewBoard(cart, pal)),
      acc    |-> 0,
      idle   |-> Nothing,
      fast   |-> fast,
      breaks |-> {},
      nbreak |-> 0,
      cov    |-> [on |-> FALSE, count |-> << >>],
      call   |-> Nothing ]

\* Power-on reset: cartridge, inputs, breakpoints and coverage persist.
ResetMachine(m) ==
    LET b == m.cpu.bus
    IN  [m EXCEPT !.cpu = C!NewCpu([b EXCEPT !.uvi = UviReset(@), !.flag = FALSE]),
                  !.acc = 0,
                  !.idle = Nothing]

-----------------------------------------------------------------------------
(* The raster scheduler.                                                   *)

\* n more lines of the display.
DrawLines(b, n) ==
    LET after[k \in 0 .. n] == IF k = 0 THEN b.uvi ELSE Line(after[k - 1], b.flag)
    IN  [b EXCEPT !.uvi = after[n]]

\* Faulty CatchUp: at most one line is drawn.
CatchUpOnce(m, k) ==
    LET total == m.acc + k * ClocksDen
    IN  IF total < ClocksNum THEN [m EXCEPT !.acc = total]
        ELSE [m EXCEPT !.acc = total - ClocksNum, !.cpu.bus = DrawLines(@, 1)]

\* The raster catches up with k clocks.  The loop of step and the division of
\* advance come to the same (see Raster, BeamOnTime).
CatchUp(m, k) ==
    LET total == m.acc + k * ClocksDen
    IN  [m EXCEPT !.acc = total % ClocksNum,
                  !.cpu.bus = DrawLines(@, total \div ClocksNum)]

\* Time passes without instructions.
Advance(m, k) == CatchUp([m EXCEPT !.cpu.clocks = @ + k], k)

\* A saturating count of the opcode about to be executed, if one is.
Cover(m) ==
    LET s == m.cpu
        n == IF s.pc \in DOMAIN m.cov.count THEN m.cov.count[s.pc] ELSE 0
    IN  IF ~m.cov.on \/ s.halted \/ (s.irq /\ Bit(s.psu, C!II) = 0) THEN m
        ELSE [m EXCEPT !.cov.count = [a \in DOMAIN @ \cup {s.pc} |->
                                         IF a = s.pc THEN Least(n + 1, 255) ELSE @[a]]]

\* Machine::step: one instruction and the raster lines it spans.
Step(m) ==
    LET After(e) == CatchUp([Cover(m) EXCEPT !.cpu = e.s], e.k)
    IN  After(C!CpuStep(m.cpu))

-----------------------------------------------------------------------------
(* The fast path.                                                          *)

\* Clocks the beam can take before the line after the next n begins.
Budget(m, n) == (n + 1) * ClocksNum - 1 - m.acc

\* At a taken BDRR or BIRR to itself: its other taken iterations at once.
CountLoop(m, limit) ==
    LET s == m.cpu
        op == BoardPeek(s.bus, s.pc)
        down == Bit(op, 32) = 1
        r == C!Reg(s, op % 4)
        taken == IF down THEN (r - 1) % 256 ELSE 255 - r
        lines == StableLines(s.bus.uvi, FALSE, FALSE)
        k == Min({taken, Budget(m, lines) \div (9 * ClocksDen),
                  Max({limit - s.clocks, 0}) \div 9})
    IN  IF op \notin (216 .. 219) \cup (248 .. 251)
           \/ BoardPeek(s.bus, (s.pc + 1) % 32768) # 126 \/ k = 0
        THEN m
        ELSE Advance([m EXCEPT !.cpu = C!SetReg(s, op % 4,
                                                (IF down THEN r - k ELSE r + k) % 256)],
                     9 * k)

\* The CPU at the head of a candidate loop, and when it was there.
Checkpoint(m) ==
    LET s == m.cpu
    IN  [ state |-> <<s.pc, s.r, s.psl, s.psu, s.ras>>, clocks |-> s.clocks,
          line |-> s.bus.uvi.line, frames |-> s.bus.uvi.frames ]

\* Faulty Repeats: the inputs that vary are not looked at.
RepeatsAnyInput(m) ==
    /\ m.idle # Nothing
    /\ m.cpu.bus.effects = 0
    /\ m.idle.state = Checkpoint(m).state
    /\ m.idle.frames = Checkpoint(m).frames

\* Back at the last checkpoint, having written nothing and read nothing that
\* can have changed.
Repeats(m) ==
    LET b == m.cpu.bus
        now == Checkpoint(m)
    IN  /\ m.idle # Nothing
        /\ b.effects = 0
        /\ "volatile" \notin b.reads
        /\ m.idle.state = now.state
        /\ m.idle.frames = now.frames
        /\ StableLinesFrom(b.uvi, m.idle.line, "sense" \in b.reads, "charline" \in b.reads)
              >= now.line - m.idle.line

\* Faulty Iterations: skips past the clocks asked for.
IterationsUnlimited(m, k, limit) ==
    Budget(m, StableLines(m.cpu.bus.uvi, "sense" \in m.cpu.bus.reads,
                          "charline" \in m.cpu.bus.reads)) \div (k * ClocksDen)

\* How many more iterations of k clocks see the inputs as they are.
Iterations(m, k, limit) ==
    LET b == m.cpu.bus
        lines == StableLines(b.uvi, "sense" \in b.reads, "charline" \in b.reads)
    IN  Least(Budget(m, lines) \div (k * ClocksDen), Max({limit - m.cpu.clocks, 0}) \div k)

SkipIdle(m, limit) ==
    LET k == m.cpu.clocks - m.idle.clocks
        n == Iterations(m, k, limit)
    IN  IF Repeats(m) /\ n > 0 THEN Advance(m, n * k) ELSE m

IdleCheck(m, from, limit) ==
    LET Noting(skipped) == [skipped EXCEPT !.idle = Checkpoint(skipped),
                                           !.cpu.bus = [@ EXCEPT !.effects = 0, !.reads = {}]]
    IN  Noting(SkipIdle(IF from = m.cpu.pc THEN CountLoop(m, limit) ELSE m, limit))

-----------------------------------------------------------------------------
(* Breakpoints, coverage and host inputs.                                  *)

\* Faulty SetBreakpoint: counts without looking at what was set.
SetBreakpointBlind(m, pc, enabled) ==
    [m EXCEPT !.breaks = IF enabled THEN @ \cup {pc} ELSE @ \ {pc},
              !.nbreak = IF enabled THEN @ + 1 ELSE @ - 1]

SetBreakpoint(m, pc, enabled) ==
    LET a == pc % 32768
    IN  IF (a \in m.breaks) = enabled THEN m
        ELSE [m EXCEPT !.breaks = IF enabled THEN @ \cup {a} ELSE @ \ {a},
                       !.nbreak = IF enabled THEN @ + 1 ELSE @ - 1]

ClearBreakpoints(m) == [m EXCEPT !.breaks = {}, !.nbreak = 0]

SetCoverage(m, enabled) ==
    [m EXCEPT !.cov = [on |-> enabled, count |-> << >>]]

SetPanel(m, mask) == [m EXCEPT !.cpu.bus.ce[8] = mask % 16]

SetPaddle(m, player, axis, v) == [m EXCEPT !.cpu.bus.uvi.pots[player][axis] = v]

\* Bit 3 * r + c of the mask is the key in row r of keypad column c, and row r
\* of a column is its bit 3 - r.
SetKeys(m, player, mask) ==
    LET column(c) == MapThenSumSet(LAMBDA r : Bit(mask, 2 ^ (3 * r + c)) * 2 ^ (3 - r), 0 .. 3)
    IN  [m EXCEPT !.cpu.bus.ce =
            [i \in DOMAIN @ |-> IF i - 4 * player \in 0 .. 2 THEN column(i - 4 * player)
                                ELSE @[i]]]

-----------------------------------------------------------------------------
(* Runs.                                                                   *)

Clocks(m) == m.cpu.clocks
Frames(m) == m.cpu.bus.uvi.frames

\* Faulty Fast: breakpoints are not looked for.
FastIgnoresBreaks(m) == ~m.cov.on /\ m.fast

\* Breakpoints and coverage take the plain path.
Fast(m) == m.nbreak = 0 /\ ~m.cov.on /\ m.fast

Running(m) == m.call # Nothing

\* run_while has just been entered.
Enter(m, kind, target) ==
    [m EXCEPT !.call = [kind |-> kind, target |-> target, first |-> TRUE],
              !.idle = IF Fast(m) THEN Nothing ELSE @]

\* Faulty Mark: the last frame asked for is not drawn either.
MarkLate(m, target) ==
    IF m.fast /\ m.nbreak = 0 THEN target ELSE m.cpu.bus.uvi.renderFrom

\* Frames that end before the last one asked for are not drawn.  The mark wraps
\* when no frame is asked for before the first is complete.
Mark(m, target) ==
    IF ~m.fast \/ m.nbreak # 0 THEN m.cpu.bus.uvi.renderFrom
    ELSE IF target = 0 THEN Huge ELSE target - 1

RenderFrom(m, n) == [m EXCEPT !.cpu.bus.uvi.renderFrom = n]

RunFrames(m, n) ==
    LET target == Frames(m) + n
    IN  Enter(RenderFrom(m, Mark(m, target)), "frames", target)

RunClocks(m, n) == Enter(m, "clocks", Clocks(m) + n)

More(m) ==
    IF m.call.kind = "frames" THEN Frames(m) < m.call.target
    ELSE Clocks(m) < m.call.target

Limit(m) == IF m.call.kind = "frames" THEN Huge ELSE m.call.target

AtBreak(m) == ~m.call.first /\ m.cpu.pc \in m.breaks

Finished(m) == ~More(m) \/ (~Fast(m) /\ AtBreak(m))

\* One turn of the loop of run_while.
Turn(m) ==
    LET After(stepped) ==
            IF Fast(m) /\ stepped.cpu.pc <= m.cpu.pc /\ More(stepped)
            THEN IdleCheck(stepped, m.cpu.pc, Limit(m))
            ELSE stepped
    IN  After(Step([m EXCEPT !.call.first = FALSE]))

\* run_frames draws every frame again from here on.
Return(m) ==
    LET from == IF m.call.kind = "frames" THEN 0 ELSE m.cpu.bus.uvi.renderFrom
    IN  [RenderFrom(m, from) EXCEPT !.call = Nothing]

=============================================================================
