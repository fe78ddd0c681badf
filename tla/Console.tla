------------------------------ MODULE Console ------------------------------
(***************************************************************************)
(* One machine and its host: runs, breakpoints, coverage, the fast switch  *)
(* and resets in any order.  The machine, its CPU executing a cartridge    *)
(* byte by byte and its raster counting lines, is shown to implement       *)
(* RunLoop, which knows neither program nor raster.                        *)
(***************************************************************************)
EXTENDS Machine

CONSTANTS
    Carts,         \* the cartridges to run
    Pcs,           \* the addresses the cartridges run through
    Breaks,        \* those of them the host sets breakpoints at
    FrameCalls,    \* the n of its run_frames(n)
    ClockCalls,    \* the n of its run_clocks(n)
    MaxCost,       \* the dearest instruction, in clocks
    MaxClocks,     \* bound: clocks at which no more calls are made
    MaxInputs      \* bound: changes the host makes between runs

ASSUME ConsoleAssumption ==
    /\ \A cart \in Carts : \A o \in DOMAIN cart : cart[o] \in Byte
    /\ Breaks \subseteq Address
    /\ FrameCalls \subseteq Nat /\ ClockCalls \subseteq Nat
    /\ MaxCost \in Nat /\ MaxCost >= 18 /\ MaxCost * ClocksDen <= Lines * ClocksNum
    /\ MaxClocks \in Nat

VARIABLES
    machine,
    stop,          \* why the last run returned and what its target was
    inputs         \* host changes made

vars == <<machine, stop, inputs>>

NoCall == [kind |-> "none", target |-> 0, first |-> FALSE]
NoStop == [why |-> "none", target |-> 0]

Init ==
    /\ \E cart \in Carts : machine = NewMachine(cart, TRUE, TRUE)
    /\ stop = NoStop
    /\ inputs = 0

HostSets(m) ==
    /\ ~Running(machine)
    /\ inputs < MaxInputs
    /\ inputs' = inputs + 1
    /\ machine' = m

Breakpoint(a, enabled) ==
    /\ HostSets(SetBreakpoint(machine, a, enabled))
    /\ UNCHANGED stop

ClearAll ==
    /\ HostSets(ClearBreakpoints(machine))
    /\ UNCHANGED stop

Coverage(enabled) ==
    /\ HostSets(SetCoverage(machine, enabled))
    /\ UNCHANGED stop

FastSwitch(on) ==
    /\ HostSets([machine EXCEPT !.fast = on])
    /\ UNCHANGED stop

Reset ==
    /\ HostSets(ResetMachine(machine))
    /\ stop' = NoStop

SingleStep ==
    /\ Clocks(machine) < MaxClocks
    /\ HostSets(Step(machine))
    /\ stop' = NoStop

Call(m) ==
    /\ ~Running(machine)
    /\ Clocks(machine) < MaxClocks
    /\ machine' = m
    /\ stop' = NoStop
    /\ UNCHANGED inputs

MachineTurn ==
    /\ Running(machine) /\ ~Finished(machine)
    /\ machine' = Turn(machine)
    /\ UNCHANGED <<stop, inputs>>

MachineReturn ==
    /\ Running(machine) /\ Finished(machine)
    /\ machine' = Return(machine)
    /\ stop' = [ why    |-> IF More(machine) THEN "breakpoint" ELSE machine.call.kind,
                 target |-> machine.call.target ]
    /\ UNCHANGED inputs

Next ==
    \/ MachineTurn
    \/ MachineReturn
    \/ \E n \in FrameCalls : Call(RunFrames(machine, n))
    \/ \E n \in ClockCalls : Call(RunClocks(machine, n))
    \/ \E a \in Breaks, enabled \in BOOLEAN : Breakpoint(a, enabled)
    \/ ClearAll
    \/ \E on \in BOOLEAN : Coverage(on) \/ FastSwitch(on)
    \/ Reset
    \/ SingleStep

Spec == Init /\ [][Next]_vars

-----------------------------------------------------------------------------
TypeOK ==
    /\ machine.cpu.pc \in Pcs
    /\ machine.breaks \subseteq Breaks
    /\ machine.nbreak \in Nat
    /\ machine.acc \in 0 .. ClocksNum - 1
    /\ machine.cpu.bus.uvi.renderFrom \in Nat
    /\ \A a \in DOMAIN machine.cov.count : a \in Pcs /\ machine.cov.count[a] \in 1 .. 255
    /\ stop \in [why : {"none", "frames", "clocks", "breakpoint"}, target : Nat]

\* When run_frames has completed its frames, frame() shows the last of them,
\* but for the lines of the next that the last instruction ran into: no row is
\* left over from an earlier frame, although the fast path leaves most undrawn.
PictureComplete ==
    LET u == machine.cpu.bus.uvi
    IN  stop.why = "frames" /\ u.frames > 0 =>
            \A y \in DOMAIN u.frame :
                u.frame[y].frame = IF y < u.line THEN u.frames ELSE u.frames - 1

\* Whatever it runs, the machine keeps what RunLoop promises a host.
Promise == INSTANCE RunLoopProofs WITH
    FrameClocks <- Lines * ClocksNum,
    pc <- machine.cpu.pc, clocks <- Clocks(machine),
    breaks <- machine.breaks, nbreak <- machine.nbreak,
    fast <- machine.fast, cov <- machine.cov.on,
    call <- IF Running(machine) THEN machine.call ELSE NoCall

ImplementsRunLoop == Promise!Spec

=============================================================================
