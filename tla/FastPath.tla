------------------------------ MODULE FastPath ------------------------------
(***************************************************************************)
(* The promise of the fast path: two machines with the same cartridge are  *)
(* given the same calls, one of them with `fast` set and one without.  The *)
(* machines do not interact, so one order of their turns stands for all:   *)
(* the fast machine takes a turn when the two clocks are equal, and the    *)
(* plain machine then steps until it has caught up.                        *)
(***************************************************************************)
EXTENDS Machine

CONSTANTS
    Carts,         \* the cartridges to run
    FrameCalls,    \* the n of the host's run_frames(n)
    ClockCalls,    \* the n of its run_clocks(n)
    Pokes,         \* the <<address, byte>> it pokes between calls
    Panels,        \* the masks it sets the panel to between calls,
    KeyMasks,      \* those of the first player's keypad,
    Paddles,       \* and the places of its paddle, Y axis
    MaxCalls,      \* bound: run_frames and run_clocks calls
    MaxInputs,     \* bound: pokes, changes of the controls, resets and single steps
    MaxFrames      \* bound: frames completed when the last call is made

VARIABLES
    plain,         \* the machine with fast = false
    fast,          \* the machine with fast = true
    calls,         \* run calls made
    inputs         \* host inputs made

vars == <<plain, fast, calls, inputs>>

Init ==
    \E cart \in Carts, pal \in BOOLEAN :
        /\ plain = NewMachine(cart, pal, FALSE)
        /\ fast = NewMachine(cart, pal, TRUE)
        /\ calls = 0
        /\ inputs = 0

Idle == ~Running(plain) /\ ~Running(fast)

CallBounds ==
    /\ Idle
    /\ calls < MaxCalls
    /\ Frames(plain) < MaxFrames
    /\ calls' = calls + 1
    /\ UNCHANGED inputs

CallFrames(n) ==
    /\ CallBounds
    /\ plain' = RunFrames(plain, n)
    /\ fast' = RunFrames(fast, n)

CallClocks(n) ==
    /\ CallBounds
    /\ plain' = RunClocks(plain, n)
    /\ fast' = RunClocks(fast, n)

FastTurn ==
    /\ Running(fast) /\ ~Finished(fast)
    /\ Clocks(plain) = Clocks(fast)
    /\ fast' = Turn(fast)
    /\ UNCHANGED <<plain, calls, inputs>>

PlainTurn ==
    /\ Running(plain) /\ ~Finished(plain)
    /\ Clocks(plain) < Clocks(fast)
    /\ plain' = Turn(plain)
    /\ UNCHANGED <<fast, calls, inputs>>

BothReturn ==
    /\ Running(plain) /\ Finished(plain)
    /\ Running(fast) /\ Finished(fast)
    /\ plain' = Return(plain)
    /\ fast' = Return(fast)
    /\ UNCHANGED <<calls, inputs>>

\* Host input is applied between runs, to both machines.
Input(Op(_)) ==
    /\ Idle
    /\ inputs < MaxInputs
    /\ inputs' = inputs + 1
    /\ plain' = Op(plain)
    /\ fast' = Op(fast)
    /\ UNCHANGED calls

HostPoke(a, v) == Input(LAMBDA m : [m EXCEPT !.cpu.bus = Poke(@, a, v)])
HostPanel(mask) == Input(LAMBDA m : SetPanel(m, mask))
HostKeys(mask) == Input(LAMBDA m : SetKeys(m, 0, mask))
HostPaddle(v) == Input(LAMBDA m : SetPaddle(m, 0, 0, v))
HostReset == Input(ResetMachine)
HostStep == Input(Step)

Next ==
    \/ \E n \in FrameCalls : CallFrames(n)
    \/ \E n \in ClockCalls : CallClocks(n)
    \/ FastTurn
    \/ PlainTurn
    \/ BothReturn
    \/ \E p \in Pokes : HostPoke(p[1], p[2])
    \/ \E mask \in Panels : HostPanel(mask)
    \/ \E mask \in KeyMasks : HostKeys(mask)
    \/ \E v \in Paddles : HostPaddle(v)
    \/ HostReset
    \/ HostStep

Spec == Init /\ [][Next]_vars

-----------------------------------------------------------------------------
\* All a host can read from a machine between two instructions, but for the
\* picture and the count of illegal opcodes.
Observable(m) ==
    LET s == m.cpu
        b == s.bus
    IN  [ registers |-> <<s.r, s.psl, s.psu, s.pc, s.ras>>,
          inputs    |-> <<s.halted, s.irq, b.ce, b.uvi.pots>>,
          clocks    |-> <<s.clocks, m.acc>>,
          flag      |-> b.flag,
          rom       |-> b.rom,
          uvi       |-> [b.uvi EXCEPT !.frame = {}, !.renderFrom = 0] ]

Picture(m) == m.cpu.bus.uvi.frame

TypeOK ==
    /\ \A m \in {plain, fast} :
          /\ m.cpu.pc \in Address
          /\ m.cpu.r \in [0 .. 6 -> Byte]
          /\ m.cpu.psl \in Byte /\ m.cpu.psu \in Byte
          /\ m.cpu.ras \in [0 .. 7 -> Address]
          /\ m.acc \in 0 .. ClocksNum - 1
          /\ m.cpu.bus.uvi.line \in 0 .. Lines - 1
          /\ m.cpu.bus.reads \subseteq {"sense", "charline", "volatile"}
          /\ \A o \in DOMAIN m.cpu.bus.uvi.mem : m.cpu.bus.uvi.mem[o] \in Byte
    /\ plain.idle = Nothing
    /\ calls \in 0 .. MaxCalls
    /\ inputs \in 0 .. MaxInputs

\* A skip ends where an instruction of the plain machine ends: catching up, it
\* never goes past the fast machine's clock and never returns before it.
NeverOvershoots ==
    /\ Clocks(plain) <= Clocks(fast)
    /\ Running(plain) /\ Finished(plain) =>
          Clocks(plain) = Clocks(fast) /\ Finished(fast)

\* lib.rs:229: results are identical either way.  Whenever the clocks agree, so
\* do the registers, memory, latches, beam position and FLAG.
Indistinguishable ==
    Clocks(plain) = Clocks(fast) => Observable(plain) = Observable(fast)

\* ... and when a call has returned, every pixel, though the fast machine did
\* not draw the frames before the last.
SamePicture == Idle => Picture(plain) = Picture(fast)

=============================================================================
