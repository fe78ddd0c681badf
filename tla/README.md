# pyvacs: a TLA+ model of a 2650 toolchain and console emulator

pyvacs is an assembler and disassembler for the Signetics 2650 (Python) and an
emulator of the consoles built on it, the Fountain Force 2 and the Emerson
Arcadia 2001 (Rust, under `src/crates`). These modules specify the emulator, its
CPU, its video chip, its raster scheduler, and above all its *fast path*, which
skips idle loops and undrawn frames and promises that nobody can tell; and the
toolchain, its two passes, its expressions and its round trip, and that the
instruction set it assembles for is the one the CPU executes.

Paths are relative to the repository root, which is `src/` here.

## 1. Inventory

| Part | State | Operations | Hard behaviour |
|---|---|---|---|
| **2650 CPU** `crates/s2650/src/cpu.rs` | registers in two banks, PSL, PSU, pc, return stack, `halted`, `irq`, clocks, count of undefined opcodes | `step` (an instruction, an interrupt entry or a halted cycle), `reset` | interrupts between any two instructions; PSU shared by stack pointer, II, FLAG and SENSE; page wrap |
| **Bus** `crates/s2650/src/bus.rs` | `FlatBus`: 32 KiB, SENSE, FLAG, intack | `read`, `write`, `sense`, `flag`, `intack` called by the CPU | FLAG is reported on change only |
| **UVI (2637)** `crates/s2650/src/uvi.rs` | window, beam line, frame count, framebuffer, values latched at line 0, horizontal shift, collision latches, `render_from` | `line`, `read`, `write`, `stable_lines`, `reset` | some registers latched at line 0, others live; read-to-clear latches; the horizon arithmetic |
| **Machine** `crates/fforce2/src/lib.rs` | CPU, board, `acc`, the idle checkpoint, `fast`, breakpoints and their count, coverage | `step`, `advance`, `run_frames`, `run_clocks`, breakpoints, coverage, host inputs, `reset` | `count_loop` and `idle_check` skip whole iterations; frames before the last are not drawn |
| **Bindings** `crates/pyvacs-emu/src/lib.rs` | a CPU with a flat bus, or a machine | `S2650.run`, getters and setters; the machine's calls | calls hold the object: the host acts between runs only |
| **numpy front end** `src/pyvacs/emu.py` | none | conversions, a pool of independent machines | none: machines share nothing |
| **Assembler** `src/pyvacs/assembler.py` | symbols, location counter, segments, pass | two passes over the lines; directives, operand readers | pass 1 sees forward references as 0; symbols survive from pass to pass |
| **Lexer and expressions** `src/pyvacs/lexer.py` | a position in the tokens | recursive descent over six levels of operators | precedence, rounding, undefined symbols |
| **Tables and encoder** `src/pyvacs/isa.py` | none | encode, decode table | must be the CPU's instruction set |
| **Disassembler** `src/pyvacs/disassembler.py` | none | decode, verify by reassembly | the round trip of a listing |
| **Command line** `src/pyvacs/cli.py` | none | files in and out | none |

They interact by calls: the host calls a run; its loop steps the CPU; the CPU
calls the bus (the board), which reads and writes the UVI and takes notes (how
many *effects*, which time-varying inputs were *read*); the clocks of the
instruction drive the UVI a line at a time; after a backward jump `idle_check`
compares the CPU with its last checkpoint and, the notes and the UVI's horizon
permitting, lets time pass without instructions. There are no threads inside a
machine; the interleavings that matter are between program, beam and host.

What makes each part correct:

- scheduler: the beam is a function of the clock, however time was grouped;
- UVI: the horizon never promises too much; collisions and latches do not
  depend on whether the frame is drawn; CHARLINE follows its sequence;
- CPU: interrupts leave the program undisturbed; SENSE is never stored;
- fast path: skipping is unobservable, and stops where an instruction would;
- runs: they stop on target, for the reason given, at breakpoints, and return;
- instruction set: the bytes that are an instruction, their length, the address
  they name and where they go are the same to the tools and to the CPU;
- assembler: what pass 1 knew pass 2 has again, names, locations and lengths;
  an expression means what it says; the binary holds what was emitted last;
- disassembler: the listing of a binary, assembled, is the binary.

PROJECT.json lists the hazards, each at its line, with the properties that
watch it or the reason none does yet.

## 2. Modules

| Module | Models | Uses |
|---|---|---|
| `Bytes` | bytes, bits by mask, two's complement | |
| `BeamClock` | the ideal raster clock (abstract) | |
| `Raster` | the loops of `step` and `advance`, one `Uvi::line` call per step | refines `BeamClock` |
| `RasterProofs` | theorems about `Raster` | `Raster`, TLAPS |
| `Uvi` | the UVI as operators on a record | `Bytes` |
| `UviProofs` | the operators of `Uvi`: widths, the horizon, drawn against undrawn | `Uvi`, TLAPS |
| `UviBeam` | a UVI under a CPU that writes and reads at any line, beside a twin that leaves frames undrawn | `Uvi` |
| `UviBeamProofs` | theorems about `UviBeam` | `UviBeam`, `UviProofs` |
| `Cpu` | every opcode, as operators on a CPU-with-bus record; the bus operators are parameters, as the `Bus` trait is | `Bytes` |
| `CpuProofs` | one step of `Cpu`, over any bus | `Cpu`, TLAPS |
| `S2650` | the bare CPU on flat RAM, its host, and a twin that is never interrupted | `CpuProofs` |
| `S2650Proofs` | theorems about `S2650` | `S2650`, TLAPS |
| `Board` | the memory map and the notes | `Uvi` |
| `Machine` | the console as operators on a record; `Turn` is one turn of the loop of `run_while` | `Board`, `CpuProofs` |
| `FastPath` | two machines in lockstep, one with `fast` | `Machine` |
| `RunLoop` | what a run promises, whatever the program (abstract) | |
| `RunLoopProofs` | theorems about `RunLoop` | `RunLoop`, TLAPS |
| `Console` | one machine and its host | `Machine`, refines `RunLoop` (as `RunLoopProofs`) |
| `ConsoleProofs` | the machine's operators, theorems about `Console` | `Console`, `UviProofs` |
| `Isa` | the instruction table, the encoder and the operands the disassembler shows | `Bytes` |
| `Instruction` | a few instructions on the CPU over recording RAM, held against `Isa` and against numbers | `Isa`, `CpuProofs` |
| `InstructionProofs` | theorems about `Instruction` | `Instruction`, TLAPS |
| `Tokens` | the tokens of a source line | |
| `Expressions` | the expression evaluator | `Tokens` |
| `Assembler` | the two passes, as operators on a record; the evaluator is a parameter | `Isa`, `Tokens` |
| `Disassembler` | a line of the listing, verified by assembling it | `Assembler` |
| `Toolchain` | a source written, assembled line by line in two passes, disassembled, assembled again | `Disassembler`, `Expressions` |
| `MCInstruction`, `MCToolchain`, `MCRaster`, `MCUviBeam`, `MCS2650`, `MCFastPath`, `MCConsole` | instances: cartridges, images, inputs | |

Correspondence. A method `f(&mut self, x)` of a Rust type is an operator
`F(record, x)` that returns the record afterwards (and the value, in a record
with it, if there is one). So a whole `Machine` is one value, and a
specification may hold one or compare two. The exceptions are `Raster` and
`RunLoop`, which are state machines in the plain style, one variable per field.
A module that instantiates `Cpu` or `RunLoop` takes the module of its theorems,
so that they come with it: `C!StepType`, `Promise!RunsStopOnTarget`. A `Machine::run_*` call is split into entry,
turns of its loop, and return; what the host may do between runs are actions
that require no run in progress, because a call borrows the object exclusively
(`py.detach` releases the interpreter lock but not the object).

Abstractions. A drawn row of the framebuffer is the record of what it was drawn
from (`RowOf`: frame number, field row, shift, palettes, live sprites,
inversion) and not its pixels: enough to tell a stale row from a fresh one. The
glyphs are a parameter (`Font`), the sprite and field columns that collisions
depend on are computed. The breakpoint bitmap is a set; a window byte never
written is absent from the function and reads 0. `u64::MAX` is a number out of
reach (`Huge`). Bytes, pc and the skip arithmetic are exact; unbounded counters
are integers, and `AccBounded` is the reason `acc` may be one.

A line of source is its tokens and whether it begins in column 0; how text becomes
tokens is left out, and a mnemonic is the token of its base opcode (one to one).
Errors keep the place they are raised at and lose their wording. Integers are
unbounded, as Python's are. A quotient of numbers of different sign, and the
remainder computed from it, goes through a float (lexer.py:373): the nearest one to
the quotient, less its fraction, or an error where there is none (`FloatQuotient`).
Its 53 bits and its limit 2^1024 are the constants `FloatBits` and `FloatTop`. The
one thing text decides is an address below 0,
which the disassembler prints as `$-008` and the assembler reads as an
expression: `NegativeAddress` is what it reads. `Assembler` takes the evaluator as a
constant, so that the module is free of recursion; `Toolchain` instantiates it
with `Evaluate`. As a check of the translation, the 35,928 sources of the
`toolchain` run were also given to the Python program: segments, symbols, start
address and listing agree, and so does which of them are in error, and why. (That is
with a float of 53 bits, and without the divisions at the edges of one of 10;
`FloatQuotient`, transcribed with 53 bits, gave Python's quotient for 400,000 pairs
of up to 130 bits.)

In several modules a definition `X` is preceded by a faulty variant of it, with
the comment "Faulty X": the mistake someone could make there. PROJECT.json
pairs each property with the fault it detects; no specification uses them.

## 3. Runs

| Run | Question | Bounds |
|---|---|---|
| `raster` | is the beam on time in both loops, between any two line calls? | 5 lines of 7/2 clocks, instructions up to 5 clocks, skips up to 9 (none, one, several lines, a frame end), clocks to 80, several frames and every remainder; resets |
| `run_loop` | do runs stop where they should, honour breakpoints and return? | 2 addresses, instructions of 1 to 3 clocks, frames of 5.5, calls for 0 to 2 frames and 0 or 5 clocks |
| `uvi` | is every horizon right on every later line and in hindsight; do undrawn frames collide as drawn ones do? | 12 lines, 3 VRST. Scene 1: rows of 4 or 2 lines, 2 or 4 rows, VSCROLL 0 to 8, three register writes anywhere in two frames. Scene 2: two of the four sprites over solid cells; shift, sizes, places, row height rewritten, two writes |
| `fast_path` | can anyone tell the fast path? | 12 cartridges, both regions, 14 lines at the real 227/4 clocks, two runs of 1 or 3 frames or 57 or 300 clocks, one host action between them |
| `console` | does the machine keep the promises of `RunLoop`? | 2 cartridges, breakpoints at 2 addresses, two host actions between runs, calls for 0 or 2 frames or 100 clocks |
| `s2650` | does an interrupt anywhere disturb the program? | INTREQ, SENSE, the acknowledge byte (a direct vector, or one through a pointer), reset: four changes anywhere in 130 clocks (two rounds of the program), runs of 0 or 50 clocks, every set of stops |
| `instruction` | are the tools' and the CPU's instruction set one; does the CPU's arithmetic compute? | every opcode with 14 second and 3 third bytes at 7 addresses around page ends, two register files, three PSL; 16-bit sums and differences of all pairs of 64 words, decimal ones of all pairs of 0 to 99, all bytes compared with 8, rotated 8 and 9 times |
| `toolchain` | do the passes agree, do expressions mean what they say, does the listing give the binary again? | five menus of lines: layout (6 places, 8,640 programs of ORG, EQU, SET, DS, forward and backward names, redefined EQ, END); data (every opcode at 0, 3 bytes before two page ends, at the top; 12 operand pairs); forms (an instruction of each of the 17 modes, 11 by 8 by 8 ways to write its operands); directives (30 by 11 arguments); expressions (every pair of operators in both shapes, every prefix operator in every place, over three sets of numbers; quotients and remainders below 0 of 22 dividends by 8 divisors, with floats of 10 bits less than 2^12) |
| `fast_halt`, `fast_scroll` | counterexamples, see section 6 | one cartridge each, bounds as above |
| `instruction_zbr`, `toolchain_stale` | counterexamples, see section 6 | as `instruction`; 3 lines, each a load, an EQU to a name, an EQU to a number or blank |

Why these bounds. The scaled rasters keep the real clocks per line (or a ratio
with a remainder), at least one line of each kind, and a frame end within reach
of an instruction and of a skip; the horizon code compares lines with three
edges (field start, row edge, VRST), and VSCROLL 0 to 8 on 12 lines puts those
edges in every order. `FieldTop` is 255 as in the code for `fast_path` and
`console`, with VSCROLL values near 255 moving the field onto the raster. The
cartridges are those of `crates/fforce2/tests/fast.rs`, shortened, and others
for each thing a loop may depend on: SENSE, CHARLINE, collisions, the panel, a
key, a paddle, ROM the host pokes, a subroutine, HALT. In `FastPath` the two
machines do not interact, so the one order of turns explored (the fast machine
first, then the plain one until it has caught up) stands for all, and their
states are compared whenever their clocks agree. In `instruction` the addresses
include both sides of a page end because every address computation wraps
there, and the operand bytes the edges of each of their fields (displacement
sign, indirect bit, index control, page offset). In `toolchain` a name is used
before, on and after its definition, with one other definition that it depends
on or that moves it: two is where the placeholder of the first pass first
matters, and three would repeat it. TLC's integers have 32 bits, so the floats are
scaled as the raster is: the dividends lie on both sides of 2^10, where the
remainder begins to be lost, of the multiples of 2^10, where 3 - 1/1024 is rounded to
3, and of 2^12, where floats end. A raster of the real size is
not model-checked: nothing in the code depends on its size but the constants.

`console`, `fast_path`, `s2650`, `instruction`, `toolchain` and the four
counterexample runs set `CHECK_DEADLOCK FALSE`: when the bounds on calls, clocks
and host actions are used up the host does nothing more, a program has been
executed, a source assembled or refused: the end of a session and not a
deadlock. That a run cannot get stuck in mid-call is `CallsReturn` and, for the
two machines of `FastPath`, `NeverOvershoots`. The other runs check deadlock.

## 4. Fairness

Only `RunLoop!FairSpec` assumes any: weak fairness of `Turn`, the body of a loop
on the host's thread, which nothing but its own condition can stop. The host is
under none: it need never call. `CallsReturn` needs no more, because every
instruction, a halted cycle included, takes clocks, and both targets are
reached by clocks alone.

## 5. Proofs

Eight modules hold theorems. They are proved for every value of the constants:
every raster size and clock ratio, every cartridge and memory image, every
sequence of host calls. What each assumes is the `ASSUME` of the modules it
extends, which TLC evaluates for the instances; a hypothesis beyond those is
stated in the theorem.

**`RasterProofs`** (`TypeCorrect`, `BeamIsOnTime`, `AccIsBounded`,
`ClocksConserved`, `SchedulerImplementsBeamClock`). `BeamOnTime` speaks of the
state between instructions and is not inductive: the loops pass through states
where lines are owed. `Conservation` is what every step keeps: lines made plus
lines left to make, times clocks per line, plus the accumulator, is the clocks
elapsed. Each line call moves one line from owed to made (`LineWrapMovesBeam`),
and `advance`'s division and remainder split a sum that is kept (`Quotient`,
`Division`). `IInv` adds the types and the accumulator's bound. For the
refinement, lines owed are counted as made, so that the line calls are stutters
of the ideal clock (`OwedIsOnTime`).

**`RunLoopProofs`** (`TypeCorrect`, `BreakpointsCounted`, `RunsStopOnTarget`,
`BreakpointsHonoured`), with `MaxCost * ClocksDen <= FrameClocks`: an instruction
is shorter than a frame, 18 clocks against some 14,800. `StopsOnTarget` speaks
of a run that has returned; `CallBounded` adds what holds while it is in
progress: it has not overrun its target frame, nor its target clock by an
instruction or more. An instruction adds at most one frame (`OneFrame`), and is
executed only below the target; a skip stays within both (`InstructionBounded`).
`BreakpointsHonoured` follows from `BreaksCounted`: the fast path is taken only
with a count of 0, and then no breakpoint is set.

**`UviProofs`, `UviBeamProofs`** (`Invariance`, `TypeCorrect`, `Undrawn`,
`Redrawing`, `LookingAhead`, `LookingBack`, `CharlineCounts`). `UviProofs` is about
the operators: what one call of `line` keeps and changes (`LineKeeps`,
`LineType`), that the lines from here to the horizon `stable_lines` computes
show the same SENSE and CHARLINE (`Horizon`, by the blocks of lines a character
row is made of), and that chips alike but for their pictures stay alike
(`LineTwins`, with `RenderIs`: what drawing a line changes besides the row does
not depend on whether it is drawn). The invariant of `UviBeamProofs` has four
parts. `Typed` and `Twins` give `TypeOK` and `CollisionsAgree`. `PicturesAlike`
strengthens `PictureAgrees`, which speaks of whole frames, by the rows above
the beam in the frame being drawn. `Recorded` is what makes the two statements
about the horizon inductive: what was seen on an earlier line is what the chip
*as it is now* would show with its beam there; only on line 0, where VSCROLL
is read before it is latched, is it what the chip would show with some other
VSCROLL. That exception is the one `HindsightSound` makes, and the run
`fast_scroll` shows it is needed.

**`CpuProofs`** (`StepType`): over any bus that answers bytes, one `step` keeps
every register in its width, pc in 15 bits and PSU's unwired bits clear, and
takes 6 to 18 clocks. There is one lemma for each addressing mode and group of
instructions. The last clause is what `MaxCost` is in `Raster`, `RunLoop` and
`Console`; without `Psu` (bits 3 and 4 always 0) the invariant would not be
one of the code's, which masks them in `write_psu`. `AddIs`, `SubIs`, `ComIs`,
`DarIs` and `RotateIs` say what `add`, `sub`, `com`, `dar` and `rotate` leave in
the register and each flag, and the lemmas about `FlowKept` which operations leave
pc, the return stack and the count of undefined opcodes alone.

**`S2650Proofs`** (`Invariance`, `TypeCorrect`, `Verdicts`): the flat bus is such a
bus, for every image. `Bounded` (a run in progress is less than 18 clocks past
its target) is what `RunVerdict` needs beyond the types.

**`InstructionProofs`** (`Invariance`, `TypeCorrect`, `ProgressInvariance`,
`WideNumbers`, `Decimals`, `Comparisons`, `Rotations`, `Flows`, `Operands`): every
invariant the run `instruction` checks, for all operands. What TLC checks for 64
words, and for decimals, comparisons and rotations byte by byte, holds of all
words, decimals and bytes, at every address with ten bytes left in its page, and
whatever the rest of PSL and of the registers is. `KindsAssumption` says what
programs the suites of each kind hold; their code, and not its effect. The effect
comes from the interpreter: executing a step of `Cpu` on the code fetches the opcode and its
operand from RAM, decodes, and computes (`Immediately`, then `Adding`,
`Subtracting`, `Comparing`, `Adjusting` by the lemmas of `CpuProofs`). The
properties speak of a program that has ended; the inductive invariant `Progress`
says for each number of instructions left what has been computed so far, as in
`AddBegun`, `AddHalf`, `AddDone`: the low byte of the sum in R0, its carry in
PSL, the high byte of the first number still in R1. That these stages follow one
another is arithmetic: `WideSum`, `WideDifference`, `SignedOrder`, `DecimalSum`,
`DecimalDifference`. A rotation's stages are those of a ring of 8 bits, or of 9
with the carry: after i steps its upper and lower parts are exchanged
(`RotateStage`, by `Turned`), and after as many steps as it has bits it is whole
again.

`Flows` and `Operands` are about single instructions: every opcode, the bytes no
instruction claims included, every operand, register, flag and content of the
RAM, at every address (`Operands`: with the bytes of the instruction in one page,
which is where the tools and the CPU can agree). All that is assumed of such a
program is that its code is as long as its mode says. The argument has four
parts:

- The tables. Each opcode is claimed by one instruction and decoded to it
  (`Spots`), or by none (`Gap`), and there are no others (`Covered`).
- The CPU. What each group of instructions does to pc, the return stack and RAM is
  `Outcome`: it goes on, or branches, to the address of its operand, reads from
  there or writes there (`Follows`, `Reaches`). That an instruction goes on needs
  the lemmas of `CpuProofs` that its other effects leave pc and the stack alone.
- Addresses. `AddressOf` says for each mode where the CPU finds its operand, by
  `Deref`, `rel_ea`, `branch_ea` and `abs_ea`; `RelativeIs`, `AbsoluteIs` and
  `IndexedIs` that it is the address the tables show.
- The step. A single instruction has either not begun, or its outcome is that of a
  CPU that had just fetched its opcode (`SingleExecuting`, part of `Progress`).

**`ConsoleProofs`** (`Invariance`, `BeamOnTime`, `TypeCorrect`, `PicturesComplete`,
`Refinement`, `RunsStopOnTarget`, `BreakpointsHonoured`) is about the whole
machine, its program interpreted byte by byte, on both paths. Two assumptions
(`ConsoleAssumption`) hold the machine to its promise: an instruction costs at
most `MaxCost >= 18` and less than a frame. `TypeCorrect` and what follows from
`Refinement` ask that `Address` be among the addresses `Pcs`: the run names the
few its cartridges reach, so that TLC can enumerate `RunLoop`'s steps. The
argument:

- The board is a bus (`BoardBus`), so `StepType` holds of the machine's CPU.
  Reads and writes of the CPU leave beam and pictures alone (`UvisAroundIs`).
- `draw_lines` is a recursive function; what n lines do (`Drawing`) is shown by
  induction on n. The library's induction theorems take an operator as their
  parameter; `Induction`, which takes a set, is proved from the well-foundedness
  of the order of the naturals instead.
- `Ahead(m, k)`: clock = beam + accumulator + k. An instruction makes the clock
  run ahead of the beam, the loop of `step` brings it back (`k = 0`); a skip
  advances both. So `BeamOnTime` holds of the machine itself: however many
  iterations of an idle loop it skipped, no line is lost or drawn twice.
- `count_loop` and `idle_check` skip to no later than the limit of the call, and
  never past the end of a frame (`Checking`, `WithinFrame`): the numbers of
  iterations are quotients of what is left of either. The checkpoint lies in
  the past, strictly when it is checked (`PastCheckpoint`): the length of an
  iteration is positive, and the division defined.
- `PictureComplete` speaks of a run that has returned. `Undrawing` is what holds
  before: the mark is one frame short of the target, rows of that frame and
  later are fresh, and no breakpoint is set, so that the run can end in no
  other way. Between runs every row is (`Shown`): one frame after the mark, the
  beam has passed each of them.
- `Refinement`: each host call and turn is one of `RunLoop`'s, with the call as
  refinement mapping; a fast turn's end is in `Reach` by the bounds on skips.
  With the theorems of `RunLoopProofs` it follows that the machine's runs stop on
  target (`RunsStopOnTarget` says so of the UVI's own frame count) and honour
  breakpoints.

TLC checked the invariants on the instances of the runs before they were
proved, what it can evaluate of them.

Only model-checked:

- all liveness (`CallsReturn`): fairness and ENABLED are beyond the prover;
- `MainUndisturbed` and `HandlerNotNested`: true of programs whose handlers save
  what they use, as the run's does, and not of every image;
- `Indistinguishable`, `NeverOvershoots` and `SamePicture` of `FastPath`: false of
  some cartridges (section 6), so there is no theorem for all of them; what a
  proof would need is a class of programs that excludes those. What holds of
  all is in `ConsoleProofs`;
- the toolchain: `Expressions` is recursive, as the evaluator
  is, and the prover does not take a module with a RECURSIVE operator;
  `Assembler` and `Disassembler` are free of it.

A caution for whoever adds proofs: the prover's SMT encoding of an equality of
two CASE expressions is wrong (it compares first arms), so no statement here
equates two; where an operator is a CASE, there is an implication for each arm.

## 6. What the runs found

Four runs end in a counterexample, each against a sentence of the repository.

- `fast_halt` (lib.rs:434). With HALT in front of `BDRR,r $`, the halted CPU
  stands on the branch; `pc` has not moved, so `count_loop` counts the register
  of a loop that is not running. "Results are identical either way"
  (lib.rs:229-230) does not hold. `halted` is in neither the test nor the
  checkpoint.
- `fast_scroll` (lib.rs:445). A poll of CHARLINE that keeps no trace of what it
  read, and begins on line 0 between a VSCROLL write and its latching, is
  judged on its next pass by the new VSCROLL, as if its first had read that
  too. `HindsightSound` states the rest: from any other line the judgement is
  right.
- `instruction_zbr` (isa.py:230, disassembler.py:76). The tools take ZBRR and ZBSR to
  hold 6 bits of an address in $1FC0-$1FFF, the CPU (and its tests) a signed
  displacement of 7 bits from 0: `zbrr $1ffe` goes to $003E. `OperandReached`
  holds for all other instructions.
  Likewise a relative operand that leaves the 8K page: the tables show the
  unwrapped address and the CPU stays in the page. `bctr,un $2010` at $1FF0, shown
  so by the disassembler, goes to $0010; `Target`, and so `OperandReached`, wraps it.
- `toolchain_stale` (assembler.py:261). A name set by EQU to a name defined later
  has, on the lines before it, the placeholder 0 of pass 1: `loda,r0 x` /
  `x equ y` / `y equ $1234` loads from $0000, without an error. `SettledStay`
  and `OperandsFinal` state the rest: what pass 1 could know is right.

`fast_path` passes because none of its cartridges is one of the first two.

Noticed and not made a run: `CpuReset` also forgets the INTREQ level, an input;
`effects` (lib.rs:169) is never reset off the fast path and would overflow after
2^32 writes; `run_frames(0)` at frame 0 computes `0 - 1` (lib.rs:497), and these two panic in
a debug build only (`Mark` models the wrapped value); undefined opcodes in
skipped iterations are not counted in `illegal` (lib.rs:454), so `Observable`
leaves the count out; `S2650.reset` clears PSU and leaves the FLAG output as it was
(pyvacs-emu lib.rs:38), as does the setter of `psu`. In the toolchain:

- where ORG, DS or DBFILL depend on a name defined later, or on a redefined
  predefined one, the passes lay the program out differently, and earlier
  lines keep the first pass's labels;
- DB, DW, DS and division test the placeholder of pass 1: `db tab-300` or
  `10/lab` before the label is an error although the value is in range;
- division is said to round toward zero (tests/test_lexer.py:99), and does while the
  dividend fits a float; `(1-(3<<60))/(1<<60)`, just above -3, is -3 and its MOD is 1,
  and a quotient past 2^1024 raises OverflowError, which is no ValueError and so leaves
  the assembler as a traceback. `ExpressionsMean` states what holds: exact up to
  dividends of 2^53, beyond them to the float's last bit;
- a second SET of a name is a duplicate symbol, as the name is first defined as
  a label; predefined condition names may be redefined any number of times;
- a DB item is evaluated again after its bytes are emitted, to find its end:
  `db 10/(1-$),1` at 0 divides by zero the second time; `db 'A'+1` is two items;
- a relative branch too far wraps to 7 bits without an error;
- the condition of BSNA and BSNR is a register to the CPU: `bsna,r1` is refused
  and `bsna,gt` says it;
- `ds 0` makes an empty segment, which counts for the origin;
- a program at an address below -159 has a listing that does not assemble, as
  `org $-0C8` is no number; `RoundTrip` speaks of addresses only.

## 7. Not modelled

Pixel colours within a row, `tone_hz`, RGB conversion and PNG; the conversions of
the bindings and the setter of a bare CPU's `psu`; how source text
becomes tokens and a listing's address and hex columns; the command line; the
numpy front end (machines in its pool share nothing).

## 8. Plan

The modules planned are written. What is left is to prove more of what is
checked: that what the assembler encodes is what the disassembler shows
(`Isa`), the length of what `Encode` returns, and from it that both passes of
`Assembler` count the same (`SettledStay`).
