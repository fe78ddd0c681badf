------------------------------- MODULE S2650 -------------------------------
(***************************************************************************)
(* The bare 2650 of the Python package: a CPU over 32 KiB of flat RAM, and *)
(* a host that drives its SENSE and INTREQ inputs, resets it and runs it.  *)
(* Beside it runs a twin that is never interrupted: it executes an         *)
(* instruction when the CPU executes one of the main program, and a HALT   *)
(* of it ends when an interrupt wakes the CPU.                             *)
(***************************************************************************)
EXTENDS Bytes

CONSTANTS
    Image,         \* what the RAM holds, by address; 0 elsewhere
    Vectors,       \* the bytes the host sets for interrupt acknowledge
    Budgets,       \* the max_clocks of the host's run calls
    StopPcs,       \* and the stop_pcs
    MaxClocks,     \* bound: clocks at which the host makes no more calls
    MaxInputs      \* bound: changes of INTREQ and SENSE, and resets

ASSUME S2650Assumption ==
    /\ DOMAIN Image \subseteq Address /\ Image \in [DOMAIN Image -> Byte]
    /\ Vectors \subseteq Byte /\ Budgets \subseteq Nat /\ StopPcs \subseteq Address
    /\ MaxClocks \in Nat /\ MaxInputs \in Nat

-----------------------------------------------------------------------------
(* FlatBus.                                                                *)

FlatRead(b, a) ==
    [v |-> IF a \in DOMAIN b.mem THEN b.mem[a] ELSE 0, bus |-> b]
FlatWrite(b, a, v) ==
    [b EXCEPT !.mem = [x \in DOMAIN b.mem \cup {a} |-> IF x = a THEN v ELSE b.mem[x]]]
FlatSense(b) == [v |-> b.sense, bus |-> b]
FlatFlag(b, level) == [b EXCEPT !.flag = level]
FlatIntAck(b) == b.intack

\* The CPU, with what is proved of it over any bus.
C == INSTANCE CpuProofs WITH BusRead <- FlatRead, BusWrite <- FlatWrite,
        BusSense <- FlatSense, BusFlag <- FlatFlag, IntAck <- FlatIntAck

VARIABLES
    cpu,           \* the CPU and its bus
    calm,          \* the twin
    call,          \* the run in progress: its target and stops
    result,        \* why the last run returned
    inputs         \* host inputs made

vars == <<cpu, calm, call, result, inputs>>

NoCall == [target |-> 0, stops |-> {}, first |-> FALSE]

\* A fresh object, its RAM loaded and its acknowledge byte set by the host.
Init ==
    /\ \E v \in Vectors :
         cpu = C!NewCpu([mem |-> Image, sense |-> 0, flag |-> 0, intack |-> v])
    /\ calm = cpu
    /\ call = NoCall
    /\ result = "none"
    /\ inputs = 0

Running == call # NoCall
Accepts(s) == s.irq /\ Bit(s.psu, C!II) = 0
Handling(s) == Bit(s.psu, C!II) = 1

\* The CPU executes an instruction, enters the handler or idles in HALT.
Execute ==
    /\ cpu' = C!CpuStep(cpu).s
    /\ calm' = IF Accepts(cpu) THEN [calm EXCEPT !.halted = FALSE]
               ELSE IF Handling(cpu) THEN calm
               ELSE C!CpuStep(calm).s

-----------------------------------------------------------------------------
(* The host: between runs, as a run holds the object.                      *)

Input(s, t) ==
    /\ ~Running
    /\ inputs < MaxInputs
    /\ inputs' = inputs + 1
    /\ cpu' = s
    /\ calm' = t
    /\ result' = "none"
    /\ UNCHANGED call

SetIrq(level) == Input([cpu EXCEPT !.irq = level], calm)
SetSense(level) == Input([cpu EXCEPT !.bus.sense = level], [calm EXCEPT !.bus.sense = level])
SetIntack(v) == Input([cpu EXCEPT !.bus.intack = v], [calm EXCEPT !.bus.intack = v])

\* Only the CPU is reset: memory and the bus's latches are kept.
Reset == Input(C!CpuReset(cpu), C!CpuReset(cpu))

Step ==
    /\ ~Running
    /\ cpu.clocks < MaxClocks
    /\ Execute
    /\ result' = "none"
    /\ UNCHANGED <<call, inputs>>

Run(budget, stops) ==
    /\ ~Running
    /\ cpu.clocks < MaxClocks
    /\ call' = [target |-> cpu.clocks + budget, stops |-> stops, first |-> TRUE]
    /\ UNCHANGED <<cpu, calm, result, inputs>>

-----------------------------------------------------------------------------
(* One turn of the loop of run.                                            *)

\* Faulty Verdict: the budget is tested before HALT.
VerdictClocksFirst ==
    IF cpu.clocks >= call.target THEN "clocks"
    ELSE IF cpu.halted /\ ~Accepts(cpu) THEN "halt"
    ELSE IF ~call.first /\ cpu.pc \in call.stops THEN "pc"
    ELSE "go"

\* Why the loop returns instead, tested in the order of the source.
Verdict ==
    IF cpu.halted /\ ~Accepts(cpu) THEN "halt"
    ELSE IF cpu.clocks >= call.target THEN "clocks"
    ELSE IF ~call.first /\ cpu.pc \in call.stops THEN "pc"
    ELSE "go"

RunTurn ==
    /\ Running /\ Verdict = "go"
    /\ Execute
    /\ call' = [call EXCEPT !.first = FALSE]
    /\ UNCHANGED <<result, inputs>>

RunReturn ==
    /\ Running /\ Verdict # "go"
    /\ result' = Verdict
    /\ call' = NoCall
    /\ UNCHANGED <<cpu, calm, inputs>>

Next ==
    \/ Step
    \/ \E budget \in Budgets, stops \in SUBSET StopPcs : Run(budget, stops)
    \/ RunTurn
    \/ RunReturn
    \/ \E level \in BOOLEAN : SetIrq(level)
    \/ \E level \in {0, 1} : SetSense(level)
    \/ \E v \in Vectors : SetIntack(v)
    \/ Reset

Spec == Init /\ [][Next]_vars

-----------------------------------------------------------------------------
\* Bits 3 and 4 of PSU do not exist: no instruction sets them, and SENSE is
\* never stored.
TypeOK ==
    /\ cpu.pc \in Address
    /\ cpu.r \in [0 .. 6 -> Byte]
    /\ cpu.psl \in Byte
    /\ cpu.psu \in Byte /\ AndBits(cpu.psu, C!UNUSED + C!SENSE) = 0
    /\ cpu.ras \in [0 .. 7 -> Address]
    /\ \A a \in DOMAIN cpu.bus.mem : a \in Address /\ cpu.bus.mem[a] \in Byte
    /\ result \in {"none", "halt", "clocks", "pc"}

\* Outside the handler the main program is where it would be had there been no
\* interrupt: an interrupt at any instruction boundary, or in a HALT, returns to
\* the instruction that was next, with the stack and the other registers as
\* they were.  (The handler of the image changes R2 only.)
MainUndisturbed ==
    ~Handling(cpu) =>
        /\ cpu.pc = calm.pc
        /\ cpu.psl = calm.psl
        /\ cpu.halted = calm.halted
        /\ C!SP(cpu) = C!SP(calm)
        /\ \A i \in 0 .. 6 \ {2} : cpu.r[i] = calm.r[i]
        /\ \A i \in 1 .. C!SP(cpu) : cpu.ras[i] = calm.ras[i]
        /\ cpu.bus = calm.bus

\* INTREQ held high does not nest the handler in itself: it is one level deeper
\* on the return stack than the program it interrupted, never two.
HandlerNotNested ==
    Handling(cpu) => C!SP(cpu) = (C!SP(calm) + 1) % 8 /\ cpu.ras[C!SP(cpu)] = calm.pc

\* run stops for the reason it gives, and on "clocks" no more than one
\* instruction late; a CPU that is halted is reported so whatever the budget.
RunVerdict ==
    [][ RunReturn =>
          /\ result' = "halt"   <=> cpu.halted /\ ~Accepts(cpu)
          /\ result' = "pc"     => cpu.pc \in call.stops /\ cpu.clocks < call.target
          /\ result' = "clocks" => cpu.clocks \in call.target .. call.target + 17 ]_vars

=============================================================================
