---------------------------- MODULE S2650Proofs ----------------------------
(***************************************************************************)
(* What is proved of the bare 2650 for every memory image, every vector    *)
(* and every budget and stop of the host's runs.                           *)
(***************************************************************************)
EXTENDS S2650, TLAPS

\* The flat bus: memory that may hold any bytes, and its latches.
Memories == UNION {[D -> Byte] : D \in SUBSET Address}
Flats == [mem : Memories, sense : {0, 1}, flag : {0, 1}, intack : Byte]

\* A CPU on it, whatever its clock.
IsCpu(s) == s.clocks \in Nat /\ s \in C!Cpus(Flats, s.clocks)

\* The bytes and addresses of the CPU are those of the board.
LEMMA Same ==
    /\ C!Byte = Byte /\ C!Address = Address
    /\ \A v, m : C!Bit(v, m) = Bit(v, m)
    /\ \A v, m : C!AndBits(v, m) = AndBits(v, m)
<1>1. C!Byte = Byte /\ C!Address = Address
  BY SMT DEF C!Byte, Byte, C!Address, Address
<1>2. \A v, m : C!Bit(v, m) = Bit(v, m)
  BY DEF C!Bit, Bit
<1>3. \A v, m : C!AndBits(v, m) = AndBits(v, m)
  BY DEF C!AndBits, AndBits, C!Bitwise2, Bitwise2, C!Bit, Bit
<1>4. QED
  BY <1>1, <1>2, <1>3

\* A function is one of the memories when it holds bytes at addresses.
LEMMA MemoryIs ==
    ASSUME NEW D, D \subseteq Address, NEW m \in [D -> Byte]
    PROVE  m \in Memories
BY DEF Memories

\* The flat memory maps addresses to bytes.
LEMMA MemoryHolds ==
    ASSUME NEW m \in Memories
    PROVE  /\ DOMAIN m \subseteq Address
           /\ \A a \in DOMAIN m : m[a] \in Byte
BY DEF Memories

\* The flat bus answers bytes and stays a flat bus.
LEMMA FlatBus == C!BusOK(Flats)
<1> SUFFICES ASSUME NEW b \in Flats
             PROVE  /\ \A a \in Address : FlatRead(b, a).v \in Byte /\ FlatRead(b, a).bus \in Flats
                    /\ \A a \in Address, v \in Byte : FlatWrite(b, a, v) \in Flats
                    /\ FlatSense(b) \in [v : {0, 1}, bus : Flats]
                    /\ \A level \in {0, 1} : FlatFlag(b, level) \in Flats
                    /\ FlatIntAck(b) \in Byte
  BY Same DEF C!BusOK
<1>1. /\ b.mem \in Memories /\ b.sense \in {0, 1} /\ b.flag \in {0, 1} /\ b.intack \in Byte
      /\ b = [mem |-> b.mem, sense |-> b.sense, flag |-> b.flag, intack |-> b.intack]
  BY DEF Flats
<1>2. \A a \in Address : FlatRead(b, a).v \in Byte /\ FlatRead(b, a).bus \in Flats
  <2>1. 0 \in Byte
    BY DEF Byte
  <2>2. QED
    BY <1>1, <2>1, MemoryHolds DEF FlatRead
<1>3. ASSUME NEW a \in Address, NEW v \in Byte
      PROVE  FlatWrite(b, a, v) \in Flats
  <2> DEFINE D == DOMAIN b.mem \cup {a}
             m == [x \in D |-> IF x = a THEN v ELSE b.mem[x]]
  <2>1. D \subseteq Address /\ m \in [D -> Byte]
    BY <1>1, MemoryHolds
  <2>2. FlatWrite(b, a, v) = [b EXCEPT !.mem = m]
    BY DEF FlatWrite
  <2> HIDE DEF m, D
  <2>3. m \in Memories
    BY <2>1, MemoryIs
  <2>4. [b EXCEPT !.mem = m] \in Flats
    BY <1>1, <2>3 DEF Flats
  <2>5. QED
    BY <2>2, <2>4
<1>4. FlatSense(b) \in [v : {0, 1}, bus : Flats]
  BY <1>1 DEF FlatSense
<1>5. \A level \in {0, 1} : FlatFlag(b, level) \in Flats
  BY <1>1 DEF FlatFlag, Flats
<1>6. FlatIntAck(b) \in Byte
  BY <1>1 DEF FlatIntAck
<1>7. QED
  BY <1>2, <1>3, <1>4, <1>5, <1>6

\* So a step of it is one of a CPU, 6 to 18 clocks long.
LEMMA Steps ==
    ASSUME NEW s, IsCpu(s)
    PROVE  /\ IsCpu(C!CpuStep(s).s)
           /\ C!CpuStep(s).s.clocks \in s.clocks + 6 .. s.clocks + 18
<1> DEFINE t == C!CpuStep(s).s
           k == C!CpuStep(s).k
           n == s.clocks
<1>1. n \in Nat /\ s \in C!Cpus(Flats, n)
  BY DEF IsCpu
<1>2. k \in 6 .. 18 /\ t \in C!Cpus(Flats, n + k)
  BY <1>1, FlatBus, C!StepType
<1> HIDE DEF t, k, n
<1>3. n + k \in Nat
  BY <1>1, <1>2
<1>4. t.clocks = n + k
  BY <1>2, <1>3, C!Parts
<1>5. IsCpu(t) /\ t.clocks \in n + 6 .. n + 18
  BY <1>1, <1>2, <1>3, <1>4 DEF IsCpu
<1>6. QED
  BY <1>5 DEF t, n

\* The host's inputs change a level or a byte of it.
LEMMA Inputs ==
    ASSUME NEW s, IsCpu(s)
    PROVE  /\ \A level \in BOOLEAN : IsCpu([s EXCEPT !.irq = level])
           /\ \A level \in {0, 1} : IsCpu([s EXCEPT !.bus.sense = level])
           /\ \A v \in Byte : IsCpu([s EXCEPT !.bus.intack = v])
           /\ IsCpu([s EXCEPT !.halted = FALSE])
           /\ IsCpu(C!CpuReset(s))
<1> DEFINE now == s.clocks
           b == s.bus
<1>1. now \in Nat /\ s \in C!Cpus(Flats, now)
  BY DEF IsCpu
<1>2. ASSUME NEW t \in C!Cpus(Flats, now)
      PROVE  IsCpu(t)
  <2>1. t.clocks = now
    BY <1>1, C!Parts
  <2>2. QED
    BY <1>1, <2>1 DEF IsCpu
<1>3. b \in Flats
  BY <1>1, C!Parts
<1>4. ASSUME NEW level \in BOOLEAN
      PROVE  IsCpu([s EXCEPT !.irq = level])
  BY <1>1, <1>2, C!WithIrq
<1>5. ASSUME NEW level \in {0, 1}
      PROVE  IsCpu([s EXCEPT !.bus.sense = level])
  <2> DEFINE d == [b EXCEPT !.sense = level]
  <2>1. d \in Flats
    BY <1>3 DEF Flats
  <2>2. [s EXCEPT !.bus.sense = level] = [s EXCEPT !.bus = d]
    OBVIOUS
  <2> HIDE DEF d, now, b
  <2>3. [s EXCEPT !.bus = d] \in C!Cpus(Flats, now)
    BY <1>1, <2>1, C!WithBus
  <2>4. QED
    BY <1>2, <2>2, <2>3
<1>6. ASSUME NEW v \in Byte
      PROVE  IsCpu([s EXCEPT !.bus.intack = v])
  <2> DEFINE d == [b EXCEPT !.intack = v]
  <2>1. d \in Flats
    BY <1>3 DEF Flats
  <2>2. [s EXCEPT !.bus.intack = v] = [s EXCEPT !.bus = d]
    OBVIOUS
  <2> HIDE DEF d, now, b
  <2>3. [s EXCEPT !.bus = d] \in C!Cpus(Flats, now)
    BY <1>1, <2>1, C!WithBus
  <2>4. QED
    BY <1>2, <2>2, <2>3
<1>7. IsCpu([s EXCEPT !.halted = FALSE])
  BY <1>1, <1>2, C!WithHalted
<1>8. IsCpu(C!CpuReset(s))
  <2>1. C!CpuReset(s) \in C!Cpus(Flats, 0)
    BY <1>1, C!ResetType
  <2>2. C!CpuReset(s).clocks = 0 /\ 0 \in Nat
    BY <2>1, C!Parts
  <2>3. QED
    BY <2>1, <2>2 DEF IsCpu
<1>9. QED
  BY <1>4, <1>5, <1>6, <1>7, <1>8

\* The program and its twin are CPUs, and a run in progress is no more than an
\* instruction past its budget: the loop tests it before every turn.
Bounded == Running => cpu.clocks < call.target + 18

IInv ==
    /\ IsCpu(cpu)
    /\ IsCpu(calm)
    /\ call \in [target : Nat, stops : SUBSET StopPcs, first : BOOLEAN]
    /\ result \in {"none", "halt", "clocks", "pc"}
    /\ Bounded

\* Power-on, for every interrupt vector,
LEMMA Initially == Init => IInv
<1> SUFFICES ASSUME Init
             PROVE  IInv
  OBVIOUS
<1>1. PICK v \in Vectors :
          cpu = C!NewCpu([mem |-> Image, sense |-> 0, flag |-> 0, intack |-> v])
  BY DEF Init
<1> DEFINE b == [mem |-> Image, sense |-> 0, flag |-> 0, intack |-> v]
<1>2. b \in Flats
  <2>1. Image \in Memories /\ v \in Byte
    BY S2650Assumption, MemoryIs
  <2>2. QED
    BY <2>1 DEF Flats
<1> HIDE DEF b
<1>3. C!NewCpu(b) \in C!Cpus(Flats, 0)
  BY <1>2, C!NewType
<1>4. cpu = C!NewCpu(b)
  BY <1>1 DEF b
<1>5. cpu.clocks = 0 /\ 0 \in Nat
  BY <1>3, <1>4, C!Parts
<1>6. IsCpu(cpu)
  BY <1>3, <1>4, <1>5 DEF IsCpu
<1>7. calm = cpu /\ call = NoCall /\ result = "none"
  BY DEF Init
<1>8. QED
  BY <1>6, <1>7 DEF IInv, Bounded, Running, NoCall

\* A step of the CPU, with the twin's.
LEMMA Executes ==
    ASSUME IsCpu(cpu), IsCpu(calm), Execute
    PROVE  IsCpu(cpu') /\ IsCpu(calm') /\ cpu'.clocks \in cpu.clocks + 6 .. cpu.clocks + 18
<1>1. cpu' = C!CpuStep(cpu).s
  BY DEF Execute
<1>2. \/ calm' = [calm EXCEPT !.halted = FALSE]
      \/ calm' = calm
      \/ calm' = C!CpuStep(calm).s
  BY DEF Execute
<1>3. IsCpu([calm EXCEPT !.halted = FALSE])
  BY Inputs
<1>4. IsCpu(C!CpuStep(calm).s)
  BY Steps
<1>5. IsCpu(C!CpuStep(cpu).s) /\ C!CpuStep(cpu).s.clocks \in cpu.clocks + 6 .. cpu.clocks + 18
  BY Steps
<1>6. IsCpu(calm')
  BY <1>2, <1>3, <1>4
<1>7. QED
  BY <1>1, <1>5, <1>6

\* An input of the host, between runs.
LEMMA InputKeeps ==
    ASSUME IInv, NEW s, NEW t, IsCpu(s), IsCpu(t), Input(s, t)
    PROVE  IInv'
BY DEF Input, IInv, Bounded, Running, NoCall

\* ... and every call of the host and step of the CPU.
LEMMA Inductive == IInv /\ [Next]_vars => IInv'
<1> SUFFICES ASSUME IInv, [Next]_vars
             PROVE  IInv'
  OBVIOUS
<1>1. /\ IsCpu(cpu) /\ IsCpu(calm)
      /\ call \in [target : Nat, stops : SUBSET StopPcs, first : BOOLEAN]
      /\ result \in {"none", "halt", "clocks", "pc"}
      /\ cpu.clocks \in Nat
  BY DEF IInv, IsCpu
<1>2. CASE Step
  <2>1. IsCpu(cpu') /\ IsCpu(calm')
    BY <1>1, <1>2, Executes DEF Step
  <2>2. call' = call /\ ~Running /\ result' = "none"
    BY <1>2 DEF Step
  <2>3. QED
    BY <1>1, <2>1, <2>2 DEF IInv, Bounded, Running, NoCall
<1>3. ASSUME NEW budget \in Budgets, NEW stops \in SUBSET StopPcs, Run(budget, stops)
      PROVE  IInv'
  <2>1. cpu' = cpu /\ calm' = calm /\ result' = result
    BY <1>3 DEF Run
  <2>2. call' = [target |-> cpu.clocks + budget, stops |-> stops, first |-> TRUE]
    BY <1>3 DEF Run
  <2>3. budget \in Nat /\ cpu.clocks + budget \in Nat
    BY <1>1, S2650Assumption
  <2>4. call' \in [target : Nat, stops : SUBSET StopPcs, first : BOOLEAN]
    BY <2>2, <2>3
  <2>5. call'.target = cpu.clocks + budget
    BY <2>2
  <2>6. cpu'.clocks < call'.target + 18
    BY <1>1, <2>1, <2>3, <2>5
  <2>7. QED
    BY <1>1, <2>1, <2>4, <2>6 DEF IInv, Bounded
<1>4. CASE RunTurn
  <2>1. /\ IsCpu(cpu') /\ IsCpu(calm')
        /\ cpu'.clocks \in cpu.clocks + 6 .. cpu.clocks + 18
    BY <1>1, <1>4, Executes DEF RunTurn
  <2>2. call' = [call EXCEPT !.first = FALSE] /\ result' = result
    BY <1>4 DEF RunTurn
  <2>3. ~(cpu.clocks >= call.target)
    BY <1>4 DEF RunTurn, Verdict
  <2>4. call.target \in Nat /\ call'.target = call.target
    BY <1>1, <2>2
  <2>5. cpu'.clocks < call'.target + 18
    BY <1>1, <2>1, <2>3, <2>4
  <2>6. call' \in [target : Nat, stops : SUBSET StopPcs, first : BOOLEAN]
    BY <1>1, <2>2
  <2>7. QED
    BY <1>1, <2>1, <2>2, <2>5, <2>6 DEF IInv, Bounded
<1>5. CASE RunReturn
  <2>1. cpu' = cpu /\ calm' = calm /\ call' = NoCall
    BY <1>5 DEF RunReturn
  <2>2. result' \in {"none", "halt", "clocks", "pc"}
    BY <1>5 DEF RunReturn, Verdict
  <2>3. NoCall \in [target : Nat, stops : SUBSET StopPcs, first : BOOLEAN]
    BY DEF NoCall
  <2>4. ~Running'
    BY <2>1 DEF Running, NoCall
  <2>5. QED
    BY <1>1, <2>1, <2>2, <2>3, <2>4 DEF IInv, Bounded
<1>6. ASSUME NEW level \in BOOLEAN, SetIrq(level)
      PROVE  IInv'
  <2>1. IsCpu([cpu EXCEPT !.irq = level])
    BY <1>1, Inputs
  <2>2. QED
    BY <1>1, <1>6, <2>1, InputKeeps DEF SetIrq
<1>7. ASSUME NEW level \in {0, 1}, SetSense(level)
      PROVE  IInv'
  <2>1. IsCpu([cpu EXCEPT !.bus.sense = level]) /\ IsCpu([calm EXCEPT !.bus.sense = level])
    BY <1>1, Inputs
  <2>2. QED
    BY <1>1, <1>7, <2>1, InputKeeps DEF SetSense
<1>8. ASSUME NEW v \in Vectors, SetIntack(v)
      PROVE  IInv'
  <2>1. v \in Byte
    BY S2650Assumption
  <2>2. IsCpu([cpu EXCEPT !.bus.intack = v]) /\ IsCpu([calm EXCEPT !.bus.intack = v])
    BY <1>1, <2>1, Inputs
  <2>3. QED
    BY <1>1, <1>8, <2>2, InputKeeps DEF SetIntack
<1>9. CASE Reset
  <2>1. IsCpu(C!CpuReset(cpu))
    BY <1>1, Inputs
  <2>2. QED
    BY <1>1, <1>9, <2>1, InputKeeps DEF Reset
<1>10. CASE UNCHANGED vars
  BY <1>1, <1>10 DEF IInv, Bounded, Running, vars
<1>11. QED
  BY <1>2, <1>3, <1>4, <1>5, <1>6, <1>7, <1>8, <1>9, <1>10 DEF Next

\* For every image, vector, budget and stop the invariant holds of every state.
THEOREM Invariance == Spec => []IInv
BY Initially, Inductive, PTL DEF Spec

\* No program, interrupt, input or reset takes a register of the 2650 out of
\* its width, stores SENSE in PSU or sets one of the two bits PSU has not got,
\* and no store leaves anything but a byte in the 32 KiB.
THEOREM TypeCorrect == Spec => []TypeOK
<1>1. IInv => TypeOK
  <2> SUFFICES ASSUME IInv
               PROVE  TypeOK
    OBVIOUS
  <2>1. cpu \in C!Cpus(Flats, cpu.clocks) /\ cpu.clocks \in Nat
    BY DEF IInv, IsCpu
  <2>2. /\ cpu.r \in [0 .. 6 -> Byte] /\ cpu.psl \in Byte /\ cpu.psu \in C!Psu
        /\ cpu.pc \in Address /\ cpu.ras \in [0 .. 7 -> Address] /\ cpu.bus \in Flats
    BY <2>1, Same, C!Parts
  <2>3. cpu.psu \in Byte
    BY <2>2, Same DEF C!Psu
  <2>4. AndBits(cpu.psu, C!UNUSED + C!SENSE) = 0
    BY <2>2, Same, C!MaskedReads
  <2>5. cpu.bus.mem \in Memories
    BY <2>2 DEF Flats
  <2>6. \A a \in DOMAIN cpu.bus.mem : a \in Address /\ cpu.bus.mem[a] \in Byte
    BY <2>5, MemoryHolds
  <2>7. QED
    BY <2>2, <2>3, <2>4, <2>6 DEF TypeOK, IInv
<1>2. QED
  BY <1>1, Invariance, PTL

\* Whatever the program, run stops for the reason it gives: "halt" exactly when
\* nothing can wake the CPU, "pc" only at a stop within the budget, "clocks"
\* once the budget is spent and before an instruction of 18 clocks more.
THEOREM Verdicts == Spec => RunVerdict
<1> DEFINE Honest ==
        RunReturn =>
          /\ result' = "halt"   <=> cpu.halted /\ ~Accepts(cpu)
          /\ result' = "pc"     => cpu.pc \in call.stops /\ cpu.clocks < call.target
          /\ result' = "clocks" => cpu.clocks \in call.target .. call.target + 17
<1>1. IInv /\ [Next]_vars => [Honest]_vars
  <2> SUFFICES ASSUME IInv, RunReturn
               PROVE  Honest
    OBVIOUS
  <2>1. cpu.clocks \in Nat /\ call.target \in Nat /\ cpu.clocks < call.target + 18
    BY DEF IInv, IsCpu, Bounded, RunReturn
  <2>2. result' = Verdict
    BY DEF RunReturn
  <2>3. result' = "halt" <=> cpu.halted /\ ~Accepts(cpu)
    BY <2>2 DEF Verdict, RunReturn
  <2>4. result' = "pc" => cpu.pc \in call.stops /\ cpu.clocks < call.target
    BY <2>1, <2>2 DEF Verdict
  <2>5. result' = "clocks" => cpu.clocks \in call.target .. call.target + 17
    BY <2>1, <2>2 DEF Verdict
  <2>6. QED
    BY <2>3, <2>4, <2>5
<1>2. QED
  BY <1>1, Invariance, PTL DEF Spec, RunVerdict

=============================================================================
