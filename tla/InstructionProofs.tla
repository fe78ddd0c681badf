------------------------- MODULE InstructionProofs -------------------------
(***************************************************************************)
(* What is proved of single instructions and short programs: for all       *)
(* operand bytes, registers, flags and contents of the RAM.                *)
(***************************************************************************)
EXTENDS Instruction, TLAPS, FiniteSetTheorems

(***************************************************************************)
(* Types.                                                                  *)
(***************************************************************************)

\* The bytes and addresses of the CPU are those of the tables.
LEMMA Same ==
    /\ C!Byte = Byte /\ C!Address = Address
    /\ \A v, m : C!Bit(v, m) = Bit(v, m)
    /\ \A v : C!Signed(v) = Signed(v)
<1>1. C!Byte = Byte /\ C!Address = Address
  BY SMT DEF C!Byte, Byte, C!Address, Address
<1>2. \A v, m : C!Bit(v, m) = Bit(v, m)
  BY DEF C!Bit, Bit
<1>3. \A v : C!Signed(v) = Signed(v)
  BY DEF C!Signed, Signed
<1>4. QED
  BY <1>1, <1>2, <1>3

\* The RAM with its code and the record of what was read and written.
Rams == [org : Address, code : Seq(Byte), reads : Seq(Address), writes : Seq(Address)]

\* Byte for byte, the code where there is code and the pattern elsewhere.
LEMMA HoldsType ==
    ASSUME NEW b \in Rams, NEW a \in Address
    PROVE  Holds(b, a) \in Byte
<1>1. b.code \in Seq(Byte) /\ Ram(a) \in Byte
  BY InstructionAssumption DEF Rams
<1> DEFINE i == a - b.org + 1
           code == b.code
<1>2. Holds(b, a) = IF i \in DOMAIN code THEN code[i] ELSE Ram(a)
  BY DEF Holds
<1> HIDE DEF i
<1>3. i \in DOMAIN code => code[i] \in Byte
  BY <1>1
<1>4. QED
  BY <1>1, <1>2, <1>3

\* It is a bus.
LEMMA RamBus == C!BusOK(Rams)
<1> SUFFICES ASSUME NEW b \in Rams
             PROVE  /\ \A a \in Address : RamRead(b, a).v \in Byte /\ RamRead(b, a).bus \in Rams
                    /\ \A a \in Address, v \in Byte : RamWrite(b, a, v) \in Rams
                    /\ RamSense(b) \in [v : {0, 1}, bus : Rams]
                    /\ \A level \in {0, 1} : RamFlag(b, level) \in Rams
                    /\ RamIntAck(b) \in Byte
  BY Same DEF C!BusOK
<1>1. /\ b.org \in Address /\ b.code \in Seq(Byte)
      /\ b.reads \in Seq(Address) /\ b.writes \in Seq(Address)
      /\ b = [org |-> b.org, code |-> b.code, reads |-> b.reads, writes |-> b.writes]
  BY DEF Rams
<1>2. ASSUME NEW a \in Address
      PROVE  RamRead(b, a).v \in Byte /\ RamRead(b, a).bus \in Rams
  <2> DEFINE reads == Append(b.reads, a)
  <2>1. RamRead(b, a) = [v |-> Holds(b, a), bus |-> [b EXCEPT !.reads = reads]]
    BY DEF RamRead
  <2>2. reads \in Seq(Address)
    BY <1>1
  <2> HIDE DEF reads
  <2>3. [b EXCEPT !.reads = reads] \in Rams
    BY <1>1, <2>2 DEF Rams
  <2>4. QED
    BY <2>1, <2>3, HoldsType
<1>3. ASSUME NEW a \in Address, NEW v \in Byte
      PROVE  RamWrite(b, a, v) \in Rams
  <2> DEFINE writes == Append(b.writes, a)
  <2>1. RamWrite(b, a, v) = [b EXCEPT !.writes = writes]
    BY DEF RamWrite
  <2>2. writes \in Seq(Address)
    BY <1>1
  <2> HIDE DEF writes
  <2>3. [b EXCEPT !.writes = writes] \in Rams
    BY <1>1, <2>2 DEF Rams
  <2>4. QED
    BY <2>1, <2>3
<1>4. RamSense(b) \in [v : {0, 1}, bus : Rams]
  BY DEF RamSense
<1>5. \A level \in {0, 1} : RamFlag(b, level) \in Rams
  BY DEF RamFlag
<1>6. RamIntAck(b) \in Byte
  BY DEF RamIntAck, Byte
<1>7. QED
  BY <1>2, <1>3, <1>4, <1>5, <1>6

\* A CPU on it, whatever its clock.
IsCpu(s) == s.clocks \in Nat /\ s \in C!Cpus(Rams, s.clocks)

\* The host's changes: the code and where it starts, the registers and PSL.
LEMMA LoadKeeps ==
    ASSUME NEW s, IsCpu(s), NEW org \in Address, NEW code \in Seq(Byte),
           NEW r \in [0 .. 6 -> Byte], NEW psl \in Byte
    PROVE  IsCpu([s EXCEPT !.bus.org = org, !.bus.code = code,
                           !.pc = org, !.r = r, !.psl = psl])
<1> DEFINE now == s.clocks
           b == [s.bus EXCEPT !.org = org, !.code = code]
           t == [s EXCEPT !.bus = b, !.pc = org, !.r = r, !.psl = psl]
<1>1. now \in Nat /\ s \in C!Cpus(Rams, now)
  BY DEF IsCpu
<1>2. s.bus \in Rams
  BY <1>1, C!Parts
<1>3. b \in Rams
  BY <1>2 DEF Rams
<1>4. t = [s EXCEPT !.bus.org = org, !.bus.code = code,
                    !.pc = org, !.r = r, !.psl = psl]
  BY <1>1 DEF C!Cpus
<1> HIDE DEF b, now
<1>5. t \in C!Cpus(Rams, now)
  BY <1>1, <1>3, Same DEF C!Cpus
<1>6. t.clocks = now
  BY <1>1, <1>5, C!Parts
<1> HIDE DEF t
<1>7. QED
  BY <1>1, <1>4, <1>5, <1>6 DEF IsCpu

\* A step of it.
LEMMA StepKeeps ==
    ASSUME NEW s, IsCpu(s)
    PROVE  IsCpu(C!CpuStep(s).s)
<1> DEFINE t == C!CpuStep(s).s
           k == C!CpuStep(s).k
           n == s.clocks
<1>1. n \in Nat /\ s \in C!Cpus(Rams, n)
  BY DEF IsCpu
<1>2. k \in 6 .. 18 /\ t \in C!Cpus(Rams, n + k)
  BY <1>1, RamBus, C!StepType
<1> HIDE DEF t, k, n
<1>3. n + k \in Nat
  BY <1>1, <1>2
<1>4. t.clocks = n + k
  BY <1>2, <1>3, C!Parts
<1>5. IsCpu(t)
  BY <1>2, <1>3, <1>4 DEF IsCpu
<1>6. QED
  BY <1>5 DEF t

\* What the host loads is one of the suites' programs.
IsProgram(p) ==
    \E suite \in Suites :
    \E case \in suite.cases, org \in suite.orgs, psl \in suite.psls :
        p = [kind |-> suite.kind, org |-> org, code |-> case.code, r |-> case.r,
             psl |-> psl, a |-> case.a, b |-> case.b]

\* The CPU is one, and nothing is left to execute but of a program.
IInv ==
    /\ IsCpu(cpu)
    /\ left \in Nat
    /\ program = Nothing => left = 0
    /\ program # Nothing => IsProgram(program)

\* Loading a program,
LEMMA Loading ==
    ASSUME IInv, NEW suite \in Suites, NEW case \in suite.cases, NEW org \in suite.orgs,
           NEW psl \in suite.psls, Load(suite, case, org, psl)
    PROVE  IInv'
<1>1. /\ org \in Address /\ psl \in Byte /\ suite.steps \in Nat
      /\ case.code \in Seq(Byte) /\ case.r \in [0 .. 6 -> Byte]
  BY InstructionAssumption
<1>2. /\ program' = [kind |-> suite.kind, org |-> org, code |-> case.code, r |-> case.r,
                     psl |-> psl, a |-> case.a, b |-> case.b]
      /\ cpu' = [cpu EXCEPT !.bus.org = org, !.bus.code = case.code,
                            !.pc = org, !.r = case.r, !.psl = psl]
      /\ left' = suite.steps
  BY DEF Load
<1>3. IsCpu(cpu')
  BY <1>1, <1>2, LoadKeeps DEF IInv
<1>4. IsProgram(program')
  BY <1>2 DEF IsProgram
<1>5. program' # Nothing
  <2>1. "r" \in DOMAIN program' /\ "r" \notin DOMAIN Nothing
    BY <1>2 DEF Nothing
  <2>2. QED
    BY <2>1
<1>6. QED
  BY <1>1, <1>2, <1>3, <1>4, <1>5 DEF IInv

\* and executing it.
LEMMA Inductive == IInv /\ [Next]_vars => IInv'
<1> SUFFICES ASSUME IInv, [Next]_vars
             PROVE  IInv'
  OBVIOUS
<1>1. CASE Step
  <2>1. /\ left \in Nat /\ left > 0 /\ left' = left - 1
        /\ cpu' = C!CpuStep(cpu).s /\ program' = program
    BY <1>1 DEF Step, IInv
  <2>2. IsCpu(cpu')
    BY <2>1, StepKeeps DEF IInv
  <2>3. QED
    BY <2>1, <2>2 DEF IInv, IsProgram
<1>2. CASE UNCHANGED vars
  BY <1>2 DEF IInv, IsProgram, vars
<1>3. ASSUME NEW suite \in Suites, NEW case \in suite.cases, NEW org \in suite.orgs,
             NEW psl \in suite.psls, Load(suite, case, org, psl)
      PROVE  IInv'
  BY <1>3, Loading
<1>4. QED
  BY <1>1, <1>2, <1>3 DEF Next

\* Nothing is loaded at first.
LEMMA Initially == Init => IInv
<1> DEFINE b == [org |-> 0, code |-> <<>>, reads |-> <<>>, writes |-> <<>>]
<1>1. b \in Rams
  BY DEF Rams, Address
<1> HIDE DEF b
<1>2. C!NewCpu(b) \in C!Cpus(Rams, 0)
  BY <1>1, C!NewType
<1>3. IsCpu(C!NewCpu(b))
  <2>1. C!NewCpu(b).clocks = 0 /\ 0 \in Nat
    BY <1>2, C!Parts
  <2>2. QED
    BY <1>2, <2>1 DEF IsCpu
<1>4. QED
  BY <1>3 DEF Init, IInv, b

\* The invariant holds of every program.
THEOREM Invariance == Spec => []IInv
BY Initially, Inductive, PTL DEF Spec

\* Whatever is executed, no register leaves its width and every address the
\* CPU reads is one of 15 bits.
THEOREM TypeCorrect == Spec => []TypeOK
<1>1. IInv => TypeOK
  <2> SUFFICES ASSUME IInv
               PROVE  TypeOK
    OBVIOUS
  <2> DEFINE now == cpu.clocks
  <2>1. now \in Nat /\ cpu \in C!Cpus(Rams, now) /\ left \in Nat
    BY DEF IInv, IsCpu
  <2> HIDE DEF now
  <2>2. /\ cpu.r \in [0 .. 6 -> C!Byte] /\ cpu.psl \in C!Byte /\ cpu.psu \in C!Psu
        /\ cpu.pc \in C!Address /\ cpu.ras \in [0 .. 7 -> C!Address] /\ cpu.bus \in Rams
    BY <2>1, C!Parts
  <2>3. cpu.psu \in C!Byte
    BY <2>2 DEF C!Psu
  <2>4. cpu.bus.reads \in Seq(Address)
    BY <2>2 DEF Rams
  <2>5. \A i \in DOMAIN cpu.bus.reads : cpu.bus.reads[i] \in Address
    BY <2>4
  <2>6. QED
    BY <2>1, <2>2, <2>3, <2>5, Same DEF TypeOK
<1>2. QED
  BY <1>1, Invariance, PTL

(***************************************************************************)
(* Executing the code of a program.                                        *)
(***************************************************************************)

\* The CPU is about to execute the code at org from its byte i + 1 on.
At(s, org, code, i) ==
    /\ IsCpu(s) /\ ~s.irq /\ ~s.halted
    /\ s.bus.org = org /\ s.bus.code = code /\ s.pc = org + i

\* Code that does not cross a page is fetched one address after the other.
WithinPage(org) == org \in Address /\ PageOf(org + 9) = PageOf(org)

\* Away from the end of a page the program counter steps to the next address.
LEMMA NextAddress ==
    ASSUME NEW org, WithinPage(org), NEW i \in 0 .. 8
    PROVE  org + i \in Address /\ C!InPage(org + i, 1) = org + (i + 1)
<1>1. org \in Int /\ 0 <= org /\ org < 32768
  BY C!AddressIs, Same DEF WithinPage
<1> DEFINE page == org \div 8192
           offset == org % 8192
<1>2. /\ org = 8192 * page + offset /\ page \in 0 .. 3
      /\ offset \in Int /\ 0 <= offset /\ offset < 8192
  BY <1>1
<1>3. (org + 9) \div 8192 = page
  BY <1>1 DEF WithinPage, PageOf
<1> HIDE DEF page, offset
<1>4. offset < 8183
  BY <1>2, <1>3
<1>5. (org + i) \div 8192 = page /\ (org + i + 1) % 8192 = offset + i + 1
  BY <1>2, <1>4
<1>6. C!InPage(org + i, 1) = org + (i + 1)
  BY <1>1, <1>2, <1>5 DEF C!InPage
<1>7. org + i < 32768
  BY <1>2, <1>4
<1>8. QED
  BY <1>1, <1>6, <1>7, C!AddressIs, Same

\* A byte is fetched: all is as it was but for the pc, and what was read.
LEMMA Fetching ==
    ASSUME NEW org, WithinPage(org), NEW code \in Seq(Byte), NEW i \in 0 .. 8, i < Len(code),
           NEW s, At(s, org, code, i)
    PROVE  LET f == C!Fetch(s)
           IN  /\ f.v = code[i + 1] /\ f.v \in Byte
               /\ At(f.s, org, code, i + 1)
               /\ f.s.clocks = s.clocks
               /\ f.s.r = s.r /\ f.s.psl = s.psl
<1> DEFINE f == C!Fetch(s)
           now == s.clocks
           a == C!InPage(s.pc, 1)
           b == [s.bus EXCEPT !.reads = Append(s.bus.reads, s.pc)]
           v == Holds(s.bus, s.pc)
           t == [s EXCEPT !.pc = a]
<1>1. now \in Nat /\ s \in C!Cpus(Rams, now)
  BY DEF At, IsCpu
<1>2. f.v \in C!Byte /\ f.s \in C!Cpus(Rams, now)
  BY <1>1, RamBus, C!FetchType
<1>3. f.s.clocks = now
  BY <1>1, <1>2, C!Parts
<1>4. f = [v |-> v, s |-> [t EXCEPT !.bus = b]]
  BY DEF C!Fetch, C!Took, RamRead
<1>5. v = code[i + 1]
  <2>1. org \in Int
    BY C!AddressIs, Same DEF WithinPage
  <2>2. s.pc = org + i /\ s.bus.org = org /\ s.bus.code = code
    BY DEF At
  <2>3. s.pc - s.bus.org + 1 = i + 1
    BY <2>1, <2>2
  <2>4. i + 1 \in DOMAIN code
    OBVIOUS
  <2>5. QED
    BY <2>2, <2>3, <2>4 DEF Holds
<1>6. a = org + (i + 1)
  BY NextAddress DEF At
<1>7. s.bus \in Rams
  BY <1>1, C!Parts
<1>8. b.org = s.bus.org /\ b.code = s.bus.code
  BY <1>7 DEF Rams
<1>9. a \in C!Address
  BY <1>1, C!Parts, C!InPageType
<1> HIDE DEF a, b, v, now
<1>10. /\ f.s.pc = a /\ f.s.bus = b /\ f.v = v
      /\ f.s.r = s.r /\ f.s.psl = s.psl /\ f.s.irq = s.irq /\ f.s.halted = s.halted
  <2>1. /\ t.pc = a
        /\ t.r = s.r /\ t.psl = s.psl /\ t.irq = s.irq /\ t.halted = s.halted
    BY <1>1 DEF C!Cpus
  <2>2. t \in C!Cpus(Rams, now)
    BY <1>1, <1>9, C!WithPc
  <2> HIDE DEF t
  <2> DEFINE u == [t EXCEPT !.bus = b]
  <2>3. /\ u.bus = b /\ u.pc = t.pc
        /\ u.r = t.r /\ u.psl = t.psl /\ u.irq = t.irq /\ u.halted = t.halted
    BY <2>2 DEF C!Cpus
  <2>4. f.v = v /\ f.s = u
    BY <1>4
  <2> HIDE DEF f, u
  <2>5. QED
    BY <2>1, <2>3, <2>4
<1>11. IsCpu(f.s)
  BY <1>1, <1>2, <1>3 DEF IsCpu
<1>12. At(f.s, org, code, i + 1)
  BY <1>6, <1>8, <1>10, <1>11 DEF At
<1> HIDE DEF f
<1>13. QED
  BY <1>2, <1>3, <1>5, <1>10, <1>12, Same DEF f, now

\* A CPU whose clock goes on by k.
Ticks(t, k) == [t EXCEPT !.clocks = t.clocks + k]

\* The CPU that has fetched two bytes, and what it combines register n with.
FetchedTwo(s) == C!Fetch(C!Fetch(s).s).s
Immediate(s, n, v) == [d |-> n, v |-> v, k |-> 6, s |-> s]

\* The code goes on with two bytes, of which op is the first, in bank 0.
Pending(s, org, code, i, op) ==
    /\ WithinPage(org) /\ code \in Seq(Byte) /\ i \in 0 .. 5 /\ i + 1 < Len(code)
    /\ At(s, org, code, i) /\ C!Bit(s.psl, C!RS) = 0 /\ code[i + 1] = op

\* It combines register n with the second.
IsImmediate(op, n) == n \in 0 .. 3 /\ op \in C!Combines /\ (op \div 4) % 4 = 1 /\ op % 4 = n

\* An instruction with an immediate operand, n its register, in bank 0: what it
\* combines, from the CPU u that has fetched both of its bytes.
LEMMA Immediately ==
    ASSUME NEW org, NEW code, NEW i, NEW s, NEW op, NEW n,
           Pending(s, org, code, i, op), IsImmediate(op, n)
    PROVE  LET u == FetchedTwo(s)
               o == Immediate(u, n, code[i + 2])
               c == C!Combine(op, o)
           IN  /\ At(u, org, code, i + 2) /\ u.r = s.r /\ u.psl = s.psl
               /\ code[i + 2] \in Byte
               /\ C!CpuStep(s).s = Ticks(c.s, c.k)
<1> DEFINE f == C!Fetch(s)
           g == C!Fetch(f.s)
           u == g.s
           o == [d |-> n, v |-> code[i + 2], k |-> 6, s |-> u]
           c == C!Combine(op, o)
<1> USE DEF Pending, IsImmediate
<1>1. f.v = op /\ At(f.s, org, code, i + 1) /\ f.s.r = s.r /\ f.s.psl = s.psl
  BY Fetching
<1>2. /\ g.v = code[i + 2] /\ g.v \in Byte
      /\ At(u, org, code, i + 2) /\ u.r = s.r /\ u.psl = s.psl
  <2>1. i + 1 \in 0 .. 6 /\ (i + 1) + 1 = i + 2
    OBVIOUS
  <2> HIDE DEF f
  <2>2. QED
    BY <1>1, <2>1, Fetching
<1>3. C!Ri(f.s, n) = n
  BY <1>1 DEF C!Ri
<1>4. C!Operand(f.s, op) = o
  <2> HIDE DEF f
  <2>1. C!Operand(f.s, op) = [d |-> n, v |-> g.v, k |-> 6, s |-> u]
    BY <1>3 DEF C!Operand
  <2>2. QED
    BY <1>2, <2>1
<1> HIDE DEF o
<1>5. C!Execute(f) = c
  <2> HIDE DEF f, c
  <2>1. C!Execute(f) = C!Exec(f.s, op)
    BY <1>1 DEF C!Execute
  <2> DEFINE e == C!Combine(op, C!Operand(f.s, op))
  <2>2. e = c
    BY <1>4 DEF c
  <2> HIDE DEF e
  <2>3. C!Exec(f.s, op) = e
    BY C!ExecIs DEF e
  <2>4. QED
    BY <2>1, <2>2, <2>3
<1>6. ~s.irq /\ ~s.halted
  BY DEF At
<1> HIDE DEF c
<1>7. C!CpuStep(s) = [c EXCEPT !.s.clocks = c.s.clocks + c.k]
  BY <1>5, <1>6 DEF C!CpuStep
<1>8. \E r : c = [k |-> o.k, s |-> r]
  BY DEF c, C!Combine
<1>9. C!CpuStep(s).s = Ticks(c.s, c.k)
  BY <1>7, <1>8 DEF Ticks
<1>10. QED
  BY <1>2, <1>9 DEF c, o, FetchedTwo, Immediate

\* What is left of a CPU that has computed, its clock apart.
LEMMA Ticked ==
    ASSUME NEW u, IsCpu(u), NEW d \in 0 .. 6, NEW v \in Byte, NEW t, C!Computed(u, t, d, v),
           NEW k \in Nat, IsCpu(t), IsCpu(Ticks(t, k)),
           NEW org, NEW code, NEW i, At(u, org, code, i)
    PROVE  LET w == Ticks(t, k)
           IN  At(w, org, code, i) /\ w.r = [u.r EXCEPT ![d] = v] /\ w.psl = t.psl
<1> DEFINE w == Ticks(t, k)
           n == t.clocks + k
<1>1. /\ t.bus = u.bus /\ t.pc = u.pc /\ t.irq = u.irq /\ t.halted = u.halted
      /\ t.r = [u.r EXCEPT ![d] = v]
  BY DEF C!Computed
<1>2. w = [t EXCEPT !.clocks = n]
  BY DEF Ticks
<1> HIDE DEF w, n
<1>3. /\ w.bus = t.bus /\ w.pc = t.pc /\ w.irq = t.irq /\ w.halted = t.halted
      /\ w.r = t.r /\ w.psl = t.psl
  BY <1>2 DEF IsCpu, C!Cpus
<1>4. IsCpu(w)
  BY DEF w
<1>5. At(w, org, code, i) /\ w.r = [u.r EXCEPT ![d] = v] /\ w.psl = t.psl
  BY <1>1, <1>3, <1>4 DEF At
<1>6. QED
  BY <1>5 DEF w

\* The code goes on with addi of b to register n, n being 0 or 1,
Adds(s, org, code, i, j, n, b) ==
    /\ n \in {0, 1} /\ j = i + 2 /\ b = code[i + 2]
    /\ Pending(s, org, code, i, 132 + n)

\* whose sum and carries
Sum(s, t, n, b) ==
    LET a == s.r[n]
        c == C!Bit(s.psl, C!WC) * C!Bit(s.psl, C!CARRY)
    IN  /\ t.r = [s.r EXCEPT ![n] = (a + b + c) % 256]
        /\ C!ModesKept(s, t)
        /\ C!Bit(t.psl, C!CARRY) = (a + b + c) \div 256
        /\ C!Bit(t.psl, C!IDC) = ((a % 16) + (b % 16) + c) \div 16

\* it leaves.
LEMMA Adding ==
    ASSUME NEW s, NEW org, NEW code, NEW i, NEW j, NEW n, NEW b, Adds(s, org, code, i, j, n, b)
    PROVE  At(C!CpuStep(s).s, org, code, j) /\ Sum(s, C!CpuStep(s).s, n, b)
<1> DEFINE u == FetchedTwo(s)
           op == 132 + n
           o == Immediate(u, n, b)
           t == C!Add(u, n, b)
           w == C!CpuStep(s).s
           a == s.r[n]
           c == C!Bit(s.psl, C!WC) * C!Bit(s.psl, C!CARRY)
           v == (a + b + c) % 256
<1>0. /\ n \in {0, 1} /\ j = i + 2 /\ b = code[i + 2]
      /\ Pending(s, org, code, i, op)
  BY DEF Adds
<1>1. /\ op \in C!Combines /\ op \in 128 .. 143 /\ op % 4 = n /\ (op \div 4) % 4 = 1
      /\ n \in 0 .. 3 /\ n \in 0 .. 6
  BY <1>0 DEF C!Combines
<1>2. C!Combine(op, o) = [k |-> 6, s |-> t]
  <2>1. o.d = n /\ o.v = b /\ o.k = 6 /\ o.s = u
    BY DEF Immediate
  <2> HIDE DEF op, u, o, t, a, c, v, w
  <2>2. C!Combine(op, o) = [k |-> o.k, s |-> C!Add(o.s, o.d, o.v)]
    BY <1>1, C!CombineIs
  <2>3. QED
    BY <2>1, <2>2 DEF t
<1>3. /\ At(u, org, code, j) /\ u.r = s.r /\ u.psl = s.psl /\ b \in Byte
      /\ w = Ticks(C!Combine(op, o).s, C!Combine(op, o).k)
  <2>1. Pending(s, org, code, i, op) /\ IsImmediate(op, n)
    BY <1>0, <1>1 DEF IsImmediate
  <2> HIDE DEF op
  <2>2. QED
    BY <1>0, <2>1, Immediately
<1> HIDE DEF o, op
<1>4. w = Ticks(t, 6)
  BY <1>2, <1>3
<1>5. IsCpu(u) /\ IsCpu(s)
  BY <1>0, <1>3 DEF At, Pending
<1> HIDE DEF u
<1> DEFINE now == u.clocks
<1>6. now \in Nat /\ u \in C!Cpus(Rams, now) /\ b \in C!Byte
  BY <1>3, <1>5, Same DEF IsCpu
<1> HIDE DEF now
<1>7. t \in C!Cpus(Rams, now)
  BY <1>1, <1>6, C!AddType
<1>8. /\ C!Computed(u, t, n, v)
      /\ C!ModesKept(u, t)
      /\ C!Bit(t.psl, C!CARRY) = (a + b + c) \div 256
      /\ C!Bit(t.psl, C!IDC) = ((a % 16) + (b % 16) + c) \div 16
  <2> DEFINE au == u.r[n]
             cu == C!Bit(u.psl, C!WC) * C!Bit(u.psl, C!CARRY)
             vu == (au + b + cu) % 256
  <2>1. au = a /\ cu = c
    BY <1>3
  <2>2. /\ C!Computed(u, t, n, vu)
        /\ C!ModesKept(u, t)
        /\ C!Bit(t.psl, C!CARRY) = (au + b + cu) \div 256
        /\ C!Bit(t.psl, C!IDC) = ((au % 16) + (b % 16) + cu) \div 16
    BY <1>1, <1>6, C!AddIs
  <2> HIDE DEF au, cu, a, c
  <2>3. QED
    BY <2>1, <2>2
<1>9. c \in {0, 1} /\ a \in Byte
  <2>1. u.psl \in C!Byte /\ u.r[n] \in C!Byte
    BY <1>1, <1>6, C!Parts, C!RegisterIn
  <2>2. C!Bit(s.psl, C!WC) \in {0, 1} /\ C!Bit(s.psl, C!CARRY) \in {0, 1}
    BY <1>3, <2>1, C!FlagBits
  <2>3. a \in Byte
    BY <1>3, <2>1, Same
  <2>4. QED
    BY <2>2, <2>3
<1> HIDE DEF t, a, c
<1>10. v \in Byte
  BY <1>3, <1>9 DEF Byte
<1> HIDE DEF v
<1>11. IsCpu(t) /\ t.clocks = now
  BY <1>6, <1>7, C!Parts DEF IsCpu
<1>12. IsCpu(w)
  BY <1>5, StepKeeps
<1> HIDE DEF w
<1>13. At(w, org, code, j) /\ w.r = [u.r EXCEPT ![n] = v] /\ w.psl = t.psl
  <2>1. IsCpu(Ticks(t, 6)) /\ 6 \in Nat
    BY <1>4, <1>12
  <2>2. QED
    BY <1>1, <1>3, <1>4, <1>5, <1>8, <1>10, <1>11, <2>1, Ticked
<1>14. C!ModesKept(s, w)
  BY <1>3, <1>8, <1>13 DEF C!ModesKept
<1>15. QED
  BY <1>3, <1>8, <1>13, <1>14 DEF Sum, a, c, v, w

\* Or with subi, whose difference
Subtracts(s, org, code, i, j, n, b) ==
    /\ n \in {0, 1} /\ j = i + 2 /\ b = code[i + 2]
    /\ Pending(s, org, code, i, 164 + n)

\* and borrows, and overflow,
Difference(s, t, n, b) ==
    LET a == s.r[n]
        c == C!Bit(s.psl, C!WC) * (1 - C!Bit(s.psl, C!CARRY))
        v == (a - b - c) % 256
    IN  /\ t.r = [s.r EXCEPT ![n] = v]
        /\ C!ModesKept(s, t)
        /\ C!Bit(t.psl, C!CARRY) = IF a - b - c < 0 THEN 0 ELSE 1
        /\ C!Bit(t.psl, C!IDC) = 0 <=> (a % 16) < (b % 16) + c
        /\ C!Bit(t.psl, C!OVF) = 1 <=> ((a < 128) # (b < 128)) /\ ((a < 128) # (v < 128))

\* it leaves.
LEMMA Subtracting ==
    ASSUME NEW s, NEW org, NEW code, NEW i, NEW j, NEW n, NEW b, Subtracts(s, org, code, i, j, n, b)
    PROVE  At(C!CpuStep(s).s, org, code, j) /\ Difference(s, C!CpuStep(s).s, n, b)
<1> DEFINE u == FetchedTwo(s)
           op == 164 + n
           o == Immediate(u, n, b)
           t == C!Sub(u, n, b)
           w == C!CpuStep(s).s
           a == s.r[n]
           c == C!Bit(s.psl, C!WC) * (1 - C!Bit(s.psl, C!CARRY))
           v == (a - b - c) % 256
<1>0. /\ n \in {0, 1} /\ j = i + 2 /\ b = code[i + 2]
      /\ Pending(s, org, code, i, op)
  BY DEF Subtracts
<1>1. /\ op \in C!Combines /\ op \in 160 .. 175 /\ op % 4 = n /\ (op \div 4) % 4 = 1
      /\ n \in 0 .. 3 /\ n \in 0 .. 6
  BY <1>0 DEF C!Combines
<1>2. C!Combine(op, o) = [k |-> 6, s |-> t]
  <2>1. o.d = n /\ o.v = b /\ o.k = 6 /\ o.s = u
    BY DEF Immediate
  <2> HIDE DEF op, u, o, t, a, c, v, w
  <2>2. C!Combine(op, o) = [k |-> o.k, s |-> C!Sub(o.s, o.d, o.v)]
    BY <1>1, C!CombineIs
  <2>3. QED
    BY <2>1, <2>2 DEF t
<1>3. /\ At(u, org, code, j) /\ u.r = s.r /\ u.psl = s.psl /\ b \in Byte
      /\ w = Ticks(C!Combine(op, o).s, C!Combine(op, o).k)
  <2>1. Pending(s, org, code, i, op) /\ IsImmediate(op, n)
    BY <1>0, <1>1 DEF IsImmediate
  <2> HIDE DEF op
  <2>2. QED
    BY <1>0, <2>1, Immediately
<1> HIDE DEF o, op
<1>4. w = Ticks(t, 6)
  BY <1>2, <1>3
<1>5. IsCpu(u) /\ IsCpu(s)
  BY <1>0, <1>3 DEF At, Pending
<1> HIDE DEF u
<1> DEFINE now == u.clocks
<1>6. now \in Nat /\ u \in C!Cpus(Rams, now) /\ b \in C!Byte
  BY <1>3, <1>5, Same DEF IsCpu
<1> HIDE DEF now
<1>7. t \in C!Cpus(Rams, now)
  BY <1>1, <1>6, C!SubType
<1>8. /\ C!Computed(u, t, n, v)
      /\ C!ModesKept(u, t)
      /\ C!Bit(t.psl, C!CARRY) = IF a - b - c < 0 THEN 0 ELSE 1
      /\ C!Bit(t.psl, C!IDC) = 0 <=> (a % 16) < (b % 16) + c
      /\ C!Bit(t.psl, C!OVF) = 1 <=> ((a < 128) # (b < 128)) /\ ((a < 128) # (v < 128))
  <2> DEFINE au == u.r[n]
             cu == C!Bit(u.psl, C!WC) * (1 - C!Bit(u.psl, C!CARRY))
             vu == (au - b - cu) % 256
  <2>1. au = a /\ cu = c
    BY <1>3
  <2>2. /\ C!Computed(u, t, n, vu)
        /\ C!ModesKept(u, t)
        /\ C!Bit(t.psl, C!CARRY) = IF au - b - cu < 0 THEN 0 ELSE 1
        /\ C!Bit(t.psl, C!IDC) = 0 <=> (au % 16) < (b % 16) + cu
        /\ C!Bit(t.psl, C!OVF) = 1 <=> ((au < 128) # (b < 128)) /\ ((au < 128) # (vu < 128))
    BY <1>1, <1>6, C!SubIs
  <2> HIDE DEF au, cu, a, c
  <2>3. QED
    BY <2>1, <2>2
<1>9. c \in {0, 1} /\ a \in Byte
  <2>1. u.psl \in C!Byte /\ u.r[n] \in C!Byte
    BY <1>1, <1>6, C!Parts, C!RegisterIn
  <2>2. C!Bit(s.psl, C!WC) \in {0, 1} /\ C!Bit(s.psl, C!CARRY) \in {0, 1}
    BY <1>3, <2>1, C!FlagBits
  <2>3. a \in Byte
    BY <1>3, <2>1, Same
  <2>4. QED
    BY <2>2, <2>3
<1> HIDE DEF t, a, c
<1>10. v \in Byte
  BY <1>3, <1>9 DEF Byte
<1> HIDE DEF v
<1>11. IsCpu(t) /\ t.clocks = now
  BY <1>6, <1>7, C!Parts DEF IsCpu
<1>12. IsCpu(w)
  BY <1>5, StepKeeps
<1> HIDE DEF w
<1>13. At(w, org, code, j) /\ w.r = [u.r EXCEPT ![n] = v] /\ w.psl = t.psl
  <2>1. IsCpu(Ticks(t, 6)) /\ 6 \in Nat
    BY <1>4, <1>12
  <2>2. QED
    BY <1>1, <1>3, <1>4, <1>5, <1>8, <1>10, <1>11, <2>1, Ticked
<1>14. C!ModesKept(s, w)
  BY <1>3, <1>8, <1>13 DEF C!ModesKept
<1>15. QED
  BY <1>3, <1>8, <1>13, <1>14 DEF Difference, a, c, v, w

\* Or with comi, which leaves the condition code, and changes nothing else.
Compares(s, org, code, i, n, b) ==
    /\ n \in {0, 1} /\ b = code[i + 2]
    /\ Pending(s, org, code, i, 228 + n)

Verdict(s, t, n, b) ==
    LET a == s.r[n]
        less == IF C!Bit(s.psl, C!COM) = 1 THEN a < b ELSE Signed(a) < Signed(b)
    IN  /\ t.r = s.r
        /\ C!CC(t) = IF less THEN 2 ELSE IF a = b THEN 0 ELSE 1
        /\ \A m \in {1, 2, 4, 8, 16, 32} : C!Bit(t.psl, m) = C!Bit(s.psl, m)

\* One compare instruction sets the condition code its verdict asks for.
LEMMA Comparing ==
    ASSUME NEW s, NEW org, NEW code, NEW i, NEW n, NEW b, Compares(s, org, code, i, n, b)
    PROVE  Verdict(s, C!CpuStep(s).s, n, b)
<1> DEFINE u == FetchedTwo(s)
           op == 228 + n
           o == Immediate(u, n, b)
           a == s.r[n]
           t == C!Com(u, a, b)
           w == C!CpuStep(s).s
           less == IF C!Bit(s.psl, C!COM) = 1 THEN a < b ELSE Signed(a) < Signed(b)
<1>0. /\ n \in {0, 1} /\ b = code[i + 2] /\ Pending(s, org, code, i, op)
  BY DEF Compares
<1>1. /\ op \in C!Combines /\ op \in 224 .. 239 /\ op % 4 = n /\ (op \div 4) % 4 = 1
      /\ n \in 0 .. 3 /\ n \in 0 .. 6
  BY <1>0 DEF C!Combines
<1>2. /\ At(u, org, code, i + 2) /\ u.r = s.r /\ u.psl = s.psl /\ b \in Byte
      /\ w = Ticks(C!Combine(op, o).s, C!Combine(op, o).k)
  <2>1. Pending(s, org, code, i, op) /\ IsImmediate(op, n)
    BY <1>0, <1>1 DEF IsImmediate
  <2> HIDE DEF op
  <2>2. QED
    BY <1>0, <2>1, Immediately
<1>3. C!Combine(op, o) = [k |-> 6, s |-> t]
  <2>1. o.d = n /\ o.v = b /\ o.k = 6 /\ o.s = u
    BY DEF Immediate
  <2> HIDE DEF op, u, o, t, a, w, less
  <2>2. C!Combine(op, o) = [k |-> o.k, s |-> C!Com(o.s, o.s.r[o.d], o.v)]
    BY <1>1, C!CombineIs
  <2>3. QED
    BY <1>2, <2>1, <2>2 DEF t, a
<1> HIDE DEF o, op
<1>4. w = Ticks(t, 6)
  BY <1>2, <1>3
<1>5. IsCpu(u)
  BY <1>2 DEF At
<1> HIDE DEF u
<1> DEFINE now == u.clocks
<1>6. now \in Nat /\ u \in C!Cpus(Rams, now) /\ b \in C!Byte
  BY <1>2, <1>5, Same DEF IsCpu
<1> HIDE DEF now
<1>7. a \in C!Byte
  BY <1>1, <1>2, <1>6, C!RegisterIn
<1> HIDE DEF a
<1>8. t \in C!Cpus(Rams, now)
  BY <1>6, <1>7, C!ComType
<1>9. /\ C!CC(t) = IF less THEN 2 ELSE IF a = b THEN 0 ELSE 1
      /\ t.r = u.r
      /\ \A m \in {1, 2, 4, 8, 16, 32} : C!Bit(t.psl, m) = C!Bit(u.psl, m)
  BY <1>2, <1>6, <1>7, C!ComIs, Same
<1> HIDE DEF t, less
<1>10. w.r = t.r /\ w.psl = t.psl
  <2> DEFINE n6 == t.clocks + 6
  <2>1. w = [t EXCEPT !.clocks = n6]
    BY <1>4 DEF Ticks
  <2> HIDE DEF n6, w
  <2>2. QED
    BY <1>8, <2>1 DEF C!Cpus
<1> HIDE DEF w
<1>11. /\ w.r = s.r
       /\ C!CC(w) = IF less THEN 2 ELSE IF a = b THEN 0 ELSE 1
       /\ \A m \in {1, 2, 4, 8, 16, 32} : C!Bit(w.psl, m) = C!Bit(s.psl, m)
  BY <1>2, <1>9, <1>10 DEF C!CC
<1>12. QED
  BY <1>11 DEF Verdict, w, less, a

\* dar,r0: the code goes on with it, and it adjusts R0 by the carries.
Adjusts(s, org, code, i, j) ==
    /\ WithinPage(org) /\ code \in Seq(Byte) /\ i \in 0 .. 6 /\ i < Len(code) /\ j = i + 1
    /\ At(s, org, code, i) /\ C!Bit(s.psl, C!RS) = 0 /\ code[i + 1] = 148

Adjustment(a, carry, idc) ==
    LET high == IF carry = 0 THEN (a + 160) % 256 ELSE a
    IN  IF idc = 0 THEN high - (high % 16) + ((high + 10) % 16) ELSE high

Adjusted(s, t) ==
    /\ t.r = [s.r EXCEPT ![0] = Adjustment(s.r[0], C!Bit(s.psl, C!CARRY), C!Bit(s.psl, C!IDC))]
    /\ t.psl = s.psl

\* One dar adjusts R0 by the carries and leaves the status alone.
LEMMA Adjusting ==
    ASSUME NEW s, NEW org, NEW code, NEW i, NEW j, Adjusts(s, org, code, i, j)
    PROVE  Adjusted(s, C!CpuStep(s).s)
<1> DEFINE f == C!Fetch(s)
           u == f.s
           t == C!Dar(u, 0)
           w == C!CpuStep(s).s
           a == u.r[0]
           high == IF C!Bit(u.psl, C!CARRY) = 0 THEN (a + 160) % 256 ELSE a
           v == IF C!Bit(u.psl, C!IDC) = 0 THEN high - (high % 16) + ((high + 10) % 16) ELSE high
<1> USE DEF Adjusts
<1>1. f.v = 148 /\ At(u, org, code, j) /\ u.r = s.r /\ u.psl = s.psl
  BY Fetching
<1>2. ~s.irq /\ ~s.halted /\ IsCpu(u)
  BY <1>1 DEF At
<1>3. C!Ri(u, 0) = 0
  BY <1>1 DEF C!Ri
<1>4. C!Execute(f) = [k |-> 9, s |-> t]
  <2> HIDE DEF f
  <2> DEFINE e == C!Inherent(u, 148)
  <2>1. C!Execute(f) = C!Exec(u, 148)
    BY <1>1 DEF C!Execute
  <2>2. /\ 148 \notin C!Combines /\ 148 \notin 200 .. 207 /\ 148 \notin C!Immediates
        /\ 148 \notin C!Branches /\ 148 \notin C!Specials
    BY DEF C!Combines, C!Immediates, C!Branches, C!Specials
  <2>3. C!InherentClocks(148) = 9
    BY DEF C!InherentClocks
  <2>4. e = C!Dar(u, C!Ri(u, 148 % 4))
    BY DEF C!Inherent, C!Illegal
  <2>5. 148 % 4 = 0
    OBVIOUS
  <2> HIDE DEF e
  <2>6. e = t
    BY <1>3, <2>4, <2>5
  <2>7. C!Exec(u, 148) = [s |-> e, k |-> C!InherentClocks(148)]
    BY <2>2, C!ExecIs DEF e
  <2>8. QED
    BY <2>1, <2>3, <2>6, <2>7
<1>5. C!CpuStep(s) = [C!Execute(f) EXCEPT !.s.clocks = C!Execute(f).s.clocks + C!Execute(f).k]
  BY <1>2 DEF C!CpuStep
<1> HIDE DEF t
<1>6. w = Ticks(t, 9)
  BY <1>4, <1>5 DEF Ticks
<1> HIDE DEF u, w
<1> DEFINE now == u.clocks
<1>7. now \in Nat /\ u \in C!Cpus(Rams, now)
  BY <1>2 DEF IsCpu
<1> HIDE DEF now
<1>8. t \in C!Cpus(Rams, now)
  BY <1>7, C!DarType DEF t
<1>9. C!Computed(u, t, 0, v) /\ t.psl = u.psl
  BY <1>7, C!DarIs DEF t
<1> HIDE DEF v, high, a
<1>10. w.r = t.r /\ w.psl = t.psl
  <2> DEFINE n9 == t.clocks + 9
  <2>1. w = [t EXCEPT !.clocks = n9]
    BY <1>6 DEF Ticks
  <2> HIDE DEF n9
  <2>2. QED
    BY <1>8, <2>1 DEF C!Cpus
<1>11. w.r = [u.r EXCEPT ![0] = v] /\ w.psl = s.psl
  BY <1>1, <1>9, <1>10 DEF C!Computed
<1>12. QED
  BY <1>1, <1>11 DEF Adjusted, Adjustment, w, v, high, a

(***************************************************************************)
(* Rotations.                                                              *)
(***************************************************************************)

\* The CPU is about to execute rrr,r0 or rrl,r0,
Rotates(s, org, code, i, op) ==
    /\ WithinPage(org) /\ code \in Seq(Byte) /\ i \in 0 .. 8 /\ i < Len(code)
    /\ At(s, org, code, i) /\ C!Bit(s.psl, C!RS) = 0 /\ op \in {80, 208} /\ code[i + 1] = op

\* which moves a bit out, another in, and with WC set the one out to the carry.
BitOut(a, op) == IF op = 208 THEN a \div 128 ELSE a % 2
MovedIn(a, op, in) == IF op = 208 THEN ((a * 2) % 256) + in ELSE (a \div 2) + 128 * in

Rotated(s, t, op) ==
    LET a == s.r[0]
        carry == C!Bit(s.psl, C!CARRY)
        through == C!Bit(s.psl, C!WC) = 1
    IN  /\ t.r = [s.r EXCEPT ![0] = MovedIn(a, op, IF through THEN carry ELSE BitOut(a, op))]
        /\ C!ModesKept(s, t)
        /\ C!Bit(t.psl, C!CARRY) = IF through THEN BitOut(a, op) ELSE carry

\* One rotation of R0, with or without the carry, fetched and executed.
LEMMA Rotating ==
    ASSUME NEW s, NEW org, NEW code, NEW i, NEW op, Rotates(s, org, code, i, op)
    PROVE  /\ Rotated(s, C!CpuStep(s).s, op)
           /\ At(C!CpuStep(s).s, org, code, i + 1)
<1> DEFINE f == C!Fetch(s)
           u == f.s
           leftward == op = 208
           t == C!Rotate(u, 0, leftward)
           w == C!CpuStep(s).s
           a == u.r[0]
           out == IF leftward THEN a \div 128 ELSE a % 2
           in == IF C!Bit(u.psl, C!WC) = 1 THEN C!Bit(u.psl, C!CARRY) ELSE out
           v == IF leftward THEN ((a * 2) % 256) + in ELSE (a \div 2) + 128 * in
<1> USE DEF Rotates
<1>1. f.v = op /\ At(u, org, code, i + 1) /\ u.r = s.r /\ u.psl = s.psl
  BY Fetching
<1>2. ~s.irq /\ ~s.halted /\ IsCpu(u)
  BY <1>1 DEF At
<1>3. C!Ri(u, 0) = 0
  BY <1>1 DEF C!Ri
<1>4. C!Execute(f) = [k |-> 6, s |-> t]
  <2> HIDE DEF f
  <2> DEFINE e == C!Inherent(u, op)
  <2>1. C!Execute(f) = C!Exec(u, op)
    BY <1>1 DEF C!Execute
  <2>2. /\ op \notin C!Combines /\ op \notin 200 .. 207 /\ op \notin C!Immediates
        /\ op \notin C!Branches /\ op \notin C!Specials
    BY DEF C!Combines, C!Immediates, C!Branches, C!Specials
  <2>3. C!InherentClocks(op) = 6
    BY DEF C!InherentClocks
  <2>4. op % 4 = 0 /\ (op = 208 => leftward = C!Left) /\ (op = 80 => leftward = C!Right)
    BY DEF C!Left, C!Right
  <2>5. op = 80 => e = C!Rotate(u, C!Ri(u, op % 4), C!Right)
    BY DEF C!Inherent, C!Illegal
  <2>6. op = 208 => e = C!Rotate(u, C!Ri(u, op % 4), C!Left)
    BY DEF C!Inherent, C!Illegal
  <2> HIDE DEF e, leftward, t
  <2>7. e = t
    BY <1>3, <2>4, <2>5, <2>6 DEF t
  <2>8. C!Exec(u, op) = [s |-> e, k |-> C!InherentClocks(op)]
    BY <2>2, C!ExecIs DEF e
  <2>9. QED
    BY <2>1, <2>3, <2>7, <2>8
<1>5. C!CpuStep(s) = [C!Execute(f) EXCEPT !.s.clocks = C!Execute(f).s.clocks + C!Execute(f).k]
  BY <1>2 DEF C!CpuStep
<1> HIDE DEF t
<1>6. w = Ticks(t, 6)
  BY <1>4, <1>5 DEF Ticks
<1> DEFINE now == u.clocks
<1>7. now \in Nat /\ u \in C!Cpus(Rams, now) /\ leftward \in BOOLEAN
  BY <1>2 DEF IsCpu
<1> HIDE DEF u, w, now, leftward
<1>8. t \in C!Cpus(Rams, now)
  BY <1>7, C!RotateType DEF t
<1>9. /\ C!Computed(u, t, 0, v) /\ C!ModesKept(u, t)
      /\ C!Bit(t.psl, C!CARRY) = IF C!Bit(u.psl, C!WC) = 1 THEN out ELSE C!Bit(u.psl, C!CARRY)
  BY <1>7, C!RotateIs DEF t
<1> HIDE DEF v, in, out, a
<1>10. /\ w.r = t.r /\ w.psl = t.psl /\ w.pc = t.pc /\ w.bus = t.bus
       /\ w.irq = t.irq /\ w.halted = t.halted
  <2> DEFINE n6 == t.clocks + 6
  <2>1. w = [t EXCEPT !.clocks = n6]
    BY <1>6 DEF Ticks
  <2> HIDE DEF n6
  <2>2. QED
    BY <1>8, <2>1 DEF C!Cpus
<1>11. At(w, org, code, i + 1)
  <2>1. IsCpu(w)
    BY StepKeeps DEF At, w
  <2>2. /\ w.pc = u.pc /\ w.bus = u.bus /\ w.irq = u.irq /\ w.halted = u.halted
    BY <1>9, <1>10 DEF C!Computed
  <2>3. QED
    BY <1>1, <2>1, <2>2 DEF At
<1>12. Rotated(s, w, op)
  <2>1. v = MovedIn(a, op, in) /\ out = BitOut(a, op)
    BY DEF v, MovedIn, BitOut, out, leftward
  <2>2. in = IF C!Bit(u.psl, C!WC) = 1 THEN C!Bit(u.psl, C!CARRY) ELSE out
    BY DEF in
  <2>3. a = s.r[0]
    BY <1>1 DEF a
  <2>4. w.r = [s.r EXCEPT ![0] = v]
    BY <1>1, <1>9, <1>10 DEF C!Computed
  <2>5. C!ModesKept(s, w)
    BY <1>1, <1>9, <1>10 DEF C!ModesKept
  <2>6. QED
    BY <1>1, <1>9, <1>10, <2>1, <2>2, <2>3, <2>4, <2>5 DEF Rotated
<1>13. QED
  BY <1>11, <1>12 DEF w

\* y is x with its upper part, below p, and its lower part, below q, exchanged.
Turned(p, q, x, y) ==
    \E hi, lo \in Nat : hi < p /\ lo < q /\ x = hi * q + lo /\ y = lo * p + hi

\* One step to the left in a ring of values below 2 * half.
LEMMA TurnLeft ==
    ASSUME NEW half \in {128, 256}, NEW p \in Nat, NEW q \in Nat, p * q = half,
           NEW x, NEW y, Turned(p, 2 * q, x, y)
    PROVE  Turned(2 * p, q, x, ((2 * y) % (2 * half)) + (y \div half))
<1>1. PICK hi, lo \in Nat : hi < p /\ lo < 2 * q /\ x = hi * (2 * q) + lo /\ y = lo * p + hi
  BY DEF Turned
<1> DEFINE bit == IF lo < q THEN 0 ELSE 1
           rest == lo - bit * q
           z == rest * p
<1>2. bit \in {0, 1} /\ rest \in Nat /\ rest < q /\ lo = bit * q + rest
  BY <1>1
<1> HIDE DEF bit, rest
<1>3. z \in Nat /\ z + p <= half
  <2>1. z = p * rest /\ rest \in Nat
    BY <1>2
  <2>2. (q - 1 - rest) * p >= 0
    BY <1>2
  <2>3. (q - 1 - rest) * p = half - p - z
    BY <1>2
  <2>4. z \in Nat
    BY <1>2
  <2>5. QED
    BY <2>2, <2>3, <2>4
<1>4. y = bit * half + z + hi
  BY <1>1, <1>2
<1>5. x = (2 * hi + bit) * q + rest
  BY <1>1, <1>2
<1>6. rest * (2 * p) = 2 * z
  BY <1>2
<1> HIDE DEF z
<1>7. ((2 * y) % (2 * half)) + (y \div half) = 2 * z + (2 * hi + bit)
  BY <1>1, <1>2, <1>3, <1>4
<1>8. 2 * hi + bit \in Nat /\ 2 * hi + bit < 2 * p
  BY <1>1, <1>2
<1>9. QED
  BY <1>2, <1>5, <1>6, <1>7, <1>8 DEF Turned

\* and one to the right.
LEMMA TurnRight ==
    ASSUME NEW half \in {128, 256}, NEW p \in Nat, NEW q \in Nat, p * q = half,
           NEW x, NEW y, Turned(2 * p, q, x, y)
    PROVE  Turned(p, 2 * q, x, (y \div 2) + half * (y % 2))
<1>1. PICK hi, lo \in Nat : hi < 2 * p /\ lo < q /\ x = hi * q + lo /\ y = lo * (2 * p) + hi
  BY DEF Turned
<1> DEFINE bit == hi % 2
           rest == hi \div 2
           z == lo * p
<1>2. bit \in {0, 1} /\ rest \in Nat /\ rest < p /\ hi = 2 * rest + bit
  BY <1>1
<1> HIDE DEF bit, rest
<1>3. z \in Nat /\ lo * (2 * p) = 2 * z
  BY <1>1
<1>4. x = rest * (2 * q) + (bit * q + lo)
  BY <1>1, <1>2
<1>5. (bit * q + lo) * p = bit * half + z
  BY <1>1, <1>2
<1> HIDE DEF z
<1>6. (y \div 2) + half * (y % 2) = bit * half + z + rest
  BY <1>1, <1>2, <1>3
<1>7. bit * q + lo \in Nat /\ bit * q + lo < 2 * q
  BY <1>1, <1>2
<1>8. QED
  <2> DEFINE low == bit * q + lo
             v == (y \div 2) + half * (y % 2)
  <2>1. low \in Nat /\ low < 2 * q /\ x = rest * (2 * q) + low
    BY <1>4, <1>7
  <2>2. v = low * p + rest
    BY <1>5, <1>6, <1>2, <1>3
  <2> HIDE DEF low, v
  <2>3. Turned(p, 2 * q, x, v)
    BY <1>2, <2>1, <2>2 DEF Turned
  <2>4. QED
    BY <2>3 DEF v

\* The bits that turn: R0, or the carry and R0.
Ring(n, carry, a) == IF n = 9 THEN 256 * carry + a ELSE a

\* A rotation of one bit turns them.
LEMMA RingTurns ==
    ASSUME NEW n \in {8, 9}, NEW a \in Byte, NEW carry \in {0, 1}, NEW op \in {80, 208}
    PROVE  LET half == IF n = 9 THEN 256 ELSE 128
               out == BitOut(a, op)
               y == Ring(n, carry, a)
               b == MovedIn(a, op, IF n = 9 THEN carry ELSE out)
               next == Ring(n, IF n = 9 THEN out ELSE carry, b)
           IN  /\ b \in Byte /\ out \in {0, 1}
               /\ op = 208 => next = ((2 * y) % (2 * half)) + (y \div half)
               /\ op = 80 => next = (y \div 2) + half * (y % 2)
<1>1. a \in Nat /\ a < 256
  BY DEF Byte
<1>2. CASE n = 9
  BY <1>1, <1>2 DEF BitOut, MovedIn, Ring, Byte
<1>3. CASE n = 8
  BY <1>1, <1>3 DEF BitOut, MovedIn, Ring, Byte
<1>4. QED
  BY <1>2, <1>3

(***************************************************************************)
(* Numbers of 16 bits.                                                     *)
(***************************************************************************)

\* A number of 16 bits is its high byte and its low.
LEMMA HighAndLow ==
    ASSUME NEW a \in Nat, a < 65536
    PROVE  /\ a = 256 * (a \div 256) + (a % 256)
           /\ a % 256 \in Nat /\ a % 256 < 256
           /\ a \div 256 \in Nat /\ a \div 256 < 256
OBVIOUS

\* The sums of the low and the high bytes are that of the numbers,
LEMMA WideSum ==
    ASSUME NEW a \in Nat, a < 65536, NEW b \in Nat, b < 65536
    PROVE  LET low == (a % 256) + (b % 256)
               high == (a \div 256) + (b \div 256) + (low \div 256)
           IN  /\ 256 * (high % 256) + (low % 256) = (a + b) % 65536
               /\ high \div 256 = (a + b) \div 65536
<1> DEFINE al == a % 256
           ah == a \div 256
           bl == b % 256
           bh == b \div 256
           low == al + bl
           lowc == low \div 256
           lowb == low % 256
           high == ah + bh + lowc
<1>1. /\ a = 256 * ah + al /\ al \in Nat /\ al < 256 /\ ah \in Nat /\ ah < 256
      /\ b = 256 * bh + bl /\ bl \in Nat /\ bl < 256 /\ bh \in Nat /\ bh < 256
  BY HighAndLow
<1> HIDE DEF al, ah, bl, bh
<1>2. low = 256 * lowc + lowb /\ lowc \in Nat /\ lowb \in Nat /\ lowb < 256
  BY <1>1
<1>3. high \in Nat
  BY <1>1, <1>2
<1> HIDE DEF lowc, lowb
<1>4. 256 * high + lowb = a + b
  BY <1>1, <1>2
<1> HIDE DEF high, low
<1>5. /\ (a + b) % 65536 = 256 * (high % 256) + lowb
      /\ (a + b) \div 65536 = high \div 256
  <2> DEFINE hc == high \div 256
             hb == high % 256
  <2>1. high = 256 * hc + hb /\ hc \in Nat /\ hb \in Nat /\ hb < 256
    BY <1>3
  <2> HIDE DEF hc, hb
  <2>2. a + b = 65536 * hc + (256 * hb + lowb) /\ 256 * hb + lowb \in Nat /\ 256 * hb + lowb < 65536
    BY <1>2, <1>4, <2>1
  <2>3. (a + b) % 65536 = 256 * hb + lowb /\ (a + b) \div 65536 = hc
    BY <2>1, <2>2
  <2>4. QED
    BY <2>3 DEF hc, hb
<1>6. QED
  BY <1>5 DEF low, lowc, lowb, high, al, ah, bl, bh

\* and their differences.
LEMMA WideDifference ==
    ASSUME NEW a \in Nat, a < 65536, NEW b \in Nat, b < 65536
    PROVE  LET low == (a % 256) - (b % 256)
               borrow == IF low < 0 THEN 1 ELSE 0
               high == (a \div 256) - (b \div 256) - borrow
           IN  /\ 256 * (high % 256) + (low % 256) = (a - b) % 65536
               /\ high < 0 <=> a - b < 0
<1> DEFINE al == a % 256
           ah == a \div 256
           bl == b % 256
           bh == b \div 256
           low == al - bl
           lowb == low % 256
           borrow == IF low < 0 THEN 1 ELSE 0
           high == ah - bh - borrow
<1>1. /\ a = 256 * ah + al /\ al \in Nat /\ al < 256 /\ ah \in Nat /\ ah < 256
      /\ b = 256 * bh + bl /\ bl \in Nat /\ bl < 256 /\ bh \in Nat /\ bh < 256
  BY HighAndLow
<1> HIDE DEF al, ah, bl, bh
<1>2. lowb = low + 256 * borrow /\ borrow \in {0, 1} /\ lowb \in Nat /\ lowb < 256
  BY <1>1
<1>3. high \in Int /\ low \in Int
  BY <1>1, <1>2
<1> HIDE DEF lowb, borrow
<1>4. 256 * high + lowb = a - b
  BY <1>1, <1>2
<1> HIDE DEF high, low
<1>5. /\ (a - b) % 65536 = 256 * (high % 256) + lowb
      /\ high < 0 <=> a - b < 0
  <2> DEFINE hc == high \div 256
             hb == high % 256
  <2>1. high = 256 * hc + hb /\ hc \in Int /\ hb \in Nat /\ hb < 256
    BY <1>3
  <2> HIDE DEF hc, hb
  <2>2. a - b = 65536 * hc + (256 * hb + lowb) /\ 256 * hb + lowb \in Nat /\ 256 * hb + lowb < 65536
    BY <1>2, <1>4, <2>1
  <2>3. a - b \in Int
    OBVIOUS
  <2> DEFINE d == a - b
             r == 256 * hb + lowb
  <2>4. d \in Int /\ hc \in Int /\ r \in Nat /\ r < 65536 /\ d = 65536 * hc + r
    BY <2>1, <2>2, <2>3
  <2> HIDE DEF d, r
  <2>5. d % 65536 = r
    BY <2>4
  <2>6. (a - b) % 65536 = 256 * hb + lowb
    BY <2>5 DEF d, r
  <2>7. high < 0 <=> a - b < 0
    BY <1>2, <1>3, <1>4
  <2>8. QED
    BY <2>6, <2>7 DEF hc, hb
<1>6. QED
  BY <1>5 DEF low, lowb, borrow, high, al, ah, bl, bh

\* The CPU, in bank 0, is about to execute the code from its byte i + 1 on, with WC.
Running(s, org, code, i, wc) ==
    /\ At(s, org, code, i)
    /\ C!Bit(s.psl, C!RS) = 0 /\ C!Bit(s.psl, C!WC) = wc

\* The code of the kinds is bytes.
LEMMA WideCodeIs ==
    ASSUME NEW b \in Nat, b < 65536, NEW op \in {132, 164}
    PROVE  LET code == WideCode(op, b)
           IN  /\ code \in Seq(Byte) /\ Len(code) = 4
               /\ code[1] = op /\ code[2] = b % 256 /\ code[3] = op + 1 /\ code[4] = b \div 256
<1> DEFINE low == b % 256
           high == b \div 256
<1>1. low \in Byte /\ high \in Byte
  BY HighAndLow DEF Byte
<1>2. WideCode(op, b) = <<op, low, op + 1, high>>
  BY DEF WideCode
<1>3. op \in Byte /\ op + 1 \in Byte
  BY DEF Byte
<1> HIDE DEF low, high
<1>4. QED
  BY <1>1, <1>2, <1>3 DEF low, high

\* An addition: not begun, its low byte done, done.
AddBegun(s, org, a, b) ==
    /\ Running(s, org, WideCode(132, b), 0, 1)
    /\ C!Bit(s.psl, C!CARRY) = 0
    /\ s.r[0] = a % 256 /\ s.r[1] = a \div 256

AddHalf(s, org, a, b) ==
    LET low == (a % 256) + (b % 256)
    IN  /\ Running(s, org, WideCode(132, b), 2, 1)
        /\ C!Bit(s.psl, C!CARRY) = low \div 256
        /\ s.r[0] = low % 256 /\ s.r[1] = a \div 256

AddDone(s, a, b) ==
    /\ 256 * s.r[1] + s.r[0] = (a + b) % 65536
    /\ C!Bit(s.psl, C!CARRY) = (a + b) \div 65536

\* The modes are kept and a register is computed.
LEMMA Ran ==
    ASSUME NEW s, NEW t, NEW org, NEW code, NEW i, NEW j, NEW wc, Running(s, org, code, i, wc),
           At(t, org, code, j), C!ModesKept(s, t)
    PROVE  Running(t, org, code, j, wc)
<1>1. C!Bit(t.psl, C!RS) = C!Bit(s.psl, C!RS) /\ C!Bit(t.psl, C!WC) = C!Bit(s.psl, C!WC)
  BY DEF C!ModesKept
<1>2. QED
  BY <1>1 DEF Running

\* There are seven registers.
LEMMA Registers7 ==
    ASSUME NEW s, IsCpu(s), NEW n \in 0 .. 6, NEW v
    PROVE  /\ [s.r EXCEPT ![n] = v][n] = v
           /\ \A m \in 0 .. 6 : m # n => [s.r EXCEPT ![n] = v][m] = s.r[m]
           /\ \A m \in 0 .. 6 : s.r[m] \in Byte
<1>1. s.r \in [0 .. 6 -> Byte]
  BY Same, C!Parts DEF IsCpu
<1>2. QED
  BY <1>1

\* Its low bytes are added,
LEMMA AddLow ==
    ASSUME NEW org, WithinPage(org), NEW a \in Nat, a < 65536, NEW b \in Nat, b < 65536,
           NEW s, AddBegun(s, org, a, b)
    PROVE  AddHalf(C!CpuStep(s).s, org, a, b)
<1> DEFINE code == WideCode(132, b)
           t == C!CpuStep(s).s
           al == a % 256
           bl == b % 256
           ah == a \div 256
           low == al + bl
           lowb == low % 256
           lowc == low \div 256
<1>1. /\ code \in Seq(Byte) /\ Len(code) = 4 /\ code[1] = 132 /\ code[2] = bl
      /\ al \in Nat /\ bl \in Nat /\ ah \in Nat
  BY WideCodeIs, HighAndLow
<1>2. /\ Running(s, org, code, 0, 1) /\ C!Bit(s.psl, C!CARRY) = 0
      /\ s.r[0] = al /\ s.r[1] = ah
  BY DEF AddBegun
<1>3. At(s, org, code, 0) /\ C!Bit(s.psl, C!RS) = 0 /\ C!Bit(s.psl, C!WC) = 1 /\ IsCpu(s)
  BY <1>2 DEF Running, At
<1> HIDE DEF code, al, bl, ah
<1>4. Pending(s, org, code, 0, 132)
  BY <1>1, <1>3 DEF Pending
<1>5. /\ At(t, org, code, 2) /\ t.r = [s.r EXCEPT ![0] = lowb] /\ C!ModesKept(s, t)
      /\ C!Bit(t.psl, C!CARRY) = lowc
  <2>1. Adds(s, org, code, 0, 2, 0, bl)
    BY <1>1, <1>4 DEF Adds
  <2>2. At(t, org, code, 2) /\ Sum(s, t, 0, bl)
    BY <2>1, Adding
  <2> HIDE DEF t
  <2>3. s.r[0] + bl + C!Bit(s.psl, C!WC) * C!Bit(s.psl, C!CARRY) = low
    BY <1>1, <1>2, <1>3
  <2> HIDE DEF low
  <2>4. QED
    BY <2>2, <2>3 DEF Sum
<1> HIDE DEF t, low, lowb, lowc
<1>6. t.r[0] = lowb /\ t.r[1] = ah
  BY <1>2, <1>3, <1>5, Registers7
<1>7. Running(t, org, code, 2, 1)
  BY <1>2, <1>5, Ran
<1>8. QED
  BY <1>5, <1>6, <1>7 DEF AddHalf, code, t, low, lowb, lowc, al, bl, ah

\* and its high bytes, with the carry.
LEMMA AddHigh ==
    ASSUME NEW org, WithinPage(org), NEW a \in Nat, a < 65536, NEW b \in Nat, b < 65536,
           NEW s, AddHalf(s, org, a, b)
    PROVE  AddDone(C!CpuStep(s).s, a, b)
<1> DEFINE code == WideCode(132, b)
           t == C!CpuStep(s).s
           ah == a \div 256
           bh == b \div 256
           low == (a % 256) + (b % 256)
           lowb == low % 256
           lowc == low \div 256
           high == ah + bh + lowc
           highb == high % 256
           highc == high \div 256
<1>1. /\ code \in Seq(Byte) /\ Len(code) = 4 /\ code[3] = 133 /\ code[4] = bh
      /\ bh \in Nat /\ ah \in Nat /\ low \in Nat /\ lowc \in Nat
  <2>1. a % 256 \in Nat /\ b % 256 \in Nat /\ bh \in Nat /\ ah \in Nat
    BY HighAndLow
  <2>2. low \in Nat
    BY <2>1
  <2> HIDE DEF low
  <2>3. lowc \in Nat
    BY <2>2
  <2>4. code \in Seq(Byte) /\ Len(code) = 4 /\ code[3] = 133 /\ code[4] = bh
    BY WideCodeIs
  <2>5. QED
    BY <2>1, <2>2, <2>3, <2>4
<1>2. /\ Running(s, org, code, 2, 1) /\ C!Bit(s.psl, C!CARRY) = lowc
      /\ s.r[0] = lowb /\ s.r[1] = ah
  BY DEF AddHalf
<1>3. At(s, org, code, 2) /\ C!Bit(s.psl, C!RS) = 0 /\ C!Bit(s.psl, C!WC) = 1 /\ IsCpu(s)
  BY <1>2 DEF Running, At
<1>4. 256 * highb + lowb = (a + b) % 65536 /\ highc = (a + b) \div 65536
  BY WideSum
<1> HIDE DEF code, bh, ah, lowb, lowc
<1>5. Pending(s, org, code, 2, 133)
  BY <1>1, <1>3 DEF Pending
<1>6. t.r = [s.r EXCEPT ![1] = highb] /\ C!Bit(t.psl, C!CARRY) = highc
  <2>1. Adds(s, org, code, 2, 4, 1, bh)
    BY <1>1, <1>5 DEF Adds
  <2>2. Sum(s, t, 1, bh)
    BY <2>1, Adding
  <2> HIDE DEF t
  <2>3. s.r[1] + bh + C!Bit(s.psl, C!WC) * C!Bit(s.psl, C!CARRY) = high
    BY <1>1, <1>2, <1>3
  <2> HIDE DEF high
  <2>4. QED
    BY <2>2, <2>3 DEF Sum
<1> HIDE DEF t, high, highb, highc
<1>7. t.r[1] = highb /\ t.r[0] = lowb
  BY <1>2, <1>3, <1>6, Registers7
<1>8. QED
  BY <1>4, <1>6, <1>7 DEF AddDone, t

\* A subtraction: the carry says there was no borrow.
SubBegun(s, org, a, b) ==
    /\ Running(s, org, WideCode(164, b), 0, 1)
    /\ C!Bit(s.psl, C!CARRY) = 1
    /\ s.r[0] = a % 256 /\ s.r[1] = a \div 256

SubHalf(s, org, a, b) ==
    LET low == (a % 256) - (b % 256)
    IN  /\ Running(s, org, WideCode(164, b), 2, 1)
        /\ C!Bit(s.psl, C!CARRY) = IF low < 0 THEN 0 ELSE 1
        /\ s.r[0] = low % 256 /\ s.r[1] = a \div 256

SubDone(s, a, b) ==
    /\ 256 * s.r[1] + s.r[0] = (a - b) % 65536
    /\ C!Bit(s.psl, C!CARRY) = 1 <=> a - b >= 0

\* Its low bytes are subtracted,
LEMMA SubLow ==
    ASSUME NEW org, WithinPage(org), NEW a \in Nat, a < 65536, NEW b \in Nat, b < 65536,
           NEW s, SubBegun(s, org, a, b)
    PROVE  SubHalf(C!CpuStep(s).s, org, a, b)
<1> DEFINE code == WideCode(164, b)
           t == C!CpuStep(s).s
           al == a % 256
           bl == b % 256
           ah == a \div 256
           low == al - bl
           lowb == low % 256
           carry == IF low < 0 THEN 0 ELSE 1
<1>1. /\ code \in Seq(Byte) /\ Len(code) = 4 /\ code[1] = 164 /\ code[2] = bl
      /\ al \in Nat /\ bl \in Nat /\ ah \in Nat
  BY WideCodeIs, HighAndLow
<1>2. /\ Running(s, org, code, 0, 1) /\ C!Bit(s.psl, C!CARRY) = 1
      /\ s.r[0] = al /\ s.r[1] = ah
  BY DEF SubBegun
<1>3. At(s, org, code, 0) /\ C!Bit(s.psl, C!RS) = 0 /\ C!Bit(s.psl, C!WC) = 1 /\ IsCpu(s)
  BY <1>2 DEF Running, At
<1> HIDE DEF code, al, bl, ah
<1>4. Pending(s, org, code, 0, 164)
  BY <1>1, <1>3 DEF Pending
<1>5. /\ At(t, org, code, 2) /\ t.r = [s.r EXCEPT ![0] = lowb] /\ C!ModesKept(s, t)
      /\ C!Bit(t.psl, C!CARRY) = carry
  <2>1. Subtracts(s, org, code, 0, 2, 0, bl)
    BY <1>1, <1>4 DEF Subtracts
  <2>2. At(t, org, code, 2) /\ Difference(s, t, 0, bl)
    BY <2>1, Subtracting
  <2> HIDE DEF t
  <2>3. s.r[0] - bl - C!Bit(s.psl, C!WC) * (1 - C!Bit(s.psl, C!CARRY)) = low
    BY <1>1, <1>2, <1>3
  <2> HIDE DEF low
  <2>4. QED
    BY <2>2, <2>3 DEF Difference
<1> HIDE DEF t, low, lowb, carry
<1>6. t.r[0] = lowb /\ t.r[1] = ah
  BY <1>2, <1>3, <1>5, Registers7
<1>7. Running(t, org, code, 2, 1)
  BY <1>2, <1>5, Ran
<1>8. QED
  BY <1>5, <1>6, <1>7 DEF SubHalf, code, t, low, lowb, carry, al, bl, ah

\* and its high bytes, with the borrow.
LEMMA SubHigh ==
    ASSUME NEW org, WithinPage(org), NEW a \in Nat, a < 65536, NEW b \in Nat, b < 65536,
           NEW s, SubHalf(s, org, a, b)
    PROVE  SubDone(C!CpuStep(s).s, a, b)
<1> DEFINE code == WideCode(164, b)
           t == C!CpuStep(s).s
           ah == a \div 256
           bh == b \div 256
           low == (a % 256) - (b % 256)
           lowb == low % 256
           carry == IF low < 0 THEN 0 ELSE 1
           borrow == IF low < 0 THEN 1 ELSE 0
           high == ah - bh - borrow
           highb == high % 256
<1>1. /\ code \in Seq(Byte) /\ Len(code) = 4 /\ code[3] = 165 /\ code[4] = bh
      /\ bh \in Nat /\ ah \in Nat /\ carry \in {0, 1} /\ borrow = 1 - carry
  <2>1. bh \in Nat /\ ah \in Nat
    BY HighAndLow
  <2>2. carry \in {0, 1} /\ borrow = 1 - carry
    OBVIOUS
  <2>3. code \in Seq(Byte) /\ Len(code) = 4 /\ code[3] = 165 /\ code[4] = bh
    BY WideCodeIs
  <2>4. QED
    BY <2>1, <2>2, <2>3
<1>2. /\ Running(s, org, code, 2, 1) /\ C!Bit(s.psl, C!CARRY) = carry
      /\ s.r[0] = lowb /\ s.r[1] = ah
  BY DEF SubHalf
<1>3. At(s, org, code, 2) /\ C!Bit(s.psl, C!RS) = 0 /\ C!Bit(s.psl, C!WC) = 1 /\ IsCpu(s)
  BY <1>2 DEF Running, At
<1>4. 256 * highb + lowb = (a - b) % 65536 /\ (high < 0 <=> a - b < 0)
  BY WideDifference
<1> HIDE DEF code, bh, ah, lowb, carry, borrow
<1>5. Pending(s, org, code, 2, 165)
  BY <1>1, <1>3 DEF Pending
<1>6. t.r = [s.r EXCEPT ![1] = highb] /\ C!Bit(t.psl, C!CARRY) = IF high < 0 THEN 0 ELSE 1
  <2>1. Subtracts(s, org, code, 2, 4, 1, bh)
    BY <1>1, <1>5 DEF Subtracts
  <2>2. Difference(s, t, 1, bh)
    BY <2>1, Subtracting
  <2> HIDE DEF t
  <2>3. s.r[1] - bh - C!Bit(s.psl, C!WC) * (1 - C!Bit(s.psl, C!CARRY)) = high
    BY <1>1, <1>2, <1>3
  <2> HIDE DEF high
  <2>4. QED
    BY <2>2, <2>3 DEF Difference
<1>7. high \in Int /\ a - b \in Int
  BY <1>1
<1> HIDE DEF t, high, highb
<1>8. t.r[1] = highb /\ t.r[0] = lowb
  BY <1>2, <1>3, <1>6, Registers7
<1>9. C!Bit(t.psl, C!CARRY) = 1 <=> a - b >= 0
  BY <1>4, <1>6, <1>7
<1>10. QED
  BY <1>4, <1>8, <1>9 DEF SubDone, t

(***************************************************************************)
(* The order of bytes, and decimals.                                       *)
(***************************************************************************)

\* The arithmetic order is the sign of the difference, unless it overflows.
LEMMA SignedOrder ==
    ASSUME NEW a \in Byte, NEW b \in Byte, NEW v, v = (a - b) % 256
    PROVE  IF ((a < 128) # (b < 128)) /\ ((a < 128) # (v < 128))
           THEN Signed(a) < Signed(b) <=> v < 128
           ELSE Signed(a) < Signed(b) <=> v >= 128
<1>1. v \in Nat /\ v < 256 /\ v = IF a < b THEN a - b + 256 ELSE a - b
  BY DEF Byte
<1>2. a \in Nat /\ a < 256 /\ b \in Nat /\ b < 256
  BY DEF Byte
<1>3. CASE a < 128 /\ b < 128
  BY <1>1, <1>2, <1>3 DEF Signed
<1>4. CASE a < 128 /\ ~(b < 128)
  BY <1>1, <1>2, <1>4 DEF Signed
<1>5. CASE ~(a < 128) /\ b < 128
  BY <1>1, <1>2, <1>5 DEF Signed
<1>6. CASE ~(a < 128) /\ ~(b < 128)
  BY <1>1, <1>2, <1>6 DEF Signed
<1>7. QED
  BY <1>3, <1>4, <1>5, <1>6

\* Decimals of two digits, and what an adjustment makes of them.
LEMMA Digits ==
    ASSUME NEW n \in Nat, n < 100
    PROVE  /\ n = 10 * (n \div 10) + (n % 10)
           /\ n \div 10 \in Nat /\ n \div 10 < 10 /\ n % 10 \in Nat /\ n % 10 < 10
OBVIOUS

\* The decimal of two digits holds one in each half of the byte.
LEMMA BcdIs ==
    ASSUME NEW h \in Nat, h < 10, NEW l \in Nat, l < 10
    PROVE  Bcd(10 * h + l) = 16 * h + l
<1> DEFINE n == 10 * h + l
<1>1. n \div 10 = h /\ n % 10 = l
  OBVIOUS
<1> HIDE DEF n
<1>2. QED
  BY <1>1 DEF Bcd, n

\* A decimal of two digits is a byte up to $99.
LEMMA BcdType ==
    ASSUME NEW n \in Nat, n < 100
    PROVE  /\ Bcd(n) \in Nat /\ Bcd(n) <= 153 /\ Bcd(n) \in Byte
           /\ Bcd(n) = 16 * (n \div 10) + (n % 10)
<1>1. Bcd(n) = 16 * (n \div 10) + (n % 10)
  BY DEF Bcd
<1>2. QED
  BY <1>1, Digits DEF Byte

\* The carry out of the low digit, and with it out of the high one.
LEMMA DecimalSum ==
    ASSUME NEW a \in Nat, a < 100, NEW b \in Nat, b < 100
    PROVE  LET x == Bcd(a) + 102
               y == Bcd(b)
               carry == (x + y) \div 256
               idc == ((x % 16) + (y % 16)) \div 16
           IN  /\ Adjustment((x + y) % 256, carry, idc) = Bcd((a + b) % 100)
               /\ carry = (a + b) \div 100
<1> DEFINE p == a \div 10
           q == a % 10
           r == b \div 10
           t == b % 10
           x == 16 * p + q + 102
           y == 16 * r + t
           w == (x + y) % 256
           carry == (x + y) \div 256
           idc == ((x % 16) + (y % 16)) \div 16
           high == IF carry = 0 THEN (w + 160) % 256 ELSE w
           v == IF idc = 0 THEN high - (high % 16) + ((high + 10) % 16) ELSE high
           sum == (10 * p + q) + (10 * r + t)
           k == IF q + t < 10 THEN 0 ELSE 1
           l == q + t - 10 * k
           c == IF p + r + k < 10 THEN 0 ELSE 1
           h == p + r + k - 10 * c
<1>0. /\ p \in Nat /\ p < 10 /\ q \in Nat /\ q < 10 /\ a = 10 * p + q
      /\ r \in Nat /\ r < 10 /\ t \in Nat /\ t < 10 /\ b = 10 * r + t
      /\ Bcd(a) + 102 = x /\ Bcd(b) = y
  BY Digits, BcdType
<1> HIDE DEF p, q, r, t
<1>1. x % 16 = q + 6 /\ y % 16 = t
  BY <1>0
<1>2. idc = k
  BY <1>0, <1>1
<1>3. /\ k \in {0, 1} /\ l \in Nat /\ l < 10
      /\ q + t = 10 * k + l
  BY <1>0
<1> HIDE DEF k, l
<1>4. c \in {0, 1} /\ h \in Nat /\ h < 10 /\ p + r + k = 10 * c + h
  BY <1>0, <1>3
<1> HIDE DEF c, h
<1>5. sum = 100 * c + (10 * h + l) /\ 10 * h + l \in Nat /\ 10 * h + l < 100
  BY <1>0, <1>3, <1>4
<1>6. sum % 100 = 10 * h + l /\ sum \div 100 = c
  <2> DEFINE n == 10 * h + l
  <2>1. sum = 100 * c + n /\ n \in Nat /\ n < 100 /\ c \in {0, 1}
    BY <1>4, <1>5
  <2> HIDE DEF n, sum
  <2>2. sum % 100 = n /\ sum \div 100 = c
    BY <2>1
  <2>3. QED
    BY <2>2 DEF n
<1>7. Bcd(sum % 100) = 16 * h + l
  BY <1>3, <1>4, <1>6, BcdIs
<1>8. x + y = 102 + 160 * c + 16 * h - 16 * k + 10 * k + l
  BY <1>0, <1>3, <1>4
<1>8a. sum = a + b
  BY <1>0
<1> HIDE DEF x, y, idc, sum
<1>9. carry = c /\ v = 16 * h + l
  <2>1. CASE c = 0 /\ k = 0
    <3>1. x + y = 16 * (h + 6) + (l + 6)
      BY <1>3, <1>4, <1>8, <2>1
    <3>2. carry = 0 /\ w = 16 * (h + 6) + (l + 6)
      BY <1>3, <1>4, <3>1
    <3> HIDE DEF w, carry
    <3>3. high = 16 * h + (l + 6)
      BY <1>3, <1>4, <3>2
    <3> HIDE DEF high
    <3>4. high % 16 = l + 6 /\ (high + 10) % 16 = l
      BY <1>3, <1>4, <3>3
    <3>5. QED
      BY <1>2, <1>3, <1>4, <2>1, <3>2, <3>3, <3>4
  <2>2. CASE c = 0 /\ k = 1
    <3>1. x + y = 16 * (h + 6) + l
      BY <1>3, <1>4, <1>8, <2>2
    <3>2. carry = 0 /\ w = 16 * (h + 6) + l
      BY <1>3, <1>4, <3>1
    <3> HIDE DEF w, carry
    <3>3. high = 16 * h + l
      BY <1>3, <1>4, <3>2
    <3> HIDE DEF high
    <3>4. QED
      BY <1>2, <1>3, <1>4, <2>2, <3>2, <3>3
  <2>3. CASE c = 1 /\ k = 0
    <3>1. x + y = 256 + 16 * h + (l + 6)
      BY <1>3, <1>4, <1>8, <2>3
    <3>2. carry = 1 /\ w = 16 * h + (l + 6)
      BY <1>3, <1>4, <3>1
    <3> HIDE DEF w, carry
    <3>3. high = 16 * h + (l + 6)
      BY <1>3, <1>4, <3>2
    <3> HIDE DEF high
    <3>4. high % 16 = l + 6 /\ (high + 10) % 16 = l
      BY <1>3, <1>4, <3>3
    <3>5. QED
      BY <1>2, <1>3, <1>4, <2>3, <3>2, <3>3, <3>4
  <2>4. CASE c = 1 /\ k = 1
    <3>1. x + y = 256 + 16 * h + l
      BY <1>3, <1>4, <1>8, <2>4
    <3>2. carry = 1 /\ w = 16 * h + l
      BY <1>3, <1>4, <3>1
    <3> HIDE DEF w, carry
    <3>3. high = 16 * h + l
      BY <1>3, <1>4, <3>2
    <3> HIDE DEF high
    <3>4. QED
      BY <1>2, <1>3, <1>4, <2>4, <3>2, <3>3
  <2>5. QED
    BY <1>3, <1>4, <2>1, <2>2, <2>3, <2>4
<1>10. v = Adjustment(w, carry, idc)
  BY DEF Adjustment
<1> HIDE DEF v, w, carry
<1>11. Adjustment(w, carry, idc) = Bcd((a + b) % 100) /\ carry = (a + b) \div 100
  BY <1>6, <1>7, <1>9, <1>10, <1>8a
<1>12. QED
  BY <1>0, <1>11 DEF w, carry, idc

\* The carry that says a difference needed no borrow.
NoBorrow(d) == IF d < 0 THEN 0 ELSE 1

Bits == {0, 1}

\* The borrow into the low digit, and out of the high one.
LEMMA DecimalDifference ==
    ASSUME NEW a \in Nat, a < 100, NEW b \in Nat, b < 100, NEW e \in Bits
    PROVE  LET x == Bcd(a)
               y == Bcd(b)
               carry == NoBorrow(x - y - e)
               idc == NoBorrow((x % 16) - (y % 16) - e)
           IN  /\ Adjustment((x - y - e) % 256, carry, idc) = Bcd((a - b - e) % 100)
               /\ carry = 1 <=> a - b - e >= 0
<1> DEFINE p == a \div 10
           q == a % 10
           r == b \div 10
           t == b % 10
           x == 16 * p + q
           y == 16 * r + t
           w == (x - y - e) % 256
           carry == IF x - y - e < 0 THEN 0 ELSE 1
           idc == IF (x % 16) < (y % 16) + e THEN 0 ELSE 1
           high == IF carry = 0 THEN (w + 160) % 256 ELSE w
           v == IF idc = 0 THEN high - (high % 16) + ((high + 10) % 16) ELSE high
           difference == (10 * p + q) - (10 * r + t) - e
           k == IF q < t + e THEN 1 ELSE 0
           l == q - t - e + 10 * k
           c == IF p < r + k THEN 1 ELSE 0
           h == p - r - k + 10 * c
<1>0. /\ p \in Nat /\ p < 10 /\ q \in Nat /\ q < 10 /\ a = 10 * p + q
      /\ r \in Nat /\ r < 10 /\ t \in Nat /\ t < 10 /\ b = 10 * r + t
      /\ Bcd(a) = x /\ Bcd(b) = y /\ e \in {0, 1}
  BY Digits, BcdType DEF Bits
<1> HIDE DEF p, q, r, t
<1>1. x % 16 = q /\ y % 16 = t
  BY <1>0
<1>2. idc = 1 - k
  BY <1>0, <1>1
<1>3. /\ k \in {0, 1} /\ l \in Nat /\ l < 10
      /\ q - t - e = l - 10 * k
  BY <1>0
<1> HIDE DEF k, l
<1>4. c \in {0, 1} /\ h \in Nat /\ h < 10 /\ p - r - k = h - 10 * c
  BY <1>0, <1>3
<1> HIDE DEF c, h
<1>5. difference = (10 * h + l) - 100 * c /\ 10 * h + l \in Nat /\ 10 * h + l < 100
  BY <1>0, <1>3, <1>4
<1>6. difference % 100 = 10 * h + l /\ (difference >= 0 <=> c = 0)
  <2> DEFINE n == 10 * h + l
  <2>1. difference = n - 100 * c /\ n \in Nat /\ n < 100 /\ c \in {0, 1}
    BY <1>4, <1>5
  <2> HIDE DEF n, difference
  <2>2. difference % 100 = n /\ (difference >= 0 <=> c = 0)
    BY <2>1
  <2>3. QED
    BY <2>2 DEF n
<1>7. Bcd(difference % 100) = 16 * h + l
  <2>1. Bcd(10 * h + l) = 16 * h + l
    BY <1>3, <1>4, BcdIs
  <2> DEFINE n == difference % 100
  <2>2. n = 10 * h + l
    BY <1>6
  <2> HIDE DEF n
  <2>3. QED
    BY <2>1, <2>2 DEF n
<1>8. x - y - e = 16 * h - 160 * c + 6 * k + l
  BY <1>0, <1>3, <1>4
<1>8a. difference = a - b - e
  BY <1>0
<1> HIDE DEF x, y, idc, difference
<1>9. carry = 1 - c /\ v = 16 * h + l
  <2>1. CASE c = 0 /\ k = 0
    <3>1. x - y - e = 16 * h + l
      BY <1>3, <1>4, <1>8, <2>1
    <3>2. carry = 1 /\ w = 16 * h + l
      BY <1>3, <1>4, <3>1
    <3> HIDE DEF w, carry
    <3>3. high = 16 * h + l
      BY <1>3, <1>4, <3>2
    <3> HIDE DEF high
    <3>4. QED
      BY <1>2, <1>3, <1>4, <2>1, <3>2, <3>3
  <2>2. CASE c = 0 /\ k = 1
    <3>1. x - y - e = 16 * h + (l + 6)
      BY <1>3, <1>4, <1>8, <2>2
    <3>2. carry = 1 /\ w = 16 * h + (l + 6)
      BY <1>3, <1>4, <3>1
    <3> HIDE DEF w, carry
    <3>3. high = 16 * h + (l + 6)
      BY <1>3, <1>4, <3>2
    <3> HIDE DEF high
    <3>4. high % 16 = l + 6 /\ (high + 10) % 16 = l
      BY <1>3, <1>4, <3>3
    <3>5. QED
      BY <1>2, <1>3, <1>4, <2>2, <3>2, <3>3, <3>4
  <2>3. CASE c = 1 /\ k = 0
    <3>1. x - y - e = 16 * h + l - 160
      BY <1>3, <1>4, <1>8, <2>3
    <3>2. carry = 0 /\ w = 16 * h + l + 96
      BY <1>3, <1>4, <3>1
    <3> HIDE DEF w, carry
    <3>3. high = 16 * h + l
      BY <1>3, <1>4, <3>2
    <3> HIDE DEF high
    <3>4. QED
      BY <1>2, <1>3, <1>4, <2>3, <3>2, <3>3
  <2>4. CASE c = 1 /\ k = 1
    <3>1. x - y - e = 16 * h + (l + 6) - 160
      BY <1>3, <1>4, <1>8, <2>4
    <3>2. carry = 0 /\ w = 16 * h + (l + 6) + 96
      BY <1>3, <1>4, <3>1
    <3> HIDE DEF w, carry
    <3>3. high = 16 * h + (l + 6)
      BY <1>3, <1>4, <3>2
    <3> HIDE DEF high
    <3>4. high % 16 = l + 6 /\ (high + 10) % 16 = l
      BY <1>3, <1>4, <3>3
    <3>5. QED
      BY <1>2, <1>3, <1>4, <2>4, <3>2, <3>3, <3>4
  <2>5. QED
    BY <1>3, <1>4, <2>1, <2>2, <2>3, <2>4
<1>10. v = Adjustment(w, carry, idc)
  BY DEF Adjustment
<1> HIDE DEF v, w, carry
<1>11. /\ Adjustment(w, carry, idc) = Bcd((a - b - e) % 100)
       /\ carry = 1 <=> a - b - e >= 0
  BY <1>4, <1>6, <1>7, <1>9, <1>10, <1>8a
<1>12. carry = NoBorrow(x - y - e) /\ idc = NoBorrow((x % 16) - (y % 16) - e)
  <2>1. x \in Int /\ y \in Int
    BY <1>0 DEF x, y
  <2> HIDE DEF x, y
  <2>2. (x % 16) < (y % 16) + e <=> (x % 16) - (y % 16) - e < 0
    BY <1>0, <2>1
  <2>3. QED
    BY <2>2 DEF NoBorrow, carry, idc
<1>13. QED
  BY <1>0, <1>11, <1>12 DEF w

\* The code that subtracts and compares is bytes:
LEMMA CompareCodeIs ==
    ASSUME NEW b \in Byte
    PROVE  LET code == CompareCode(b)
           IN  /\ code \in Seq(Byte) /\ Len(code) = 4
               /\ code[1] = 164 /\ code[2] = b /\ code[3] = 229 /\ code[4] = b
<1>1. 164 \in Byte /\ 229 \in Byte
  BY DEF Byte
<1>2. QED
  BY <1>1 DEF CompareCode

\* with COM as logical says: not begun, subtracted, compared.
CompareBegun(s, org, a, b, logical) ==
    /\ Running(s, org, CompareCode(b), 0, 0)
    /\ C!Bit(s.psl, C!COM) = logical
    /\ s.r[0] = a /\ s.r[1] = a

CompareHalf(s, org, a, b, logical) ==
    LET v == (a - b) % 256
    IN  /\ Running(s, org, CompareCode(b), 2, 0)
        /\ C!Bit(s.psl, C!COM) = logical
        /\ s.r[1] = a
        /\ C!Bit(s.psl, C!CARRY) = IF a - b < 0 THEN 0 ELSE 1
        /\ C!Bit(s.psl, C!OVF) = 1 <=> ((a < 128) # (b < 128)) /\ ((a < 128) # (v < 128))

CompareDone(s, a, b, logical) ==
    LET difference == Signed((a - b) % 256)
        overflow == C!Bit(s.psl, C!OVF) = 1
        less == IF logical = 1 THEN C!Bit(s.psl, C!CARRY) = 0
                ELSE (difference < 0) # overflow
    IN  C!CC(s) = IF a = b THEN 0 ELSE IF less THEN 2 ELSE 1

\* The subtraction leaves the sign, the borrow and the overflow,
LEMMA CompareFirst ==
    ASSUME NEW org, WithinPage(org), NEW a \in Byte, NEW b \in Byte, NEW logical \in {0, 1},
           NEW s, CompareBegun(s, org, a, b, logical)
    PROVE  CompareHalf(C!CpuStep(s).s, org, a, b, logical)
<1> DEFINE code == CompareCode(b)
           t == C!CpuStep(s).s
           v == (a - b) % 256
<1>1. /\ code \in Seq(Byte) /\ Len(code) = 4 /\ code[1] = 164 /\ code[2] = b
      /\ a \in Int /\ b \in Int
  <2>1. a \in Int /\ b \in Int
    BY DEF Byte
  <2>2. QED
    BY <2>1, CompareCodeIs
<1>2. /\ Running(s, org, code, 0, 0) /\ C!Bit(s.psl, C!COM) = logical
      /\ s.r[0] = a /\ s.r[1] = a
  BY DEF CompareBegun
<1>3. /\ At(s, org, code, 0) /\ C!Bit(s.psl, C!RS) = 0 /\ C!Bit(s.psl, C!WC) = 0 /\ IsCpu(s)
      /\ C!Bit(s.psl, C!CARRY) \in {0, 1}
  <2>1. At(s, org, code, 0) /\ C!Bit(s.psl, C!RS) = 0 /\ C!Bit(s.psl, C!WC) = 0 /\ IsCpu(s)
    BY <1>2 DEF Running, At
  <2>2. s.psl \in C!Byte
    BY <2>1, C!Parts DEF IsCpu
  <2>3. QED
    BY <2>1, <2>2, C!FlagBits
<1> HIDE DEF code
<1>4. Pending(s, org, code, 0, 164)
  BY <1>1, <1>3 DEF Pending
<1>5. At(t, org, code, 2) /\ Difference(s, t, 0, b)
  <2>1. Subtracts(s, org, code, 0, 2, 0, b)
    BY <1>1, <1>4 DEF Subtracts
  <2>2. QED
    BY <2>1, Subtracting
<1> HIDE DEF t
<1>6. s.r[0] - b - C!Bit(s.psl, C!WC) * (1 - C!Bit(s.psl, C!CARRY)) = a - b
  BY <1>1, <1>2, <1>3
<1>7. /\ t.r = [s.r EXCEPT ![0] = v] /\ C!ModesKept(s, t)
      /\ C!Bit(t.psl, C!CARRY) = IF a - b < 0 THEN 0 ELSE 1
      /\ C!Bit(t.psl, C!OVF) = 1 <=> ((a < 128) # (b < 128)) /\ ((a < 128) # (v < 128))
  BY <1>2, <1>5, <1>6 DEF Difference
<1>8. t.r[1] = a
  BY <1>2, <1>3, <1>7, Registers7
<1>9. Running(t, org, code, 2, 0)
  BY <1>2, <1>5, <1>7, Ran
<1>10. C!Bit(t.psl, C!COM) = logical
  BY <1>2, <1>7 DEF C!ModesKept
<1>11. QED
  BY <1>7, <1>8, <1>9, <1>10 DEF CompareHalf, code, t

\* and the comparison keeps the flags and tells the same.
LEMMA CompareSecond ==
    ASSUME NEW org, WithinPage(org), NEW a \in Byte, NEW b \in Byte, NEW logical \in {0, 1},
           NEW s, CompareHalf(s, org, a, b, logical)
    PROVE  CompareDone(C!CpuStep(s).s, a, b, logical)
<1> DEFINE code == CompareCode(b)
           t == C!CpuStep(s).s
           v == (a - b) % 256
           O(x) == C!Bit(x.psl, C!OVF) = 1
           less == IF logical = 1 THEN a < b ELSE Signed(a) < Signed(b)
<1>1. /\ code \in Seq(Byte) /\ Len(code) = 4 /\ code[3] = 229 /\ code[4] = b
  BY CompareCodeIs
<1>2. /\ Running(s, org, code, 2, 0) /\ C!Bit(s.psl, C!COM) = logical /\ s.r[1] = a
      /\ C!Bit(s.psl, C!CARRY) = IF a - b < 0 THEN 0 ELSE 1
      /\ C!Bit(s.psl, C!OVF) = 1 <=> ((a < 128) # (b < 128)) /\ ((a < 128) # (v < 128))
  BY DEF CompareHalf
<1>3. At(s, org, code, 2) /\ C!Bit(s.psl, C!RS) = 0 /\ IsCpu(s)
  BY <1>2 DEF Running, At
<1> HIDE DEF code
<1>4. Pending(s, org, code, 2, 229)
  BY <1>1, <1>3 DEF Pending
<1>5. Verdict(s, t, 1, b)
  <2>1. Compares(s, org, code, 2, 1, b)
    BY <1>1, <1>4 DEF Compares
  <2>2. QED
    BY <2>1, Comparing
<1> HIDE DEF t
<1>6. /\ C!CC(t) = IF less THEN 2 ELSE IF a = b THEN 0 ELSE 1
      /\ \A m \in {1, 2, 4, 8, 16, 32} : C!Bit(t.psl, m) = C!Bit(s.psl, m)
  BY <1>2, <1>5 DEF Verdict
<1>7. C!Bit(t.psl, C!CARRY) = C!Bit(s.psl, C!CARRY) /\ C!Bit(t.psl, C!OVF) = C!Bit(s.psl, C!OVF)
  BY <1>6 DEF C!CARRY, C!OVF
<1>8. v \in Nat /\ v < 256 /\ a \in Int /\ b \in Int
  BY DEF Byte
<1>9. C!Bit(t.psl, C!CARRY) = 0 <=> a < b
  BY <1>2, <1>7, <1>8
<1>10. Signed(v) < 0 <=> v >= 128
  BY <1>8 DEF Signed
<1> DEFINE negative == Signed(v) < 0
           overflow == C!Bit(t.psl, C!OVF) = 1
           signed == Signed(a) < Signed(b)
<1>11. signed <=> (negative # overflow)
  <2>1. IF overflow THEN signed <=> v < 128 ELSE signed <=> v >= 128
    BY <1>2, <1>7, SignedOrder
  <2>2. negative <=> ~(v < 128)
    BY <1>8, <1>10
  <2>3. v >= 128 <=> ~(v < 128)
    BY <1>8
  <2> HIDE DEF v
  <2>4. signed \in BOOLEAN /\ negative \in BOOLEAN /\ overflow \in BOOLEAN
    OBVIOUS
  <2> HIDE DEF signed, negative, overflow
  <2>5. QED
    BY <2>1, <2>2, <2>3, <2>4
<1>12. a = b => ~(a < b) /\ ~signed
  BY <1>8 DEF Signed, Byte
<1> DEFINE told == IF logical = 1 THEN C!Bit(t.psl, C!CARRY) = 0 ELSE negative # overflow
<1>13. told <=> less
  <2> HIDE DEF negative, overflow, signed
  <2>1. CASE logical = 1
    BY <1>9, <2>1
  <2>2. CASE logical # 1
    BY <1>11, <2>2 DEF signed
  <2>3. QED
    BY <2>1, <2>2
<1>14. a = b => ~less
  BY <1>12
<1> HIDE DEF told, less
<1>15. C!CC(t) = IF a = b THEN 0 ELSE IF told THEN 2 ELSE 1
  BY <1>6, <1>13, <1>14
<1>16. QED
  BY <1>15 DEF CompareDone, told, t

\* A decimal added to R0: not begun, biased, added, adjusted.
DecimalBegun(s, org, a, b) ==
    Running(s, org, AddCode(b), 0, 0) /\ s.r[0] = Bcd(a)

DecimalBiased(s, org, a, b) ==
    Running(s, org, AddCode(b), 2, 0) /\ s.r[0] = Bcd(a) + 102

DecimalAdded(s, org, a, b) ==
    LET x == Bcd(a) + 102
        y == Bcd(b)
    IN  /\ Running(s, org, AddCode(b), 4, 0)
        /\ s.r[0] = (x + y) % 256
        /\ C!Bit(s.psl, C!CARRY) = (x + y) \div 256
        /\ C!Bit(s.psl, C!IDC) = ((x % 16) + (y % 16)) \div 16

DecimalDone(s, a, b) ==
    s.r[0] = Bcd((a + b) % 100) /\ C!Bit(s.psl, C!CARRY) = (a + b) \div 100

\* The five bytes of a decimal addition,
LEMMA AddCodeIs ==
    ASSUME NEW b \in Nat, b < 100
    PROVE  LET code == AddCode(b)
           IN  /\ code \in Seq(Byte) /\ Len(code) = 5
               /\ code[1] = 132 /\ code[2] = 102 /\ code[3] = 132 /\ code[4] = Bcd(b)
               /\ code[5] = 148
<1> DEFINE y == Bcd(b)
<1>1. y \in Byte /\ AddCode(b) = <<132, 102, 132, y, 148>>
  BY BcdType DEF AddCode
<1>2. 132 \in Byte /\ 102 \in Byte /\ 148 \in Byte
  BY DEF Byte
<1> HIDE DEF y
<1>3. QED
  BY <1>1, <1>2 DEF y

\* and is biased without a carry,
LEMMA DecimalBias ==
    ASSUME NEW org, WithinPage(org), NEW a \in Nat, a < 100, NEW b \in Nat, b < 100,
           NEW s, DecimalBegun(s, org, a, b)
    PROVE  DecimalBiased(C!CpuStep(s).s, org, a, b)
<1> DEFINE code == AddCode(b)
           t == C!CpuStep(s).s
           x == Bcd(a)
<1>1. /\ code \in Seq(Byte) /\ Len(code) = 5 /\ code[1] = 132 /\ code[2] = 102
  BY AddCodeIs
<1>2. Running(s, org, code, 0, 0) /\ s.r[0] = x
  BY DEF DecimalBegun
<1>3. /\ At(s, org, code, 0) /\ C!Bit(s.psl, C!RS) = 0 /\ C!Bit(s.psl, C!WC) = 0 /\ IsCpu(s)
      /\ C!Bit(s.psl, C!CARRY) \in {0, 1}
  <2>1. At(s, org, code, 0) /\ C!Bit(s.psl, C!RS) = 0 /\ C!Bit(s.psl, C!WC) = 0 /\ IsCpu(s)
    BY <1>2 DEF Running, At
  <2>2. s.psl \in C!Byte
    BY <2>1, C!Parts DEF IsCpu
  <2>3. QED
    BY <2>1, <2>2, C!FlagBits
<1> HIDE DEF code
<1>4. Pending(s, org, code, 0, 132)
  BY <1>1, <1>3 DEF Pending
<1>5. At(t, org, code, 2) /\ Sum(s, t, 0, 102)
  <2>1. Adds(s, org, code, 0, 2, 0, 102)
    BY <1>1, <1>4 DEF Adds
  <2>2. QED
    BY <2>1, Adding
<1>6. x \in Nat /\ x <= 153
  BY BcdType
<1> HIDE DEF t, x
<1>7. (s.r[0] + 102 + C!Bit(s.psl, C!WC) * C!Bit(s.psl, C!CARRY)) % 256 = x + 102
  <2>1. s.r[0] + 102 + C!Bit(s.psl, C!WC) * C!Bit(s.psl, C!CARRY) = x + 102
    BY <1>2, <1>3, <1>6
  <2>2. (x + 102) % 256 = x + 102
    BY <1>6
  <2>3. QED
    BY <2>1, <2>2
<1> DEFINE v == x + 102
<1>8. t.r = [s.r EXCEPT ![0] = v] /\ C!ModesKept(s, t)
  BY <1>5, <1>7 DEF Sum
<1> HIDE DEF v
<1>9. t.r[0] = v
  BY <1>3, <1>8, Registers7
<1>10. Running(t, org, code, 2, 0)
  BY <1>2, <1>5, <1>8, Ran
<1>11. QED
  BY <1>9, <1>10 DEF DecimalBiased, code, t, v, x

\* added,
LEMMA DecimalAdds ==
    ASSUME NEW org, WithinPage(org), NEW a \in Nat, a < 100, NEW b \in Nat, b < 100,
           NEW s, DecimalBiased(s, org, a, b)
    PROVE  DecimalAdded(C!CpuStep(s).s, org, a, b)
<1> DEFINE code == AddCode(b)
           t == C!CpuStep(s).s
           x == Bcd(a) + 102
           y == Bcd(b)
           v == (x + y) % 256
<1>1. /\ code \in Seq(Byte) /\ Len(code) = 5 /\ code[3] = 132 /\ code[4] = y
  BY AddCodeIs
<1>2. Running(s, org, code, 2, 0) /\ s.r[0] = x
  BY DEF DecimalBiased
<1>3. /\ At(s, org, code, 2) /\ C!Bit(s.psl, C!RS) = 0 /\ C!Bit(s.psl, C!WC) = 0 /\ IsCpu(s)
      /\ C!Bit(s.psl, C!CARRY) \in {0, 1}
  <2>1. At(s, org, code, 2) /\ C!Bit(s.psl, C!RS) = 0 /\ C!Bit(s.psl, C!WC) = 0 /\ IsCpu(s)
    BY <1>2 DEF Running, At
  <2>2. s.psl \in C!Byte
    BY <2>1, C!Parts DEF IsCpu
  <2>3. QED
    BY <2>1, <2>2, C!FlagBits
<1>4. x \in Nat /\ y \in Nat
  BY BcdType
<1> HIDE DEF code, x, y
<1>5. Pending(s, org, code, 2, 132)
  BY <1>1, <1>3 DEF Pending
<1>6. At(t, org, code, 4) /\ Sum(s, t, 0, y)
  <2>1. Adds(s, org, code, 2, 4, 0, y)
    BY <1>1, <1>5 DEF Adds
  <2>2. QED
    BY <2>1, Adding
<1> HIDE DEF t
<1> DEFINE c == C!Bit(s.psl, C!WC) * C!Bit(s.psl, C!CARRY)
<1>7. c = 0
  BY <1>3
<1>8. /\ t.r = [s.r EXCEPT ![0] = (s.r[0] + y + c) % 256] /\ C!ModesKept(s, t)
      /\ C!Bit(t.psl, C!CARRY) = (s.r[0] + y + c) \div 256
      /\ C!Bit(t.psl, C!IDC) = ((s.r[0] % 16) + (y % 16) + c) \div 16
  BY <1>6 DEF Sum
<1> HIDE DEF c
<1>9. /\ t.r = [s.r EXCEPT ![0] = v] /\ C!ModesKept(s, t)
      /\ C!Bit(t.psl, C!CARRY) = (x + y) \div 256
      /\ C!Bit(t.psl, C!IDC) = ((x % 16) + (y % 16)) \div 16
  <2>1. s.r[0] + y + c = x + y
    BY <1>2, <1>4, <1>7
  <2>2. (s.r[0] % 16) + (y % 16) + c = (x % 16) + (y % 16)
    BY <1>2, <1>4, <1>7
  <2>3. QED
    BY <1>8, <2>1, <2>2
<1> HIDE DEF v
<1>10. t.r[0] = v
  <2>1. t.r = [s.r EXCEPT ![0] = v]
    BY <1>9
  <2>2. QED
    BY <1>3, <2>1, Registers7
<1>11. Running(t, org, code, 4, 0)
  BY <1>2, <1>6, <1>9, Ran
<1>12. QED
  BY <1>9, <1>10, <1>11 DEF DecimalAdded, code, t, v, x, y

\* and adjusted.
LEMMA DecimalAdjust ==
    ASSUME NEW org, WithinPage(org), NEW a \in Nat, a < 100, NEW b \in Nat, b < 100,
           NEW s, DecimalAdded(s, org, a, b)
    PROVE  DecimalDone(C!CpuStep(s).s, a, b)
<1> DEFINE code == AddCode(b)
           t == C!CpuStep(s).s
           x == Bcd(a) + 102
           y == Bcd(b)
           w == (x + y) % 256
           carry == (x + y) \div 256
           idc == ((x % 16) + (y % 16)) \div 16
           v == Adjustment(w, carry, idc)
<1>1. /\ code \in Seq(Byte) /\ Len(code) = 5 /\ code[5] = 148
  BY AddCodeIs
<1>2. /\ Running(s, org, code, 4, 0)
      /\ s.r[0] = w /\ C!Bit(s.psl, C!CARRY) = carry /\ C!Bit(s.psl, C!IDC) = idc
  BY DEF DecimalAdded
<1>3. At(s, org, code, 4) /\ C!Bit(s.psl, C!RS) = 0 /\ IsCpu(s)
  BY <1>2 DEF Running, At
<1>4. v = Bcd((a + b) % 100) /\ carry = (a + b) \div 100
  BY DecimalSum
<1> HIDE DEF code, w, carry, idc
<1>5. Adjusted(s, t)
  <2>1. Adjusts(s, org, code, 4, 5)
    BY <1>1, <1>3 DEF Adjusts
  <2>2. QED
    BY <2>1, Adjusting
<1> HIDE DEF t
<1>6. t.r = [s.r EXCEPT ![0] = v] /\ t.psl = s.psl
  BY <1>2, <1>5 DEF Adjusted
<1> HIDE DEF v
<1>7. t.r[0] = v
  BY <1>3, <1>6, Registers7
<1>8. QED
  BY <1>2, <1>4, <1>6, <1>7 DEF DecimalDone, t

\* A decimal subtracted from R0, with the borrow e: not begun, subtracted, adjusted.
DecimalSubBegun(s, org, a, b, e) ==
    /\ Running(s, org, SubCode(b), 0, 1) /\ s.r[0] = Bcd(a)
    /\ C!Bit(s.psl, C!CARRY) = 1 - e

DecimalSubtracted(s, org, a, b, e) ==
    LET x == Bcd(a)
        y == Bcd(b)
    IN  /\ Running(s, org, SubCode(b), 2, 1)
        /\ s.r[0] = (x - y - e) % 256
        /\ C!Bit(s.psl, C!CARRY) = IF x - y - e < 0 THEN 0 ELSE 1
        /\ C!Bit(s.psl, C!IDC) = 0 <=> (x % 16) < (y % 16) + e

DecimalSubDone(s, a, b, e) ==
    /\ s.r[0] = Bcd((a - b - e) % 100)
    /\ C!Bit(s.psl, C!CARRY) = 1 <=> a - b - e >= 0

\* The three bytes of a decimal subtraction,
LEMMA SubCodeIs ==
    ASSUME NEW b \in Nat, b < 100
    PROVE  LET code == SubCode(b)
           IN  /\ code \in Seq(Byte) /\ Len(code) = 3
               /\ code[1] = 164 /\ code[2] = Bcd(b) /\ code[3] = 148
<1> DEFINE y == Bcd(b)
<1>1. y \in Byte /\ SubCode(b) = <<164, y, 148>>
  BY BcdType DEF SubCode
<1>2. 164 \in Byte /\ 148 \in Byte
  BY DEF Byte
<1> HIDE DEF y
<1>3. QED
  BY <1>1, <1>2 DEF y

\* It is subtracted,
LEMMA DecimalSubtracts ==
    ASSUME NEW org, WithinPage(org), NEW a \in Nat, a < 100, NEW b \in Nat, b < 100,
           NEW e \in {0, 1}, NEW s, DecimalSubBegun(s, org, a, b, e)
    PROVE  DecimalSubtracted(C!CpuStep(s).s, org, a, b, e)
<1> DEFINE code == SubCode(b)
           t == C!CpuStep(s).s
           x == Bcd(a)
           y == Bcd(b)
           v == (x - y - e) % 256
<1>1. /\ code \in Seq(Byte) /\ Len(code) = 3 /\ code[1] = 164 /\ code[2] = y
  BY SubCodeIs
<1>2. Running(s, org, code, 0, 1) /\ s.r[0] = x /\ C!Bit(s.psl, C!CARRY) = 1 - e
  BY DEF DecimalSubBegun
<1>3. At(s, org, code, 0) /\ C!Bit(s.psl, C!RS) = 0 /\ C!Bit(s.psl, C!WC) = 1 /\ IsCpu(s)
  BY <1>2 DEF Running, At
<1>4. x \in Nat /\ y \in Nat
  BY BcdType
<1> HIDE DEF code, x, y
<1>5. Pending(s, org, code, 0, 164)
  BY <1>1, <1>3 DEF Pending
<1>6. At(t, org, code, 2) /\ Difference(s, t, 0, y)
  <2>1. Subtracts(s, org, code, 0, 2, 0, y)
    BY <1>1, <1>5 DEF Subtracts
  <2>2. QED
    BY <2>1, Subtracting
<1> HIDE DEF t
<1> DEFINE c == C!Bit(s.psl, C!WC) * (1 - C!Bit(s.psl, C!CARRY))
<1>7. c = e
  BY <1>2, <1>3
<1>8. /\ t.r = [s.r EXCEPT ![0] = (s.r[0] - y - c) % 256] /\ C!ModesKept(s, t)
      /\ C!Bit(t.psl, C!CARRY) = IF s.r[0] - y - c < 0 THEN 0 ELSE 1
      /\ C!Bit(t.psl, C!IDC) = 0 <=> (s.r[0] % 16) < (y % 16) + c
  BY <1>6 DEF Difference
<1> HIDE DEF c
<1>9. /\ t.r = [s.r EXCEPT ![0] = v] /\ C!ModesKept(s, t)
      /\ C!Bit(t.psl, C!CARRY) = IF x - y - e < 0 THEN 0 ELSE 1
      /\ C!Bit(t.psl, C!IDC) = 0 <=> (x % 16) < (y % 16) + e
  BY <1>2, <1>7, <1>8
<1> HIDE DEF v
<1>10. t.r[0] = v
  <2>1. t.r = [s.r EXCEPT ![0] = v]
    BY <1>9
  <2>2. QED
    BY <1>3, <2>1, Registers7
<1>11. Running(t, org, code, 2, 1)
  BY <1>2, <1>6, <1>9, Ran
<1>12. QED
  BY <1>9, <1>10, <1>11 DEF DecimalSubtracted, code, t, v, x, y

\* and adjusted.
LEMMA DecimalSubAdjust ==
    ASSUME NEW org, WithinPage(org), NEW a \in Nat, a < 100, NEW b \in Nat, b < 100,
           NEW e \in {0, 1}, NEW s, DecimalSubtracted(s, org, a, b, e)
    PROVE  DecimalSubDone(C!CpuStep(s).s, a, b, e)
<1> DEFINE code == SubCode(b)
           t == C!CpuStep(s).s
           x == Bcd(a)
           y == Bcd(b)
           w == (x - y - e) % 256
           carry == NoBorrow(x - y - e)
           idc == NoBorrow((x % 16) - (y % 16) - e)
           v == Adjustment(w, carry, idc)
<1>1. /\ code \in Seq(Byte) /\ Len(code) = 3 /\ code[3] = 148
  BY SubCodeIs
<1>2. /\ Running(s, org, code, 2, 1)
      /\ s.r[0] = w /\ C!Bit(s.psl, C!CARRY) = carry /\ (C!Bit(s.psl, C!IDC) = 0 <=> idc = 0)
  <2>1. x \in Int /\ y \in Int
    BY BcdType
  <2> HIDE DEF x, y
  <2>2. (x % 16) < (y % 16) + e <=> (x % 16) - (y % 16) - e < 0
    BY <2>1
  <2>3. QED
    BY <2>2 DEF DecimalSubtracted, NoBorrow, x, y
<1>3. At(s, org, code, 2) /\ C!Bit(s.psl, C!RS) = 0 /\ IsCpu(s)
  BY <1>2 DEF Running, At
<1>4. v = Bcd((a - b - e) % 100) /\ (carry = 1 <=> a - b - e >= 0)
  <2>1. e \in Bits
    BY DEF Bits
  <2>2. QED
    BY <2>1, DecimalDifference
<1> HIDE DEF code, w, carry, idc
<1>5. Adjusted(s, t)
  <2>1. Adjusts(s, org, code, 2, 3)
    BY <1>1, <1>3 DEF Adjusts
  <2>2. QED
    BY <2>1, Adjusting
<1> HIDE DEF t
<1>6. Adjustment(w, carry, C!Bit(s.psl, C!IDC)) = v
  BY <1>2 DEF Adjustment
<1> HIDE DEF v
<1>7. t.r = [s.r EXCEPT ![0] = v] /\ t.psl = s.psl
  BY <1>2, <1>5, <1>6 DEF Adjusted
<1>8. t.r[0] = v
  BY <1>3, <1>7, Registers7
<1>9. QED
  BY <1>2, <1>4, <1>7, <1>8 DEF DecimalSubDone, t

(***************************************************************************)
(* Rotations: after i of n steps the ring has turned by i bits.            *)
(***************************************************************************)

Power(k) == <<1, 2, 4, 8, 16, 32, 64, 128, 256, 512>>[k + 1]
Half(n) == IF n = 9 THEN 256 ELSE 128

\* Each step doubles one power and halves the other: their product stays.
LEMMA Powers ==
    ASSUME NEW n \in {8, 9}, NEW k \in Nat, k < n
    PROVE  /\ Power(k) \in Nat /\ Power(n - 1 - k) \in Nat
           /\ Power(k + 1) = 2 * Power(k) /\ Power(n - k) = 2 * Power(n - 1 - k)
           /\ Power(k) * Power(n - 1 - k) = Half(n)
<1>1. k \in 0 .. 8
  OBVIOUS
<1>2. QED
  BY <1>1 DEF Power, Half

Steps(n, op, i) == IF op = 208 THEN i ELSE n - i

RotateStage(s, org, n, op, i, a, c) ==
    /\ Running(s, org, RotateCode(n, op), i, n - 8)
    /\ n = 8 => C!Bit(s.psl, C!CARRY) = c
    /\ Turned(Power(Steps(n, op, i)), Power(n - Steps(n, op, i)),
              Ring(n, c, a), Ring(n, C!Bit(s.psl, C!CARRY), s.r[0]))

\* A rotation of n steps, all the way round.
FullTurn(n, op) == n \in {8, 9} /\ op \in {80, 208}

\* The bytes of a rotation all the way round,
LEMMA RotateCodeIs ==
    ASSUME NEW n, NEW op, FullTurn(n, op)
    PROVE  /\ RotateCode(n, op) \in Seq(Byte) /\ Len(RotateCode(n, op)) = n
           /\ \A i \in 1 .. n : RotateCode(n, op)[i] = op
<1>1. op \in Byte /\ n \in Nat
  BY DEF Byte, FullTurn
<1>2. QED
  BY <1>1 DEF RotateCode

\* Not begun it has not turned,
RotateBegun(s, org, n, op, a, c) ==
    /\ FullTurn(n, op) /\ a \in Byte /\ c \in {0, 1}
    /\ Running(s, org, RotateCode(n, op), 0, n - 8)
    /\ s.r[0] = a /\ C!Bit(s.psl, C!CARRY) = c

\* A ring that has not been rotated is as it was loaded.
LEMMA RotateBegins ==
    ASSUME NEW org, NEW n, NEW op, NEW a, NEW c, NEW s, RotateBegun(s, org, n, op, a, c)
    PROVE  RotateStage(s, org, n, op, 0, a, c)
<1> DEFINE x == Ring(n, c, a)
           full == 2 * Half(n)
<1>1. x \in Nat /\ x < full /\ full \in Nat
  BY DEF RotateBegun, Ring, Half, Byte, FullTurn
<1>2. Power(0) = 1 /\ Power(n) = full /\ n - 0 = n /\ n - n = 0
  BY DEF RotateBegun, Power, Half, FullTurn
<1> HIDE DEF x, full
<1>3. Turned(1, full, x, x)
  <2>1. 0 < 1 /\ x = 0 * full + x /\ x = x * 1 + 0 /\ 0 \in Nat
    BY <1>1
  <2>2. QED
    BY <1>1, <2>1 DEF Turned
<1>4. Turned(full, 1, x, x)
  <2>1. 0 < 1 /\ x = x * 1 + 0 /\ x = 0 * full + x /\ 0 \in Nat
    BY <1>1
  <2>2. QED
    BY <1>1, <2>1 DEF Turned
<1>5. QED
  <2>1. Turned(Power(Steps(n, op, 0)), Power(n - Steps(n, op, 0)), x, x)
    BY <1>2, <1>3, <1>4 DEF RotateBegun, Steps, FullTurn
  <2>2. QED
    BY <2>1 DEF RotateBegun, RotateStage, x

\* each step turns it by one bit,
LEMMA RotateGoes ==
    ASSUME NEW org, WithinPage(org), NEW n \in {8, 9}, NEW op \in {80, 208}, NEW i \in Nat, i < n,
           NEW a, NEW c, NEW s, RotateStage(s, org, n, op, i, a, c)
    PROVE  RotateStage(C!CpuStep(s).s, org, n, op, i + 1, a, c)
<1> DEFINE code == RotateCode(n, op)
           t == C!CpuStep(s).s
           r == s.r[0]
           carry == C!Bit(s.psl, C!CARRY)
           out == BitOut(r, op)
           in == IF n = 9 THEN carry ELSE out
           b == MovedIn(r, op, in)
           after == IF n = 9 THEN out ELSE carry
           x == Ring(n, c, a)
           y == Ring(n, carry, r)
           z == Ring(n, after, b)
           half == Half(n)
<1> HIDE DEF code, t, r, carry, out, in, b, after, x, y, z, half
<1>1. code \in Seq(Byte) /\ Len(code) = n /\ code[i + 1] = op
  <2> DEFINE j == i + 1
  <2>1. j \in 1 .. n
    OBVIOUS
  <2> HIDE DEF j
  <2>2. code[j] = op /\ code \in Seq(Byte) /\ Len(code) = n
    <3>1. FullTurn(n, op)
      BY DEF FullTurn
    <3>2. QED
      BY <2>1, <3>1, RotateCodeIs DEF code
  <2>3. QED
    BY <2>2 DEF j
<1>2. /\ Running(s, org, code, i, n - 8)
      /\ n = 8 => carry = c
      /\ Turned(Power(Steps(n, op, i)), Power(n - Steps(n, op, i)), x, y)
  BY DEF RotateStage, code, carry, x, y, r
<1>3. /\ At(s, org, code, i) /\ C!Bit(s.psl, C!RS) = 0 /\ C!Bit(s.psl, C!WC) = n - 8 /\ IsCpu(s)
  BY <1>2 DEF Running, At
<1>4. r \in Byte /\ carry \in {0, 1}
  BY <1>3, Registers7, C!FlagBits, C!Parts, Same DEF IsCpu, r, carry
<1>5. Rotated(s, t, op) /\ At(t, org, code, i + 1)
  BY <1>1, <1>3, Rotating DEF Rotates, t
<1>6. /\ b \in Byte /\ out \in {0, 1}
      /\ op = 208 => z = ((2 * y) % (2 * half)) + (y \div half)
      /\ op = 80 => z = (y \div 2) + half * (y % 2)
  BY <1>4, RingTurns DEF Half, b, out, in, after, y, z, half
<1>7. (IF C!Bit(s.psl, C!WC) = 1 THEN carry ELSE out) = in
  BY <1>3 DEF in
<1>8. /\ t.r = [s.r EXCEPT ![0] = b] /\ C!ModesKept(s, t)
      /\ C!Bit(t.psl, C!CARRY) = after
  BY <1>3, <1>5, <1>7 DEF Rotated, r, carry, out, b, after
<1>9. t.r[0] = b
  BY <1>3, <1>8, Registers7
<1>10. Running(t, org, code, i + 1, n - 8)
  BY <1>2, <1>5, <1>8, Ran
<1>11. n = 8 => C!Bit(t.psl, C!CARRY) = c
  BY <1>2, <1>8 DEF after
<1>12. Turned(Power(Steps(n, op, i + 1)), Power(n - Steps(n, op, i + 1)), x, z)
  <2>1. half \in {128, 256}
    BY DEF half, Half
  <2>2. CASE op = 208
    <3> DEFINE p == Power(i)
               q == Power(n - 1 - i)
    <3>1. /\ p \in Nat /\ q \in Nat /\ p * q = half
          /\ Power(i + 1) = 2 * p /\ Power(n - i) = 2 * q
      BY Powers DEF half
    <3>2. n - (i + 1) = n - 1 - i
      OBVIOUS
    <3>3. Turned(p, 2 * q, x, y)
      BY <1>2, <2>2, <3>1 DEF Steps
    <3> HIDE DEF p, q
    <3>4. Turned(2 * p, q, x, z)
      BY <1>6, <2>1, <2>2, <3>1, <3>3, TurnLeft
    <3>5. QED
      BY <2>2, <3>1, <3>2, <3>4 DEF Steps, q
  <2>3. CASE op = 80
    <3> DEFINE k == n - 1 - i
               p == Power(k)
               q == Power(n - 1 - k)
    <3>1. k \in Nat /\ k < n /\ n - i = k + 1 /\ n - (i + 1) = k
          /\ n - (k + 1) = n - 1 - k
      OBVIOUS
    <3>2. /\ p \in Nat /\ q \in Nat /\ p * q = half
          /\ Power(k + 1) = 2 * p /\ Power(n - k) = 2 * q
      <4> HIDE DEF k
      <4>1. QED
        BY <3>1, Powers DEF half
    <3> HIDE DEF k
    <3>3. Turned(2 * p, q, x, y)
      BY <1>2, <2>3, <3>1, <3>2 DEF Steps
    <3> HIDE DEF p, q
    <3>4. Turned(p, 2 * q, x, z)
      BY <1>6, <2>1, <2>3, <3>2, <3>3, TurnRight
    <3>5. QED
      BY <2>3, <3>1, <3>2, <3>4 DEF Steps, p
  <2>4. QED
    BY <2>2, <2>3
<1>13. QED
  BY <1>8, <1>9, <1>10, <1>11, <1>12 DEF RotateStage, code, t, x, z

\* and after n it has turned all the way round.
LEMMA RotateEnds ==
    ASSUME NEW org, NEW n \in {8, 9}, NEW op \in {80, 208}, NEW a \in Byte, NEW c \in {0, 1},
           NEW s, RotateStage(s, org, n, op, n, a, c)
    PROVE  s.r[0] = a /\ C!Bit(s.psl, C!CARRY) = c
<1> DEFINE r == s.r[0]
           carry == C!Bit(s.psl, C!CARRY)
           x == Ring(n, c, a)
           y == Ring(n, carry, r)
           full == 2 * Half(n)
<1>1. IsCpu(s)
  BY DEF RotateStage, Running, At
<1>2. r \in Byte /\ carry \in {0, 1}
  BY <1>1, Registers7, C!FlagBits, C!Parts, Same DEF IsCpu
<1>3. /\ n = 8 => carry = c
      /\ Turned(Power(Steps(n, op, n)), Power(n - Steps(n, op, n)), x, y)
  BY DEF RotateStage
<1>4. Power(0) = 1 /\ Power(n) = full /\ full \in Nat /\ n - n = 0 /\ n - 0 = n
  BY DEF Power, Half
<1> HIDE DEF r, carry, x, y, full
<1>5. Turned(full, 1, x, y) \/ Turned(1, full, x, y)
  BY <1>3, <1>4 DEF Steps
<1>6. x = y
  <2>1. CASE Turned(full, 1, x, y)
    <3>1. PICK hi, lo \in Nat : hi < full /\ lo < 1 /\ x = hi * 1 + lo /\ y = lo * full + hi
      BY <2>1 DEF Turned
    <3>2. lo = 0 /\ lo * full = 0
      BY <1>4, <3>1
    <3>3. QED
      BY <3>1, <3>2
  <2>2. CASE Turned(1, full, x, y)
    <3>1. PICK hi, lo \in Nat : hi < 1 /\ lo < full /\ x = hi * full + lo /\ y = lo * 1 + hi
      BY <2>2 DEF Turned
    <3>2. hi = 0 /\ hi * full = 0
      BY <1>4, <3>1
    <3>3. QED
      BY <3>1, <3>2
  <2>3. QED
    BY <1>5, <2>1, <2>2
<1>7. QED
  <2>1. carry = c /\ r = a
    BY <1>2, <1>3, <1>6 DEF x, y, Ring, Byte
  <2>2. QED
    BY <2>1 DEF r, carry

(***************************************************************************)
(* The instruction set as the tables have it.                              *)
(***************************************************************************)

\* The mode of each mnemonic, one set after the other.
ModeNamed(b) ==
    IF b \in {18, 19, 64, 146, 147, 192} THEN "inh"
    ELSE IF b \in {32, 96, 128, 160, 224} THEN "reg"
    ELSE IF b \in {65, 193} THEN "reg13"
    ELSE IF b = 0 THEN "regz"
    ELSE IF b \in {48, 80, 112, 148, 176, 208, 240} THEN "creg"
    ELSE IF b \in {20, 52} THEN "ccond"
    ELSE IF b \in {116, 117, 118, 119, 180, 181} THEN "imm"
    ELSE IF b \in {4, 36, 68, 84, 100, 132, 164, 212, 228, 244} THEN "regimm"
    ELSE IF b \in {155, 187} THEN "zbr"
    ELSE IF b \in {8, 40, 72, 88, 104, 136, 168, 200, 216, 232, 248} THEN "regrel"
    ELSE IF b \in {24, 56, 120} THEN "crel"
    ELSE IF b \in {152, 184} THEN "crel3"
    ELSE IF b \in {92, 220, 252} THEN "regabs"
    ELSE IF b \in {28, 60, 124} THEN "cabs"
    ELSE IF b \in {156, 188} THEN "cabs3"
    ELSE IF b \in {159, 191} THEN "idxabs"
    ELSE "absx"

\* A base opcode is listed under one mode only,
LEMMA ModeTells == \A m \in Modes : \A b \in INSTRUCTIONS[m] : b \in Nat /\ m = ModeNamed(b)
<1>1. Modes = {"inh", "reg", "reg13", "regz", "creg", "ccond", "imm", "regimm", "zbr", "regrel",
               "crel", "crel3", "regabs", "cabs", "cabs3", "idxabs", "absx"}
  BY DEF Modes, INSTRUCTIONS
<1>2. QED
  BY <1>1 DEF INSTRUCTIONS, ModeNamed, LODZ

\* so ModeOf finds the mode it is listed under,
LEMMA ModeOfIs ==
    ASSUME NEW m \in Modes, NEW b \in INSTRUCTIONS[m]
    PROVE  b \in Mnemonics /\ ModeOf[b] = m
<1>1. b \in Mnemonics
  BY DEF Mnemonics
<1>2. ModeOf[b] = CHOOSE n \in Modes : b \in INSTRUCTIONS[n]
  BY <1>1 DEF ModeOf
<1>3. \A n \in Modes : b \in INSTRUCTIONS[n] => n = m
  BY ModeTells
<1>4. QED
  BY <1>1, <1>2, <1>3

\* and each base opcode is under the mode ModeOf finds.
LEMMA MnemonicHas ==
    ASSUME NEW b \in Mnemonics
    PROVE  ModeOf[b] \in Modes /\ b \in INSTRUCTIONS[ModeOf[b]] /\ b \in Nat
<1>1. PICK m \in Modes : b \in INSTRUCTIONS[m]
  BY DEF Mnemonics
<1>2. QED
  BY <1>1, ModeOfIs, ModeTells

\* The base opcode and the register or condition an opcode holds.
BaseOf(op) ==
    IF op \in 65 .. 67 THEN 65 ELSE IF op \in 193 .. 195 THEN 193
    ELSE IF op \in {18, 19, 116, 117, 118, 119, 146, 147, 155, 159, 180, 181, 187, 191} THEN op
    ELSE op - (op % 4)
SelOf(op) ==
    IF op \in {65, 193} THEN 1 ELSE IF op \in {66, 194} THEN 2 ELSE IF op \in {67, 195} THEN 3
    ELSE IF BaseOf(op) = op THEN 0 ELSE op % 4

\* No two instructions share an opcode.
LEMMA Claimed ==
    ASSUME NEW m \in Modes, NEW b \in INSTRUCTIONS[m], NEW n \in Selectors(m)
    PROVE  /\ n \in 0 .. 3 /\ Opcode(b, n) \in Byte /\ b \in Opcode(b, n) - 3 .. Opcode(b, n)
           /\ b = BaseOf(Opcode(b, n)) /\ n = SelOf(Opcode(b, n))
           /\ Opcode(b, n) = IF m = "reg13" THEN b + n - 1 ELSE b + n
<1>1. Opcode(b, n) = IF m = "reg13" THEN b + n - 1 ELSE b + n
  BY ModeOfIs DEF Opcode
<1>2. Modes = {"inh", "reg", "reg13", "regz", "creg", "ccond", "imm", "regimm", "zbr", "regrel",
               "crel", "crel3", "regabs", "cabs", "cabs3", "idxabs", "absx"}
  BY DEF Modes, INSTRUCTIONS
<1>3. n \in 0 .. 3 /\ b \in Nat
  BY ModeTells DEF Selectors
<1> DEFINE op == Opcode(b, n)
           Owned == op \in Byte /\ b \in op - 3 .. op /\ b = BaseOf(op) /\ n = SelOf(op)
<1> HIDE DEF op
<1>4. CASE m = "reg13"
  <2>1. op = b + n - 1 /\ n \in 1 .. 3 /\ b \in {65, 193}
    BY <1>1, <1>4 DEF op, Selectors, INSTRUCTIONS
  <2>2. Owned
    <3>1. b = 65 /\ n = 1 => Owned
      BY <2>1 DEF BaseOf, SelOf, Byte
    <3>2. b = 65 /\ n = 2 => Owned
      BY <2>1 DEF BaseOf, SelOf, Byte
    <3>3. b = 65 /\ n = 3 => Owned
      BY <2>1 DEF BaseOf, SelOf, Byte
    <3>4. b = 193 /\ n = 1 => Owned
      BY <2>1 DEF BaseOf, SelOf, Byte
    <3>5. b = 193 /\ n = 2 => Owned
      BY <2>1 DEF BaseOf, SelOf, Byte
    <3>6. b = 193 /\ n = 3 => Owned
      BY <2>1 DEF BaseOf, SelOf, Byte
    <3>7. QED
      BY <2>1, <3>1, <3>2, <3>3, <3>4, <3>5, <3>6
  <2>3. QED
    BY <1>1, <1>3, <2>2 DEF op
<1>5. CASE m \in {"inh", "imm", "zbr", "idxabs"}
  <2>1. /\ op = b /\ n = 0
        /\ b \in {18, 19, 64, 146, 147, 192, 116, 117, 118, 119, 180, 181, 155, 187, 159, 191}
    BY <1>1, <1>3, <1>5 DEF op, Selectors, INSTRUCTIONS
  <2>2. Owned
    BY <2>1 DEF BaseOf, SelOf, Byte
  <2>3. QED
    BY <1>1, <1>3, <2>2 DEF op
<1>6. CASE m \in {"crel3", "cabs3"}
  <2>1. op = b + n /\ n \in 0 .. 2 /\ b \in {152, 184, 156, 188}
    BY <1>1, <1>6 DEF op, Selectors, INSTRUCTIONS
  <2>2. Owned
    <3>1. b = 152 /\ n = 0 => Owned
      BY <2>1 DEF BaseOf, SelOf, Byte
    <3>2. b = 152 /\ n = 1 => Owned
      BY <2>1 DEF BaseOf, SelOf, Byte
    <3>3. b = 152 /\ n = 2 => Owned
      BY <2>1 DEF BaseOf, SelOf, Byte
    <3>4. b = 184 /\ n = 0 => Owned
      BY <2>1 DEF BaseOf, SelOf, Byte
    <3>5. b = 184 /\ n = 1 => Owned
      BY <2>1 DEF BaseOf, SelOf, Byte
    <3>6. b = 184 /\ n = 2 => Owned
      BY <2>1 DEF BaseOf, SelOf, Byte
    <3>7. b = 156 /\ n = 0 => Owned
      BY <2>1 DEF BaseOf, SelOf, Byte
    <3>8. b = 156 /\ n = 1 => Owned
      BY <2>1 DEF BaseOf, SelOf, Byte
    <3>9. b = 156 /\ n = 2 => Owned
      BY <2>1 DEF BaseOf, SelOf, Byte
    <3>10. b = 188 /\ n = 0 => Owned
      BY <2>1 DEF BaseOf, SelOf, Byte
    <3>11. b = 188 /\ n = 1 => Owned
      BY <2>1 DEF BaseOf, SelOf, Byte
    <3>12. b = 188 /\ n = 2 => Owned
      BY <2>1 DEF BaseOf, SelOf, Byte
    <3>13. QED
      BY <2>1, <3>1, <3>2, <3>3, <3>4, <3>5, <3>6, <3>7, <3>8, <3>9, <3>10, <3>11, <3>12
  <2>3. QED
    BY <1>1, <1>3, <2>2 DEF op
<1>7. CASE m \in {"reg", "regz", "creg", "ccond", "regimm", "regrel", "crel", "regabs",
                   "cabs", "absx"}
  <2>1. op = b + n /\ b \in {32, 96, 128, 160, 224, 0, 48, 80, 112, 148, 176, 208, 240, 20, 52, 4, 36,
                   68, 84, 100, 132, 164, 212, 228, 244, 8, 40, 72, 88, 104, 136, 168, 200, 216,
                   232, 248, 24, 56, 120, 92, 220, 252, 28, 60, 124, 12, 44, 76, 108, 140, 172,
                   204, 236}
    BY <1>1, <1>7 DEF op, INSTRUCTIONS, LODZ
  <2>2. op \in Byte /\ b \in op - 3 .. op /\ b % 4 = 0
    BY <1>3, <2>1 DEF Byte
  <2>3. op % 4 = n /\ b \in Nat /\ b = op - (op % 4)
    BY <1>3, <2>1, <2>2
  <2>7. b \notin {16, 64, 192, 116, 144, 152, 156, 180, 184, 188}
    BY <2>1
  <2>8. op \notin 65 .. 67 /\ op \notin 193 .. 195
    BY <2>3, <2>7
  <2>9. op \notin {18, 19, 116, 117, 118, 119, 146, 147, 155, 159, 180, 181, 187, 191}
    <3>1. \A x \in {18, 19, 116, 117, 118, 119, 146, 147, 155, 159, 180, 181, 187, 191} :
              x - (x % 4) \in {16, 116, 144, 152, 156, 180, 184, 188}
      OBVIOUS
    <3>2. op - (op % 4) \notin {16, 116, 144, 152, 156, 180, 184, 188}
      BY <2>3, <2>7
    <3>3. QED
      BY <3>1, <3>2
  <2>4. b = BaseOf(op)
    BY <2>3, <2>8, <2>9 DEF BaseOf
  <2>5. n = SelOf(op)
    <3>1. op \notin {65, 66, 67, 193, 194, 195}
      BY <2>8
    <3>2. SelOf(op) = IF BaseOf(op) = op THEN 0 ELSE op % 4
      BY <3>1 DEF SelOf
    <3>3. b = op => n = 0
      BY <1>3, <2>3
    <3>4. QED
      BY <2>3, <2>4, <3>2, <3>3
  <2>6. QED
    BY <1>1, <1>3, <2>2, <2>4, <2>5 DEF op
<1>8. QED
  BY <1>2, <1>4, <1>5, <1>6, <1>7

\* An opcode is that of one instruction.
Spotted(op, b, m, n) ==
    /\ m \in Modes /\ b \in INSTRUCTIONS[m] /\ n \in Selectors(m)
    /\ op = IF m = "reg13" THEN b + n - 1 ELSE b + n
    /\ Claims(op) = {<<b, n>>} /\ Defined(op)
    /\ DECODE_TABLE[op].base = b /\ DECODE_TABLE[op].mode = m /\ DECODE_TABLE[op].sel = n

\* An instruction's opcode is claimed by that instruction alone, and decoded to it.
LEMMA Spots ==
    ASSUME NEW m \in Modes, NEW b \in INSTRUCTIONS[m], NEW n \in Selectors(m)
    PROVE  Spotted(IF m = "reg13" THEN b + n - 1 ELSE b + n, b, m, n)
<1> DEFINE op == Opcode(b, n)
           e == <<b, n>>
<1>1. /\ op \in Byte /\ b \in op - 3 .. op /\ n \in 0 .. 3
      /\ b \in Mnemonics /\ ModeOf[b] = m
  BY Claimed, ModeOfIs
<1>2. e \in Claims(op)
  BY <1>1 DEF Claims
<1>3. ASSUME NEW x \in Claims(op)
      PROVE  x = e
  <2>1. /\ x = <<x[1], x[2]>> /\ x[1] \in Mnemonics /\ x[2] \in Selectors(ModeOf[x[1]])
        /\ Opcode(x[1], x[2]) = op
    BY DEF Claims
  <2>2. x[1] = BaseOf(op) /\ x[2] = SelOf(op)
    BY <2>1, MnemonicHas, Claimed
  <2>3. b = BaseOf(op) /\ n = SelOf(op)
    BY Claimed
  <2>4. QED
    BY <2>1, <2>2, <2>3
<1>4. Claims(op) = {e}
  BY <1>2, <1>3
<1>5. op \in DefinedOpcodes
  BY <1>1, <1>4 DEF DefinedOpcodes
<1> DEFINE c == CHOOSE x \in Claims(op) : TRUE
<1>6. DECODE_TABLE[op] = [base |-> c[1], mode |-> ModeOf[c[1]], sel |-> c[2]]
  BY <1>5 DEF DECODE_TABLE
<1>7. c = e
  BY <1>4
<1> HIDE DEF c
<1>8. Spotted(op, b, m, n)
  BY <1>1, <1>4, <1>5, <1>6, <1>7, Claimed DEF Spotted, Defined
<1>9. QED
  BY <1>8, Claimed

\* The opcodes no instruction has.
Gaps == {16, 17, 144, 145, 182, 183} \cup 196 .. 199

\* No instruction claims them.
LEMMA Gap ==
    ASSUME NEW op \in Gaps
    PROVE  Claims(op) = {}
<1> SUFFICES ASSUME NEW e \in Claims(op)
             PROVE  FALSE
  OBVIOUS
<1> DEFINE b == e[1]
           n == e[2]
<1>1. b \in Mnemonics /\ n \in Selectors(ModeOf[b]) /\ Opcode(b, n) = op
  BY DEF Claims
<1> HIDE DEF b, n
<1>2. ModeOf[b] \in Modes /\ b \in INSTRUCTIONS[ModeOf[b]] /\ ModeOf[b] = ModeNamed(b)
  BY <1>1, MnemonicHas, ModeTells
<1>3. b = BaseOf(op) /\ n = SelOf(op)
  BY <1>1, <1>2, Claimed
<1>4. BaseOf(op) \in {16, 144, 180, 196} /\ (BaseOf(op) = 180 => SelOf(op) \in {2, 3})
  <2>1. \A x \in {16, 17, 144, 145, 182, 183, 196, 197, 198, 199} :
            BaseOf(x) \in {16, 144, 180, 196} /\ (BaseOf(x) = 180 => SelOf(x) \in {2, 3})
    BY DEF BaseOf, SelOf
  <2>2. op \in {16, 17, 144, 145, 182, 183, 196, 197, 198, 199}
    BY DEF Gaps
  <2>3. QED
    BY <2>1, <2>2
<1>5. b = 180 => ModeNamed(b) = "imm"
  BY DEF ModeNamed
<1>6. b \in {16, 144, 196} => ModeNamed(b) = "absx"
  BY DEF ModeNamed
<1>7. Selectors("imm") = {0} /\ INSTRUCTIONS["absx"] \cap {16, 144, 196} = {}
  BY DEF Selectors, INSTRUCTIONS
<1>8. QED
  BY <1>1, <1>2, <1>3, <1>4, <1>5, <1>6, <1>7

\* Every other opcode has one.
LEMMA Covered ==
    ASSUME NEW op \in Byte, op \notin Gaps
    PROVE  \E b, m, n : Spotted(op, b, m, n)
<1> DEFINE Plain == {0, 4, 8, 12, 20, 24, 28, 32, 36, 40, 44, 48, 52, 56, 60, 68, 72, 76, 80, 84,
                     88, 92, 96, 100, 104, 108, 112, 120, 124, 128, 132, 136, 140, 148, 160, 164,
                     168, 172, 176, 200, 204, 208, 212, 216, 220, 224, 228, 232, 236, 240, 244,
                     248, 252}
           Short == {152, 156, 184, 188}
           Single == {18, 19, 64, 116, 117, 118, 119, 146, 147, 155, 159, 180, 181, 187, 191, 192}
           Known(b, n) == /\ ModeNamed(b) \in Modes /\ b \in INSTRUCTIONS[ModeNamed(b)]
                          /\ n \in Selectors(ModeNamed(b))
<1>1. ASSUME NEW b, NEW n, Known(b, n),
             op = IF ModeNamed(b) = "reg13" THEN b + n - 1 ELSE b + n
      PROVE  \E c, m, k : Spotted(op, c, m, k)
  BY <1>1, Spots
<1>2. ASSUME NEW b \in Single
      PROVE  Known(b, 0) /\ ModeNamed(b) # "reg13" /\ b + 0 = b
  BY DEF ModeNamed, Modes, INSTRUCTIONS, Selectors
<1>3. ASSUME NEW b \in Short, NEW n \in 0 .. 2
      PROVE  Known(b, n) /\ ModeNamed(b) # "reg13"
  BY DEF ModeNamed, Modes, INSTRUCTIONS, Selectors
<1>4. ASSUME NEW b \in {65, 193}, NEW n \in 1 .. 3
      PROVE  Known(b, n) /\ ModeNamed(b) = "reg13"
  BY DEF ModeNamed, Modes, INSTRUCTIONS, Selectors
<1>5. ASSUME NEW b \in Plain, NEW n \in 0 .. 3
      PROVE  Known(b, n) /\ ModeNamed(b) # "reg13"
  <2>1. CASE b \in {32, 96, 128, 160, 224}
    BY <2>1 DEF ModeNamed, Modes, INSTRUCTIONS, Selectors
  <2>2. CASE b = 0
    BY <2>2 DEF ModeNamed, Modes, INSTRUCTIONS, Selectors, LODZ
  <2>3. CASE b \in {48, 80, 112, 148, 176, 208, 240}
    BY <2>3 DEF ModeNamed, Modes, INSTRUCTIONS, Selectors
  <2>4. CASE b \in {20, 52}
    BY <2>4 DEF ModeNamed, Modes, INSTRUCTIONS, Selectors
  <2>5. CASE b \in {4, 36, 68, 84, 100, 132, 164, 212, 228, 244}
    BY <2>5 DEF ModeNamed, Modes, INSTRUCTIONS, Selectors
  <2>6. CASE b \in {8, 40, 72, 88, 104, 136, 168, 200, 216, 232, 248}
    BY <2>6 DEF ModeNamed, Modes, INSTRUCTIONS, Selectors
  <2>7. CASE b \in {24, 56, 120}
    BY <2>7 DEF ModeNamed, Modes, INSTRUCTIONS, Selectors
  <2>8. CASE b \in {92, 220, 252}
    BY <2>8 DEF ModeNamed, Modes, INSTRUCTIONS, Selectors
  <2>9. CASE b \in {28, 60, 124}
    BY <2>9 DEF ModeNamed, Modes, INSTRUCTIONS, Selectors
  <2>10. CASE b \in {12, 44, 76, 108, 140, 172, 204, 236}
    BY <2>10 DEF ModeNamed, Modes, INSTRUCTIONS, Selectors
  <2>11. QED
    BY <2>1, <2>2, <2>3, <2>4, <2>5, <2>6, <2>7, <2>8, <2>9, <2>10
<1> DEFINE n == op % 4
           b == op - n
           k == op \div 4
<1>6. /\ op \in Int /\ n \in 0 .. 3 /\ k \in 0 .. 63 /\ b = 4 * k /\ op = b + n
      /\ b \in Int
  BY DEF Byte
<1> HIDE DEF n, b, k, Known
<1>7. op \in Single \/ op \in 65 .. 67 \/ op \in 193 .. 195 \/ b \in Plain
      \/ (b \in Short /\ n \in 0 .. 2)
  <2>1. b \in Plain \/ b \in Short \/ b \in {16, 64, 116, 144, 180, 192, 196}
    <3>1. k < 32 => b \in Plain \/ b \in Short \/ b \in {16, 64, 116, 144, 180, 192, 196}
      BY <1>6
    <3>2. k >= 32 => b \in Plain \/ b \in Short \/ b \in {16, 64, 116, 144, 180, 192, 196}
      BY <1>6
    <3>3. QED
      BY <1>6, <3>1, <3>2
  <2>2. n = 0 \/ n = 1 \/ n = 2 \/ n = 3
    BY <1>6
  <2>3. b \in Short => op \in Single \/ n \in 0 .. 2
    BY <1>6, <2>2
  <2>4. b \in {16, 64, 116, 144, 180, 192, 196} =>
            op \in Single \/ op \in 65 .. 67 \/ op \in 193 .. 195
    <3>1. op \notin {16, 17, 144, 145, 182, 183, 196, 197, 198, 199}
      BY DEF Gaps
    <3>2. QED
      BY <1>6, <2>2, <3>1
  <2> HIDE DEF Plain, Short, Single
  <2>5. QED
    BY <2>1, <2>3, <2>4
<1>8. CASE op \in Single
  BY <1>1, <1>2, <1>8
<1>9. CASE op \in 65 .. 67
  <2> DEFINE i == op - 64
  <2>1. i \in 1 .. 3 /\ op = 65 + i - 1
    BY <1>6, <1>9
  <2> HIDE DEF i
  <2>2. QED
    BY <1>1, <1>4, <2>1
<1>10. CASE op \in 193 .. 195
  <2> DEFINE i == op - 192
  <2>1. i \in 1 .. 3 /\ op = 193 + i - 1
    BY <1>6, <1>10
  <2> HIDE DEF i
  <2>2. QED
    BY <1>1, <1>4, <2>1
<1>11. CASE b \in Plain
  BY <1>1, <1>5, <1>6, <1>11
<1>12. CASE b \in Short /\ n \in 0 .. 2
  BY <1>1, <1>3, <1>6, <1>12
<1>13. QED
  BY <1>7, <1>8, <1>9, <1>10, <1>11, <1>12

(***************************************************************************)
(* What an instruction reads.                                              *)
(***************************************************************************)

\* An address of a page, counted from another of it, is counted from the first.
LEMMA PageWraps ==
    ASSUME NEW a \in Address, NEW i \in Int, NEW d \in Int
    PROVE  /\ C!InPage(a, i) \in Address
           /\ C!InPage(a, i) = PageOf(a) + ((a + i) % 8192)
           /\ C!InPage(C!InPage(a, i), d) = C!InPage(a, i + d)
           /\ PageOf(C!InPage(a, i)) = PageOf(a)
<1>1. a \in Int /\ 0 <= a /\ a < 32768
  BY C!AddressIs, Same
<1> DEFINE page == a \div 8192
           x == (a + i) % 8192
           q == (a + i) \div 8192
           e == 8192 * page + x
<1>2. /\ page \in Int /\ x \in Int /\ 0 <= x /\ x < 8192 /\ q \in Int
      /\ a + i = 8192 * q + x
  BY <1>1
<1>3. C!InPage(a, i) = e
  BY <1>2 DEF C!InPage
<1>4. PageOf(a) = 8192 * page
  BY <1>2 DEF PageOf
<1>5. (a + (i + d)) % 8192 = (e + d) % 8192
  <2>1. a + (i + d) = (e + d) + 8192 * (q - page)
    BY <1>1, <1>2
  <2> DEFINE y == e + d
             k == q - page
  <2>2. y \in Int /\ k \in Int /\ a + (i + d) = y + 8192 * k
    BY <1>2, <2>1
  <2> HIDE DEF y, k
  <2>3. (y + 8192 * k) % 8192 = y % 8192
    BY <2>2
  <2>4. QED
    BY <2>2, <2>3 DEF y
<1>6. C!InPage(a, i + d) = 8192 * page + ((e + d) % 8192)
  BY <1>1, <1>2, <1>5 DEF C!InPage
<1> HIDE DEF page, x, q
<1>7. e \div 8192 = page
  BY <1>2
<1>8. C!InPage(e, d) = 8192 * page + ((e + d) % 8192)
  BY <1>2, <1>7 DEF C!InPage
<1>9. C!InPage(a, i) \in Address
  BY C!InPageType, Same
<1>10. PageOf(e) = 8192 * page
  BY <1>2, <1>7 DEF PageOf
<1>11. QED
  BY <1>2, <1>3, <1>4, <1>6, <1>8, <1>9, <1>10 DEF x

\* A CPU t has come from s by using its bus: it has at most read, and moved its pc.
Used(s, t) ==
    /\ IsCpu(t)
    /\ t.psl = s.psl /\ t.psu = s.psu /\ t.ras = s.ras /\ t.illegal = s.illegal
    /\ t.bus.org = s.bus.org /\ t.bus.code = s.bus.code /\ t.bus.writes = s.bus.writes

\* Reading leaves the RAM as it was.
LEMMA HoldsStill ==
    ASSUME NEW s, NEW t, Used(s, t)
    PROVE  \A a : Holds(t.bus, a) = Holds(s.bus, a)
BY DEF Used, Holds

\* Two such steps are one.
LEMMA UsedAgain ==
    ASSUME NEW s, NEW t, NEW u, Used(s, t), Used(t, u)
    PROVE  Used(s, u)
BY DEF Used

\* One read,
LEMMA Reading ==
    ASSUME NEW s, IsCpu(s), NEW a \in Address
    PROVE  LET q == C!ReadAt(s, a)
           IN  /\ q.v = Holds(s.bus, a) /\ q.v \in Byte
               /\ Used(s, q.s) /\ q.s.r = s.r /\ q.s.pc = s.pc
               /\ q.s.bus.reads = Append(s.bus.reads, a)
<1> DEFINE now == s.clocks
           q == C!ReadAt(s, a)
           v == Holds(s.bus, a)
           reads == Append(s.bus.reads, a)
           b == [s.bus EXCEPT !.reads = reads]
           t == [s EXCEPT !.bus = b]
<1>1. now \in Nat /\ s \in C!Cpus(Rams, now)
  BY DEF IsCpu
<1>2. s.bus \in Rams
  BY <1>1, C!Parts
<1>3. v \in Byte
  BY <1>2, HoldsType
<1>4. q = [v |-> v, s |-> t]
  BY DEF C!ReadAt, C!Took, RamRead
<1>5. q.s \in C!Cpus(Rams, now)
  BY <1>1, RamBus, C!ReadType, Same
<1>6. q.s.clocks = now
  BY <1>1, <1>5, C!Parts
<1> HIDE DEF now, reads, v
<1>7. b.org = s.bus.org /\ b.code = s.bus.code /\ b.writes = s.bus.writes /\ b.reads = reads
  BY <1>2 DEF Rams
<1> HIDE DEF b
<1>8. /\ t.bus = b /\ t.r = s.r /\ t.pc = s.pc /\ t.psl = s.psl /\ t.psu = s.psu
      /\ t.ras = s.ras /\ t.illegal = s.illegal
  BY <1>1 DEF C!Cpus
<1> HIDE DEF t, q
<1>9. q.v = v /\ q.s = t
  BY <1>4
<1>10. IsCpu(q.s)
  BY <1>1, <1>5, <1>6 DEF IsCpu
<1>11. Used(s, q.s)
  BY <1>7, <1>8, <1>9, <1>10 DEF Used
<1>12. QED
  BY <1>3, <1>7, <1>8, <1>9, <1>11 DEF q, v, reads

\* one fetch,
LEMMA FetchingAt ==
    ASSUME NEW s, IsCpu(s)
    PROVE  LET f == C!Fetch(s)
           IN  /\ f.v = Holds(s.bus, s.pc) /\ f.v \in Byte
               /\ Used(s, f.s) /\ f.s.r = s.r /\ f.s.pc = C!InPage(s.pc, 1)
<1> DEFINE a == C!InPage(s.pc, 1)
           u == [s EXCEPT !.pc = a]
           f == C!Fetch(s)
           q == C!ReadAt(u, s.pc)
           now == s.clocks
<1>1. now \in Nat /\ s \in C!Cpus(Rams, now)
  BY DEF IsCpu
<1>2. s.pc \in C!Address /\ a \in C!Address
  BY <1>1, C!Parts, C!InPageType
<1> HIDE DEF a, now
<1>3. u \in C!Cpus(Rams, now)
  BY <1>1, <1>2, C!WithPc
<1>4. /\ u.bus = s.bus /\ u.r = s.r /\ u.pc = a /\ u.psl = s.psl /\ u.psu = s.psu
      /\ u.ras = s.ras /\ u.illegal = s.illegal
  BY <1>1 DEF C!Cpus
<1>5. u.clocks = now
  BY <1>1, <1>3, C!Parts
<1>6. IsCpu(u)
  BY <1>1, <1>3, <1>5 DEF IsCpu
<1>7. f = q
  <2>1. f = C!Took(u, RamRead(s.bus, s.pc))
    BY DEF C!Fetch, a
  <2> HIDE DEF u
  <2>2. q = C!Took(u, RamRead(u.bus, s.pc))
    BY DEF C!ReadAt
  <2>3. QED
    BY <1>4, <2>1, <2>2
<1> HIDE DEF u, f
<1>8. /\ q.v = Holds(u.bus, s.pc) /\ q.v \in Byte
      /\ Used(u, q.s) /\ q.s.r = u.r /\ q.s.pc = u.pc
  BY <1>2, <1>6, Reading, Same
<1> HIDE DEF q
<1>9. Used(s, q.s)
  BY <1>4, <1>8 DEF Used
<1>10. QED
  BY <1>4, <1>7, <1>8, <1>9 DEF f, a

\* two,
LEMMA FetchingPair ==
    ASSUME NEW s, IsCpu(s)
    PROVE  LET w == C!FetchPair(s)
           IN  /\ w.v = 256 * Holds(s.bus, s.pc) + Holds(s.bus, C!InPage(s.pc, 1))
               /\ Used(s, w.s) /\ w.s.r = s.r /\ w.s.pc = C!InPage(s.pc, 2)
<1> DEFINE hi == C!Fetch(s)
           lo == C!Fetch(hi.s)
           w == C!FetchPair(s)
<1>1. /\ hi.v = Holds(s.bus, s.pc)
      /\ Used(s, hi.s) /\ hi.s.r = s.r /\ hi.s.pc = C!InPage(s.pc, 1)
  BY FetchingAt
<1>2. w = [v |-> 256 * hi.v + lo.v, s |-> lo.s]
  BY DEF C!FetchPair, C!Word
<1> HIDE DEF hi
<1>3. /\ lo.v = Holds(hi.s.bus, hi.s.pc)
      /\ Used(hi.s, lo.s) /\ lo.s.r = hi.s.r /\ lo.s.pc = C!InPage(hi.s.pc, 1)
  BY <1>1, FetchingAt DEF Used
<1> HIDE DEF lo
<1>4. lo.v = Holds(s.bus, C!InPage(s.pc, 1))
  BY <1>1, <1>3, HoldsStill
<1>5. Used(s, lo.s)
  BY <1>1, <1>3, UsedAgain
<1>6. C!InPage(C!InPage(s.pc, 1), 1) = C!InPage(s.pc, 2)
  <2>1. s.pc \in Address
    BY C!Parts, Same DEF IsCpu
  <2>2. QED
    BY <2>1, PageWraps
<1>7. w.v = 256 * hi.v + lo.v /\ w.s = lo.s
  BY <1>2
<1> HIDE DEF w
<1>8. QED
  BY <1>1, <1>3, <1>4, <1>5, <1>6, <1>7 DEF w

\* and the pointer at an address of RAM.
PointerAt(b, a) == (256 * Holds(b, a) + Holds(b, C!InPage(a, 1))) % 32768

\* What dereferencing an address leaves.
Leads(s, a, indirect, e) ==
    /\ e.ea = IF indirect THEN PointerAt(s.bus, a) ELSE a
    /\ e.ea \in Address
    /\ Used(s, e.s) /\ e.s.r = s.r /\ e.s.pc = s.pc

\* Deref reads the pointer where there is one: emulator and tables agree on it.
LEMMA Pointing ==
    ASSUME NEW s, IsCpu(s), NEW a \in Address, NEW indirect
    PROVE  Leads(s, a, indirect, C!Deref(s, a, indirect))
<1> DEFINE next == C!InPage(a, 1)
           hi == C!ReadAt(s, a)
           lo == C!ReadAt(hi.s, next)
           e == C!Deref(s, a, indirect)
           w == (256 * hi.v + lo.v) % 32768
<1>1. next \in Address
  BY C!InPageType, Same
<1>2. e = IF indirect THEN [ea |-> w, k |-> 6, s |-> lo.s] ELSE [ea |-> a, k |-> 0, s |-> s]
  BY DEF C!Deref, C!ReadPair, C!Word
<1> HIDE DEF next
<1>3. hi.v = Holds(s.bus, a) /\ Used(s, hi.s) /\ hi.s.r = s.r /\ hi.s.pc = s.pc /\ hi.v \in Byte
  BY Reading
<1> HIDE DEF hi
<1>4. /\ lo.v = Holds(hi.s.bus, next) /\ lo.v \in Byte
      /\ Used(hi.s, lo.s) /\ lo.s.r = hi.s.r /\ lo.s.pc = hi.s.pc
  BY <1>1, <1>3, Reading DEF Used
<1> HIDE DEF lo
<1>5. lo.v = Holds(s.bus, next)
  BY <1>3, <1>4, HoldsStill
<1>6. w = PointerAt(s.bus, a)
  BY <1>3, <1>5 DEF PointerAt, next
<1>7. w \in Address
  <2>1. hi.v \in Int /\ lo.v \in Int
    BY <1>3, <1>4 DEF Byte
  <2>2. QED
    BY <2>1, C!AddressIs, Same
<1>8. Used(s, lo.s) /\ Used(s, s)
  BY <1>3, <1>4, UsedAgain DEF Used
<1> HIDE DEF w
<1>9. CASE indirect
  <2>1. e.ea = w /\ e.s = lo.s
    BY <1>2, <1>9
  <2> HIDE DEF e
  <2>2. QED
    BY <1>3, <1>4, <1>6, <1>7, <1>8, <1>9, <2>1 DEF e, Leads
<1>10. CASE ~indirect
  <2>1. e.ea = a /\ e.s = s
    BY <1>2, <1>10
  <2> HIDE DEF e
  <2>2. QED
    BY <1>8, <1>10, <2>1 DEF e, Leads
<1>11. QED
  BY <1>9, <1>10

\* An address, or what the pointer there points at.
Through(b, a, indirect) == IF indirect THEN PointerAt(b, a) ELSE a

\* The address of a relative operand, the pc being at its byte;
RelativeAddress(s) ==
    LET b == Holds(s.bus, s.pc)
    IN  Through(s.bus, C!InPage(s.pc, 1 + C!Disp(b)), b >= 128)

\* rel_ea finds the relative address and leaves what it does not own,
LEMMA Relatively ==
    ASSUME NEW s, IsCpu(s)
    PROVE  LET e == C!RelEa(s, C!FromHere)
           IN  /\ e.ea = RelativeAddress(s)
               /\ e.ea \in Address
               /\ Used(s, e.s) /\ e.s.r = s.r /\ e.s.pc = C!InPage(s.pc, 1)
<1> DEFINE f == C!Fetch(s)
           e == C!RelEa(s, C!FromHere)
           b == Holds(s.bus, s.pc)
           a == C!InPage(f.s.pc, C!Disp(f.v))
           indirect == f.v >= 128
<1>1. f.v = b /\ f.v \in Byte /\ Used(s, f.s) /\ f.s.r = s.r /\ f.s.pc = C!InPage(s.pc, 1)
  BY FetchingAt
<1>2. e = C!Deref(f.s, a, indirect)
  BY DEF C!RelEa, C!FromHere
<1>3. s.pc \in Address
  BY C!Parts, Same DEF IsCpu
<1> HIDE DEF f
<1>4. C!Disp(b) \in Int
  BY <1>1, C!DispType, Same
<1>5. a = C!InPage(s.pc, 1 + C!Disp(b)) /\ a \in Address /\ indirect \in BOOLEAN
  <2> DEFINE d == C!Disp(b)
  <2>1. a = C!InPage(C!InPage(s.pc, 1), d)
    BY <1>1
  <2>2. d \in Int /\ 1 + d \in Int /\ 1 \in Int
    BY <1>4
  <2> HIDE DEF a, d
  <2>3. /\ C!InPage(C!InPage(s.pc, 1), d) = C!InPage(s.pc, 1 + d)
        /\ C!InPage(s.pc, 1 + d) \in Address
    BY <1>3, <2>2, PageWraps
  <2>4. QED
    BY <2>1, <2>3 DEF d
<1> HIDE DEF a, e, indirect
<1>6. /\ e.ea = IF indirect THEN PointerAt(f.s.bus, a) ELSE a
      /\ e.ea \in Address
      /\ Used(f.s, e.s) /\ e.s.r = f.s.r /\ e.s.pc = f.s.pc
  <2>1. IsCpu(f.s)
    BY <1>1 DEF Used
  <2>2. Leads(f.s, a, indirect, e)
    BY <1>2, <1>5, <2>1, Pointing
  <2>3. QED
    BY <2>2 DEF Leads
<1>7. PointerAt(f.s.bus, a) = PointerAt(s.bus, a)
  BY <1>1, HoldsStill DEF PointerAt
<1>8. e.ea = Through(s.bus, a, indirect)
  BY <1>6, <1>7 DEF Through
<1>9. Used(s, e.s)
  BY <1>1, <1>6, UsedAgain
<1>10. indirect = (b >= 128)
  BY <1>1 DEF indirect
<1>11. QED
  BY <1>1, <1>5, <1>6, <1>8, <1>9, <1>10 DEF e, RelativeAddress

\* of ZBRR and ZBSR;
LEMMA FromPageZero ==
    ASSUME NEW s, IsCpu(s)
    PROVE  LET e == C!RelEa(s, C!FromZero)
           IN  /\ e.ea \in Address
               /\ Used(s, e.s) /\ e.s.r = s.r /\ e.s.pc = C!InPage(s.pc, 1)
<1> DEFINE f == C!Fetch(s)
           e == C!RelEa(s, C!FromZero)
           a == C!Disp(f.v) % 8192
           indirect == f.v >= 128
<1>1. f.v \in Byte /\ Used(s, f.s) /\ f.s.r = s.r /\ f.s.pc = C!InPage(s.pc, 1)
  BY FetchingAt
<1>2. e = C!Deref(f.s, a, indirect)
  BY DEF C!RelEa, C!FromZero
<1> HIDE DEF f
<1>3. a \in Address /\ indirect \in BOOLEAN
  BY <1>1, C!DispType, Same
<1> HIDE DEF a, e, indirect
<1>4. e.ea \in Address /\ Used(f.s, e.s) /\ e.s.r = f.s.r /\ e.s.pc = f.s.pc
  <2>1. IsCpu(f.s)
    BY <1>1 DEF Used
  <2>2. Leads(f.s, a, indirect, e)
    BY <1>2, <1>3, <2>1, Pointing
  <2>3. QED
    BY <2>2 DEF Leads
<1>5. Used(s, e.s)
  BY <1>1, <1>4, UsedAgain
<1>6. QED
  BY <1>1, <1>4, <1>5 DEF e

\* of an absolute branch;
AbsoluteAddress(s) ==
    LET b == Holds(s.bus, s.pc)
        c == Holds(s.bus, C!InPage(s.pc, 1))
    IN  Through(s.bus, (b % 128) * 256 + c, b >= 128)

\* branch_ea the absolute one,
LEMMA Absolutely ==
    ASSUME NEW s, IsCpu(s)
    PROVE  LET e == C!BranchEa(s)
           IN  /\ e.ea = AbsoluteAddress(s)
               /\ e.ea \in Address
               /\ Used(s, e.s) /\ e.s.r = s.r /\ e.s.pc = C!InPage(s.pc, 2)
<1> DEFINE w == C!FetchPair(s)
           e == C!BranchEa(s)
           b == Holds(s.bus, s.pc)
           c == Holds(s.bus, C!InPage(s.pc, 1))
           a == w.v % 32768
           indirect == w.v >= 32768
<1>1. w.v = 256 * b + c /\ Used(s, w.s) /\ w.s.r = s.r /\ w.s.pc = C!InPage(s.pc, 2)
  BY FetchingPair
<1>2. e = C!Deref(w.s, a, indirect)
  BY DEF C!BranchEa
<1> HIDE DEF w
<1>3. b \in Byte /\ c \in Byte
  <2>1. s.bus \in Rams /\ s.pc \in Address
    BY C!Parts, Same DEF IsCpu
  <2>2. C!InPage(s.pc, 1) \in Address
    BY <2>1, PageWraps
  <2>3. QED
    BY <2>1, <2>2, HoldsType
<1> HIDE DEF b, c
<1>4. a = (b % 128) * 256 + c /\ indirect = (b >= 128)
  BY <1>1, <1>3 DEF Byte
<1>5. a \in Address /\ indirect \in BOOLEAN
  BY <1>3, <1>4, C!AddressIs, Same DEF Byte
<1> HIDE DEF a, e, indirect
<1>6. /\ e.ea = IF indirect THEN PointerAt(w.s.bus, a) ELSE a
      /\ e.ea \in Address
      /\ Used(w.s, e.s) /\ e.s.r = w.s.r /\ e.s.pc = w.s.pc
  <2>1. IsCpu(w.s)
    BY <1>1 DEF Used
  <2>2. Leads(w.s, a, indirect, e)
    BY <1>2, <1>5, <2>1, Pointing
  <2>3. QED
    BY <2>2 DEF Leads
<1>7. PointerAt(w.s.bus, a) = PointerAt(s.bus, a)
  BY <1>1, HoldsStill DEF PointerAt
<1>8. e.ea = Through(s.bus, a, indirect)
  BY <1>6, <1>7 DEF Through
<1>9. Used(s, e.s)
  BY <1>1, <1>6, UsedAgain
<1>10. QED
  BY <1>1, <1>4, <1>6, <1>8, <1>9 DEF e, b, c, AbsoluteAddress

\* and of an instruction that may be indexed, in the page the operand ends in:
\* x is the register it names and i what it holds, mode how it steps.
Stepped(i, mode) == IF mode = 1 THEN (i + 1) % 256 ELSE IF mode = 2 THEN (i - 1) % 256 ELSE i

IndexedAddress(s, n) ==
    LET b == Holds(s.bus, s.pc)
        c == Holds(s.bus, C!InPage(s.pc, 1))
        x == C!Ri(s, n)
        mode == (b \div 32) % 4
        a == Through(s.bus, PageOf(C!InPage(s.pc, 2)) + (b % 32) * 256 + c, b >= 128)
    IN  IF mode = 0 THEN a ELSE C!InPage(a, Stepped(s.r[x], mode))

\* and abs_ea the indexed one, whose index register it may step.
LEMMA Indexing ==
    ASSUME NEW s, IsCpu(s), NEW n \in 0 .. 3
    PROVE  LET e == C!AbsEa(s, n)
           IN  /\ e.ea = IndexedAddress(s, n)
               /\ e.ea \in Address
               /\ Used(s, e.s) /\ e.s.pc = C!InPage(s.pc, 2)
<1> DEFINE w == C!FetchPair(s)
           e == C!AbsEa(s, n)
           b == Holds(s.bus, s.pc)
           c == Holds(s.bus, C!InPage(s.pc, 1))
           x == C!Ri(s, n)
           mode == (w.v \div 8192) % 4
           a == (w.s.pc \div 8192) * 8192 + (w.v % 8192)
           indirect == w.v >= 32768
           g == C!Deref(w.s, a, indirect)
           i == g.s.r[x]
           index == Stepped(i, mode)
<1>1. w.v = 256 * b + c /\ Used(s, w.s) /\ w.s.r = s.r /\ w.s.pc = C!InPage(s.pc, 2)
  BY FetchingPair
<1>2. e = C!Indexed(g, x, mode)
  BY DEF C!AbsEa
<1> HIDE DEF w
<1>3. b \in Byte /\ c \in Byte /\ w.s.pc \in Address
  <2>1. s.bus \in Rams /\ s.pc \in Address
    BY C!Parts, Same DEF IsCpu
  <2>2. C!InPage(s.pc, 1) \in Address /\ C!InPage(s.pc, 2) \in Address
    BY <2>1, PageWraps
  <2>3. QED
    BY <1>1, <2>1, <2>2, HoldsType
<1> HIDE DEF b, c
<1>4. /\ w.v % 8192 = (b % 32) * 256 + c /\ indirect = (b >= 128) /\ indirect \in BOOLEAN
      /\ mode = (b \div 32) % 4 /\ mode \in 0 .. 3
  BY <1>1, <1>3 DEF Byte
<1>5. a = PageOf(w.s.pc) + (b % 32) * 256 + c /\ a \in Address
  <2>1. w.s.pc \in Int /\ 0 <= w.s.pc /\ w.s.pc < 32768
    BY <1>3, C!AddressIs, Same
  <2>2. a \in Int /\ 0 <= a /\ a < 32768
    BY <1>3, <1>4, <2>1 DEF Byte
  <2>3. a \in Address
    BY <2>2, C!AddressIs, Same
  <2>4. PageOf(w.s.pc) \in Int /\ a = PageOf(w.s.pc) + (w.v % 8192)
    BY <2>1 DEF PageOf
  <2> HIDE DEF a
  <2>5. QED
    BY <1>3, <1>4, <2>3, <2>4 DEF Byte
<1> HIDE DEF a, indirect, mode
<1>6. /\ g.ea = IF indirect THEN PointerAt(w.s.bus, a) ELSE a
      /\ g.ea \in Address
      /\ Used(w.s, g.s) /\ g.s.r = w.s.r /\ g.s.pc = w.s.pc
  <2>1. IsCpu(w.s)
    BY <1>1 DEF Used
  <2>2. Leads(w.s, a, indirect, g)
    BY <1>5, <2>1, Pointing
  <2> HIDE DEF g
  <2>3. QED
    BY <2>2 DEF Leads
<1> HIDE DEF g
<1>7. PointerAt(w.s.bus, a) = PointerAt(s.bus, a)
  BY <1>1, HoldsStill DEF PointerAt
<1>8. g.ea = Through(s.bus, a, indirect)
  BY <1>6, <1>7 DEF Through
<1>9. x \in 0 .. 6
  BY DEF C!Ri
<1> HIDE DEF x
<1>10. i = s.r[x] /\ i \in Byte
  BY <1>1, <1>6, <1>9, C!RegisterIn, Same DEF Used, IsCpu
<1> HIDE DEF i
<1>11. index \in Byte
  <2>1. i \in Int /\ 0 <= i /\ i < 256
    BY <1>10 DEF Byte
  <2>2. (i + 1) % 256 \in Byte /\ (i - 1) % 256 \in Byte
    BY <2>1 DEF Byte
  <2>3. QED
    BY <1>10, <2>2 DEF Stepped
<1> DEFINE u == [g.s EXCEPT !.r[x] = index]
<1>12. e = IF mode = 0 THEN [d |-> x, ea |-> g.ea, k |-> g.k, s |-> g.s]
           ELSE [d |-> 0, ea |-> C!InPage(g.ea, index), k |-> g.k, s |-> u]
  BY <1>2 DEF C!Indexed, Stepped, i
<1>13. Used(s, g.s) /\ IsCpu(g.s)
  BY <1>1, <1>6, UsedAgain DEF Used
<1>14. Used(s, u) /\ u.pc = g.s.pc
  <2> DEFINE now == g.s.clocks
             t == g.s
  <2>1. now \in Nat /\ t \in C!Cpus(Rams, now)
    BY <1>13 DEF IsCpu
  <2> HIDE DEF now, index, t
  <2> DEFINE v == [t EXCEPT !.r[x] = index]
  <2>2. v \in C!Cpus(Rams, now)
    BY <1>9, <1>11, <2>1, C!WithRegister, Same
  <2>3. v.clocks = now
    BY <2>1, <2>2, C!Parts
  <2>4. IsCpu(v)
    BY <2>1, <2>2, <2>3 DEF IsCpu
  <2>5. /\ v.pc = t.pc /\ v.psl = t.psl /\ v.psu = t.psu /\ v.ras = t.ras
        /\ v.illegal = t.illegal /\ v.bus = t.bus
    BY <2>1 DEF C!Cpus
  <2>6. v = u
    BY DEF t
  <2> HIDE DEF v, u
  <2>7. Used(t, v)
    BY <2>4, <2>5 DEF Used
  <2>8. QED
    BY <1>13, <2>5, <2>6, <2>7, UsedAgain DEF t
<1>15. C!InPage(g.ea, index) \in Address
  BY <1>6, <1>11, PageWraps DEF Byte
<1> HIDE DEF u, index
<1>16. /\ e.ea = IF mode = 0 THEN g.ea ELSE C!InPage(g.ea, index)
       /\ e.s = IF mode = 0 THEN g.s ELSE u
  BY <1>12
<1> HIDE DEF e
<1>17. e.ea \in Address /\ Used(s, e.s) /\ e.s.pc = C!InPage(s.pc, 2)
  BY <1>1, <1>6, <1>13, <1>14, <1>15, <1>16
<1>18. index = Stepped(s.r[x], mode)
  BY <1>10 DEF index
<1> DEFINE to == Through(s.bus, PageOf(C!InPage(s.pc, 2)) + (b % 32) * 256 + c, b >= 128)
           m == (b \div 32) % 4
<1>19. g.ea = to
  BY <1>1, <1>4, <1>5, <1>8
<1> HIDE DEF to
<1>20. e.ea = IF m = 0 THEN to ELSE C!InPage(to, Stepped(s.r[x], m))
  BY <1>4, <1>16, <1>18, <1>19
<1>21. QED
  BY <1>17, <1>20 DEF e, b, c, x, to, IndexedAddress

(***************************************************************************)
(* Where an instruction goes, and what it reads or writes.                 *)
(***************************************************************************)

\* A CPU t has gone on n bytes from s, and kept its return stack.
Went(s, t, n) == t.pc = C!InPage(s.pc, n) /\ t.ras = s.ras /\ t.illegal = s.illegal

\* The RAM of t is that of s; t has last read at a, or has written there.
SameRam(s, t) == t.bus.org = s.bus.org /\ t.bus.code = s.bus.code

LastRead(s, t, a) ==
    SameRam(s, t) /\ t.bus.writes = s.bus.writes /\ t.bus.reads[Len(t.bus.reads)] = a

Wrote(s, t, a) == SameRam(s, t) /\ t.bus.writes = Append(s.bus.writes, a)

\* ... or it has branched to ea, from an operand of n bytes.
Branched(s, t, ea, n, call) ==
    /\ t.pc = ea /\ t.illegal = s.illegal /\ SameRam(s, t)
    /\ call => C!SP(t) = (C!SP(s) + 1) % 8 /\ t.ras[C!SP(t)] = C!InPage(s.pc, n)

\* What has only used the bus, and moved its pc, has gone on.
LEMMA WentOn ==
    ASSUME NEW s, NEW t, NEW u, NEW n, Used(s, t), t.pc = C!InPage(s.pc, n), C!FlowKept(t, u)
    PROVE  Went(s, u, n)
BY DEF Used, C!FlowKept, Went

\* A CPU that does nothing keeps its place.
LEMMA StillThere ==
    ASSUME NEW s, IsCpu(s)
    PROVE  /\ s.pc \in Address /\ C!InPage(s.pc, 0) = s.pc
           /\ Used(s, s) /\ C!FlowKept(s, s)
<1>1. s.pc \in Address
  BY C!Parts, Same DEF IsCpu
<1> DEFINE a == s.pc
<1>2. a \in Int /\ 0 <= a
  BY <1>1, C!AddressIs, Same
<1> HIDE DEF a
<1>3. C!InPage(a, 0) = a
  BY <1>2 DEF C!InPage
<1>4. QED
  BY <1>1, <1>3 DEF a, Used, C!FlowKept

\* The last of a sequence one longer.
LEMMA LastOf ==
    ASSUME NEW S, NEW q \in Seq(S), NEW x \in S
    PROVE  Append(q, x)[Len(Append(q, x))] = x
OBVIOUS

\* The operand of an instruction that combines is one of the bytes after it or
\* is read by them.
Skips(mode) == IF mode = 0 THEN 0 ELSE IF mode = 3 THEN 2 ELSE 1

\* An operand is read where its mode says, and its bytes are passed over.
LEMMA Operating ==
    ASSUME NEW s, IsCpu(s), NEW op \in Byte
    PROVE  LET o == C!Operand(s, op)
               mode == (op \div 4) % 4
           IN  /\ o \in C!Operation(Rams, s.clocks)
               /\ Used(s, o.s) /\ o.s.pc = C!InPage(s.pc, Skips(mode))
               /\ mode = 2 => LastRead(s, o.s, RelativeAddress(s))
               /\ mode = 3 => LastRead(s, o.s, IndexedAddress(s, op % 4))
<1> DEFINE n == op % 4
           x == C!Ri(s, n)
           mode == (op \div 4) % 4
           f == C!Fetch(s)
           e == C!RelEa(s, C!FromHere)
           g == C!AbsEa(s, n)
           eq == C!ReadAt(e.s, e.ea)
           gq == C!ReadAt(g.s, g.ea)
           o == C!Operand(s, op)
<1>1. n \in 0 .. 3 /\ mode \in 0 .. 3
  BY DEF Byte
<1>2. s.clocks \in Nat /\ s \in C!Cpus(Rams, s.clocks)
  BY DEF IsCpu
<1>3. o \in C!Operation(Rams, s.clocks)
  BY <1>2, RamBus, C!OperandType, Same
<1>4. /\ mode = 0 => o = [d |-> 0, v |-> s.r[x], k |-> 6, s |-> s]
      /\ mode = 1 => o = [d |-> x, v |-> f.v, k |-> 6, s |-> f.s]
      /\ mode = 2 => o = [d |-> x, v |-> eq.v, k |-> 9 + e.k, s |-> eq.s]
      /\ mode = 3 => o = [d |-> g.d, v |-> gq.v, k |-> 12 + g.k, s |-> gq.s]
  BY DEF C!Operand
<1>5. Used(s, f.s) /\ f.s.pc = C!InPage(s.pc, 1)
  BY FetchingAt
<1>6. /\ e.ea = RelativeAddress(s) /\ e.ea \in Address
      /\ Used(s, e.s) /\ e.s.pc = C!InPage(s.pc, 1)
  BY Relatively
<1>7. /\ g.ea = IndexedAddress(s, n) /\ g.ea \in Address
      /\ Used(s, g.s) /\ g.s.pc = C!InPage(s.pc, 2)
  BY <1>1, Indexing
<1> HIDE DEF n, x, f, e, g, o
<1>8. ASSUME NEW t, NEW a \in Address, Used(s, t)
      PROVE  LET q == C!ReadAt(t, a)
             IN  Used(s, q.s) /\ q.s.pc = t.pc /\ LastRead(s, q.s, a)
  <2> DEFINE q == C!ReadAt(t, a)
  <2>1. IsCpu(t)
    BY <1>8 DEF Used
  <2>2. Used(t, q.s) /\ q.s.pc = t.pc /\ q.s.bus.reads = Append(t.bus.reads, a)
    BY <2>1, Reading
  <2>3. t.bus.reads \in Seq(Address)
    <3>1. t.bus \in Rams
      BY <2>1, C!Parts DEF IsCpu
    <3>2. QED
      BY <3>1 DEF Rams
  <2> HIDE DEF q
  <2>4. q.s.bus.reads[Len(q.s.bus.reads)] = a
    BY <2>2, <2>3, LastOf
  <2>5. Used(s, q.s)
    BY <1>8, <2>2, UsedAgain
  <2>6. LastRead(s, q.s, a)
    BY <2>4, <2>5 DEF LastRead, SameRam, Used
  <2>7. QED
    BY <2>2, <2>5, <2>6 DEF q
<1>9. /\ Used(s, eq.s) /\ eq.s.pc = C!InPage(s.pc, 1) /\ LastRead(s, eq.s, RelativeAddress(s))
      /\ Used(s, gq.s) /\ gq.s.pc = C!InPage(s.pc, 2) /\ LastRead(s, gq.s, IndexedAddress(s, n))
  BY <1>6, <1>7, <1>8
<1>10. Used(s, s) /\ C!InPage(s.pc, 0) = s.pc
  BY StillThere
<1> HIDE DEF eq, gq, mode
<1>11. /\ Used(s, o.s) /\ o.s.pc = C!InPage(s.pc, Skips(mode))
       /\ mode = 2 => LastRead(s, o.s, RelativeAddress(s))
       /\ mode = 3 => LastRead(s, o.s, IndexedAddress(s, n))
  BY <1>1, <1>4, <1>5, <1>9, <1>10 DEF Skips
<1>12. QED
  BY <1>3, <1>11 DEF o, n, mode

\* What combines goes on after its operand, which it has read last.
LEMMA CombiningGoes ==
    ASSUME NEW s, IsCpu(s), NEW op \in Byte, op \in C!Combines
    PROVE  LET t == C!Exec(s, op).s
               mode == (op \div 4) % 4
           IN  /\ Went(s, t, Skips(mode))
               /\ mode = 2 => LastRead(s, t, RelativeAddress(s))
               /\ mode = 3 => LastRead(s, t, IndexedAddress(s, op % 4))
<1> DEFINE o == C!Operand(s, op)
           t == C!Combine(op, o).s
           mode == (op \div 4) % 4
           n == op % 4
<1>1. C!Exec(s, op).s = t
  BY C!ExecIs
<1>2. /\ o \in C!Operation(Rams, s.clocks)
      /\ Used(s, o.s) /\ o.s.pc = C!InPage(s.pc, Skips(mode))
      /\ mode = 2 => LastRead(s, o.s, RelativeAddress(s))
      /\ mode = 3 => LastRead(s, o.s, IndexedAddress(s, n))
  BY Operating
<1> HIDE DEF o, mode, n
<1>3. C!FlowKept(o.s, t) /\ t.bus = o.s.bus
  BY <1>2, C!CombineKeeps DEF IsCpu
<1> HIDE DEF t
<1>4. Went(s, t, Skips(mode))
  BY <1>2, <1>3, WentOn
<1>5. \A a : LastRead(s, o.s, a) => LastRead(s, t, a)
  BY <1>3 DEF LastRead, SameRam
<1>6. QED
  BY <1>1, <1>2, <1>4, <1>5 DEF mode, n

\* A store goes on after its operand, and has written there.
LEMMA Storing ==
    ASSUME NEW s, NEW e, NEW d, NEW k, NEW n, NEW a,
           Used(s, e.s), e.s.pc = C!InPage(s.pc, n), e.ea = a
    PROVE  LET t == C!Store(e, d, k).s
           IN  Went(s, t, n) /\ Wrote(s, t, a)
<1> DEFINE u == e.s
           writes == Append(u.bus.writes, a)
           b == [u.bus EXCEPT !.writes = writes]
           v == [u EXCEPT !.bus = b]
           t == C!Store(e, d, k).s
           now == u.clocks
<1>1. t = v
  BY DEF C!Store, RamWrite
<1>2. now \in Nat /\ u \in C!Cpus(Rams, now)
  BY DEF Used, IsCpu
<1>3. u.bus \in Rams
  BY <1>2, C!Parts
<1>4. Used(s, u) /\ u.pc = C!InPage(s.pc, n)
  OBVIOUS
<1> HIDE DEF u, now, t, writes
<1>5. b.org = u.bus.org /\ b.code = u.bus.code /\ b.writes = writes
  BY <1>3 DEF Rams
<1> HIDE DEF b
<1>6. v.pc = u.pc /\ v.ras = u.ras /\ v.illegal = u.illegal /\ v.bus = b
  BY <1>2 DEF C!Cpus
<1> HIDE DEF v
<1>7. Went(s, v, n)
  BY <1>4, <1>6 DEF Used, Went
<1>8. writes = Append(s.bus.writes, a)
  BY <1>4 DEF Used, writes
<1>9. Wrote(s, v, a)
  BY <1>4, <1>5, <1>6, <1>8 DEF Wrote, SameRam, Used
<1>10. QED
  BY <1>1, <1>7, <1>9 DEF t

\* A store passes over its operand and writes where its mode says.
LEMMA StoresGo ==
    ASSUME NEW s, IsCpu(s), NEW op \in 200 .. 207
    PROVE  LET t == C!Exec(s, op).s
           IN  /\ op < 204 => Went(s, t, 1) /\ Wrote(s, t, RelativeAddress(s))
               /\ op >= 204 => Went(s, t, 2) /\ Wrote(s, t, IndexedAddress(s, op % 4))
<1> DEFINE n == op % 4
           x == C!Ri(s, n)
           e == C!RelEa(s, C!FromHere)
           g == C!AbsEa(s, n)
           t == C!Exec(s, op)
<1>1. /\ op < 204 => t = C!Store(e, x, 9)
      /\ op >= 204 => t = C!Store(g, g.d, 12)
  BY C!ExecIs DEF C!StoreAbs
<1>2. n \in 0 .. 3
  OBVIOUS
<1>3. e.ea = RelativeAddress(s) /\ Used(s, e.s) /\ e.s.pc = C!InPage(s.pc, 1)
  BY Relatively
<1>4. g.ea = IndexedAddress(s, n) /\ Used(s, g.s) /\ g.s.pc = C!InPage(s.pc, 2)
  BY <1>2, Indexing
<1> HIDE DEF n, x, e, g, t
<1>5. op < 204 => Went(s, t.s, 1) /\ Wrote(s, t.s, RelativeAddress(s))
  BY <1>1, <1>3, Storing
<1>6. op >= 204 => Went(s, t.s, 2) /\ Wrote(s, t.s, IndexedAddress(s, n))
  BY <1>1, <1>4, Storing
<1>7. QED
  BY <1>5, <1>6 DEF t, n

\* An immediate operand is skipped.
LEMMA ImmediatesGo ==
    ASSUME NEW s, IsCpu(s), NEW op \in C!Immediates
    PROVE  Went(s, C!Exec(s, op).s, 1)
<1> DEFINE f == C!Fetch(s)
           t == C!Immediate(s, op, f)
           now == s.clocks
<1>1. C!Exec(s, op).s = t
  BY C!ExecIs
<1>2. now \in Nat /\ s \in C!Cpus(Rams, now)
  BY DEF IsCpu
<1>3. Used(s, f.s) /\ f.s.pc = C!InPage(s.pc, 1)
  BY FetchingAt
<1>4. f.v \in C!Byte /\ f.s \in C!Cpus(Rams, now)
  BY <1>2, RamBus, C!FetchType
<1> HIDE DEF f, now
<1>5. C!FlowKept(f.s, t)
  BY <1>2, <1>4, RamBus, C!ImmediateKeeps
<1> HIDE DEF t
<1>6. QED
  BY <1>1, <1>3, <1>5, WentOn

\* An illegal byte is counted, and of the other instructions of one byte only
\* returns that are taken go anywhere.
LEMMA InherentsGo ==
    ASSUME NEW s, IsCpu(s), NEW op \in Byte,
           op \notin C!Combines, op \notin 200 .. 207, op \notin C!Immediates,
           op \notin C!Branches, op \notin C!Specials
    PROVE  LET t == C!Exec(s, op).s
           IN  /\ op \in C!Illegal => t.pc = s.pc /\ t.illegal = s.illegal + 1
               /\ op \notin C!Illegal => t.illegal = s.illegal
               /\ op \notin C!Illegal /\ (op \in 20 .. 23 \cup 52 .. 55 => ~C!Cond(s, op % 4))
                  => Went(s, t, 0)
<1> DEFINE t == C!Inherent(s, op)
           now == s.clocks
<1>1. C!Exec(s, op).s = t
  BY C!ExecIs
<1>2. now \in Nat /\ s \in C!Cpus(Rams, now)
  BY DEF IsCpu
<1> HIDE DEF now
<1>3. /\ op \in C!Illegal => t.pc = s.pc /\ t.illegal = s.illegal + 1
      /\ op \notin C!Illegal => t.illegal = s.illegal
      /\ op \notin C!Illegal /\ (op \in 20 .. 23 \cup 52 .. 55 => ~C!Cond(s, op % 4))
                  => C!FlowKept(s, t)
  BY <1>2, RamBus, C!InherentKeeps, Same
<1> HIDE DEF t
<1>4. C!FlowKept(s, t) => Went(s, t, 0)
  BY StillThere, WentOn
<1>5. QED
  BY <1>1, <1>3, <1>4

\* Branches: how many bytes the operand has, where it leads and who calls.
OperandOf(op) == IF C!Bit(op, 4) = 1 THEN 2 ELSE 1
BranchAddress(s, op) == IF C!Bit(op, 4) = 1 THEN AbsoluteAddress(s) ELSE RelativeAddress(s)

Calling == 56 .. 63 \cup 184 .. 191 \cup 120 .. 127

\* Whether a branch is taken.
Goes(s, op) ==
    LET n == op % 4
        v == s.r[C!Ri(s, n)]
    IN  IF op \in 24 .. 31 \cup 56 .. 63 THEN C!Cond(s, n)
        ELSE IF op \in 152 .. 158 \cup 184 .. 190 THEN C!CC(s) # n
        ELSE IF op \in 88 .. 95 \cup 120 .. 127 THEN v # 0
        ELSE IF op \in 216 .. 223 THEN v # 255
        ELSE v # 1

\* A jump from there, with or without a push,
LEMMA Jumping ==
    ASSUME NEW s, NEW v, NEW n, NEW to, NEW call \in BOOLEAN,
           Used(s, v), v.pc = C!InPage(s.pc, n)
    PROVE  Branched(s, C!Jump(v, to, call), to, n, call)
<1> DEFINE j == C!Jump(v, to, call)
           now == v.clocks
<1>1. now \in Nat /\ v \in C!Cpus(Rams, now)
  BY DEF Used, IsCpu
<1> HIDE DEF now
<1>2. /\ j.pc = to /\ j.illegal = v.illegal /\ j.bus = v.bus
      /\ call => C!SP(j) = (C!SP(v) + 1) % 8 /\ j.ras[C!SP(j)] = v.pc
  BY <1>1, C!JumpIs
<1>3. C!SP(v) = C!SP(s)
  BY DEF Used, C!SP
<1> HIDE DEF j
<1>4. Branched(s, j, to, n, call)
  BY <1>2, <1>3 DEF Branched, SameRam, Used
<1>5. QED
  BY <1>4 DEF j

\* and a branch: to its operand or after it.
LEMMA Branching ==
    ASSUME NEW s, IsCpu(s), NEW op, NEW taken \in BOOLEAN, NEW call \in BOOLEAN
    PROVE  LET t == C!Branch(s, op, taken, call).s
           IN  /\ ~taken => Went(s, t, OperandOf(op)) /\ t.psu = s.psu
               /\ taken => Branched(s, t, BranchAddress(s, op), OperandOf(op), call)
<1> DEFINE abs == C!Bit(op, 4) = 1
           e == IF abs THEN C!BranchEa(s) ELSE C!RelEa(s, C!FromHere)
           j == C!Jump(e.s, e.ea, call)
           pc == C!InPage(s.pc, IF abs THEN 2 ELSE 1)
           u == [s EXCEPT !.pc = pc]
           t == C!Branch(s, op, taken, call).s
<1>1. t = IF taken THEN j ELSE u
  <2>1. C!Branch(s, op, taken, call) =
            IF taken THEN [s |-> j, k |-> 9 + e.k] ELSE [s |-> u, k |-> 9]
    BY DEF C!Branch
  <2> HIDE DEF j, u
  <2>2. QED
    BY <2>1
<1>2. /\ e.ea = BranchAddress(s, op) /\ e.ea \in Address
      /\ Used(s, e.s) /\ e.s.pc = pc
  BY Relatively, Absolutely DEF BranchAddress
<1>3. pc = C!InPage(s.pc, OperandOf(op))
  BY DEF OperandOf
<1>4. s \in C!Cpus(Rams, s.clocks)
  BY DEF IsCpu
<1> HIDE DEF e, pc, t
<1>5. u.pc = pc /\ u.ras = s.ras /\ u.illegal = s.illegal /\ u.psu = s.psu
  BY <1>4 DEF C!Cpus
<1>6. Went(s, u, OperandOf(op)) /\ u.psu = s.psu
  BY <1>3, <1>5 DEF Went
<1>7. Branched(s, j, BranchAddress(s, op), OperandOf(op), call)
  <2> DEFINE v == e.s
             to == e.ea
             n == OperandOf(op)
  <2>1. Used(s, v) /\ v.pc = C!InPage(s.pc, n)
    BY <1>2, <1>3
  <2> HIDE DEF v, to, n
  <2>2. Branched(s, C!Jump(v, to, call), to, n, call)
    BY <2>1, Jumping
  <2>3. QED
    BY <1>2, <2>2 DEF v, to, n
<1> HIDE DEF j, u
<1>8. QED
  BY <1>1, <1>6, <1>7 DEF t

\* BIR and BDR step the register before they look at it: the rest of the CPU is as it was.
LEMMA SteppedFirst ==
    ASSUME NEW s, IsCpu(s), NEW x \in 0 .. 6, NEW v \in Byte
    PROVE  LET u == [s EXCEPT !.r[x] = v]
           IN  /\ IsCpu(u) /\ u.r[x] = v
               /\ u.pc = s.pc /\ u.ras = s.ras /\ u.illegal = s.illegal /\ u.psu = s.psu
               /\ u.bus = s.bus
<1> DEFINE u == [s EXCEPT !.r[x] = v]
           now == s.clocks
<1>1. now \in Nat /\ s \in C!Cpus(Rams, now)
  BY DEF IsCpu
<1> HIDE DEF now
<1>2. u \in C!Cpus(Rams, now)
  BY <1>1, C!WithRegister, Same
<1>3. u.clocks = now
  BY <1>1, <1>2, C!Parts
<1>4. /\ u.pc = s.pc /\ u.ras = s.ras /\ u.illegal = s.illegal /\ u.psu = s.psu
      /\ u.bus = s.bus /\ u.r[x] = v
  BY <1>1 DEF C!Cpus
<1> HIDE DEF u
<1>5. IsCpu(u)
  BY <1>1, <1>2, <1>3 DEF IsCpu
<1>6. QED
  BY <1>4, <1>5 DEF u

\* So what a branch does after it, it does from there.
LEMMA FromThere ==
    ASSUME NEW s, NEW u, NEW t, NEW op, NEW n, NEW call,
           u.pc = s.pc, u.ras = s.ras, u.illegal = s.illegal, u.psu = s.psu, u.bus = s.bus
    PROVE  /\ Went(u, t, n) => Went(s, t, n)
           /\ Branched(u, t, BranchAddress(u, op), n, call)
              => Branched(s, t, BranchAddress(s, op), n, call)
<1>1. BranchAddress(u, op) = BranchAddress(s, op)
  BY DEF BranchAddress, AbsoluteAddress, RelativeAddress
<1>2. C!SP(u) = C!SP(s)
  BY DEF C!SP
<1>3. QED
  BY <1>1, <1>2 DEF Went, Branched, SameRam

\* A branch that is not taken goes on; one taken goes to its address.
LEMMA BranchesGo ==
    ASSUME NEW s, IsCpu(s), NEW op \in C!Branches
    PROVE  LET t == C!Exec(s, op).s
           IN  /\ ~Goes(s, op) => Went(s, t, OperandOf(op)) /\ t.psu = s.psu
               /\ Goes(s, op) =>
                      Branched(s, t, BranchAddress(s, op), OperandOf(op), op \in Calling)
<1> DEFINE n == op % 4
           x == C!Ri(s, n)
           v == s.r[x]
           call == op \in 56 .. 63 \cup 184 .. 190 \cup 120 .. 127
           up == (v + 1) % 256
           down == (v - 1) % 256
           su == [s EXCEPT !.r[x] = up]
           sd == [s EXCEPT !.r[x] = down]
           on == C!Cond(s, n)
           against == C!CC(s) # n
           c0 == v # 0
           c1 == su.r[x] # 0
           c2 == sd.r[x] # 0
           t == C!Exec(s, op).s
           b1 == C!Branch(s, op, on, call).s
           b2 == C!Branch(s, op, against, call).s
           b3 == C!Branch(s, op, c0, call).s
           b4 == C!Branch(su, op, c1, call).s
           b5 == C!Branch(sd, op, c2, call).s
           k == OperandOf(op)
           Does(taken, b) ==
               /\ ~taken => Went(s, b, k) /\ b.psu = s.psu
               /\ taken => Branched(s, b, BranchAddress(s, op), k, call)
<1>1. C!Exec(s, op) = C!ExecBranch(s, op)
  BY C!ExecIs
<1>2. /\ op \in 24 .. 31 \cup 56 .. 63 => t = b1
      /\ op \in 152 .. 158 \cup 184 .. 190 => t = b2
      /\ op \in 88 .. 95 \cup 120 .. 127 => t = b3
      /\ op \in 216 .. 223 => t = b4
      /\ op \in 248 .. 255 => t = b5
  <2>1. op \in 24 .. 31 \cup 56 .. 63 => t = b1
    BY <1>1 DEF C!ExecBranch
  <2>2. op \in 152 .. 158 \cup 184 .. 190 => t = b2
    BY <1>1 DEF C!ExecBranch
  <2>3. op \in 88 .. 95 \cup 120 .. 127 => t = b3
    BY <1>1 DEF C!ExecBranch
  <2>4. op \in 216 .. 223 => t = b4
    BY <1>1 DEF C!ExecBranch
  <2>5. op \in 248 .. 255 => t = b5
    BY <1>1 DEF C!ExecBranch
  <2>6. QED
    BY <2>1, <2>2, <2>3, <2>4, <2>5
<1>3. n \in 0 .. 3 /\ x \in 0 .. 6
  <2>1. op \in Nat
    BY DEF C!Branches
  <2>2. n \in 0 .. 3
    BY <2>1
  <2> HIDE DEF n
  <2>3. QED
    BY <2>2 DEF C!Ri
<1>4. v \in Byte
  BY <1>3, C!RegisterIn, Same DEF IsCpu
<1>5. up \in Byte /\ down \in Byte /\ (up # 0 <=> v # 255) /\ (down # 0 <=> v # 1)
  <2>1. v \in Int /\ 0 <= v /\ v < 256
    BY <1>4 DEF Byte
  <2> HIDE DEF v
  <2>2. up = (IF v = 255 THEN 0 ELSE v + 1) /\ down = (IF v = 0 THEN 255 ELSE v - 1)
    BY <2>1
  <2> HIDE DEF up, down
  <2>3. QED
    BY <2>1, <2>2 DEF Byte
<1>6. /\ on \in BOOLEAN /\ against \in BOOLEAN /\ call \in BOOLEAN
      /\ c0 \in BOOLEAN /\ c1 \in BOOLEAN /\ c2 \in BOOLEAN
  BY DEF C!Cond
<1>7. (op \in Calling) = call
  BY DEF Calling, C!Branches, C!Specials
<1> DEFINE goes == Goes(s, op)
<1>8. /\ op \in 24 .. 31 \cup 56 .. 63 => (goes <=> on)
      /\ op \in 152 .. 158 \cup 184 .. 190 => (goes <=> against)
      /\ op \in 88 .. 95 \cup 120 .. 127 => (goes <=> c0)
      /\ op \in 216 .. 223 => (goes <=> v # 255)
      /\ op \in 248 .. 255 => (goes <=> v # 1)
  BY DEF Goes
<1> HIDE DEF n, x, v, up, down, call, on, against, c0, goes, t
<1>9. /\ IsCpu(su) /\ su.r[x] = up /\ IsCpu(sd) /\ sd.r[x] = down
      /\ su.pc = s.pc /\ su.ras = s.ras /\ su.illegal = s.illegal
      /\ su.psu = s.psu /\ su.bus = s.bus
      /\ sd.pc = s.pc /\ sd.ras = s.ras /\ sd.illegal = s.illegal
      /\ sd.psu = s.psu /\ sd.bus = s.bus
  BY <1>3, <1>5, SteppedFirst
<1> HIDE DEF su, sd
<1>10. (c1 <=> v # 255) /\ (c2 <=> v # 1)
  BY <1>5, <1>9
<1> HIDE DEF c1, c2
<1>11. Does(on, b1) /\ Does(against, b2) /\ Does(c0, b3)
  BY <1>6, Branching
<1>12. Does(c1, b4)
  <2>1. /\ ~c1 => Went(su, b4, k) /\ b4.psu = su.psu
        /\ c1 => Branched(su, b4, BranchAddress(su, op), k, call)
    BY <1>6, <1>9, Branching
  <2> HIDE DEF b4, k
  <2>2. QED
    BY <1>9, <2>1, FromThere
<1>13. Does(c2, b5)
  <2>1. /\ ~c2 => Went(sd, b5, k) /\ b5.psu = sd.psu
        /\ c2 => Branched(sd, b5, BranchAddress(sd, op), k, call)
    BY <1>6, <1>9, Branching
  <2> HIDE DEF b5, k
  <2>2. QED
    BY <1>9, <2>1, FromThere
<1> HIDE DEF b1, b2, b3, b4, b5, k
<1>14. Does(goes, t)
  <2>1. op \in 24 .. 31 \cup 56 .. 63 \cup 152 .. 158 \cup 184 .. 190 \cup 88 .. 95 \cup 120 .. 127
            \cup 216 .. 223 \cup 248 .. 255
    BY DEF C!Branches, C!Specials
  <2>2. QED
    BY <1>2, <1>8, <1>10, <1>11, <1>12, <1>13, <2>1
<1>15. QED
  BY <1>7, <1>14 DEF t, goes, k

\* ZBRR and ZBSR, BXA and BSXA always go.
LEMMA SpecialsGo ==
    ASSUME NEW s, IsCpu(s), NEW op \in C!Specials
    PROVE  LET t == C!Exec(s, op).s
           IN  /\ op \in {159, 191} =>
                      Branched(s, t, (AbsoluteAddress(s) + C!Reg(s, 3)) % 32768, 2, op \in Calling)
               /\ op \in {155, 187} => \E ea : Branched(s, t, ea, 1, op \in Calling)
<1> DEFINE call == op \in {187, 191}
           e == C!BranchEa(s)
           f == C!RelEa(s, C!FromZero)
           r == C!Reg(e.s, 3)
           ea == (e.ea + r) % 32768
           je == C!Jump(e.s, ea, call)
           jf == C!Jump(f.s, f.ea, call)
           t == C!Exec(s, op).s
<1>1. C!Exec(s, op) = C!BranchSpecial(s, op)
  BY C!ExecIs
<1>2. op \in {155, 159, 187, 191}
  BY DEF C!Specials
<1>3. /\ op \in {159, 191} => t = je
      /\ op \in {155, 187} => t = jf
  BY <1>1 DEF C!BranchSpecial
<1>4. call = (op \in Calling) /\ call \in BOOLEAN
  BY <1>2 DEF Calling
<1>5. /\ e.ea = AbsoluteAddress(s) /\ Used(s, e.s) /\ e.s.r = s.r /\ e.s.pc = C!InPage(s.pc, 2)
      /\ Used(s, f.s) /\ f.s.pc = C!InPage(s.pc, 1)
  BY Absolutely, FromPageZero
<1> HIDE DEF e, f, t, call
<1>6. r = C!Reg(s, 3)
  BY <1>5 DEF C!Reg, C!Ri, Used
<1> HIDE DEF r
<1> DEFINE fa == f.ea
<1> HIDE DEF fa, ea
<1>7. call \in BOOLEAN
  BY <1>4
<1>8. Branched(s, je, ea, 2, call) /\ Branched(s, jf, fa, 1, call)
  BY <1>5, <1>7, Jumping DEF fa
<1>9. ea = (AbsoluteAddress(s) + C!Reg(s, 3)) % 32768
  BY <1>5, <1>6 DEF ea
<1> HIDE DEF je, jf
<1>10. QED
  BY <1>3, <1>4, <1>8, <1>9 DEF t

(***************************************************************************)
(* An instruction of the tables, executed.                                 *)
(***************************************************************************)

\* Whether it is taken, and the address of its operand.
Takes(s, b, n) ==
    LET v == s.r[C!Ri(s, n)]
    IN  \/ b \in {24, 28, 56, 60, 20, 52} /\ C!Cond(s, n)
        \/ b \in {152, 156, 184, 188} /\ C!CC(s) # n
        \/ b \in {88, 92, 120, 124} /\ v # 0
        \/ b \in {216, 220} /\ v # 255
        \/ b \in {248, 252} /\ v # 1
        \/ b \in {155, 159, 187, 191}

AddressOf(s, m, n) ==
    IF m \in Relatives THEN RelativeAddress(s)
    ELSE IF m = "absx" THEN IndexedAddress(s, n)
    ELSE IF m = "idxabs" THEN (AbsoluteAddress(s) + C!Reg(s, 3)) % 32768
    ELSE AbsoluteAddress(s)

\* What does not branch goes on after its operand, and what calls comes back there.
Follows(s, t, b, m, n) ==
    LET k == ModeLength(m) - 1
    IN  /\ t.illegal = s.illegal
        /\ ~Takes(s, b, n) => Went(s, t, k)
        /\ Takes(s, b, n) /\ b \in Calls =>
               C!SP(t) = (C!SP(s) + 1) % 8 /\ t.ras[C!SP(t)] = C!InPage(s.pc, k)

\* What branches, loads or stores does so at the address of its operand.
Reaches(s, t, b, m, n) ==
    /\ Takes(s, b, n) /\ b \in Jumps /\ m # "zbr" => t.pc = AddressOf(s, m, n) /\ SameRam(s, t)
    /\ m \in {"regrel", "absx"} /\ b \notin Jumps =>
           IF b \in {200, 204} THEN Wrote(s, t, AddressOf(s, m, n))
           ELSE LastRead(s, t, AddressOf(s, m, n))

Outcome(s, t, b, m, n) == Follows(s, t, b, m, n) /\ Reaches(s, t, b, m, n)

\* What only goes on.
LEMMA OnlyGoesOn ==
    ASSUME NEW s, NEW t, NEW b, NEW m, NEW n, ~Takes(s, b, n), Went(s, t, ModeLength(m) - 1),
           \/ m \notin {"regrel", "absx"} \/ b \in Jumps
           \/ b \in {200, 204} /\ Wrote(s, t, AddressOf(s, m, n))
           \/ b \notin {200, 204} /\ LastRead(s, t, AddressOf(s, m, n))
    PROVE  Outcome(s, t, b, m, n)
BY DEF Outcome, Follows, Reaches, Went

\* A branch.
LEMMA OnlyBranches ==
    ASSUME NEW s, NEW t, NEW b, NEW m, NEW n, NEW call \in BOOLEAN, NEW ea,
           b \in Jumps, b \in Calls => call,
           ~Takes(s, b, n) => Went(s, t, ModeLength(m) - 1),
           Takes(s, b, n) => Branched(s, t, ea, ModeLength(m) - 1, call),
           m # "zbr" => ea = AddressOf(s, m, n)
    PROVE  Outcome(s, t, b, m, n)
<1>1. ASSUME ~Takes(s, b, n)
      PROVE  Outcome(s, t, b, m, n)
  <2>1. Went(s, t, ModeLength(m) - 1)
    BY <1>1
  <2>2. QED
    BY <1>1, <2>1, OnlyGoesOn
<1>2. ASSUME Takes(s, b, n)
      PROVE  Outcome(s, t, b, m, n)
  <2>1. Branched(s, t, ea, ModeLength(m) - 1, call)
    BY <1>2
  <2>2. QED
    BY <1>2, <2>1 DEF Branched, Outcome, Follows, Reaches
<1>3. QED
  BY <1>1, <1>2

\* The register or condition of an opcode, and its mode and its place in the table.
LEMMA OpcodeDigits ==
    ASSUME NEW b \in Nat, b % 4 = 0, NEW n \in 0 .. 3
    PROVE  (b + n) % 4 = n /\ (b + n) \div 4 = b \div 4
OBVIOUS

\* What combines, from the register, the byte after it or the RAM,
LEMMA Combining ==
    ASSUME NEW s, IsCpu(s), NEW b \in Nat, NEW m, NEW n \in 0 .. 3, NEW op \in Byte, op = b + n,
           \/ m = "regz" /\ b = 0
           \/ m = "reg" /\ b \in {32, 96, 128, 160, 224}
           \/ m = "regimm" /\ b \in {4, 36, 68, 100, 132, 164, 228}
           \/ m = "regrel" /\ b \in {8, 40, 72, 104, 136, 168, 232}
           \/ m = "absx" /\ b \in {12, 44, 76, 108, 140, 172, 236}
    PROVE  Outcome(s, C!Exec(s, op).s, b, m, n)
<1> DEFINE t == C!Exec(s, op).s
           mode == (op \div 4) % 4
           a == AddressOf(s, m, n)
<1>1. b % 4 = 0
  OBVIOUS
<1>2. op % 4 = n /\ op \div 4 = b \div 4
  BY <1>1, OpcodeDigits
<1>3. op \in C!Combines
  BY DEF C!Combines
<1>4. /\ m \in {"regz", "reg"} => mode = 0
      /\ m = "regimm" => mode = 1
      /\ m = "regrel" => mode = 2
      /\ m = "absx" => mode = 3
  BY <1>2
<1>5. /\ Went(s, t, Skips(mode))
      /\ mode = 2 => LastRead(s, t, RelativeAddress(s))
      /\ mode = 3 => LastRead(s, t, IndexedAddress(s, n))
  BY <1>2, <1>3, CombiningGoes
<1>6. ~Takes(s, b, n)
  BY DEF Takes
<1> HIDE DEF t, mode
<1>7. Skips(mode) = ModeLength(m) - 1
  BY <1>4 DEF Skips, ModeLength, Inherents, Relatives
<1>8. /\ m = "regrel" => LastRead(s, t, a)
      /\ m = "absx" => LastRead(s, t, a)
  BY <1>4, <1>5 DEF AddressOf, Relatives
<1>9. b \notin {200, 204}
  OBVIOUS
<1>10. Outcome(s, t, b, m, n)
  BY <1>5, <1>6, <1>7, <1>8, <1>9, OnlyGoesOn
<1>11. QED
  BY <1>10 DEF t

\* what stores,
LEMMA StoringAt ==
    ASSUME NEW s, IsCpu(s), NEW b \in Nat, NEW m, NEW n \in 0 .. 3, NEW op \in Byte, op = b + n,
           \/ m = "regrel" /\ b = 200
           \/ m = "absx" /\ b = 204
    PROVE  Outcome(s, C!Exec(s, op).s, b, m, n)
<1> DEFINE t == C!Exec(s, op).s
           a == AddressOf(s, m, n)
<1>1. op % 4 = n /\ op \in 200 .. 207 /\ (op < 204 <=> m = "regrel")
  OBVIOUS
<1>2. /\ m = "regrel" => Went(s, t, 1) /\ Wrote(s, t, RelativeAddress(s))
      /\ m = "absx" => Went(s, t, 2) /\ Wrote(s, t, IndexedAddress(s, n))
  BY <1>1, StoresGo
<1>3. ~Takes(s, b, n) /\ b \in {200, 204}
  BY DEF Takes
<1> HIDE DEF t
<1>4. /\ m = "regrel" => ModeLength(m) - 1 = 1
      /\ m = "absx" => ModeLength(m) - 1 = 2
  BY DEF ModeLength, Inherents, Relatives
<1>5. Went(s, t, ModeLength(m) - 1) /\ Wrote(s, t, a)
  BY <1>2, <1>4 DEF AddressOf, Relatives
<1>6. Outcome(s, t, b, m, n)
  BY <1>3, <1>5, OnlyGoesOn
<1>7. QED
  BY <1>6 DEF t

\* what has a mask or a port,
LEMMA Masking ==
    ASSUME NEW s, IsCpu(s), NEW b \in Nat, NEW m, NEW n \in 0 .. 3, NEW op \in Byte, op = b + n,
           \/ m = "imm" /\ b \in {116, 117, 118, 119, 180, 181} /\ n = 0
           \/ m = "regimm" /\ b \in {84, 212, 244}
    PROVE  Outcome(s, C!Exec(s, op).s, b, m, n)
<1>1. op \in C!Immediates
  BY DEF C!Immediates
<1>2. Went(s, C!Exec(s, op).s, 1)
  BY <1>1, ImmediatesGo
<1>3. ~Takes(s, b, n) /\ m \notin {"regrel", "absx"}
  BY DEF Takes
<1>4. ModeLength(m) - 1 = 1
  BY DEF ModeLength, Inherents, Relatives
<1>5. QED
  BY <1>2, <1>3, <1>4, OnlyGoesOn

\* what has one byte and does not combine,
LEMMA Alone ==
    ASSUME NEW s, IsCpu(s), NEW b \in Nat, NEW m, NEW n \in 0 .. 3, NEW op \in Byte,
           \/ m = "inh" /\ b \in {18, 19, 64, 146, 147, 192} /\ n = 0 /\ op = b
           \/ m = "reg13" /\ b = 193 /\ n # 0 /\ op = b + n - 1
           \/ m = "creg" /\ b \in {48, 80, 112, 148, 176, 208, 240} /\ op = b + n
           \/ m = "ccond" /\ b \in {20, 52} /\ op = b + n
    PROVE  Outcome(s, C!Exec(s, op).s, b, m, n)
<1> DEFINE t == C!Exec(s, op).s
<1>1. /\ op \notin C!Combines /\ op \notin 200 .. 207 /\ op \notin C!Immediates
      /\ op \notin C!Branches /\ op \notin C!Specials /\ op \notin C!Illegal
  <2>1. op \in {18, 19, 64, 146, 147, 192, 193, 194, 195} \cup 48 .. 51 \cup 80 .. 83
             \cup 112 .. 115 \cup 148 .. 151 \cup 176 .. 179 \cup 208 .. 211 \cup 240 .. 243
             \cup 20 .. 23 \cup 52 .. 55
    OBVIOUS
  <2>2. op \in Int
    BY DEF Byte
  <2>3. QED
    BY <2>1, <2>2 DEF C!Combines, C!Immediates, C!Branches, C!Specials, C!Illegal
<1>2. op \in 20 .. 23 \cup 52 .. 55 => m = "ccond" /\ op % 4 = n
  OBVIOUS
<1>3. Takes(s, b, n) <=> m = "ccond" /\ C!Cond(s, n)
  BY DEF Takes
<1>4. /\ t.illegal = s.illegal
      /\ (op \in 20 .. 23 \cup 52 .. 55 => ~C!Cond(s, op % 4)) => Went(s, t, 0)
  BY <1>1, InherentsGo
<1> HIDE DEF t
<1>5. /\ ~Takes(s, b, n) => Went(s, t, 0)
  BY <1>2, <1>3, <1>4
<1>6. b \notin Calls \cup Jumps /\ m \notin {"regrel", "absx"}
  BY DEF Calls, Jumps
<1>7. ModeLength(m) - 1 = 0
  BY DEF ModeLength, Inherents
<1>8. Outcome(s, t, b, m, n)
  BY <1>4, <1>5, <1>6, <1>7 DEF Outcome, Follows, Reaches
<1>9. QED
  BY <1>8 DEF t

\* ANDZ among the first,
LEMMA Anding ==
    ASSUME NEW s, IsCpu(s), NEW n \in 1 .. 3, NEW op \in Byte, op = 65 + n - 1
    PROVE  Outcome(s, C!Exec(s, op).s, 65, "reg13", n)
<1> DEFINE mode == (op \div 4) % 4
<1>1. op \in C!Combines /\ mode = 0
  BY DEF C!Combines
<1>2. Went(s, C!Exec(s, op).s, Skips(mode))
  BY <1>1, CombiningGoes
<1>3. ~Takes(s, 65, n)
  BY DEF Takes
<1>4. Skips(mode) = ModeLength("reg13") - 1
  BY <1>1 DEF Skips, ModeLength, Inherents
<1>5. QED
  BY <1>2, <1>3, <1>4, OnlyGoesOn

\* what branches,
LEMMA BranchingTo ==
    ASSUME NEW s, IsCpu(s), NEW b \in Nat, NEW m, NEW n \in 0 .. 3, NEW op \in Byte, op = b + n,
           \/ m \in Relatives /\ b \in {24, 56, 120, 88, 216, 248}
           \/ m \in Relatives /\ b \in {152, 184} /\ n # 3
           \/ m \in Absolutes /\ b \in {28, 60, 124, 92, 220, 252}
           \/ m \in Absolutes /\ b \in {156, 188} /\ n # 3
    PROVE  Outcome(s, C!Exec(s, op).s, b, m, n)
<1> DEFINE t == C!Exec(s, op).s
           k == ModeLength(m) - 1
           a == AddressOf(s, m, n)
<1>1. b % 4 = 0 /\ b \in Jumps
  BY DEF Jumps, Calls
<1>2. op % 4 = n /\ op \div 4 = b \div 4
  BY <1>1, OpcodeDigits
<1>3. op \in C!Branches
  BY DEF C!Branches, C!Specials
<1>4. op \in Calling <=> b \in Calls
  BY DEF Calling, Calls
<1>5. Goes(s, op) <=> Takes(s, b, n)
  <2> DEFINE v == s.r[C!Ri(s, n)]
             on == C!Cond(s, n)
             against == C!CC(s) # n
  <2>1. /\ b \in {24, 28, 56, 60} => (Goes(s, op) <=> on)
        /\ b \in {152, 156, 184, 188} => (Goes(s, op) <=> against)
        /\ b \in {88, 92, 120, 124} => (Goes(s, op) <=> v # 0)
        /\ b \in {216, 220} => (Goes(s, op) <=> v # 255)
        /\ b \in {248, 252} => (Goes(s, op) <=> v # 1)
    BY <1>2 DEF Goes
  <2>2. /\ b \in {24, 28, 56, 60} => (Takes(s, b, n) <=> on)
        /\ b \in {152, 156, 184, 188} => (Takes(s, b, n) <=> against)
        /\ b \in {88, 92, 120, 124} => (Takes(s, b, n) <=> v # 0)
        /\ b \in {216, 220} => (Takes(s, b, n) <=> v # 255)
        /\ b \in {248, 252} => (Takes(s, b, n) <=> v # 1)
    BY DEF Takes
  <2> HIDE DEF v, on, against
  <2>3. QED
    BY <2>1, <2>2
<1>6. /\ m \in Relatives => C!Bit(op, 4) = 0
      /\ m \in Absolutes => C!Bit(op, 4) = 1
  <2>1. C!Bit(op, 4) = (b \div 4) % 2
    BY <1>2 DEF C!Bit
  <2>2. m \in Relatives => m \notin Absolutes
    BY DEF Relatives, Absolutes
  <2>3. QED
    BY <2>1, <2>2
<1>7. OperandOf(op) = k /\ BranchAddress(s, op) = a
  BY <1>6 DEF OperandOf, BranchAddress, ModeLength, AddressOf, Inherents, Relatives, Absolutes
<1> DEFINE call == op \in Calling
<1>8. /\ ~Goes(s, op) => Went(s, t, OperandOf(op))
      /\ Goes(s, op) => Branched(s, t, BranchAddress(s, op), OperandOf(op), call)
  BY <1>3, BranchesGo
<1>9. call \in BOOLEAN /\ (b \in Calls => call)
  BY <1>4
<1> HIDE DEF t, k, a, call
<1>10. /\ ~Takes(s, b, n) => Went(s, t, k)
       /\ Takes(s, b, n) => Branched(s, t, a, k, call)
  BY <1>5, <1>7, <1>8
<1>11. Outcome(s, t, b, m, n)
  BY <1>1, <1>9, <1>10, OnlyBranches DEF k, a
<1>12. QED
  BY <1>11 DEF t

\* and what always does.
LEMMA BranchingAlways ==
    ASSUME NEW s, IsCpu(s), NEW op, NEW m,
           \/ m = "zbr" /\ op \in {155, 187}
           \/ m = "idxabs" /\ op \in {159, 191}
    PROVE  Outcome(s, C!Exec(s, op).s, op, m, 0)
<1> DEFINE t == C!Exec(s, op).s
<1>1. op \in C!Specials /\ op \in Jumps /\ Takes(s, op, 0)
  BY DEF C!Specials, Jumps, Calls, Takes
<1>2. op \in Calling <=> op \in Calls
  BY DEF Calling, Calls
<1> DEFINE call == op \in Calling
<1>3. /\ op \in {159, 191} =>
             Branched(s, t, (AbsoluteAddress(s) + C!Reg(s, 3)) % 32768, 2, call)
      /\ op \in {155, 187} => \E ea : Branched(s, t, ea, 1, call)
  BY <1>1, SpecialsGo
<1>4. call \in BOOLEAN /\ (op \in Calls => call)
  BY <1>2
<1> HIDE DEF t, call
<1>5. /\ m = "zbr" => ModeLength(m) - 1 = 1
      /\ m = "idxabs" => ModeLength(m) - 1 = 2
  BY DEF ModeLength, Inherents, Relatives
<1>6. m = "idxabs" => AddressOf(s, m, 0) = (AbsoluteAddress(s) + C!Reg(s, 3)) % 32768
  BY DEF Relatives, AddressOf
<1>7. PICK ea : /\ Branched(s, t, ea, ModeLength(m) - 1, call)
                /\ m # "zbr" => ea = AddressOf(s, m, 0)
  <2>1. CASE m = "zbr"
    BY <1>3, <1>5, <2>1
  <2>2. CASE m = "idxabs"
    BY <1>3, <1>5, <1>6, <2>2
  <2>3. QED
    BY <2>1, <2>2
<1>8. Outcome(s, t, op, m, 0)
  BY <1>1, <1>4, <1>7, OnlyBranches
<1>9. QED
  BY <1>8 DEF t

\* Every instruction does what its entry says.
LEMMA Executes ==
    ASSUME NEW s, IsCpu(s), NEW op \in Byte, NEW b, NEW m, NEW n, Spotted(op, b, m, n)
    PROVE  Outcome(s, C!Exec(s, op).s, b, m, n)
<1>1. /\ m \in Modes /\ b \in INSTRUCTIONS[m] /\ n \in Selectors(m)
      /\ op = IF m = "reg13" THEN b + n - 1 ELSE b + n
  BY DEF Spotted
<1>2. b \in Nat
  BY <1>1, ModeTells
<1>3. n \in 0 .. 3 /\ (m \in {"inh", "imm", "zbr", "idxabs"} => n = 0)
      /\ (m = "reg13" => n \in 1 .. 3) /\ (m \in {"crel3", "cabs3"} => n # 3)
  BY <1>1 DEF Selectors
<1>4. m \in {"inh", "reg", "reg13", "regz", "creg", "ccond", "imm", "regimm", "zbr", "regrel",
             "crel", "crel3", "regabs", "cabs", "cabs3", "idxabs", "absx"}
  BY <1>1 DEF Modes, INSTRUCTIONS
<1>5. CASE m \in {"inh", "creg", "ccond"}
  <2>1. \/ m = "inh" /\ b \in {18, 19, 64, 146, 147, 192} /\ n = 0 /\ op = b
        \/ m = "creg" /\ b \in {48, 80, 112, 148, 176, 208, 240} /\ op = b + n
        \/ m = "ccond" /\ b \in {20, 52} /\ op = b + n
    BY <1>1, <1>2, <1>3, <1>5 DEF INSTRUCTIONS
  <2>2. QED
    BY <1>2, <1>3, <2>1, Alone
<1>6. CASE m \in {"reg", "regz"}
  <2>1. /\ op = b + n
        /\ \/ m = "regz" /\ b = 0
           \/ m = "reg" /\ b \in {32, 96, 128, 160, 224}
    BY <1>1, <1>6 DEF INSTRUCTIONS, LODZ
  <2>2. QED
    BY <1>2, <1>3, <2>1, Combining
<1>7. CASE m = "reg13"
  <2>1. b \in {65, 193} /\ op = b + n - 1 /\ n \in 1 .. 3
    BY <1>1, <1>3, <1>7 DEF INSTRUCTIONS
  <2>2. CASE b = 65
    <3>1. Outcome(s, C!Exec(s, op).s, 65, "reg13", n)
      BY <2>1, <2>2, Anding
    <3>2. QED
      BY <1>7, <2>2, <3>1
  <2>3. CASE b = 193
    BY <1>2, <1>3, <1>7, <2>1, <2>3, Alone
  <2>4. QED
    BY <2>1, <2>2, <2>3
<1>8. CASE m = "imm"
  <2>1. op = b + n /\ b \in {116, 117, 118, 119, 180, 181} /\ n = 0
    BY <1>1, <1>3, <1>8 DEF INSTRUCTIONS
  <2>2. QED
    BY <1>2, <1>3, <1>8, <2>1, Masking
<1>9. CASE m = "regimm"
  <2>1. op = b + n /\ b \in {4, 36, 68, 84, 100, 132, 164, 212, 228, 244}
    BY <1>1, <1>9 DEF INSTRUCTIONS
  <2>2. CASE b \in {84, 212, 244}
    BY <1>2, <1>3, <1>9, <2>1, <2>2, Masking
  <2>3. CASE b \in {4, 36, 68, 100, 132, 164, 228}
    BY <1>2, <1>3, <1>9, <2>1, <2>3, Combining
  <2>4. QED
    BY <2>1, <2>2, <2>3
<1>10. CASE m \in {"zbr", "idxabs"}
  <2>1. /\ op = b + n /\ n = 0
        /\ \/ m = "zbr" /\ b \in {155, 187}
           \/ m = "idxabs" /\ b \in {159, 191}
    BY <1>1, <1>3, <1>10 DEF INSTRUCTIONS
  <2>2. op = b
    BY <1>2, <2>1
  <2>3. Outcome(s, C!Exec(s, op).s, op, m, 0)
    BY <2>1, <2>2, BranchingAlways
  <2>4. QED
    BY <2>1, <2>2, <2>3
<1>11. CASE m \in {"crel", "crel3", "regabs", "cabs", "cabs3"}
  <2>1. /\ op = b + n
        /\ \/ m = "crel" /\ b \in {24, 56, 120}
           \/ m = "crel3" /\ b \in {152, 184} /\ n # 3
           \/ m = "regabs" /\ b \in {92, 220, 252}
           \/ m = "cabs" /\ b \in {28, 60, 124}
           \/ m = "cabs3" /\ b \in {156, 188} /\ n # 3
    BY <1>1, <1>3, <1>11 DEF INSTRUCTIONS
  <2>2. \/ m \in Relatives /\ b \in {24, 56, 120, 88, 216, 248}
        \/ m \in Relatives /\ b \in {152, 184} /\ n # 3
        \/ m \in Absolutes /\ b \in {28, 60, 124, 92, 220, 252}
        \/ m \in Absolutes /\ b \in {156, 188} /\ n # 3
    BY <2>1 DEF Relatives, Absolutes
  <2>3. QED
    BY <1>2, <1>3, <2>1, <2>2, BranchingTo
<1>12. CASE m = "regrel"
  <2>1. op = b + n /\ b \in {8, 40, 72, 88, 104, 136, 168, 200, 216, 232, 248}
    BY <1>1, <1>12 DEF INSTRUCTIONS
  <2>2. CASE b \in {88, 216, 248}
    <3>1. m \in Relatives /\ b \in {24, 56, 120, 88, 216, 248}
      BY <1>12, <2>2 DEF Relatives
    <3>2. QED
      BY <1>2, <1>3, <2>1, <3>1, BranchingTo
  <2>3. CASE b = 200
    BY <1>2, <1>3, <1>12, <2>1, <2>3, StoringAt
  <2>4. CASE b \in {8, 40, 72, 104, 136, 168, 232}
    BY <1>2, <1>3, <1>12, <2>1, <2>4, Combining
  <2>5. QED
    BY <2>1, <2>2, <2>3, <2>4
<1>13. CASE m = "absx"
  <2>1. op = b + n /\ b \in {12, 44, 76, 108, 140, 172, 204, 236}
    BY <1>1, <1>13 DEF INSTRUCTIONS
  <2>2. CASE b = 204
    BY <1>2, <1>3, <1>13, <2>1, <2>2, StoringAt
  <2>3. CASE b \in {12, 44, 76, 108, 140, 172, 236}
    BY <1>2, <1>3, <1>13, <2>1, <2>3, Combining
  <2>4. QED
    BY <2>1, <2>2, <2>3
<1>14. QED
  BY <1>4, <1>5, <1>6, <1>7, <1>8, <1>9, <1>10, <1>11, <1>12, <1>13

\* What no instruction claims is counted, and nothing else.
LEMMA Ignores ==
    ASSUME NEW s, IsCpu(s), NEW op \in Gaps
    PROVE  LET t == C!Exec(s, op).s
           IN  t.pc = s.pc /\ t.illegal = s.illegal + 1
<1>1. /\ op \in Byte /\ op \in C!Illegal
      /\ op \notin C!Combines /\ op \notin 200 .. 207 /\ op \notin C!Immediates
      /\ op \notin C!Branches /\ op \notin C!Specials
  <2>1. op \in {16, 17, 144, 145, 182, 183, 196, 197, 198, 199}
    BY DEF Gaps
  <2>2. op \in Byte /\ op \in C!Illegal
    BY <2>1 DEF Byte, C!Illegal
  <2>3. op \notin C!Combines /\ op \notin 200 .. 207 /\ op \notin C!Immediates
    BY <2>1 DEF C!Combines, C!Immediates
  <2>4. op \notin C!Branches /\ op \notin C!Specials
    BY <2>1 DEF C!Branches, C!Specials
  <2>5. QED
    BY <2>2, <2>3, <2>4
<1>2. QED
  BY <1>1, InherentsGo

(***************************************************************************)
(* A single instruction, in RAM.                                           *)
(***************************************************************************)

\* The CPU s is about to execute the program p, of one instruction,
IsSingle(p) ==
    /\ p.org \in Address /\ p.code \in Seq(Byte) /\ p.code # <<>>
    /\ Defined(p.code[1]) => Len(p.code) = ModeLength(DECODE_TABLE[p.code[1]].mode)

HasLoaded(s, p) == s.bus.org = p.org /\ s.bus.code = p.code /\ s.r = p.r /\ s.psl = p.psl

Fresh(s) ==
    /\ s.psu = 0 /\ s.illegal = 0 /\ \A i \in 0 .. 7 : s.ras[i] = 0
    /\ s.bus.writes = <<>>

Single(s, p) ==
    /\ IsCpu(s) /\ ~s.irq /\ ~s.halted
    /\ IsSingle(p) /\ HasLoaded(s, p) /\ Fresh(s) /\ s.pc = p.org

\* and has fetched its opcode.
Opened(u, p) ==
    /\ IsCpu(u) /\ IsSingle(p) /\ HasLoaded(u, p) /\ Fresh(u) /\ u.pc = C!InPage(p.org, 1)

\* The code begins at its address.
LEMMA HoldsFirst ==
    ASSUME NEW s, NEW p, IsSingle(p), s.bus.org = p.org, s.bus.code = p.code
    PROVE  Holds(s.bus, p.org) = p.code[1] /\ p.code[1] \in Byte
<1>1. p.org \in Int
  BY C!AddressIs, Same DEF IsSingle
<1>2. p.org - p.org + 1 = 1 /\ 1 \in DOMAIN p.code /\ p.code[1] \in Byte
  BY <1>1 DEF IsSingle
<1>3. QED
  BY <1>2 DEF Holds

\* The opcode of a single instruction is fetched first,
LEMMA Opening ==
    ASSUME NEW s, NEW p, Single(s, p)
    PROVE  LET f == C!Fetch(s)
           IN  Opened(f.s, p) /\ f.v = p.code[1] /\ f.v \in Byte
<1> DEFINE f == C!Fetch(s)
<1>1. /\ IsCpu(s) /\ IsSingle(p) /\ HasLoaded(s, p) /\ Fresh(s) /\ s.pc = p.org
  BY DEF Single
<1>2. /\ f.v = Holds(s.bus, s.pc) /\ f.v \in Byte
      /\ Used(s, f.s) /\ f.s.r = s.r /\ f.s.pc = C!InPage(s.pc, 1)
  BY <1>1, FetchingAt
<1>3. Holds(s.bus, p.org) = p.code[1]
  BY <1>1, HoldsFirst DEF HasLoaded
<1> HIDE DEF f
<1>4. HasLoaded(f.s, p) /\ Fresh(f.s) /\ IsCpu(f.s)
  BY <1>1, <1>2 DEF Used, HasLoaded, Fresh
<1>5. QED
  BY <1>1, <1>2, <1>3, <1>4 DEF f, Opened

\* A step executes it: the clock apart, the CPU is as the instruction leaves it.
SameButClock(w, t) ==
    w.pc = t.pc /\ w.ras = t.ras /\ w.illegal = t.illegal /\ w.psu = t.psu /\ w.bus = t.bus

\* and the step is its execution, but for the clock.
LEMMA Executing ==
    ASSUME NEW s, NEW p, Single(s, p)
    PROVE  \E u : Opened(u, p) /\ SameButClock(C!CpuStep(s).s, C!Exec(u, p.code[1]).s)
<1> DEFINE f == C!Fetch(s)
           x == C!Exec(f.s, f.v)
           t == x.s
           n == t.clocks + x.k
           w == [t EXCEPT !.clocks = n]
           now == s.clocks
<1>1. Opened(f.s, p) /\ f.v = p.code[1] /\ f.v \in Byte
  BY Opening
<1>2. ~s.irq /\ ~s.halted /\ now \in Nat /\ s \in C!Cpus(Rams, now)
  BY DEF Single, IsCpu
<1>3. f.s \in C!Cpus(Rams, now)
  BY <1>2, RamBus, C!FetchType
<1> HIDE DEF now
<1>4. x \in C!Turns(Rams, now)
  BY <1>1, <1>2, <1>3, RamBus, C!ExecType, Same
<1>5. C!CpuStep(s) = [x EXCEPT !.s = [x.s EXCEPT !.clocks = n]]
  <2> HIDE DEF n
  <2>1. C!Execute(f) = x
    BY DEF C!Execute
  <2> HIDE DEF x, f
  <2>2. C!CpuStep(s) = [x EXCEPT !.s.clocks = x.s.clocks + x.k]
    BY <1>2, <2>1 DEF C!CpuStep, f
  <2>3. QED
    BY <2>2 DEF n
<1> HIDE DEF f, x, n
<1>6. C!CpuStep(s).s = w /\ t \in C!Cpus(Rams, now)
  BY <1>4, <1>5 DEF C!Turns
<1> HIDE DEF t
<1>7. SameButClock(w, t)
  BY <1>6 DEF C!Cpus, SameButClock
<1>8. SameButClock(C!CpuStep(s).s, C!Exec(f.s, p.code[1]).s)
  BY <1>1, <1>6, <1>7 DEF t, x
<1>9. QED
  BY <1>1, <1>8

(***************************************************************************)
(* What the tables say of the program is what the CPU does.                *)
(***************************************************************************)

\* Whether its instruction is taken: by the meaning of the mnemonic, and in the CPU.
LEMMA HeldIs ==
    ASSUME NEW u, Opened(u, program), NEW n \in 0 .. 3
    PROVE  u.r[C!Ri(u, n)] = program.r[Bank(n)]
<1>1. u.r = program.r /\ u.psl = program.psl
  BY DEF Opened, HasLoaded
<1>2. u.psl \in Byte
  BY C!Parts, Same DEF Opened, IsCpu
<1>3. C!Bit(u.psl, C!RS) = Bit(program.psl, C!RS) /\ C!Bit(u.psl, C!RS) \in {0, 1}
  <2>1. C!Bit(u.psl, C!RS) \in {0, 1}
    BY <1>2 DEF C!Bit, C!RS, Byte
  <2>2. QED
    BY <1>1, <2>1, Same
<1>4. C!Ri(u, n) = Bank(n)
  BY <1>3 DEF C!Ri, Bank
<1>5. QED
  BY <1>1, <1>4

\* The tables' condition is the one the CPU branches on.
LEMMA TakenIs ==
    ASSUME NEW u, Opened(u, program), NEW b, NEW m, NEW n \in 0 .. 3, Spotted(Op, b, m, n)
    PROVE  Taken <=> Takes(u, b, n)
<1> DEFINE v == u.r[C!Ri(u, n)]
           cc == C!CC(u)
<1>1. Entry.base = b /\ Entry.sel = n
  BY DEF Entry, Spotted
<1>2. Held = v
  BY <1>1, HeldIs DEF Held
<1>3. Cc = cc
  BY DEF Cc, C!CC, Opened, HasLoaded
<1> HIDE DEF v, cc
<1>4. /\ b \in {24, 28, 56, 60, 20, 52} => (Taken <=> n = 3 \/ n = cc)
      /\ b \in {152, 156, 184, 188} => (Taken <=> n # cc)
      /\ b \in {88, 92, 120, 124} => (Taken <=> v # 0)
      /\ b \in {216, 220} => (Taken <=> v # 255)
      /\ b \in {248, 252} => (Taken <=> v # 1)
      /\ b \in {155, 159, 187, 191} => Taken
      /\ b \notin {24, 28, 56, 60, 20, 52, 152, 156, 184, 188, 88, 92, 120, 124, 216, 220, 248,
                   252, 155, 159, 187, 191} => ~Taken
  BY <1>1, <1>2, <1>3 DEF Taken, Returns
<1>5. /\ b \in {24, 28, 56, 60, 20, 52} => (Takes(u, b, n) <=> n = 3 \/ n = cc)
      /\ b \in {152, 156, 184, 188} => (Takes(u, b, n) <=> n # cc)
      /\ b \in {88, 92, 120, 124} => (Takes(u, b, n) <=> v # 0)
      /\ b \in {216, 220} => (Takes(u, b, n) <=> v # 255)
      /\ b \in {248, 252} => (Takes(u, b, n) <=> v # 1)
      /\ b \in {155, 159, 187, 191} => Takes(u, b, n)
      /\ b \notin {24, 28, 56, 60, 20, 52, 152, 156, 184, 188, 88, 92, 120, 124, 216, 220, 248,
                   252, 155, 159, 187, 191} => ~Takes(u, b, n)
  BY DEF Takes, C!Cond, v, cc
<1>6. QED
  BY <1>4, <1>5

\* So it goes on, calls and is ignored as they say.
LEMMA FlowIs ==
    ASSUME NEW u, Opened(u, program), NEW t, t = C!Exec(u, Op).s, SameButClock(cpu, t)
    PROVE  FlowAgrees
<1> DEFINE next == C!InPage(Org, 1)
<1>1. /\ IsCpu(u) /\ u.illegal = 0 /\ u.psu = 0 /\ u.pc = next /\ Org \in Address
      /\ \A i \in 0 .. 7 : u.ras[i] = 0
  BY DEF Opened, Fresh, IsSingle, Org
<1>2. Op \in Byte
  BY HoldsFirst DEF Opened, HasLoaded, Op
<1>3. /\ cpu.pc = t.pc /\ cpu.ras = t.ras /\ cpu.illegal = t.illegal /\ C!SP(cpu) = C!SP(t)
  BY DEF SameButClock, C!SP
<1>4. \A k \in Int : C!InPage(u.pc, k) = C!InPage(Org, 1 + k)
  BY <1>1, PageWraps
<1> HIDE DEF next
<1>5. CASE Op \in Gaps
  <2>1. Claims(Op) = {}
    BY <1>5, Gap
  <2>2. t.pc = u.pc /\ t.illegal = u.illegal + 1
    BY <1>1, <1>5, Ignores
  <2>3. cpu.illegal = 1 /\ cpu.pc = next
    BY <1>1, <1>3, <2>2
  <2>4. QED
    BY <2>1, <2>3 DEF FlowAgrees, next
<1>6. CASE Op \notin Gaps
  <2>1. PICK b, m, n : Spotted(Op, b, m, n)
    BY <1>2, <1>6, Covered
  <2>2. Claims(Op) = {<<b, n>>} /\ Entry.base = b /\ Entry.mode = m /\ n \in 0 .. 3 /\ m \in Modes
    BY <2>1, Claimed DEF Spotted, Entry
  <2>3. Claims(Op) # {} /\ Cardinality(Claims(Op)) = 1
    BY <2>2, FS_Singleton
  <2>4. Outcome(u, t, b, m, n)
    BY <1>1, <1>2, <2>1, Executes
  <2>5. Taken <=> Takes(u, b, n)
    BY <2>1, <2>2, TakenIs
  <2> DEFINE k == ModeLength(m) - 1
             after == C!InPage(Org, Length)
  <2>6. k \in Int /\ 1 + k = Length
    BY <2>2 DEF ModeLength, Length
  <2>7. C!InPage(u.pc, k) = after
    BY <1>4, <2>6
  <2>8. /\ t.illegal = 0
        /\ ~Taken => t.pc = after /\ t.ras = u.ras
        /\ Taken /\ b \in Calls => C!SP(t) = (C!SP(u) + 1) % 8 /\ t.ras[C!SP(t)] = after
    BY <1>1, <2>4, <2>5, <2>7 DEF Outcome, Follows, Went
  <2>9. (C!SP(u) + 1) % 8 = 1
    BY <1>1 DEF C!SP
  <2> HIDE DEF k, after
  <2>10. /\ cpu.illegal = 0
         /\ ~Taken => cpu.pc = after /\ \A i \in 0 .. 7 : cpu.ras[i] = 0
         /\ Taken /\ Entry.base \in Calls => C!SP(cpu) = 1 /\ cpu.ras[1] = after
    BY <1>1, <1>3, <2>2, <2>8, <2>9
  <2>11. QED
    BY <2>3, <2>10 DEF FlowAgrees, after
<1>7. QED
  BY <1>5, <1>6

\* Within a page the code is fetched byte after byte.
LEMMA WithinIs ==
    ASSUME NEW a \in Address, NEW k \in {1, 2}, PageOf(a + k) = PageOf(a)
    PROVE  C!InPage(a, 1) = a + 1 /\ (k = 2 => C!InPage(a, 2) = a + 2)
<1>1. a \in Int /\ 0 <= a /\ a < 32768
  BY C!AddressIs, Same
<1> DEFINE page == a \div 8192
           offset == a % 8192
<1>2. a = 8192 * page + offset /\ page \in 0 .. 3 /\ offset \in Int /\ 0 <= offset /\ offset < 8192
  BY <1>1
<1>3. (a + k) \div 8192 = page
  BY <1>1 DEF PageOf
<1> HIDE DEF page, offset
<1>4. offset + k < 8192
  BY <1>2, <1>3
<1>5. (a + 1) % 8192 = offset + 1 /\ (k = 2 => (a + 2) % 8192 = offset + 2)
  BY <1>2, <1>4
<1>6. QED
  BY <1>2, <1>5 DEF C!InPage, page

\* Its second byte, and its third.
Second == program.code[2]
Third == program.code[3]

\* The operand bytes the CPU reads are those of the program,
LEMMA BytesAfter ==
    ASSUME NEW u, Opened(u, program), Defined(Op), InOnePage, Length \in {2, 3}
    PROVE  /\ Holds(u.bus, u.pc) = Second /\ Second \in Byte
           /\ Length = 3 => Holds(u.bus, C!InPage(u.pc, 1)) = Third /\ Third \in Byte
<1>1. /\ Org \in Address /\ program.code \in Seq(Byte) /\ Len(program.code) = Length
      /\ u.pc = C!InPage(Org, 1) /\ u.bus.org = Org /\ u.bus.code = program.code
  BY DEF Opened, IsSingle, HasLoaded, Org, Length, Entry, Op
<1>2. Org \in Int
  BY <1>1, C!AddressIs, Same
<1> DEFINE k == Length - 1
<1>3. k \in {1, 2} /\ PageOf(Org + k) = PageOf(Org)
  <2>1. Org + Length - 1 = Org + k
    BY <1>2
  <2>2. QED
    BY <2>1 DEF InOnePage
<1>4. u.pc = Org + 1 /\ (Length = 3 => C!InPage(u.pc, 1) = Org + 2)
  <2> HIDE DEF k
  <2>1. C!InPage(Org, 1) = Org + 1 /\ (k = 2 => C!InPage(Org, 2) = Org + 2)
    BY <1>1, <1>3, WithinIs
  <2>2. C!InPage(C!InPage(Org, 1), 1) = C!InPage(Org, 1 + 1)
    BY <1>1, PageWraps
  <2>3. QED
    BY <1>1, <2>1, <2>2 DEF k
<1>5. (Org + 1) - Org + 1 = 2 /\ (Org + 2) - Org + 1 = 3
  BY <1>2
<1>6. Second \in Byte /\ (Length = 3 => Third \in Byte)
  BY <1>1 DEF Second, Third
<1>7. 2 \in DOMAIN program.code /\ (Length = 3 => 3 \in DOMAIN program.code)
  BY <1>1
<1>8. Holds(u.bus, Org + 1) = Second
  BY <1>1, <1>5, <1>7 DEF Holds, Second
<1>9. Length = 3 => Holds(u.bus, Org + 2) = Third
  BY <1>1, <1>5, <1>7 DEF Holds, Third
<1>10. QED
  BY <1>4, <1>6, <1>8, <1>9

\* What the operand points at is what the CPU dereferences.
LEMMA EffectiveIs ==
    ASSUME NEW u, SameRam(u, cpu), Second \in Byte
    PROVE  Effective = Through(u.bus, Target, Second >= 128)
<1> DEFINE a == Target
           next == C!InPage(a, 1)
<1>1. \A x : Holds(cpu.bus, x) = Holds(u.bus, x)
  BY DEF SameRam, Holds
<1>2. PageOf(a) + ((a + 1) % 8192) = next
  BY DEF PageOf, C!InPage
<1> HIDE DEF a, next
<1>3. Pointed = (256 * Holds(u.bus, a) + Holds(u.bus, next)) % 32768
  <2>1. Pointed = (256 * Holds(cpu.bus, a) + Holds(cpu.bus, next)) % 32768
    BY <1>2 DEF Pointed, a
  <2>2. QED
    BY <1>1, <2>1
<1>4. Pointed = PointerAt(u.bus, a)
  BY <1>3 DEF PointerAt, next
<1>5. Indirect(program.code) = INDIRECT_BIT <=> Second >= 128
  BY DEF Indirect, INDIRECT_BIT, Second, Byte
<1>6. QED
  BY <1>4, <1>5 DEF Effective, Through, a

\* The program's instruction has base b, mode m and register or condition n, its
\* bytes lie in a page, and the RAM is as it was.
Placed(u, b, m, n) ==
    /\ Opened(u, program) /\ Spotted(Op, b, m, n) /\ InOnePage /\ SameRam(u, cpu)
    /\ n \in 0 .. 3

\* in particular those of an instruction with an address.
LEMMA PlacedIs ==
    ASSUME NEW u, NEW b, NEW m, NEW n, Placed(u, b, m, n), ModeLength(m) \in {2, 3}
    PROVE  /\ Entry.base = b /\ Entry.mode = m /\ Entry.sel = n
           /\ Org \in Address /\ u.pc = C!InPage(Org, 1)
           /\ Holds(u.bus, u.pc) = Second /\ Second \in Byte
           /\ ModeLength(m) = 3 => Holds(u.bus, C!InPage(u.pc, 1)) = Third /\ Third \in Byte
           /\ Effective = Through(u.bus, Target, Second >= 128)
<1>1. /\ Opened(u, program) /\ Defined(Op) /\ InOnePage /\ SameRam(u, cpu)
      /\ Entry.base = b /\ Entry.mode = m /\ Entry.sel = n
  BY DEF Placed, Spotted, Entry
<1>2. Length = ModeLength(m)
  BY <1>1 DEF Length
<1>3. /\ Holds(u.bus, u.pc) = Second /\ Second \in Byte
      /\ Length = 3 => Holds(u.bus, C!InPage(u.pc, 1)) = Third /\ Third \in Byte
  BY <1>1, <1>2, BytesAfter
<1>4. Org \in Address /\ u.pc = C!InPage(Org, 1)
  BY <1>1 DEF Opened, IsSingle, Org
<1>5. QED
  BY <1>1, <1>2, <1>3, <1>4, EffectiveIs

\* The operand is the address the CPU takes: relative,
LEMMA RelativeIs ==
    ASSUME NEW u, NEW b, NEW m, NEW n, Placed(u, b, m, n), m \in Relatives, b \notin {159, 191}
    PROVE  Operand = RelativeAddress(u)
<1> DEFINE d == Displacement(Second)
           to == C!InPage(Org, 2 + d)
<1>1. ModeLength(m) \in {2, 3} /\ m # "absx"
  BY DEF ModeLength, Relatives, Inherents
<1>2. /\ Entry.base = b /\ Entry.mode = m
      /\ Org \in Address /\ u.pc = C!InPage(Org, 1)
      /\ Holds(u.bus, u.pc) = Second /\ Second \in Byte
      /\ Effective = Through(u.bus, Target, Second >= 128)
  BY <1>1, PlacedIs
<1>3. d = C!Disp(Second) /\ d \in Int
  BY <1>2 DEF Displacement, C!Disp, Byte
<1>4. Org \in Int
  BY <1>2, C!AddressIs, Same
<1>5. Shown(m, program.code, Org) = Org + 2 + d
  <2>1. /\ m \in Relatives /\ m \notin Inherents /\ m \notin {"imm", "regimm"} /\ m # "zbr"
        /\ m \notin Absolutes \cup {"idxabs"} /\ m # "absx"
    BY DEF Relatives, Inherents, Absolutes
  <2>2. d = Displacement(program.code[2])
    BY DEF Second
  <2> HIDE DEF d
  <2>3. QED
    BY <2>1, <2>2 DEF Shown
<1> HIDE DEF d
<1>6. Org + 2 + d = Org + (2 + d)
  BY <1>3, <1>4
<1>7. to = PageOf(Org) + ((Org + (2 + d)) % 8192)
  <2>1. 2 + d \in Int
    BY <1>3
  <2>2. QED
    BY <1>2, <2>1, PageWraps
<1>8. Target = to
  BY <1>2, <1>5, <1>6, <1>7 DEF Target
<1>9. C!InPage(u.pc, 1 + C!Disp(Second)) = to
  <2>1. 1 + d \in Int /\ 1 + (1 + d) = 2 + d
    BY <1>3
  <2>2. C!InPage(C!InPage(Org, 1), 1 + d) = C!InPage(Org, 1 + (1 + d))
    BY <1>2, <2>1, PageWraps
  <2>3. QED
    BY <1>2, <1>3, <2>1, <2>2
<1> HIDE DEF to
<1>10. Operand = Effective
  BY <1>1, <1>2 DEF Operand
<1>11. RelativeAddress(u) = Through(u.bus, to, Second >= 128)
  BY <1>2, <1>9 DEF RelativeAddress
<1>12. QED
  BY <1>2, <1>8, <1>10, <1>11

\* absolute, or from the end of R3,
LEMMA AbsoluteIs ==
    ASSUME NEW u, NEW b, NEW m, NEW n, Placed(u, b, m, n),
           \/ m \in Absolutes /\ b \notin {159, 191}
           \/ m = "idxabs" /\ b \in {159, 191}
    PROVE  Operand = AddressOf(u, m, n)
<1> DEFINE to == (Second % 128) * 256 + Third
           a == Through(u.bus, to, Second >= 128)
<1>1. ModeLength(m) = 3 /\ m # "absx" /\ m \notin Relatives
  BY DEF ModeLength, Relatives, Absolutes, Inherents
<1>2. /\ Entry.base = b /\ Entry.mode = m
      /\ Holds(u.bus, u.pc) = Second /\ Second \in Byte
      /\ Holds(u.bus, C!InPage(u.pc, 1)) = Third
      /\ Effective = Through(u.bus, Target, Second >= 128)
  BY <1>1, PlacedIs
<1>3. Shown(m, program.code, Org) = to
  BY DEF Shown, Relatives, Inherents, Absolutes, Second, Third
<1> HIDE DEF to
<1>4. Target = to
  BY <1>1, <1>2, <1>3 DEF Target
<1>5. Effective = a
  BY <1>2, <1>4
<1>6. AbsoluteAddress(u) = a
  BY <1>2 DEF AbsoluteAddress, to
<1> HIDE DEF a
<1>7. CASE m = "idxabs"
  <2>1. C!Reg(u, 3) = program.r[Bank(3)]
    BY HeldIs DEF C!Reg, Placed
  <2>2. Operand = (a + program.r[Bank(3)]) % 32768
    BY <1>1, <1>2, <1>5, <1>7 DEF Operand, Absolutes
  <2>3. AddressOf(u, m, n) = (a + C!Reg(u, 3)) % 32768
    BY <1>1, <1>6, <1>7 DEF AddressOf
  <2>4. QED
    BY <2>1, <2>2, <2>3
<1>8. CASE m # "idxabs"
  <2>1. Operand = a
    BY <1>1, <1>2, <1>5, <1>8 DEF Operand
  <2>2. AddressOf(u, m, n) = a
    BY <1>1, <1>6, <1>8 DEF AddressOf
  <2>3. QED
    BY <2>1, <2>2
<1>9. QED
  BY <1>7, <1>8

\* and indexed.
LEMMA IndexedIs ==
    ASSUME NEW u, NEW b, NEW n, Placed(u, b, "absx", n), b \notin {159, 191}
    PROVE  Operand = IndexedAddress(u, n)
<1> DEFINE to == PageOf(Org) + (Second % 32) * 256 + Third
           a == Through(u.bus, to, Second >= 128)
           mode == (Second \div 32) % 4
           held == u.r[C!Ri(u, n)]
<1>1. ModeLength("absx") = 3 /\ "absx" \notin Relatives
  BY DEF ModeLength, Relatives, Inherents
<1>2. /\ Entry.base = b /\ Entry.mode = "absx" /\ Entry.sel = n
      /\ Org \in Address /\ u.pc = C!InPage(Org, 1)
      /\ Holds(u.bus, u.pc) = Second /\ Second \in Byte
      /\ Holds(u.bus, C!InPage(u.pc, 1)) = Third
      /\ Effective = Through(u.bus, Target, Second >= 128)
  BY <1>1, PlacedIs
<1>3. Shown("absx", program.code, Org) = to
  BY DEF Shown, Relatives, Inherents, Absolutes, Second, Third
<1>4. PageOf(C!InPage(u.pc, 2)) = PageOf(Org)
  <2>1. C!InPage(C!InPage(Org, 1), 2) = C!InPage(Org, 1 + 2)
    BY <1>2, PageWraps
  <2>2. PageOf(C!InPage(Org, 3)) = PageOf(Org)
    BY <1>2, PageWraps
  <2>3. QED
    BY <1>2, <2>1, <2>2
<1> HIDE DEF to
<1>5. Effective = a
  BY <1>1, <1>2, <1>3 DEF Target
<1>6. held = Held
  BY <1>2, HeldIs DEF Held, Placed
<1> HIDE DEF a, held
<1>7. IndexedAddress(u, n) = IF mode = 0 THEN a ELSE C!InPage(a, Stepped(held, mode))
  BY <1>2, <1>4 DEF IndexedAddress, a, to, held
<1>8. mode \in 0 .. 3 /\ IndexControl(program.code) = 32 * mode
  BY <1>2 DEF IndexControl, Second, Byte
<1> HIDE DEF mode
<1>9. /\ IndexControl(program.code) # INDEX_NONE <=> mode # 0
      /\ IndexControl(program.code) = INDEX_AUTO_INC <=> mode = 1
      /\ IndexControl(program.code) = INDEX_AUTO_DEC <=> mode = 2
  BY <1>8 DEF INDEX_NONE, INDEX_AUTO_INC, INDEX_AUTO_DEC
<1>10. Index = Stepped(held, mode)
  <2>1. mode = 1 => Index = (Held + 1) % 256
    BY <1>9 DEF Index
  <2>2. mode = 2 => Index = (Held - 1) % 256
    BY <1>9 DEF Index
  <2>3. mode # 1 /\ mode # 2 => Index = Held
    BY <1>9 DEF Index
  <2>4. QED
    BY <1>6, <2>1, <2>2, <2>3 DEF Stepped
<1> DEFINE i == Index
<1>11. C!InPage(a, i) = PageOf(a) + ((a + i) % 8192)
  BY DEF C!InPage, PageOf
<1> HIDE DEF i
<1>12. Operand = IF mode # 0 THEN PageOf(a) + ((a + i) % 8192) ELSE a
  BY <1>2, <1>5, <1>9 DEF Operand, i
<1>13. QED
  BY <1>7, <1>10, <1>11, <1>12 DEF i

\* So what it reads, writes or branches to is the operand the tables show.
LEMMA ReachedIs ==
    ASSUME NEW u, Opened(u, program), NEW t, t = C!Exec(u, Op).s, SameButClock(cpu, t)
    PROVE  OperandReached
<1> SUFFICES ASSUME Defined(Op), ~ZeroBranch, InOnePage
             PROVE  /\ Taken /\ Entry.base \in Jumps => cpu.pc = Operand
                    /\ Entry.mode \in {"regrel", "absx"} /\ Entry.base \notin Jumps =>
                          IF Entry.base \in {200, 204} THEN cpu.bus.writes = <<Operand>>
                          ELSE /\ cpu.bus.reads[Len(cpu.bus.reads)] = Operand
                               /\ cpu.bus.writes = <<>>
  BY DEF OperandReached
<1>1. IsCpu(u) /\ u.bus.writes = <<>>
  BY DEF Opened, Fresh
<1>2. Op \in Byte
  BY HoldsFirst DEF Opened, HasLoaded, Op
<1>3. Op \notin Gaps
  BY Gap DEF Defined, DefinedOpcodes
<1>4. PICK b, m, n : Spotted(Op, b, m, n)
  BY <1>2, <1>3, Covered
<1>5. /\ Entry.base = b /\ Entry.mode = m /\ n \in 0 .. 3 /\ m \in Modes /\ b \in INSTRUCTIONS[m]
      /\ m # "zbr"
  BY <1>4, Claimed DEF Spotted, Entry, ZeroBranch
<1>6. Taken <=> Takes(u, b, n)
  BY <1>4, <1>5, TakenIs
<1>7. Outcome(u, t, b, m, n)
  BY <1>1, <1>2, <1>4, Executes
<1>8. cpu.pc = t.pc /\ cpu.bus = t.bus
  BY DEF SameButClock
<1>9. /\ b \in Jumps => m \in Relatives \cup Absolutes \cup {"idxabs"}
      /\ b \in {159, 191} <=> m = "idxabs"
  <2>1. m = ModeNamed(b) /\ b \in Nat
    BY <1>5, ModeTells
  <2>2. b \in Jumps => m \in {"zbr", "regrel", "crel", "crel3", "regabs", "cabs", "cabs3", "idxabs"}
    BY <2>1 DEF ModeNamed, Jumps, Calls
  <2>3. b \in {159, 191} => m = "idxabs"
    BY <2>1 DEF ModeNamed
  <2>4. m = "idxabs" => b \in {159, 191}
    BY <1>5 DEF INSTRUCTIONS
  <2>5. QED
    BY <1>5, <2>2, <2>3, <2>4 DEF Relatives, Absolutes
<1> DEFINE a == AddressOf(u, m, n)
<1>10. ASSUME SameRam(u, cpu), m \in Relatives \cup Absolutes \cup {"idxabs", "absx"}
       PROVE  Operand = a
  <2>1. Placed(u, b, m, n)
    BY <1>4, <1>5, <1>10 DEF Placed
  <2>2. CASE m \in Relatives
    <3>1. b \notin {159, 191}
      BY <1>9, <2>2 DEF Relatives
    <3>2. QED
      BY <2>1, <2>2, <3>1, RelativeIs DEF AddressOf
  <2>3. CASE m \in Absolutes \cup {"idxabs"}
    <3>1. \/ m \in Absolutes /\ b \notin {159, 191}
          \/ m = "idxabs" /\ b \in {159, 191}
      BY <1>9, <2>3 DEF Absolutes
    <3>2. QED
      BY <2>1, <3>1, AbsoluteIs
  <2>4. CASE m = "absx"
    <3>1. b \notin {159, 191} /\ m \notin Relatives
      BY <1>9, <2>4 DEF Relatives
    <3>2. Operand = IndexedAddress(u, n)
      BY <2>1, <2>4, <3>1, IndexedIs
    <3>3. QED
      BY <2>4, <3>1, <3>2 DEF AddressOf
  <2>5. QED
    BY <1>10, <2>2, <2>3, <2>4
<1> HIDE DEF a
<1>11. ASSUME Taken, Entry.base \in Jumps
       PROVE  cpu.pc = Operand
  <2>1. t.pc = a /\ SameRam(u, t)
    BY <1>5, <1>6, <1>7, <1>11 DEF Outcome, Reaches, a
  <2>2. QED
    BY <1>5, <1>8, <1>9, <1>10, <1>11, <2>1 DEF SameRam
<1>12. ASSUME Entry.mode \in {"regrel", "absx"}, Entry.base \notin Jumps
       PROVE  IF Entry.base \in {200, 204} THEN cpu.bus.writes = <<Operand>>
              ELSE /\ cpu.bus.reads[Len(cpu.bus.reads)] = Operand
                   /\ cpu.bus.writes = <<>>
  <2>1. IF b \in {200, 204} THEN Wrote(u, t, a) ELSE LastRead(u, t, a)
    BY <1>5, <1>7, <1>12 DEF Outcome, Reaches, a
  <2>2. SameRam(u, t)
    BY <2>1 DEF Wrote, LastRead
  <2>3. SameRam(u, cpu)
    BY <1>8, <2>2 DEF SameRam
  <2>4. Operand = a
    BY <1>5, <1>10, <1>12, <2>3 DEF Relatives
  <2>5. CASE b \in {200, 204}
    <3>1. t.bus.writes = Append(<<>>, a)
      BY <1>1, <2>1, <2>5 DEF Wrote
    <3>2. Append(<<>>, a) = <<a>>
      OBVIOUS
    <3>3. QED
      BY <1>5, <1>8, <2>4, <2>5, <3>1, <3>2
  <2>6. CASE b \notin {200, 204}
    BY <1>1, <1>5, <1>8, <2>1, <2>4, <2>6 DEF LastRead
  <2>7. QED
    BY <2>5, <2>6
<1>13. QED
  BY <1>11, <1>12

(***************************************************************************)
(* The programs of the suites, step by step.                               *)
(***************************************************************************)

\* A program is loaded on a new CPU.
Ready == program = Nothing => ~cpu.irq /\ ~cpu.halted /\ Fresh(cpu)

\* What a load leaves.
LEMMA Loaded ==
    ASSUME IInv, Ready, program = Nothing,
           NEW suite \in Suites, NEW case \in suite.cases, NEW org \in suite.orgs,
           NEW psl \in suite.psls, Load(suite, case, org, psl)
    PROVE  /\ At(cpu', org, case.code, 0)
           /\ cpu'.r = case.r /\ cpu'.psl = psl
           /\ program'.kind = suite.kind /\ program'.org = org /\ program'.code = case.code
           /\ program'.a = case.a /\ program'.b = case.b
           /\ program'.psl = psl /\ program'.r = case.r
           /\ left' = suite.steps
           /\ cpu'.illegal = cpu.illegal /\ cpu'.ras = cpu.ras /\ cpu'.psu = cpu.psu
           /\ cpu'.bus.reads = cpu.bus.reads /\ cpu'.bus.writes = cpu.bus.writes
<1> DEFINE b == [cpu.bus EXCEPT !.org = org, !.code = case.code]
           t == [cpu EXCEPT !.bus = b, !.pc = org, !.r = case.r, !.psl = psl]
           now == cpu.clocks
<1>1. /\ program' = [kind |-> suite.kind, org |-> org, code |-> case.code, r |-> case.r,
                     psl |-> psl, a |-> case.a, b |-> case.b]
      /\ cpu' = [cpu EXCEPT !.bus.org = org, !.bus.code = case.code,
                            !.pc = org, !.r = case.r, !.psl = psl]
      /\ left' = suite.steps
  BY DEF Load
<1>2. now \in Nat /\ cpu \in C!Cpus(Rams, now)
  BY DEF IInv, IsCpu
<1> HIDE DEF now
<1>3. cpu.bus \in Rams
  BY <1>2, C!Parts
<1>4. cpu' = t
  BY <1>1, <1>2 DEF C!Cpus
<1>5. /\ b.org = org /\ b.code = case.code
      /\ b.reads = cpu.bus.reads /\ b.writes = cpu.bus.writes
  BY <1>3 DEF Rams
<1> HIDE DEF b
<1>6. /\ t.bus = b /\ t.pc = org /\ t.r = case.r /\ t.psl = psl
      /\ t.irq = cpu.irq /\ t.halted = cpu.halted
      /\ t.illegal = cpu.illegal /\ t.ras = cpu.ras /\ t.psu = cpu.psu
  BY <1>2 DEF C!Cpus
<1>7. IsCpu(cpu')
  BY Loading DEF IInv
<1>8. org \in Int
  BY InstructionAssumption, C!AddressIs, Same
<1> HIDE DEF t
<1>9. At(cpu', org, case.code, 0)
  BY <1>4, <1>5, <1>6, <1>7, <1>8 DEF At, Ready
<1>10. QED
  BY <1>1, <1>4, <1>5, <1>6, <1>9

\* Programs of each kind, and where they are in them.
SingleExecuting ==
    program.kind = "one" =>
        \/ left = 1 /\ Single(cpu, program)
        \/ left = 0 /\ \E u : Opened(u, program) /\ SameButClock(cpu, C!Exec(u, Op).s)

WideAdding ==
    program.kind = "wide_add" =>
        LET a == program.a
            b == program.b
        IN  /\ WithinPage(program.org) /\ a \in Nat /\ a < 65536 /\ b \in Nat /\ b < 65536
            /\ \/ left = 2 /\ AddBegun(cpu, program.org, a, b)
               \/ left = 1 /\ AddHalf(cpu, program.org, a, b)
               \/ left = 0 /\ AddDone(cpu, a, b)

WideSubtracting ==
    program.kind = "wide_sub" =>
        LET a == program.a
            b == program.b
        IN  /\ WithinPage(program.org) /\ a \in Nat /\ a < 65536 /\ b \in Nat /\ b < 65536
            /\ \/ left = 2 /\ SubBegun(cpu, program.org, a, b)
               \/ left = 1 /\ SubHalf(cpu, program.org, a, b)
               \/ left = 0 /\ SubDone(cpu, a, b)

DecimalAdding ==
    program.kind = "decimal_add" =>
        LET a == program.a
            b == program.b
        IN  /\ WithinPage(program.org) /\ a \in Nat /\ a < 100 /\ b \in Nat /\ b < 100
            /\ \/ left = 3 /\ DecimalBegun(cpu, program.org, a, b)
               \/ left = 2 /\ DecimalBiased(cpu, program.org, a, b)
               \/ left = 1 /\ DecimalAdded(cpu, program.org, a, b)
               \/ left = 0 /\ DecimalDone(cpu, a, b)

DecimalSubtracting ==
    program.kind = "decimal_sub" =>
        LET a == program.a
            b == program.b
            e == 1 - Bit(program.psl, C!CARRY)
        IN  /\ WithinPage(program.org) /\ a \in Nat /\ a < 100 /\ b \in Nat /\ b < 100
            /\ e \in {0, 1}
            /\ \/ left = 2 /\ DecimalSubBegun(cpu, program.org, a, b, e)
               \/ left = 1 /\ DecimalSubtracted(cpu, program.org, a, b, e)
               \/ left = 0 /\ DecimalSubDone(cpu, a, b, e)

ComparingBytes ==
    program.kind = "compare" =>
        LET a == program.a
            b == program.b
            logical == Bit(program.psl, C!COM)
        IN  /\ WithinPage(program.org) /\ a \in Byte /\ b \in Byte /\ logical \in {0, 1}
            /\ \/ left = 2 /\ CompareBegun(cpu, program.org, a, b, logical)
               \/ left = 1 /\ CompareHalf(cpu, program.org, a, b, logical)
               \/ left = 0 /\ CompareDone(cpu, a, b, logical)

Rotation ==
    program.kind = "rotate" =>
        LET a == program.a
            c == Bit(program.psl, C!CARRY)
        IN  /\ WithinPage(program.org) /\ a \in Byte /\ c \in {0, 1}
            /\ \E n \in {8, 9}, op \in {80, 208} :
               \E i \in Nat : /\ i <= n /\ left = n - i
                              /\ RotateStage(cpu, program.org, n, op, i, a, c)

Progress ==
    /\ Ready
    /\ WideAdding /\ WideSubtracting /\ DecimalAdding /\ DecimalSubtracting /\ ComparingBytes
    /\ Rotation /\ SingleExecuting

\* A program of the suite begins as its kind says.
LEMMA Begins ==
    ASSUME IInv, Ready, program = Nothing,
           NEW suite \in Suites, NEW case \in suite.cases, NEW org \in suite.orgs,
           NEW psl \in suite.psls, Load(suite, case, org, psl)
    PROVE  Progress'
<1>1. /\ At(cpu', org, case.code, 0)
      /\ cpu'.r = case.r /\ cpu'.psl = psl
      /\ program'.kind = suite.kind /\ program'.org = org /\ program'.code = case.code
      /\ program'.a = case.a /\ program'.b = case.b /\ program'.psl = psl /\ program'.r = case.r
      /\ left' = suite.steps
      /\ cpu'.illegal = cpu.illegal /\ cpu'.ras = cpu.ras /\ cpu'.psu = cpu.psu
      /\ cpu'.bus.writes = cpu.bus.writes
  BY Loaded
<1>2. org \in Address /\ psl \in Byte
  BY InstructionAssumption
<1>3. ASSUME NEW steps, NEW carry, NEW wc, Computes(suite, steps, carry, wc)
      PROVE  /\ WithinPage(org) /\ left' = steps /\ Running(cpu', org, case.code, 0, wc)
             /\ C!Bit(cpu'.psl, C!CARRY) \in carry
  <2>1. /\ suite.steps = steps /\ PageOf(org + 9) = PageOf(org)
        /\ Bit(psl, C!CARRY) \in carry /\ Bit(psl, C!WC) = wc /\ Bit(psl, C!RS) = 0
    BY <1>3 DEF Computes
  <2>2. QED
    BY <1>1, <1>2, <2>1, Same DEF WithinPage, Running
<1>4. ASSUME NEW n, Below(n, case)
      PROVE  case.a \in Nat /\ case.a < n /\ case.b \in Nat /\ case.b < n
  BY <1>4 DEF Below
<1>5. WideAdding'
  <2> SUFFICES ASSUME program'.kind = "wide_add"
               PROVE  LET a == program'.a
                          b == program'.b
                      IN  /\ WithinPage(program'.org)
                          /\ a \in Nat /\ a < 65536 /\ b \in Nat /\ b < 65536
                          /\ left' = 2 /\ AddBegun(cpu', program'.org, a, b)
    BY DEF WideAdding
  <2>1. WideKind(suite, 132, 0)
    BY <1>1, KindsAssumption
  <2>2. /\ Computes(suite, 2, {0}, 1) /\ Below(65536, case)
        /\ case.code = WideCode(132, case.b)
        /\ case.r[0] = case.a % 256 /\ case.r[1] = case.a \div 256
    BY <2>1 DEF WideKind
  <2>3. case.a \in Nat /\ case.a < 65536 /\ case.b \in Nat /\ case.b < 65536
    BY <1>4, <2>2
  <2>4. /\ WithinPage(org) /\ left' = 2 /\ Running(cpu', org, case.code, 0, 1)
        /\ C!Bit(cpu'.psl, C!CARRY) \in {0}
    BY <1>3, <2>2
  <2>5. AddBegun(cpu', org, case.a, case.b)
    BY <1>1, <2>2, <2>4 DEF AddBegun
  <2>6. QED
    BY <1>1, <2>3, <2>4, <2>5
<1>6. WideSubtracting'
  <2> SUFFICES ASSUME program'.kind = "wide_sub"
               PROVE  LET a == program'.a
                          b == program'.b
                      IN  /\ WithinPage(program'.org)
                          /\ a \in Nat /\ a < 65536 /\ b \in Nat /\ b < 65536
                          /\ left' = 2 /\ SubBegun(cpu', program'.org, a, b)
    BY DEF WideSubtracting
  <2>1. WideKind(suite, 164, 1)
    BY <1>1, KindsAssumption
  <2>2. /\ Computes(suite, 2, {1}, 1) /\ Below(65536, case)
        /\ case.code = WideCode(164, case.b)
        /\ case.r[0] = case.a % 256 /\ case.r[1] = case.a \div 256
    BY <2>1 DEF WideKind
  <2>3. case.a \in Nat /\ case.a < 65536 /\ case.b \in Nat /\ case.b < 65536
    BY <1>4, <2>2
  <2>4. /\ WithinPage(org) /\ left' = 2 /\ Running(cpu', org, case.code, 0, 1)
        /\ C!Bit(cpu'.psl, C!CARRY) \in {1}
    BY <1>3, <2>2
  <2>5. SubBegun(cpu', org, case.a, case.b)
    BY <1>1, <2>2, <2>4 DEF SubBegun
  <2>6. QED
    BY <1>1, <2>3, <2>4, <2>5
<1>7. DecimalAdding'
  <2> SUFFICES ASSUME program'.kind = "decimal_add"
               PROVE  LET a == program'.a
                          b == program'.b
                      IN  /\ WithinPage(program'.org)
                          /\ a \in Nat /\ a < 100 /\ b \in Nat /\ b < 100
                          /\ left' = 3 /\ DecimalBegun(cpu', program'.org, a, b)
    BY DEF DecimalAdding
  <2>1. AddKind(suite)
    BY <1>1, KindsAssumption
  <2>2. /\ Computes(suite, 3, {0, 1}, 0) /\ Below(100, case)
        /\ case.code = AddCode(case.b) /\ case.r[0] = Bcd(case.a)
    BY <2>1 DEF AddKind, DecimalKind
  <2>3. case.a \in Nat /\ case.a < 100 /\ case.b \in Nat /\ case.b < 100
    BY <1>4, <2>2
  <2>4. WithinPage(org) /\ left' = 3 /\ Running(cpu', org, case.code, 0, 0)
    BY <1>3, <2>2
  <2>5. DecimalBegun(cpu', org, case.a, case.b)
    BY <1>1, <2>2, <2>4 DEF DecimalBegun
  <2>6. QED
    BY <1>1, <2>3, <2>4, <2>5
<1>8. DecimalSubtracting'
  <2> DEFINE e == 1 - Bit(psl, C!CARRY)
  <2> SUFFICES ASSUME program'.kind = "decimal_sub"
               PROVE  LET a == program'.a
                          b == program'.b
                      IN  /\ WithinPage(program'.org)
                          /\ a \in Nat /\ a < 100 /\ b \in Nat /\ b < 100 /\ e \in {0, 1}
                          /\ left' = 2 /\ DecimalSubBegun(cpu', program'.org, a, b, e)
    BY <1>1 DEF DecimalSubtracting
  <2>1. SubKind(suite)
    BY <1>1, KindsAssumption
  <2>2. /\ Computes(suite, 2, {0, 1}, 1) /\ Below(100, case)
        /\ case.code = SubCode(case.b) /\ case.r[0] = Bcd(case.a)
    BY <2>1 DEF SubKind, DecimalKind
  <2>3. case.a \in Nat /\ case.a < 100 /\ case.b \in Nat /\ case.b < 100
    BY <1>4, <2>2
  <2>4. /\ WithinPage(org) /\ left' = 2 /\ Running(cpu', org, case.code, 0, 1)
        /\ C!Bit(cpu'.psl, C!CARRY) \in {0, 1}
    BY <1>3, <2>2
  <2>5. C!Bit(cpu'.psl, C!CARRY) = 1 - e /\ e \in {0, 1}
    BY <1>1, <2>4, Same
  <2> HIDE DEF e
  <2>6. DecimalSubBegun(cpu', org, case.a, case.b, e)
    BY <1>1, <2>2, <2>4, <2>5 DEF DecimalSubBegun
  <2>7. QED
    BY <1>1, <2>3, <2>4, <2>5, <2>6
<1>9. ComparingBytes'
  <2> DEFINE logical == Bit(psl, C!COM)
  <2> SUFFICES ASSUME program'.kind = "compare"
               PROVE  LET a == program'.a
                          b == program'.b
                      IN  /\ WithinPage(program'.org)
                          /\ a \in Byte /\ b \in Byte /\ logical \in {0, 1}
                          /\ left' = 2 /\ CompareBegun(cpu', program'.org, a, b, logical)
    BY <1>1 DEF ComparingBytes
  <2>1. CompareKind(suite)
    BY <1>1, KindsAssumption
  <2>2. /\ Computes(suite, 2, {0, 1}, 0) /\ Below(256, case)
        /\ case.code = CompareCode(case.b)
        /\ case.r[0] = case.a /\ case.r[1] = case.a
    BY <2>1 DEF CompareKind
  <2>3. case.a \in Byte /\ case.b \in Byte
    BY <1>4, <2>2 DEF Byte
  <2>4. WithinPage(org) /\ left' = 2 /\ Running(cpu', org, case.code, 0, 0)
    BY <1>3, <2>2
  <2>5. C!Bit(cpu'.psl, C!COM) = logical /\ logical \in {0, 1}
    BY <1>1, <1>2, Same, C!FlagBits
  <2> HIDE DEF logical
  <2>6. CompareBegun(cpu', org, case.a, case.b, logical)
    BY <1>1, <2>2, <2>4, <2>5 DEF CompareBegun
  <2>7. QED
    BY <1>1, <2>3, <2>4, <2>5, <2>6
<1>10. Rotation'
  <2> DEFINE c == Bit(psl, C!CARRY)
             n == suite.steps
  <2> SUFFICES ASSUME program'.kind = "rotate"
               PROVE  /\ WithinPage(org) /\ case.a \in Byte /\ c \in {0, 1}
                      /\ \E m \in {8, 9}, op \in {80, 208} :
                         \E i \in Nat : /\ i <= m /\ left' = m - i
                                       /\ RotateStage(cpu', org, m, op, i, case.a, c)
    BY <1>1 DEF Rotation
  <2>1. RotateKind(suite)
    BY <1>1, KindsAssumption
  <2>2. /\ n \in {8, 9} /\ Computes(suite, n, {0, 1}, n - 8)
        /\ Below(256, case) /\ case.r[0] = case.a
    BY <2>1 DEF RotateKind
  <2>3. PICK op \in {80, 208} : case.code = RotateCode(n, op)
    BY <2>1 DEF RotateKind
  <2>4. case.a \in Byte
    BY <1>4, <2>2 DEF Byte
  <2>5. WithinPage(org) /\ left' = n /\ Running(cpu', org, case.code, 0, n - 8)
    BY <1>3, <2>2
  <2>6. C!Bit(cpu'.psl, C!CARRY) = c /\ c \in {0, 1}
    BY <1>1, <1>2, Same, C!FlagBits
  <2> HIDE DEF c, n
  <2>7. RotateStage(cpu', org, n, op, 0, case.a, c)
    <3> DEFINE wc == n - 8
    <3>1. Running(cpu', org, RotateCode(n, op), 0, wc) /\ cpu'.r[0] = case.a
      BY <1>1, <2>2, <2>3, <2>5
    <3>2. FullTurn(n, op)
      BY <2>2 DEF FullTurn
    <3>3. RotateBegun(cpu', org, n, op, case.a, c)
      BY <2>4, <2>6, <3>1, <3>2 DEF RotateBegun
    <3>4. QED
      BY <3>3, RotateBegins
  <2>8. 0 \in Nat /\ 0 <= n /\ left' = n - 0
    BY <2>2, <2>5
  <2>9. QED
    BY <2>2, <2>4, <2>5, <2>6, <2>7, <2>8
<1>11. SingleExecuting'
  <2> SUFFICES ASSUME program'.kind = "one"
               PROVE  left' = 1 /\ Single(cpu', program')
    BY DEF SingleExecuting
  <2>1. SingleInstruction(suite)
    BY <1>1, KindsAssumption
  <2>2. /\ left' = 1 /\ case.code # <<>> /\ case.code \in Seq(Byte)
        /\ Defined(case.code[1]) => Len(case.code) = ModeLength(DECODE_TABLE[case.code[1]].mode)
    BY <1>1, <2>1, InstructionAssumption DEF SingleInstruction
  <2>3. IsSingle(program')
    BY <1>1, <1>2, <2>2 DEF IsSingle
  <2>4. HasLoaded(cpu', program') /\ cpu'.pc = program'.org
    <3>1. org + 0 = org
      BY <1>2, C!AddressIs, Same
    <3>2. QED
      BY <1>1, <3>1 DEF At, HasLoaded
  <2>5. Fresh(cpu')
    BY <1>1 DEF Fresh, Ready
  <2>6. QED
    BY <1>1, <2>2, <2>3, <2>4, <2>5 DEF Single, At
<1>12. Ready'
  <2>1. program' # Nothing
    BY <1>1, KindsAssumption DEF Nothing, Load
  <2>2. QED
    BY <2>1 DEF Ready
<1>13. QED
  BY <1>5, <1>6, <1>7, <1>8, <1>9, <1>10, <1>11, <1>12 DEF Progress

\* And executing it goes through it.
LEMMA Progresses == IInv /\ Progress /\ [Next]_vars => Progress'
<1> SUFFICES ASSUME IInv, Progress, [Next]_vars
             PROVE  Progress'
  OBVIOUS
<1> USE DEF Progress
<1>1. ASSUME Step
      PROVE  Progress'
  <2> DEFINE t == C!CpuStep(cpu).s
  <2>1. /\ left \in Nat /\ left > 0 /\ left' = left - 1
        /\ cpu' = t /\ program' = program /\ program # Nothing
    BY <1>1 DEF Step, IInv
  <2>2. /\ left' = 0 <=> left = 1
        /\ left' = 1 <=> left = 2
        /\ left' = 2 <=> left = 3
        /\ left # 0
    BY <2>1
  <2> HIDE DEF t
  <2>3. WideAdding'
    <3> SUFFICES ASSUME program.kind = "wide_add"
                 PROVE  WideAdding'
      BY <2>1 DEF WideAdding
    <3> DEFINE a == program.a
               b == program.b
               org == program.org
    <3>1. /\ WithinPage(org) /\ a \in Nat /\ a < 65536 /\ b \in Nat /\ b < 65536
          /\ \/ left = 2 /\ AddBegun(cpu, org, a, b)
             \/ left = 1 /\ AddHalf(cpu, org, a, b)
      BY <2>2 DEF WideAdding
    <3>2. left = 2 => AddHalf(t, org, a, b)
      BY <3>1, AddLow DEF t
    <3>3. left = 1 => AddDone(t, a, b)
      BY <3>1, AddHigh DEF t
    <3>4. \/ left' = 1 /\ AddHalf(cpu', org, a, b)
          \/ left' = 0 /\ AddDone(cpu', a, b)
      BY <2>1, <2>2, <3>1, <3>2, <3>3
    <3>5. QED
      BY <2>1, <3>1, <3>4 DEF WideAdding
  <2>4. WideSubtracting'
    <3> SUFFICES ASSUME program.kind = "wide_sub"
                 PROVE  WideSubtracting'
      BY <2>1 DEF WideSubtracting
    <3> DEFINE a == program.a
               b == program.b
               org == program.org
    <3>1. /\ WithinPage(org) /\ a \in Nat /\ a < 65536 /\ b \in Nat /\ b < 65536
          /\ \/ left = 2 /\ SubBegun(cpu, org, a, b)
             \/ left = 1 /\ SubHalf(cpu, org, a, b)
      BY <2>2 DEF WideSubtracting
    <3>2. left = 2 => SubHalf(t, org, a, b)
      BY <3>1, SubLow DEF t
    <3>3. left = 1 => SubDone(t, a, b)
      BY <3>1, SubHigh DEF t
    <3>4. \/ left' = 1 /\ SubHalf(cpu', org, a, b)
          \/ left' = 0 /\ SubDone(cpu', a, b)
      BY <2>1, <2>2, <3>1, <3>2, <3>3
    <3>5. QED
      BY <2>1, <3>1, <3>4 DEF WideSubtracting
  <2>5. DecimalAdding'
    <3> SUFFICES ASSUME program.kind = "decimal_add"
                 PROVE  DecimalAdding'
      BY <2>1 DEF DecimalAdding
    <3> DEFINE a == program.a
               b == program.b
               org == program.org
    <3>1. /\ WithinPage(org) /\ a \in Nat /\ a < 100 /\ b \in Nat /\ b < 100
          /\ \/ left = 3 /\ DecimalBegun(cpu, org, a, b)
             \/ left = 2 /\ DecimalBiased(cpu, org, a, b)
             \/ left = 1 /\ DecimalAdded(cpu, org, a, b)
      BY <2>2 DEF DecimalAdding
    <3>2. left = 3 => DecimalBiased(t, org, a, b)
      BY <3>1, DecimalBias DEF t
    <3>3. left = 2 => DecimalAdded(t, org, a, b)
      BY <3>1, DecimalAdds DEF t
    <3>4. left = 1 => DecimalDone(t, a, b)
      BY <3>1, DecimalAdjust DEF t
    <3>5. \/ left' = 2 /\ DecimalBiased(cpu', org, a, b)
          \/ left' = 1 /\ DecimalAdded(cpu', org, a, b)
          \/ left' = 0 /\ DecimalDone(cpu', a, b)
      BY <2>1, <2>2, <3>1, <3>2, <3>3, <3>4
    <3>6. QED
      BY <2>1, <3>1, <3>5 DEF DecimalAdding
  <2>6. DecimalSubtracting'
    <3> SUFFICES ASSUME program.kind = "decimal_sub"
                 PROVE  DecimalSubtracting'
      BY <2>1 DEF DecimalSubtracting
    <3> DEFINE a == program.a
               b == program.b
               org == program.org
               e == 1 - Bit(program.psl, C!CARRY)
    <3>1. /\ WithinPage(org) /\ a \in Nat /\ a < 100 /\ b \in Nat /\ b < 100 /\ e \in {0, 1}
          /\ \/ left = 2 /\ DecimalSubBegun(cpu, org, a, b, e)
             \/ left = 1 /\ DecimalSubtracted(cpu, org, a, b, e)
      BY <2>2 DEF DecimalSubtracting
    <3> HIDE DEF e
    <3>2. left = 2 => DecimalSubtracted(t, org, a, b, e)
      BY <3>1, DecimalSubtracts DEF t
    <3>3. left = 1 => DecimalSubDone(t, a, b, e)
      BY <3>1, DecimalSubAdjust DEF t
    <3>4. \/ left' = 1 /\ DecimalSubtracted(cpu', org, a, b, e)
          \/ left' = 0 /\ DecimalSubDone(cpu', a, b, e)
      BY <2>1, <2>2, <3>1, <3>2, <3>3
    <3>5. QED
      BY <2>1, <3>1, <3>4 DEF DecimalSubtracting, e
  <2>7. ComparingBytes'
    <3> SUFFICES ASSUME program.kind = "compare"
                 PROVE  ComparingBytes'
      BY <2>1 DEF ComparingBytes
    <3> DEFINE a == program.a
               b == program.b
               org == program.org
               logical == Bit(program.psl, C!COM)
    <3>1. /\ WithinPage(org) /\ a \in Byte /\ b \in Byte /\ logical \in {0, 1}
          /\ \/ left = 2 /\ CompareBegun(cpu, org, a, b, logical)
             \/ left = 1 /\ CompareHalf(cpu, org, a, b, logical)
      BY <2>2 DEF ComparingBytes
    <3> HIDE DEF logical
    <3>2. left = 2 => CompareHalf(t, org, a, b, logical)
      BY <3>1, CompareFirst DEF t
    <3>3. left = 1 => CompareDone(t, a, b, logical)
      BY <3>1, CompareSecond DEF t
    <3>4. \/ left' = 1 /\ CompareHalf(cpu', org, a, b, logical)
          \/ left' = 0 /\ CompareDone(cpu', a, b, logical)
      BY <2>1, <2>2, <3>1, <3>2, <3>3
    <3>5. QED
      BY <2>1, <3>1, <3>4 DEF ComparingBytes, logical
  <2>8. Rotation'
    <3> SUFFICES ASSUME program.kind = "rotate"
                 PROVE  Rotation'
      BY <2>1 DEF Rotation
    <3> DEFINE a == program.a
               c == Bit(program.psl, C!CARRY)
               org == program.org
    <3>1. /\ WithinPage(org) /\ a \in Byte /\ c \in {0, 1}
      BY DEF Rotation
    <3>2. PICK n \in {8, 9}, op \in {80, 208}, i \in Nat :
                i <= n /\ left = n - i /\ RotateStage(cpu, org, n, op, i, a, c)
      BY DEF Rotation
    <3>3. i < n /\ i + 1 \in Nat /\ i + 1 <= n /\ left' = n - (i + 1)
      BY <2>1, <3>2
    <3>4. RotateStage(t, org, n, op, i + 1, a, c)
      BY <3>1, <3>2, <3>3, RotateGoes DEF t
    <3>5. \E m \in {8, 9}, o \in {80, 208} :
          \E j \in Nat : j <= m /\ left' = m - j /\ RotateStage(cpu', org, m, o, j, a, c)
      BY <2>1, <3>3, <3>4
    <3>6. QED
      BY <2>1, <3>1, <3>5 DEF Rotation
  <2>9. SingleExecuting'
    <3> SUFFICES ASSUME program.kind = "one"
                 PROVE  SingleExecuting'
      BY <2>1 DEF SingleExecuting
    <3>1. left = 1 /\ Single(cpu, program)
      BY <2>1 DEF SingleExecuting
    <3>2. PICK u : Opened(u, program) /\ SameButClock(t, C!Exec(u, program.code[1]).s)
      BY <3>1, Executing DEF t
    <3>3. SameButClock(cpu', C!Exec(u, Op).s)
      BY <2>1, <3>2 DEF Op
    <3>4. left' = 0
      BY <2>2, <3>1
    <3>5. Op' = Op
      BY <2>1 DEF Op
    <3>6. QED
      BY <2>1, <3>2, <3>3, <3>4, <3>5 DEF SingleExecuting
  <2>10. Ready'
    BY <2>1 DEF Ready
  <2>11. QED
    BY <2>3, <2>4, <2>5, <2>6, <2>7, <2>8, <2>9, <2>10
<1>2. CASE UNCHANGED vars
  BY <1>2 DEF vars, Ready, WideAdding, WideSubtracting, DecimalAdding, DecimalSubtracting,
              ComparingBytes, Rotation, SingleExecuting, Op
<1>3. ASSUME program = Nothing, NEW suite \in Suites, NEW case \in suite.cases,
             NEW org \in suite.orgs, NEW psl \in suite.psls, Load(suite, case, org, psl)
      PROVE  Progress'
  BY <1>3, Begins
<1>4. QED
  BY <1>1, <1>2, <1>3 DEF Next

\* Nothing is begun at first.
LEMMA NothingBegun == Init => Progress
<1> DEFINE b == [org |-> 0, code |-> <<>>, reads |-> <<>>, writes |-> <<>>]
<1> SUFFICES ASSUME Init
             PROVE  Progress
  OBVIOUS
<1>1. program.kind = "none" /\ cpu = C!NewCpu(b)
  BY DEF Init, Nothing
<1> HIDE DEF b
<1>2. ~cpu.irq /\ ~cpu.halted /\ Fresh(cpu)
  BY <1>1 DEF C!NewCpu, Fresh, b
<1>3. QED
  BY <1>1, <1>2 DEF Progress, Ready, WideAdding, WideSubtracting, DecimalAdding,
                    DecimalSubtracting, ComparingBytes, Rotation, SingleExecuting

\* Every program of the runs makes its progress, from any start on: the stage its
\* kind is in tells what the CPU has computed so far.
THEOREM ProgressInvariance == Spec => [](IInv /\ Progress)
<1>1. Init => IInv /\ Progress
  BY Initially, NothingBegun
<1>2. IInv /\ Progress /\ [Next]_vars => IInv' /\ Progress'
  BY Inductive, Progresses
<1>3. QED
  BY <1>1, <1>2, PTL DEF Spec

\* With WC set the carry chains bytes into numbers: for all numbers of 16 bits
\* two addi or subi, low byte first, leave their sum or difference and its carry.
THEOREM WideNumbers == Spec => []WideArithmetic
<1>1. Progress => WideArithmetic
  <2> SUFFICES ASSUME Progress
               PROVE  WideArithmetic
    OBVIOUS
  <2>1. Ended("wide_add") => AddDone(cpu, program.a, program.b)
    BY DEF Progress, WideAdding, Ended
  <2>2. Ended("wide_sub") => SubDone(cpu, program.a, program.b)
    BY DEF Progress, WideSubtracting, Ended
  <2>3. C!Bit(cpu.psl, C!CARRY) = Bit(cpu.psl, C!CARRY)
    BY Same
  <2>4. QED
    BY <2>1, <2>2, <2>3 DEF WideArithmetic, AddDone, SubDone
<1>2. QED
  BY <1>1, ProgressInvariance, PTL

\* For all decimals of two digits, addi of $66, addi and dar,r0 leave the decimal
\* sum, and subi and dar,r0 the decimal difference, whichever carry came in.
THEOREM Decimals == Spec => []DecimalArithmetic
<1>1. Progress => DecimalArithmetic
  <2> SUFFICES ASSUME Progress
               PROVE  DecimalArithmetic
    OBVIOUS
  <2> DEFINE e == 1 - Bit(program.psl, C!CARRY)
  <2>1. Ended("decimal_add") => DecimalDone(cpu, program.a, program.b)
    BY DEF Progress, DecimalAdding, Ended
  <2>2. Ended("decimal_sub") => DecimalSubDone(cpu, program.a, program.b, e)
    BY DEF Progress, DecimalSubtracting, Ended
  <2>3. C!Bit(cpu.psl, C!CARRY) = Bit(cpu.psl, C!CARRY)
    BY Same
  <2> HIDE DEF e
  <2>4. QED
    BY <2>1, <2>2, <2>3 DEF DecimalArithmetic, DecimalDone, DecimalSubDone, e
<1>2. QED
  BY <1>1, ProgressInvariance, PTL

\* For all bytes, the condition code of comi is the order the flags of subi tell.
THEOREM Comparisons == Spec => []ComparisonAgrees
<1>1. Progress => ComparisonAgrees
  <2> SUFFICES ASSUME Progress, Ended("compare")
               PROVE  ComparisonAgrees
    BY DEF ComparisonAgrees
  <2> DEFINE logical == Bit(program.psl, C!COM)
  <2>1. CompareDone(cpu, program.a, program.b, logical)
    BY DEF Progress, ComparingBytes, Ended
  <2>2. /\ C!Bit(cpu.psl, C!CARRY) = Bit(cpu.psl, C!CARRY)
        /\ C!Bit(cpu.psl, C!OVF) = Bit(cpu.psl, C!OVF)
    BY Same
  <2>3. QED
    BY <2>1, <2>2 DEF ComparisonAgrees, CompareDone
<1>2. QED
  BY <1>1, ProgressInvariance, PTL

\* For all bytes, rotated all the way round, through the carry or not, R0 and the
\* carry are what they were.
THEOREM Rotations == Spec => []RotationCloses
<1>1. IInv /\ Progress => RotationCloses
  <2> SUFFICES ASSUME IInv, Progress, Ended("rotate")
               PROVE  /\ cpu.r[0] = program.a
                      /\ Bit(cpu.psl, C!CARRY) = Bit(program.psl, C!CARRY)
    BY DEF RotationCloses
  <2> DEFINE a == program.a
             c == Bit(program.psl, C!CARRY)
  <2>1. left = 0 /\ a \in Byte /\ c \in {0, 1}
    BY DEF Progress, Rotation, Ended
  <2>2. PICK n \in {8, 9}, op \in {80, 208}, i \in Nat :
              i <= n /\ left = n - i /\ RotateStage(cpu, program.org, n, op, i, a, c)
    BY DEF Progress, Rotation, Ended
  <2>3. i = n
    BY <2>1, <2>2
  <2> HIDE DEF a, c
  <2>4. cpu.r[0] = a /\ C!Bit(cpu.psl, C!CARRY) = c
    BY <2>1, <2>2, <2>3, RotateEnds
  <2>5. QED
    BY <2>4, Same DEF a, c
<1>2. QED
  BY <1>1, ProgressInvariance, PTL

\* For all operands, registers, flags and contents of the RAM, at every address: no
\* two instructions share an opcode, a byte no instruction claims is ignored and
\* counted, what does not branch goes on as many bytes further as its mode says,
\* and what calls comes back there.
THEOREM Flows == Spec => []FlowAgrees
<1>1. Progress => FlowAgrees
  <2> SUFFICES ASSUME Progress, Ended("one")
               PROVE  FlowAgrees
    BY DEF FlowAgrees
  <2>1. PICK u : Opened(u, program) /\ SameButClock(cpu, C!Exec(u, Op).s)
    BY DEF Progress, SingleExecuting, Ended
  <2>2. QED
    BY <2>1, FlowIs
<1>2. QED
  BY <1>1, ProgressInvariance, PTL

\* For all of them whose bytes lie within a page, ZBRR and ZBSR apart, the address
\* the disassembler shows and the assembler encodes is where a branch goes, what a
\* load reads and where a store writes.
THEOREM Operands == Spec => []OperandReached
<1>1. Progress => OperandReached
  <2> SUFFICES ASSUME Progress, Ended("one")
               PROVE  OperandReached
    BY DEF OperandReached
  <2>1. PICK u : Opened(u, program) /\ SameButClock(cpu, C!Exec(u, Op).s)
    BY DEF Progress, SingleExecuting, Ended
  <2>2. QED
    BY <2>1, ReachedIs
<1>2. QED
  BY <1>1, ProgressInvariance, PTL

=============================================================================
