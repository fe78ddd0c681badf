---------------------------- MODULE Instruction ----------------------------
(***************************************************************************)
(* A short piece of code on the CPU, over RAM that remembers which of its  *)
(* bytes were read and written.  The CPU (Rust) and the tables by which    *)
(* the Python tools assemble and disassemble for it (Isa) are two accounts *)
(* of one instruction set: here they are held against each other, and the  *)
(* CPU's arithmetic against numbers.                                       *)
(***************************************************************************)
EXTENDS Isa, FiniteSets

CONSTANTS
    Suites,        \* the programs: of each suite its kind, the instructions it
                   \* executes (steps), the addresses (orgs) and PSLs (psls) it
                   \* starts with, and its cases: code, registers r, and the
                   \* numbers a and b the code computes with
    Ram(_)         \* what the RAM holds where there is no code, by address

ASSUME InstructionAssumption ==
    /\ \A suite \in Suites :
          /\ suite.orgs \subseteq Address /\ suite.psls \subseteq Byte /\ suite.steps \in Nat
          /\ \A case \in suite.cases : case.code \in Seq(Byte) /\ case.r \in [0 .. 6 -> Byte]
    /\ \A a \in Address : Ram(a) \in Byte

\* Flat RAM: the bytes from org on, and elsewhere the pattern.
Holds(b, a) == IF a - b.org + 1 \in DOMAIN b.code THEN b.code[a - b.org + 1] ELSE Ram(a)

RamRead(b, a) == [v |-> Holds(b, a), bus |-> [b EXCEPT !.reads = Append(@, a)]]
RamWrite(b, a, v) == [b EXCEPT !.writes = Append(@, a)]
RamSense(b) == [v |-> 0, bus |-> b]
RamFlag(b, level) == b
RamIntAck(b) == 0

C == INSTANCE CpuProofs WITH BusRead <- RamRead, BusWrite <- RamWrite,
        BusSense <- RamSense, BusFlag <- RamFlag, IntAck <- RamIntAck

Bcd(n) == 16 * (n \div 10) + (n % 10)

\* Code that computes: addi (132) or subi (164) of the low byte of b to R0 and
\* then of its high byte to R1;
WideCode(op, b) == <<op, b % 256, op + 1, b \div 256>>

\* addi,r0 $66; addi,r0 b; dar,r0
AddCode(b) == <<132, 102, 132, Bcd(b), 148>>

\* subi,r0 b; dar,r0
SubCode(b) == <<164, Bcd(b), 148>>

\* subi,r0 b; comi,r1 b
CompareCode(b) == <<164, b, 229, b>>

\* rrr,r0 (80) or rrl,r0 (208), n times
RotateCode(n, op) == [i \in 1 .. n |-> op]

\* The kinds of suites: a single instruction, as long as its mode says,
SingleInstruction(suite) ==
    /\ suite.steps = 1
    /\ \A case \in suite.cases :
          /\ case.code # <<>>
          /\ Defined(case.code[1]) =>
                 Len(case.code) = ModeLength(DECODE_TABLE[case.code[1]].mode)

\* code that computes in bank 0, in ten bytes of a page, started with bits of PSL,
Computes(suite, steps, carry, wc) ==
    /\ suite.steps = steps
    /\ \A org \in suite.orgs : PageOf(org + 9) = PageOf(org)
    /\ \A psl \in suite.psls :
          Bit(psl, C!CARRY) \in carry /\ Bit(psl, C!WC) = wc /\ Bit(psl, C!RS) = 0

Below(n, case) == \A x \in {case.a, case.b} : x \in Nat /\ x < n

\* an addition or a subtraction of 16 bits,
WideKind(suite, op, carry) ==
    /\ Computes(suite, 2, {carry}, 1)
    /\ \A case \in suite.cases :
          /\ Below(65536, case) /\ case.code = WideCode(op, case.b)
          /\ case.r[0] = case.a % 256 /\ case.r[1] = case.a \div 256

\* of decimals,
DecimalKind(suite, steps, wc) ==
    /\ Computes(suite, steps, {0, 1}, wc)
    /\ \A case \in suite.cases : Below(100, case) /\ case.r[0] = Bcd(case.a)

AddKind(suite) ==
    DecimalKind(suite, 3, 0) /\ \A case \in suite.cases : case.code = AddCode(case.b)

SubKind(suite) ==
    DecimalKind(suite, 2, 1) /\ \A case \in suite.cases : case.code = SubCode(case.b)

\* the subtraction and the comparison of two bytes,
CompareKind(suite) ==
    /\ Computes(suite, 2, {0, 1}, 0)
    /\ \A case \in suite.cases :
          /\ Below(256, case) /\ case.code = CompareCode(case.b)
          /\ case.r[0] = case.a /\ case.r[1] = case.a

\* and a rotation all the way round: eight steps, or nine through the carry.
RotateKind(suite) ==
    /\ suite.steps \in {8, 9} /\ Computes(suite, suite.steps, {0, 1}, suite.steps - 8)
    /\ \A case \in suite.cases :
          /\ Below(256, case) /\ case.r[0] = case.a
          /\ \E op \in {80, 208} : case.code = RotateCode(suite.steps, op)

ASSUME KindsAssumption ==
    \A suite \in Suites :
        /\ suite.kind = "one" => SingleInstruction(suite)
        /\ suite.kind = "wide_add" => WideKind(suite, 132, 0)
        /\ suite.kind = "wide_sub" => WideKind(suite, 164, 1)
        /\ suite.kind = "decimal_add" => AddKind(suite)
        /\ suite.kind = "decimal_sub" => SubKind(suite)
        /\ suite.kind = "compare" => CompareKind(suite)
        /\ suite.kind = "rotate" => RotateKind(suite)

VARIABLES
    program,   \* the program
    cpu,       \* the CPU and its RAM
    left       \* instructions still to execute

vars == <<program, cpu, left>>

Nothing == [kind |-> "none", org |-> 0, code |-> <<>>, psl |-> 0]

Init ==
    /\ program = Nothing
    /\ cpu = C!NewCpu([org |-> 0, code |-> <<>>, reads |-> <<>>, writes |-> <<>>])
    /\ left = 0

\* The host puts code in the RAM and sets the pc, the registers and PSL.
Load(suite, case, org, psl) ==
    /\ program' = [kind |-> suite.kind, org |-> org, code |-> case.code, r |-> case.r,
                   psl |-> psl, a |-> case.a, b |-> case.b]
    /\ cpu' = [cpu EXCEPT !.bus.org = org, !.bus.code = case.code,
                          !.pc = org, !.r = case.r, !.psl = psl]
    /\ left' = suite.steps

Step ==
    /\ left > 0
    /\ left' = left - 1
    /\ cpu' = C!CpuStep(cpu).s
    /\ UNCHANGED program

Next ==
    \/ /\ program = Nothing
       /\ \E suite \in Suites :
          \E case \in suite.cases, org \in suite.orgs, psl \in suite.psls :
              Load(suite, case, org, psl)
    \/ Step

Spec == Init /\ [][Next]_vars

Ended(kind) == left = 0 /\ program.kind = kind

-----------------------------------------------------------------------------
TypeOK ==
    /\ cpu.pc \in Address
    /\ \A i \in 0 .. 6 : cpu.r[i] \in Byte
    /\ cpu.psl \in Byte /\ cpu.psu \in Byte
    /\ cpu.ras \in [0 .. 7 -> Address]
    /\ left \in Nat
    /\ \A i \in DOMAIN cpu.bus.reads : cpu.bus.reads[i] \in Address

-----------------------------------------------------------------------------
(* What the tables say of a single instruction, for one executed.          *)

Op == program.code[1]
Entry == DECODE_TABLE[Op]
Org == program.org
Length == ModeLength(Entry.mode)

\* The tools place the bytes of an instruction one after the other: the ones
\* considered are those that lie within a page, where the CPU fetches them so.
InOnePage == PageOf(Org + Length - 1) = PageOf(Org)

Bank(n) == IF n > 0 /\ Bit(program.psl, C!RS) = 1 THEN n + 3 ELSE n
Held == program.r[Bank(Entry.sel)]
Cc == program.psl \div 64

Calls == {56, 60, 184, 188, 120, 124, 187, 191}
Jumps == {24, 28, 152, 156, 88, 92, 216, 220, 248, 252, 155, 159} \cup Calls
Returns == {20, 52}

\* Whether the branch or return goes anywhere, by the meaning of its mnemonic:
\* BCT and BST (RETC, RETE) on the condition, BCF and BSF against it, BRN and
\* BSN on a register, BIR and BDR on the register they step.
Taken ==
    CASE Entry.base \in {24, 28, 56, 60} \cup Returns -> Entry.sel = 3 \/ Entry.sel = Cc
      [] Entry.base \in {152, 156, 184, 188} -> Entry.sel # Cc
      [] Entry.base \in {88, 92, 120, 124}   -> Held # 0
      [] Entry.base \in {216, 220} -> Held # 255
      [] Entry.base \in {248, 252} -> Held # 1
      [] Entry.base \in {155, 159, 187, 191} -> TRUE
      [] OTHER -> FALSE

\* The address shown for the operand.  A displacement that leaves the page
\* (or the 8K of ZBRR and ZBSR) comes in again at its other end.
Target ==
    LET shown == Shown(Entry.mode, program.code, Org)
    IN  IF Entry.mode \in Relatives THEN PageOf(Org) + (shown % 8192) ELSE shown

\* What an indirect operand points at, the pointer lying within a page.
Pointed ==
    LET next == PageOf(Target) + ((Target + 1) % 8192)
    IN  (256 * Holds(cpu.bus, Target) + Holds(cpu.bus, next)) % 32768

Effective == IF Indirect(program.code) = INDIRECT_BIT THEN Pointed ELSE Target

\* The same, moved by the index register.
Index ==
    CASE IndexControl(program.code) = INDEX_AUTO_INC -> (Held + 1) % 256
      [] IndexControl(program.code) = INDEX_AUTO_DEC -> (Held - 1) % 256
      [] OTHER -> Held

Operand ==
    IF Entry.mode = "absx" /\ IndexControl(program.code) # INDEX_NONE
    THEN PageOf(Effective) + ((Effective + Index) % 8192)
    ELSE IF Entry.base \in {159, 191}
    THEN (Effective + program.r[Bank(3)]) % 32768
    ELSE Effective

ZeroBranch == Defined(Op) /\ Entry.mode = "zbr"

\* A byte no instruction claims is one the CPU ignores and counts.  Any other is
\* claimed by one instruction and as long as its mode says: what does not branch goes on there,
\* and what calls comes back there.
FlowAgrees ==
    Ended("one") =>
        IF Claims(Op) = {} THEN cpu.illegal = 1 /\ cpu.pc = C!InPage(Org, 1)
        ELSE /\ Cardinality(Claims(Op)) = 1
             /\ cpu.illegal = 0
             /\ ~Taken => /\ cpu.pc = C!InPage(Org, Length)
                          /\ \A i \in 0 .. 7 : cpu.ras[i] = 0
             /\ Taken /\ Entry.base \in Calls =>
                    C!SP(cpu) = 1 /\ cpu.ras[1] = C!InPage(Org, Length)

\* The address the disassembler shows and the assembler encodes is the one the
\* CPU takes: where a branch goes, and what a load reads or a store writes.
OperandReached ==
    Ended("one") /\ Defined(Op) /\ ~ZeroBranch /\ InOnePage =>
        /\ Taken /\ Entry.base \in Jumps => cpu.pc = Operand
        /\ Entry.mode \in {"regrel", "absx"} /\ Entry.base \notin Jumps =>
              IF Entry.base \in {200, 204} THEN cpu.bus.writes = <<Operand>>
              ELSE /\ cpu.bus.reads[Len(cpu.bus.reads)] = Operand
                   /\ cpu.bus.writes = <<>>

\* ... ZBRR and ZBSR included.
ZeroPageReached ==
    Ended("one") /\ ZeroBranch /\ InOnePage => cpu.pc = Operand

-----------------------------------------------------------------------------
(* Arithmetic.                                                             *)

\* With WC set the carry chains bytes into numbers: two additions or
\* subtractions, low byte first, are one of 16 bits and leave its carry.
WideArithmetic ==
    LET Result == 256 * cpu.r[1] + cpu.r[0]
        Carry == Bit(cpu.psl, C!CARRY)
        sum == program.a + program.b
        difference == program.a - program.b
    IN  /\ Ended("wide_add") => Result = sum % 65536 /\ Carry = sum \div 65536
        /\ Ended("wide_sub") => Result = difference % 65536 /\ (Carry = 1 <=> difference >= 0)

\* Two digits biased by $66, added and adjusted are the decimal sum, and
\* subtracted (with borrow) and adjusted the decimal difference; the carry is
\* that of the decimals.
DecimalArithmetic ==
    LET Carry == Bit(cpu.psl, C!CARRY)
        sum == program.a + program.b
        difference == program.a - program.b - (1 - Bit(program.psl, C!CARRY))
    IN  /\ Ended("decimal_add") => cpu.r[0] = Bcd(sum % 100) /\ Carry = sum \div 100
        /\ Ended("decimal_sub") => cpu.r[0] = Bcd(difference % 100)
                                   /\ (Carry = 1 <=> difference >= 0)

\* A subtraction and then a comparison of the same two bytes tell the same: the
\* sign and the overflow of the difference are the arithmetic order, and its
\* borrow is the logical one.
ComparisonAgrees ==
    Ended("compare") =>
        LET difference == Signed((program.a - program.b) % 256)
            overflow == Bit(cpu.psl, C!OVF) = 1
            less == IF Bit(program.psl, C!COM) = 1 THEN Bit(cpu.psl, C!CARRY) = 0
                    ELSE (difference < 0) # overflow
        IN  C!CC(cpu) = IF program.a = program.b THEN 0 ELSE IF less THEN 2 ELSE 1

\* Rotated all the way round, through the carry or not, a register and the
\* carry are what they were.
RotationCloses ==
    Ended("rotate") =>
        /\ cpu.r[0] = program.a
        /\ Bit(cpu.psl, C!CARRY) = Bit(program.psl, C!CARRY)

=============================================================================
