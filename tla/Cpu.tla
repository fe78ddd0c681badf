-------------------------------- MODULE Cpu --------------------------------
(***************************************************************************)
(* The Signetics 2650 CPU over any bus.  A CPU and the bus it drives are   *)
(* one record s; each method of the source is an operator on it.  The      *)
(* operators of the Bus trait are parameters, as the trait is one of the   *)
(* Rust type: a read or a SENSE sample returns the value and the bus       *)
(* afterwards.  No bus of the repository has I/O ports, so REDx read 0     *)
(* and WRTx do nothing, as the trait's defaults do.                        *)
(***************************************************************************)
EXTENDS Bytes

CONSTANTS
    BusRead(_, _),      \* bus, address      -> [v, bus]
    BusWrite(_, _, _),  \* bus, address, v   -> bus
    BusSense(_),        \* bus               -> [v, bus], v a bit
    BusFlag(_, _),      \* bus, level        -> bus
    IntAck(_)           \* bus               -> the byte put on the bus

\* PSL and PSU bits.
CARRY == 1
COM == 2
OVF == 4
WC == 8
RS == 16
IDC == 32
UNUSED == 24
II == 32
FLAG == 64
SENSE == 128

NewCpu(bus) ==
    [ r |-> [i \in 0 .. 6 |-> 0], psl |-> 0, psu |-> 0, pc |-> 0,
      ras |-> [i \in 0 .. 7 |-> 0], halted |-> FALSE, irq |-> FALSE,
      clocks |-> 0, illegal |-> 0, bus |-> bus ]

\* Hardware reset: the CPU is as new, the bus is left alone.
CpuReset(s) == NewCpu(s.bus)

\* The physical register n names in the bank PSL.RS selects.
Ri(s, n) == IF n = 0 \/ Bit(s.psl, RS) = 0 THEN n ELSE n + 3
Reg(s, n) == s.r[Ri(s, n)]
SetReg(s, n, v) == [s EXCEPT !.r[Ri(s, n)] = v]

CC(s) == s.psl \div 64
SetCC(psl, cc) == (psl % 64) + 64 * cc
SP(s) == s.psu % 8
SetSP(psu, sp) == psu - (psu % 8) + sp

-----------------------------------------------------------------------------
(* Addresses.                                                              *)

\* a + d within the 8K page of a, and a 7-bit displacement, sign-extended.
InPage(a, d) == (a \div 8192) * 8192 + ((a + d) % 8192)
Disp(b) == IF b % 128 < 64 THEN b % 128 ELSE (b % 128) - 128

\* The value and the bus that came of a read, for the CPU that made it.
Took(s, q) == [v |-> q.v, s |-> [s EXCEPT !.bus = q.bus]]

ReadAt(s, a) == Took(s, BusRead(s.bus, a))

\* The next instruction byte.
Fetch(s) == Took([s EXCEPT !.pc = InPage(@, 1)], BusRead(s.bus, s.pc))

\* Two bytes as one number, high byte first.
Word(hi, lo) == [v |-> 256 * hi.v + lo.v, s |-> lo.s]

FetchPair(s) ==
    LET Then(hi) == Word(hi, Fetch(hi.s))
    IN  Then(Fetch(s))

ReadPair(s, a) ==
    LET Then(hi) == Word(hi, ReadAt(hi.s, InPage(a, 1)))
    IN  Then(ReadAt(s, a))

\* An address, or the 15-bit pointer it points at for 6 clocks more.
Deref(s, ea, indirect) ==
    LET Pointer(w) == [ea |-> w.v % 32768, k |-> 6, s |-> w.s]
    IN  IF indirect THEN Pointer(ReadPair(s, ea)) ELSE [ea |-> ea, k |-> 0, s |-> s]

\* A relative address is counted from page zero by ZBRR and ZBSR only.
FromZero == TRUE
FromHere == FALSE

RelEa(s, zero) ==
    LET From(d) == Deref(d.s, IF zero THEN Disp(d.v) % 8192 ELSE InPage(d.s.pc, Disp(d.v)),
                         d.v >= 128)
    IN  From(Fetch(s))

BranchEa(s) ==
    LET From(w) == Deref(w.s, w.v % 32768, w.v >= 32768)
    IN  From(FetchPair(s))

\* Bits 5 and 6 of an absolute operand: an indexed address, whose index
\* register x may be stepped first, is operated on with R0.
Indexed(e, x, mode) ==
    LET index == CASE mode = 1 -> (e.s.r[x] + 1) % 256
                   [] mode = 2 -> (e.s.r[x] - 1) % 256
                   [] OTHER    -> e.s.r[x]
    IN  IF mode = 0 THEN [d |-> x, ea |-> e.ea, k |-> e.k, s |-> e.s]
        ELSE [d |-> 0, ea |-> InPage(e.ea, index), k |-> e.k,
              s |-> [e.s EXCEPT !.r[x] = index]]

\* Absolute address of a register instruction: d is the register operated on.
AbsEa(s, n) ==
    LET From(w) == Indexed(Deref(w.s, (w.s.pc \div 8192) * 8192 + (w.v % 8192),
                                 w.v >= 32768),
                           Ri(s, n), (w.v \div 8192) % 4)
    IN  From(FetchPair(s))

\* Register, value and clocks of an instruction in Z, I, R or A mode.
Operand(s, op) ==
    LET x == Ri(s, op % 4)
        mode == (op \div 4) % 4
        Got(d, k, q) == [d |-> d, v |-> q.v, k |-> k, s |-> q.s]
        Direct(e) == Got(x, 9 + e.k, ReadAt(e.s, e.ea))
        Absolute(e) == Got(e.d, 12 + e.k, ReadAt(e.s, e.ea))
    IN  CASE mode = 0 -> Got(0, 6, [v |-> s.r[x], s |-> s])
          [] mode = 1 -> Got(x, 6, Fetch(s))
          [] mode = 2 -> Direct(RelEa(s, FromHere))
          [] mode = 3 -> Absolute(AbsEa(s, op % 4))

-----------------------------------------------------------------------------
(* Arithmetic.  A result is the byte and the flags it leaves in PSL.       *)

\* Condition code of a byte: 0 zero, 1 positive, 2 negative.
CcOf(v) == IF v = 0 THEN 0 ELSE IF v < 128 THEN 1 ELSE 2

SetFlags(psl, c, idc, ovf) ==
    SetBit(SetBit(SetBit(psl, CARRY, c), IDC, idc), OVF, ovf)

Load(s, d, v) == [s EXCEPT !.r[d] = v, !.psl = SetCC(@, CcOf(v))]

Add(s, d, b) ==
    LET a == s.r[d]
        sum == a + b + Bit(s.psl, WC) * Bit(s.psl, CARRY)
        v == sum % 256
        idc == Bit(XorBits(XorBits(v, a), b), 16)
        ovf == Bit(XorBits(a, v), 128) * Bit(XorBits(b, v), 128)
    IN  Load([s EXCEPT !.psl = SetFlags(@, sum \div 256, idc, ovf)], d, v)

\* Faulty Sub: the carry is borrowed as it is.
SubBorrowsCarry(s, d, b) ==
    LET a == s.r[d]
        diff == a - b - Bit(s.psl, WC) * Bit(s.psl, CARRY)
        v == diff % 256
        idc == 1 - Bit(XorBits(XorBits(v, a), b), 16)
        ovf == Bit(XorBits(a, b), 128) * Bit(XorBits(a, v), 128)
        carry == IF diff < 0 THEN 0 ELSE 1
    IN  Load([s EXCEPT !.psl = SetFlags(@, carry, idc, ovf)], d, v)

Sub(s, d, b) ==
    LET a == s.r[d]
        diff == a - b - Bit(s.psl, WC) * (1 - Bit(s.psl, CARRY))
        v == diff % 256
        idc == 1 - Bit(XorBits(XorBits(v, a), b), 16)
        ovf == Bit(XorBits(a, b), 128) * Bit(XorBits(a, v), 128)
        carry == IF diff < 0 THEN 0 ELSE 1
    IN  Load([s EXCEPT !.psl = SetFlags(@, carry, idc, ovf)], d, v)

\* Faulty Com: always logical.
ComLogical(s, a, b) ==
    [s EXCEPT !.psl = SetCC(@, IF a < b THEN 2 ELSE IF a = b THEN 0 ELSE 1)]

Com(s, a, b) ==
    LET logical == Bit(s.psl, COM) = 1
        x == IF logical THEN a ELSE Signed(a)
        y == IF logical THEN b ELSE Signed(b)
    IN  [s EXCEPT !.psl = SetCC(@, IF x < y THEN 2 ELSE IF x = y THEN 0 ELSE 1)]

\* The directions of a rotation.
Left == TRUE
Right == FALSE

\* Faulty Rotate: with WC set the carry goes out but not in.
RotateForgetsCarry(s, d, left) ==
    LET a == s.r[d]
        wc == Bit(s.psl, WC) = 1
        out == IF left THEN a \div 128 ELSE a % 2
        in == IF wc THEN 0 ELSE out
        v == IF left THEN ((a * 2) % 256) + in ELSE (a \div 2) + 128 * in
        psl == IF wc THEN SetBit(SetBit(s.psl, CARRY, out), IDC, Bit(v, 32)) ELSE s.psl
    IN  Load([s EXCEPT !.psl = SetBit(psl, OVF, Bit(XorBits(v, a), 128))], d, v)

\* With WC set the rotation goes through the carry and IDC takes bit 5.
Rotate(s, d, left) ==
    LET a == s.r[d]
        wc == Bit(s.psl, WC) = 1
        out == IF left THEN a \div 128 ELSE a % 2
        in == IF wc THEN Bit(s.psl, CARRY) ELSE out
        v == IF left THEN ((a * 2) % 256) + in ELSE (a \div 2) + 128 * in
        psl == IF wc THEN SetBit(SetBit(s.psl, CARRY, out), IDC, Bit(v, 32)) ELSE s.psl
    IN  Load([s EXCEPT !.psl = SetBit(psl, OVF, Bit(XorBits(v, a), 128))], d, v)

\* Faulty Dar: the bias is added without wrapping.
DarUnwrapped(s, d) ==
    LET a == s.r[d]
        high == IF Bit(s.psl, CARRY) = 0 THEN a + 160 ELSE a
        v == IF Bit(s.psl, IDC) = 0 THEN high - (high % 16) + ((high + 10) % 16) ELSE high
    IN  [s EXCEPT !.r[d] = v]

\* Faulty Dar: the low digit's adjustment carries into the high one.
DarCarries(s, d) ==
    LET a == s.r[d]
        high == IF Bit(s.psl, CARRY) = 0 THEN (a + 160) % 256 ELSE a
    IN  [s EXCEPT !.r[d] = IF Bit(s.psl, IDC) = 0 THEN (high + 10) % 256 ELSE high]

\* Decimal adjust: the condition code is left alone.
Dar(s, d) ==
    LET a == s.r[d]
        high == IF Bit(s.psl, CARRY) = 0 THEN (a + 160) % 256 ELSE a
        v == IF Bit(s.psl, IDC) = 0 THEN high - (high % 16) + ((high + 10) % 16) ELSE high
    IN  [s EXCEPT !.r[d] = v]

\* The condition code of a bit test: 0 when all of mask m is set in v, else 2.
TestBits(s, v, m) ==
    [s EXCEPT !.psl = SetCC(@, IF AndBits(v, m) = m THEN 0 ELSE 2)]

-----------------------------------------------------------------------------
(* The upper status, the return stack and branches.                        *)

\* Faulty ReadPsu: the SENSE input sticks in PSU.
ReadPsuLatches(s) ==
    LET Sampled(q) == [q EXCEPT !.v = IF @ = 1 THEN SetBit(s.psu, SENSE, 1) ELSE s.psu]
        Latched(q) == Took([s EXCEPT !.psu = q.v], q)
    IN  Latched(Sampled(BusSense(s.bus)))

\* SENSE is sampled on every read of PSU.
ReadPsu(s) ==
    LET Sampled(q) == [q EXCEPT !.v = IF @ = 1 THEN SetBit(s.psu, SENSE, 1) ELSE s.psu]
    IN  Took(s, Sampled(BusSense(s.bus)))

\* The bus hears of FLAG only when it changes.
WritePsu(s, v) ==
    LET level == Bit(v, FLAG)
    IN  [s EXCEPT !.psu = v,
                  !.bus = IF level # Bit(s.psu, FLAG) THEN BusFlag(@, level) ELSE @]

\* Faulty Push: the address is stored before the pointer moves.
PushLate(s) ==
    LET sp == (SP(s) + 1) % 8
    IN  [s EXCEPT !.psu = SetSP(@, sp), !.ras[SP(s)] = s.pc]

Push(s) ==
    LET sp == (SP(s) + 1) % 8
    IN  [s EXCEPT !.psu = SetSP(@, sp), !.ras[sp] = s.pc]

Pop(s) ==
    [s EXCEPT !.pc = s.ras[SP(s)], !.psu = SetSP(@, (SP(s) - 1) % 8)]

Cond(s, n) == n = 3 \/ CC(s) = n

Jump(s, ea, call) == [(IF call THEN Push(s) ELSE s) EXCEPT !.pc = ea]

\* Faulty Branch: an untaken absolute branch skips half its operand.
BranchSkipsOne(s, op, taken, call) ==
    LET To(e) == [s |-> Jump(e.s, e.ea, call), k |-> 9 + e.k]
    IN  IF taken THEN To(IF Bit(op, 4) = 1 THEN BranchEa(s) ELSE RelEa(s, FromHere))
        ELSE [s |-> [s EXCEPT !.pc = InPage(@, 1)], k |-> 9]

\* An untaken branch skips its operand without reading it.
Branch(s, op, taken, call) ==
    LET abs == Bit(op, 4) = 1
        To(e) == [s |-> Jump(e.s, e.ea, call), k |-> 9 + e.k]
    IN  IF taken THEN To(IF abs THEN BranchEa(s) ELSE RelEa(s, FromHere))
        ELSE [s |-> [s EXCEPT !.pc = InPage(@, IF abs THEN 2 ELSE 1)], k |-> 9]

\* ZBRR and ZBSR, BXA and BSXA.
BranchSpecial(s, op) ==
    LET abs == op \in {159, 191}
        call == op \in {187, 191}
        To(e, ea) == [s |-> Jump(e.s, ea, call), k |-> 9 + e.k]
        Offset(e) == To(e, (e.ea + Reg(e.s, 3)) % 32768)
        Direct(e) == To(e, e.ea)
    IN  IF abs THEN Offset(BranchEa(s)) ELSE Direct(RelEa(s, FromZero))

\* Where INTREQ leads: a ZBSR whose displacement is the byte on the bus.
InterruptEa(s, d) == Deref([s EXCEPT !.halted = FALSE], Disp(d) % 8192, d >= 128)

\* Faulty Interrupt: the handler's own address is pushed.
InterruptLosesPc(s) ==
    LET Enter(e) == [s |-> Push([e.s EXCEPT !.psu = SetBit(@, II, 1), !.pc = e.ea]),
                     k |-> 9 + e.k]
    IN  Enter(InterruptEa(s, IntAck(s.bus)))

\* The interrupted address is pushed after the vector is read.
Interrupt(s) ==
    LET Enter(e) == [s |-> [Push(e.s) EXCEPT !.psu = SetBit(@, II, 1), !.pc = e.ea],
                     k |-> 9 + e.k]
    IN  Enter(InterruptEa(s, IntAck(s.bus)))

-----------------------------------------------------------------------------
(* Instructions.                                                           *)

Illegal == {16, 17, 144, 145, 182, 183} \cup 196 .. 199

\* Instructions that combine a register with an operand.
Combine(op, o) ==
    LET a == o.s.r[o.d]
    IN  [ k |-> o.k,
          s |-> CASE op \in 0 .. 15    -> Load(o.s, o.d, o.v)
                  [] op \in 32 .. 47   -> Load(o.s, o.d, XorBits(a, o.v))
                  [] op \in 65 .. 79   -> Load(o.s, o.d, AndBits(a, o.v))
                  [] op \in 96 .. 111  -> Load(o.s, o.d, OrBits(a, o.v))
                  [] op \in 128 .. 143 -> Add(o.s, o.d, o.v)
                  [] op \in 160 .. 175 -> Sub(o.s, o.d, o.v)
                  [] op \in 224 .. 239 -> Com(o.s, a, o.v) ]

Combines ==
    0 .. 15 \cup 32 .. 47 \cup 65 .. 79 \cup 96 .. 111 \cup 128 .. 143
        \cup 160 .. 175 \cup 224 .. 239

\* Register d is stored at e.
Store(e, d, k) ==
    [s |-> [e.s EXCEPT !.bus = BusWrite(@, e.ea, e.s.r[d])], k |-> k + e.k]

StoreAbs(e) == Store(e, e.d, 12)

\* Instructions with a second byte, imm, that is a mask or a port.
Immediate(s, op, imm) ==
    LET x == Ri(s, op % 4)
        TestPsu(u) == TestBits(u.s, u.v, imm.v)
    IN  CASE op = 116 -> WritePsu(imm.s, Without(s.psu, Without(imm.v, SENSE)))
          [] op = 118 -> WritePsu(imm.s, OrBits(s.psu, Without(imm.v, SENSE + UNUSED)))
          [] op = 117 -> [imm.s EXCEPT !.psl = Without(@, imm.v)]
          [] op = 119 -> [imm.s EXCEPT !.psl = OrBits(@, imm.v)]
          [] op = 180 -> TestPsu(ReadPsu(imm.s))
          [] op = 181 -> TestBits(imm.s, s.psl, imm.v)
          [] op \in 244 .. 247 -> TestBits(imm.s, s.r[x], imm.v)
          [] op \in 84 .. 87   -> Load(imm.s, x, 0)
          [] op \in 212 .. 215 -> imm.s

Immediates ==
    {116, 117, 118, 119, 180, 181} \cup 244 .. 247 \cup 84 .. 87 \cup 212 .. 215

\* Instructions of one byte: registers, status, returns and ports.
Inherent(s, op) ==
    LET x == Ri(s, op % 4)
        popped == IF Cond(s, op % 4) THEN Pop(s) ELSE s
        FromPsu(u) == Load(u.s, 0, Without(u.v, UNUSED))
    IN  CASE op = 64  -> [s EXCEPT !.halted = TRUE]
          [] op = 192 -> s
          [] op \in Illegal -> [s EXCEPT !.illegal = @ + 1]
          [] op \in 193 .. 195 -> Load(s, x, s.r[0])
          [] op = 18  -> FromPsu(ReadPsu(s))
          [] op = 19  -> Load(s, 0, s.psl)
          [] op = 146 -> WritePsu(s, Without(s.r[0], SENSE + UNUSED))
          [] op = 147 -> [s EXCEPT !.psl = s.r[0]]
          [] op \in 20 .. 23   -> popped
          [] op \in 52 .. 55   -> IF Cond(s, op % 4) THEN [popped EXCEPT !.psu = SetBit(@, II, 0)]
                                  ELSE s
          [] op \in 80 .. 83   -> Rotate(s, x, Right)
          [] op \in 208 .. 211 -> Rotate(s, x, Left)
          [] op \in 148 .. 151 -> Dar(s, x)
          [] op \in (48 .. 51) \cup (112 .. 115)   -> Load(s, x, 0)
          [] op \in (176 .. 179) \cup (240 .. 243) -> s

\* Returns and decimal adjusts take three cycles, taken or not.
InherentClocks(op) ==
    IF op \in (20 .. 23) \cup (52 .. 55) \cup (148 .. 151) THEN 9 ELSE 6

\* Conditional branches and calls: on the condition, against it, and on a
\* register, which BIRR and BDRR step first.
ExecBranch(s, op) ==
    LET n == op % 4
        x == Ri(s, n)
        call == op \in 56 .. 63 \cup 184 .. 190 \cup 120 .. 127
        Counted(t) == Branch(t, op, t.r[x] # 0, call)
    IN  CASE op \in 24 .. 31 \cup 56 .. 63     -> Branch(s, op, Cond(s, n), call)
          [] op \in 152 .. 158 \cup 184 .. 190 -> Branch(s, op, CC(s) # n, call)
          [] op \in 88 .. 95 \cup 120 .. 127   -> Counted(s)
          [] op \in 216 .. 223 -> Counted([s EXCEPT !.r[x] = (@ + 1) % 256])
          [] op \in 248 .. 255 -> Counted([s EXCEPT !.r[x] = (@ - 1) % 256])

Specials == {155, 159, 187, 191}
Branches ==
    (24 .. 31 \cup 56 .. 63 \cup 88 .. 95 \cup 120 .. 127 \cup 152 .. 159
        \cup 184 .. 191 \cup 216 .. 223 \cup 248 .. 255) \ Specials

Exec(s, op) ==
    CASE op \in Combines   -> Combine(op, Operand(s, op))
      [] op \in 200 .. 203 -> Store(RelEa(s, FromHere), Ri(s, op % 4), 9)
      [] op \in 204 .. 207 -> StoreAbs(AbsEa(s, op % 4))
      [] op \in Immediates -> [s |-> Immediate(s, op, Fetch(s)), k |-> 9]
      [] op \in Branches   -> ExecBranch(s, op)
      [] op \in Specials   -> BranchSpecial(s, op)
      [] OTHER             -> [s |-> Inherent(s, op), k |-> InherentClocks(op)]

Execute(f) == Exec(f.s, f.v)

\* One instruction, interrupt entry or halted cycle, and the clocks it took.
CpuStep(s) ==
    LET Timed(e) == [e EXCEPT !.s.clocks = @ + e.k]
    IN  Timed(IF s.irq /\ Bit(s.psu, II) = 0 THEN Interrupt(s)
              ELSE IF s.halted THEN [s |-> s, k |-> 6]
              ELSE Execute(Fetch(s)))

=============================================================================
