----------------------------- MODULE CpuProofs -----------------------------
(***************************************************************************)
(* What is true of the 2650 whatever the bus it drives: one step of it     *)
(* (an instruction, an interrupt entry, a halted cycle) keeps every        *)
(* register within its width and takes 6 to 18 clocks.                     *)
(***************************************************************************)
EXTENDS Cpu, TLAPS

(***************************************************************************)
(* Bits of bytes.                                                          *)
(***************************************************************************)

Masks == {1, 2, 4, 8, 16, 32, 64, 128}

\* A bit is 0 or 1, and a byte is the sum of its bits.
LEMMA ByteIs ==
    ASSUME NEW v \in Byte
    PROVE  /\ \A m \in Masks : Bit(v, m) \in {0, 1}
           /\ v = Bit(v, 1) + 2 * Bit(v, 2) + 4 * Bit(v, 4) + 8 * Bit(v, 8)
                  + 16 * Bit(v, 16) + 32 * Bit(v, 32) + 64 * Bit(v, 64) + 128 * Bit(v, 128)
BY DEF Bit, Byte, Masks

\* The bits of a sum of bits.
LEMMA BitsOf ==
    ASSUME NEW a \in 0 .. 1, NEW b \in 0 .. 1, NEW c \in 0 .. 1, NEW d \in 0 .. 1,
           NEW e \in 0 .. 1, NEW f \in 0 .. 1, NEW g \in 0 .. 1, NEW h \in 0 .. 1
    PROVE  LET v == a + 2 * b + 4 * c + 8 * d + 16 * e + 32 * f + 64 * g + 128 * h
           IN  /\ v \in Byte
               /\ Bit(v, 1) = a /\ Bit(v, 2) = b /\ Bit(v, 4) = c /\ Bit(v, 8) = d
               /\ Bit(v, 16) = e /\ Bit(v, 32) = f /\ Bit(v, 64) = g /\ Bit(v, 128) = h
BY DEF Bit, Byte

\* And, bit by bit.
LEMMA AndIs ==
    ASSUME NEW v \in Byte, NEW w \in Byte
    PROVE  /\ AndBits(v, w) \in Byte
           /\ \A k \in Masks : Bit(AndBits(v, w), k) = Bit(v, k) * Bit(w, k)
<1> DEFINE p(k) == Bit(v, k) * Bit(w, k)
           x == p(1) + 2 * p(2) + 4 * p(4) + 8 * p(8) + 16 * p(16) + 32 * p(32)
                    + 64 * p(64) + 128 * p(128)
<1>1. \A k \in Masks : p(k) \in 0 .. 1
  <2>1. \A k \in Masks : Bit(v, k) \in {0, 1} /\ Bit(w, k) \in {0, 1}
    BY ByteIs
  <2>2. QED
    BY <2>1
<1>2. p(1) * 1 + p(2) * 2 + p(4) * 4 + p(8) * 8 + p(16) * 16 + p(32) * 32 + p(64) * 64
          + p(128) * 128 = AndBits(v, w)
  BY DEF AndBits, Bitwise2
<1> HIDE DEF p
<1>3. /\ p(1) \in 0 .. 1 /\ p(2) \in 0 .. 1 /\ p(4) \in 0 .. 1 /\ p(8) \in 0 .. 1
      /\ p(16) \in 0 .. 1 /\ p(32) \in 0 .. 1 /\ p(64) \in 0 .. 1 /\ p(128) \in 0 .. 1
  BY <1>1 DEF Masks
<1>4. /\ x \in Byte
      /\ Bit(x, 1) = p(1) /\ Bit(x, 2) = p(2) /\ Bit(x, 4) = p(4) /\ Bit(x, 8) = p(8)
      /\ Bit(x, 16) = p(16) /\ Bit(x, 32) = p(32) /\ Bit(x, 64) = p(64)
      /\ Bit(x, 128) = p(128)
  BY <1>3, BitsOf
<1>5. x = AndBits(v, w)
  BY <1>2, <1>3
<1> HIDE DEF x
<1>6. AndBits(v, w) \in Byte /\ \A k \in Masks : Bit(AndBits(v, w), k) = p(k)
  BY <1>4, <1>5 DEF Masks
<1>7. QED
  BY <1>6 DEF p

\* Or, bit by bit.
LEMMA OrIs ==
    ASSUME NEW v \in Byte, NEW w \in Byte
    PROVE  /\ OrBits(v, w) \in Byte
           /\ \A k \in Masks : Bit(OrBits(v, w), k) = Bit(v, k) + Bit(w, k) - Bit(v, k) * Bit(w, k)
<1> DEFINE p(k) == Bit(v, k) + Bit(w, k) - Bit(v, k) * Bit(w, k)
           x == p(1) + 2 * p(2) + 4 * p(4) + 8 * p(8) + 16 * p(16) + 32 * p(32)
                    + 64 * p(64) + 128 * p(128)
<1>1. \A k \in Masks : p(k) \in 0 .. 1
  <2>1. \A k \in Masks : Bit(v, k) \in {0, 1} /\ Bit(w, k) \in {0, 1}
    BY ByteIs
  <2>2. QED
    BY <2>1
<1>2. p(1) * 1 + p(2) * 2 + p(4) * 4 + p(8) * 8 + p(16) * 16 + p(32) * 32 + p(64) * 64
          + p(128) * 128 = OrBits(v, w)
  BY DEF OrBits, Bitwise2
<1> HIDE DEF p
<1>3. /\ p(1) \in 0 .. 1 /\ p(2) \in 0 .. 1 /\ p(4) \in 0 .. 1 /\ p(8) \in 0 .. 1
      /\ p(16) \in 0 .. 1 /\ p(32) \in 0 .. 1 /\ p(64) \in 0 .. 1 /\ p(128) \in 0 .. 1
  BY <1>1 DEF Masks
<1>4. /\ x \in Byte
      /\ Bit(x, 1) = p(1) /\ Bit(x, 2) = p(2) /\ Bit(x, 4) = p(4) /\ Bit(x, 8) = p(8)
      /\ Bit(x, 16) = p(16) /\ Bit(x, 32) = p(32) /\ Bit(x, 64) = p(64)
      /\ Bit(x, 128) = p(128)
  BY <1>3, BitsOf
<1>5. x = OrBits(v, w)
  BY <1>2, <1>3
<1> HIDE DEF x
<1>6. OrBits(v, w) \in Byte /\ \A k \in Masks : Bit(OrBits(v, w), k) = p(k)
  BY <1>4, <1>5 DEF Masks
<1>7. QED
  BY <1>6 DEF p

\* Exclusive or, bit by bit.
LEMMA XorIs ==
    ASSUME NEW v \in Byte, NEW w \in Byte
    PROVE  /\ XorBits(v, w) \in Byte
           /\ \A k \in Masks : Bit(XorBits(v, w), k) = (Bit(v, k) + Bit(w, k)) % 2
<1> DEFINE p(k) == (Bit(v, k) + Bit(w, k)) % 2
           x == p(1) + 2 * p(2) + 4 * p(4) + 8 * p(8) + 16 * p(16) + 32 * p(32)
                    + 64 * p(64) + 128 * p(128)
<1>1. \A k \in Masks : p(k) \in 0 .. 1
  <2>1. \A k \in Masks : Bit(v, k) \in {0, 1} /\ Bit(w, k) \in {0, 1}
    BY ByteIs
  <2>2. QED
    BY <2>1
<1>2. p(1) * 1 + p(2) * 2 + p(4) * 4 + p(8) * 8 + p(16) * 16 + p(32) * 32 + p(64) * 64
          + p(128) * 128 = XorBits(v, w)
  BY DEF XorBits, Bitwise2
<1> HIDE DEF p
<1>3. /\ p(1) \in 0 .. 1 /\ p(2) \in 0 .. 1 /\ p(4) \in 0 .. 1 /\ p(8) \in 0 .. 1
      /\ p(16) \in 0 .. 1 /\ p(32) \in 0 .. 1 /\ p(64) \in 0 .. 1 /\ p(128) \in 0 .. 1
  BY <1>1 DEF Masks
<1>4. /\ x \in Byte
      /\ Bit(x, 1) = p(1) /\ Bit(x, 2) = p(2) /\ Bit(x, 4) = p(4) /\ Bit(x, 8) = p(8)
      /\ Bit(x, 16) = p(16) /\ Bit(x, 32) = p(32) /\ Bit(x, 64) = p(64)
      /\ Bit(x, 128) = p(128)
  BY <1>3, BitsOf
<1>5. x = XorBits(v, w)
  BY <1>2, <1>3
<1> HIDE DEF x
<1>6. XorBits(v, w) \in Byte /\ \A k \in Masks : Bit(XorBits(v, w), k) = p(k)
  BY <1>4, <1>5 DEF Masks
<1>7. QED
  BY <1>6 DEF p

\* Clearing the bits of a mask clears those bits only.
LEMMA WithoutIs ==
    ASSUME NEW v \in Byte, NEW w \in Byte
    PROVE  /\ Without(v, w) \in Byte
           /\ \A k \in Masks : Bit(Without(v, w), k) = Bit(v, k) * (1 - Bit(w, k))
<1> DEFINE q == AndBits(v, w)
           p(k) == Bit(v, k) - Bit(q, k)
           x == p(1) + 2 * p(2) + 4 * p(4) + 8 * p(8) + 16 * p(16) + 32 * p(32)
                    + 64 * p(64) + 128 * p(128)
<1>1. q \in Byte /\ \A k \in Masks : Bit(q, k) = Bit(v, k) * Bit(w, k)
  BY AndIs
<1> HIDE DEF q
<1>2. \A k \in Masks : p(k) \in 0 .. 1 /\ p(k) = Bit(v, k) * (1 - Bit(w, k))
  <2>1. \A k \in Masks : Bit(v, k) \in {0, 1} /\ Bit(w, k) \in {0, 1}
    BY ByteIs
  <2>2. QED
    BY <1>1, <2>1
<1>3. x = v - q
  <2>1. v = Bit(v, 1) + 2 * Bit(v, 2) + 4 * Bit(v, 4) + 8 * Bit(v, 8)
                + 16 * Bit(v, 16) + 32 * Bit(v, 32) + 64 * Bit(v, 64) + 128 * Bit(v, 128)
    BY ByteIs
  <2>2. q = Bit(q, 1) + 2 * Bit(q, 2) + 4 * Bit(q, 4) + 8 * Bit(q, 8)
                + 16 * Bit(q, 16) + 32 * Bit(q, 32) + 64 * Bit(q, 64) + 128 * Bit(q, 128)
    BY <1>1, ByteIs
  <2>3. \A k \in Masks : Bit(v, k) \in Int /\ Bit(q, k) \in Int
    BY <1>1, ByteIs
  <2>4. /\ Bit(v, 1) \in Int /\ Bit(v, 2) \in Int /\ Bit(v, 4) \in Int /\ Bit(v, 8) \in Int
        /\ Bit(v, 16) \in Int /\ Bit(v, 32) \in Int /\ Bit(v, 64) \in Int /\ Bit(v, 128) \in Int
        /\ Bit(q, 1) \in Int /\ Bit(q, 2) \in Int /\ Bit(q, 4) \in Int /\ Bit(q, 8) \in Int
        /\ Bit(q, 16) \in Int /\ Bit(q, 32) \in Int /\ Bit(q, 64) \in Int /\ Bit(q, 128) \in Int
    BY <2>3 DEF Masks
  <2>5. QED
    BY <2>1, <2>2, <2>4
<1> HIDE DEF p
<1>4. /\ p(1) \in 0 .. 1 /\ p(2) \in 0 .. 1 /\ p(4) \in 0 .. 1 /\ p(8) \in 0 .. 1
      /\ p(16) \in 0 .. 1 /\ p(32) \in 0 .. 1 /\ p(64) \in 0 .. 1 /\ p(128) \in 0 .. 1
  BY <1>2 DEF Masks
<1>5. /\ x \in Byte
      /\ Bit(x, 1) = p(1) /\ Bit(x, 2) = p(2) /\ Bit(x, 4) = p(4) /\ Bit(x, 8) = p(8)
      /\ Bit(x, 16) = p(16) /\ Bit(x, 32) = p(32) /\ Bit(x, 64) = p(64)
      /\ Bit(x, 128) = p(128)
  BY <1>4, BitsOf
<1> HIDE DEF x
<1>6. Without(v, w) = x
  BY <1>3 DEF Without, q
<1>7. QED
  BY <1>2, <1>5, <1>6 DEF Masks

\* Setting a bit sets that bit only.
LEMMA SetBitIs ==
    ASSUME NEW v \in Byte, NEW m \in Masks, NEW b \in {0, 1}, NEW n \in Masks
    PROVE  /\ SetBit(v, m, b) \in Byte
           /\ Bit(SetBit(v, m, b), n) = IF n = m THEN b ELSE Bit(v, n)
<1> DEFINE p(k) == IF k = m THEN b ELSE Bit(v, k)
           x == p(1) + 2 * p(2) + 4 * p(4) + 8 * p(8) + 16 * p(16) + 32 * p(32)
                    + 64 * p(64) + 128 * p(128)
<1>1. \A k \in Masks : Bit(v, k) \in {0, 1} /\ p(k) \in 0 .. 1
  BY ByteIs
<1>2. x = v + (b - Bit(v, m)) * m
  <2>1. /\ v \in Int /\ b \in Int
        /\ \A k \in Masks : Bit(v, k) \in Int
        /\ v = Bit(v, 1) + 2 * Bit(v, 2) + 4 * Bit(v, 4) + 8 * Bit(v, 8)
                   + 16 * Bit(v, 16) + 32 * Bit(v, 32) + 64 * Bit(v, 64) + 128 * Bit(v, 128)
    BY <1>1, ByteIs DEF Byte
  <2>2. CASE m = 1
    BY <2>1, <2>2 DEF Masks
  <2>3. CASE m = 2
    BY <2>1, <2>3 DEF Masks
  <2>4. CASE m = 4
    BY <2>1, <2>4 DEF Masks
  <2>5. CASE m = 8
    BY <2>1, <2>5 DEF Masks
  <2>6. CASE m = 16
    BY <2>1, <2>6 DEF Masks
  <2>7. CASE m = 32
    BY <2>1, <2>7 DEF Masks
  <2>8. CASE m = 64
    BY <2>1, <2>8 DEF Masks
  <2>9. CASE m = 128
    BY <2>1, <2>9 DEF Masks
  <2>10. QED
    BY <2>2, <2>3, <2>4, <2>5, <2>6, <2>7, <2>8, <2>9 DEF Masks
<1> HIDE DEF p
<1>3. /\ p(1) \in 0 .. 1 /\ p(2) \in 0 .. 1 /\ p(4) \in 0 .. 1 /\ p(8) \in 0 .. 1
      /\ p(16) \in 0 .. 1 /\ p(32) \in 0 .. 1 /\ p(64) \in 0 .. 1 /\ p(128) \in 0 .. 1
  BY <1>1 DEF Masks
<1>4. /\ x \in Byte
      /\ Bit(x, 1) = p(1) /\ Bit(x, 2) = p(2) /\ Bit(x, 4) = p(4) /\ Bit(x, 8) = p(8)
      /\ Bit(x, 16) = p(16) /\ Bit(x, 32) = p(32) /\ Bit(x, 64) = p(64)
      /\ Bit(x, 128) = p(128)
  BY <1>3, BitsOf
<1> HIDE DEF x
<1>5. SetBit(v, m, b) = x
  BY <1>2 DEF SetBit
<1>6. SetBit(v, m, b) \in Byte /\ \A k \in Masks : Bit(SetBit(v, m, b), k) = p(k)
  BY <1>4, <1>5 DEF Masks
<1>7. QED
  BY <1>6 DEF p

\* An address is a number of fifteen bits.
Top == 32767

\* The addresses, with their end as a number the solver need not count to.
LEMMA AddressIs ==
    \A a : a \in Address <=> a \in Int /\ 0 <= a /\ a < 32768
<1>1. Address = 0 .. Top
  BY SMT DEF Address, Top
<1>2. Top \in Int /\ Top + 1 = 32768
  BY SMT DEF Top
<1>3. QED
  BY <1>1, <1>2, SMT

(***************************************************************************)
(* Types.                                                                  *)
(***************************************************************************)

\* Bits 3 and 4 of PSU do not exist, and SENSE is not stored in it.
Psu == {v \in Byte : Bit(v, 8) = 0 /\ Bit(v, 16) = 0 /\ Bit(v, 128) = 0}

\* A CPU on a bus of a set of buses, its clock at now; and what an instruction
\* leaves before its clocks are counted.
Cpus(Bus, now) ==
    [ r : [0 .. 6 -> Byte], psl : Byte, psu : Psu, pc : Address,
      ras : [0 .. 7 -> Address], halted : BOOLEAN, irq : BOOLEAN,
      clocks : {now}, illegal : Nat, bus : Bus ]

Turns(Bus, now) == [s : Cpus(Bus, now), k : 6 .. 18]

\* Two bytes as a number.
Pair == {n \in Nat : n < 65536}

\* Two bytes make a 16-bit word.
LEMMA PairType ==
    ASSUME NEW a \in Byte, NEW b \in Byte
    PROVE  256 * a + b \in Pair
BY SMT DEF Byte, Pair

\* A bus that answers bytes, and bits of SENSE, and stays one.
BusOK(Bus) ==
    \A b \in Bus :
        /\ \A a \in Address : BusRead(b, a).v \in Byte /\ BusRead(b, a).bus \in Bus
        /\ \A a \in Address, v \in Byte : BusWrite(b, a, v) \in Bus
        /\ BusSense(b) \in [v : {0, 1}, bus : Bus]
        /\ \A level \in {0, 1} : BusFlag(b, level) \in Bus
        /\ IntAck(b) \in Byte

\* The parts of a CPU.
LEMMA Parts ==
    ASSUME NEW Bus, NEW now \in Nat, NEW s \in Cpus(Bus, now)
    PROVE  /\ s.r \in [0 .. 6 -> Byte] /\ s.psl \in Byte /\ s.psu \in Psu
           /\ s.pc \in Address /\ s.ras \in [0 .. 7 -> Address]
           /\ s.halted \in BOOLEAN /\ s.irq \in BOOLEAN
           /\ s.clocks = now /\ s.illegal \in Nat /\ s.bus \in Bus
BY DEF Cpus

\* A byte counted up or down wraps to a byte.
LEMMA CountType == \A v \in Byte : (v + 1) % 256 \in Byte /\ (v - 1) % 256 \in Byte
BY DEF Byte

\* A register holds a byte.
LEMMA RegisterIn ==
    ASSUME NEW Bus, NEW now \in Nat, NEW s \in Cpus(Bus, now), NEW i \in 0 .. 6
    PROVE  s.r[i] \in Byte
BY DEF Cpus

(***************************************************************************)
(* A CPU with a part replaced is a CPU.                                    *)
(***************************************************************************)

\* ... with another pc,
LEMMA WithPc ==
    ASSUME NEW Bus, NEW now \in Nat, NEW s \in Cpus(Bus, now), NEW a \in Address
    PROVE  [s EXCEPT !.pc = a] \in Cpus(Bus, now)
BY DEF Cpus

\* ... another bus,
LEMMA WithBus ==
    ASSUME NEW Bus, NEW now \in Nat, NEW s \in Cpus(Bus, now), NEW b \in Bus
    PROVE  [s EXCEPT !.bus = b] \in Cpus(Bus, now)
BY DEF Cpus

\* ... another byte in a register,
LEMMA WithRegister ==
    ASSUME NEW Bus, NEW now \in Nat, NEW s \in Cpus(Bus, now), NEW i \in 0 .. 6, NEW v \in Byte
    PROVE  [s EXCEPT !.r[i] = v] \in Cpus(Bus, now)
BY DEF Cpus

\* ... another PSL,
LEMMA WithPsl ==
    ASSUME NEW Bus, NEW now \in Nat, NEW s \in Cpus(Bus, now), NEW v \in Byte
    PROVE  [s EXCEPT !.psl = v] \in Cpus(Bus, now)
BY DEF Cpus

\* ... another PSU whose unwired bits are clear,
LEMMA WithPsu ==
    ASSUME NEW Bus, NEW now \in Nat, NEW s \in Cpus(Bus, now), NEW v \in Psu
    PROVE  [s EXCEPT !.psu = v] \in Cpus(Bus, now)
BY DEF Cpus

\* ... halted or not,
LEMMA WithHalted ==
    ASSUME NEW Bus, NEW now \in Nat, NEW s \in Cpus(Bus, now), NEW b \in BOOLEAN
    PROVE  [s EXCEPT !.halted = b] \in Cpus(Bus, now)
BY DEF Cpus

\* ... a request pending or not,
LEMMA WithIrq ==
    ASSUME NEW Bus, NEW now \in Nat, NEW s \in Cpus(Bus, now), NEW b \in BOOLEAN
    PROVE  [s EXCEPT !.irq = b] \in Cpus(Bus, now)
BY DEF Cpus

\* ... an illegal opcode recorded or not,
LEMMA WithIllegal ==
    ASSUME NEW Bus, NEW now \in Nat, NEW s \in Cpus(Bus, now), NEW n \in Nat
    PROVE  [s EXCEPT !.illegal = n] \in Cpus(Bus, now)
BY DEF Cpus

\* ... or another clock, counted from then on.
LEMMA WithClocks ==
    ASSUME NEW Bus, NEW now \in Nat, NEW s \in Cpus(Bus, now), NEW n \in Nat
    PROVE  [s EXCEPT !.clocks = n] \in Cpus(Bus, n)
BY DEF Cpus

(***************************************************************************)
(* Reset, and the register the bank switch names.                          *)
(***************************************************************************)

\* A new CPU is a CPU, and so is one that is reset.
LEMMA NewType ==
    ASSUME NEW Bus, NEW b \in Bus
    PROVE  NewCpu(b) \in Cpus(Bus, 0)
<1>1. 0 \in Psu /\ 0 \in Byte /\ 0 \in Address
  BY AddressIs DEF Psu, Bit, Byte
<1>2. QED
  BY <1>1 DEF NewCpu, Cpus

\* Reset: a new CPU whose clock is 0.
LEMMA ResetType ==
    ASSUME NEW Bus, NEW now \in Nat, NEW s \in Cpus(Bus, now)
    PROVE  CpuReset(s) \in Cpus(Bus, 0)
BY NewType, Parts DEF CpuReset

\* The bank switch names one of the seven registers.
LEMMA RegisterType ==
    ASSUME NEW Bus, NEW now \in Nat, NEW s \in Cpus(Bus, now), NEW n \in 0 .. 3
    PROVE  Ri(s, n) \in 0 .. 6 /\ Reg(s, n) \in Byte
<1>1. Ri(s, n) \in 0 .. 6
  BY DEF Ri
<1>2. QED
  BY <1>1, RegisterIn DEF Reg

(***************************************************************************)
(* Addresses.                                                              *)
(***************************************************************************)

\* An address stays in its 8 KB page.
LEMMA InPageType ==
    ASSUME NEW a \in Address, NEW d \in Int
    PROVE  InPage(a, d) \in Address
<1> DEFINE page == a \div 8192
           x == (a + d) % 8192
<1>1. page \in 0 .. 3 /\ x \in Int /\ 0 <= x /\ x < 8192
  BY AddressIs
<1>2. InPage(a, d) = page * 8192 + x
  BY DEF InPage
<1> HIDE DEF page, x
<1>3. QED
  BY <1>1, <1>2, AddressIs

\* A displacement is an integer, and an offset within a page when reduced.
LEMMA DispType ==
    ASSUME NEW b \in Byte
    PROVE  Disp(b) \in Int /\ Disp(b) % 8192 \in Address
<1>1. Disp(b) \in Int
  BY DEF Disp, Byte
<1>2. QED
  BY <1>1, AddressIs

\* A byte read, and the CPU that read it.
LEMMA TookType ==
    ASSUME NEW Bus, NEW now \in Nat, NEW s \in Cpus(Bus, now), NEW q, q.v \in Byte, q.bus \in Bus
    PROVE  Took(s, q).v \in Byte /\ Took(s, q).s \in Cpus(Bus, now)
<1>1. [s EXCEPT !.bus = q.bus] \in Cpus(Bus, now)
  BY WithBus
<1>2. QED
  BY <1>1 DEF Took

\* One read: a byte, and a CPU.
LEMMA ReadType ==
    ASSUME NEW Bus, NEW now \in Nat, BusOK(Bus), NEW s \in Cpus(Bus, now), NEW a \in Address
    PROVE  ReadAt(s, a).v \in Byte /\ ReadAt(s, a).s \in Cpus(Bus, now)
<1> DEFINE q == BusRead(s.bus, a)
<1>1. q.v \in Byte /\ q.bus \in Bus
  BY Parts DEF BusOK
<1>2. ReadAt(s, a) = Took(s, q)
  BY DEF ReadAt
<1> HIDE DEF q
<1>3. QED
  BY <1>1, <1>2, TookType

\* One fetch: a byte, and a CPU whose pc has moved within its page.
LEMMA FetchType ==
    ASSUME NEW Bus, NEW now \in Nat, BusOK(Bus), NEW s \in Cpus(Bus, now)
    PROVE  Fetch(s).v \in Byte /\ Fetch(s).s \in Cpus(Bus, now)
<1> DEFINE q == BusRead(s.bus, s.pc)
           a == InPage(s.pc, 1)
           t == [s EXCEPT !.pc = a]
<1>1. s.pc \in Address /\ a \in Address
  BY Parts, InPageType
<1>2. q.v \in Byte /\ q.bus \in Bus
  BY <1>1, Parts DEF BusOK
<1>3. Fetch(s) = Took(t, q)
  BY DEF Fetch
<1> HIDE DEF q, a
<1>4. t \in Cpus(Bus, now)
  BY <1>1, WithPc
<1> HIDE DEF t
<1>5. QED
  BY <1>2, <1>3, <1>4, TookType

\* Two fetches make a word.
LEMMA FetchPairType ==
    ASSUME NEW Bus, NEW now \in Nat, BusOK(Bus), NEW s \in Cpus(Bus, now)
    PROVE  FetchPair(s).v \in Pair /\ FetchPair(s).s \in Cpus(Bus, now)
<1> DEFINE hi == Fetch(s)
           lo == Fetch(hi.s)
<1>1. hi.v \in Byte /\ hi.s \in Cpus(Bus, now)
  BY FetchType
<1> HIDE DEF hi
<1>2. lo.v \in Byte /\ lo.s \in Cpus(Bus, now)
  BY <1>1, FetchType
<1>3. FetchPair(s) = [v |-> 256 * hi.v + lo.v, s |-> lo.s]
  BY DEF FetchPair, Word, hi
<1> HIDE DEF lo
<1>4. 256 * hi.v + lo.v \in Pair
  BY <1>1, <1>2, PairType
<1>5. QED
  BY <1>2, <1>3, <1>4

\* Two reads make a word.
LEMMA ReadPairType ==
    ASSUME NEW Bus, NEW now \in Nat, BusOK(Bus), NEW s \in Cpus(Bus, now), NEW a \in Address
    PROVE  ReadPair(s, a).v \in Pair /\ ReadPair(s, a).s \in Cpus(Bus, now)
<1> DEFINE hi == ReadAt(s, a)
           lo == ReadAt(hi.s, InPage(a, 1))
<1>1. hi.v \in Byte /\ hi.s \in Cpus(Bus, now)
  BY ReadType
<1>2. InPage(a, 1) \in Address
  BY InPageType
<1> HIDE DEF hi
<1>3. lo.v \in Byte /\ lo.s \in Cpus(Bus, now)
  BY <1>1, <1>2, ReadType
<1>4. ReadPair(s, a) = [v |-> 256 * hi.v + lo.v, s |-> lo.s]
  BY DEF ReadPair, Word, hi
<1> HIDE DEF lo
<1>5. 256 * hi.v + lo.v \in Pair
  BY <1>1, <1>3, PairType
<1>6. QED
  BY <1>3, <1>4, <1>5

\* An effective address, the clocks its indirection took, and the CPU.
Effective(Bus, now) == [ea : Address, k : {0, 6}, s : Cpus(Bus, now)]

\* An indirect address is an address.
LEMMA DerefType ==
    ASSUME NEW Bus, NEW now \in Nat, BusOK(Bus), NEW s \in Cpus(Bus, now),
           NEW ea \in Address, NEW indirect
    PROVE  Deref(s, ea, indirect) \in Effective(Bus, now)
<1> DEFINE w == ReadPair(s, ea)
<1>1. w.v \in Pair /\ w.s \in Cpus(Bus, now)
  BY ReadPairType
<1>2. Deref(s, ea, indirect) = IF indirect THEN [ea |-> w.v % 32768, k |-> 6, s |-> w.s]
                               ELSE [ea |-> ea, k |-> 0, s |-> s]
  BY DEF Deref
<1> HIDE DEF w
<1>3. w.v % 32768 \in Address
  BY <1>1, AddressIs DEF Pair
<1>4. QED
  BY <1>1, <1>2, <1>3 DEF Effective

\* A relative operand's address.
LEMMA RelEaType ==
    ASSUME NEW Bus, NEW now \in Nat, BusOK(Bus), NEW s \in Cpus(Bus, now), NEW zero \in BOOLEAN
    PROVE  RelEa(s, zero) \in Effective(Bus, now)
<1> DEFINE d == Fetch(s)
           ea == IF zero THEN Disp(d.v) % 8192 ELSE InPage(d.s.pc, Disp(d.v))
           indirect == d.v >= 128
<1>1. d.v \in Byte /\ d.s \in Cpus(Bus, now)
  BY FetchType
<1>2. RelEa(s, zero) = Deref(d.s, ea, indirect)
  BY DEF RelEa
<1> HIDE DEF d, indirect
<1>3. ea \in Address
  <2>1. d.s.pc \in Address
    BY <1>1, Parts
  <2>2. QED
    BY <1>1, <2>1, DispType, InPageType
<1> HIDE DEF ea
<1>4. QED
  BY <1>1, <1>2, <1>3, DerefType

\* A branch's target is an address.
LEMMA BranchEaType ==
    ASSUME NEW Bus, NEW now \in Nat, BusOK(Bus), NEW s \in Cpus(Bus, now)
    PROVE  BranchEa(s) \in Effective(Bus, now)
<1> DEFINE w == FetchPair(s)
           indirect == w.v >= 32768
<1>1. w.v \in Pair /\ w.s \in Cpus(Bus, now)
  BY FetchPairType
<1>2. BranchEa(s) = Deref(w.s, w.v % 32768, indirect)
  BY DEF BranchEa
<1> HIDE DEF w, indirect
<1>3. w.v % 32768 \in Address
  BY <1>1, AddressIs DEF Pair
<1>4. QED
  BY <1>1, <1>2, <1>3, DerefType

\* With the register it is of.
Operands(Bus, now) == [d : 0 .. 6, ea : Address, k : {0, 6}, s : Cpus(Bus, now)]

\* An index register steps within a byte, and the address within its page.
LEMMA IndexedType ==
    ASSUME NEW Bus, NEW now \in Nat, NEW e \in Effective(Bus, now), NEW x \in 0 .. 6,
           NEW mode \in 0 .. 3
    PROVE  Indexed(e, x, mode) \in Operands(Bus, now)
<1> DEFINE i == e.s.r[x]
           index == IF mode = 1 THEN (i + 1) % 256
                    ELSE IF mode = 2 THEN (i - 1) % 256 ELSE i
<1>1. e.s \in Cpus(Bus, now) /\ i \in Byte /\ e.ea \in Address /\ e.k \in {0, 6}
  BY RegisterIn DEF Effective
<1>2. Indexed(e, x, mode) =
          IF mode = 0 THEN [d |-> x, ea |-> e.ea, k |-> e.k, s |-> e.s]
          ELSE [d |-> 0, ea |-> InPage(e.ea, index), k |-> e.k,
                s |-> [e.s EXCEPT !.r[x] = index]]
  BY DEF Indexed
<1> HIDE DEF i
<1>3. index \in Byte
  BY <1>1 DEF Byte
<1> HIDE DEF index
<1>4. InPage(e.ea, index) \in Address
  BY <1>1, <1>3, InPageType DEF Byte
<1>5. [e.s EXCEPT !.r[x] = index] \in Cpus(Bus, now)
  BY <1>1, <1>3, WithRegister
<1>6. QED
  BY <1>1, <1>2, <1>4, <1>5 DEF Operands

\* An absolute operand's address, index and register.
LEMMA AbsEaType ==
    ASSUME NEW Bus, NEW now \in Nat, BusOK(Bus), NEW s \in Cpus(Bus, now), NEW n \in 0 .. 3
    PROVE  AbsEa(s, n) \in Operands(Bus, now)
<1> DEFINE w == FetchPair(s)
           ea == (w.s.pc \div 8192) * 8192 + (w.v % 8192)
           indirect == w.v >= 32768
           mode == (w.v \div 8192) % 4
<1>1. w.v \in Pair /\ w.s \in Cpus(Bus, now)
  BY FetchPairType
<1>2. AbsEa(s, n) = Indexed(Deref(w.s, ea, indirect), Ri(s, n), mode)
  BY DEF AbsEa
<1> HIDE DEF w
<1>3. ea \in Address
  <2>1. w.s.pc \in Address
    BY <1>1, Parts
  <2>2. QED
    BY <1>1, <2>1, AddressIs DEF Pair
<1>4. mode \in 0 .. 3
  BY <1>1 DEF Pair
<1> HIDE DEF ea, indirect, mode
<1>5. Deref(w.s, ea, indirect) \in Effective(Bus, now)
  BY <1>1, <1>3, DerefType
<1>6. QED
  BY <1>2, <1>4, <1>5, RegisterType, IndexedType

\* A register, the operand it is combined with, and the clocks so far.
Operation(Bus, now) == [d : 0 .. 6, v : Byte, k : 6 .. 18, s : Cpus(Bus, now)]

\* The four addressing modes of an operand.
LEMMA OperandType ==
    ASSUME NEW Bus, NEW now \in Nat, BusOK(Bus), NEW s \in Cpus(Bus, now), NEW op \in Byte
    PROVE  Operand(s, op) \in Operation(Bus, now)
<1> DEFINE n == op % 4
           x == Ri(s, n)
           mode == (op \div 4) % 4
           f == Fetch(s)
           e == RelEa(s, FromHere)
           g == AbsEa(s, n)
           eq == ReadAt(e.s, e.ea)
           gq == ReadAt(g.s, g.ea)
<1>1. n \in 0 .. 3 /\ mode \in 0 .. 3
  BY DEF Byte
<1>2. x \in 0 .. 6
  BY <1>1, RegisterType
<1>3. s.r[x] \in Byte
  BY <1>2, RegisterIn
<1>4. f.v \in Byte /\ f.s \in Cpus(Bus, now)
  BY FetchType
<1>5. e \in Effective(Bus, now)
  BY RelEaType DEF FromHere
<1>6. g \in Operands(Bus, now)
  BY <1>1, AbsEaType
<1>7. /\ mode = 0 => Operand(s, op) = [d |-> 0, v |-> s.r[x], k |-> 6, s |-> s]
      /\ mode = 1 => Operand(s, op) = [d |-> x, v |-> f.v, k |-> 6, s |-> f.s]
      /\ mode = 2 => Operand(s, op) = [d |-> x, v |-> eq.v, k |-> 9 + e.k, s |-> eq.s]
      /\ mode = 3 => Operand(s, op) = [d |-> g.d, v |-> gq.v, k |-> 12 + g.k, s |-> gq.s]
  BY DEF Operand
<1> HIDE DEF n, x, mode, f, e, g
<1>8. e.ea \in Address /\ e.k \in {0, 6} /\ e.s \in Cpus(Bus, now)
  BY <1>5 DEF Effective
<1>9. g.d \in 0 .. 6 /\ g.ea \in Address /\ g.k \in {0, 6} /\ g.s \in Cpus(Bus, now)
  BY <1>6 DEF Operands
<1>10. eq.v \in Byte /\ eq.s \in Cpus(Bus, now) /\ gq.v \in Byte /\ gq.s \in Cpus(Bus, now)
  BY <1>8, <1>9, ReadType
<1> HIDE DEF eq, gq
<1>11. 9 + e.k \in 6 .. 18 /\ 12 + g.k \in 6 .. 18
  BY <1>8, <1>9
<1>12. QED
  BY <1>1, <1>2, <1>3, <1>4, <1>7, <1>9, <1>10, <1>11 DEF Operation

(***************************************************************************)
(* Arithmetic keeps the registers and PSL bytes.                           *)
(***************************************************************************)

\* The condition code is two bits of PSL.
LEMMA SetCCType ==
    ASSUME NEW psl \in Byte, NEW cc \in 0 .. 3
    PROVE  SetCC(psl, cc) \in Byte
BY DEF SetCC, Byte

\* A condition code is two bits.
LEMMA CcOfType ==
    ASSUME NEW v \in Byte
    PROVE  CcOf(v) \in 0 .. 3
BY DEF CcOf, Byte

\* Loading a register sets the condition code.
LEMMA LoadType ==
    ASSUME NEW Bus, NEW now \in Nat, NEW s \in Cpus(Bus, now), NEW d \in 0 .. 6, NEW v \in Byte
    PROVE  Load(s, d, v) \in Cpus(Bus, now)
<1> DEFINE psl == SetCC(s.psl, CcOf(v))
<1>1. psl \in Byte
  BY Parts, SetCCType, CcOfType
<1>2. Load(s, d, v) = [s EXCEPT !.r[d] = v, !.psl = psl]
  BY DEF Load
<1> HIDE DEF psl
<1>3. [s EXCEPT !.r[d] = v, !.psl = psl] \in Cpus(Bus, now)
  BY <1>1 DEF Cpus
<1>4. QED
  BY <1>2, <1>3

\* The flags of PSL.
LEMMA FlagBits ==
    ASSUME NEW psl \in Byte
    PROVE  /\ Bit(psl, CARRY) \in {0, 1} /\ Bit(psl, WC) \in {0, 1}
           /\ Bit(psl, COM) \in {0, 1} /\ Bit(psl, IDC) \in {0, 1}
BY ByteIs DEF Masks, CARRY, WC, COM, IDC

\* Setting C, IDC and OVF leaves PSL a byte.
LEMMA SetFlagsType ==
    ASSUME NEW psl \in Byte, NEW c \in {0, 1}, NEW idc \in {0, 1}, NEW ovf \in {0, 1}
    PROVE  SetFlags(psl, c, idc, ovf) \in Byte
<1> DEFINE p == SetBit(psl, CARRY, c)
           q == SetBit(p, IDC, idc)
<1>1. CARRY \in Masks /\ IDC \in Masks /\ OVF \in Masks
  BY DEF CARRY, IDC, OVF, Masks
<1>2. p \in Byte
  BY <1>1, SetBitIs
<1>3. SetFlags(psl, c, idc, ovf) = SetBit(q, OVF, ovf)
  BY DEF SetFlags
<1> HIDE DEF p
<1>4. q \in Byte
  BY <1>1, <1>2, SetBitIs
<1> HIDE DEF q
<1>5. QED
  BY <1>1, <1>3, <1>4, SetBitIs

\* A bit of the exclusive or of bytes, and a product of two such bits.
LEMMA XorBit ==
    ASSUME NEW a \in Byte, NEW b \in Byte, NEW k \in Masks
    PROVE  Bit(XorBits(a, b), k) \in {0, 1}
BY XorIs, ByteIs

\* ADD leaves a byte, and a CPU.
LEMMA AddType ==
    ASSUME NEW Bus, NEW now \in Nat, NEW s \in Cpus(Bus, now), NEW d \in 0 .. 6, NEW b \in Byte
    PROVE  Add(s, d, b) \in Cpus(Bus, now)
<1> DEFINE a == s.r[d]
           wc == Bit(s.psl, WC)
           cy == Bit(s.psl, CARRY)
           sum == a + b + wc * cy
           v == sum % 256
           x == XorBits(v, a)
           idc == Bit(XorBits(x, b), 16)
           o1 == Bit(XorBits(a, v), 128)
           o2 == Bit(XorBits(b, v), 128)
           ovf == o1 * o2
           c == sum \div 256
           psl == SetFlags(s.psl, c, idc, ovf)
           t == [s EXCEPT !.psl = psl]
<1>1. a \in Byte /\ s.psl \in Byte
  BY Parts, RegisterIn
<1>2. wc \in {0, 1} /\ cy \in {0, 1}
  BY <1>1, FlagBits
<1>3. Add(s, d, b) = Load(t, d, v)
  BY DEF Add
<1> HIDE DEF a, wc, cy
<1>4. v \in Byte /\ c \in {0, 1}
  BY <1>1, <1>2 DEF Byte
<1> HIDE DEF v, c
<1>5. x \in Byte
  BY <1>1, <1>4, XorIs
<1> HIDE DEF x
<1>6. idc \in {0, 1} /\ o1 \in {0, 1} /\ o2 \in {0, 1}
  BY <1>1, <1>4, <1>5, XorBit DEF Masks
<1> HIDE DEF idc, o1, o2
<1>7. ovf \in {0, 1}
  BY <1>6
<1> HIDE DEF ovf
<1>8. psl \in Byte
  BY <1>1, <1>4, <1>6, <1>7, SetFlagsType
<1> HIDE DEF psl
<1>9. t \in Cpus(Bus, now)
  BY <1>8, WithPsl
<1> HIDE DEF t
<1>10. QED
  BY <1>3, <1>4, <1>9, LoadType

\* SUB leaves a byte, and a CPU.
LEMMA SubType ==
    ASSUME NEW Bus, NEW now \in Nat, NEW s \in Cpus(Bus, now), NEW d \in 0 .. 6, NEW b \in Byte
    PROVE  Sub(s, d, b) \in Cpus(Bus, now)
<1> DEFINE a == s.r[d]
           wc == Bit(s.psl, WC)
           cy == Bit(s.psl, CARRY)
           diff == a - b - wc * (1 - cy)
           v == diff % 256
           x == XorBits(v, a)
           i == Bit(XorBits(x, b), 16)
           idc == 1 - i
           o1 == Bit(XorBits(a, b), 128)
           o2 == Bit(XorBits(a, v), 128)
           ovf == o1 * o2
           c == IF diff < 0 THEN 0 ELSE 1
           psl == SetFlags(s.psl, c, idc, ovf)
           t == [s EXCEPT !.psl = psl]
<1>1. a \in Byte /\ s.psl \in Byte
  BY Parts, RegisterIn
<1>2. wc \in {0, 1} /\ cy \in {0, 1}
  BY <1>1, FlagBits
<1>3. Sub(s, d, b) = Load(t, d, v)
  BY DEF Sub
<1> HIDE DEF a, wc, cy
<1>4. v \in Byte /\ c \in {0, 1}
  BY <1>1, <1>2 DEF Byte
<1> HIDE DEF v, c
<1>5. x \in Byte
  BY <1>1, <1>4, XorIs
<1> HIDE DEF x
<1>6. i \in {0, 1} /\ o1 \in {0, 1} /\ o2 \in {0, 1}
  BY <1>1, <1>4, <1>5, XorBit DEF Masks
<1> HIDE DEF i, o1, o2
<1>7. ovf \in {0, 1} /\ idc \in {0, 1}
  BY <1>6
<1> HIDE DEF ovf, idc
<1>8. psl \in Byte
  BY <1>1, <1>4, <1>7, SetFlagsType
<1> HIDE DEF psl
<1>9. t \in Cpus(Bus, now)
  BY <1>8, WithPsl
<1> HIDE DEF t
<1>10. QED
  BY <1>3, <1>4, <1>9, LoadType

\* A comparison and a bit test write the condition code only.
LEMMA CcWriteType ==
    ASSUME NEW Bus, NEW now \in Nat, NEW s \in Cpus(Bus, now), NEW cc \in 0 .. 3
    PROVE  [s EXCEPT !.psl = SetCC(s.psl, cc)] \in Cpus(Bus, now)
<1> DEFINE psl == SetCC(s.psl, cc)
<1>1. psl \in Byte
  BY Parts, SetCCType
<1> HIDE DEF psl
<1>2. [s EXCEPT !.psl = psl] \in Cpus(Bus, now)
  BY <1>1, WithPsl
<1>3. QED
  BY <1>2 DEF psl

\* COM touches nothing but the condition code.
LEMMA ComType ==
    ASSUME NEW Bus, NEW now \in Nat, NEW s \in Cpus(Bus, now), NEW a \in Byte, NEW b \in Byte
    PROVE  Com(s, a, b) \in Cpus(Bus, now)
<1> DEFINE logical == Bit(s.psl, COM) = 1
           x == IF logical THEN a ELSE Signed(a)
           y == IF logical THEN b ELSE Signed(b)
           cc == IF x < y THEN 2 ELSE IF x = y THEN 0 ELSE 1
<1>1. Com(s, a, b) = [s EXCEPT !.psl = SetCC(s.psl, cc)]
  BY DEF Com
<1> HIDE DEF x, y
<1>2. cc \in 0 .. 3
  OBVIOUS
<1> HIDE DEF cc
<1>3. [s EXCEPT !.psl = SetCC(s.psl, cc)] \in Cpus(Bus, now)
  BY <1>2, CcWriteType
<1>4. QED
  BY <1>1, <1>3

\* TMI and TPSL, TPSU touch nothing but the condition code.
LEMMA TestBitsType ==
    ASSUME NEW Bus, NEW now \in Nat, NEW s \in Cpus(Bus, now), NEW v, NEW m
    PROVE  TestBits(s, v, m) \in Cpus(Bus, now)
<1> DEFINE cc == IF AndBits(v, m) = m THEN 0 ELSE 2
<1>1. TestBits(s, v, m) = [s EXCEPT !.psl = SetCC(s.psl, cc)]
  BY DEF TestBits
<1>2. cc \in 0 .. 3
  OBVIOUS
<1> HIDE DEF cc
<1>3. [s EXCEPT !.psl = SetCC(s.psl, cc)] \in Cpus(Bus, now)
  BY <1>2, CcWriteType
<1>4. QED
  BY <1>1, <1>3

\* RRL and RRR leave a byte, and a CPU.
LEMMA RotateType ==
    ASSUME NEW Bus, NEW now \in Nat, NEW s \in Cpus(Bus, now), NEW d \in 0 .. 6,
           NEW left \in BOOLEAN
    PROVE  Rotate(s, d, left) \in Cpus(Bus, now)
<1> DEFINE a == s.r[d]
           wc == Bit(s.psl, WC) = 1
           cy == Bit(s.psl, CARRY)
           out == IF left THEN a \div 128 ELSE a % 2
           in == IF wc THEN cy ELSE out
           v == IF left THEN ((a * 2) % 256) + in ELSE (a \div 2) + 128 * in
           h == Bit(v, 32)
           p == SetBit(s.psl, CARRY, out)
           q == SetBit(p, IDC, h)
           psl == IF wc THEN q ELSE s.psl
           o == Bit(XorBits(v, a), 128)
           w == SetBit(psl, OVF, o)
           t == [s EXCEPT !.psl = w]
<1>1. a \in Byte /\ s.psl \in Byte /\ wc \in BOOLEAN
  BY Parts, RegisterIn
<1>2. cy \in {0, 1}
  BY <1>1, FlagBits
<1>3. Rotate(s, d, left) = Load(t, d, v)
  BY DEF Rotate
<1>4. CARRY \in Masks /\ IDC \in Masks /\ OVF \in Masks /\ 32 \in Masks /\ 128 \in Masks
  BY DEF CARRY, IDC, OVF, Masks
<1> HIDE DEF a, wc, cy
<1>5. out \in {0, 1}
  BY <1>1 DEF Byte
<1> HIDE DEF out
<1>6. in \in {0, 1}
  BY <1>2, <1>5
<1> HIDE DEF in
<1>7. v \in Byte
  BY <1>1, <1>6 DEF Byte
<1> HIDE DEF v
<1>8. h \in {0, 1} /\ o \in {0, 1}
  BY <1>1, <1>4, <1>7, ByteIs, XorBit
<1> HIDE DEF h, o
<1>9. p \in Byte
  BY <1>1, <1>4, <1>5, SetBitIs
<1> HIDE DEF p
<1>10. q \in Byte
  BY <1>4, <1>8, <1>9, SetBitIs
<1> HIDE DEF q
<1>11. psl \in Byte
  BY <1>1, <1>10
<1> HIDE DEF psl
<1>12. w \in Byte
  BY <1>4, <1>8, <1>11, SetBitIs
<1> HIDE DEF w
<1>13. t \in Cpus(Bus, now)
  BY <1>12, WithPsl
<1> HIDE DEF t
<1>14. QED
  BY <1>3, <1>7, <1>13, LoadType

\* A decimal adjust wraps within the byte, and its low digit within the digit.
LEMMA DarType ==
    ASSUME NEW Bus, NEW now \in Nat, NEW s \in Cpus(Bus, now), NEW d \in 0 .. 6
    PROVE  Dar(s, d) \in Cpus(Bus, now)
<1> DEFINE a == s.r[d]
           high == IF Bit(s.psl, CARRY) = 0 THEN (a + 160) % 256 ELSE a
           v == IF Bit(s.psl, IDC) = 0 THEN high - (high % 16) + ((high + 10) % 16) ELSE high
<1>1. a \in Byte
  BY RegisterIn
<1>2. Dar(s, d) = [s EXCEPT !.r[d] = v]
  BY DEF Dar
<1> HIDE DEF a
<1>3. high \in Byte
  BY <1>1 DEF Byte
<1> HIDE DEF high
<1>4. v \in Byte
  BY <1>3 DEF Byte
<1> HIDE DEF v
<1>5. QED
  BY <1>2, <1>4, WithRegister

(***************************************************************************)
(* PSU: no write of it sets a bit that does not exist, or SENSE.           *)
(***************************************************************************)

\* The stack pointer is the low three bits.
LEMMA SetSPType ==
    ASSUME NEW psu \in Psu, NEW sp \in 0 .. 7
    PROVE  SetSP(psu, sp) \in Psu
BY DEF SetSP, Psu, Bit, Byte

\* The stack pointer is three bits and wraps.
LEMMA SPType ==
    ASSUME NEW Bus, NEW now \in Nat, NEW s \in Cpus(Bus, now)
    PROVE  SP(s) \in 0 .. 7 /\ (SP(s) + 1) % 8 \in 0 .. 7 /\ (SP(s) - 1) % 8 \in 0 .. 7
<1>1. s.psu \in Byte
  BY Parts DEF Psu
<1> DEFINE p == s.psu
<1>2. SP(s) = p % 8
  BY DEF SP
<1> HIDE DEF p
<1>3. p % 8 \in 0 .. 7
  BY <1>1 DEF Byte, p
<1>4. QED
  BY <1>2, <1>3

\* Interrupts are inhibited and allowed by one bit.
LEMMA InhibitType ==
    ASSUME NEW psu \in Psu, NEW b \in {0, 1}
    PROVE  SetBit(psu, II, b) \in Psu
<1> DEFINE m == 32
<1>1. psu \in Byte /\ Bit(psu, 8) = 0 /\ Bit(psu, 16) = 0 /\ Bit(psu, 128) = 0
  BY DEF Psu
<1>2. m \in Masks /\ 8 \in Masks /\ 16 \in Masks /\ 128 \in Masks
  BY DEF Masks
<1>3. II = m /\ m # 8 /\ m # 16 /\ m # 128
  BY DEF II
<1> HIDE DEF m
<1>4. SetBit(psu, m, b) \in Byte
  BY <1>1, <1>2, SetBitIs
<1>5. /\ Bit(SetBit(psu, m, b), 8) = 0
      /\ Bit(SetBit(psu, m, b), 16) = 0
      /\ Bit(SetBit(psu, m, b), 128) = 0
  BY <1>1, <1>2, <1>3, SetBitIs
<1>6. QED
  BY <1>3, <1>4, <1>5 DEF Psu

\* CPSU clears bits of PSU.
LEMMA ClearPsuType ==
    ASSUME NEW psu \in Psu, NEW m \in Byte
    PROVE  Without(psu, m) \in Psu
<1>1. psu \in Byte /\ Bit(psu, 8) = 0 /\ Bit(psu, 16) = 0 /\ Bit(psu, 128) = 0
  BY DEF Psu
<1>2. 8 \in Masks /\ 16 \in Masks /\ 128 \in Masks
  BY DEF Masks
<1>3. /\ Without(psu, m) \in Byte
      /\ \A k \in Masks : Bit(Without(psu, m), k) = Bit(psu, k) * (1 - Bit(m, k))
  BY <1>1, WithoutIs
<1>4. \A k \in Masks : Bit(m, k) \in {0, 1}
  BY ByteIs
<1>5. QED
  BY <1>1, <1>2, <1>3, <1>4 DEF Psu

\* LPSU and PPSU mask what they write.
LEMMA MaskedType ==
    ASSUME NEW v \in Byte
    PROVE  Without(v, SENSE + UNUSED) \in Psu
<1>1. SENSE + UNUSED = 152 /\ 152 \in Byte
  BY DEF SENSE, UNUSED, Byte
<1>2. Bit(152, 8) = 1 /\ Bit(152, 16) = 1 /\ Bit(152, 128) = 1
  BY DEF Bit
<1>3. 8 \in Masks /\ 16 \in Masks /\ 128 \in Masks
  BY DEF Masks
<1>4. /\ Without(v, 152) \in Byte
      /\ \A k \in Masks : Bit(Without(v, 152), k) = Bit(v, k) * (1 - Bit(152, k))
  BY <1>1, WithoutIs
<1>5. \A k \in Masks : Bit(v, k) \in {0, 1}
  BY ByteIs
<1>6. QED
  BY <1>1, <1>2, <1>3, <1>4, <1>5 DEF Psu

\* Bits a mask sets in PSU leave its unwired bits clear.
LEMMA OrPsuType ==
    ASSUME NEW psu \in Psu, NEW w \in Psu
    PROVE  OrBits(psu, w) \in Psu
<1>1. /\ psu \in Byte /\ Bit(psu, 8) = 0 /\ Bit(psu, 16) = 0 /\ Bit(psu, 128) = 0
      /\ w \in Byte /\ Bit(w, 8) = 0 /\ Bit(w, 16) = 0 /\ Bit(w, 128) = 0
  BY DEF Psu
<1>2. 8 \in Masks /\ 16 \in Masks /\ 128 \in Masks
  BY DEF Masks
<1>3. /\ OrBits(psu, w) \in Byte
      /\ \A k \in Masks : Bit(OrBits(psu, w), k) = Bit(psu, k) + Bit(w, k) - Bit(psu, k) * Bit(w, k)
  BY <1>1, OrIs
<1>4. QED
  BY <1>1, <1>2, <1>3 DEF Psu

\* So those bits of PSU read as 0.
LEMMA MaskedReads ==
    ASSUME NEW psu \in Psu
    PROVE  AndBits(psu, UNUSED + SENSE) = 0
<1> DEFINE x == AndBits(psu, 152)
<1>1. /\ psu \in Byte /\ Bit(psu, 8) = 0 /\ Bit(psu, 16) = 0 /\ Bit(psu, 128) = 0
      /\ 152 \in Byte
  BY DEF Psu, Byte
<1>2. /\ Bit(152, 1) = 0 /\ Bit(152, 2) = 0 /\ Bit(152, 4) = 0
      /\ Bit(152, 32) = 0 /\ Bit(152, 64) = 0
  BY DEF Bit
<1>3. \A k \in Masks : Bit(psu, k) \in {0, 1} /\ Bit(152, k) \in {0, 1}
  BY <1>1, ByteIs
<1>4. x \in Byte /\ \A k \in Masks : Bit(x, k) = Bit(psu, k) * Bit(152, k)
  BY <1>1, AndIs
<1>5. \A k \in Masks : Bit(x, k) = 0
  BY <1>1, <1>2, <1>3, <1>4 DEF Masks
<1>6. x = Bit(x, 1) + 2 * Bit(x, 2) + 4 * Bit(x, 4) + 8 * Bit(x, 8)
              + 16 * Bit(x, 16) + 32 * Bit(x, 32) + 64 * Bit(x, 64) + 128 * Bit(x, 128)
  BY <1>4, ByteIs
<1> HIDE DEF x
<1>7. x = 0
  BY <1>5, <1>6 DEF Masks
<1>8. UNUSED + SENSE = 152
  BY DEF UNUSED, SENSE
<1>9. QED
  BY <1>7, <1>8 DEF x

\* A read of PSU samples SENSE and stores nothing.
LEMMA ReadPsuType ==
    ASSUME NEW Bus, NEW now \in Nat, BusOK(Bus), NEW s \in Cpus(Bus, now)
    PROVE  ReadPsu(s).v \in Byte /\ ReadPsu(s).s \in Cpus(Bus, now)
<1> DEFINE q == BusSense(s.bus)
           b == q.bus
           v == IF q.v = 1 THEN SetBit(s.psu, SENSE, 1) ELSE s.psu
           x == [q EXCEPT !.v = v]
<1>1. ReadPsu(s) = [v |-> x.v, s |-> [s EXCEPT !.bus = x.bus]]
  BY DEF ReadPsu, Took
<1>2. s.psu \in Byte /\ s.bus \in Bus
  BY Parts DEF Psu
<1>3. b \in Bus /\ q = [v |-> q.v, bus |-> q.bus]
  BY <1>2 DEF BusOK
<1>4. SENSE \in Masks /\ 1 \in {0, 1}
  BY DEF SENSE, Masks
<1>5. v \in Byte
  BY <1>2, <1>4, SetBitIs
<1>6. x.v = v /\ x.bus = b
  BY <1>3
<1> HIDE DEF x, v, b
<1>7. [s EXCEPT !.bus = b] \in Cpus(Bus, now)
  BY <1>3, WithBus
<1>8. QED
  BY <1>1, <1>5, <1>6, <1>7

\* A write of PSU drives FLAG when it changes.
LEMMA WritePsuType ==
    ASSUME NEW Bus, NEW now \in Nat, BusOK(Bus), NEW s \in Cpus(Bus, now), NEW v \in Psu
    PROVE  WritePsu(s, v) \in Cpus(Bus, now)
<1> DEFINE b == IF Bit(v, FLAG) # Bit(s.psu, FLAG) THEN BusFlag(s.bus, Bit(v, FLAG)) ELSE s.bus
<1>1. Bit(v, FLAG) \in {0, 1}
  BY ByteIs DEF Psu, FLAG, Masks
<1>2. b \in Bus
  BY <1>1, Parts DEF BusOK
<1>3. WritePsu(s, v) = [s EXCEPT !.psu = v, !.bus = b]
  BY DEF WritePsu
<1> HIDE DEF b
<1>4. [s EXCEPT !.psu = v, !.bus = b] \in Cpus(Bus, now)
  BY <1>2 DEF Cpus
<1>5. QED
  BY <1>3, <1>4

(***************************************************************************)
(* The return stack and branches.                                          *)
(***************************************************************************)

\* A push leaves a CPU: the stack wraps at 8.
LEMMA PushType ==
    ASSUME NEW Bus, NEW now \in Nat, NEW s \in Cpus(Bus, now)
    PROVE  Push(s) \in Cpus(Bus, now)
<1> DEFINE sp == (SP(s) + 1) % 8
           psu == SetSP(s.psu, sp)
           pc == s.pc
<1>1. sp \in 0 .. 7
  BY SPType
<1>2. psu \in Psu
  BY <1>1, Parts, SetSPType
<1>3. pc \in Address
  BY Parts
<1>4. Push(s) = [s EXCEPT !.psu = psu, !.ras[sp] = pc]
  BY DEF Push
<1> HIDE DEF psu, sp, pc
<1>5. [s EXCEPT !.psu = psu, !.ras[sp] = pc] \in Cpus(Bus, now)
  BY <1>1, <1>2, <1>3 DEF Cpus
<1>6. QED
  BY <1>4, <1>5

\* A pop leaves a CPU, whose pc is an address the stack kept.
LEMMA PopType ==
    ASSUME NEW Bus, NEW now \in Nat, NEW s \in Cpus(Bus, now)
    PROVE  Pop(s) \in Cpus(Bus, now)
<1> DEFINE sp == (SP(s) - 1) % 8
           psu == SetSP(s.psu, sp)
           pc == s.ras[SP(s)]
<1>1. sp \in 0 .. 7
  BY SPType
<1>2. psu \in Psu
  BY <1>1, Parts, SetSPType
<1>3. pc \in Address
  BY Parts, SPType
<1>4. Pop(s) = [s EXCEPT !.pc = pc, !.psu = psu]
  BY DEF Pop
<1> HIDE DEF psu, sp, pc
<1>5. [s EXCEPT !.pc = pc, !.psu = psu] \in Cpus(Bus, now)
  BY <1>2, <1>3 DEF Cpus
<1>6. QED
  BY <1>4, <1>5

\* A jump, with or without a push, leaves a CPU.
LEMMA JumpType ==
    ASSUME NEW Bus, NEW now \in Nat, NEW s \in Cpus(Bus, now), NEW ea \in Address,
           NEW call \in BOOLEAN
    PROVE  Jump(s, ea, call) \in Cpus(Bus, now)
<1> DEFINE t == IF call THEN Push(s) ELSE s
<1>1. t \in Cpus(Bus, now)
  BY PushType
<1>2. Jump(s, ea, call) = [t EXCEPT !.pc = ea]
  BY DEF Jump
<1> HIDE DEF t
<1>3. QED
  BY <1>1, <1>2, WithPc

\* A branch takes 9 clocks, and 6 more through a pointer.
LEMMA BranchType ==
    ASSUME NEW Bus, NEW now \in Nat, BusOK(Bus), NEW s \in Cpus(Bus, now), NEW op \in Byte,
           NEW taken \in BOOLEAN, NEW call \in BOOLEAN
    PROVE  Branch(s, op, taken, call) \in Turns(Bus, now)
<1> DEFINE abs == Bit(op, 4) = 1
           e == IF abs THEN BranchEa(s) ELSE RelEa(s, FromHere)
           j == Jump(e.s, e.ea, call)
           pc == InPage(s.pc, IF abs THEN 2 ELSE 1)
           t == [s EXCEPT !.pc = pc]
<1>1. Branch(s, op, taken, call) =
          IF taken THEN [s |-> j, k |-> 9 + e.k] ELSE [s |-> t, k |-> 9]
  BY DEF Branch
<1>2. e \in Effective(Bus, now)
  BY BranchEaType, RelEaType DEF FromHere
<1>3. pc \in Address
  BY Parts, InPageType
<1> HIDE DEF e, pc
<1>4. e.ea \in Address /\ e.k \in {0, 6} /\ e.s \in Cpus(Bus, now)
  BY <1>2 DEF Effective
<1>5. j \in Cpus(Bus, now)
  BY <1>4, JumpType
<1>6. t \in Cpus(Bus, now)
  BY <1>3, WithPc
<1> HIDE DEF j, t
<1>7. 9 + e.k \in 6 .. 18
  BY <1>4
<1>8. QED
  BY <1>1, <1>5, <1>6, <1>7 DEF Turns

\* ZBRR, ZBSR, BXA and BSXA leave a CPU.
LEMMA BranchSpecialType ==
    ASSUME NEW Bus, NEW now \in Nat, BusOK(Bus), NEW s \in Cpus(Bus, now), NEW op \in Specials
    PROVE  BranchSpecial(s, op) \in Turns(Bus, now)
<1> DEFINE abs == op \in {159, 191}
           call == op \in {187, 191}
           e == BranchEa(s)
           f == RelEa(s, FromZero)
           r == Reg(e.s, 3)
           ea == (e.ea + r) % 32768
           je == Jump(e.s, ea, call)
           jf == Jump(f.s, f.ea, call)
<1>1. BranchSpecial(s, op) =
          IF abs THEN [s |-> je, k |-> 9 + e.k] ELSE [s |-> jf, k |-> 9 + f.k]
  BY DEF BranchSpecial
<1> HIDE DEF abs
<1>2. /\ e \in Effective(Bus, now) /\ f \in Effective(Bus, now)
      /\ call \in BOOLEAN
  <2>1. FromZero \in BOOLEAN
    BY DEF FromZero
  <2>2. f \in Effective(Bus, now)
    BY <2>1, RelEaType
  <2>3. e \in Effective(Bus, now)
    BY BranchEaType
  <2>4. QED
    BY <2>2, <2>3
<1> HIDE DEF e, f, call
<1>3. /\ e.ea \in Address /\ e.k \in {0, 6} /\ e.s \in Cpus(Bus, now)
      /\ f.ea \in Address /\ f.k \in {0, 6} /\ f.s \in Cpus(Bus, now)
  BY <1>2 DEF Effective
<1>4. r \in Byte
  BY <1>3, RegisterType
<1> HIDE DEF r
<1>5. ea \in Address
  BY <1>3, <1>4, AddressIs DEF Byte
<1> HIDE DEF ea
<1>6. je \in Cpus(Bus, now) /\ jf \in Cpus(Bus, now)
  BY <1>2, <1>3, <1>5, JumpType
<1> HIDE DEF je, jf
<1>7. 9 + e.k \in 6 .. 18 /\ 9 + f.k \in 6 .. 18
  BY <1>3
<1>8. QED
  BY <1>1, <1>6, <1>7 DEF Turns

\* An interrupt entry inhibits interrupts and takes 9 or 15 clocks.
LEMMA InterruptType ==
    ASSUME NEW Bus, NEW now \in Nat, BusOK(Bus), NEW s \in Cpus(Bus, now)
    PROVE  Interrupt(s) \in Turns(Bus, now)
<1> DEFINE t == [s EXCEPT !.halted = FALSE]
           d == IntAck(s.bus)
           v == Disp(d) % 8192
           indirect == d >= 128
           e == Deref(t, v, indirect)
           p == Push(e.s)
           psu == SetBit(p.psu, II, 1)
           ea == e.ea
           u == [p EXCEPT !.psu = psu, !.pc = ea]
<1>1. Interrupt(s) = [s |-> u, k |-> 9 + e.k]
  BY DEF Interrupt, InterruptEa
<1>2. t \in Cpus(Bus, now)
  BY WithHalted
<1>3. d \in Byte
  BY Parts DEF BusOK
<1> HIDE DEF t, d, indirect
<1>4. v \in Address
  BY <1>3, DispType
<1> HIDE DEF v
<1>5. e \in Effective(Bus, now)
  BY <1>2, <1>4, DerefType
<1> HIDE DEF e
<1>6. ea \in Address /\ e.k \in {0, 6} /\ e.s \in Cpus(Bus, now)
  BY <1>5 DEF Effective
<1>7. p \in Cpus(Bus, now)
  BY <1>6, PushType
<1> HIDE DEF p, ea
<1>8. psu \in Psu
  BY <1>7, Parts, InhibitType
<1> HIDE DEF psu
<1>9. u \in Cpus(Bus, now)
  BY <1>6, <1>7, <1>8 DEF Cpus
<1> HIDE DEF u
<1>10. 9 + e.k \in 6 .. 18
  BY <1>6
<1>11. QED
  BY <1>1, <1>9, <1>10 DEF Turns

(***************************************************************************)
(* Instructions.                                                           *)
(***************************************************************************)

\* Each group combines in its own way.
LEMMA CombineIs ==
    ASSUME NEW op, NEW o
    PROVE  LET a == o.s.r[o.d]
           IN  /\ op \in 0 .. 15    => Combine(op, o) = [k |-> o.k, s |-> Load(o.s, o.d, o.v)]
               /\ op \in 32 .. 47   => Combine(op, o) = [k |-> o.k, s |-> Load(o.s, o.d, XorBits(a, o.v))]
               /\ op \in 65 .. 79   => Combine(op, o) = [k |-> o.k, s |-> Load(o.s, o.d, AndBits(a, o.v))]
               /\ op \in 96 .. 111  => Combine(op, o) = [k |-> o.k, s |-> Load(o.s, o.d, OrBits(a, o.v))]
               /\ op \in 128 .. 143 => Combine(op, o) = [k |-> o.k, s |-> Add(o.s, o.d, o.v)]
               /\ op \in 160 .. 175 => Combine(op, o) = [k |-> o.k, s |-> Sub(o.s, o.d, o.v)]
               /\ op \in 224 .. 239 => Combine(op, o) = [k |-> o.k, s |-> Com(o.s, a, o.v)]
BY DEF Combine

\* LOD, EOR, AND, IOR, ADD, SUB, STR and COM, whatever the addressing mode.
LEMMA CombineType ==
    ASSUME NEW Bus, NEW now \in Nat, NEW op \in Combines, NEW o \in Operation(Bus, now)
    PROVE  Combine(op, o) \in Turns(Bus, now)
<1> DEFINE s == o.s
           d == o.d
           v == o.v
           a == s.r[d]
           t1 == Load(s, d, v)
           t2 == Load(s, d, XorBits(a, v))
           t3 == Load(s, d, AndBits(a, v))
           t4 == Load(s, d, OrBits(a, v))
           t5 == Add(s, d, v)
           t6 == Sub(s, d, v)
           t7 == Com(s, a, v)
<1>1. /\ op \in 0 .. 15    => Combine(op, o) = [k |-> o.k, s |-> t1]
      /\ op \in 32 .. 47   => Combine(op, o) = [k |-> o.k, s |-> t2]
      /\ op \in 65 .. 79   => Combine(op, o) = [k |-> o.k, s |-> t3]
      /\ op \in 96 .. 111  => Combine(op, o) = [k |-> o.k, s |-> t4]
      /\ op \in 128 .. 143 => Combine(op, o) = [k |-> o.k, s |-> t5]
      /\ op \in 160 .. 175 => Combine(op, o) = [k |-> o.k, s |-> t6]
      /\ op \in 224 .. 239 => Combine(op, o) = [k |-> o.k, s |-> t7]
  BY CombineIs
<1>2. s \in Cpus(Bus, now) /\ d \in 0 .. 6 /\ v \in Byte /\ o.k \in 6 .. 18
  BY DEF Operation
<1> HIDE DEF s, d, v
<1>3. a \in Byte
  BY <1>2, RegisterIn
<1> HIDE DEF a
<1>4. t1 \in Cpus(Bus, now) /\ t2 \in Cpus(Bus, now) /\ t3 \in Cpus(Bus, now) /\ t4 \in Cpus(Bus, now)
  BY <1>2, <1>3, LoadType, XorIs, AndIs, OrIs
<1>5. t5 \in Cpus(Bus, now) /\ t6 \in Cpus(Bus, now) /\ t7 \in Cpus(Bus, now)
  BY <1>2, <1>3, AddType, SubType, ComType
<1> HIDE DEF t1, t2, t3, t4, t5, t6, t7
<1>6. QED
  BY <1>1, <1>2, <1>4, <1>5 DEF Turns, Combines

\* A store of register d at a relative address, in R0 at an indexed one.
LEMMA StoreType ==
    ASSUME NEW Bus, NEW now \in Nat, BusOK(Bus), NEW e, NEW d \in 0 .. 6, NEW k \in {9, 12},
           e.ea \in Address, e.k \in {0, 6}, e.s \in Cpus(Bus, now)
    PROVE  Store(e, d, k) \in Turns(Bus, now)
<1> DEFINE s == e.s
           v == s.r[d]
           b == BusWrite(s.bus, e.ea, v)
           t == [s EXCEPT !.bus = b]
           n == k + e.k
<1>1. Store(e, d, k) = [s |-> t, k |-> n]
  BY DEF Store
<1>2. v \in Byte /\ s.bus \in Bus
  BY Parts, RegisterIn
<1> HIDE DEF v
<1>3. b \in Bus
  BY <1>2 DEF BusOK
<1> HIDE DEF b
<1>4. t \in Cpus(Bus, now)
  BY <1>3, WithBus
<1> HIDE DEF t
<1>5. n \in 6 .. 18
  OBVIOUS
<1> HIDE DEF n
<1>6. QED
  BY <1>1, <1>4, <1>5 DEF Turns

\* Setting, clearing and testing PSU and PSL, TMI, REDE and WRTE.
LEMMA ImmediateType ==
    ASSUME NEW Bus, NEW now \in Nat, BusOK(Bus), NEW s \in Cpus(Bus, now), NEW op \in Immediates,
           NEW imm, imm.v \in Byte, imm.s \in Cpus(Bus, now)
    PROVE  Immediate(s, op, imm) \in Cpus(Bus, now)
<1> DEFINE x == Ri(s, op % 4)
           m == imm.v
           t == imm.s
           u == ReadPsu(t)
           p1 == Without(s.psu, Without(m, SENSE))
           p2 == OrBits(s.psu, Without(m, SENSE + UNUSED))
           l1 == Without(t.psl, m)
           l2 == OrBits(t.psl, m)
           t1 == WritePsu(t, p1)
           t2 == WritePsu(t, p2)
           t3 == [t EXCEPT !.psl = l1]
           t4 == [t EXCEPT !.psl = l2]
           t5 == TestBits(u.s, u.v, m)
           t6 == TestBits(t, s.psl, m)
           t7 == TestBits(t, s.r[x], m)
           t8 == Load(t, x, 0)
<1>1. /\ op = 116 => Immediate(s, op, imm) = t1
      /\ op = 118 => Immediate(s, op, imm) = t2
      /\ op = 117 => Immediate(s, op, imm) = t3
      /\ op = 119 => Immediate(s, op, imm) = t4
      /\ op = 180 => Immediate(s, op, imm) = t5
      /\ op = 181 => Immediate(s, op, imm) = t6
      /\ op \in 244 .. 247 => Immediate(s, op, imm) = t7
      /\ op \in 84 .. 87 => Immediate(s, op, imm) = t8
      /\ op \in 212 .. 215 => Immediate(s, op, imm) = t
  BY DEF Immediate
<1>2. x \in 0 .. 6
  <2>1. op % 4 \in 0 .. 3
    BY DEF Immediates
  <2>2. QED
    BY <2>1, RegisterType
<1> HIDE DEF x
<1>3. m \in Byte /\ t \in Cpus(Bus, now)
  OBVIOUS
<1> HIDE DEF m, t
<1>4. s.psu \in Psu /\ t.psl \in Byte /\ SENSE \in Byte
  BY <1>3, Parts DEF SENSE, Byte
<1>5. p1 \in Psu /\ p2 \in Psu
  BY <1>3, <1>4, WithoutIs, ClearPsuType, MaskedType, OrPsuType
<1>6. l1 \in Byte /\ l2 \in Byte
  BY <1>3, <1>4, WithoutIs, OrIs
<1> HIDE DEF p1, p2, l1, l2
<1>7. t1 \in Cpus(Bus, now) /\ t2 \in Cpus(Bus, now)
  BY <1>3, <1>5, WritePsuType
<1>8. t3 \in Cpus(Bus, now) /\ t4 \in Cpus(Bus, now)
  BY <1>3, <1>6, WithPsl
<1>9. u.s \in Cpus(Bus, now)
  BY <1>3, ReadPsuType
<1>10. t5 \in Cpus(Bus, now) /\ t6 \in Cpus(Bus, now) /\ t7 \in Cpus(Bus, now)
  BY <1>3, <1>9, TestBitsType
<1>11. t8 \in Cpus(Bus, now)
  <2>1. 0 \in Byte
    BY DEF Byte
  <2>2. QED
    BY <1>2, <1>3, <2>1, LoadType
<1> HIDE DEF t1, t2, t3, t4, t5, t6, t7, t8
<1>12. QED
  BY <1>1, <1>3, <1>7, <1>8, <1>10, <1>11 DEF Immediates

\* The instructions without an operand.
LEMMA InherentType ==
    ASSUME NEW Bus, NEW now \in Nat, BusOK(Bus), NEW s \in Cpus(Bus, now), NEW op \in Byte,
           op \notin Combines, op \notin 200 .. 207, op \notin Immediates,
           op \notin Branches, op \notin Specials
    PROVE  Inherent(s, op) \in Cpus(Bus, now)
<1> DEFINE n == op % 4
           x == Ri(s, n)
           r0 == s.r[0]
           cond == Cond(s, n)
           pop == Pop(s)
           popped == IF cond THEN pop ELSE s
           u == ReadPsu(s)
           un == Without(u.v, UNUSED)
           count == s.illegal + 1
           ps == Without(r0, SENSE + UNUSED)
           pu == SetBit(pop.psu, II, 0)
           t1 == [s EXCEPT !.halted = TRUE]
           t2 == [s EXCEPT !.illegal = count]
           t3 == Load(s, x, r0)
           t4 == Load(u.s, 0, un)
           t5 == Load(s, 0, s.psl)
           t6 == WritePsu(s, ps)
           t7 == [s EXCEPT !.psl = r0]
           t8 == [pop EXCEPT !.psu = pu]
           t9 == Rotate(s, x, Right)
           t10 == Rotate(s, x, Left)
           t11 == Dar(s, x)
           t12 == Load(s, x, 0)
<1>1. /\ op = 64 => Inherent(s, op) = t1
      /\ op = 192 => Inherent(s, op) = s
      /\ op \in Illegal => Inherent(s, op) = t2
      /\ op \in 193 .. 195 => Inherent(s, op) = t3
      /\ op = 18 => Inherent(s, op) = t4
      /\ op = 19 => Inherent(s, op) = t5
      /\ op = 146 => Inherent(s, op) = t6
      /\ op = 147 => Inherent(s, op) = t7
      /\ op \in 20 .. 23 => Inherent(s, op) = popped
      /\ op \in 52 .. 55 => Inherent(s, op) = IF cond THEN [popped EXCEPT !.psu = SetBit(popped.psu, II, 0)] ELSE s
      /\ op \in 80 .. 83 => Inherent(s, op) = t9
      /\ op \in 208 .. 211 => Inherent(s, op) = t10
      /\ op \in 148 .. 151 => Inherent(s, op) = t11
      /\ op \in (48 .. 51) \cup (112 .. 115) => Inherent(s, op) = t12
      /\ op \in (176 .. 179) \cup (240 .. 243) => Inherent(s, op) = s
  BY DEF Inherent, Illegal
<1>2. (IF cond THEN [popped EXCEPT !.psu = SetBit(popped.psu, II, 0)] ELSE s)
          = IF cond THEN t8 ELSE s
  OBVIOUS
<1>3. n \in 0 .. 3
  BY DEF Byte
<1> HIDE DEF n
<1>4. x \in 0 .. 6
  BY <1>3, RegisterType
<1> HIDE DEF x
<1>5. r0 \in Byte /\ s.psl \in Byte /\ count \in Nat /\ 0 \in Byte
  <2>1. 0 \in Byte /\ 0 \in 0 .. 6
    BY DEF Byte
  <2>2. s.psl \in Byte /\ s.illegal \in Nat
    BY Parts
  <2>3. r0 \in Byte
    BY <2>1, RegisterIn
  <2>4. QED
    BY <2>1, <2>2, <2>3
<1>6. pop \in Cpus(Bus, now)
  BY PopType
<1>7. pu \in Psu
  BY <1>6, Parts, InhibitType
<1>8. popped \in Cpus(Bus, now)
  BY <1>6
<1>9. u.s \in Cpus(Bus, now) /\ un \in Byte
  <2>1. UNUSED \in Byte
    BY DEF UNUSED, Byte
  <2>2. QED
    BY <2>1, ReadPsuType, WithoutIs
<1>10. ps \in Psu
  BY <1>5, MaskedType
<1> HIDE DEF r0, cond, pop, popped, u, un, count, ps, pu
<1>11. t1 \in Cpus(Bus, now) /\ t2 \in Cpus(Bus, now) /\ t7 \in Cpus(Bus, now)
  BY <1>5, WithHalted, WithIllegal, WithPsl
<1>12. t3 \in Cpus(Bus, now) /\ t4 \in Cpus(Bus, now) /\ t5 \in Cpus(Bus, now) /\ t12 \in Cpus(Bus, now)
  <2>1. t3 \in Cpus(Bus, now) /\ t12 \in Cpus(Bus, now)
    BY <1>4, <1>5, LoadType
  <2>2. 0 \in 0 .. 6
    OBVIOUS
  <2>3. t4 \in Cpus(Bus, now)
    BY <1>9, <2>2, LoadType
  <2>4. t5 \in Cpus(Bus, now)
    BY <1>5, <2>2, LoadType
  <2>5. QED
    BY <2>1, <2>3, <2>4
<1>13. t6 \in Cpus(Bus, now)
  BY <1>10, WritePsuType
<1>14. t8 \in Cpus(Bus, now)
  BY <1>6, <1>7, WithPsu
<1>15. t9 \in Cpus(Bus, now) /\ t10 \in Cpus(Bus, now) /\ t11 \in Cpus(Bus, now)
  BY <1>4, RotateType, DarType DEF Left, Right
<1> HIDE DEF t1, t2, t3, t4, t5, t6, t7, t8, t9, t10, t11, t12
<1>16. op \in {18, 19, 64, 146, 147, 192} \cup Illegal \cup 193 .. 195 \cup 20 .. 23 \cup 52 .. 55
              \cup 80 .. 83 \cup 208 .. 211 \cup 148 .. 151 \cup 48 .. 51 \cup 112 .. 115
              \cup 176 .. 179 \cup 240 .. 243
  BY DEF Byte, Combines, Immediates, Branches, Specials, Illegal
<1>17. QED
  BY <1>1, <1>2, <1>8, <1>11, <1>12, <1>13, <1>14, <1>15, <1>16

\* The branch group: taken or not, subroutine or not.
LEMMA ExecBranchType ==
    ASSUME NEW Bus, NEW now \in Nat, BusOK(Bus), NEW s \in Cpus(Bus, now), NEW op \in Branches
    PROVE  ExecBranch(s, op) \in Turns(Bus, now)
<1> DEFINE n == op % 4
           x == Ri(s, n)
           call == op \in 56 .. 63 \cup 184 .. 190 \cup 120 .. 127
           up == (s.r[x] + 1) % 256
           down == (s.r[x] - 1) % 256
           su == [s EXCEPT !.r[x] = up]
           sd == [s EXCEPT !.r[x] = down]
           on == Cond(s, n)
           against == CC(s) # n
           c0 == s.r[x] # 0
           c1 == su.r[x] # 0
           c2 == sd.r[x] # 0
           b1 == Branch(s, op, on, call)
           b2 == Branch(s, op, against, call)
           b3 == Branch(s, op, c0, call)
           b4 == Branch(su, op, c1, call)
           b5 == Branch(sd, op, c2, call)
<1>1. /\ op \in 24 .. 31 \cup 56 .. 63 => ExecBranch(s, op) = b1
      /\ op \in 152 .. 158 \cup 184 .. 190 => ExecBranch(s, op) = b2
      /\ op \in 88 .. 95 \cup 120 .. 127 => ExecBranch(s, op) = b3
      /\ op \in 216 .. 223 => ExecBranch(s, op) = b4
      /\ op \in 248 .. 255 => ExecBranch(s, op) = b5
  BY DEF ExecBranch
<1>2. op \in Byte /\ n \in 0 .. 3
  BY DEF Branches, Byte
<1>3. x \in 0 .. 6
  BY <1>2, RegisterType
<1>4. /\ on \in BOOLEAN /\ against \in BOOLEAN /\ call \in BOOLEAN
      /\ c0 \in BOOLEAN /\ c1 \in BOOLEAN /\ c2 \in BOOLEAN
  BY DEF Cond
<1> HIDE DEF x, call, on, against, c0, c1, c2
<1>5. up \in Byte /\ down \in Byte
  <2>1. s.r[x] \in Byte
    BY <1>3, RegisterIn
  <2>2. QED
    BY <2>1, CountType
<1> HIDE DEF up, down
<1>6. su \in Cpus(Bus, now) /\ sd \in Cpus(Bus, now)
  BY <1>3, <1>5, WithRegister
<1> HIDE DEF su, sd
<1>7. /\ b1 \in Turns(Bus, now) /\ b2 \in Turns(Bus, now) /\ b3 \in Turns(Bus, now)
      /\ b4 \in Turns(Bus, now) /\ b5 \in Turns(Bus, now)
  BY <1>2, <1>4, <1>6, BranchType
<1> HIDE DEF b1, b2, b3, b4, b5
<1>8. QED
  BY <1>1, <1>7 DEF Branches, Specials

\* Each opcode belongs to one group.
LEMMA ExecIs ==
    ASSUME NEW s, NEW op
    PROVE  /\ op \in Combines => Exec(s, op) = Combine(op, Operand(s, op))
           /\ op \in 200 .. 203 => Exec(s, op) = Store(RelEa(s, FromHere), Ri(s, op % 4), 9)
           /\ op \in 204 .. 207 => Exec(s, op) = StoreAbs(AbsEa(s, op % 4))
           /\ op \in Immediates => Exec(s, op) = [s |-> Immediate(s, op, Fetch(s)), k |-> 9]
           /\ op \in Branches => Exec(s, op) = ExecBranch(s, op)
           /\ op \in Specials => Exec(s, op) = BranchSpecial(s, op)
           /\ /\ op \notin Combines /\ op \notin 200 .. 207 /\ op \notin Immediates
              /\ op \notin Branches /\ op \notin Specials
              => Exec(s, op) = [s |-> Inherent(s, op), k |-> InherentClocks(op)]
BY DEF Exec, Combines, Immediates, Branches, Specials

\* Every opcode is decoded, and takes 6 to 18 clocks.
LEMMA ExecType ==
    ASSUME NEW Bus, NEW now \in Nat, BusOK(Bus), NEW s \in Cpus(Bus, now), NEW op \in Byte
    PROVE  Exec(s, op) \in Turns(Bus, now)
<1> DEFINE o == Operand(s, op)
           e == RelEa(s, FromHere)
           g == AbsEa(s, op % 4)
           x == Ri(s, op % 4)
           f == Fetch(s)
           t == Immediate(s, op, f)
           i == Inherent(s, op)
           combined == Combine(op, o)
           direct == Store(e, x, 9)
           absolute == Store(g, g.d, 12)
           branch == ExecBranch(s, op)
           special == BranchSpecial(s, op)
           other == /\ op \notin Combines /\ op \notin 200 .. 207 /\ op \notin Immediates
                    /\ op \notin Branches /\ op \notin Specials
<1>1. /\ op \in Combines => Exec(s, op) = combined
      /\ op \in 200 .. 203 => Exec(s, op) = direct
      /\ op \in 204 .. 207 => Exec(s, op) = absolute
      /\ op \in Immediates => Exec(s, op) = [s |-> t, k |-> 9]
      /\ op \in Branches => Exec(s, op) = branch
      /\ op \in Specials => Exec(s, op) = special
      /\ other => Exec(s, op) = [s |-> i, k |-> InherentClocks(op)]
  BY ExecIs DEF StoreAbs
<1>2. op % 4 \in 0 .. 3
  BY DEF Byte
<1>3. op \in Combines => combined \in Turns(Bus, now)
  <2>1. o \in Operation(Bus, now)
    BY OperandType
  <2> HIDE DEF o
  <2>2. QED
    BY <2>1, CombineType
<1>4. direct \in Turns(Bus, now)
  <2>1. e.ea \in Address /\ e.k \in {0, 6} /\ e.s \in Cpus(Bus, now)
    BY RelEaType DEF Effective, FromHere
  <2>2. x \in 0 .. 6
    BY <1>2, RegisterType
  <2> HIDE DEF e, x
  <2>3. QED
    BY <2>1, <2>2, StoreType
<1>5. absolute \in Turns(Bus, now)
  <2>1. g.d \in 0 .. 6 /\ g.ea \in Address /\ g.k \in {0, 6} /\ g.s \in Cpus(Bus, now)
    BY <1>2, AbsEaType DEF Operands
  <2> HIDE DEF g
  <2>2. QED
    BY <2>1, StoreType
<1>6. op \in Immediates => t \in Cpus(Bus, now)
  <2>1. f.v \in Byte /\ f.s \in Cpus(Bus, now)
    BY FetchType
  <2> HIDE DEF f
  <2>2. QED
    BY <2>1, ImmediateType
<1>7. op \in Branches => branch \in Turns(Bus, now)
  BY ExecBranchType
<1>8. op \in Specials => special \in Turns(Bus, now)
  BY BranchSpecialType
<1>9. ASSUME other
      PROVE  i \in Cpus(Bus, now)
  BY <1>9, InherentType
<1>10. InherentClocks(op) \in 6 .. 18
  BY DEF InherentClocks
<1> HIDE DEF combined, direct, absolute, t, branch, special, i
<1>11. op \in Immediates => [s |-> t, k |-> 9] \in Turns(Bus, now)
  BY <1>6 DEF Turns
<1>12. ASSUME other
       PROVE  [s |-> i, k |-> InherentClocks(op)] \in Turns(Bus, now)
  BY <1>9, <1>10, <1>12 DEF Turns
<1> DEFINE im == [s |-> t, k |-> 9]
           ih == [s |-> i, k |-> InherentClocks(op)]
<1>13. op \in 200 .. 207 => op \in 200 .. 203 \/ op \in 204 .. 207
  OBVIOUS
<1> HIDE DEF im, ih
<1>14. QED
  BY <1>1, <1>3, <1>4, <1>5, <1>7, <1>8, <1>11, <1>12, <1>13 DEF im, ih

\* Whatever the bus and whatever the memory holds, a step of the CPU leaves
\* every register within its width, PSU without SENSE and without the bits it
\* has not got, and the clock 6 to 18 later.
THEOREM StepType ==
    ASSUME NEW Bus, NEW now \in Nat, BusOK(Bus), NEW s \in Cpus(Bus, now)
    PROVE  CpuStep(s).k \in 6 .. 18 /\ CpuStep(s).s \in Cpus(Bus, now + CpuStep(s).k)
<1> DEFINE f == Fetch(s)
           idle == [s |-> s, k |-> 6]
           x == Execute(f)
           n == Interrupt(s)
           e == IF s.irq /\ Bit(s.psu, II) = 0 THEN n ELSE IF s.halted THEN idle ELSE x
           u == e.s
           c == u.clocks + e.k
           v == [u EXCEPT !.clocks = c]
<1>1. CpuStep(s) = [e EXCEPT !.s = [e.s EXCEPT !.clocks = c]]
  BY DEF CpuStep
<1>2. x \in Turns(Bus, now)
  <2>1. f.v \in Byte /\ f.s \in Cpus(Bus, now)
    BY FetchType
  <2>2. x = Exec(f.s, f.v)
    BY DEF Execute
  <2> HIDE DEF f, x
  <2>3. QED
    BY <2>1, <2>2, ExecType
<1>3. n \in Turns(Bus, now)
  BY InterruptType
<1>4. idle \in Turns(Bus, now)
  BY DEF Turns
<1> HIDE DEF x, n, idle
<1>5. e \in Turns(Bus, now)
  BY <1>2, <1>3, <1>4
<1> HIDE DEF e
<1>6. e = [s |-> e.s, k |-> e.k] /\ u \in Cpus(Bus, now) /\ e.k \in 6 .. 18
  BY <1>5 DEF Turns
<1>7. c = now + e.k
  BY <1>6, Parts
<1> HIDE DEF c
<1>8. CpuStep(s).s = v /\ CpuStep(s).k = e.k
  BY <1>1, <1>6
<1> HIDE DEF u
<1>9. c \in Nat
  BY <1>6, <1>7
<1>10. v \in Cpus(Bus, c)
  BY <1>6, <1>9, WithClocks
<1> HIDE DEF v
<1>11. QED
  BY <1>6, <1>7, <1>8, <1>10

(***************************************************************************)
(* What the arithmetic computes.                                           *)
(***************************************************************************)

\* A condition code written is read again, and the other bits of PSL are left.
LEMMA SetCCIs ==
    ASSUME NEW psl \in Byte, NEW cc \in 0 .. 3
    PROVE  /\ SetCC(psl, cc) \in Byte
           /\ SetCC(psl, cc) \div 64 = cc
           /\ \A m \in {1, 2, 4, 8, 16, 32} : Bit(SetCC(psl, cc), m) = Bit(psl, m)
<1> DEFINE low == psl % 64
           p == SetCC(psl, cc)
<1>1. p = low + 64 * cc /\ low \in 0 .. 63
  BY DEF SetCC, Byte
<1>2. p \in Byte
  BY SetCCType
<1>3. p \div 64 = cc
  BY <1>1
<1>4. \A m \in {1, 2, 4, 8, 16, 32} : Bit(psl, m) = Bit(low, m)
  BY DEF Bit, Byte
<1> HIDE DEF low
<1>5. \A m \in {1, 2, 4, 8, 16, 32} : Bit(low + 64 * cc, m) = Bit(low, m)
  BY <1>1 DEF Bit
<1>6. QED
  BY <1>1, <1>2, <1>3, <1>4, <1>5

\* Three flags of PSL set, the others are left.
LEMMA SetFlagsIs ==
    ASSUME NEW psl \in Byte, NEW c \in {0, 1}, NEW idc \in {0, 1}, NEW ovf \in {0, 1}
    PROVE  /\ SetFlags(psl, c, idc, ovf) \in Byte
           /\ Bit(SetFlags(psl, c, idc, ovf), CARRY) = c
           /\ Bit(SetFlags(psl, c, idc, ovf), IDC) = idc
           /\ Bit(SetFlags(psl, c, idc, ovf), OVF) = ovf
           /\ \A m \in {COM, WC, RS} : Bit(SetFlags(psl, c, idc, ovf), m) = Bit(psl, m)
<1> DEFINE p == SetBit(psl, CARRY, c)
           q == SetBit(p, IDC, idc)
           f == SetBit(q, OVF, ovf)
<1>1. CARRY \in Masks /\ IDC \in Masks /\ OVF \in Masks
  BY DEF CARRY, IDC, OVF, Masks
<1>2. p \in Byte /\ \A m \in Masks : Bit(p, m) = IF m = CARRY THEN c ELSE Bit(psl, m)
  BY <1>1, SetBitIs
<1>3. SetFlags(psl, c, idc, ovf) = f
  BY DEF SetFlags
<1> HIDE DEF p
<1>4. q \in Byte /\ \A m \in Masks : Bit(q, m) = IF m = IDC THEN idc ELSE Bit(p, m)
  <2>1. p \in Byte
    BY <1>2
  <2>2. QED
    BY <1>1, <2>1, SetBitIs
<1> HIDE DEF q
<1>5. f \in Byte /\ \A m \in Masks : Bit(f, m) = IF m = OVF THEN ovf ELSE Bit(q, m)
  <2>1. q \in Byte
    BY <1>4
  <2>2. QED
    BY <1>1, <2>1, SetBitIs
<1> HIDE DEF f
<1>6. /\ COM \in Masks /\ WC \in Masks /\ RS \in Masks
      /\ CARRY # IDC /\ CARRY # OVF /\ IDC # OVF
      /\ \A m \in {COM, WC, RS} : m # CARRY /\ m # IDC /\ m # OVF
  BY DEF CARRY, IDC, OVF, COM, WC, RS, Masks
<1>7. QED
  BY <1>1, <1>2, <1>3, <1>4, <1>5, <1>6

\* The two are the same but for register d, which holds v, and PSL.
Computed(s, t, d, v) ==
    /\ t.r = [s.r EXCEPT ![d] = v]
    /\ t.pc = s.pc /\ t.ras = s.ras /\ t.psu = s.psu
    /\ t.halted = s.halted /\ t.irq = s.irq
    /\ t.clocks = s.clocks /\ t.illegal = s.illegal /\ t.bus = s.bus

\* The flags an instruction that computes is told by, kept.
ModesKept(s, t) == \A m \in {COM, WC, RS} : Bit(t.psl, m) = Bit(s.psl, m)

\* A load with PSL made p: the condition code besides.
LEMMA LoadIs ==
    ASSUME NEW Bus, NEW now \in Nat, NEW s \in Cpus(Bus, now), NEW d \in 0 .. 6, NEW v \in Byte,
           NEW p \in Byte
    PROVE  LET t == Load([s EXCEPT !.psl = p], d, v)
           IN  /\ Computed(s, t, d, v)
               /\ CC(t) = CcOf(v)
               /\ \A m \in {1, 2, 4, 8, 16, 32} : Bit(t.psl, m) = Bit(p, m)
<1> DEFINE q == SetCC(p, CcOf(v))
           t == Load([s EXCEPT !.psl = p], d, v)
<1>1. t = [s EXCEPT !.r[d] = v, !.psl = q]
  BY DEF Load, Cpus
<1>2. q \div 64 = CcOf(v) /\ \A m \in {1, 2, 4, 8, 16, 32} : Bit(q, m) = Bit(p, m)
  BY CcOfType, SetCCIs
<1> HIDE DEF q
<1>3. Computed(s, t, d, v) /\ t.psl = q
  BY <1>1 DEF Computed, Cpus
<1>4. QED
  BY <1>2, <1>3 DEF CC

\* The low digits of two bytes and a carry make a carry of their own.
LEMMA DigitCarry ==
    ASSUME NEW a \in Byte, NEW b \in Byte, NEW c \in {0, 1}
    PROVE  LET v == (a + b + c) % 256
           IN  Bit(XorBits(XorBits(v, a), b), 16) = ((a % 16) + (b % 16) + c) \div 16
<1> DEFINE v == (a + b + c) % 256
           x == XorBits(v, a)
           i == Bit(XorBits(x, b), 16)
<1>1. v \in Byte /\ 16 \in Masks
  BY DEF Byte, Masks
<1>2. Bit(v, 16) = (Bit(a, 16) + Bit(b, 16) + ((a % 16) + (b % 16) + c) \div 16) % 2
  BY DEF Bit, Byte
<1> HIDE DEF v
<1>3. x \in Byte /\ Bit(x, 16) = (Bit(v, 16) + Bit(a, 16)) % 2
  BY <1>1, XorIs
<1> HIDE DEF x
<1>4. i = (Bit(x, 16) + Bit(b, 16)) % 2
  BY <1>1, <1>3, XorIs
<1> HIDE DEF i
<1>5. Bit(a, 16) \in {0, 1} /\ Bit(b, 16) \in {0, 1} /\ ((a % 16) + (b % 16) + c) \div 16 \in {0, 1}
  BY <1>1, ByteIs DEF Byte
<1>6. i = ((a % 16) + (b % 16) + c) \div 16
  <2> DEFINE A == Bit(a, 16)
             B == Bit(b, 16)
             k == ((a % 16) + (b % 16) + c) \div 16
  <2>1. i = (((((A + B + k) % 2) + A) % 2) + B) % 2
    BY <1>2, <1>3, <1>4
  <2> HIDE DEF A, B, k
  <2>2. QED
    BY <1>5, <2>1 DEF A, B, k
<1>7. QED
  BY <1>6 DEF i, x, v

\* The low digits of two bytes and a borrow make a borrow of their own.
LEMMA DigitBorrow ==
    ASSUME NEW a \in Byte, NEW b \in Byte, NEW c \in {0, 1}
    PROVE  LET v == (a - b - c) % 256
           IN  (1 - Bit(XorBits(XorBits(v, a), b), 16) = 0) <=> (a % 16) < (b % 16) + c
<1> DEFINE v == (a - b - c) % 256
           x == XorBits(v, a)
           i == Bit(XorBits(x, b), 16)
           k == IF (a % 16) < (b % 16) + c THEN 1 ELSE 0
<1>1. v \in Byte /\ 16 \in Masks
  BY DEF Byte, Masks
<1>2. Bit(v, 16) = (Bit(a, 16) - Bit(b, 16) - k) % 2
  <2>1. CASE (a % 16) < (b % 16) + c
    BY <2>1 DEF Bit, Byte
  <2>2. CASE ~((a % 16) < (b % 16) + c)
    BY <2>2 DEF Bit, Byte
  <2>3. QED
    BY <2>1, <2>2
<1> HIDE DEF v
<1>3. x \in Byte /\ Bit(x, 16) = (Bit(v, 16) + Bit(a, 16)) % 2
  BY <1>1, XorIs
<1> HIDE DEF x
<1>4. i = (Bit(x, 16) + Bit(b, 16)) % 2
  BY <1>1, <1>3, XorIs
<1> HIDE DEF i
<1>5. Bit(a, 16) \in {0, 1} /\ Bit(b, 16) \in {0, 1} /\ k \in {0, 1}
  BY <1>1, ByteIs DEF Byte
<1>6. i = k
  <2> DEFINE A == Bit(a, 16)
             B == Bit(b, 16)
  <2>1. i = (((((A - B - k) % 2) + A) % 2) + B) % 2
    BY <1>2, <1>3, <1>4
  <2> HIDE DEF A, B, k
  <2>2. QED
    BY <1>5, <2>1 DEF A, B
<1>7. QED
  BY <1>6 DEF i, x, v

\* The sign bit of an exclusive or: the signs differ.
LEMMA Signs ==
    ASSUME NEW a \in Byte, NEW b \in Byte
    PROVE  /\ Bit(XorBits(a, b), 128) \in {0, 1}
           /\ Bit(XorBits(a, b), 128) = 1 <=> ((a < 128) # (b < 128))
<1>1. 128 \in Masks
  BY DEF Masks
<1>2. Bit(XorBits(a, b), 128) = (Bit(a, 128) + Bit(b, 128)) % 2
  BY <1>1, XorIs
<1>3. /\ Bit(a, 128) = IF a < 128 THEN 0 ELSE 1
      /\ Bit(b, 128) = IF b < 128 THEN 0 ELSE 1
  BY DEF Bit, Byte
<1>4. QED
  BY <1>2, <1>3

\* What an addition computes.
LEMMA AddIs ==
    ASSUME NEW Bus, NEW now \in Nat, NEW s \in Cpus(Bus, now), NEW d \in 0 .. 6, NEW b \in Byte
    PROVE  LET a == s.r[d]
               c == Bit(s.psl, WC) * Bit(s.psl, CARRY)
               t == Add(s, d, b)
           IN  /\ Computed(s, t, d, (a + b + c) % 256)
               /\ ModesKept(s, t)
               /\ Bit(t.psl, CARRY) = (a + b + c) \div 256
               /\ Bit(t.psl, IDC) = ((a % 16) + (b % 16) + c) \div 16
<1> DEFINE a == s.r[d]
           wc == Bit(s.psl, WC)
           cy == Bit(s.psl, CARRY)
           c == wc * cy
           v == (a + b + c) % 256
           out == (a + b + c) \div 256
           x == XorBits(v, a)
           idc == Bit(XorBits(x, b), 16)
           o1 == Bit(XorBits(a, v), 128)
           o2 == Bit(XorBits(b, v), 128)
           ovf == o1 * o2
           p == SetFlags(s.psl, out, idc, ovf)
           t == Add(s, d, b)
<1>1. a \in Byte /\ s.psl \in Byte
  BY Parts, RegisterIn
<1>2. c \in {0, 1}
  <2>1. wc \in {0, 1} /\ cy \in {0, 1}
    BY <1>1, FlagBits
  <2> HIDE DEF wc, cy
  <2>2. QED
    BY <2>1
<1>3. t = Load([s EXCEPT !.psl = p], d, v)
  BY DEF Add
<1>4. idc = ((a % 16) + (b % 16) + c) \div 16
  <2> HIDE DEF a, c
  <2>1. QED
    BY <1>1, <1>2, DigitCarry
<1> HIDE DEF a, c, t
<1>5. v \in Byte /\ out \in {0, 1}
  BY <1>1, <1>2 DEF Byte
<1>6. idc \in {0, 1} /\ o1 \in {0, 1} /\ o2 \in {0, 1}
  <2> HIDE DEF v
  <2>1. x \in Byte
    BY <1>1, <1>5, XorIs
  <2> HIDE DEF x
  <2>2. QED
    BY <1>1, <1>5, <2>1, XorBit DEF Masks
<1> HIDE DEF v, out, idc, o1, o2
<1>7. ovf \in {0, 1}
  BY <1>6
<1> HIDE DEF ovf
<1>8. /\ p \in Byte /\ Bit(p, CARRY) = out /\ Bit(p, IDC) = idc
      /\ \A m \in {COM, WC, RS} : Bit(p, m) = Bit(s.psl, m)
  BY <1>1, <1>5, <1>6, <1>7, SetFlagsIs
<1> HIDE DEF p
<1>9. Computed(s, t, d, v) /\ \A m \in {1, 2, 4, 8, 16, 32} : Bit(t.psl, m) = Bit(p, m)
  BY <1>3, <1>5, <1>8, LoadIs
<1>10. {CARRY, IDC, COM, WC, RS} \subseteq {1, 2, 4, 8, 16, 32}
  BY DEF CARRY, IDC, COM, WC, RS
<1>11. Computed(s, t, d, v) /\ ModesKept(s, t) /\ Bit(t.psl, CARRY) = out /\ Bit(t.psl, IDC) = idc
  BY <1>8, <1>9, <1>10 DEF ModesKept
<1>12. QED
  BY <1>4, <1>11 DEF a, c, t, v, out

\* What a subtraction computes: the overflow is that of the signed difference.
LEMMA SubIs ==
    ASSUME NEW Bus, NEW now \in Nat, NEW s \in Cpus(Bus, now), NEW d \in 0 .. 6, NEW b \in Byte
    PROVE  LET a == s.r[d]
               c == Bit(s.psl, WC) * (1 - Bit(s.psl, CARRY))
               v == (a - b - c) % 256
               t == Sub(s, d, b)
           IN  /\ Computed(s, t, d, v)
               /\ ModesKept(s, t)
               /\ Bit(t.psl, CARRY) = IF a - b - c < 0 THEN 0 ELSE 1
               /\ Bit(t.psl, IDC) = 0 <=> (a % 16) < (b % 16) + c
               /\ Bit(t.psl, OVF) = 1 <=> ((a < 128) # (b < 128)) /\ ((a < 128) # (v < 128))
<1> DEFINE a == s.r[d]
           wc == Bit(s.psl, WC)
           cy == Bit(s.psl, CARRY)
           c == wc * (1 - cy)
           diff == a - b - c
           v == (a - b - c) % 256
           out == IF a - b - c < 0 THEN 0 ELSE 1
           x == XorBits(v, a)
           i == Bit(XorBits(x, b), 16)
           idc == 1 - i
           o1 == Bit(XorBits(a, b), 128)
           o2 == Bit(XorBits(a, v), 128)
           ovf == o1 * o2
           p == SetFlags(s.psl, out, idc, ovf)
           t == Sub(s, d, b)
<1>1. a \in Byte /\ s.psl \in Byte
  BY Parts, RegisterIn
<1>2. c \in {0, 1}
  <2>1. wc \in {0, 1} /\ cy \in {0, 1}
    BY <1>1, FlagBits
  <2> HIDE DEF wc, cy
  <2>2. QED
    BY <2>1
<1>3. t = Load([s EXCEPT !.psl = p], d, v)
  BY DEF Sub
<1>4. idc = 0 <=> (a % 16) < (b % 16) + c
  <2> HIDE DEF a, c
  <2>1. QED
    BY <1>1, <1>2, DigitBorrow
<1> HIDE DEF a, c, t
<1>5. v \in Byte /\ out \in {0, 1}
  BY <1>1, <1>2 DEF Byte
<1>6. i \in {0, 1}
  <2> HIDE DEF v
  <2>1. x \in Byte
    BY <1>1, <1>5, XorIs
  <2> HIDE DEF x
  <2>2. QED
    BY <1>1, <1>5, <2>1, XorBit DEF Masks
<1> HIDE DEF v, out, i
<1>7. /\ o1 \in {0, 1} /\ o2 \in {0, 1}
      /\ o1 = 1 <=> ((a < 128) # (b < 128))
      /\ o2 = 1 <=> ((a < 128) # (v < 128))
  BY <1>1, <1>5, Signs
<1> HIDE DEF o1, o2
<1>8. ovf \in {0, 1} /\ (ovf = 1 <=> ((a < 128) # (b < 128)) /\ ((a < 128) # (v < 128)))
  <2>1. ovf \in {0, 1} /\ (ovf = 1 <=> o1 = 1 /\ o2 = 1)
    BY <1>7
  <2>2. QED
    BY <1>7, <2>1
<1>9. idc \in {0, 1}
  BY <1>6
<1> HIDE DEF ovf, idc
<1>10. /\ p \in Byte /\ Bit(p, CARRY) = out /\ Bit(p, IDC) = idc /\ Bit(p, OVF) = ovf
       /\ \A m \in {COM, WC, RS} : Bit(p, m) = Bit(s.psl, m)
  BY <1>1, <1>5, <1>8, <1>9, SetFlagsIs
<1> HIDE DEF p
<1>11. Computed(s, t, d, v) /\ \A m \in {1, 2, 4, 8, 16, 32} : Bit(t.psl, m) = Bit(p, m)
  BY <1>3, <1>5, <1>10, LoadIs
<1>12. {CARRY, IDC, OVF, COM, WC, RS} \subseteq {1, 2, 4, 8, 16, 32}
  BY DEF CARRY, IDC, OVF, COM, WC, RS
<1>13. /\ Computed(s, t, d, v) /\ ModesKept(s, t)
       /\ Bit(t.psl, CARRY) = out /\ Bit(t.psl, IDC) = idc /\ Bit(t.psl, OVF) = ovf
  BY <1>10, <1>11, <1>12 DEF ModesKept
<1>14. QED
  BY <1>4, <1>8, <1>13 DEF a, c, t, v, out

\* What a comparison tells, and that it changes nothing else.
LEMMA ComIs ==
    ASSUME NEW Bus, NEW now \in Nat, NEW s \in Cpus(Bus, now), NEW a \in Byte, NEW b \in Byte
    PROVE  LET t == Com(s, a, b)
               less == IF Bit(s.psl, COM) = 1 THEN a < b ELSE Signed(a) < Signed(b)
           IN  /\ CC(t) = IF less THEN 2 ELSE IF a = b THEN 0 ELSE 1
               /\ t.r = s.r
               /\ \A m \in {1, 2, 4, 8, 16, 32} : Bit(t.psl, m) = Bit(s.psl, m)
<1> DEFINE logical == Bit(s.psl, COM) = 1
           x == IF logical THEN a ELSE Signed(a)
           y == IF logical THEN b ELSE Signed(b)
           cc == IF x < y THEN 2 ELSE IF x = y THEN 0 ELSE 1
           psl == SetCC(s.psl, cc)
           t == Com(s, a, b)
<1>1. t = [s EXCEPT !.psl = psl]
  BY DEF Com
<1>2. x = y <=> a = b
  BY DEF Signed, Byte
<1>3. x < y <=> IF Bit(s.psl, COM) = 1 THEN a < b ELSE Signed(a) < Signed(b)
  OBVIOUS
<1> HIDE DEF x, y
<1>4. cc \in 0 .. 3
  OBVIOUS
<1>5. s.psl \in Byte
  BY Parts
<1> HIDE DEF cc
<1>6. psl \div 64 = cc /\ \A m \in {1, 2, 4, 8, 16, 32} : Bit(psl, m) = Bit(s.psl, m)
  BY <1>4, <1>5, SetCCIs
<1> HIDE DEF psl, t
<1>7. t.psl = psl /\ t.r = s.r
  BY <1>1 DEF Cpus
<1>8. CC(t) = cc
  BY <1>6, <1>7 DEF CC
<1>9. cc = IF IF Bit(s.psl, COM) = 1 THEN a < b ELSE Signed(a) < Signed(b)
           THEN 2 ELSE IF a = b THEN 0 ELSE 1
  BY <1>2, <1>3 DEF cc
<1>10. QED
  BY <1>6, <1>7, <1>8, <1>9 DEF t

\* What a decimal adjustment computes.
LEMMA DarIs ==
    ASSUME NEW Bus, NEW now \in Nat, NEW s \in Cpus(Bus, now), NEW d \in 0 .. 6
    PROVE  LET a == s.r[d]
               high == IF Bit(s.psl, CARRY) = 0 THEN (a + 160) % 256 ELSE a
               v == IF Bit(s.psl, IDC) = 0 THEN high - (high % 16) + ((high + 10) % 16) ELSE high
               t == Dar(s, d)
           IN  Computed(s, t, d, v) /\ t.psl = s.psl
<1> DEFINE a == s.r[d]
           high == IF Bit(s.psl, CARRY) = 0 THEN (a + 160) % 256 ELSE a
           v == IF Bit(s.psl, IDC) = 0 THEN high - (high % 16) + ((high + 10) % 16) ELSE high
<1>1. Dar(s, d) = [s EXCEPT !.r[d] = v]
  BY DEF Dar
<1> HIDE DEF v
<1>2. Computed(s, Dar(s, d), d, v) /\ Dar(s, d).psl = s.psl
  BY <1>1 DEF Computed, Cpus
<1>3. QED
  BY <1>2 DEF v

\* The byte y is x with bit m made b.
Marked(x, m, b, y) ==
    y \in Byte /\ \A n \in Masks : Bit(y, n) = IF n = m THEN b ELSE Bit(x, n)

LEMMA Marking ==
    ASSUME NEW x \in Byte, NEW m \in Masks, NEW b \in {0, 1}
    PROVE  Marked(x, m, b, SetBit(x, m, b))
BY SetBitIs DEF Marked

\* What a rotation computes, and where the carry ends.
LEMMA RotateIs ==
    ASSUME NEW Bus, NEW now \in Nat, NEW s \in Cpus(Bus, now), NEW d \in 0 .. 6,
           NEW left \in BOOLEAN
    PROVE  LET a == s.r[d]
               out == IF left THEN a \div 128 ELSE a % 2
               in == IF Bit(s.psl, WC) = 1 THEN Bit(s.psl, CARRY) ELSE out
               v == IF left THEN ((a * 2) % 256) + in ELSE (a \div 2) + 128 * in
               t == Rotate(s, d, left)
           IN  /\ v \in Byte /\ out \in {0, 1} /\ in \in {0, 1}
               /\ Computed(s, t, d, v)
               /\ ModesKept(s, t)
               /\ Bit(t.psl, CARRY) = IF Bit(s.psl, WC) = 1 THEN out ELSE Bit(s.psl, CARRY)
<1> DEFINE a == s.r[d]
           wc == Bit(s.psl, WC) = 1
           cy == Bit(s.psl, CARRY)
           out == IF left THEN a \div 128 ELSE a % 2
           in == IF wc THEN cy ELSE out
           v == IF left THEN ((a * 2) % 256) + in ELSE (a \div 2) + 128 * in
           h == Bit(v, 32)
           p == SetBit(s.psl, CARRY, out)
           q == SetBit(p, IDC, h)
           psl == IF wc THEN q ELSE s.psl
           o == Bit(XorBits(v, a), 128)
           w == SetBit(psl, OVF, o)
           t == Rotate(s, d, left)
<1>1. a \in Byte /\ s.psl \in Byte /\ wc \in BOOLEAN
  BY Parts, RegisterIn
<1>2. cy \in {0, 1}
  BY <1>1, FlagBits
<1>3. t = Load([s EXCEPT !.psl = w], d, v)
  BY DEF Rotate
<1>4. /\ CARRY \in Masks /\ IDC \in Masks /\ OVF \in Masks /\ 32 \in Masks /\ 128 \in Masks
      /\ COM \in Masks /\ WC \in Masks /\ RS \in Masks
      /\ CARRY # IDC /\ CARRY # OVF
      /\ \A m \in {COM, WC, RS} : m # CARRY /\ m # IDC /\ m # OVF
      /\ {CARRY, COM, WC, RS} \subseteq {1, 2, 4, 8, 16, 32}
  BY DEF CARRY, IDC, OVF, COM, WC, RS, Masks
<1> HIDE DEF a, t
<1>5. out \in {0, 1}
  BY <1>1 DEF Byte
<1> HIDE DEF out
<1>6. in \in {0, 1}
  BY <1>2, <1>5
<1> HIDE DEF in
<1>7. v \in Byte
  BY <1>1, <1>6 DEF Byte
<1> HIDE DEF v
<1>8. h \in {0, 1} /\ o \in {0, 1}
  BY <1>1, <1>4, <1>7, ByteIs, XorBit
<1> HIDE DEF h, o
<1>9. Marked(s.psl, CARRY, out, p)
  BY <1>1, <1>4, <1>5, Marking
<1> HIDE DEF p
<1>10. Marked(p, IDC, h, q)
  <2>1. p \in Byte
    BY <1>9 DEF Marked
  <2>2. QED
    BY <1>4, <1>8, <2>1, Marking
<1> HIDE DEF q
<1>11. /\ psl \in Byte /\ Bit(psl, CARRY) = IF wc THEN out ELSE cy
       /\ \A m \in {COM, WC, RS} : Bit(psl, m) = Bit(s.psl, m)
  <2>1. CASE wc
    BY <1>4, <1>9, <1>10, <2>1 DEF Marked
  <2>2. CASE ~wc
    BY <1>1, <2>2
  <2>3. QED
    BY <1>1, <2>1, <2>2
<1> HIDE DEF psl
<1>12. Marked(psl, OVF, o, w)
  <2>1. psl \in Byte
    BY <1>11
  <2>2. QED
    BY <1>4, <1>8, <2>1, Marking
<1> HIDE DEF w
<1>13. Computed(s, t, d, v) /\ \A m \in {1, 2, 4, 8, 16, 32} : Bit(t.psl, m) = Bit(w, m)
  BY <1>3, <1>7, <1>12, LoadIs DEF Marked
<1>14. ModesKept(s, t) /\ Bit(t.psl, CARRY) = IF wc THEN out ELSE cy
  BY <1>4, <1>11, <1>12, <1>13 DEF Marked, ModesKept
<1>15. QED
  BY <1>5, <1>6, <1>7, <1>13, <1>14 DEF a, wc, cy, out, in, v, t

(***************************************************************************)
(* What an instruction leaves alone.                                       *)
(***************************************************************************)

\* The flow of control: neither pc nor the return stack, nor a byte counted as
\* illegal.
FlowKept(s, t) == t.pc = s.pc /\ t.ras = s.ras /\ t.illegal = s.illegal

\* What loads, combines, compares or tests keeps the flow and the bus.
LEMMA LoadKeeps ==
    ASSUME NEW Bus, NEW now \in Nat, NEW s \in Cpus(Bus, now), NEW d, NEW v
    PROVE  FlowKept(s, Load(s, d, v)) /\ Load(s, d, v).bus = s.bus
BY DEF Load, FlowKept, Cpus

LEMMA PslKeeps ==
    ASSUME NEW Bus, NEW now \in Nat, NEW s \in Cpus(Bus, now), NEW psl
    PROVE  LET t == [s EXCEPT !.psl = psl] IN FlowKept(s, t) /\ t.bus = s.bus
BY DEF FlowKept, Cpus

LEMMA TestKeeps ==
    ASSUME NEW Bus, NEW now \in Nat, NEW s \in Cpus(Bus, now), NEW v, NEW m
    PROVE  FlowKept(s, TestBits(s, v, m))
<1> DEFINE psl == SetCC(s.psl, IF AndBits(v, m) = m THEN 0 ELSE 2)
<1>1. TestBits(s, v, m) = [s EXCEPT !.psl = psl]
  BY DEF TestBits
<1> HIDE DEF psl
<1>2. QED
  BY <1>1, PslKeeps

LEMMA ComKeeps ==
    ASSUME NEW Bus, NEW now \in Nat, NEW s \in Cpus(Bus, now), NEW a, NEW b
    PROVE  FlowKept(s, Com(s, a, b)) /\ Com(s, a, b).bus = s.bus
<1> DEFINE logical == Bit(s.psl, COM) = 1
           x == IF logical THEN a ELSE Signed(a)
           y == IF logical THEN b ELSE Signed(b)
           psl == SetCC(s.psl, IF x < y THEN 2 ELSE IF x = y THEN 0 ELSE 1)
<1>1. Com(s, a, b) = [s EXCEPT !.psl = psl]
  BY DEF Com
<1> HIDE DEF psl
<1>2. QED
  BY <1>1, PslKeeps

LEMMA SumKeeps ==
    ASSUME NEW Bus, NEW now \in Nat, NEW s \in Cpus(Bus, now), NEW d \in 0 .. 6, NEW b \in Byte
    PROVE  /\ FlowKept(s, Add(s, d, b)) /\ Add(s, d, b).bus = s.bus
           /\ FlowKept(s, Sub(s, d, b)) /\ Sub(s, d, b).bus = s.bus
<1>1. ASSUME NEW t, NEW v, Computed(s, t, d, v)
      PROVE  FlowKept(s, t) /\ t.bus = s.bus
  BY <1>1 DEF Computed, FlowKept
<1>2. \E v : Computed(s, Add(s, d, b), d, v)
  BY AddIs
<1>3. \E v : Computed(s, Sub(s, d, b), d, v)
  BY SubIs
<1>4. QED
  BY <1>1, <1>2, <1>3

LEMMA CombineKeeps ==
    ASSUME NEW Bus, NEW now \in Nat, NEW op \in Combines, NEW o \in Operation(Bus, now)
    PROVE  FlowKept(o.s, Combine(op, o).s) /\ Combine(op, o).s.bus = o.s.bus
<1> DEFINE s == o.s
           d == o.d
           v == o.v
           a == s.r[d]
           t1 == Load(s, d, v)
           t2 == Load(s, d, XorBits(a, v))
           t3 == Load(s, d, AndBits(a, v))
           t4 == Load(s, d, OrBits(a, v))
           t5 == Add(s, d, v)
           t6 == Sub(s, d, v)
           t7 == Com(s, a, v)
           Kept(t) == FlowKept(s, t) /\ t.bus = s.bus
<1>1. /\ op \in 0 .. 15    => Combine(op, o) = [k |-> o.k, s |-> t1]
      /\ op \in 32 .. 47   => Combine(op, o) = [k |-> o.k, s |-> t2]
      /\ op \in 65 .. 79   => Combine(op, o) = [k |-> o.k, s |-> t3]
      /\ op \in 96 .. 111  => Combine(op, o) = [k |-> o.k, s |-> t4]
      /\ op \in 128 .. 143 => Combine(op, o) = [k |-> o.k, s |-> t5]
      /\ op \in 160 .. 175 => Combine(op, o) = [k |-> o.k, s |-> t6]
      /\ op \in 224 .. 239 => Combine(op, o) = [k |-> o.k, s |-> t7]
  BY CombineIs
<1>2. s \in Cpus(Bus, now) /\ d \in 0 .. 6 /\ v \in Byte
  BY DEF Operation
<1> HIDE DEF s, d, v, a
<1>3. Kept(t1) /\ Kept(t2) /\ Kept(t3) /\ Kept(t4)
  BY <1>2, LoadKeeps
<1>4. Kept(t5)
  BY <1>2, SumKeeps
<1>5. Kept(t6)
  BY <1>2, SumKeeps
<1>6. Kept(t7)
  BY <1>2, ComKeeps
<1> HIDE DEF t1, t2, t3, t4, t5, t6, t7, Kept
<1>7. Kept(Combine(op, o).s)
  BY <1>1, <1>3, <1>4, <1>5, <1>6 DEF Combines
<1>8. QED
  BY <1>7 DEF Kept, s

LEMMA DarKeeps ==
    ASSUME NEW Bus, NEW now \in Nat, NEW s \in Cpus(Bus, now), NEW d
    PROVE  FlowKept(s, Dar(s, d))
<1> DEFINE a == s.r[d]
           high == IF Bit(s.psl, CARRY) = 0 THEN (a + 160) % 256 ELSE a
           v == IF Bit(s.psl, IDC) = 0 THEN high - (high % 16) + ((high + 10) % 16) ELSE high
<1>1. Dar(s, d) = [s EXCEPT !.r[d] = v]
  BY DEF Dar
<1> HIDE DEF v
<1>2. QED
  BY <1>1 DEF FlowKept, Cpus

LEMMA RotateKeeps ==
    ASSUME NEW Bus, NEW now \in Nat, NEW s \in Cpus(Bus, now), NEW d, NEW left \in BOOLEAN
    PROVE  FlowKept(s, Rotate(s, d, left))
<1> DEFINE a == s.r[d]
           wc == Bit(s.psl, WC) = 1
           out == IF left THEN a \div 128 ELSE a % 2
           in == IF wc THEN Bit(s.psl, CARRY) ELSE out
           v == IF left THEN ((a * 2) % 256) + in ELSE (a \div 2) + 128 * in
           psl == IF wc THEN SetBit(SetBit(s.psl, CARRY, out), IDC, Bit(v, 32)) ELSE s.psl
           p == SetBit(psl, OVF, Bit(XorBits(v, a), 128))
           q == SetCC(p, CcOf(v))
<1>1. Rotate(s, d, left) = Load([s EXCEPT !.psl = p], d, v)
  BY DEF Rotate
<1> HIDE DEF p, v
<1>2. Load([s EXCEPT !.psl = p], d, v) = [s EXCEPT !.r[d] = v, !.psl = q]
  BY DEF Load, Cpus
<1> HIDE DEF q
<1>3. QED
  BY <1>1, <1>2 DEF FlowKept, Cpus

\* So does what has to do with PSU, the bus apart.
LEMMA WritePsuKeeps ==
    ASSUME NEW Bus, NEW now \in Nat, NEW s \in Cpus(Bus, now), NEW v
    PROVE  FlowKept(s, WritePsu(s, v))
<1> DEFINE level == Bit(v, FLAG)
           b == IF level # Bit(s.psu, FLAG) THEN BusFlag(s.bus, level) ELSE s.bus
<1>1. WritePsu(s, v) = [s EXCEPT !.psu = v, !.bus = b]
  BY DEF WritePsu
<1> HIDE DEF b
<1>2. QED
  BY <1>1 DEF FlowKept, Cpus

LEMMA ReadPsuKeeps ==
    ASSUME NEW Bus, NEW now \in Nat, NEW s \in Cpus(Bus, now)
    PROVE  FlowKept(s, ReadPsu(s).s)
<1> DEFINE q == BusSense(s.bus)
           v == IF q.v = 1 THEN SetBit(s.psu, SENSE, 1) ELSE s.psu
           x == [q EXCEPT !.v = v]
           c == x.bus
<1>1. ReadPsu(s) = [v |-> x.v, s |-> [s EXCEPT !.bus = x.bus]]
  BY DEF ReadPsu, Took
<1>2. ReadPsu(s).s = [s EXCEPT !.bus = c]
  BY <1>1
<1> HIDE DEF c
<1>3. QED
  BY <1>2 DEF FlowKept, Cpus

LEMMA ImmediateKeeps ==
    ASSUME NEW Bus, NEW now \in Nat, BusOK(Bus), NEW s \in Cpus(Bus, now), NEW op \in Immediates,
           NEW imm, imm.v \in Byte, imm.s \in Cpus(Bus, now)
    PROVE  FlowKept(imm.s, Immediate(s, op, imm))
<1> DEFINE x == Ri(s, op % 4)
           m == imm.v
           t == imm.s
           u == ReadPsu(t)
           p1 == Without(s.psu, Without(m, SENSE))
           p2 == OrBits(s.psu, Without(m, SENSE + UNUSED))
           l1 == Without(t.psl, m)
           l2 == OrBits(t.psl, m)
           t1 == WritePsu(t, p1)
           t2 == WritePsu(t, p2)
           t3 == [t EXCEPT !.psl = l1]
           t4 == [t EXCEPT !.psl = l2]
           t5 == TestBits(u.s, u.v, m)
           t6 == TestBits(t, s.psl, m)
           t7 == TestBits(t, s.r[x], m)
           t8 == Load(t, x, 0)
<1>1. /\ op = 116 => Immediate(s, op, imm) = t1
      /\ op = 118 => Immediate(s, op, imm) = t2
      /\ op = 117 => Immediate(s, op, imm) = t3
      /\ op = 119 => Immediate(s, op, imm) = t4
      /\ op = 180 => Immediate(s, op, imm) = t5
      /\ op = 181 => Immediate(s, op, imm) = t6
      /\ op \in 244 .. 247 => Immediate(s, op, imm) = t7
      /\ op \in 84 .. 87 => Immediate(s, op, imm) = t8
      /\ op \in 212 .. 215 => Immediate(s, op, imm) = t
  BY DEF Immediate
<1> HIDE DEF x
<1>2. m \in Byte /\ t \in Cpus(Bus, now)
  OBVIOUS
<1> HIDE DEF m, t
<1> HIDE DEF p1, p2, l1, l2
<1>5. FlowKept(t, t1) /\ FlowKept(t, t2)
  BY <1>2, WritePsuKeeps
<1>6. FlowKept(t, t3) /\ FlowKept(t, t4)
  BY <1>2, PslKeeps
<1>7. FlowKept(t, t5)
  <2>1. u.s \in Cpus(Bus, now) /\ FlowKept(t, u.s)
    BY <1>2, ReadPsuType, ReadPsuKeeps
  <2> HIDE DEF u
  <2>2. FlowKept(u.s, t5)
    BY <2>1, TestKeeps
  <2>3. QED
    BY <2>1, <2>2 DEF FlowKept
<1>8. FlowKept(t, t6) /\ FlowKept(t, t7) /\ FlowKept(t, t8) /\ FlowKept(t, t)
  BY <1>2, TestKeeps, LoadKeeps DEF FlowKept
<1> HIDE DEF t1, t2, t3, t4, t5, t6, t7, t8
<1>9. FlowKept(t, Immediate(s, op, imm))
  BY <1>1, <1>5, <1>6, <1>7, <1>8 DEF Immediates
<1>10. QED
  BY <1>9 DEF t

\* An illegal opcode is counted; of the instructions of one byte only a return
\* that is taken goes elsewhere.
LEMMA InherentKeeps ==
    ASSUME NEW Bus, NEW now \in Nat, BusOK(Bus), NEW s \in Cpus(Bus, now), NEW op \in Byte,
           op \notin Combines, op \notin 200 .. 207, op \notin Immediates,
           op \notin Branches, op \notin Specials
    PROVE  LET t == Inherent(s, op)
           IN  /\ op \in Illegal => t.pc = s.pc /\ t.illegal = s.illegal + 1
               /\ op \notin Illegal => t.illegal = s.illegal
               /\ op \notin Illegal /\ (op \in 20 .. 23 \cup 52 .. 55 => ~Cond(s, op % 4))
                  => FlowKept(s, t)
<1> DEFINE n == op % 4
           x == Ri(s, n)
           r0 == s.r[0]
           cond == Cond(s, n)
           pop == Pop(s)
           popped == IF cond THEN pop ELSE s
           u == ReadPsu(s)
           un == Without(u.v, UNUSED)
           count == s.illegal + 1
           ps == Without(r0, SENSE + UNUSED)
           pu == SetBit(pop.psu, II, 0)
           t1 == [s EXCEPT !.halted = TRUE]
           t2 == [s EXCEPT !.illegal = count]
           t3 == Load(s, x, r0)
           t4 == Load(u.s, 0, un)
           t5 == Load(s, 0, s.psl)
           t6 == WritePsu(s, ps)
           t7 == [s EXCEPT !.psl = r0]
           t8 == [pop EXCEPT !.psu = pu]
           t9 == Rotate(s, x, Right)
           t10 == Rotate(s, x, Left)
           t11 == Dar(s, x)
           t12 == Load(s, x, 0)
           t == Inherent(s, op)
<1>1. /\ op = 64 => t = t1
      /\ op = 192 => t = s
      /\ op \in Illegal => t = t2
      /\ op \in 193 .. 195 => t = t3
      /\ op = 18 => t = t4
      /\ op = 19 => t = t5
      /\ op = 146 => t = t6
      /\ op = 147 => t = t7
      /\ op \in 20 .. 23 => t = popped
      /\ op \in 52 .. 55 => t = IF cond THEN [popped EXCEPT !.psu = SetBit(popped.psu, II, 0)] ELSE s
      /\ op \in 80 .. 83 => t = t9
      /\ op \in 208 .. 211 => t = t10
      /\ op \in 148 .. 151 => t = t11
      /\ op \in (48 .. 51) \cup (112 .. 115) => t = t12
      /\ op \in (176 .. 179) \cup (240 .. 243) => t = s
  <2>1. op = 64 => t = t1
    BY DEF Inherent, Illegal
  <2>2. op = 192 => t = s
    BY DEF Inherent, Illegal
  <2>3. op \in Illegal => t = t2
    BY DEF Inherent, Illegal
  <2>4. op \in 193 .. 195 => t = t3
    BY DEF Inherent, Illegal
  <2>5. op = 18 => t = t4
    BY DEF Inherent, Illegal
  <2>6. op = 19 => t = t5
    BY DEF Inherent, Illegal
  <2>7. op = 146 => t = t6
    BY DEF Inherent, Illegal
  <2>8. op = 147 => t = t7
    BY DEF Inherent, Illegal
  <2>9. op \in 20 .. 23 => t = popped
    BY DEF Inherent, Illegal
  <2>10. op \in 52 .. 55 => t = IF cond THEN [popped EXCEPT !.psu = SetBit(popped.psu, II, 0)] ELSE s
    BY DEF Inherent, Illegal
  <2>11. op \in 80 .. 83 => t = t9
    BY DEF Inherent, Illegal
  <2>12. op \in 208 .. 211 => t = t10
    BY DEF Inherent, Illegal
  <2>13. op \in 148 .. 151 => t = t11
    BY DEF Inherent, Illegal
  <2>14. op \in (48 .. 51) \cup (112 .. 115) => t = t12
    BY DEF Inherent, Illegal
  <2>15. op \in (176 .. 179) \cup (240 .. 243) => t = s
    BY DEF Inherent, Illegal
  <2>16. QED
    BY <2>1, <2>2, <2>3, <2>4, <2>5, <2>6, <2>7, <2>8, <2>9, <2>10, <2>11, <2>12, <2>13, <2>14, <2>15
<1>2. (IF cond THEN [popped EXCEPT !.psu = SetBit(popped.psu, II, 0)] ELSE s)
          = IF cond THEN t8 ELSE s
  OBVIOUS
<1>4. cond = Cond(s, op % 4)
  OBVIOUS
<1> HIDE DEF n, t
<1> HIDE DEF x
<1>8. FlowKept(s, t1) /\ t2.pc = s.pc /\ t2.illegal = count
  <2> HIDE DEF count
  <2>1. QED
    BY DEF FlowKept, Cpus
<1>9. FlowKept(s, t4)
  <2>1. u.s \in Cpus(Bus, now) /\ FlowKept(s, u.s)
    BY ReadPsuType, ReadPsuKeeps
  <2> HIDE DEF u, un
  <2>2. FlowKept(u.s, t4)
    BY <2>1, LoadKeeps
  <2>3. QED
    BY <2>1, <2>2 DEF FlowKept
<1>10. pop.illegal = s.illegal /\ t8.illegal = s.illegal
  <2> DEFINE pc == s.ras[SP(s)]
             psu == SetSP(s.psu, (SP(s) - 1) % 8)
  <2>1. pop = [s EXCEPT !.pc = pc, !.psu = psu]
    BY DEF Pop
  <2>2. pop \in Cpus(Bus, now)
    BY PopType
  <2> HIDE DEF pc, psu, pu
  <2>3. pop.illegal = s.illegal
    BY <2>1 DEF Cpus
  <2> HIDE DEF pop
  <2>4. t8.illegal = pop.illegal
    BY <2>2 DEF Cpus
  <2>5. QED
    BY <2>3, <2>4
<1> HIDE DEF r0, cond, pop, u, un, ps, pu
<1>11. /\ FlowKept(s, t3) /\ FlowKept(s, t5) /\ FlowKept(s, t6) /\ FlowKept(s, t7)
       /\ FlowKept(s, t12) /\ FlowKept(s, s)
  BY LoadKeeps, WritePsuKeeps, PslKeeps DEF FlowKept
<1>12. FlowKept(s, t9) /\ FlowKept(s, t10) /\ FlowKept(s, t11)
  <2>1. Left \in BOOLEAN /\ Right \in BOOLEAN
    BY DEF Left, Right
  <2>2. QED
    BY <2>1, RotateKeeps, DarKeeps
<1> HIDE DEF t1, t2, t3, t4, t5, t6, t7, t8, t9, t10, t11, t12
<1>13. op \in {18, 19, 64, 146, 147, 192} \cup Illegal \cup 193 .. 195 \cup 20 .. 23 \cup 52 .. 55
              \cup 80 .. 83 \cup 208 .. 211 \cup 148 .. 151 \cup 48 .. 51 \cup 112 .. 115
              \cup 176 .. 179 \cup 240 .. 243
  BY DEF Byte, Combines, Immediates, Branches, Specials, Illegal
<1>14. op \in Illegal => t.pc = s.pc /\ t.illegal = count
  BY <1>1, <1>8
<1>15. op \notin Illegal /\ op \notin 20 .. 23 \cup 52 .. 55 => FlowKept(s, t)
  BY <1>1, <1>8, <1>9, <1>11, <1>12, <1>13
<1>16. op \in 20 .. 23 \cup 52 .. 55 =>
           t.illegal = s.illegal /\ (~cond => FlowKept(s, t))
  BY <1>1, <1>2, <1>10, <1>11
<1>17. QED
  BY <1>4, <1>14, <1>15, <1>16 DEF t, count, FlowKept

\* A push moves the stack pointer up and leaves the pc there; a jump goes where it says.
LEMMA PushIs ==
    ASSUME NEW Bus, NEW now \in Nat, NEW s \in Cpus(Bus, now)
    PROVE  LET t == Push(s)
           IN  /\ t.pc = s.pc /\ t.illegal = s.illegal /\ t.bus = s.bus
               /\ SP(t) = (SP(s) + 1) % 8 /\ t.ras[SP(t)] = s.pc
<1> DEFINE sp == (SP(s) + 1) % 8
           psu == SetSP(s.psu, sp)
           pc == s.pc
           t == Push(s)
<1>1. sp \in 0 .. 7
  BY SPType
<1>2. psu % 8 = sp
  <2>1. s.psu \in Byte
    BY Parts DEF Psu
  <2> DEFINE p == s.psu
             q == p \div 8
  <2>2. p \in Int /\ q \in Int /\ p = 8 * q + (p % 8)
    BY <2>1 DEF Byte
  <2>3. psu = SetSP(p, sp)
    OBVIOUS
  <2> HIDE DEF sp, p, q
  <2>4. SetSP(p, sp) = 8 * q + sp
    BY <1>1, <2>2 DEF SetSP
  <2> HIDE DEF psu
  <2>5. QED
    BY <1>1, <2>2, <2>3, <2>4
<1>3. t = [s EXCEPT !.psu = psu, !.ras[sp] = pc]
  BY DEF Push
<1> HIDE DEF psu, sp, pc, t
<1>4. /\ t.pc = s.pc /\ t.illegal = s.illegal /\ t.bus = s.bus
      /\ t.psu = psu /\ t.ras[sp] = pc
  BY <1>1, <1>3 DEF Cpus
<1>5. SP(t) = sp
  BY <1>2, <1>4 DEF SP
<1>6. QED
  BY <1>4, <1>5 DEF t, sp, pc

\* A jump goes there; with a push, the return stack holds where it came from.
LEMMA JumpIs ==
    ASSUME NEW Bus, NEW now \in Nat, NEW s \in Cpus(Bus, now), NEW ea, NEW call \in BOOLEAN
    PROVE  LET t == Jump(s, ea, call)
           IN  /\ t.pc = ea /\ t.illegal = s.illegal /\ t.bus = s.bus
               /\ call => SP(t) = (SP(s) + 1) % 8 /\ t.ras[SP(t)] = s.pc
<1> DEFINE p == Push(s)
           u == IF call THEN p ELSE s
           t == Jump(s, ea, call)
           v == [u EXCEPT !.pc = ea]
<1>1. p \in Cpus(Bus, now)
  BY PushType
<1>2. /\ p.illegal = s.illegal /\ p.bus = s.bus
      /\ SP(p) = (SP(s) + 1) % 8 /\ p.ras[SP(p)] = s.pc
  BY PushIs
<1>3. t = v
  BY DEF Jump
<1> HIDE DEF p, t
<1>4. u \in Cpus(Bus, now)
  BY <1>1
<1>5. /\ u.illegal = s.illegal /\ u.bus = s.bus
      /\ call => SP(u) = (SP(s) + 1) % 8 /\ u.ras[SP(u)] = s.pc
  BY <1>2
<1> HIDE DEF u
<1>6. v.pc = ea /\ v.illegal = u.illegal /\ v.bus = u.bus /\ v.psu = u.psu /\ v.ras = u.ras
  BY <1>4 DEF Cpus
<1> HIDE DEF v
<1>7. SP(v) = SP(u)
  BY <1>6 DEF SP
<1>8. QED
  BY <1>3, <1>5, <1>6, <1>7 DEF t

=============================================================================
