------------------------------- MODULE Bytes -------------------------------
(***************************************************************************)
(* Bytes and 15-bit addresses as integers.  A bit is named by its mask     *)
(* (1, 2, 4 .. 128), as the source names it.                               *)
(***************************************************************************)
EXTENDS Integers

Byte == 0 .. 255
Address == 0 .. 32767

\* The bit of v that mask m selects, and v with that bit made b.
Bit(v, m) == (v \div m) % 2
SetBit(v, m, b) == v + (b - Bit(v, m)) * m

\* A bitwise operation, from the one it performs on each bit.
Bitwise2(a, b, Op(_, _)) ==
    LET At(m) == Op(Bit(a, m), Bit(b, m)) * m
    IN  At(1) + At(2) + At(4) + At(8) + At(16) + At(32) + At(64) + At(128)

AndBits(a, b) == Bitwise2(a, b, LAMBDA x, y : x * y)
OrBits(a, b)  == Bitwise2(a, b, LAMBDA x, y : x + y - x * y)
XorBits(a, b) == Bitwise2(a, b, LAMBDA x, y : (x + y) % 2)

\* v with the bits of mask m cleared.
Without(v, m) == v - AndBits(v, m)

Least(a, b) == IF a < b THEN a ELSE b

\* A byte read as two's complement.
Signed(v) == IF v < 128 THEN v ELSE v - 256

=============================================================================
