--------------------------- MODULE MCInstruction ---------------------------
(***************************************************************************)
(* Instruction with every opcode at both ends of two pages and operand     *)
(* bytes at the edges of their fields, and programs that compute with      *)
(* every pair of two-digit decimals and the edges of bytes.                *)
(***************************************************************************)
EXTENDS Instruction

MCRam(a) == ((a \div 256) + 3 * a) % 256

\* Registers R0, R1 .. R3 and R1' .. R3'.
Registers(r0, r1, r2, r3, x) == [i \in 0 .. 6 |-> <<r0, r1, r2, r3, x, x, x>>[i + 1]]
Contents == {Registers(0, 1, 255, 130, 7), Registers(255, 0, 1, 0, 1)}

Case(code, r, a, b) == [code |-> code, r |-> r, a |-> a, b |-> b]

Seconds == {0, 1, 5, 31, 32, 63, 64, 95, 126, 127, 128, 190, 224, 255}
Thirds == {0, 1, 255}
Orgs == {0, 100, 8190, 8191, 8192, 16380, 32765}

Codes(op) ==
    IF ~Defined(op) \/ ModeLength(DECODE_TABLE[op].mode) = 1 THEN {<<op>>}
    ELSE IF ModeLength(DECODE_TABLE[op].mode) = 2 THEN {<<op, b>> : b \in Seconds}
    ELSE {<<op, b, c>> : b \in Seconds, c \in Thirds}

\* Condition codes 0 to 2, the second with the other register bank.
One ==
    [ kind |-> "one", steps |-> 1, orgs |-> Orgs, psls |-> {0, 80, 128},
      cases |-> UNION {{Case(code, r, 0, 0) : code \in Codes(op), r \in Contents} : op \in Byte} ]

Edges == {0, 1, 15, 16, 127, 128, 240, 255}
Words == {256 * h + l : h, l \in Edges}

Wide(kind, op, psl) ==
    [ kind |-> kind, steps |-> 2, orgs |-> {0}, psls |-> {psl},
      cases |-> {Case(WideCode(op, b), Registers(a % 256, a \div 256, 0, 0, 0), a, b) : a, b \in Words} ]

DecimalAdd ==
    [ kind |-> "decimal_add", steps |-> 3, orgs |-> {0}, psls |-> {0},
      cases |-> {Case(AddCode(b), Registers(Bcd(a), 0, 0, 0, 0), a, b) :
                    a, b \in 0 .. 99} ]

\* With WC set, after a borrow and without.
DecimalSub ==
    [ kind |-> "decimal_sub", steps |-> 2, orgs |-> {0}, psls |-> {8, 9},
      cases |-> {Case(SubCode(b), Registers(Bcd(a), 0, 0, 0, 0), a, b) :
                    a, b \in 0 .. 99} ]

\* Both registers holding a, arithmetically and logically.
Compare ==
    [ kind |-> "compare", steps |-> 2, orgs |-> {0}, psls |-> {0, 2},
      cases |-> {Case(CompareCode(b), Registers(a, a, 0, 0, 0), a, b) :
                    a \in Byte, b \in Edges} ]

\* rrr,r0 or rrl,r0 eight times, or nine times through the carry.
Rotate(n, psls) ==
    [ kind |-> "rotate", steps |-> n, orgs |-> {0}, psls |-> psls,
      cases |-> {Case(RotateCode(n, op), Registers(a, 0, 0, 0, 0), a, 0) :
                    a \in Byte, op \in {80, 208}} ]

MCSuites ==
    {One, Wide("wide_add", 132, 8), Wide("wide_sub", 164, 9), DecimalAdd, DecimalSub,
     Compare, Rotate(8, {0, 1}), Rotate(9, {8, 9})}
=============================================================================
