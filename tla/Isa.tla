-------------------------------- MODULE Isa --------------------------------
(***************************************************************************)
(* The instruction set as the Python tools have it: the table of base      *)
(* opcodes and addressing modes, the encoder of the assembler and the      *)
(* operands the disassembler shows.  A mnemonic is its base opcode, which  *)
(* is one to one.  The operands of any mode are one record: sel is the     *)
(* register or condition, value the immediate or target, ind the indirect  *)
(* bit (0 or 128), ctl the index control (0, 32, 64 or 96).                *)
(***************************************************************************)
EXTENDS Bytes, Sequences

INDEX_NONE == 0
INDEX_AUTO_INC == 32
INDEX_AUTO_DEC == 64
INDEX_PLAIN == 96
INDIRECT_BIT == 128

LODZ == 0
IORZ == 96

\* The base opcodes of each addressing mode.
INSTRUCTIONS ==
    [ inh    |-> {18, 19, 64, 146, 147, 192},
      reg    |-> {32, 96, 128, 160, 224},
      reg13  |-> {65, 193},
      regz   |-> {LODZ},
      creg   |-> {48, 80, 112, 148, 176, 208, 240},
      ccond  |-> {20, 52},
      imm    |-> {116, 117, 118, 119, 180, 181},
      regimm |-> {4, 36, 68, 84, 100, 132, 164, 212, 228, 244},
      zbr    |-> {155, 187},
      regrel |-> {8, 40, 72, 88, 104, 136, 168, 200, 216, 232, 248},
      crel   |-> {24, 56, 120},
      crel3  |-> {152, 184},
      regabs |-> {92, 220, 252},
      cabs   |-> {28, 60, 124},
      cabs3  |-> {156, 188},
      idxabs |-> {159, 191},
      absx   |-> {12, 44, 76, 108, 140, 172, 204, 236} ]

Modes == DOMAIN INSTRUCTIONS
Mnemonics == UNION {INSTRUCTIONS[m] : m \in Modes}
ModeOf == [b \in Mnemonics |-> CHOOSE m \in Modes : b \in INSTRUCTIONS[m]]

Inherents == {"inh", "reg", "reg13", "regz", "creg", "ccond"}
Relatives == {"regrel", "crel", "crel3"}
Absolutes == {"regabs", "cabs", "cabs3"}

ModeLength(mode) ==
    IF mode \in Inherents THEN 1
    ELSE IF mode \in Relatives \cup {"imm", "regimm", "zbr"} THEN 2
    ELSE 3

\* The registers or conditions a mode admits; 0 where it has none.
Selectors(mode) ==
    IF mode \in {"inh", "imm", "zbr", "idxabs"} THEN {0}
    ELSE IF mode = "reg13" THEN 1 .. 3
    ELSE IF mode \in {"crel3", "cabs3"} THEN 0 .. 2
    ELSE 0 .. 3

Opcode(base, sel) == IF ModeOf[base] = "reg13" THEN base + sel - 1 ELSE base + sel

-----------------------------------------------------------------------------
(* Encoding: the bytes, or none for an EncodingError.                      *)

EncodingError == <<>>

\* Faulty Relative: from this instruction.
RelativeFromHere(base, ops, address) ==
    <<Opcode(base, ops.sel), ops.ind + ((ops.value - address) % 128)>>

\* From the instruction after this one; a branch too far is not noticed.
Relative(base, ops, address) ==
    <<Opcode(base, ops.sel), ops.ind + ((ops.value - (address + 2)) % 128)>>

Absolute(base, ops) ==
    <<Opcode(base, ops.sel), ops.ind + (ops.value \div 256), ops.value % 256>>

\* An address in the 8K page of the instruction.
Indexable(base, ops, offset) ==
    <<Opcode(base, ops.sel), ops.ind + ops.ctl + (offset \div 256), offset % 256>>

PageOf(address) == (address \div 8192) * 8192

Encode(base, ops, address) ==
    LET mode == ModeOf[base]
        offset == ops.value - PageOf(address)
    IN  IF ops.sel \notin Selectors(mode) THEN EncodingError
        ELSE CASE mode = "regz" /\ ops.sel = 0 -> <<IORZ>>
               [] mode \in Inherents /\ ~(mode = "regz" /\ ops.sel = 0) ->
                    <<Opcode(base, ops.sel)>>
               [] mode \in {"imm", "regimm"} ->
                    IF ops.value \notin -128 .. 255 THEN EncodingError
                    ELSE <<Opcode(base, ops.sel), ops.value % 256>>
               [] mode = "zbr" -> <<base, ops.ind + (ops.value % 64)>>
               [] mode \in Relatives -> Relative(base, ops, address)
               [] mode \in Absolutes \cup {"idxabs"} ->
                    IF ops.value \notin Address THEN EncodingError
                    ELSE Absolute(base, ops)
               [] mode = "absx" ->
                    IF offset \notin 0 .. 8191 THEN EncodingError
                    ELSE Indexable(base, ops, offset)

-----------------------------------------------------------------------------
(* Decoding.                                                               *)

\* The instructions and selectors whose opcode is op: at most one pair.
Claims(op) ==
    {e \in ((op - 3 .. op) \cap Mnemonics) \X (0 .. 3) :
        e[2] \in Selectors(ModeOf[e[1]]) /\ Opcode(e[1], e[2]) = op}

DefinedOpcodes == {op \in Byte : Claims(op) # {}}

DECODE_TABLE ==
    LET Spot(e) == [base |-> e[1], mode |-> ModeOf[e[1]], sel |-> e[2]]
    IN  [op \in DefinedOpcodes |-> Spot(CHOOSE e \in Claims(op) : TRUE)]

Defined(op) == op \in DefinedOpcodes

\* Faulty Displacement: the sign is not extended.
DisplacementUnsigned(b) == b % 128

\* 7 bits as a displacement.
Displacement(b) == IF b % 128 >= 64 THEN (b % 128) - 128 ELSE b % 128

\* The value the disassembler shows for the operand of the bytes at address a.
Shown(mode, bytes, a) ==
    CASE mode \in Inherents -> 0
      [] mode \in {"imm", "regimm"} -> bytes[2]
      [] mode = "zbr" -> 8128 + (bytes[2] % 64)
      [] mode \in Relatives -> a + 2 + Displacement(bytes[2])
      [] mode \in Absolutes \cup {"idxabs"} -> (bytes[2] % 128) * 256 + bytes[3]
      [] mode = "absx" -> PageOf(a) + (bytes[2] % 32) * 256 + bytes[3]

IndexControl(bytes) == ((bytes[2] \div 32) % 4) * 32
Indirect(bytes) == (bytes[2] \div 128) * INDIRECT_BIT

=============================================================================
