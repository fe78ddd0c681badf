---------------------------- MODULE Disassembler ----------------------------
(***************************************************************************)
(* The disassembler: each instruction is shown as a source line, that line *)
(* is assembled again, and if it does not give the same bytes the first of *)
(* them is shown as data.                                                  *)
(***************************************************************************)
EXTENDS Assembler

Line(toks) == [col0 |-> FALSE, toks |-> toks \o <<Eol>>]
Comma == Punct(",")

\* What the evaluator sees of an address a little below 0: "$-008", the location
\* less a number whose hexadecimal digits are read as decimal ones, or as a decimal
\* ("01D") or binary ("00B") number by their last letter, or not at all.
NegativeAddress(n) ==
    LET hi == n \div 16
        lo == n % 16
        Less(m) == <<Dollar, Punct("-"), Number(m)>>
    IN  IF lo <= 9 /\ hi <= 9 THEN Less(10 * hi + lo)
        ELSE IF lo = 13 /\ hi <= 9 THEN Less(hi)
        ELSE IF lo = 11 /\ hi <= 1 THEN Less(hi)
        ELSE <<Dollar, Punct("-"), Bad>>

FmtAddr(v) == IF v < 0 THEN NegativeAddress(-v) ELSE <<Number(v)>>

ConditionName(n) == Ident(<<"EQ", "GT", "LT", "UN">>[n + 1])

\* An index register comes last, and R0 is written in its place.
RenderIndexed(entry, bytes, target) ==
    LET ctl == IndexControl(bytes)
        step == CASE ctl = INDEX_AUTO_INC -> <<Comma, Punct("+")>>
                  [] ctl = INDEX_AUTO_DEC -> <<Comma, Punct("-")>>
                  [] OTHER -> <<>>
    IN  IF ctl = INDEX_NONE THEN <<Comma, Register(entry.sel)>> \o target
        ELSE <<Comma, Register(0)>> \o target \o <<Comma, Register(entry.sel)>> \o step

\* The line for the instruction these bytes are at address a.
DecodeText(entry, bytes, a) ==
    LET mode == entry.mode
        star == IF Indirect(bytes) = 0 THEN <<>> ELSE <<Punct("*")>>
        value == Number(Shown(mode, bytes, a))
        target == star \o FmtAddr(Shown(mode, bytes, a))
        operands ==
            CASE mode = "inh" -> <<>>
              [] mode \in {"reg", "reg13", "regz"} -> <<Register(entry.sel)>>
              [] mode = "creg"   -> <<Comma, Register(entry.sel)>>
              [] mode = "ccond"  -> <<Comma, ConditionName(entry.sel)>>
              [] mode = "imm"    -> <<value>>
              [] mode = "regimm" -> <<Comma, Register(entry.sel), value>>
              [] mode \in {"zbr", "idxabs"} -> target
              [] mode \in {"regrel", "regabs"} -> <<Comma, Register(entry.sel)>> \o target
              [] mode \in {"crel", "crel3", "cabs", "cabs3"} ->
                    <<Comma, ConditionName(entry.sel)>> \o target
              [] mode = "absx" -> RenderIndexed(entry, bytes, target)
    IN  Line(<<Mnemonic(entry.base)>> \o operands)

OrgLine(a) == Line(<<Ident("ORG")>> \o FmtAddr(a))
EndLine == Line(<<Ident("END")>>)
DbLine(b) == Line(<<Ident("DB"), Number(b)>>)

\* The line, alone at address a, gives these bytes.
Verify(line, a, expected) ==
    LET Gives(s) == s.err = "" /\ ToBytes(s.segments) = expected
    IN  Gives(Assemble(<<OrgLine(a), line, EndLine>>))

\* Faulty DecodeOne: what is decoded is believed.
DecodeUnverified(data, offset, a) ==
    LET op == data[offset + 1]
        size == IF Defined(op) THEN ModeLength(DECODE_TABLE[op].mode) ELSE 1
        chunk == SubSeq(data, offset + 1, offset + size)
    IN  IF Defined(op) /\ offset + size <= Len(data)
        THEN [size |-> size, line |-> DecodeText(DECODE_TABLE[op], chunk, a)]
        ELSE [size |-> 1, line |-> DbLine(op)]

\* The line at an offset of the data, and how many bytes it stands for.
DecodeOne(data, offset, a) ==
    LET op == data[offset + 1]
        size == IF Defined(op) THEN ModeLength(DECODE_TABLE[op].mode) ELSE 1
        chunk == SubSeq(data, offset + 1, offset + size)
        Checked(line) == IF Verify(line, a, chunk) THEN [size |-> size, line |-> line]
                         ELSE [size |-> 1, line |-> DbLine(op)]
    IN  IF Defined(op) /\ offset + size <= Len(data)
        THEN Checked(DecodeText(DECODE_TABLE[op], chunk, a))
        ELSE [size |-> 1, line |-> DbLine(op)]

=============================================================================
