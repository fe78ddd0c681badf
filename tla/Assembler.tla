----------------------------- MODULE Assembler -----------------------------
(***************************************************************************)
(* The two-pass assembler, as operators on a record s: its symbols,        *)
(* location counter, segments and so on.  A source line is its tokens and  *)
(* whether it begins in column 0.  The expression evaluator is a           *)
(* parameter: what it returns has the position after the expression, the   *)
(* value, whether all its symbols were defined, and the error, if any.     *)
(***************************************************************************)
EXTENDS Isa, Tokens, SequencesExt

CONSTANT Expr(_, _, _, _)     \* tokens, position, symbols, location

\* Symbols predefined by the assembler, which may be shadowed.
Predefined == {"EQ", "Z", "GT", "P", "LT", "N", "UN"}

CONDITION_VALUES ==
    [name \in Predefined |->
        IF name \in {"EQ", "Z"} THEN 0 ELSE IF name \in {"GT", "P"} THEN 1
        ELSE IF name \in {"LT", "N"} THEN 2 ELSE 3]

Emitting == {"DB", "BYTE", "ASCII", "DW", "WORD", "DD", "DS", "DBX", "DBFILL"}
ListingOnly ==
    {"NAME", "TITLE", "PAGE", "PAGELEN", "PGLEN", "WIDTH", "LMARG", "LEFTMARG", "TABS",
     "OFFS", "LIST", "NOLIST", "NOLST", "EJECT", "SBTTL", "STITLE"}
DIRECTIVES == {"ORG", "EQU", "SET", "END"} \cup Emitting \cup ListingOnly

NewAssembler ==
    [ symbols |-> CONDITION_VALUES, location |-> 0, start |-> 0, pass |-> 1,
      segments |-> <<>>, current |-> FALSE, ended |-> FALSE, err |-> "" ]

\* Faulty BeginPass: the second goes on where the first ended.
BeginPassHere(s, n) ==
    [s EXCEPT !.pass = n, !.start = 0, !.segments = <<>>, !.current = FALSE, !.ended = FALSE]

\* The symbols are kept from pass to pass.
BeginPass(s, n) ==
    [s EXCEPT !.pass = n, !.location = 0, !.start = 0, !.segments = <<>>,
              !.current = FALSE, !.ended = FALSE]

Error(s, err) == [s EXCEPT !.err = err]

\* s, or what makes of it who goes on if no error has been raised.
Unless(err, s, next) == IF err # "" THEN Error(s, err) ELSE next

-----------------------------------------------------------------------------
(* Symbols, expressions and bytes.                                         *)

\* A name may be defined once, but predefined ones any number of times.
SetSymbol(s, name, value) ==
    IF s.pass = 1 /\ name \in DOMAIN s.symbols \ Predefined THEN Error(s, "duplicate symbol")
    ELSE [s EXCEPT !.symbols = [n \in DOMAIN @ \cup {name} |-> IF n = name THEN value ELSE @[n]]]

DefineLabel(s, name) == SetSymbol(s, name, s.location)

\* Pass 1 takes an undefined symbol as 0, pass 2 does not take it.
Eval(s, toks, pos) ==
    LET Checked(e) == IF e.err = "" /\ s.pass = 2 /\ ~e.defined
                      THEN [e EXCEPT !.err = "undefined symbol"] ELSE e
    IN  Checked(Expr(toks, pos, s.symbols, s.location))

\* Faulty Emit: the segment goes on wherever the bytes belong.
EmitOnward(s, bytes) ==
    LET last == Len(s.segments)
    IN  IF s.pass = 1 THEN [s EXCEPT !.location = @ + Len(bytes)]
        ELSE IF last > 0
        THEN [s EXCEPT !.location = @ + Len(bytes), !.segments[last].data = @ \o bytes]
        ELSE [s EXCEPT !.location = @ + Len(bytes), !.current = TRUE,
                       !.segments = Append(@, [start |-> s.location, data |-> bytes])]

\* Bytes go to the current segment if that ends here, else to a new one.
Emit(s, bytes) ==
    LET last == Len(s.segments)
        continues == s.current
            /\ s.location = s.segments[last].start + Len(s.segments[last].data)
    IN  IF s.pass = 1 THEN [s EXCEPT !.location = @ + Len(bytes)]
        ELSE IF continues
        THEN [s EXCEPT !.location = @ + Len(bytes), !.segments[last].data = @ \o bytes]
        ELSE [s EXCEPT !.location = @ + Len(bytes), !.current = TRUE,
                       !.segments = Append(@, [start |-> s.location, data |-> bytes])]

\* Faulty BigEndian: the high byte is not masked.
BigEndianUnmasked(value, n) ==
    [i \in 1 .. n |-> IF i = 1 THEN value \div 256 ^ (n - 1) ELSE (value \div 256 ^ (n - i)) % 256]

\* A value as n bytes, high byte first.
BigEndian(value, n) == [i \in 1 .. n |-> (value \div 256 ^ (n - i)) % 256]

IsComma(toks, pos) == IsOp(toks[pos], ",")
SkipComma(toks, pos) == IF IsComma(toks, pos) THEN pos + 1 ELSE pos

-----------------------------------------------------------------------------
(* Directives.                                                             *)

DirectiveOrg(s, toks, pos) ==
    LET To(e) == Unless(e.err, s, [s EXCEPT !.location = e.value, !.current = FALSE])
    IN  To(Eval(s, toks, pos))

\* The name is the first token of the line, which has been defined as a label.
DirectiveEqu(s, toks, pos) ==
    LET name == toks[1].text
        Value(e) ==
            Unless(e.err, s, [s EXCEPT !.symbols =
                [n \in DOMAIN @ \cup {name} |-> IF n = name THEN e.value ELSE @[n]]])
    IN  IF toks[1].kind # "IDENT" THEN Error(s, "EQU needs a label")
        ELSE Value(Eval(s, toks, pos))

\* The items of a line one after the other: each makes of [s, pos] the next.
Items(Item(_), s, toks, pos) ==
    LET More(a, i) == IF a.s.err # "" \/ a.done THEN a ELSE Item(a)
    IN  FoldLeft(More, [s |-> s, pos |-> pos, done |-> FALSE], [i \in 1 .. Len(toks) |-> i]).s

\* The value of e emitted in so many bytes, if it is in range.
EmitValue(s, e, width, range) ==
    Unless(e.err, s, IF e.value \notin range THEN Error(s, "out of range")
                     ELSE Emit(s, BigEndian(e.value, width)))

\* An item that begins with a string is the string.  Any other is evaluated
\* twice: for its value, and once that is emitted again for its end.
DirectiveDb(s, toks, pos) ==
    LET String(a) ==
            [s |-> Emit(a.s, [i \in DOMAIN toks[a.pos].chars |-> toks[a.pos].chars[i] % 256]),
             pos |-> SkipComma(toks, a.pos + 1), done |-> FALSE]
        Again(t, at) == IF t.err # "" THEN t ELSE Unless(Eval(t, toks, at).err, t, t)
        Value(a, e) ==
            [s |-> Again(EmitValue(a.s, e, 1, -128 .. 255), a.pos),
             pos |-> SkipComma(toks, e.pos), done |-> FALSE]
        Item(a) ==
            IF toks[a.pos].kind = "EOL" THEN [a EXCEPT !.done = TRUE]
            ELSE IF toks[a.pos].kind = "STRING" THEN String(a)
            ELSE Value(a, Eval(a.s, toks, a.pos))
    IN  Items(Item, s, toks, pos)

\* DW and DD: at least one value.
EmitWords(s, toks, pos, width, range) ==
    LET Next(t, at) == [s |-> t, pos |-> at, done |-> toks[at].kind = "EOL"]
        Value(a, e) == Next(EmitValue(a.s, e, width, range), SkipComma(toks, e.pos))
        Item(a) == Value(a, Eval(a.s, toks, a.pos))
    IN  Items(Item, s, toks, pos)

\* DS and DBFILL: so many bytes, of the value after the comma if there is one.
DirectiveDs(s, toks, pos) ==
    LET Filled(count, f) ==
            Unless(f.err, s, Emit(s, [i \in 1 .. count |-> f.value % 256]))
        Counted(e) ==
            Unless(e.err, s,
                IF e.value \notin 0 .. 32767 THEN Error(s, "out of range")
                ELSE Filled(e.value, IF IsComma(toks, e.pos) THEN Eval(s, toks, e.pos + 1)
                                     ELSE [e EXCEPT !.value = 0]))
    IN  Counted(Eval(s, toks, pos))

\* DBX: a byte drawn in eight characters; blanks and dots are clear bits.
DirectiveDbx(s, toks, pos) ==
    LET chars == toks[pos].chars
        bit(i) == IF chars[i] \in {32, 46} THEN 0 ELSE 2 ^ (8 - i)
    IN  IF toks[pos].kind # "STRING" \/ Len(chars) # 8 THEN Error(s, "DBX needs a pattern")
        ELSE Emit(s, <<FoldLeft(LAMBDA v, i : v + bit(i), 0, [i \in 1 .. 8 |-> i])>>)

DirectiveEnd(s, toks, pos) ==
    LET To(e) == Unless(e.err, s, [s EXCEPT !.start = e.value, !.ended = TRUE])
    IN  IF toks[pos].kind = "EOL" THEN [s EXCEPT !.ended = TRUE] ELSE To(Eval(s, toks, pos))

Directive(s, name, toks, pos) ==
    CASE name = "ORG" -> DirectiveOrg(s, toks, pos)
      [] name \in {"EQU", "SET"} -> DirectiveEqu(s, toks, pos)
      [] name \in {"DB", "BYTE", "ASCII"} -> DirectiveDb(s, toks, pos)
      [] name \in {"DW", "WORD"} -> EmitWords(s, toks, pos, 2, -32768 .. 65535)
      [] name = "DD" -> EmitWords(s, toks, pos, 4, Int)
      [] name \in {"DS", "DBFILL"} -> DirectiveDs(s, toks, pos)
      [] name = "DBX" -> DirectiveDbx(s, toks, pos)
      [] name = "END" -> DirectiveEnd(s, toks, pos)
      [] name \in ListingOnly -> s

-----------------------------------------------------------------------------
(* Instructions.  A reader makes of what was read so far, p, what was read *)
(* after it; an error stays.                                               *)

Reading(pos) ==
    [pos |-> pos, sel |-> 0, ind |-> 0, value |-> 0, ctl |-> INDEX_NONE, err |-> ""]

ReadComma(toks, p) ==
    IF p.err # "" THEN p
    ELSE IF IsComma(toks, p.pos) THEN [p EXCEPT !.pos = @ + 1]
    ELSE [p EXCEPT !.err = "comma expected"]

ReadRegister(toks, p) ==
    IF p.err # "" THEN p
    ELSE IF toks[p.pos].kind = "REG" THEN [p EXCEPT !.pos = @ + 1, !.sel = toks[p.pos].num]
    ELSE [p EXCEPT !.err = "register expected"]

\* A number or one symbol, not an expression.
ReadCondition(s, toks, p) ==
    LET tok == toks[p.pos]
        known == tok.kind = "NUMBER" \/ tok.text \in DOMAIN s.symbols
        cond == IF tok.kind = "NUMBER" THEN tok.num
                ELSE IF known THEN s.symbols[tok.text] ELSE 0
    IN  IF p.err # "" THEN p
        ELSE IF tok.kind \notin {"NUMBER", "IDENT"}
        THEN [p EXCEPT !.err = "condition expected"]
        ELSE IF s.pass = 2 /\ (~known \/ cond \notin 0 .. 3) THEN [p EXCEPT !.err = "condition"]
        ELSE [p EXCEPT !.pos = @ + 1, !.sel = cond]

ReadIndirect(toks, p) ==
    IF p.err = "" /\ IsOp(toks[p.pos], "*")
    THEN [p EXCEPT !.pos = @ + 1, !.ind = INDIRECT_BIT] ELSE p

ReadValue(s, toks, p) ==
    LET Value(e) == [p EXCEPT !.pos = e.pos, !.value = e.value, !.err = e.err]
    IN  IF p.err # "" THEN p ELSE Value(Eval(s, toks, p.pos))

\* BXA and BSXA: the index register, which is implied, may be given.
ReadImplied(s, toks, p) ==
    LET After(e) == [p EXCEPT !.pos = e.pos, !.err = e.err]
    IN  IF p.err # "" \/ ~IsComma(toks, p.pos) THEN p
        ELSE IF toks[p.pos + 1].kind = "REG" THEN [p EXCEPT !.pos = @ + 2]
        ELSE After(Eval(s, toks, p.pos + 1))

\* ",r" names the index register in place of the register, and ",+" or ",-"
\* (or "+" or "-" at once) steps it.
ReadIndex(toks, p) ==
    LET Named(q) == IF toks[q.pos].kind = "REG"
                    THEN [q EXCEPT !.pos = @ + 1, !.sel = toks[q.pos].num, !.ctl = INDEX_PLAIN]
                    ELSE q
        Stepped(q) == IF IsOp(toks[q.pos], "+")
                      THEN [q EXCEPT !.pos = @ + 1, !.ctl = INDEX_AUTO_INC]
                      ELSE IF IsOp(toks[q.pos], "-")
                      THEN [q EXCEPT !.pos = @ + 1, !.ctl = INDEX_AUTO_DEC]
                      ELSE q
        Comma(q) == [q EXCEPT !.pos = SkipComma(toks, @)]
    IN  IF p.err # "" \/ ~IsComma(toks, p.pos) THEN p ELSE Stepped(Comma(Named(Comma(p))))

\* What each mode reads.
ParseOperands(s, mode, toks, pos) ==
    LET p == Reading(pos)
        Selector(q) == ReadRegister(toks, ReadComma(toks, q))
        Condition(q) == ReadCondition(s, toks, ReadComma(toks, q))
        Target(q) == ReadValue(s, toks, ReadIndirect(toks, q))
    IN  CASE mode = "inh" -> p
          [] mode \in {"reg", "reg13", "regz"} -> ReadRegister(toks, p)
          [] mode = "creg"   -> Selector(p)
          [] mode = "ccond"  -> Condition(p)
          [] mode = "imm"    -> ReadValue(s, toks, p)
          [] mode = "regimm" -> ReadValue(s, toks, Selector(p))
          [] mode = "zbr"    -> Target(p)
          [] mode \in {"regrel", "regabs"} -> Target(Selector(p))
          [] mode \in {"crel", "crel3", "cabs", "cabs3"} -> Target(Condition(p))
          [] mode = "idxabs" -> ReadImplied(s, toks, Target(p))
          [] mode = "absx"   -> ReadIndex(toks, Target(Selector(p)))

\* Faulty Instruction: pass 1 makes every instruction two bytes long.
InstructionOfTwo(s, base, toks, pos) ==
    LET Encoded(bytes) == IF bytes = EncodingError THEN Error(s, "encoding") ELSE Emit(s, bytes)
        Assembled(p) ==
            IF p.err # "" THEN Error(s, p.err)
            ELSE IF toks[p.pos].kind # "EOL" THEN Error(s, "unexpected operand")
            ELSE IF s.pass = 1 THEN [s EXCEPT !.location = @ + 2]
            ELSE Encoded(Encode(base, p, s.location))
    IN  Assembled(ParseOperands(s, ModeOf[base], toks, pos))

\* Pass 1 counts the bytes and pass 2 encodes them.
Instruction(s, base, toks, pos) ==
    LET Encoded(bytes) == IF bytes = EncodingError THEN Error(s, "encoding") ELSE Emit(s, bytes)
        Assembled(p) ==
            IF p.err # "" THEN Error(s, p.err)
            ELSE IF toks[p.pos].kind # "EOL" THEN Error(s, "unexpected operand")
            ELSE IF s.pass = 1 THEN [s EXCEPT !.location = @ + ModeLength(ModeOf[base])]
            ELSE Encoded(Encode(base, p, s.location))
    IN  Assembled(ParseOperands(s, ModeOf[base], toks, pos))

-----------------------------------------------------------------------------
(* Lines and passes.                                                       *)

IsOpcode(tok) == IsMnemonic(tok) \/ (tok.kind = "IDENT" /\ tok.text \in DIRECTIVES)

\* How many tokens of the line are its label: a word and its colon, or a word
\* that is no opcode before EQU or SET, in column 0, or before anything else.
LabelTokens(line) ==
    LET first == line.toks[1]
        next == line.toks[2]
    IN  IF first.kind # "IDENT" THEN 0
        ELSE IF IsOp(next, ":") THEN 2
        ELSE IF IsOpcode(first) \/ (next.kind = "EOL" /\ ~line.col0) THEN 0
        ELSE 1

Statement(s, toks, pos) ==
    LET tok == toks[pos]
    IN  CASE tok.kind = "EOL" -> s
          [] tok.kind = "IDENT" /\ tok.text \in DIRECTIVES -> Directive(s, tok.text, toks, pos + 1)
          [] IsMnemonic(tok) -> Instruction(s, tok.num, toks, pos + 1)
          [] tok.kind \notin {"EOL", "IDENT"} -> Error(s, "unexpected token")
          [] tok.kind = "IDENT" /\ ~IsOpcode(tok) -> Error(s, "unknown opcode")

HandleLine(s, line) ==
    LET label == LabelTokens(line)
        Then(t) == IF t.err # "" THEN t ELSE Statement(t, line.toks, label + 1)
    IN  IF \E i \in DOMAIN line.toks : line.toks[i].kind = "BAD" THEN Error(s, "no token")
        ELSE Then(IF label = 0 THEN s ELSE DefineLabel(s, line.toks[1].text))

\* END and an error stop the pass.
Stopped(s) == s.ended \/ s.err # ""

RunPass(s, lines) ==
    FoldLeft(LAMBDA t, line : IF Stopped(t) THEN t ELSE HandleLine(t, line), s, lines)

Assemble(lines) ==
    LET Second(s) == IF s.err # "" THEN s ELSE RunPass(BeginPass(s, 2), lines)
    IN  Second(RunPass(BeginPass(NewAssembler, 1), lines))

-----------------------------------------------------------------------------
(* The program.                                                            *)

Starts(segments) == {segments[k].start : k \in DOMAIN segments}
Ends(segments) == {segments[k].start + Len(segments[k].data) : k \in DOMAIN segments}

Origin(segments) == IF segments = <<>> THEN 0 ELSE Min(Starts(segments))

Covers(segment, a) == a \in segment.start .. segment.start + Len(segment.data) - 1

\* Faulty ToBytes: of overlapping segments the first is kept.
ToBytesFirst(segments) ==
    LET Covering(a) == {k \in DOMAIN segments : Covers(segments[k], a)}
        At(a) == IF Covering(a) = {} THEN 0
                 ELSE LET k == Min(Covering(a)) IN segments[k].data[a - segments[k].start + 1]
    IN  IF segments = <<>> THEN <<>>
        ELSE [i \in 1 .. Max(Ends(segments)) - Origin(segments) |-> At(Origin(segments) + i - 1)]

\* One binary, from the lowest address to the highest: gaps are 0, and of
\* overlapping segments the last is kept.
ToBytes(segments) ==
    LET Covering(a) == {k \in DOMAIN segments : Covers(segments[k], a)}
        At(a) == IF Covering(a) = {} THEN 0
                 ELSE LET k == Max(Covering(a)) IN segments[k].data[a - segments[k].start + 1]
    IN  IF segments = <<>> THEN <<>>
        ELSE [i \in 1 .. Max(Ends(segments)) - Origin(segments) |-> At(Origin(segments) + i - 1)]

=============================================================================
