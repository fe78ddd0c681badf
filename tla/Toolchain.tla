----------------------------- MODULE Toolchain -----------------------------
(***************************************************************************)
(* A source is written line by line, assembled in two passes, its binary   *)
(* is disassembled and the listing assembled again.  Beside the assembler  *)
(* run what its passes should make of the source: which names and          *)
(* locations the first already has right, and what the second puts where.  *)
(***************************************************************************)
EXTENDS Expressions, SequencesExt

CONSTANT Menus     \* by name, the lines each place of a source may hold

D == INSTANCE Disassembler WITH Expr <- Evaluate

\* A line, whether it begins in column 0, and in postfix the expression, if
\* that is what it is about.
ASSUME MenusAssumption ==
    \A name \in DOMAIN Menus : \A i \in DOMAIN Menus[name] : \A line \in Menus[name][i] :
        /\ line.col0 \in BOOLEAN
        /\ line.toks[Len(line.toks)] = Eol
        /\ \A j \in 1 .. Len(line.toks) - 1 : line.toks[j] # Eol

VARIABLES
    menu,      \* the menu the source is written from
    source,    \* its lines
    stage,     \* "write", "pass 1", "pass 2", "listing", "again", "end"
    next,      \* the number of the next line
    asm,       \* the assembler
    listing,   \* the disassembly: its lines, and how many bytes they stand for
    again,     \* the assembler of the listing
    \* what the passes should make of the source
    settled,   \* the names whose value the first pass has right when it meets them
    sure,      \* whether it has the location right
    places,    \* the location it had at each line, and whether it is right
    first,     \* the symbols it ended with
    memory,    \* what is at the addresses the second pass has put bytes at
    yields     \* the bytes of each line, and the location in the second pass

vars == <<menu, source, stage, next, asm, listing, again,
          settled, sure, places, first, memory, yields>>
assembly == <<next, asm, settled, sure, places, first, memory, yields>>
disassembly == <<listing, again>>

Init ==
    /\ menu \in DOMAIN Menus
    /\ source = <<>>
    /\ stage = "write"
    /\ next = 1
    /\ asm = D!NewAssembler
    /\ listing = [lines |-> <<>>, offset |-> 0]
    /\ again = D!NewAssembler
    /\ settled = {}
    /\ sure = TRUE
    /\ places = <<>>
    /\ first = asm.symbols
    /\ memory = <<>>
    /\ yields = <<>>

Write(line) ==
    /\ stage = "write"
    /\ source' = Append(source, line)
    /\ UNCHANGED <<menu, stage, assembly, disassembly>>

\* The names a line defines, as a label or by EQU or SET.
Defines(line) == IF D!LabelTokens(line) = 0 THEN {} ELSE {line.toks[1].text}

\* Names the source defines where the assembler predefines them mean one thing
\* before their definition and another after it.
Shadowed(lines) == UNION {Defines(lines[i]) : i \in DOMAIN lines} \cap D!Predefined

StartAssembly ==
    /\ stage = "write" /\ Len(source) = Len(Menus[menu])
    /\ stage' = "pass 1"
    /\ asm' = D!BeginPass(asm, 1)
    /\ settled' = D!Predefined \ Shadowed(source)
    /\ UNCHANGED <<menu, source, next, sure, places, first, memory, yields, disassembly>>

-----------------------------------------------------------------------------
(* The passes.                                                             *)

Operation(line) == line.toks[D!LabelTokens(line) + 1]
Operands(line) == SubSeq(line.toks, D!LabelTokens(line) + 2, Len(line.toks))

Names(toks) ==
    {toks[i].text : i \in {i \in DOMAIN toks :
        toks[i].kind = "IDENT" /\ toks[i].text \notin WORD_OPERATORS}}

\* The names and the location the operands of a line refer to are settled.
Settled(line, names, here) ==
    /\ Names(Operands(line)) \subseteq names
    /\ (\E i \in DOMAIN Operands(line) : Operands(line)[i].kind = "DOLLAR") => here

\* The names settled by a line: a label where the location is, a name set to
\* what is settled (which may use the location the name stands for so far).
Settles(line) ==
    LET labelled == IF sure THEN settled \cup Defines(line) ELSE settled
    IN  IF Operation(line).text \in {"EQU", "SET"}
        THEN IF Settled(line, labelled, sure) THEN Defines(line) ELSE {}
        ELSE IF sure THEN Defines(line) ELSE {}

\* Whether the location after a line is settled.
SureAfter(line, names) ==
    CASE Operation(line).text = "ORG" -> Settled(line, names, sure)
      [] Operation(line).text \in {"DS", "DBFILL"} -> sure /\ Settled(line, names, sure)
      [] OTHER -> sure

Line == source[next]

FirstPassLine ==
    /\ stage = "pass 1" /\ ~D!Stopped(asm) /\ next <= Len(source)
    /\ asm' = D!HandleLine(asm, Line)
    /\ settled' = settled \cup (Settles(Line) \ Shadowed(source))
    /\ sure' = SureAfter(Line, settled')
    /\ places' = Append(places, [location |-> asm.location, sure |-> sure])
    /\ next' = next + 1
    /\ UNCHANGED <<menu, source, stage, first, memory, yields, disassembly>>

StartSecondPass ==
    /\ stage = "pass 1" /\ asm.err = "" /\ (asm.ended \/ next > Len(source))
    /\ stage' = "pass 2"
    /\ asm' = D!BeginPass(asm, 2)
    /\ first' = asm.symbols
    /\ next' = 1
    /\ UNCHANGED <<menu, source, settled, sure, places, memory, yields, disassembly>>

\* The bytes of a line, in the state s.
Yield(s, line) ==
    LET alone == D!HandleLine([s EXCEPT !.segments = <<>>, !.current = FALSE], line)
    IN  IF alone.segments = <<>> THEN <<>> ELSE alone.segments[1].data

\* m with bytes at a location.
Put(m, location, bytes) ==
    LET Holds(a) == IF a - location + 1 \in DOMAIN bytes THEN bytes[a - location + 1] ELSE m[a]
    IN  [a \in DOMAIN m \cup (location .. location + Len(bytes) - 1) |-> Holds(a)]

SecondPassLine ==
    /\ stage = "pass 2" /\ ~D!Stopped(asm) /\ next <= Len(source)
    /\ asm' = D!HandleLine(asm, Line)
    /\ LET Handled(bytes) ==
              /\ memory' = Put(memory, asm.location, bytes)
              /\ yields' = Append(yields, [location |-> asm.location, bytes |-> bytes])
       IN  IF asm'.err = "" THEN Handled(Yield(asm, Line)) ELSE UNCHANGED <<memory, yields>>
    /\ next' = next + 1
    /\ UNCHANGED <<menu, source, stage, settled, sure, places, first, disassembly>>

Assembled == stage = "pass 2" /\ asm.err = "" /\ (asm.ended \/ next > Len(source))

-----------------------------------------------------------------------------
(* The listing.                                                            *)

Image == D!ToBytes(asm.segments)
Origin == D!Origin(asm.segments)

StartListing ==
    /\ Assembled
    /\ stage' = "listing"
    /\ UNCHANGED <<menu, source, assembly, disassembly>>

ListLine ==
    /\ stage = "listing" /\ listing.offset < Len(Image)
    /\ LET Listed(one) == [lines |-> Append(listing.lines, one.line),
                           offset |-> listing.offset + one.size]
       IN  listing' = Listed(D!DecodeOne(Image, listing.offset, Origin + listing.offset))
    /\ UNCHANGED <<menu, source, stage, assembly, again>>

ToSource(lines, origin) == <<D!OrgLine(origin)>> \o lines \o <<D!EndLine>>

AssembleListing ==
    /\ stage = "listing" /\ listing.offset >= Len(Image)
    /\ stage' = "end"
    /\ again' = D!Assemble(ToSource(listing.lines, Origin))
    /\ UNCHANGED <<menu, source, assembly, listing>>

Next ==
    \/ /\ stage = "write" /\ Len(source) < Len(Menus[menu])
       /\ \E line \in Menus[menu][Len(source) + 1] : Write(line)
    \/ StartAssembly
    \/ FirstPassLine
    \/ StartSecondPass
    \/ SecondPassLine
    \/ StartListing
    \/ ListLine
    \/ AssembleListing

Spec == Init /\ [][Next]_vars

-----------------------------------------------------------------------------
TypeOK ==
    /\ asm.pass \in {1, 2}
    /\ \A name \in DOMAIN asm.symbols : asm.symbols[name] \in Int
    /\ asm.location \in Int /\ asm.start \in Int
    /\ asm.current \in BOOLEAN /\ asm.ended \in BOOLEAN
    /\ \A k \in DOMAIN asm.segments : \A i \in DOMAIN asm.segments[k].data :
          asm.segments[k].data[i] \in D!Byte
    /\ asm.pass = 1 => asm.segments = <<>>

\* What the first pass had right the second has again: each name, and the
\* location of each line.  (Every label a forward reference uses is one, unless
\* ORG or storage depend on names that were not yet defined.)
SettledStay ==
    stage = "pass 2" /\ asm.err = "" =>
        /\ \A name \in settled : asm.symbols[name] = first[name]
        /\ next <= Len(places) /\ places[next].sure => asm.location = places[next].location

\* What the operands of line i come to with the symbols the assembler ends with.
Final(i) ==
    Yield([asm EXCEPT !.location = yields[i].location, !.ended = FALSE], source[i])

\* Where its operands are settled, a line gives the bytes they come to.
OperandsFinal ==
    Assembled => \A i \in DOMAIN yields :
        Settled(source[i], settled, TRUE) => yields[i].bytes = Final(i)

\* ... and wherever they are not: no value is a placeholder of the first pass.
NoPlaceholders ==
    Assembled => \A i \in DOMAIN yields :
        Names(Operands(source[i])) \cap Shadowed(source) = {} => yields[i].bytes = Final(i)

\* The binary has at each address what was put there last, and 0 between.
ImageFaithful ==
    stage \in {"pass 2", "listing"} /\ asm.err = "" =>
        /\ \A a \in DOMAIN memory : a - Origin + 1 \in DOMAIN Image
        /\ \A i \in DOMAIN Image :
              LET a == Origin + i - 1
              IN  Image[i] = IF a \in DOMAIN memory THEN memory[a] ELSE 0

\* The listing of a binary at an address, assembled, is the binary.
RoundTrip ==
    stage = "end" /\ Origin \in D!Address => again.err = "" /\ D!ToBytes(again.segments) = Image

-----------------------------------------------------------------------------
(* What an expression means: its value, the operators applied as the       *)
(* postfix has them.                                                       *)

\* 25 bits of two's complement.
BitsOf(a) == {i \in 0 .. 24 : (a \div 2 ^ i) % 2 = 1}
NumberOf(bits) ==
    FoldSet(LAMBDA i, n : n + 2 ^ i, 0, bits \ {24}) - (IF 24 \in bits THEN 2 ^ 24 ELSE 0)

\* The quotient rounded toward zero: the remainder has the dividend's sign.
Quotient(a, b) ==
    CHOOSE q \in -Magnitude(a) .. Magnitude(a) :
        Magnitude(a - q * b) < Magnitude(b) /\ (a - q * b) * a >= 0

\* That is what division means, as long as a float holds the dividend or none is
\* needed.  Otherwise it is the evaluator's quotient, should that be no further
\* off than by the rounding of a float to its last bit and of the fraction.
Divided(a, b) ==
    LET exact == Quotient(a, b)
        given == SafeDiv(a, b)
        Close == Magnitude(given - exact) <= 1 + Magnitude(exact) \div 2 ^ FloatBits
    IN  IF OppositeSigns(a, b) /\ Magnitude(a) > 2 ^ FloatBits /\ Close THEN given ELSE exact

Apply2(op, a, b) ==
    CASE op = "OR"  -> NumberOf(BitsOf(a) \cup BitsOf(b))
      [] op = "AND" -> NumberOf(BitsOf(a) \cap BitsOf(b))
      [] op = "XOR" -> NumberOf(SymDiff(BitsOf(a), BitsOf(b)))
      [] op = "/"   -> Divided(a, b)
      [] op = "MOD" -> a - Divided(a, b) * b
      [] OTHER      -> Binary(op, a, b)

\* One step of the stack machine; it stops at an operation that fails.
Execute(m, item) ==
    LET n == Len(m.stack)
        With(drop, v) == [m EXCEPT !.stack = Append(SubSeq(@, 1, n - drop), v)]
    IN  CASE m.failed -> m
          [] ~m.failed /\ item.arity = 0 -> With(0, item.num)
          [] ~m.failed /\ item.arity = 1 -> With(1, Unary(item.op, m.stack[n]))
          [] ~m.failed /\ item.arity = 2 ->
                IF Fails(item.op, m.stack[n - 1], m.stack[n]) THEN [m EXCEPT !.failed = TRUE]
                ELSE With(2, Apply2(item.op, m.stack[n - 1], m.stack[n]))

Meaning(postfix) == FoldLeft(Execute, [stack |-> <<>>, failed |-> FALSE], postfix)

\* A word of an expression is what the expression means: each operator applied
\* to what it binds, division rounding toward zero (test_lexer.py:99), exactly so
\* for dividends of up to 2 ^ FloatBits.
ExpressionsMean ==
    \A i \in DOMAIN source : source[i].postfix # <<>> =>
        LET Means(m) ==
                IF m.failed \/ m.stack[1] \notin -32768 .. 65535 THEN asm.err # ""
                ELSE /\ asm.err = ""
                     /\ i \in DOMAIN yields => yields[i].bytes = D!BigEndian(m.stack[1], 2)
        IN  stage \in {"pass 1", "pass 2"} /\ next > i => Means(Meaning(source[i].postfix))

=============================================================================
