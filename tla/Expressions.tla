---------------------------- MODULE Expressions ----------------------------
(***************************************************************************)
(* The expression evaluator of the assembler: recursive descent over the   *)
(* tokens of a line.  Integers are unbounded, as Python's are; quotients   *)
(* below 0 go through a float.                                             *)
(***************************************************************************)
EXTENDS Integers, Tokens

CONSTANTS
    FloatBits,   \* the significant bits of a float: 53
    FloatTop     \* floats are less than 2 ^ FloatTop: 1024

ASSUME FloatAssumption ==
    /\ FloatBits \in Nat \ {0}
    /\ FloatTop \in Nat /\ FloatTop >= FloatBits

-----------------------------------------------------------------------------
(* Arithmetic.                                                             *)

Magnitude(a) == IF a < 0 THEN -a ELSE a

\* Bitwise and of two's complements of any width.
RECURSIVE AndInt(_, _)
AndInt(a, b) ==
    IF a = 0 \/ b = 0 THEN 0
    ELSE IF a = -1 THEN b
    ELSE IF b = -1 THEN a
    ELSE 2 * AndInt(a \div 2, b \div 2) + (a % 2) * (b % 2)

\* The bits before the point of a / b > 0: none or fewer, where it is less than 1.
RECURSIVE QuotientBits(_, _)
QuotientBits(a, b) ==
    IF a >= b THEN QuotientBits(a, 2 * b) + 1
    ELSE IF 2 * a < b THEN QuotientBits(2 * a, b) - 1
    ELSE 0

\* The integer nearest to a / b, of two the even one.
Nearest(a, b) ==
    LET q == a \div b
        twice == 2 * (a % b)
    IN  IF twice > b \/ (twice = b /\ q % 2 = 1) THEN q + 1 ELSE q

\* The float nearest to a / b, less its fraction, for a >= 0 and b > 0.
FloatQuotient(a, b) ==
    LET last == QuotientBits(a, b) - FloatBits
    IN  IF a = 0 THEN 0
        ELSE IF last >= 0 THEN Nearest(a, b * 2 ^ last) * 2 ^ last
        ELSE Nearest(a * 2 ^ (-last), b) \div 2 ^ (-last)

OppositeSigns(a, b) == (a < 0) # (b < 0)

\* Faulty SafeDiv: rounded down.
SafeDivFloor(a, b) == IF b < 0 THEN (-a) \div (-b) ELSE a \div b

\* Toward zero: by a float where the signs differ.
SafeDiv(a, b) ==
    IF OppositeSigns(a, b) THEN -FloatQuotient(Magnitude(a), Magnitude(b))
    ELSE Magnitude(a) \div Magnitude(b)

\* -1 for true.
Truth(p) == IF p THEN -1 ELSE 0

\* What raises an error: a division by zero, a quotient no float holds, a
\* negative shift.
Fails(op, a, b) ==
    \/ op \in {"/", "MOD"} /\ b = 0
    \/ /\ op \in {"/", "MOD"} /\ b # 0 /\ OppositeSigns(a, b)
       /\ FloatQuotient(Magnitude(a), Magnitude(b)) >= 2 ^ FloatTop
    \/ op \in {"SHL", "SHR"} /\ b < 0

Binary(op, a, b) ==
    CASE op = "OR"  -> a + b - AndInt(a, b)
      [] op = "XOR" -> a + b - 2 * AndInt(a, b)
      [] op = "AND" -> AndInt(a, b)
      [] op = "="   -> Truth(a = b)
      [] op = "<>"  -> Truth(a # b)
      [] op = "<"   -> Truth(a < b)
      [] op = "<="  -> Truth(a <= b)
      [] op = ">"   -> Truth(a > b)
      [] op = ">="  -> Truth(a >= b)
      [] op = "+"   -> a + b
      [] op = "-"   -> a - b
      [] op = "*"   -> a * b
      [] op = "/"   -> SafeDiv(a, b)
      [] op = "MOD" -> a - SafeDiv(a, b) * b
      [] op = "SHL" -> a * 2 ^ b
      [] op = "SHR" -> a \div 2 ^ b

Unary(op, a) ==
    CASE op = "-"   -> -a
      [] op = "+"   -> a
      [] op = "NOT" -> -a - 1
      [] op = "HI"  -> (a \div 256) % 256
      [] op = "LO"  -> a % 256
      [] op = "HW"  -> (a \div 65536) % 65536
      [] op = "LW"  -> a % 65536
      [] op = "ABS" -> Magnitude(a)

\* A string's first character is its low byte.
RECURSIVE StringValue(_)
StringValue(chars) ==
    IF chars = <<>> THEN 0 ELSE Head(chars) + 256 * StringValue(Tail(chars))

-----------------------------------------------------------------------------
(* The evaluator.  Its state e: the position of the next token, the value, *)
(* whether every symbol met was defined, and the error raised, if any.     *)
(* Its levels, loosest first: 1 OR XOR, 2 AND, 3 NOT and comparisons,      *)
(* 4 + -, 5 * / MOD SHL SHR, 6 terms.                                      *)

Comparisons == {"=", "<>", "<", "<=", ">", ">="}

LeftOps(level) ==
    CASE level = 1 -> {"OR", "XOR"}
      [] level = 2 -> {"AND"}
      [] level = 4 -> {"+", "-"}
      [] level = 5 -> {"*", "/", "MOD", "SHL", "SHR"}

Result(pos, value) == [pos |-> pos, value |-> value, defined |-> TRUE, err |-> ""]
Raise(e, err) == [e EXCEPT !.err = err]

\* Two results joined by an operator, the first error being the one raised.
Join(op, l, r) ==
    IF r.err # "" THEN r
    ELSE IF Fails(op, l.value, r.value) THEN Raise(r, "arithmetic")
    ELSE [r EXCEPT !.value = Binary(op, l.value, @), !.defined = l.defined /\ @]

Mapped(op, e) == IF e.err # "" THEN e ELSE [e EXCEPT !.value = Unary(op, @)]

Closed(c, e) ==
    IF e.err # "" THEN e
    ELSE IF IsOp(c.toks[e.pos], ")") THEN [e EXCEPT !.pos = @ + 1]
    ELSE Raise(e, "syntax")

Symbol(c, pos) ==
    IF c.toks[pos].text \in DOMAIN c.symbols
    THEN Result(pos + 1, c.symbols[c.toks[pos].text])
    ELSE [Result(pos + 1, 0) EXCEPT !.defined = FALSE]

RECURSIVE Parse(_, _, _), Chain(_, _, _)

Term(c, pos) ==
    LET tok == c.toks[pos]
    IN  CASE IsOp(tok, "-") \/ IsOp(tok, "+") -> Mapped(tok.text, Parse(c, 6, pos + 1))
          [] IsOp(tok, "(") -> Closed(c, Parse(c, 1, pos + 1))
          [] OpName(tok) \in {"HI", "LO", "HW", "LW", "ABS"} ->
                Mapped(OpName(tok), Parse(c, 6, pos + 1))
          [] tok.kind = "DOLLAR" -> Result(pos + 1, c.location)
          [] tok.kind = "NUMBER" -> Result(pos + 1, tok.num)
          [] tok.kind = "STRING" -> Result(pos + 1, StringValue(tok.chars))
          [] tok.kind = "IDENT" /\ OpName(tok) \notin {"HI", "LO", "HW", "LW", "ABS"} ->
                Symbol(c, pos)
          [] OTHER -> Raise(Result(pos, 0), "syntax")

\* Faulty ComparedOnce: a comparison may be compared again.
ComparedAgain(c, l) ==
    LET op == OpName(c.toks[l.pos])
    IN  IF l.err # "" \/ op \notin Comparisons THEN l ELSE Join(op, l, Parse(c, 3, l.pos + 1))

\* At most one comparison: a = b = c stops before the second.
ComparedOnce(c, l) ==
    LET op == OpName(c.toks[l.pos])
    IN  IF l.err # "" \/ op \notin Comparisons THEN l ELSE Join(op, l, Parse(c, 4, l.pos + 1))

Parse(c, level, pos) ==
    CASE level \in {1, 2, 4, 5} -> Chain(c, level, Parse(c, level + 1, pos))
      [] level = 3 /\ OpName(c.toks[pos]) = "NOT" -> Mapped("NOT", Parse(c, 3, pos + 1))
      [] level = 3 /\ OpName(c.toks[pos]) # "NOT" -> ComparedOnce(c, Parse(c, 4, pos))
      [] level = 6 -> Term(c, pos)

\* Operators of a level associate to the left.
Chain(c, level, l) ==
    LET op == OpName(c.toks[l.pos])
    IN  IF l.err # "" \/ op \notin LeftOps(level) THEN l
        ELSE Chain(c, level, Join(op, l, Parse(c, level + 1, l.pos + 1)))

\* The expression at pos, with these symbols at this location.
Evaluate(toks, pos, symbols, location) ==
    Parse([toks |-> toks, symbols |-> symbols, location |-> location], 1, pos)

=============================================================================
