---------------------------- MODULE MCToolchain ----------------------------
(***************************************************************************)
(* Toolchain with sources of five menus: how a program is laid out, what   *)
(* its binary holds, the forms of instructions, the other directives, and  *)
(* expressions.                                                            *)
(***************************************************************************)
EXTENDS Toolchain

At(col0, toks) == [col0 |-> col0, toks |-> toks \o <<Eol>>, postfix |-> <<>>]
Indented(toks) == At(FALSE, toks)
Labelled(toks) == At(TRUE, toks)

Comma == Punct(",")
Op(base, toks) == Indented(<<Mnemonic(base)>> \o toks)
R(n) == Register(n)

X == Ident("X")
Y == Ident("Y")
LAB == Ident("LAB")
EQ == Ident("EQ")
Dir(name, toks) == Indented(<<Ident(name)>> \o toks)
Equ(name, toks) == Labelled(<<name, Ident("EQU")>> \o toks)
Plus(tok, n) == <<tok, Punct("+"), Number(n)>>

LODA == 12
BCTR == 24
NOP == 192

-----------------------------------------------------------------------------
Blank == Indented(<<>>)

Layout ==
    << {Blank, Dir("ORG", <<Number(4)>>), Dir("ORG", <<LAB>>), Equ(EQ, <<Number(2)>>)},
       {Equ(X, <<Y>>), Equ(X, Plus(LAB, 1)), Equ(X, Plus(Dollar, 2)), Equ(X, <<X>>),
        Labelled(<<X, Ident("SET"), Number(3)>>), Equ(Y, <<Number(1)>>)},
       {Op(LODA, <<Comma, R(0), X>>), Op(BCTR, <<Comma, EQ, LAB>>), Dir("DS", <<X>>),
        Dir("DB", <<Ident("LO"), X, Comma, Str(<<65>>)>>), Dir("DW", Plus(LAB, 3))},
       {Equ(Y, <<Number(2)>>), Labelled(<<LAB, Mnemonic(NOP)>>),
        Labelled(<<Y, Punct(":"), Ident("DW"), X>>)},
       {Dir("ORG", <<Number(2)>>), Dir("ORG", <<X>>), Labelled(<<LAB>>),
        Labelled(<<LAB, Ident("DS"), Number(2), Comma, Number(255)>>),
        Op(BCTR, <<Comma, Number(3), Dollar>>), Dir("END", <<>>)},
       {Dir("DW", <<X, Comma, LAB>>), Equ(EQ, <<Number(0)>>), Dir("END", <<X>>),
        Op(NOP, <<>>)} >>

-----------------------------------------------------------------------------
Bytes3(op) ==
    {Dir("DB", <<Number(op), Comma, Number(b), Comma, Number(c)>>) :
        b \in {0, 3, 62, 64, 112, 255}, c \in {0, 7}}

Data ==
    << {Dir("ORG", <<Number(a)>>) : a \in {0, 8189, 16383, 32766}},
       UNION {Bytes3(op) : op \in D!Byte} >>

-----------------------------------------------------------------------------
Tails ==
    { <<>>, <<Comma>>, <<Comma, R(2)>>, <<Comma, Punct("+")>>, <<Comma, R(2), Punct("-")>>,
      <<Comma, R(1), Comma, Punct("+")>>, <<Comma, Number(5)>>, <<R(1)>> }

Heads ==
    { <<>>, <<R(0)>>, <<R(3)>>, <<Comma, R(1)>>, <<Comma, EQ>>, <<Comma, Number(3)>>,
      <<Comma, Number(4)>>, <<Comma, LAB>>, <<Comma, X>>, <<Comma, Str(<<65>>)>>, <<Comma>> }

Targets ==
    { <<>>, <<LAB>>, <<Punct("*"), LAB>>, <<Number(300)>>, <<Punct("-"), Number(1)>>,
      <<Punct("("), Number(9), Punct(")")>>, <<Punct("("), Number(9)>>, <<Bad>> }

\* An instruction of each mode.
OfModes == {CHOOSE b \in D!INSTRUCTIONS[mode] : TRUE : mode \in D!Modes}

Forms ==
    << {Op(base, h \o t \o x) : base \in OfModes, h \in Heads, t \in Targets, x \in Tails},
       {Labelled(<<LAB, Punct(":")>>)} >>

-----------------------------------------------------------------------------
Eight(a, b) == Str(<<a, b, a, 46, 32, b, b, a>>)

Directives ==
    << {Dir(name, args) :
          name \in D!DIRECTIVES \cup {"FOO"},
          args \in {<<>>, <<Number(3)>>, <<Number(0)>>, <<Punct("-"), Number(3)>>,
                    <<Punct("-"), Number(200)>>, <<Number(12), Comma, Number(7)>>,
                    <<Number(2), Comma, LAB>>, <<Str(<<9>>)>>, <<Str(<<>>), Comma>>, <<X>>,
                    <<Number(10), Punct("/"), LAB>>}}
       \cup {Dir(name, <<Eight(35, 46)>>) : name \in {"DB", "DBX"}}
       \cup {Dir("DB", <<Number(300)>>), Dir("DW", <<Str(<<65, 66>>)>>), Labelled(<<LAB>>),
             Indented(<<LAB>>), Labelled(<<Ident("FOO"), LAB>>), Indented(<<Number(1)>>),
             Labelled(<<Bad>>)},
       {Labelled(<<LAB, Punct(":"), Mnemonic(NOP)>>)} >>

-----------------------------------------------------------------------------
\* An expression: how tightly its outermost operator binds, its tokens with
\* parentheses only where they are needed, and its postfix.
Item(op, num, arity) == [op |-> op, num |-> num, arity |-> arity]
Leaf(n) == [level |-> 6, toks |-> <<Number(n)>>, postfix |-> <<Item("", n, 0)>>]

Inside(e, level) ==
    IF e.level >= level THEN e.toks ELSE <<Punct("(")>> \o e.toks \o <<Punct(")")>>

Of1(op, tok, e) ==
    LET level == IF op = "NOT" THEN 3 ELSE 6
    IN  [level |-> level, toks |-> <<tok>> \o Inside(e, level),
         postfix |-> Append(e.postfix, Item(op, 0, 1))]

LevelOf(op) ==
    CASE op \in {"OR", "XOR"} -> 1 [] op = "AND" -> 2 [] op \in Comparisons -> 3
      [] op \in {"+", "-"} -> 4 [] OTHER -> 5

Of2(op, tok, l, r) ==
    LET level == LevelOf(op)
    IN  [level |-> level,
         toks |-> Inside(l, IF level = 3 THEN 4 ELSE level) \o <<tok>> \o Inside(r, level + 1),
         postfix |-> l.postfix \o r.postfix \o <<Item(op, 0, 2)>>]

\* The operators, each with a way it is written.
Infix ==
    {<<op, Punct(op)>> : op \in Comparisons \cup {"+", "-", "*", "/"}}
    \cup {<<"OR", Punct("|")>>, <<"XOR", Punct("!!")>>, <<"AND", Ident("AND")>>,
          <<"MOD", Punct("%")>>, <<"SHL", Punct("<<")>>, <<"SHR", Ident("SHR")>>}
Prefix ==
    {<<op, Punct(op)>> : op \in {"-", "+"}}
    \cup {<<"NOT", Punct("~")>>} \cup {<<op, Ident(op)>> : op \in {"HI", "LO", "HW", "LW", "ABS"}}

Word(e) == [Dir("DW", e.toks) EXCEPT !.postfix = e.postfix]

Trees(a, b, c) ==
    {Of2(o[1], o[2], Of2(p[1], p[2], a, b), c) : o, p \in Infix}
    \cup {Of2(o[1], o[2], a, Of2(p[1], p[2], b, c)) : o, p \in Infix}
    \cup {Of2(o[1], o[2], Of1(u[1], u[2], a), b) : o \in Infix, u \in Prefix}
    \cup {Of2(o[1], o[2], a, Of1(u[1], u[2], b)) : o \in Infix, u \in Prefix}
    \cup {Of1(u[1], u[2], Of2(o[1], o[2], a, b)) : o \in Infix, u \in Prefix}
    \cup {Of1(u[1], u[2], Of1(v[1], v[2], a)) : u, v \in Prefix}

Seven == Of1("-", Punct("-"), Leaf(7))

\* Quotients and remainders below 0 where the floats of the model (10 bits, less
\* than 2 ^ 12) end, where they round to the next integer, and where there are none.
Edges == 1022 .. 1027 \cup 2045 .. 2051 \cup 3070 .. 3073 \cup 4093 .. 4097
Negated(e) == Of1("-", Punct("-"), e)

Divisions ==
    LET Pairs == Edges \X {1, 2, 3, 1023, 1024, 1025, 2047, 2048}
    IN  UNION {{Of2(o[1], o[2], Negated(Leaf(p[1])), Leaf(p[2])),
                Of2(o[1], o[2], Leaf(p[1]), Negated(Leaf(p[2])))} :
                   o \in {q \in Infix : q[1] \in {"/", "MOD"}}, p \in Pairs}

Arithmetic ==
    << {Word(e) : e \in Trees(Leaf(7), Leaf(1), Leaf(4)) \cup Trees(Leaf(300), Leaf(0), Leaf(5))
                        \cup Trees(Seven, Leaf(2), Leaf(3)) \cup Divisions} >>

MCMenus ==
    [layout |-> Layout, data |-> Data, forms |-> Forms, directives |-> Directives,
     arithmetic |-> Arithmetic]

-----------------------------------------------------------------------------
\* A load, a name set to another name, and that name set, in any order.
InAnyOrder == {Op(LODA, <<Comma, R(0), X>>), Equ(X, <<Y>>), Equ(Y, <<Number(4660)>>), Blank}

MCForward == [forward |-> <<InAnyOrder, InAnyOrder, InAnyOrder>>]

=============================================================================
