------------------------------- MODULE Tokens -------------------------------
(***************************************************************************)
(* The tokens of a source line: what the tokeniser makes of its text.      *)
(***************************************************************************)
EXTENDS Sequences

\* NUMBER and REG have a num, IDENT and OP a text, STRING has chars.  BAD is
\* text that is no token, at which the tokeniser raises its error.
Token(kind, text, num, chars) == [kind |-> kind, text |-> text, num |-> num, chars |-> chars]
Number(n) == Token("NUMBER", "", n, <<>>)
Ident(name) == Token("IDENT", name, 0, <<>>)
Register(n) == Token("REG", "", n, <<>>)
Str(chars) == Token("STRING", "", 0, chars)
Punct(text) == Token("OP", text, 0, <<>>)
Dollar == Token("DOLLAR", "$", 0, <<>>)
Eol == Token("EOL", "", 0, <<>>)
Bad == Token("BAD", "", 0, <<>>)

\* A mnemonic, known by its base opcode.
Mnemonic(base) == Token("IDENT", "mnemonic", base, <<>>)
IsMnemonic(tok) == tok.kind = "IDENT" /\ tok.text = "mnemonic"

IsOp(tok, text) == tok.kind = "OP" /\ tok.text = text

WORD_OPERATORS ==
    {"AND", "OR", "XOR", "NOT", "MOD", "SHL", "SHR", "HI", "LO", "HW", "LW", "ABS"}

\* The operators punctuation stands for.
OP_NAMES ==
    [ OR |-> {"|", "!"}, XOR |-> {"^", "!!"}, AND |-> {"&"}, NOT |-> {"\\", "~"},
      MOD |-> {"%"}, SHL |-> {"<<"}, SHR |-> {">>"} ]

\* The operator a token names; punctuation not in the table is its own name.
OpName(tok) ==
    LET named == {name \in DOMAIN OP_NAMES : tok.text \in OP_NAMES[name]}
    IN  IF tok.kind = "OP" THEN IF named = {} THEN tok.text ELSE CHOOSE name \in named : TRUE
        ELSE IF tok.kind = "IDENT" /\ tok.text \in WORD_OPERATORS THEN tok.text
        ELSE "none"

=============================================================================
