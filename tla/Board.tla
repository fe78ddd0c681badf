------------------------------- MODULE Board -------------------------------
(***************************************************************************)
(* Everything on the CPU's bus: the cartridge, the UVI and the input       *)
(* latches, with the two notes idle_check later reads: how many effects    *)
(* the program had, and which time-varying inputs it read.  A board is a   *)
(* record b; the operators are those of `impl Bus for Board`.              *)
(***************************************************************************)
EXTENDS Uvi

CeArea == 256 .. 383           \* window offsets of the keypads and the panel
Volatile == 508 .. 511         \* collision registers and paddles

\* The cartridge, a function from the offsets it has bytes at, fills 8K and
\* is seen again at every mirror; PAL consoles invert colours on FLAG.
NewBoard(cart, pal) ==
    [ rom     |-> cart,
      uvi     |-> [NewUvi EXCEPT !.invert = pal],
      ce      |-> [i \in 0 .. 15 |-> 0],
      flag    |-> FALSE,
      effects |-> 0,
      reads   |-> {} ]

IsUvi(a) == Bit(a, 4096) = 1

\* The UVI's window repeats every 1K, and its last quarter shows the second.
Window(a) == IF a % 1024 >= 768 THEN (a % 1024) - 512 ELSE a % 1024

\* The cartridge offset address a shows, and its byte.
RomOffset(a) == (IF (a \div 4096) % 8 = 2 THEN 4096 ELSE 0) + (a % 4096)
RomByte(b, a) == IF RomOffset(a) \in DOMAIN b.rom THEN b.rom[RomOffset(a)] ELSE 255

Ce(b, o) == IF o - 256 \in DOMAIN b.ce THEN b.ce[o - 256] ELSE 0

BoardPeek(b, a) ==
    IF ~IsUvi(a) THEN RomByte(b, a)
    ELSE IF Window(a) \in CeArea THEN Ce(b, Window(a))
    ELSE Peek(b.uvi, Window(a))

\* Host store, ROM and its mirrors included; the CE area is not writable.
Poke(b, a, v) ==
    LET put(f, i) == [j \in DOMAIN f \cup {i} |-> IF j = i THEN v ELSE f[j]]
    IN  IF ~IsUvi(a) THEN [b EXCEPT !.rom = put(@, RomOffset(a))]
        ELSE IF Window(a) \in CeArea THEN b
        ELSE [b EXCEPT !.uvi.mem = put(@, Window(a))]

\* The time-varying input a read of window offset o takes.
Noted(o) ==
    IF o = CHARLINE THEN {"charline"} ELSE IF o \in Volatile THEN {"volatile"} ELSE {}

BoardRead(b, a) ==
    LET o == Window(a)
    IN  [ v   |-> BoardPeek(b, a),
          bus |-> IF ~IsUvi(a) \/ o \in CeArea THEN b
                  ELSE [b EXCEPT !.uvi = AfterRead(@, o), !.reads = @ \cup Noted(o)] ]

BoardWrite(b, a, v) ==
    LET w == [b EXCEPT !.effects = @ + 1]
    IN  IF ~IsUvi(a) \/ Window(a) \in CeArea THEN w
        ELSE [w EXCEPT !.uvi = Write(@, Window(a), v)]

BoardSense(b) ==
    [ v   |-> IF Sense(b.uvi) THEN 1 ELSE 0,
      bus |-> [b EXCEPT !.reads = @ \cup {"sense"}] ]

BoardFlag(b, level) ==
    [b EXCEPT !.effects = @ + 1, !.flag = level = 1]

\* The board leaves intack to the trait's default.
BoardIntAck(b) == 0

=============================================================================
