----------------------------- MODULE MCFastPath -----------------------------
(***************************************************************************)
(* FastPath on a raster of 14 lines, 4 of them VRST, at the real 227/4     *)
(* clocks per line: about 795 clocks a frame.  The cartridges are those of *)
(* fforce2/tests/fast.rs, their VSCROLL values and sprite places moved     *)
(* onto the short raster, and some the tests do not have.                  *)
(***************************************************************************)
EXTENDS FastPath, Sequences

MCFont(code, r) == IF code = 0 THEN 0 ELSE 255

Cart(bytes) == [i \in 0 .. Len(bytes) - 1 |-> bytes[i + 1]]

\* spsu; tmi,r0 $80; bcfr,eq -5; lodi,r0 5; stra,r0 $19f9; bctr,un self
SensePoll == Cart(<<18, 244, 128, 152, 123, 4, 5, 204, 25, 249, 27, 126>>)

\* Wait for VRST, wait for its end, count in a palette register, repeat.
VblankEdges ==
    Cart(<<180, 128, 152, 124, 180, 128, 24, 124, 12, 25, 249, 132, 1, 204, 25, 249,
           31, 0, 0>>)

\* Wait for CHARLINE $fd, then move VSCROLL between 250 and 249, repeat.
CharlinePoll ==
    Cart(<<5, 250, 205, 24, 252, 4, 253, 236, 24, 255, 152, 123, 13, 24, 252, 37, 3,
           205, 24, 252, 31, 0, 5>>)

\* Nested BDRR delays, then BIRR delays and a store.
DelayLoops ==
    Cart(<<4, 3, 5, 0, 249, 126, 248, 124, 6, 240, 218, 126, 204, 24, 208, 219, 126,
           31, 0, 0>>)

\* Two sprites over a solid cell; the collisions are copied to RAM each VRST.
Sprites01 ==
    Cart(<<4, 255, 204, 25, 128, 204, 25, 136, 4, 252, 204, 24, 240, 204, 24, 242,
           4, 80, 204, 24, 241, 204, 24, 243, 4, 3, 204, 24, 0, 4, 251, 204, 24, 252,
           180, 128, 152, 124, 12, 25, 252, 204, 24, 208, 12, 25, 253, 204, 24, 209,
           180, 128, 24, 124, 31, 0, 34>>)

\* Poll the panel and count how often START is seen: loda,r0 $1908;
\* tmi,r0 1; bcfr,eq -7; birr,r1 next; ppsu flag; bctr,un 0
PanelPoll == Cart(<<12, 25, 8, 244, 1, 152, 121, 217, 0, 118, 64, 27, 117>>)

\* The same of a key in the top row of the keypad, a column away: $1901, bit 3.
KeyPoll == Cart(<<12, 25, 1, 244, 8, 152, 121, 217, 0, 118, 64, 27, 117>>)

\* Poll a byte of the cartridge, count when it is 0: loda,r0 $0010;
\* bcfr,eq -5; birr,r2 0; bctr,un 0
RomPoll == Cart(<<12, 0, 16, 152, 123, 218, 121, 27, 119>>)

\* Wait for a paddle to read its centre, as it does in VRST only, and count:
\* loda,r0 $19ff; comi,r0 $70; bcfr,eq -7; birr,r1 0; bcta,un 0
PaddlePoll == Cart(<<12, 25, 255, 228, 112, 152, 121, 217, 119, 31, 0, 0>>)

\* Call a subroutine that counts until VRST: bstr,un sub; bcta,un 0;
\* sub: tpsu $80; retc,eq; birr,r2 next; retc,un
CallPoll == Cart(<<59, 3, 31, 0, 0, 180, 128, 20, 218, 0, 23>>)

\* Idle on a branch to itself, and halt.
Spin == Cart(<<27, 126>>)
Halt == Cart(<<5, 3, 64>>)

MCCarts ==
    {SensePoll, VblankEdges, CharlinePoll, DelayLoops, Sprites01, PanelPoll, KeyPoll,
     RomPoll, PaddlePoll, CallPoll, Spin, Halt}

\* The byte RomPoll polls.
MCPokes == {<<16, 0>>}

-----------------------------------------------------------------------------
(* Cartridges the two machines run differently.                            *)

\* Halt with a delay loop as the next instruction: lodi,r1 3; halt; bdrr,r1 self
HaltBeforeDelay == {Cart(<<5, 3, 64, 249, 126>>)}

\* Set VSCROLL to 255 in VRST, then poll CHARLINE for row 0, keeping no trace
\* of what was read: loda,r0 $18ff; comi,r0 $f0; bctr,eq +4; lodi,r0 0; bctr,un -11
ScrollToTop ==
    {Cart(<<180, 128, 152, 124, 5, 255, 205, 24, 252, 12, 24, 255, 228, 240, 24, 4,
            4, 0, 27, 117, 204, 24, 208, 27, 126>>)}
=============================================================================
