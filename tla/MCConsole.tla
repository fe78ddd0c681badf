----------------------------- MODULE MCConsole -----------------------------
(***************************************************************************)
(* Console on a raster of 14 lines, 4 of them VRST, at the real 227/4      *)
(* clocks per line, so that an instruction may end a frame and begin the   *)
(* next.                                                                   *)
(***************************************************************************)
EXTENDS Console, Sequences

MCFont(code, r) == IF code = 0 THEN 0 ELSE 255

Cart(bytes) == [i \in 0 .. Len(bytes) - 1 |-> bytes[i + 1]]

\* A delay, a subroutine that changes FLAG, and again:
\*    0 lodi,r1 9    2 bdrr,r1 2    4 bsta,un 10    7 bcta,un 0
\*   10 eorz,r0      11 ppsu $40    13 cpsu $40     15 retc,un
Caller ==
    Cart(<<5, 9, 249, 126, 63, 0, 10, 31, 0, 0, 32, 118, 64, 116, 64, 23>>)

\* Wait for VRST, then halt.
Halter == Cart(<<180, 128, 152, 124, 64>>)

MCCarts == {Caller, Halter}
MCPcs == 0 .. 15
=============================================================================
