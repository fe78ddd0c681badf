------------------------------ MODULE MCS2650 ------------------------------
(***************************************************************************)
(* S2650 with a main program that counts, calls, drives FLAG, tests SENSE  *)
(* and halts, and a handler at 8 that counts in R2.  The vector 8 enters   *)
(* it directly, the vector $8C through the pointer at 12:                  *)
(*    0 bcta,un 16    8 birr,r2 10   10 rete,un                            *)
(*   16 birr,r1 18   18 bsta,un 28   21 ppsu $40   23 cpsu $40             *)
(*   25 halt         26 bctr,un 16                                         *)
(*   28 addi,r0 3    30 tpsu $80     32 retc,un                            *)
(***************************************************************************)
EXTENDS S2650, Sequences, TLC

Code(org, bytes) == [a \in org .. org + Len(bytes) - 1 |-> bytes[a - org + 1]]

MCImage ==
    Code(0, <<31, 0, 16>>) @@ Code(8, <<218, 0, 55>>) @@ Code(12, <<0, 8>>)
        @@ Code(16, <<217, 0, 63, 0, 28, 118, 64, 116, 64, 64, 27, 116>>)
        @@ Code(28, <<132, 3, 180, 128, 23>>)
=============================================================================
