----------------------------- MODULE MCUviBeam -----------------------------
(***************************************************************************)
(* UviBeam on a short frame of 12 lines, 3 of them VRST: rows of 4 or 2    *)
(* lines, 2 or 4 rows, sprites of 4 or 2 lines and VSCROLL from 0 to 8.    *)
(***************************************************************************)
EXTENDS UviBeam, TLC

\* Every built-in glyph but the blank is solid.
MCFont(code, r) == IF code = 0 THEN 0 ELSE 255

\* Scrolling, row height and row count changed at any time.
BeamWrites ==
    ({VSCROLL} \X {0, 3, 5, 7, 8}) \cup ({PAL0} \X {0, 64}) \cup ({PAL1} \X {0, 128})

EmptyWindow == VSCROLL :> 5

\* Two sprites over a field with solid cells beside them, the second of them
\* just right of the first; the shift, a size and a place change.
SpriteWrites ==
    {<<SOUND, 0>>, <<SOUND, 32>>, <<SIZES, 128>>, <<PAL1, 128>>,
     <<SPRITEPOS, 3>>, <<SPRITEPOS + 2, 6>>, <<SPRITEPOS + 3, 60>>}

SpriteWindow ==
    VSCROLL :> 6 @@ SPRITEPOS :> 5 @@ (SPRITEPOS + 1) :> 51
        @@ (SPRITEPOS + 2) :> 4 @@ (SPRITEPOS + 3) :> 58
        @@ UDG :> 255 @@ (UDG + 1) :> 128 @@ (UDG + 8) :> 24 @@ (UDG + 9) :> 255
        @@ 0 :> 1 @@ 2 :> 1 @@ 16 :> 1 @@ 17 :> 192

MCScenes ==
    { [setup |-> EmptyWindow, writes |-> BeamWrites, most |-> 3],
      [setup |-> SpriteWindow, writes |-> SpriteWrites, most |-> 2] }
=============================================================================
