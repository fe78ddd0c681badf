------------------------------ MODULE MCRaster ------------------------------
(***************************************************************************)
(* Raster on a short frame: 5 lines of 7/2 clocks, so that an instruction  *)
(* of up to 5 clocks spans no line, one or two, and a skip of up to 9      *)
(* spans up to three and a frame's end.                                    *)
(***************************************************************************)
EXTENDS Raster
=============================================================================
