------------------------------ MODULE MCMapGrid ------------------------------
(* Constants for model-checking MapGrid.                                   *)
EXTENDS MapGrid

CONSTANTS a, b, c, d

(* Nothing, everything, and the popular maps: two battles play the same.   *)
MCLists == {<<>>, <<a, b, c, d>>, <<a, a, d>>}
MCTexts == {Maps, {a}}
==============================================================================
