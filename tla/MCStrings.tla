------------------------------- MODULE MCStrings -------------------------------
(***************************************************************************)
(* Two objects and room for a realloc(3) that moves its block; blocks of   *)
(* at least two bytes, texts that need no growth, one growth and several.  *)
(***************************************************************************)
EXTENDS Strings, TLC

MCTexts == {<< >>, <<"a", "b">>}
MCBufferLens == {0, 2}

Symmetry == Permutations(Objects) \cup Permutations(Blocks)
===============================================================================
