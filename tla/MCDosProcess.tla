---------------------------- MODULE MCDosProcess ----------------------------
(***************************************************************************)
(* DosProcess for TLC: a tail of nine bytes, of which six can hold         *)
(* arguments, filled exactly, one byte too far, and by an argument behind  *)
(* one that does not fit.                                                  *)
(***************************************************************************)
EXTENDS DosProcess

MCArgLists == {<< >>, <<0, 1>>, <<5>>, <<6>>, <<2, 2>>, <<1, 4, 0>>, <<3, 3, 1>>}

MCEnvBlocks == {<< >>, <<1>>, <<2, 1, 2>>, <<3, 1>>}
==============================================================================
