---------------------------- MODULE MCHandleTable ----------------------------
(***************************************************************************)
(* HandleTable for TLC: every content of the block with the given strays.  *)
(***************************************************************************)
EXTENDS HandleTable

CONSTANTS stray, o1, o2

MCObjects == {o1, o2}

MCStrays == {stray}

MCBlocks == [Handles -> MCStrays \cup {NULL}]
==============================================================================
