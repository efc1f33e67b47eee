---------------------------- MODULE MCDosServices ----------------------------
(***************************************************************************)
(* DosServices for TLC: a base directory with the directory GAME, a file   *)
(* in it and a file beside it.                                             *)
(***************************************************************************)
EXTENDS DosServices

CONSTANT stray

MCStrays == {stray}

MCBlocks == [Handles -> MCStrays \cup {NULL}]

\* One errno for each code that an existing file can have refused with.
MCFileErrors == {"EACCES", "EINVAL", "EFAULT", "EROFS"}

MCHostDirs == {<<>>, <<"GAME">>}

MCHostFiles == {<<"README">>, <<"GAME", "DATA">>}

MCPathArgs == {<<"", "GAME">>, <<"GAME">>, <<"", "README">>, <<"DATA">>}

\* The volume's drive, an empty slot, the uninitialised slot, beyond the slots.
MCDriveArgs == {0, 2, 3, 25, 26}
==============================================================================
