----------------------------- MODULE MCMiniExt2 -----------------------------
(***************************************************************************)
(* Small instances of MiniExt2: geometries, names and inputs for TLC.      *)
(***************************************************************************)
EXTENDS Fsck

\* "long" is a name of 56 characters or more, "stem" its first 55.
McStem == [n \in {".", "..", ".users", "d", "f", "g", "long", "stem"} |->
             IF n = "long" THEN "stem" ELSE n]
D == <<"d">>
F == <<"f">>
G == <<"g">>
DF == <<"d", "f">>
BelowF == <<"f", "g">>
Nothing == {}

\* Run "commands": two files, one of them in a directory.  F reaches into the
\* indirect blocks, the two together exhaust the device; DF is made, replaced,
\* grown and overwritten in part.
CmdMkdir == {D}
CmdCreate == {DF, BelowF}
CmdDelete == {D, F, DF}
CmdWrite == {<<F, 7, "b">>, <<DF, 1, "c">>}
CmdCopy == {<<DF, 4, "a">>}

\* Run "kills": one file across direct and indirect blocks, one directory, root
\* and another user, a mode that shuts the owner out, and any command killed
\* after any of its block writes.
KillCreate == {DF}
KillDelete == {F}
KillWrite == {<<F, 7, "b">>}
KillChmod == {<<F, {"ownerR", "otherR", "otherW"}>>}

OnlyD == {D}

\* Run "last_blocks": two files that do not fit into the blocks with a bit.
TwoWrites == {<<F, 7, "b">>, <<G, 4, "c">>}
=============================================================================
