----------------------------- MODULE MCSession -----------------------------
(***************************************************************************)
(* Session with root, one or two users, a word too long for a line and one *)
(* with a ':' in it.                                                       *)
(***************************************************************************)
EXTENDS Session

McModes == {DefaultMode, {"ownerR", "ownerW"},
            {"ownerR", "ownerW", "otherR", "otherW"}}
OpenModes == {DefaultMode, {"ownerR", "ownerW", "otherR", "otherW"}}
None == {}

McFields == {"root", "ann", "bob", "secret", "longer", "long word", "x", "0"}
McSplit == [w \in McFields |-> <<w>>] @@ [w \in {"x:0"} |-> <<"x", "0">>]
McNumber == [f \in McFields |-> 0]

\* A block takes two lines of root's kind, and less of the longer words.
McWeight == [f \in McFields \ {"longer", "long word"} |-> 1]
            @@ [f \in {"longer", "long word"} |-> 2]
=============================================================================
