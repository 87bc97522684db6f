------------------------------ MODULE FileStore ------------------------------
(***************************************************************************)
(* What mini_ext2 promises the one who calls its commands, one after the   *)
(* other and none of them killed: a tree of named files and directories,   *)
(* without inodes, blocks and bitmaps.  A full disk shows as a command     *)
(* that does less.                                                         *)
(***************************************************************************)
EXTENDS Integers, Sequences, SequencesExt, FiniteSets

CONSTANTS Capacity,      \* names a directory can be given in its life
          Chunk,         \* cells of a writefile that are kept or lost together
          MkdirPaths, CreatePaths, DeletePaths,
          WriteArgs, CopyArgs,   \* <<path, length in cells, cell>>
          UserTable      \* the cells of /.users after format

VARIABLE store           \* what there is: a set of nodes, one for each path

\* A directory knows how many names it was ever given, "." and ".." among them.
\* "behind" are the directories that mkdir made for a path already taken, the
\* oldest first: each by the number of its own names.
File(p, cells) ==
  [path |-> p, kind |-> "reg", cells |-> cells, entered |-> 0, behind |-> <<>>]
Directory(p, n) ==
  [path |-> p, kind |-> "dir", cells |-> <<>>, entered |-> n, behind |-> <<>>]

Formatted == {Directory(<<>>, 3), File(<<".users">>, UserTable)}

Named(s, path) == {x \in s : x.path = path}
Replace(s, x, y) == (s \ {x}) \cup {y}

\* The states with one more name in the directory of path, none if it takes none.
Entered(s, path) ==
  {Replace(s, d, [d EXCEPT !.entered = @ + 1]) :
     d \in {x \in Named(s, Front(path)) : x.kind = "dir" /\ x.entered < Capacity}}

\* mkdir does not look whether the name is taken.  On a full disk the new
\* directory may lack "..", or both its names.
Mkdir(s, path) ==
  UNION {IF Named(t, path) = {} THEN {t \cup {Directory(path, n)}}
         ELSE {Replace(t, x, [x EXCEPT !.behind = Append(@, n)]) : x \in Named(t, path)} :
         t \in Entered(s, path), n \in 0..2}

Create(s, path) ==
  IF Named(s, path) # {} THEN {s} ELSE {t \cup {File(path, <<>>)} : t \in Entered(s, path)}

\* A write replaces the beginning of the file and keeps the rest.  One that fails
\* has replaced all there was, and added whole chunks or nothing.
Over(old, v, len) ==
  [k \in 1..(IF len < Len(old) THEN Len(old) ELSE len) |->
     IF k <= len THEN v ELSE old[k]]
CutShort(old, len, chunk) ==
  {n \in {Len(old)} \cup {chunk * m : m \in 1..len} : Len(old) <= n /\ n < len}
Write(s, a, chunk) ==
  UNION {UNION {{Replace(t, x, [x EXCEPT !.cells = Over(@, a[3], n)]) :
                   n \in {a[2]} \cup CutShort(x.cells, a[2], chunk)} :
                x \in Named(t, a[1])} :
         t \in Create(s, a[1])}

\* What a deleted path led to is gone with it; a directory behind it comes forth.
Unlink(s, x) ==
  {y \in s : ~IsPrefix(x.path, y.path)}
  \cup {[Directory(x.path, x.behind[n]) EXCEPT !.behind = Tail(x.behind)] :
          n \in {1} \cap DOMAIN x.behind}

\* A directory goes unless it was ever given a third name, empty now or not.
Delete(s, path) == {Unlink(s, x) : x \in {y \in Named(s, path) : y.entered <= 2}}

Init == store = Formatted
Next ==
  \E s \in {store}, t \in {store'} :
    \/ t = s                 \* looks only, or fails and does nothing
    \/ t = Formatted
    \/ \E p \in MkdirPaths : t \in Mkdir(s, p)
    \/ \E p \in CreatePaths : t \in Create(s, p)
    \/ \E a \in WriteArgs : t \in Write(s, a, a[2])
    \/ \E a \in CopyArgs : t \in Write(s, a, Chunk)
    \/ \E p \in DeletePaths : t \in Delete(s, p)
Spec == Init /\ [][Next]_store
=============================================================================
