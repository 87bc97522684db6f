----------------------------- MODULE FsckProofs -----------------------------
(***************************************************************************)
(* What holds of every image of MiniExt2, whatever the geometry and the    *)
(* inputs.                                                                 *)
(***************************************************************************)
EXTENDS Fsck, SetLemmas, SequenceTheorems

-----------------------------------------------------------------------------
(* Types *)

\* What the commands may spell and write.
Spelled == {".", "..", ".users"}
           \cup {Last(p) : p \in MkdirPaths \cup CreatePaths
                                 \cup {a[1] : a \in WriteArgs \cup CopyArgs}}
Texts == {"users"} \cup {a[3] : a \in WriteArgs \cup CopyArgs}
Modes == {{}, DefaultMode} \cup {a[2] : a \in ChmodArgs}

Ptrs == Recorded \cup {NilBlock}
Capacity == (NDirect + Width) * Width
Cells == {Zero} \cup {Pointer(b) : b \in Recorded} \cup {Data(v) : v \in Texts}
         \cup {Entry(Stem[n], i, t) : n \in Spelled, i \in Inodes, t \in {"reg", "dir"}}
Contained == [0 .. Width - 1 -> Cells]
InodeSet == [type : {"none", "reg", "dir"}, uid : Uids \cup {0}, mode : Modes,
             size : 0 .. Capacity, blocks : Int,
             direct : [0 .. NDirect - 1 -> Ptrs], indirect : Ptrs]
Counts == [live : BOOLEAN, blocks : Int, inodes : Int]
Groups == [blocks : Int, inodes : Int, tail : Counts]
Images == [magic : BOOLEAN, bmap : SUBSET Recorded, imap : SUBSET Inodes,
           sb : Counts, gd : Groups,
           inode : [Inodes -> InodeSet], block : [Blocks -> Contained]]

\* Contexts whose images all are in I; copies hold an inode as well.
Contexts(I) == [log : Seq(I) \ {<<>>}, ret : Int]
Copies(I) == [log : Seq(I) \ {<<>>}, ret : Int, in : InodeSet]

LEMMA Geometry ==
  /\ NBlocks \in Nat /\ NBlocks >= 1 /\ MaxInodes \in Nat /\ MaxInodes >= 1
  /\ NDirect \in Nat /\ NDirect >= 1 /\ Width \in Nat /\ Width >= 1
  /\ NBits \in Nat /\ NBits >= 1 /\ NBits <= NBlocks
BY GeometryAssumption

LEMMA Ranges ==
  /\ Recorded \subseteq Blocks /\ Recorded \subseteq Nat \ {0} /\ Blocks \subseteq Nat \ {0}
  /\ Inodes \subseteq Nat \ {0} /\ RootIno \in Inodes
  /\ Ptrs \subseteq Nat /\ 0 \in Ptrs /\ 0 \notin Recorded
BY Geometry DEF Recorded, Blocks, Inodes, RootIno, Ptrs, NilBlock

-----------------------------------------------------------------------------
(* Contexts *)

LEMMA CurIn ==
  ASSUME NEW I, NEW c \in Contexts(I) \cup Copies(I)
  PROVE  Cur(c) \in I /\ \A k \in DOMAIN c.log : c.log[k] \in I
BY DEF Contexts, Copies, Cur, Last

LEMMA BeginIn ==
  ASSUME NEW I, NEW im \in I
  PROVE  Begin(im) \in Contexts(I) /\ Cur(Begin(im)) = im /\ Begin(im).ret = 0
BY DEF Contexts, Begin, Cur, Last, FS_OK

LEMMA RetIn ==
  ASSUME NEW I, NEW r \in Int
  PROVE  /\ \A c \in Contexts(I) \cup Copies(I) :
              Cur(Ret(c, r)) = Cur(c) /\ Ret(c, r).ret = r /\ Ret(c, r).log = c.log
         /\ \A c \in Contexts(I) : Ret(c, r) \in Contexts(I)
         /\ \A c \in Copies(I) : Ret(c, r) \in Copies(I) /\ Ret(c, r).in = c.in
<1>1. ASSUME NEW c \in Contexts(I)
      PROVE  /\ Ret(c, r) \in Contexts(I) /\ Cur(Ret(c, r)) = Cur(c)
             /\ Ret(c, r).ret = r /\ Ret(c, r).log = c.log
  BY DEF Contexts, Ret, Cur, Last
<1>2. ASSUME NEW c \in Copies(I)
      PROVE  /\ Ret(c, r) \in Copies(I) /\ Cur(Ret(c, r)) = Cur(c)
             /\ Ret(c, r).ret = r /\ Ret(c, r).log = c.log /\ Ret(c, r).in = c.in
  BY DEF Copies, Ret, Cur, Last
<1> QED
  BY <1>1, <1>2

\* One block written: the image it leaves is the last of the log.
Wrote(d, c, im) == d.log = Append(c.log, im) /\ d.ret = 0 /\ Cur(d) = im

LEMMA Appended ==
  ASSUME NEW I, NEW im \in I, NEW s \in Seq(I) \ {<<>>}
  PROVE  Append(s, im) \in Seq(I) \ {<<>>} /\ Last(Append(s, im)) = im
BY DEF Last

LEMMA DevWriteIn ==
  ASSUME NEW I, NEW im \in I
  PROVE  /\ \A c \in Contexts(I) : DevWrite(c, im) \in Contexts(I)
         /\ \A c \in Copies(I) : DevWrite(c, im) \in Copies(I) /\ DevWrite(c, im).in = c.in
         /\ \A c \in Contexts(I) \cup Copies(I) : Wrote(DevWrite(c, im), c, im)
<1> DEFINE S == Seq(I) \ {<<>>}
<1>1. ASSUME NEW c \in Contexts(I)
      PROVE  DevWrite(c, im) \in Contexts(I) /\ Wrote(DevWrite(c, im), c, im)
  <2> DEFINE l == Append(c.log, im)
             e == [c EXCEPT !.log = l]
             d == [e EXCEPT !.ret = 0]
  <2>1. c \in [log : S, ret : Int] /\ c.log \in S
    BY DEF Contexts
  <2>2. l \in S /\ Last(l) = im
    BY Zenon, <2>1, Appended
  <2>3. DevWrite(c, im) = d
    BY Zenon DEF DevWrite, FS_OK
  <2> HIDE DEF S, l
  <2>4. e \in [log : S, ret : Int] /\ e.log = l
    BY <2>1, <2>2
  <2> HIDE DEF e
  <2>5. d \in [log : S, ret : Int] /\ d.log = l /\ d.ret = 0
    BY <2>4
  <2> HIDE DEF d
  <2> QED
    BY <2>2, <2>3, <2>5 DEF Wrote, Cur, Contexts, S, l
<1>2. ASSUME NEW c \in Copies(I)
      PROVE  /\ DevWrite(c, im) \in Copies(I) /\ Wrote(DevWrite(c, im), c, im)
             /\ DevWrite(c, im).in = c.in
  <2> DEFINE l == Append(c.log, im)
             e == [c EXCEPT !.log = l]
             d == [e EXCEPT !.ret = 0]
  <2>1. c \in [log : S, ret : Int, in : InodeSet] /\ c.log \in S
    BY DEF Copies
  <2>2. l \in S /\ Last(l) = im
    BY Zenon, <2>1, Appended
  <2>3. DevWrite(c, im) = d
    BY Zenon DEF DevWrite, FS_OK
  <2> HIDE DEF S, l
  <2>4. e \in [log : S, ret : Int, in : InodeSet] /\ e.log = l /\ e.in = c.in
    BY <2>1, <2>2
  <2> HIDE DEF e
  <2>5. d \in [log : S, ret : Int, in : InodeSet] /\ d.log = l /\ d.ret = 0 /\ d.in = c.in
    BY <2>4
  <2> HIDE DEF d
  <2> QED
    BY <2>2, <2>3, <2>5 DEF Wrote, Cur, Copies, S, l
<1> QED
  BY <1>1, <1>2

LEMMA CopyOf ==
  ASSUME NEW I, NEW in \in InodeSet
  PROVE  /\ \A c \in Contexts(I) : /\ WithInode(c, in) \in Copies(I) /\ WithInode(c, in).in = in
                                   /\ WithInode(c, in).log = c.log
                                   /\ WithInode(c, in).ret = c.ret
                                   /\ Cur(WithInode(c, in)) = Cur(c)
         /\ \A c \in Copies(I) : /\ Returned(c) \in Contexts(I) /\ Returned(c).log = c.log
                                 /\ Returned(c).ret = c.ret /\ Cur(Returned(c)) = Cur(c)
BY DEF Contexts, Copies, WithInode, Returned, Cur

\* The copy changes.
LEMMA CopySet ==
  ASSUME NEW I, NEW c \in Copies(I), NEW in \in InodeSet
  PROVE  LET d == [c EXCEPT !.in = in]
         IN  d \in Copies(I) /\ d.in = in /\ d.log = c.log /\ d.ret = c.ret /\ Cur(d) = Cur(c)
BY DEF Copies, Cur

LEMMA ContextsMono ==
  ASSUME NEW I, NEW J, I \subseteq J
  PROVE  Contexts(I) \subseteq Contexts(J)
BY DEF Contexts

-----------------------------------------------------------------------------
(* Changes of an image *)

Put(f, i, x) == [f EXCEPT ![i] = x]
PutInode(im, i, in) == [im EXCEPT !.inode[i] = in]
PutBlock(im, b, x) == [im EXCEPT !.block[b] = x]
PutCell(im, b, k, cell) == [im EXCEPT !.block[b][k] = cell]

\* Bits and counters are those of im.
SameBits(new, im) ==
  /\ new.magic = im.magic /\ new.bmap = im.bmap /\ new.imap = im.imap
  /\ new.sb = im.sb /\ new.gd = im.gd

LEMMA FieldsIn ==
  ASSUME NEW im \in Images
  PROVE  /\ im.magic \in BOOLEAN /\ im.bmap \subseteq Recorded /\ im.imap \subseteq Inodes
         /\ im.sb \in Counts /\ im.gd \in Groups
         /\ im.inode \in [Inodes -> InodeSet] /\ im.block \in [Blocks -> Contained]
BY DEF Images

LEMMA NewInodes ==
  ASSUME NEW im \in Images, NEW t \in [Inodes -> InodeSet]
  PROVE  LET new == [im EXCEPT !.inode = t]
         IN  new \in Images /\ new.inode = t /\ new.block = im.block /\ SameBits(new, im)
BY DEF Images, SameBits

LEMMA NewBlocks ==
  ASSUME NEW im \in Images, NEW t \in [Blocks -> Contained]
  PROVE  LET new == [im EXCEPT !.block = t]
         IN  new \in Images /\ new.block = t /\ new.inode = im.inode /\ SameBits(new, im)
BY DEF Images, SameBits

LEMMA PutInodeIs ==
  ASSUME NEW im \in Images, NEW i \in Inodes, NEW in \in InodeSet
  PROVE  LET new == PutInode(im, i, in)
         IN  /\ new \in Images /\ new.inode = Put(im.inode, i, in)
             /\ new.block = im.block /\ SameBits(new, im)
<1> DEFINE t == [im.inode EXCEPT ![i] = in]
<1>1. t \in [Inodes -> InodeSet]
  BY FieldsIn
<1>2. PutInode(im, i, in) = [im EXCEPT !.inode = t]
  BY DEF PutInode
<1> HIDE DEF t
<1>3. LET new == [im EXCEPT !.inode = t]
      IN  new \in Images /\ new.inode = t /\ new.block = im.block /\ SameBits(new, im)
  BY <1>1, NewInodes
<1> QED
  BY <1>2, <1>3 DEF t, Put

LEMMA PutBlockIs ==
  ASSUME NEW im \in Images, NEW b \in Blocks, NEW x \in Contained
  PROVE  LET new == PutBlock(im, b, x)
         IN  /\ new \in Images /\ new.block = Put(im.block, b, x)
             /\ new.inode = im.inode /\ SameBits(new, im)
<1> DEFINE t == [im.block EXCEPT ![b] = x]
<1>1. t \in [Blocks -> Contained]
  BY FieldsIn
<1>2. PutBlock(im, b, x) = [im EXCEPT !.block = t]
  BY DEF PutBlock
<1> HIDE DEF t
<1>3. LET new == [im EXCEPT !.block = t]
      IN  new \in Images /\ new.block = t /\ new.inode = im.inode /\ SameBits(new, im)
  BY <1>1, NewBlocks
<1> QED
  BY <1>2, <1>3 DEF t, Put

LEMMA PutCellIs ==
  ASSUME NEW im \in Images, NEW b \in Blocks, NEW k \in 0 .. Width - 1, NEW cell \in Cells
  PROVE  LET new == PutCell(im, b, k, cell)
             x == Put(im.block[b], k, cell)
         IN  /\ new \in Images /\ new = PutBlock(im, b, x) /\ x \in Contained
             /\ new.block = Put(im.block, b, x)
             /\ new.inode = im.inode /\ SameBits(new, im)
<1> DEFINE x == Put(im.block[b], k, cell)
<1>1. x \in Contained
  BY FieldsIn DEF Contained, Put
<1>2. PutCell(im, b, k, cell) = PutBlock(im, b, x)
  BY DEF PutCell, PutBlock, Put
<1> HIDE DEF x
<1>3. LET new == PutBlock(im, b, x)
      IN  /\ new \in Images /\ new.block = Put(im.block, b, x)
          /\ new.inode = im.inode /\ SameBits(new, im)
  BY <1>1, PutBlockIs
<1> QED
  BY <1>1, <1>2, <1>3 DEF x

-----------------------------------------------------------------------------
(* Pointers.  An inode holds blocks in places: NDirect direct pointers, the *)
(* Width pointers of its table, and the table itself.                      *)

Places == 0 .. NDirect + Width
TablePlace == NDirect + Width
Ptr(block, in, n) ==
  IF n < NDirect THEN in.direct[n]
  ELSE IF n = TablePlace THEN in.indirect
  ELSE IF in.indirect = NilBlock THEN NilBlock
  ELSE AsPointer(block[in.indirect][n - NDirect])

\* What an inode takes for its table holds pointers.
TableOf(block, in) ==
  in.indirect # NilBlock =>
    \A k \in 0 .. Width - 1 : block[in.indirect][k].kind \in {"zero", "pointer"}

\* Each block in one place at most, and marked used: for all inodes, also those
\* that are free.
Apart(block, inode) ==
  \A i, j \in Inodes, m, n \in Places :
    (Ptr(block, inode[i], m) # NilBlock /\ Ptr(block, inode[i], m) = Ptr(block, inode[j], n))
      => i = j /\ m = n
Marked(bmap, block, inode) ==
  \A i \in Inodes, n \in Places : Ptr(block, inode[i], n) \in bmap \cup {NilBlock}
Owns(bmap, block, inode) ==
  /\ Apart(block, inode) /\ Marked(bmap, block, inode)
  /\ \A i \in Inodes : TableOf(block, inode[i])

LEMMA PtrIn ==
  ASSUME NEW block \in [Blocks -> Contained], NEW in \in InodeSet, TableOf(block, in),
         NEW n \in Places
  PROVE  Ptr(block, in, n) \in Ptrs
<1>1. in.indirect \in Ptrs /\ in.direct \in [0 .. NDirect - 1 -> Ptrs]
  BY DEF InodeSet
<1>2. CASE n < NDirect
  <2>1. n \in 0 .. NDirect - 1
    BY <1>2, Geometry DEF Places
  <2> QED
    BY <1>1, <1>2, <2>1 DEF Ptr
<1>3. CASE n >= NDirect /\ (n = TablePlace \/ in.indirect = NilBlock)
  BY <1>1, <1>3, Geometry DEF Ptr, Ptrs, Places
<1>4. CASE n >= NDirect /\ n # TablePlace /\ in.indirect # NilBlock
  <2>1. n - NDirect \in 0 .. Width - 1
    BY <1>4, Geometry DEF Places, TablePlace
  <2>2. in.indirect \in Blocks
    BY <1>1, <1>4, Ranges DEF Ptrs
  <2> DEFINE cell == block[in.indirect][n - NDirect]
  <2>3. cell \in Cells /\ cell.kind \in {"zero", "pointer"}
    BY <1>4, <2>1, <2>2 DEF Contained, TableOf
  <2> HIDE DEF cell
  <2>4. AsPointer(cell) \in Ptrs
    BY <2>3, Ranges DEF Cells, AsPointer, Zero, Pointer, Data, Entry, Ptrs, NilBlock
  <2>5. Ptr(block, in, n) = AsPointer(cell)
    BY <1>4, Geometry DEF Ptr, Places, cell
  <2> QED
    BY <2>4, <2>5
<1> QED
  BY <1>2, <1>3, <1>4, Geometry DEF Places

\* One place more, which holds a block that nobody held; others may have gone.
OnePlus(block, inode, block2, inode2, i0, n0, b) ==
  /\ \A i \in Inodes, n \in Places : Ptr(block, inode[i], n) # b
  /\ \A i \in Inodes, n \in Places :
       \/ Ptr(block2, inode2[i], n) \in {NilBlock, Ptr(block, inode[i], n)}
       \/ i = i0 /\ n = n0 /\ Ptr(block2, inode2[i], n) = b

LEMMA OneMore ==
  ASSUME NEW bmap, NEW block, NEW inode, Owns(bmap, block, inode),
         NEW bmap2, bmap \subseteq bmap2, NEW block2, NEW inode2,
         NEW i0, NEW n0, NEW b \in bmap2, b # NilBlock,
         OnePlus(block, inode, block2, inode2, i0, n0, b),
         \A i \in Inodes : TableOf(block2, inode2[i])
  PROVE  Owns(bmap2, block2, inode2)
<1> DEFINE P(i, n) == Ptr(block, inode[i], n)
           Q(i, n) == Ptr(block2, inode2[i], n)
<1>1. \A i \in Inodes, n \in Places : P(i, n) \in bmap \cup {NilBlock} /\ P(i, n) # b
  BY DEF Owns, Marked, OnePlus
<1>2. \A i, j \in Inodes, m, n \in Places :
        (P(i, m) # NilBlock /\ P(i, m) = P(j, n)) => i = j /\ m = n
  BY DEF Owns, Apart
<1>3. \A i \in Inodes, n \in Places :
        Q(i, n) \in {NilBlock, P(i, n)} \/ (i = i0 /\ n = n0 /\ Q(i, n) = b)
  BY DEF OnePlus
<1> HIDE DEF P, Q
<1>4. \A i \in Inodes, n \in Places : Q(i, n) \in bmap2 \cup {NilBlock}
  BY <1>1, <1>3
<1>5. \A i, j \in Inodes, m, n \in Places :
        (Q(i, m) # NilBlock /\ Q(i, m) = Q(j, n)) => i = j /\ m = n
  BY <1>1, <1>2, <1>3
<1> QED
  BY <1>4, <1>5 DEF Owns, Apart, Marked, Q

\* No place more.
LEMMA NoneMore ==
  ASSUME NEW bmap, NEW block, NEW inode, Owns(bmap, block, inode),
         NEW bmap2, NEW block2, NEW inode2,
         \A i \in Inodes, n \in Places :
           Ptr(block2, inode2[i], n) \in {NilBlock, Ptr(block, inode[i], n)},
         \A i \in Inodes, n \in Places : Ptr(block2, inode2[i], n) \in bmap2 \cup {NilBlock},
         \A i \in Inodes : TableOf(block2, inode2[i])
  PROVE  Owns(bmap2, block2, inode2)
<1>1. Apart(block2, inode2)
  BY DEF Owns, Apart
<1> QED
  BY <1>1 DEF Owns, Marked

\* Writing to a block that is nobody's table moves no pointer.
LEMMA PtrSame ==
  ASSUME NEW block \in [Blocks -> Contained], NEW b \in Blocks, NEW x,
         NEW in \in InodeSet, in.indirect # b
  PROVE  LET new == Put(block, b, x)
         IN  /\ \A n \in Places : Ptr(new, in, n) = Ptr(block, in, n)
             /\ TableOf(block, in) => TableOf(new, in)
<1> DEFINE new == Put(block, b, x)
           t == in.indirect
<1>1. t # NilBlock => new[t] = block[t]
  BY Ranges DEF InodeSet, Ptrs, Put
<1> HIDE DEF new
<1>2. /\ \A n \in Places : Ptr(new, in, n) = Ptr(block, in, n)
      /\ TableOf(block, in) => TableOf(new, in)
  BY <1>1, Zenon DEF Ptr, TableOf
<1> QED
  BY <1>2 DEF new

-----------------------------------------------------------------------------
(* Safe images *)

\* A block that holds no directory entry.
Nameless(x) == \A k \in 0 .. Width - 1 : x[k].kind # "entry"

\* A regular file has no hole, and nothing in it looks like a directory.
Full(block, in) ==
  in.type = "reg" =>
    \A n \in Places : /\ n * Width < in.size => Ptr(block, in, n) # NilBlock
                      /\ Ptr(block, in, n) # NilBlock => Nameless(block[Ptr(block, in, n)])

\* The inodes of K, their bits and the blocks they hold are as in the image o.
AsIn(o, im, K) ==
  /\ K \cap o.imap \subseteq im.imap
  /\ \A i \in K : im.inode[i] = o.inode[i]
  /\ \A i \in K, n \in Places :
       LET b == Ptr(o.block, o.inode[i], n)
       IN  b # NilBlock => im.block[b] = o.block[b]

\* They are as in one of the images of O.
Untouched(O, im, K) == \E o \in O : AsIn(o, im, K)

LEMMA AsInPtr ==
  ASSUME NEW o, NEW K, NEW im, AsIn(o, im, K), NEW i \in K
  PROVE  \A n \in Places : Ptr(im.block, im.inode[i], n) = Ptr(o.block, o.inode[i], n)
<1>1. TablePlace \in Places /\ ~(TablePlace < NDirect)
  BY Geometry DEF TablePlace, Places
<1>2. Ptr(o.block, o.inode[i], TablePlace) = o.inode[i].indirect
  BY <1>1 DEF Ptr
<1>3. /\ im.inode[i] = o.inode[i]
      /\ o.inode[i].indirect # NilBlock =>
           im.block[o.inode[i].indirect] = o.block[o.inode[i].indirect]
  BY <1>1, <1>2 DEF AsIn
<1> QED
  BY <1>3, Zenon DEF Ptr

LEMMA StillUntouched ==
  ASSUME NEW O, NEW K, NEW im, Untouched(O, im, K), NEW new, AsIn(im, new, K)
  PROVE  Untouched(O, new, K)
<1>1. PICK o \in O : AsIn(o, im, K)
  BY DEF Untouched
<1>2. K \cap o.imap \subseteq new.imap /\ \A i \in K : new.inode[i] = o.inode[i]
  BY <1>1 DEF AsIn
<1>3. ASSUME NEW i \in K, NEW n \in Places, Ptr(o.block, o.inode[i], n) # NilBlock
      PROVE  new.block[Ptr(o.block, o.inode[i], n)] = o.block[Ptr(o.block, o.inode[i], n)]
  <2> DEFINE b == Ptr(o.block, o.inode[i], n)
  <2>1. b = Ptr(im.block, im.inode[i], n) /\ b # NilBlock
    BY <1>1, <1>3, AsInPtr
  <2>2. im.block[b] = o.block[b]
    BY <1>1, <1>3 DEF AsIn
  <2> HIDE DEF b
  <2>3. new.block[b] = im.block[b]
    BY <2>1 DEF AsIn
  <2> QED
    BY <2>2, <2>3 DEF b
<1>4. AsIn(o, new, K)
  BY <1>2, <1>3 DEF AsIn
<1> QED
  BY <1>4 DEF Untouched

Good(im) == /\ Owns(im.bmap, im.block, im.inode)
            /\ \A i \in Inodes : Full(im.block, im.inode[i])
Safe(O, K) == {im \in Images : Good(im) /\ Untouched(O, im, K)}

\* What lies in files and directories is the same, and no bit is cleared.
SameFiles(new, im) ==
  /\ new.inode = im.inode /\ new.block = im.block
  /\ im.bmap \subseteq new.bmap /\ im.imap \subseteq new.imap
Closed(I) ==
  /\ I \subseteq Images
  /\ \A im \in I, new \in Images : SameFiles(new, im) => new \in I

LEMMA SafeClosed ==
  ASSUME NEW O, NEW K
  PROVE  Closed(Safe(O, K))
<1>1. ASSUME NEW im \in Safe(O, K), NEW new \in Images, SameFiles(new, im)
      PROVE  new \in Safe(O, K)
  <2>1. Owns(new.bmap, new.block, new.inode)
    BY <1>1 DEF Safe, Good, SameFiles, Owns, Marked
  <2>3. AsIn(im, new, K)
    BY <1>1 DEF SameFiles, AsIn
  <2>2. Untouched(O, new, K)
    BY <1>1, <2>3, StillUntouched DEF Safe
  <2> QED
    BY <1>1, <2>1, <2>2 DEF Safe, Good, SameFiles
<1> QED
  BY <1>1 DEF Closed, Safe

-----------------------------------------------------------------------------
(* bitmap.c *)

\* The counters say that nb blocks and ni inodes are free.
Counted(im, nb, ni) ==
  LET free == [live |-> TRUE, blocks |-> nb, inodes |-> ni]
  IN  im.sb = free /\ im.gd = [blocks |-> nb, inodes |-> ni, tail |-> free]

LEMMA SetBmap ==
  ASSUME NEW im \in Images, NEW bits \in SUBSET Recorded
  PROVE  LET new == [im EXCEPT !.bmap = bits]
         IN  /\ new \in Images /\ new.bmap = bits /\ new.imap = im.imap
             /\ new.inode = im.inode /\ new.block = im.block
             /\ new.sb = im.sb /\ new.gd = im.gd
BY DEF Images

LEMMA SetImap ==
  ASSUME NEW im \in Images, NEW bits \in SUBSET Inodes
  PROVE  LET new == [im EXCEPT !.imap = bits]
         IN  /\ new \in Images /\ new.imap = bits /\ new.bmap = im.bmap
             /\ new.inode = im.inode /\ new.block = im.block
             /\ new.sb = im.sb /\ new.gd = im.gd
BY DEF Images

LEMMA SetSb ==
  ASSUME NEW im \in Images, NEW s \in Counts
  PROVE  LET new == [im EXCEPT !.sb = s]
         IN  /\ new \in Images /\ new.sb = s /\ new.imap = im.imap /\ new.bmap = im.bmap
             /\ new.inode = im.inode /\ new.block = im.block /\ new.gd = im.gd
BY DEF Images

LEMMA SetGd ==
  ASSUME NEW im \in Images, NEW g \in Groups
  PROVE  LET new == [im EXCEPT !.gd = g]
         IN  /\ new \in Images /\ new.gd = g /\ new.imap = im.imap /\ new.bmap = im.bmap
             /\ new.inode = im.inode /\ new.block = im.block /\ new.sb = im.sb
BY DEF Images

SbBy(im, what, k) == [im EXCEPT !.sb[what] = @ + k]
GdBy(im, what, k) == [im EXCEPT !.gd[what] = @ + k, !.gd.tail = im.sb]

\* How much of a change goes to the counter x.
Share(what, x) == IF what = x THEN 1 ELSE 0

LEMMA Shares ==
  ASSUME NEW k \in Int
  PROVE  /\ k * Share("blocks", "blocks") = k /\ k * Share("blocks", "inodes") = 0
         /\ k * Share("inodes", "inodes") = k /\ k * Share("inodes", "blocks") = 0
BY DEF Share

MoveSb(s, what, k) == [s EXCEPT ![what] = @ + k]
MoveGd(g, what, k, s) == [[g EXCEPT ![what] = @ + k] EXCEPT !.tail = s]

LEMMA SbMoves ==
  ASSUME NEW s \in Counts, NEW what \in {"blocks", "inodes"}, NEW k \in Int
  PROVE  LET t == MoveSb(s, what, k)
         IN  t \in Counts /\
             t = [live |-> s.live, blocks |-> s.blocks + k * Share(what, "blocks"),
                  inodes |-> s.inodes + k * Share(what, "inodes")]
<1> DEFINE mb == k * Share(what, "blocks")
           mi == k * Share(what, "inodes")
           t == [s EXCEPT ![what] = @ + k]
<1>1. what = "blocks" => mb = k /\ mi = 0
  BY Shares
<1>2. what = "inodes" => mi = k /\ mb = 0
  BY Shares
<1> HIDE DEF mb, mi
<1>3. /\ t \in Counts /\ t.live = s.live
      /\ t.blocks = s.blocks + mb /\ t.inodes = s.inodes + mi
  <2>1. CASE what = "blocks"
    BY <1>1, <2>1 DEF Counts
  <2>2. CASE what = "inodes"
    BY <1>2, <2>2 DEF Counts
  <2> QED
    BY <2>1, <2>2
<1> HIDE DEF t
<1>4. t = [live |-> s.live, blocks |-> s.blocks + mb, inodes |-> s.inodes + mi]
  BY <1>3 DEF Counts
<1> QED
  BY <1>3, <1>4 DEF mb, mi, t, MoveSb

LEMMA GdMoves ==
  ASSUME NEW g \in Groups, NEW what \in {"blocks", "inodes"}, NEW k \in Int, NEW s \in Counts
  PROVE  LET t == MoveGd(g, what, k, s)
         IN  t \in Groups /\
             t = [blocks |-> g.blocks + k * Share(what, "blocks"),
                  inodes |-> g.inodes + k * Share(what, "inodes"), tail |-> s]
<1> DEFINE mb == k * Share(what, "blocks")
           mi == k * Share(what, "inodes")
           h == [g EXCEPT ![what] = @ + k]
           t == [h EXCEPT !.tail = s]
<1>1. what = "blocks" => mb = k /\ mi = 0
  BY Shares
<1>2. what = "inodes" => mi = k /\ mb = 0
  BY Shares
<1> HIDE DEF mb, mi
<1>3. h \in Groups /\ h.blocks = g.blocks + mb /\ h.inodes = g.inodes + mi
  <2>1. CASE what = "blocks"
    BY <1>1, <2>1 DEF Groups
  <2>2. CASE what = "inodes"
    BY <1>2, <2>2 DEF Groups
  <2> QED
    BY <2>1, <2>2
<1> HIDE DEF h
<1>4. t \in Groups /\ t = [blocks |-> h.blocks, inodes |-> h.inodes, tail |-> s]
  BY <1>3 DEF Groups
<1> HIDE DEF t
<1>5. t \in Groups /\ t = [blocks |-> g.blocks + mb, inodes |-> g.inodes + mi, tail |-> s]
  BY <1>3, <1>4
<1> QED
  BY <1>5 DEF mb, mi, t, h, MoveGd

LEMMA SbByIs ==
  ASSUME NEW im \in Images, NEW what \in {"blocks", "inodes"}, NEW k \in Int
  PROVE  LET new == SbBy(im, what, k)
         IN  /\ new \in Images
             /\ new.sb = [live |-> im.sb.live, blocks |-> im.sb.blocks + k * Share(what, "blocks"),
                          inodes |-> im.sb.inodes + k * Share(what, "inodes")]
             /\ new.imap = im.imap /\ new.bmap = im.bmap
             /\ new.inode = im.inode /\ new.block = im.block /\ new.gd = im.gd
<1> DEFINE s == MoveSb(im.sb, what, k)
<1>1. s \in Counts /\
      s = [live |-> im.sb.live, blocks |-> im.sb.blocks + k * Share(what, "blocks"),
           inodes |-> im.sb.inodes + k * Share(what, "inodes")]
  BY FieldsIn, SbMoves
<1>2. SbBy(im, what, k) = [im EXCEPT !.sb = s]
  BY Zenon DEF SbBy, MoveSb
<1> HIDE DEF s
<1>3. LET new == [im EXCEPT !.sb = s]
      IN  /\ new \in Images /\ new.sb = s /\ new.imap = im.imap /\ new.bmap = im.bmap
          /\ new.inode = im.inode /\ new.block = im.block /\ new.gd = im.gd
  BY <1>1, SetSb
<1> QED
  BY <1>1, <1>2, <1>3

LEMMA GdByIs ==
  ASSUME NEW im \in Images, NEW what \in {"blocks", "inodes"}, NEW k \in Int
  PROVE  LET new == GdBy(im, what, k)
         IN  /\ new \in Images /\ new.sb = im.sb
             /\ new.gd = [blocks |-> im.gd.blocks + k * Share(what, "blocks"),
                          inodes |-> im.gd.inodes + k * Share(what, "inodes"), tail |-> im.sb]
             /\ new.imap = im.imap /\ new.bmap = im.bmap
             /\ new.inode = im.inode /\ new.block = im.block
<1> DEFINE g == MoveGd(im.gd, what, k, im.sb)
<1>1. g \in Groups /\
      g = [blocks |-> im.gd.blocks + k * Share(what, "blocks"),
           inodes |-> im.gd.inodes + k * Share(what, "inodes"), tail |-> im.sb]
  BY FieldsIn, GdMoves
<1>2. GdBy(im, what, k) = [im EXCEPT !.gd = g]
  BY Zenon DEF GdBy, MoveGd
<1> HIDE DEF g
<1>3. LET new == [im EXCEPT !.gd = g]
      IN  /\ new \in Images /\ new.gd = g /\ new.imap = im.imap /\ new.bmap = im.bmap
          /\ new.inode = im.inode /\ new.block = im.block /\ new.sb = im.sb
  BY <1>1, SetGd
<1> QED
  BY <1>1, <1>2, <1>3

\* What a function does that only changes bits and counters.
BitsOnly(new, im) == new.inode = im.inode /\ new.block = im.block

\* d is c after more writes: a context over I of the kind of c.
Follows(d, c, I) ==
  /\ c \in Contexts(I) => d \in Contexts(I)
  /\ c \in Copies(I) => d \in Copies(I) /\ d.in = c.in

LEMMA FollowsTrans ==
  ASSUME NEW I, NEW c, NEW d, NEW e, Follows(d, c, I), Follows(e, d, I)
  PROVE  Follows(e, c, I)
BY DEF Follows

LEMMA DevWriteFollows ==
  ASSUME NEW I, NEW im \in I, NEW c \in Contexts(I) \cup Copies(I)
  PROVE  /\ DevWrite(c, im) \in Contexts(I) \cup Copies(I)
         /\ Follows(DevWrite(c, im), c, I) /\ Wrote(DevWrite(c, im), c, im)
BY DevWriteIn DEF Follows

LEMMA RetFollows ==
  ASSUME NEW I, NEW r \in Int, NEW c \in Contexts(I) \cup Copies(I)
  PROVE  /\ Ret(c, r) \in Contexts(I) \cup Copies(I)
         /\ Follows(Ret(c, r), c, I) /\ Cur(Ret(c, r)) = Cur(c) /\ Ret(c, r).ret = r
         /\ Ret(c, r).log = c.log
<1>1. /\ Cur(Ret(c, r)) = Cur(c) /\ Ret(c, r).ret = r /\ Ret(c, r).log = c.log
  BY RetIn
<1>2. c \in Contexts(I) => Ret(c, r) \in Contexts(I)
  BY RetIn
<1>3. c \in Copies(I) => Ret(c, r) \in Copies(I) /\ Ret(c, r).in = c.in
  BY RetIn
<1> QED
  BY Zenon, <1>1, <1>2, <1>3 DEF Follows

\* From im to new the counters move by k.
CountsBy(new, im, what, k) ==
  \A nb, ni \in Int : Counted(im, nb, ni) =>
    Counted(new, nb + k * Share(what, "blocks"), ni + k * Share(what, "inodes"))

LEMMA CountIs ==
  ASSUME NEW I, Closed(I), NEW c \in Contexts(I) \cup Copies(I),
         NEW what \in {"blocks", "inodes"}, NEW k \in Int
  PROVE  LET d == Count(c, what, k)
         IN  /\ d \in Contexts(I) \cup Copies(I) /\ Follows(d, c, I) /\ d.ret = 0
             /\ BitsOnly(Cur(d), Cur(c))
             /\ Cur(d).bmap = Cur(c).bmap /\ Cur(d).imap = Cur(c).imap
             /\ CountsBy(Cur(d), Cur(c), what, k)
<1> DEFINE im == Cur(c)
           s == DevWrite(c, SbBy(im, what, k))
           d == DevWrite(s, GdBy(Cur(s), what, k))
<1>1. im \in I /\ im \in Images
  BY CurIn DEF Closed
<1>2. /\ SbBy(im, what, k) \in Images /\ SameFiles(SbBy(im, what, k), im)
      /\ SbBy(im, what, k).sb
           = [live |-> im.sb.live, blocks |-> im.sb.blocks + k * Share(what, "blocks"),
              inodes |-> im.sb.inodes + k * Share(what, "inodes")]
      /\ SbBy(im, what, k).gd = im.gd /\ SbBy(im, what, k).bmap = im.bmap
      /\ SbBy(im, what, k).imap = im.imap
  BY <1>1, SbByIs DEF SameFiles
<1>3. SbBy(im, what, k) \in I
  BY <1>1, <1>2 DEF Closed
<1> HIDE DEF im
<1>4. s \in Contexts(I) \cup Copies(I) /\ Follows(s, c, I) /\ Cur(s) = SbBy(im, what, k)
  BY <1>3, DevWriteFollows DEF Wrote
<1> DEFINE a == Cur(s)
           b == GdBy(a, what, k)
<1>5. a \in I /\ a \in Images
  BY <1>2, <1>3, <1>4
<1> HIDE DEF a
<1>6. /\ b \in Images /\ SameFiles(b, a) /\ b.sb = a.sb
      /\ b.gd = [blocks |-> a.gd.blocks + k * Share(what, "blocks"),
                 inodes |-> a.gd.inodes + k * Share(what, "inodes"), tail |-> a.sb]
      /\ b.bmap = a.bmap /\ b.imap = a.imap
  BY <1>5, GdByIs DEF SameFiles
<1>7. b \in I
  BY <1>5, <1>6 DEF Closed
<1> HIDE DEF b, s
<1>8. d = DevWrite(s, b)
  BY Zenon DEF a, b
<1>9. /\ d \in Contexts(I) \cup Copies(I) /\ Follows(d, s, I) /\ Cur(d) = b /\ d.ret = 0
  BY <1>4, <1>7, <1>8, DevWriteFollows DEF Wrote
<1>10. Follows(d, c, I)
  BY <1>4, <1>9, FollowsTrans
<1>11. a = SbBy(im, what, k)
  BY <1>4 DEF a
<1>12. Count(c, what, k) = d
  BY Zenon DEF Count, Then, SbBy, GdBy, d, s, im
<1> HIDE DEF d
<1>13. BitsOnly(Cur(d), im) /\ Cur(d).bmap = im.bmap /\ Cur(d).imap = im.imap
  BY <1>2, <1>6, <1>9, <1>11 DEF BitsOnly, SameFiles
<1>14. ASSUME NEW nb \in Int, NEW ni \in Int, Counted(im, nb, ni)
       PROVE  Counted(b, nb + k * Share(what, "blocks"), ni + k * Share(what, "inodes"))
  <2>1. im.sb = [live |-> TRUE, blocks |-> nb, inodes |-> ni]
        /\ im.gd = [blocks |-> nb, inodes |-> ni, tail |-> im.sb]
    BY <1>14 DEF Counted
  <2>2. a.sb = [live |-> TRUE, blocks |-> nb + k * Share(what, "blocks"),
                inodes |-> ni + k * Share(what, "inodes")]
        /\ a.gd = im.gd
    BY <2>1, <1>2, <1>11
  <2>3. b.gd = [blocks |-> nb + k * Share(what, "blocks"),
                inodes |-> ni + k * Share(what, "inodes"), tail |-> a.sb]
    BY <2>1, <2>2, <1>6
  <2> QED
    BY <2>2, <2>3, <1>6 DEF Counted
<1> QED
  BY <1>9, <1>10, <1>12, <1>13, <1>14 DEF im, CountsBy

LEMMA MinusOne == -1 \in Int
OBVIOUS

LEMMA ExactIs ==
  ASSUME NEW im \in Images
  PROVE  /\ Cardinality(im.bmap) \in Nat /\ Cardinality(im.imap) \in Nat
         /\ IsFiniteSet(im.bmap) /\ IsFiniteSet(im.imap)
         /\ ExactCounters(im) <=> Counted(im, NBlocks - Cardinality(im.bmap),
                                          MaxInodes - Cardinality(im.imap))
<1>1. IsFiniteSet(Recorded) /\ IsFiniteSet(Inodes)
  BY Geometry, FS_Interval DEF Recorded, Inodes
<1>2. IsFiniteSet(im.bmap) /\ IsFiniteSet(im.imap)
  BY <1>1, FieldsIn, FS_Subset
<1>3. Cardinality(im.bmap) \in Nat /\ Cardinality(im.imap) \in Nat
  BY <1>2, FS_CardinalityType
<1> QED
  BY <1>2, <1>3 DEF ExactCounters, Counted

\* What an allocation does, of a block or of an inode.
TakesBlock(a, c) ==
  IF a.ret < 0 THEN Cur(a) = Cur(c) /\ a.log = c.log
  ELSE /\ a.ret \in Recorded \ Cur(c).bmap /\ BitsOnly(Cur(a), Cur(c))
       /\ Cur(a).bmap = Cur(c).bmap \cup {a.ret} /\ Cur(a).imap = Cur(c).imap
TakesInode(a, c) ==
  IF a.ret < 0 THEN Cur(a) = Cur(c) /\ a.log = c.log
  ELSE /\ a.ret \in Inodes \ Cur(c).imap /\ BitsOnly(Cur(a), Cur(c))
       /\ Cur(a).imap = Cur(c).imap \cup {a.ret} /\ Cur(a).bmap = Cur(c).bmap
KeepsExact(d, c) == ExactCounters(Cur(c)) => ExactCounters(Cur(d))

LEMMA AllocBlockIs ==
  ASSUME NEW I, Closed(I), NEW c \in Contexts(I) \cup Copies(I), ReadClear = {}
  PROVE  LET a == alloc_block(c)
         IN  /\ a \in Contexts(I) \cup Copies(I) /\ Follows(a, c, I) /\ a.ret \in Int
             /\ TakesBlock(a, c) /\ KeepsExact(a, c)
<1> DEFINE im == Cur(c)
           free == Recorded \ im.bmap
           x == Min(free)
           new == [im EXCEPT !.bmap = @ \cup {x}]
           d == DevWrite(c, new)
           e == Count(d, "blocks", -1)
<1>1. im \in I /\ im \in Images
  BY CurIn DEF Closed
<1>2. alloc_block(c) = IF free = {} THEN Ret(c, -4) ELSE Ret(e, x)
  BY Zenon DEF alloc_block, Alloc, FS_ENOSPC
<1>3. CASE free = {}
  <2>1. alloc_block(c) = Ret(c, -4)
    BY <1>2, <1>3
  <2> QED
    BY <2>1, RetFollows DEF TakesBlock, KeepsExact
<1>4. CASE free # {}
  <2>1. x \in free
    BY <1>4, MinProperty, Ranges
  <2> HIDE DEF x
  <2>2. im.bmap \cup {x} \in SUBSET Recorded /\ x \notin im.bmap /\ x \in Recorded /\ x \in Nat
    BY <1>1, <2>1, FieldsIn, Ranges
  <2> HIDE DEF im
  <2>3. /\ new \in Images /\ new.bmap = im.bmap \cup {x} /\ new.imap = im.imap
        /\ new.inode = im.inode /\ new.block = im.block
        /\ new.sb = im.sb /\ new.gd = im.gd
    BY <1>1, <2>2, SetBmap
  <2>4. new \in I
    BY <1>1, <2>3 DEF Closed, SameFiles
  <2> HIDE DEF new
  <2>5. d \in Contexts(I) \cup Copies(I) /\ Follows(d, c, I) /\ Cur(d) = new
    BY <2>4, DevWriteFollows DEF Wrote
  <2> HIDE DEF d
  <2>6. /\ e \in Contexts(I) \cup Copies(I) /\ Follows(e, d, I)
        /\ BitsOnly(Cur(e), new) /\ Cur(e).bmap = new.bmap /\ Cur(e).imap = new.imap
        /\ CountsBy(Cur(e), new, "blocks", -1)
    BY <2>5, CountIs, MinusOne
  <2>7. (-1) * Share("blocks", "blocks") = -1 /\ (-1) * Share("blocks", "inodes") = 0
    BY Shares
  <2> HIDE DEF e
  <2> DEFINE a == Ret(e, x)
  <2>8. /\ a \in Contexts(I) \cup Copies(I) /\ Follows(a, c, I) /\ a.ret = x
        /\ Cur(a) = Cur(e)
    <3>1. /\ a \in Contexts(I) \cup Copies(I) /\ Follows(a, e, I) /\ a.ret = x
          /\ Cur(a) = Cur(e)
      BY <2>2, <2>6, RetFollows
    <3> HIDE DEF a
    <3>2. Follows(e, c, I)
      BY <2>5, <2>6, FollowsTrans
    <3> QED
      BY <3>1, <3>2, FollowsTrans
  <2>9. alloc_block(c) = a
    BY <1>2, <1>4
  <2> HIDE DEF a
  <2>10. TakesBlock(a, c)
    <3>1. ~(a.ret < 0) /\ a.ret \in Recorded \ im.bmap
      BY <2>2, <2>8
    <3>2. /\ Cur(a).inode = im.inode /\ Cur(a).block = im.block
          /\ Cur(a).bmap = im.bmap \cup {a.ret} /\ Cur(a).imap = im.imap
      BY <2>3, <2>6, <2>8 DEF BitsOnly
    <3> QED
      BY <3>1, <3>2 DEF TakesBlock, BitsOnly, im
  <2>11. ASSUME ExactCounters(im) PROVE ExactCounters(Cur(a))
    <3> DEFINE nb == NBlocks - Cardinality(im.bmap)
               ni == MaxInodes - Cardinality(im.imap)
    <3>1. Counted(im, nb, ni) /\ nb \in Int /\ ni \in Int /\ IsFiniteSet(im.bmap)
          /\ Cardinality(im.bmap) \in Nat
      BY <1>1, <2>11, ExactIs, Geometry
    <3>2. Cardinality(im.bmap \cup {x}) = Cardinality(im.bmap) + 1
      BY <2>2, <3>1, FS_AddElement
    <3>3. NBlocks - Cardinality(im.bmap \cup {x}) = nb + -1 /\ ni = ni + 0
      BY <3>1, <3>2, Geometry
    <3> HIDE DEF nb
    <3>4. Counted(new, nb, ni)
      BY <2>3, <3>1 DEF Counted
    <3> HIDE DEF ni
    <3>5. Counted(Cur(a), nb + -1, ni + 0)
      BY <2>6, <2>7, <2>8, <3>1, <3>4 DEF CountsBy
    <3>6. Counted(Cur(a), NBlocks - Cardinality(Cur(a).bmap), MaxInodes - Cardinality(Cur(a).imap))
      BY <2>3, <2>6, <2>8, <3>3, <3>5 DEF ni
    <3>7. Cur(a) \in Images
      BY <2>6, <2>8, CurIn DEF Closed
    <3> QED
      BY <3>6, <3>7, ExactIs
  <2> QED
    BY <2>2, <2>8, <2>9, <2>10, <2>11, Ranges DEF KeepsExact, im
<1> QED
  BY <1>3, <1>4

LEMMA AllocInodeIs ==
  ASSUME NEW I, Closed(I), NEW c \in Contexts(I) \cup Copies(I)
  PROVE  LET a == alloc_inode(c)
         IN  /\ a \in Contexts(I) \cup Copies(I) /\ Follows(a, c, I) /\ a.ret \in Int
             /\ TakesInode(a, c) /\ KeepsExact(a, c)
<1> DEFINE im == Cur(c)
           free == Inodes \ im.imap
           x == Min(free)
           new == [im EXCEPT !.imap = @ \cup {x}]
           d == DevWrite(c, new)
           e == Count(d, "inodes", -1)
<1>1. im \in I /\ im \in Images
  BY CurIn DEF Closed
<1>2. alloc_inode(c) = IF free = {} THEN Ret(c, -4) ELSE Ret(e, x)
  BY Zenon DEF alloc_inode, Alloc, FS_ENOSPC
<1>3. CASE free = {}
  <2>1. alloc_inode(c) = Ret(c, -4)
    BY <1>2, <1>3
  <2> QED
    BY <2>1, RetFollows DEF TakesInode, KeepsExact
<1>4. CASE free # {}
  <2>1. x \in free
    BY <1>4, MinProperty, Ranges
  <2> HIDE DEF x
  <2>2. im.imap \cup {x} \in SUBSET Inodes /\ x \notin im.imap /\ x \in Inodes /\ x \in Nat
    BY <1>1, <2>1, FieldsIn, Ranges
  <2> HIDE DEF im
  <2>3. /\ new \in Images /\ new.imap = im.imap \cup {x} /\ new.bmap = im.bmap
        /\ new.inode = im.inode /\ new.block = im.block
        /\ new.sb = im.sb /\ new.gd = im.gd
    BY <1>1, <2>2, SetImap
  <2>4. new \in I
    BY <1>1, <2>3 DEF Closed, SameFiles
  <2> HIDE DEF new
  <2>5. d \in Contexts(I) \cup Copies(I) /\ Follows(d, c, I) /\ Cur(d) = new
    BY <2>4, DevWriteFollows DEF Wrote
  <2> HIDE DEF d
  <2>6. /\ e \in Contexts(I) \cup Copies(I) /\ Follows(e, d, I)
        /\ BitsOnly(Cur(e), new) /\ Cur(e).imap = new.imap /\ Cur(e).bmap = new.bmap
        /\ CountsBy(Cur(e), new, "inodes", -1)
    BY <2>5, CountIs, MinusOne
  <2>7. (-1) * Share("inodes", "inodes") = -1 /\ (-1) * Share("inodes", "blocks") = 0
    BY Shares
  <2> HIDE DEF e
  <2> DEFINE a == Ret(e, x)
  <2>8. /\ a \in Contexts(I) \cup Copies(I) /\ Follows(a, c, I) /\ a.ret = x
        /\ Cur(a) = Cur(e)
    <3>1. /\ a \in Contexts(I) \cup Copies(I) /\ Follows(a, e, I) /\ a.ret = x
          /\ Cur(a) = Cur(e)
      BY <2>2, <2>6, RetFollows
    <3> HIDE DEF a
    <3>2. Follows(e, c, I)
      BY <2>5, <2>6, FollowsTrans
    <3> QED
      BY <3>1, <3>2, FollowsTrans
  <2>9. alloc_inode(c) = a
    BY <1>2, <1>4
  <2> HIDE DEF a
  <2>10. TakesInode(a, c)
    <3>1. ~(a.ret < 0) /\ a.ret \in Inodes \ im.imap
      BY <2>2, <2>8
    <3>2. /\ Cur(a).inode = im.inode /\ Cur(a).block = im.block
          /\ Cur(a).imap = im.imap \cup {a.ret} /\ Cur(a).bmap = im.bmap
      BY <2>3, <2>6, <2>8 DEF BitsOnly
    <3> QED
      BY <3>1, <3>2 DEF TakesInode, BitsOnly, im
  <2>11. ASSUME ExactCounters(im) PROVE ExactCounters(Cur(a))
    <3> DEFINE nb == NBlocks - Cardinality(im.bmap)
               ni == MaxInodes - Cardinality(im.imap)
    <3>1. Counted(im, nb, ni) /\ nb \in Int /\ ni \in Int /\ IsFiniteSet(im.imap)
          /\ Cardinality(im.imap) \in Nat
      BY <1>1, <2>11, ExactIs, Geometry
    <3>2. Cardinality(im.imap \cup {x}) = Cardinality(im.imap) + 1
      BY <2>2, <3>1, FS_AddElement
    <3>3. MaxInodes - Cardinality(im.imap \cup {x}) = ni + -1 /\ nb = nb + 0
      BY <3>1, <3>2, Geometry
    <3>4. Counted(new, nb, ni)
      BY <2>3, <3>1 DEF Counted
    <3> HIDE DEF ni, nb
    <3>5. Counted(Cur(a), nb + 0, ni + -1)
      BY <2>6, <2>7, <2>8, <3>1, <3>4 DEF CountsBy
    <3>6. Counted(Cur(a), NBlocks - Cardinality(Cur(a).bmap), MaxInodes - Cardinality(Cur(a).imap))
      BY <2>3, <2>6, <2>8, <3>3, <3>5 DEF nb
    <3>7. Cur(a) \in Images
      BY <2>6, <2>8, CurIn DEF Closed
    <3> QED
      BY <3>6, <3>7, ExactIs
  <2> QED
    BY <2>2, <2>8, <2>9, <2>10, <2>11, Ranges DEF KeepsExact, im
<1> QED
  BY <1>3, <1>4

\* Images that stay in J when bits change: any bit of a block, of the inodes those
\* of i only.
BitsFree(J, i) ==
  /\ J \subseteq Images
  /\ \A im \in J, new \in Images :
       (new.inode = im.inode /\ new.block = im.block /\ im.imap \ {i} \subseteq new.imap)
         => new \in J

LEMMA BitsFreeClosed ==
  ASSUME NEW J, NEW i, BitsFree(J, i)
  PROVE  Closed(J)
BY DEF BitsFree, Closed, SameFiles

FreesBlock(d, c, b) ==
  /\ BitsOnly(Cur(d), Cur(c)) /\ Cur(d).imap = Cur(c).imap
  /\ Cur(d).bmap = Cur(c).bmap \ {b}
FreesInode(d, c, i) ==
  /\ BitsOnly(Cur(d), Cur(c)) /\ Cur(d).bmap = Cur(c).bmap
  /\ Cur(d).imap = Cur(c).imap \ {i}

LEMMA FreeBlockIs ==
  ASSUME NEW J, NEW i, BitsFree(J, i), NEW c \in Contexts(J), NEW x \in Ptrs
  PROVE  LET d == free_block(c, x)
         IN  d \in Contexts(J) /\ FreesBlock(d, c, x) /\ KeepsExact(d, c)
<1> DEFINE im == Cur(c)
           new == [im EXCEPT !.bmap = @ \ {x}]
           d == DevWrite(c, new)
           e == Count(d, "blocks", 1)
<1>1. im \in J /\ im \in Images /\ Closed(J)
  BY CurIn, BitsFreeClosed DEF BitsFree
<1>2. free_block(c, x) = IF x \notin Recorded \/ x \notin im.bmap THEN c ELSE e
  <2>1. x \notin Blocks \ (Recorded \cup ReadClear)
    BY Ranges, Geometry DEF Ptrs, NilBlock
  <2> QED
    BY <2>1, Zenon DEF free_block, Free
<1>3. CASE x \notin Recorded \/ x \notin im.bmap
  <2>1. im.bmap \ {x} = im.bmap
    BY <1>1, <1>3, FieldsIn
  <2> QED
    BY <1>2, <1>3, <2>1 DEF FreesBlock, KeepsExact, BitsOnly
<1>4. CASE ~(x \notin Recorded \/ x \notin im.bmap)
  <2>1. im.bmap \ {x} \in SUBSET Recorded /\ x \in im.bmap
    BY <1>1, <1>4, FieldsIn
  <2>9. free_block(c, x) = e
    BY <1>2, <1>4
  <2> HIDE DEF im
  <2>2. /\ new \in Images /\ new.bmap = im.bmap \ {x} /\ new.imap = im.imap
        /\ new.inode = im.inode /\ new.block = im.block
        /\ new.sb = im.sb /\ new.gd = im.gd
    BY <1>1, <2>1, SetBmap
  <2>3. new \in J
    BY <1>1, <2>2 DEF BitsFree
  <2> HIDE DEF new
  <2>4. d \in Contexts(J) /\ Cur(d) = new
    BY <2>3, DevWriteFollows DEF Wrote, Follows
  <2> HIDE DEF d
  <2>5. 1 \in Int
    OBVIOUS
  <2>6. /\ e \in Contexts(J)
        /\ BitsOnly(Cur(e), new) /\ Cur(e).bmap = new.bmap /\ Cur(e).imap = new.imap
        /\ CountsBy(Cur(e), new, "blocks", 1)
    BY <1>1, <2>4, <2>5, CountIs DEF Follows
  <2>7. 1 * Share("blocks", "blocks") = 1 /\ 1 * Share("blocks", "inodes") = 0
    BY Shares
  <2> HIDE DEF e
  <2>8. FreesBlock(e, c, x)
    BY <2>2, <2>6 DEF FreesBlock, BitsOnly, im
  <2>10. ASSUME ExactCounters(im) PROVE ExactCounters(Cur(e))
    <3> DEFINE nb == NBlocks - Cardinality(im.bmap)
               ni == MaxInodes - Cardinality(im.imap)
    <3>1. Counted(im, nb, ni) /\ nb \in Int /\ ni \in Int /\ IsFiniteSet(im.bmap)
          /\ Cardinality(im.bmap) \in Nat
      BY <1>1, <2>10, ExactIs, Geometry
    <3>2. Cardinality(im.bmap \ {x}) = Cardinality(im.bmap) - 1
      BY <2>1, <3>1, FS_RemoveElement
    <3>3. NBlocks - Cardinality(im.bmap \ {x}) = nb + 1 /\ ni = ni + 0
      BY <3>1, <3>2, Geometry
    <3>4. Counted(new, nb, ni)
      BY <2>2, <3>1 DEF Counted
    <3> HIDE DEF nb, ni
    <3>5. Counted(Cur(e), nb + 1, ni + 0)
      BY <2>6, <2>7, <3>1, <3>4 DEF CountsBy
    <3>6. Counted(Cur(e), NBlocks - Cardinality(Cur(e).bmap), MaxInodes - Cardinality(Cur(e).imap))
      BY <2>2, <2>6, <3>3, <3>5 DEF ni
    <3>7. Cur(e) \in Images
      BY <2>6, CurIn DEF BitsFree
    <3> QED
      BY <3>6, <3>7, ExactIs
  <2> QED
    BY <2>6, <2>8, <2>9, <2>10 DEF KeepsExact, im
<1> QED
  BY <1>3, <1>4

LEMMA FreeInodeIs ==
  ASSUME NEW J, NEW x \in Inodes, BitsFree(J, x), NEW c \in Contexts(J)
  PROVE  LET d == free_inode(c, x)
         IN  d \in Contexts(J) /\ FreesInode(d, c, x) /\ KeepsExact(d, c)
<1> DEFINE im == Cur(c)
           new == [im EXCEPT !.imap = @ \ {x}]
           d == DevWrite(c, new)
           e == Count(d, "inodes", 1)
<1>1. im \in J /\ im \in Images /\ Closed(J)
  BY CurIn, BitsFreeClosed DEF BitsFree
<1>2. free_inode(c, x) = IF x \notin Inodes \/ x \notin im.imap THEN c ELSE e
  BY Zenon DEF free_inode, Free
<1>3. CASE x \notin im.imap
  <2>1. im.imap \ {x} = im.imap
    BY <1>1, <1>3, FieldsIn
  <2> QED
    BY <1>2, <1>3, <2>1 DEF FreesInode, KeepsExact, BitsOnly
<1>4. CASE x \in im.imap
  <2>1. im.imap \ {x} \in SUBSET Inodes /\ x \in im.imap
    BY <1>1, <1>4, FieldsIn
  <2>9. free_inode(c, x) = e
    BY <1>2, <1>4
  <2> HIDE DEF im
  <2>2. /\ new \in Images /\ new.imap = im.imap \ {x} /\ new.bmap = im.bmap
        /\ new.inode = im.inode /\ new.block = im.block
        /\ new.sb = im.sb /\ new.gd = im.gd
    BY <1>1, <2>1, SetImap
  <2>3. new \in J
    BY <1>1, <2>2 DEF BitsFree
  <2> HIDE DEF new
  <2>4. d \in Contexts(J) /\ Cur(d) = new
    BY <2>3, DevWriteFollows DEF Wrote, Follows
  <2> HIDE DEF d
  <2>5. 1 \in Int
    OBVIOUS
  <2>6. /\ e \in Contexts(J)
        /\ BitsOnly(Cur(e), new) /\ Cur(e).bmap = new.bmap /\ Cur(e).imap = new.imap
        /\ CountsBy(Cur(e), new, "inodes", 1)
    BY <1>1, <2>4, <2>5, CountIs DEF Follows
  <2>7. 1 * Share("inodes", "inodes") = 1 /\ 1 * Share("inodes", "blocks") = 0
    BY Shares
  <2> HIDE DEF e
  <2>8. FreesInode(e, c, x)
    BY <2>2, <2>6 DEF FreesInode, BitsOnly, im
  <2>10. ASSUME ExactCounters(im) PROVE ExactCounters(Cur(e))
    <3> DEFINE nb == NBlocks - Cardinality(im.bmap)
               ni == MaxInodes - Cardinality(im.imap)
    <3>1. Counted(im, nb, ni) /\ nb \in Int /\ ni \in Int /\ IsFiniteSet(im.imap)
          /\ Cardinality(im.imap) \in Nat
      BY <1>1, <2>10, ExactIs, Geometry
    <3>2. Cardinality(im.imap \ {x}) = Cardinality(im.imap) - 1
      BY <2>1, <3>1, FS_RemoveElement
    <3>3. MaxInodes - Cardinality(im.imap \ {x}) = ni + 1 /\ nb = nb + 0
      BY <3>1, <3>2, Geometry
    <3>4. Counted(new, nb, ni)
      BY <2>2, <3>1 DEF Counted
    <3> HIDE DEF nb, ni
    <3>5. Counted(Cur(e), nb + 0, ni + 1)
      BY <2>6, <2>7, <3>1, <3>4 DEF CountsBy
    <3>6. Counted(Cur(e), NBlocks - Cardinality(Cur(e).bmap), MaxInodes - Cardinality(Cur(e).imap))
      BY <2>2, <2>6, <3>3, <3>5 DEF nb
    <3>7. Cur(e) \in Images
      BY <2>6, CurIn DEF BitsFree
    <3> QED
      BY <3>6, <3>7, ExactIs
  <2> QED
    BY <2>6, <2>8, <2>9, <2>10 DEF KeepsExact, im
<1> QED
  BY <1>3, <1>4

-----------------------------------------------------------------------------
(* Writing blocks in safe images *)

LEMMA SafeIs ==
  ASSUME NEW O, NEW K, NEW im \in Safe(O, K)
  PROVE  /\ im \in Images /\ Owns(im.bmap, im.block, im.inode) /\ Untouched(O, im, K)
         /\ \A i \in Inodes : Full(im.block, im.inode[i])
         /\ im.bmap \subseteq Recorded /\ im.imap \subseteq Inodes
         /\ im.inode \in [Inodes -> InodeSet] /\ im.block \in [Blocks -> Contained]
BY FieldsIn DEF Safe, Good

LEMMA SameBitsExact ==
  ASSUME NEW new, NEW im, SameBits(new, im), ExactCounters(im)
  PROVE  ExactCounters(new)
BY DEF SameBits, ExactCounters

LEMMA PutBlockUntouched ==
  ASSUME NEW O, NEW K \in SUBSET Inodes, NEW im \in Images, Untouched(O, im, K),
         NEW b \in Blocks, NEW new, new.imap = im.imap, new.inode = im.inode,
         NEW x, new.block = Put(im.block, b, x),
         \A i \in K, n \in Places : Ptr(im.block, im.inode[i], n) # b
  PROVE  Untouched(O, new, K)
<1>1. ASSUME NEW p, p # b
      PROVE  new.block[p] = im.block[p]
  BY <1>1, FieldsIn DEF Put
<1>2. AsIn(im, new, K)
  BY <1>1 DEF AsIn
<1> QED
  BY <1>2, StillUntouched

\* A block that is nobody's table is written.
LEMMA PutBlockOwns ==
  ASSUME NEW bmap, NEW block \in [Blocks -> Contained], NEW inode \in [Inodes -> InodeSet],
         Owns(bmap, block, inode), NEW b \in Blocks, NEW x,
         \A i \in Inodes : inode[i].indirect # b
  PROVE  /\ Owns(bmap, Put(block, b, x), inode)
         /\ \A i \in Inodes, n \in Places :
              Ptr(Put(block, b, x), inode[i], n) = Ptr(block, inode[i], n)
<1> DEFINE new == Put(block, b, x)
<1>1. \A i \in Inodes : /\ \A n \in Places : Ptr(new, inode[i], n) = Ptr(block, inode[i], n)
                        /\ TableOf(block, inode[i]) => TableOf(new, inode[i])
  BY PtrSame
<1> HIDE DEF new
<1>2. Owns(bmap, new, inode)
  BY <1>1 DEF Owns, Apart, Marked
<1> QED
  BY <1>1, <1>2 DEF new

LEMMA PutOther ==
  ASSUME NEW block \in [Blocks -> Contained], NEW b \in Blocks, NEW x
  PROVE  Put(block, b, x)[b] = x /\ \A p : p # b => Put(block, b, x)[p] = block[p]
BY DEF Put

LEMMA PutBlockSafe ==
  ASSUME NEW O, NEW K \in SUBSET Inodes, NEW im \in Safe(O, K), NEW b \in Blocks,
         NEW x \in Contained, \A i \in Inodes : im.inode[i].indirect # b,
         \A i \in K, n \in Places : Ptr(im.block, im.inode[i], n) # b,
         \A i \in Inodes, n \in Places :
           Ptr(im.block, im.inode[i], n) = b /\ im.inode[i].type = "reg" => Nameless(x)
  PROVE  PutBlock(im, b, x) \in Safe(O, K)
<1> DEFINE new == PutBlock(im, b, x)
<1>1. new \in Images /\ new.block = Put(im.block, b, x)
      /\ new.inode = im.inode /\ SameBits(new, im)
  BY SafeIs, PutBlockIs
<1> HIDE DEF new
<1>2. Owns(im.bmap, im.block, im.inode) /\ im.block \in [Blocks -> Contained]
      /\ im.inode \in [Inodes -> InodeSet] /\ im \in Images /\ Untouched(O, im, K)
      /\ \A i \in Inodes : Full(im.block, im.inode[i])
  BY SafeIs
<1>3. /\ Owns(new.bmap, new.block, new.inode)
      /\ \A i \in Inodes, n \in Places : Ptr(new.block, new.inode[i], n) = Ptr(im.block, im.inode[i], n)
  BY <1>1, <1>2, PutBlockOwns DEF SameBits
<1>4. \A i \in Inodes : Full(new.block, new.inode[i])
  <2> SUFFICES ASSUME NEW i \in Inodes, im.inode[i].type = "reg", NEW n \in Places
               PROVE  /\ n * Width < im.inode[i].size => Ptr(im.block, im.inode[i], n) # NilBlock
                      /\ Ptr(im.block, im.inode[i], n) # NilBlock =>
                           Nameless(new.block[Ptr(im.block, im.inode[i], n)])
    BY <1>1, <1>3 DEF Full
  <2>1. /\ n * Width < im.inode[i].size => Ptr(im.block, im.inode[i], n) # NilBlock
        /\ Ptr(im.block, im.inode[i], n) # NilBlock =>
             Nameless(im.block[Ptr(im.block, im.inode[i], n)])
    BY <1>2 DEF Full
  <2>2. CASE Ptr(im.block, im.inode[i], n) # b
    BY <1>1, <1>2, <2>1, <2>2, PutOther
  <2>3. CASE Ptr(im.block, im.inode[i], n) = b
    BY <1>1, <1>2, <2>1, <2>3, PutOther
  <2> QED
    BY <2>2, <2>3
<1>5. Untouched(O, new, K)
  BY <1>1, <1>2, PutBlockUntouched DEF SameBits
<1> QED
  BY <1>1, <1>3, <1>4, <1>5 DEF Safe, Good, new

\* A fresh block, cleared.
Clears(a, c) ==
  IF a.ret < 0 THEN Cur(a) = Cur(c) /\ a.log = c.log
  ELSE /\ a.ret \in Recorded \ Cur(c).bmap
       /\ Cur(a).bmap = Cur(c).bmap \cup {a.ret} /\ Cur(a).imap = Cur(c).imap
       /\ Cur(a).inode = Cur(c).inode
       /\ Cur(a).block = Put(Cur(c).block, a.ret, ZeroBlock)

LEMMA ZeroNameless == Nameless(ZeroBlock)
BY DEF Nameless, ZeroBlock, Zero

LEMMA ZeroContained == ZeroBlock \in Contained
BY DEF ZeroBlock, Contained, Cells

LEMMA Unheld ==
  ASSUME NEW O, NEW K, NEW im \in Safe(O, K), NEW b \in Recorded \ im.bmap
  PROVE  \A i \in Inodes : /\ \A n \in Places : Ptr(im.block, im.inode[i], n) # b
                           /\ im.inode[i].indirect # b
<1>1. \A i \in Inodes, n \in Places : Ptr(im.block, im.inode[i], n) # b
  BY SafeIs, Ranges DEF Owns, Marked, NilBlock
<1>2. TablePlace \in Places /\ \A in : Ptr(im.block, in, TablePlace) = in.indirect
  BY Geometry DEF Ptr, TablePlace, Places
<1> QED
  BY <1>1, <1>2

LEMMA AllocZeroedIs ==
  ASSUME NEW O, NEW K \in SUBSET Inodes, NEW c \in Contexts(Safe(O, K)) \cup Copies(Safe(O, K)),
         ReadClear = {}
  PROVE  LET a == AllocZeroed(c)
         IN  /\ a \in Contexts(Safe(O, K)) \cup Copies(Safe(O, K)) /\ Follows(a, c, Safe(O, K))
             /\ a.ret \in Int /\ Clears(a, c) /\ KeepsExact(a, c)
<1> DEFINE I == Safe(O, K)
           a == alloc_block(c)
           im == Cur(a)
           new == PutBlock(im, a.ret, ZeroBlock)
           w == DevWrite(a, new)
           d == Ret(w, a.ret)
<1>1. /\ a \in Contexts(I) \cup Copies(I) /\ Follows(a, c, I) /\ a.ret \in Int
      /\ TakesBlock(a, c) /\ KeepsExact(a, c)
  BY SafeClosed, AllocBlockIs
<1>2. AllocZeroed(c) = IF a.ret < 0 THEN a ELSE d
  BY Zenon DEF AllocZeroed, IfOk, PutBlock
<1> HIDE DEF a
<1>3. CASE a.ret < 0
  BY <1>1, <1>2, <1>3 DEF TakesBlock, Clears
<1>4. CASE ~(a.ret < 0)
  <2>1. /\ a.ret \in Recorded \ Cur(c).bmap /\ im.inode = Cur(c).inode /\ im.block = Cur(c).block
        /\ im.bmap = Cur(c).bmap \cup {a.ret} /\ im.imap = Cur(c).imap
    BY <1>1, <1>4 DEF TakesBlock, BitsOnly
  <2>2. Cur(c) \in I /\ im \in I /\ im \in Images
    BY <1>1, CurIn, SafeIs
  <2>3. \A i \in Inodes : /\ \A n \in Places : Ptr(im.block, im.inode[i], n) # a.ret
                          /\ im.inode[i].indirect # a.ret
    BY <2>1, <2>2, Unheld
  <2> HIDE DEF im
  <2>4. new \in I
    BY <2>1, <2>2, <2>3, Ranges, ZeroContained, ZeroNameless, PutBlockSafe
  <2>5. new.block = Put(im.block, a.ret, ZeroBlock)
        /\ new.inode = im.inode /\ SameBits(new, im)
    BY <2>1, <2>2, Ranges, ZeroContained, PutBlockIs
  <2>9. AllocZeroed(c) = d
    BY <1>2, <1>4
  <2> HIDE DEF new, I
  <2>6. w \in Contexts(I) \cup Copies(I) /\ Follows(w, a, I) /\ Cur(w) = new
    BY <1>1, <2>4, DevWriteFollows DEF Wrote
  <2> HIDE DEF w
  <2>7. /\ d \in Contexts(I) \cup Copies(I) /\ Follows(d, w, I) /\ Cur(d) = new /\ d.ret = a.ret
    BY <1>1, <2>6, RetFollows
  <2> HIDE DEF d
  <2>8. Follows(d, c, I)
    BY <1>1, <2>6, <2>7, FollowsTrans
  <2>10. Clears(d, c)
    BY <1>4, <2>1, <2>5, <2>7 DEF Clears, SameBits
  <2>11. KeepsExact(d, c)
    BY <1>1, <2>5, <2>7, SameBitsExact DEF KeepsExact, im
  <2> QED
    BY <1>1, <2>7, <2>8, <2>9, <2>10, <2>11 DEF I
<1> QED
  BY <1>3, <1>4

-----------------------------------------------------------------------------
(* The copy of an inode a function works on.  It may point to blocks that   *)
(* the inode on the disk does not point to yet.                            *)

\* Every block in is held by in2, too, in the same place.
Grows(block, in, block2, in2) ==
  \A n \in Places : Ptr(block, in, n) \in {NilBlock, Ptr(block2, in2, n)}

\* The image im while a function holds in as its copy of the inode i: it would be
\* safe with the copy written back as well.
Holds(O, K, i, im, in) ==
  /\ im \in Safe(O, K) /\ i \in Inodes \ K /\ in \in InodeSet
  /\ in.type = im.inode[i].type
  /\ Owns(im.bmap, im.block, Put(im.inode, i, in))
  /\ Full(im.block, in)
  /\ Grows(im.block, im.inode[i], im.block, in)

\* A cleared block that neither the disk nor the copy points to.
Spare(im, i, in, b) ==
  /\ b \in Recorded /\ b \in im.bmap /\ im.block[b] = ZeroBlock
  /\ \A j \in Inodes, n \in Places : Ptr(im.block, Put(im.inode, i, in)[j], n) # b
  /\ \A j \in Inodes, n \in Places : Ptr(im.block, im.inode[j], n) # b

SamePtrs(in, in2) == in2.direct = in.direct /\ in2.indirect = in.indirect

LEMMA PutIs ==
  ASSUME NEW S, NEW T, NEW f \in [S -> T], NEW i \in S, NEW x \in T
  PROVE  /\ Put(f, i, x) \in [S -> T] /\ Put(f, i, x)[i] = x
         /\ \A j \in S : j # i => Put(f, i, x)[j] = f[j]
         /\ \A j \in S : Put(f, i, x)[j] = IF j = i THEN x ELSE f[j]
BY DEF Put

LEMMA PutInodesIs ==
  ASSUME NEW f \in [Inodes -> InodeSet], NEW i \in Inodes, NEW in \in InodeSet
  PROVE  /\ Put(f, i, in) \in [Inodes -> InodeSet] /\ Put(f, i, in)[i] = in
         /\ \A j \in Inodes : j # i => Put(f, i, in)[j] = f[j]
         /\ \A j \in Inodes : Put(f, i, in)[j] = IF j = i THEN in ELSE f[j]
BY DEF Put

LEMMA TablePlaceIs ==
  /\ TablePlace \in Places /\ TablePlace \in Nat
  /\ \A block, in : Ptr(block, in, TablePlace) = in.indirect
  /\ \A n \in Places : n # TablePlace => n < TablePlace
BY Geometry DEF Ptr, TablePlace, Places

\* What Holds says, place by place.
LEMMA HoldsIs ==
  ASSUME NEW O, NEW K, NEW i, NEW im, NEW in, Holds(O, K, i, im, in)
  PROVE  /\ im \in Images /\ im.bmap \subseteq Recorded
         /\ im.inode \in [Inodes -> InodeSet] /\ im.block \in [Blocks -> Contained]
         /\ Owns(im.bmap, im.block, im.inode) /\ Untouched(O, im, K)
         /\ \A j \in Inodes : Full(im.block, im.inode[j])
         /\ i \in Inodes /\ i \notin K /\ in \in InodeSet
         /\ in.type = im.inode[i].type /\ Full(im.block, in)
         /\ Put(im.inode, i, in) \in [Inodes -> InodeSet]
         /\ Put(im.inode, i, in)[i] = in
         /\ \A j \in Inodes : j # i => Put(im.inode, i, in)[j] = im.inode[j]
         /\ TableOf(im.block, in)
         /\ \A n \in Places : Ptr(im.block, in, n) \in Ptrs
<1>1. /\ im \in Safe(O, K) /\ i \in Inodes /\ i \notin K /\ in \in InodeSet
      /\ Owns(im.bmap, im.block, Put(im.inode, i, in))
      /\ in.type = im.inode[i].type /\ Full(im.block, in)
  BY DEF Holds
<1>2. /\ im \in Images /\ im.bmap \subseteq Recorded
      /\ im.inode \in [Inodes -> InodeSet] /\ im.block \in [Blocks -> Contained]
      /\ Owns(im.bmap, im.block, im.inode) /\ Untouched(O, im, K)
      /\ \A j \in Inodes : Full(im.block, im.inode[j])
  BY <1>1, SafeIs
<1>3. /\ Put(im.inode, i, in) \in [Inodes -> InodeSet]
      /\ Put(im.inode, i, in)[i] = in
      /\ \A j \in Inodes : j # i => Put(im.inode, i, in)[j] = im.inode[j]
  BY <1>1, <1>2, PutInodesIs
<1>4. TableOf(im.block, in)
  BY <1>1, <1>3 DEF Owns
<1>5. \A n \in Places : Ptr(im.block, in, n) \in Ptrs
  BY <1>1, <1>2, <1>4, PtrIn
<1> QED
  BY <1>1, <1>2, <1>3, <1>4, <1>5

LEMMA HoldsStart ==
  ASSUME NEW O, NEW K, NEW i \in Inodes \ K, NEW im \in Safe(O, K)
  PROVE  Holds(O, K, i, im, im.inode[i])
<1>1. /\ im.inode \in [Inodes -> InodeSet] /\ Owns(im.bmap, im.block, im.inode)
      /\ \A j \in Inodes : Full(im.block, im.inode[j])
  BY SafeIs
<1>2. Put(im.inode, i, im.inode[i]) = im.inode
  BY <1>1 DEF Put
<1> QED
  BY <1>1, <1>2 DEF Holds, Grows

\* Only the pointers, the size and the type of the copy count.
LEMMA HoldsSame ==
  ASSUME NEW O, NEW K, NEW i, NEW im, NEW in, Holds(O, K, i, im, in),
         NEW in2 \in InodeSet, SamePtrs(in, in2), in2.size = in.size, in2.type = in.type
  PROVE  Holds(O, K, i, im, in2) /\ Grows(im.block, in, im.block, in2)
<1>1. \A n \in Places : Ptr(im.block, in2, n) = Ptr(im.block, in, n)
  BY DEF Ptr, SamePtrs
<1>2. TableOf(im.block, in2)
  BY HoldsIs DEF TableOf, SamePtrs
<1>3. \A j \in Inodes : Put(im.inode, i, in2)[j] = IF j = i THEN in2 ELSE im.inode[j]
  <2>1. im.inode \in [Inodes -> InodeSet] /\ i \in Inodes
    BY HoldsIs
  <2> QED
    BY <2>1, PutInodesIs
<1>4. Owns(im.bmap, im.block, Put(im.inode, i, in2))
  <2> DEFINE view == Put(im.inode, i, in)
             next == Put(im.inode, i, in2)
  <2>1. Owns(im.bmap, im.block, view)
    BY DEF Holds
  <2>2. \A j \in Inodes : view[j] = IF j = i THEN in ELSE im.inode[j]
    BY HoldsIs, PutInodesIs
  <2> HIDE DEF view
  <2>3. \A j \in Inodes : next[j] = IF j = i THEN in2 ELSE im.inode[j]
    BY <1>3
  <2> HIDE DEF next
  <2>4. \A j \in Inodes, n \in Places : Ptr(im.block, next[j], n) = Ptr(im.block, view[j], n)
    BY <1>1, <2>2, <2>3
  <2>5. \A j \in Inodes : TableOf(im.block, next[j])
    BY <1>2, <2>1, <2>2, <2>3 DEF Owns
  <2>6. Owns(im.bmap, im.block, next)
    BY <2>1, <2>4, <2>5 DEF Owns, Apart, Marked
  <2> QED
    BY <2>6 DEF next
<1>5. Full(im.block, in2)
  BY <1>1 DEF Full, Holds
<1> QED
  BY <1>1, <1>4, <1>5 DEF Holds, Grows

\* A block is taken and cleared.
LEMMA HoldsCleared ==
  ASSUME NEW O, NEW K, NEW i, NEW im, NEW in, Holds(O, K, i, im, in),
         NEW b \in Recorded \ im.bmap, NEW new \in Safe(O, K), new.inode = im.inode,
         new.bmap = im.bmap \cup {b}, new.block = Put(im.block, b, ZeroBlock)
  PROVE  /\ Holds(O, K, i, new, in) /\ Spare(new, i, in, b)
         /\ \A n \in Places : Ptr(new.block, in, n) = Ptr(im.block, in, n)
<1> DEFINE view == Put(im.inode, i, in)
<1>1. /\ im \in Safe(O, K) /\ Owns(im.bmap, im.block, view) /\ Owns(im.bmap, im.block, im.inode)
      /\ im.block \in [Blocks -> Contained] /\ im.inode \in [Inodes -> InodeSet]
      /\ view \in [Inodes -> InodeSet] /\ view[i] = in /\ i \in Inodes
      /\ b \in Blocks /\ b # NilBlock /\ Full(im.block, in)
      /\ Grows(im.block, im.inode[i], im.block, in)
  <2>1. /\ im \in Safe(O, K) /\ Owns(im.bmap, im.block, view)
        /\ Full(im.block, in) /\ Grows(im.block, im.inode[i], im.block, in)
    BY DEF Holds
  <2>2. b \in Blocks /\ b # NilBlock
    BY Ranges DEF NilBlock
  <2>3. /\ Owns(im.bmap, im.block, im.inode)
        /\ im.block \in [Blocks -> Contained] /\ im.inode \in [Inodes -> InodeSet]
        /\ view \in [Inodes -> InodeSet] /\ view[i] = in /\ i \in Inodes
    BY HoldsIs
  <2> QED
    BY <2>1, <2>2, <2>3
<1> HIDE DEF view
<1>2. \A j \in Inodes : /\ \A n \in Places : Ptr(im.block, im.inode[j], n) # b
                        /\ im.inode[j].indirect # b
  BY <1>1, Unheld
<1>3. \A j \in Inodes, n \in Places : Ptr(im.block, view[j], n) # b
  BY <1>1 DEF Owns, Marked
<1>4. \A j \in Inodes : view[j].indirect # b
  BY <1>3, TablePlaceIs
<1>5. /\ Owns(im.bmap, new.block, view)
      /\ \A j \in Inodes, n \in Places : Ptr(new.block, view[j], n) = Ptr(im.block, view[j], n)
  <2>1. /\ Owns(im.bmap, Put(im.block, b, ZeroBlock), view)
        /\ \A j \in Inodes, n \in Places :
             Ptr(Put(im.block, b, ZeroBlock), view[j], n) = Ptr(im.block, view[j], n)
    <3>1. /\ Owns(im.bmap, im.block, view) /\ im.block \in [Blocks -> Contained]
          /\ view \in [Inodes -> InodeSet] /\ b \in Blocks
      BY <1>1
    <3> QED
      BY <3>1, <1>4, PutBlockOwns
  <2> QED
    BY <2>1
<1>6. \A j \in Inodes, n \in Places : Ptr(new.block, im.inode[j], n) = Ptr(im.block, im.inode[j], n)
  <2>1. /\ Owns(im.bmap, Put(im.block, b, ZeroBlock), im.inode)
        /\ \A j \in Inodes, n \in Places :
             Ptr(Put(im.block, b, ZeroBlock), im.inode[j], n) = Ptr(im.block, im.inode[j], n)
    <3>1. /\ Owns(im.bmap, im.block, im.inode) /\ im.block \in [Blocks -> Contained]
          /\ im.inode \in [Inodes -> InodeSet] /\ b \in Blocks
      BY <1>1
    <3>2. \A j \in Inodes : im.inode[j].indirect # b
      BY <1>2
    <3> QED
      BY <3>1, <3>2, PutBlockOwns
  <2> QED
    BY <2>1
<1>7. Owns(new.bmap, new.block, view)
  BY <1>5 DEF Owns, Marked
<1>8. \A n \in Places : Ptr(new.block, in, n) = Ptr(im.block, in, n)
  BY <1>1, <1>5
<1>9. Full(new.block, in)
  <2>1. \A n \in Places : Ptr(im.block, in, n) # b
    BY <1>1, <1>3
  <2>2. \A p : p # b => new.block[p] = im.block[p]
    BY <1>1, PutOther
  <2> QED
    BY <1>1, <1>8, <2>1, <2>2 DEF Full
<1>10. Grows(new.block, new.inode[i], new.block, in)
  BY <1>1, <1>6, <1>8 DEF Grows
<1>11. new.block[b] = ZeroBlock
  BY <1>1 DEF Put
<1>12. Holds(O, K, i, new, in)
  BY <1>7, <1>9, <1>10 DEF Holds, view
<1>13. Spare(new, i, in, b)
  BY <1>2, <1>3, <1>5, <1>6, <1>11 DEF Spare, view
<1> QED
  BY <1>8, <1>12, <1>13

\* The copy gets one pointer more, to a spare block.
LEMMA HoldsPointer ==
  ASSUME NEW O, NEW K, NEW i, NEW im, NEW in, Holds(O, K, i, im, in),
         NEW b, Spare(im, i, in, b), NEW in2 \in InodeSet, NEW n0 \in Places,
         TableOf(im.block, in2), in2.size = in.size, in2.type = in.type,
         Ptr(im.block, in, n0) = NilBlock, Ptr(im.block, in2, n0) = b,
         \A n \in Places : n # n0 => Ptr(im.block, in2, n) = Ptr(im.block, in, n)
  PROVE  /\ Holds(O, K, i, im, in2) /\ Grows(im.block, in, im.block, in2)
<1> DEFINE view == Put(im.inode, i, in)
           next == Put(im.inode, i, in2)
<1>1. /\ \A j \in Inodes : view[j] = IF j = i THEN in ELSE im.inode[j]
      /\ \A j \in Inodes : next[j] = IF j = i THEN in2 ELSE im.inode[j]
      /\ Owns(im.bmap, im.block, view) /\ b \in im.bmap /\ b # NilBlock
      /\ \A j \in Inodes, n \in Places : Ptr(im.block, view[j], n) # b
      /\ Owns(im.bmap, im.block, im.inode)
  <2>1. /\ Owns(im.bmap, im.block, view) /\ b \in im.bmap /\ b # NilBlock
        /\ \A j \in Inodes, n \in Places : Ptr(im.block, view[j], n) # b
    BY Ranges DEF Holds, Spare, NilBlock
  <2>2. im.inode \in [Inodes -> InodeSet] /\ i \in Inodes /\ in \in InodeSet
        /\ Owns(im.bmap, im.block, im.inode)
    BY HoldsIs
  <2>3. \A j \in Inodes : view[j] = IF j = i THEN in ELSE im.inode[j]
    BY <2>2, PutInodesIs
  <2>4. \A j \in Inodes : next[j] = IF j = i THEN in2 ELSE im.inode[j]
    BY <2>2, PutInodesIs
  <2> QED
    BY <2>1, <2>2, <2>3, <2>4
<1> HIDE DEF view, next
<1>2. OnePlus(im.block, view, im.block, next, i, n0, b)
  BY <1>1 DEF OnePlus
<1>3. \A j \in Inodes : TableOf(im.block, next[j])
  BY <1>1 DEF Owns
<1>4. Owns(im.bmap, im.block, next)
  BY <1>1, <1>2, <1>3, OneMore
<1>5. Grows(im.block, in, im.block, in2)
  BY DEF Grows
<1>6. Full(im.block, in2)
  <2>1. im.block[b] = ZeroBlock /\ Nameless(ZeroBlock)
    BY ZeroNameless DEF Spare
  <2>2. Full(im.block, in)
    BY DEF Holds
  <2> QED
    BY <1>1, <2>1, <2>2 DEF Full
<1>7. Grows(im.block, im.inode[i], im.block, in2)
  BY <1>5 DEF Grows, Holds
<1> QED
  BY <1>4, <1>5, <1>6, <1>7 DEF Holds, next

LEMMA HoldsDirect ==
  ASSUME NEW O, NEW K, NEW i, NEW im, NEW in, Holds(O, K, i, im, in),
         NEW b, Spare(im, i, in, b), NEW bn \in 0 .. NDirect - 1, in.direct[bn] = NilBlock,
         NEW in2 \in InodeSet, in2.direct = Put(in.direct, bn, b),
         in2.indirect = in.indirect, in2.size = in.size, in2.type = in.type
  PROVE  /\ Holds(O, K, i, im, in2) /\ Grows(im.block, in, im.block, in2)
         /\ Ptr(im.block, in2, bn) = b
<1>1. /\ in.direct \in [0 .. NDirect - 1 -> Ptrs] /\ bn \in Places /\ bn < NDirect
      /\ TableOf(im.block, in)
  BY HoldsIs, Geometry DEF InodeSet, Places
<1>2. Ptr(im.block, in, bn) = NilBlock /\ Ptr(im.block, in2, bn) = b
  BY <1>1 DEF Ptr, Put
<1>3. ASSUME NEW n \in Places, n # bn PROVE Ptr(im.block, in2, n) = Ptr(im.block, in, n)
  <2>1. n < NDirect => in2.direct[n] = in.direct[n]
    BY <1>1, <1>3, Geometry DEF Put, Places
  <2> QED
    BY <2>1 DEF Ptr
<1>4. TableOf(im.block, in2)
  BY <1>1 DEF TableOf
<1> QED
  BY <1>1, <1>2, <1>3, <1>4, HoldsPointer

LEMMA HoldsTable ==
  ASSUME NEW O, NEW K, NEW i, NEW im, NEW in, Holds(O, K, i, im, in),
         NEW b, Spare(im, i, in, b), in.indirect = NilBlock,
         NEW in2 \in InodeSet, in2.direct = in.direct,
         in2.indirect = b, in2.size = in.size, in2.type = in.type
  PROVE  Holds(O, K, i, im, in2) /\ Grows(im.block, in, im.block, in2)
<1>1. \A k \in 0 .. Width - 1 : im.block[b][k] = Zero
  BY DEF Spare, ZeroBlock
<1>2. TableOf(im.block, in2)
  BY <1>1 DEF TableOf, Zero
<1>3. Ptr(im.block, in, TablePlace) = NilBlock /\ Ptr(im.block, in2, TablePlace) = b
  BY TablePlaceIs
<1>4. ASSUME NEW n \in Places, n # TablePlace
      PROVE  Ptr(im.block, in2, n) = Ptr(im.block, in, n)
  <2>1. CASE n < NDirect
    BY <2>1 DEF Ptr
  <2>2. CASE ~(n < NDirect)
    <3>1. n - NDirect \in 0 .. Width - 1
      BY <1>4, <2>2, Geometry DEF Places, TablePlace
    <3>2. AsPointer(im.block[b][n - NDirect]) = NilBlock
      BY <1>1, <3>1 DEF AsPointer, Zero
    <3> QED
      BY <1>4, <2>2, <3>2 DEF Ptr
  <2> QED
    BY <2>1, <2>2
<1> QED
  BY <1>2, <1>3, <1>4, TablePlaceIs, HoldsPointer

\* A pointer in a table.
LEMMA PtrCell ==
  ASSUME NEW block \in [Blocks -> Contained], NEW t \in Blocks, NEW k \in 0 .. Width - 1,
         NEW b, NEW in, in.indirect = t
  PROVE  LET new == Put(block, t, Put(block[t], k, Pointer(b)))
         IN  /\ \A n \in Places : Ptr(new, in, n) = IF n = NDirect + k THEN b
                                                    ELSE Ptr(block, in, n)
             /\ TableOf(block, in) => TableOf(new, in)
<1> DEFINE x == Put(block[t], k, Pointer(b))
           new == Put(block, t, x)
<1>1. /\ x[k] = Pointer(b) /\ \A m \in 0 .. Width - 1 : m # k => x[m] = block[t][m]
      /\ t # NilBlock
  BY Ranges DEF Contained, Put, NilBlock
<1> HIDE DEF x
<1>2. new[t] = x
  BY DEF Put
<1> HIDE DEF new
<1>3. AsPointer(Pointer(b)) = b /\ Pointer(b).kind = "pointer"
  BY DEF AsPointer, Pointer
<1>4. ASSUME NEW n \in Places
      PROVE  Ptr(new, in, n) = IF n = NDirect + k THEN b ELSE Ptr(block, in, n)
  <2>1. CASE n < NDirect \/ n = TablePlace
    BY <2>1, Geometry DEF Ptr, TablePlace, Places
  <2>2. CASE ~(n < NDirect \/ n = TablePlace)
    <3>1. n - NDirect \in 0 .. Width - 1 /\ (n - NDirect = k <=> n = NDirect + k)
      BY <2>2, Geometry DEF Places, TablePlace
    <3>2. Ptr(new, in, n) = AsPointer(x[n - NDirect])
          /\ Ptr(block, in, n) = AsPointer(block[t][n - NDirect])
      BY <1>1, <1>2, <2>2 DEF Ptr
    <3> QED
      BY <1>1, <1>3, <3>1, <3>2
  <2> QED
    BY <2>1, <2>2
<1>5. TableOf(block, in) => TableOf(new, in)
  BY <1>1, <1>2, <1>3 DEF TableOf
<1> QED
  BY <1>4, <1>5 DEF new, x

\* Only the inode itself and its copy may take the copy's blocks for a table.
LEMMA HoldsTables ==
  ASSUME NEW O, NEW K, NEW i, NEW im, NEW in, Holds(O, K, i, im, in),
         NEW n \in Places, Ptr(im.block, in, n) # NilBlock
  PROVE  /\ \A j \in Inodes : j # i => im.inode[j].indirect # Ptr(im.block, in, n)
         /\ im.inode[i].indirect \in {NilBlock, in.indirect}
         /\ n # TablePlace => in.indirect # Ptr(im.block, in, n)
         /\ \A j \in Inodes, m \in Places : j # i => Ptr(im.block, im.inode[j], m) # Ptr(im.block, in, n)
<1> DEFINE view == Put(im.inode, i, in)
<1>1. /\ view[i] = in /\ \A j \in Inodes : j # i => view[j] = im.inode[j]
      /\ i \in Inodes
  BY HoldsIs
<1>2. Apart(im.block, view) /\ Grows(im.block, im.inode[i], im.block, in)
  BY DEF Holds, Owns
<1> HIDE DEF view
<1>3. \A j \in Inodes, m \in Places :
        Ptr(im.block, view[j], m) = Ptr(im.block, in, n) => j = i /\ m = n
  BY <1>1, <1>2 DEF Apart
<1>4. \A j \in Inodes, m \in Places : j # i => Ptr(im.block, im.inode[j], m) # Ptr(im.block, in, n)
  BY <1>1, <1>3
<1>5. n # TablePlace => in.indirect # Ptr(im.block, in, n)
  BY <1>1, <1>3, TablePlaceIs
<1>6. im.inode[i].indirect \in {NilBlock, in.indirect}
  BY <1>2, TablePlaceIs DEF Grows
<1> QED
  BY <1>4, <1>5, <1>6, TablePlaceIs

MayHold(in, x) == in.type = "reg" => Nameless(x)

LEMMA HoldsWrite ==
  ASSUME NEW O, NEW K \in SUBSET Inodes, NEW i, NEW im, NEW in, Holds(O, K, i, im, in),
         NEW n \in Places, n # TablePlace, Ptr(im.block, in, n) # NilBlock,
         NEW x \in Contained, MayHold(in, x)
  PROVE  LET new == PutBlock(im, Ptr(im.block, in, n), x)
         IN  /\ Holds(O, K, i, new, in) /\ SameBits(new, im) /\ new.inode = im.inode
             /\ \A m \in Places : Ptr(new.block, in, m) = Ptr(im.block, in, m)
<1> DEFINE b == Ptr(im.block, in, n)
           view == Put(im.inode, i, in)
           new == PutBlock(im, b, x)
<1>1. b \in Ptrs /\ b # NilBlock
  BY HoldsIs
<1>2. b \in Blocks
  BY <1>1, Ranges DEF Ptrs
<1>3. /\ \A j \in Inodes : im.inode[j].indirect # b
      /\ \A j \in Inodes, m \in Places : j # i => Ptr(im.block, im.inode[j], m) # b
      /\ in.indirect # b
  BY <1>1, HoldsTables
<1>4. /\ im \in Safe(O, K) /\ im \in Images /\ im.block \in [Blocks -> Contained]
      /\ view \in [Inodes -> InodeSet] /\ Owns(im.bmap, im.block, view)
      /\ im.inode \in [Inodes -> InodeSet] /\ Owns(im.bmap, im.block, im.inode)
      /\ i \notin K /\ i \in Inodes /\ in \in InodeSet /\ view[i] = in
      /\ \A j \in Inodes : j # i => view[j] = im.inode[j]
  <2>1. im \in Safe(O, K) /\ Owns(im.bmap, im.block, view)
    BY DEF Holds
  <2>2. /\ im \in Images /\ im.block \in [Blocks -> Contained]
        /\ view \in [Inodes -> InodeSet]
        /\ im.inode \in [Inodes -> InodeSet] /\ Owns(im.bmap, im.block, im.inode)
        /\ i \notin K /\ i \in Inodes /\ in \in InodeSet /\ view[i] = in
        /\ \A j \in Inodes : j # i => view[j] = im.inode[j]
    BY HoldsIs
  <2> QED
    BY <2>1, <2>2
<1>5. /\ Full(im.block, in) /\ Grows(im.block, im.inode[i], im.block, in)
      /\ in.type = im.inode[i].type
  BY DEF Holds
<1> HIDE DEF b, view
<1>14. \A j \in Inodes, m \in Places :
         Ptr(im.block, im.inode[j], m) = b /\ im.inode[j].type = "reg" => Nameless(x)
  BY <1>3, <1>5 DEF MayHold
<1>6. \A j \in Inodes : view[j].indirect # b
  BY <1>3, <1>4
<1>7. new \in Safe(O, K)
  BY <1>2, <1>3, <1>4, <1>14, PutBlockSafe
<1>8. new.block = Put(im.block, b, x) /\ new.inode = im.inode /\ SameBits(new, im)
  BY <1>2, <1>4, PutBlockIs
<1>9. /\ Owns(im.bmap, Put(im.block, b, x), view)
      /\ \A j \in Inodes, m \in Places :
           Ptr(Put(im.block, b, x), view[j], m) = Ptr(im.block, view[j], m)
  <2>1. /\ Owns(im.bmap, im.block, view) /\ im.block \in [Blocks -> Contained]
        /\ view \in [Inodes -> InodeSet] /\ b \in Blocks
    BY <1>2, <1>4
  <2> QED
    BY <2>1, <1>6, PutBlockOwns
<1>10. /\ Owns(im.bmap, Put(im.block, b, x), im.inode)
       /\ \A j \in Inodes, m \in Places :
            Ptr(Put(im.block, b, x), im.inode[j], m) = Ptr(im.block, im.inode[j], m)
  <2> DEFINE inode == im.inode
             block == im.block
  <2>1. /\ Owns(im.bmap, block, inode) /\ block \in [Blocks -> Contained]
        /\ inode \in [Inodes -> InodeSet] /\ b \in Blocks
        /\ \A j \in Inodes : inode[j].indirect # b
    BY <1>2, <1>3, <1>4
  <2> HIDE DEF inode, block
  <2>2. /\ Owns(im.bmap, Put(block, b, x), inode)
        /\ \A j \in Inodes, m \in Places :
             Ptr(Put(block, b, x), inode[j], m) = Ptr(block, inode[j], m)
    BY <2>1, PutBlockOwns
  <2> QED
    BY <2>2 DEF inode, block
<1> HIDE DEF new
<1>11. /\ Owns(new.bmap, new.block, view)
       /\ \A m \in Places : Ptr(new.block, in, m) = Ptr(im.block, in, m)
       /\ \A m \in Places : Ptr(new.block, new.inode[i], m) = Ptr(im.block, im.inode[i], m)
  BY <1>4, <1>8, <1>9, <1>10 DEF SameBits
<1>12. Full(new.block, in) /\ Grows(new.block, new.inode[i], new.block, in)
  <2>1. new.block[b] = x /\ \A p : p # b => new.block[p] = im.block[p]
    BY <1>2, <1>4, <1>8, PutOther
  <2>2. Full(new.block, in)
    BY <1>5, <1>11, <2>1 DEF Full, MayHold
  <2> QED
    BY <1>5, <1>11, <2>2 DEF Grows
<1>13. Holds(O, K, i, new, in)
  BY <1>4, <1>5, <1>7, <1>8, <1>11, <1>12 DEF Holds, view
<1> QED
  BY <1>8, <1>11, <1>13 DEF new, b

\* The table of the copy gets one pointer more.
LEMMA HoldsCell ==
  ASSUME NEW O, NEW K \in SUBSET Inodes, NEW i, NEW im, NEW in, Holds(O, K, i, im, in),
         in.indirect # NilBlock, NEW k \in 0 .. Width - 1,
         Ptr(im.block, in, NDirect + k) = NilBlock, NEW b, Spare(im, i, in, b)
  PROVE  LET new == PutCell(im, in.indirect, k, Pointer(b))
         IN  /\ Holds(O, K, i, new, in) /\ SameBits(new, im) /\ new.inode = im.inode
             /\ Grows(im.block, in, new.block, in)
             /\ Ptr(new.block, in, NDirect + k) = b
<1> DEFINE t == in.indirect
           n0 == NDirect + k
           view == Put(im.inode, i, in)
           x == Put(im.block[t], k, Pointer(b))
           new == PutCell(im, t, k, Pointer(b))
<1>1. /\ im \in Safe(O, K) /\ Owns(im.bmap, im.block, view)
      /\ Full(im.block, in) /\ Grows(im.block, im.inode[i], im.block, in)
  BY DEF Holds
<1>2. /\ im \in Images /\ im.block \in [Blocks -> Contained]
      /\ im.inode \in [Inodes -> InodeSet] /\ Owns(im.bmap, im.block, im.inode)
      /\ Untouched(O, im, K) /\ \A j \in Inodes : Full(im.block, im.inode[j])
      /\ i \notin K /\ i \in Inodes /\ in \in InodeSet /\ view[i] = in
      /\ \A j \in Inodes : j # i => view[j] = im.inode[j]
      /\ TableOf(im.block, in)
  BY HoldsIs
<1>3. b \in Recorded /\ b \in im.bmap /\ b # NilBlock /\ b # 0
  BY Ranges DEF Spare, NilBlock
<1>4. \A j \in Inodes, n \in Places : Ptr(im.block, view[j], n) # b
  BY DEF Spare
<1>5. \A j \in Inodes, n \in Places : Ptr(im.block, im.inode[j], n) # b
  BY DEF Spare
<1>6. t \in Blocks /\ Pointer(b) \in Cells
  BY <1>2, <1>3, Ranges DEF InodeSet, Ptrs, Cells
<1>7. Ptr(im.block, in, TablePlace) = t /\ TablePlace \in Places /\ n0 \in Places /\ n0 # TablePlace
  BY TablePlaceIs, Geometry DEF Places, TablePlace
<1>8. /\ \A j \in Inodes : j # i => im.inode[j].indirect # t
      /\ im.inode[i].indirect \in {NilBlock, t}
      /\ \A j \in Inodes, m \in Places : j # i => Ptr(im.block, im.inode[j], m) # t
  BY <1>7, HoldsTables
<1>9. /\ new \in Images /\ new.block = Put(im.block, t, x)
      /\ new.inode = im.inode /\ SameBits(new, im)
  BY <1>2, <1>6, PutCellIs
<1>10. t # NilBlock
  OBVIOUS
<1> HIDE DEF t, view, new
<1>11. ASSUME NEW in2 \in InodeSet, in2.indirect # t
       PROVE  /\ \A n \in Places : Ptr(new.block, in2, n) = Ptr(im.block, in2, n)
              /\ TableOf(im.block, in2) => TableOf(new.block, in2)
  <2>1. /\ \A n \in Places : Ptr(Put(im.block, t, x), in2, n) = Ptr(im.block, in2, n)
        /\ TableOf(im.block, in2) => TableOf(Put(im.block, t, x), in2)
    BY <1>2, <1>6, <1>11, PtrSame
  <2> QED
    BY <1>9, <2>1
<1>12. ASSUME NEW in2, in2.indirect = t
       PROVE  /\ \A n \in Places : Ptr(new.block, in2, n) = IF n = n0 THEN b
                                                             ELSE Ptr(im.block, in2, n)
              /\ TableOf(im.block, in2) => TableOf(new.block, in2)
  <2>1. /\ \A n \in Places : Ptr(Put(im.block, t, x), in2, n)
                               = IF n = NDirect + k THEN b ELSE Ptr(im.block, in2, n)
        /\ TableOf(im.block, in2) => TableOf(Put(im.block, t, x), in2)
    BY <1>2, <1>6, <1>12, PtrCell
  <2> QED
    BY <1>9, <2>1
<1>13. in.indirect = t
  BY DEF t
<1>14. \A n \in Places : Ptr(new.block, in, n) = IF n = n0 THEN b ELSE Ptr(im.block, in, n)
  BY <1>12, <1>13
<1>15. ASSUME NEW inode \in [Inodes -> InodeSet], Owns(im.bmap, im.block, inode),
              \A j \in Inodes : j # i => inode[j].indirect # t,
              \A j \in Inodes, n \in Places : Ptr(im.block, inode[j], n) # b
       PROVE  Owns(im.bmap, new.block, inode)
  <2>1. OnePlus(im.block, inode, new.block, inode, i, n0, b)
    BY <1>11, <1>12, <1>15 DEF OnePlus
  <2>2. \A j \in Inodes : TableOf(new.block, inode[j])
    BY <1>11, <1>12, <1>15 DEF Owns
  <2> QED
    BY <1>3, <1>15, <2>1, <2>2, OneMore
<1>16. Owns(im.bmap, new.block, im.inode)
  BY <1>2, <1>5, <1>8, <1>15
<1>17. Owns(im.bmap, new.block, view)
  <2>1. view \in [Inodes -> InodeSet]
    BY <1>2, PutInodesIs DEF view
  <2>2. \A j \in Inodes : j # i => view[j].indirect # t
    BY <1>2, <1>8
  <2> QED
    BY <1>1, <1>4, <1>15, <2>1, <2>2
<1>18. \A j \in Inodes, n \in Places :
         Ptr(im.block, im.inode[j], n) \in {NilBlock, Ptr(new.block, im.inode[j], n)}
  <2> SUFFICES ASSUME NEW j \in Inodes, NEW n \in Places
               PROVE  Ptr(im.block, im.inode[j], n) \in {NilBlock, Ptr(new.block, im.inode[j], n)}
    OBVIOUS
  <2>1. CASE im.inode[j].indirect # t
    BY <1>2, <1>11, <2>1
  <2>2. CASE im.inode[j].indirect = t
    <3>1. j = i
      BY <1>8, <2>2
    <3>2. Ptr(im.block, im.inode[i], n) \in {NilBlock, Ptr(im.block, in, n)}
      BY <1>1 DEF Grows
    <3>3. Ptr(im.block, in, n0) = NilBlock
      OBVIOUS
    <3>4. Ptr(new.block, im.inode[j], n) = IF n = n0 THEN b ELSE Ptr(im.block, im.inode[j], n)
      BY <1>12, <2>2
    <3> QED
      BY <3>1, <3>2, <3>3, <3>4
  <2> QED
    BY <2>1, <2>2
<1>26. (\A p : Nameless(im.block[p]) => Nameless(new.block[p])) /\ Nameless(new.block[b])
  <2>1. new.block[t] = x /\ \A p : p # t => new.block[p] = im.block[p]
    BY <1>2, <1>6, <1>9, PutOther
  <2>2. Nameless(im.block[t]) => Nameless(x)
    <3>1. im.block[t] \in [0 .. Width - 1 -> Cells]
      BY <1>2, <1>6 DEF Contained
    <3>2. \A m \in 0 .. Width - 1 : x[m] = IF m = k THEN Pointer(b) ELSE im.block[t][m]
      BY <3>1 DEF Put
    <3>3. Pointer(b).kind # "entry"
      BY DEF Pointer
    <3> HIDE DEF x
    <3> QED
      BY <3>2, <3>3 DEF Nameless
  <2>3. b # t
    BY <1>2, <1>4, <1>7
  <2>4. im.block[b] = ZeroBlock
    BY DEF Spare
  <2> HIDE DEF x
  <2> QED
    BY <2>1, <2>2, <2>3, <2>4, ZeroNameless
<1>27. \A j \in Inodes, n \in Places :
         Ptr(new.block, im.inode[j], n) \in {b, Ptr(im.block, im.inode[j], n)}
  BY <1>2, <1>11, <1>12
<1>19. \A j \in Inodes : Full(new.block, new.inode[j])
  <2> SUFFICES ASSUME NEW j \in Inodes, im.inode[j].type = "reg", NEW n \in Places
               PROVE  /\ n * Width < im.inode[j].size => Ptr(new.block, im.inode[j], n) # NilBlock
                      /\ Ptr(new.block, im.inode[j], n) # NilBlock
                           => Nameless(new.block[Ptr(new.block, im.inode[j], n)])
    BY <1>9 DEF Full
  <2>1. /\ n * Width < im.inode[j].size => Ptr(im.block, im.inode[j], n) # NilBlock
        /\ Ptr(im.block, im.inode[j], n) # NilBlock
             => Nameless(im.block[Ptr(im.block, im.inode[j], n)])
    BY <1>2 DEF Full
  <2> QED
    BY <1>18, <1>26, <1>27, <2>1
<1>20. Untouched(O, new, K)
  <2>1. \A j \in K, n \in Places : Ptr(im.block, im.inode[j], n) # t
    BY <1>2, <1>8
  <2> QED
    BY <1>2, <1>6, <1>9, <2>1, PutBlockUntouched DEF SameBits
<1>21. new \in Safe(O, K)
  BY <1>9, <1>16, <1>19, <1>20 DEF Safe, Good, SameBits
<1>22. Grows(im.block, in, new.block, in)
  <2>1. Ptr(im.block, in, n0) = NilBlock
    OBVIOUS
  <2> QED
    BY <1>14, <2>1 DEF Grows
<1>23. Full(new.block, in)
  <2> SUFFICES ASSUME in.type = "reg", NEW n \in Places
               PROVE  /\ n * Width < in.size => Ptr(new.block, in, n) # NilBlock
                      /\ Ptr(new.block, in, n) # NilBlock
                           => Nameless(new.block[Ptr(new.block, in, n)])
    BY DEF Full
  <2>1. /\ n * Width < in.size => Ptr(im.block, in, n) # NilBlock
        /\ Ptr(im.block, in, n) # NilBlock => Nameless(im.block[Ptr(im.block, in, n)])
    BY <1>1 DEF Full
  <2>2. Ptr(im.block, in, n) \in {NilBlock, Ptr(new.block, in, n)}
    BY <1>22 DEF Grows
  <2> QED
    BY <1>14, <1>26, <2>1, <2>2
<1>24. Grows(new.block, new.inode[i], new.block, in)
  <2> SUFFICES ASSUME NEW n \in Places
               PROVE  Ptr(new.block, im.inode[i], n) \in {NilBlock, Ptr(new.block, in, n)}
    BY <1>9 DEF Grows
  <2>1. Ptr(im.block, im.inode[i], n) \in {NilBlock, Ptr(im.block, in, n)}
    BY <1>1 DEF Grows
  <2>2. Ptr(im.block, in, n0) = NilBlock
    OBVIOUS
  <2>3. CASE im.inode[i].indirect = t
    BY <1>12, <1>14, <2>1, <2>3
  <2>4. CASE im.inode[i].indirect # t
    BY <1>2, <1>11, <1>14, <2>1, <2>2, <2>4
  <2> QED
    BY <2>3, <2>4
<1>25. Holds(O, K, i, new, in)
  <2>1. in.type = new.inode[i].type
    BY <1>9 DEF Holds
  <2> QED
    BY <1>2, <1>9, <1>17, <1>21, <1>23, <1>24, <2>1 DEF Holds, SameBits, view
<1> QED
  BY <1>7, <1>9, <1>14, <1>22, <1>25 DEF new, t

\* The copy is written back.
LEMMA HoldsReturn ==
  ASSUME NEW O, NEW K \in SUBSET Inodes, NEW i, NEW im, NEW in, Holds(O, K, i, im, in),
         NEW in2 \in InodeSet, SamePtrs(in, in2), Full(im.block, in2)
  PROVE  LET new == PutInode(im, i, in2)
         IN  new \in Safe(O, K) /\ SameBits(new, im)
<1> DEFINE view == Put(im.inode, i, in)
           next == Put(im.inode, i, in2)
           new == PutInode(im, i, in2)
<1>1. /\ im \in Images /\ im.inode \in [Inodes -> InodeSet]
      /\ Untouched(O, im, K) /\ \A j \in Inodes : Full(im.block, im.inode[j])
      /\ i \notin K /\ i \in Inodes /\ view[i] = in
      /\ \A j \in Inodes : j # i => view[j] = im.inode[j]
      /\ TableOf(im.block, in)
  BY HoldsIs
<1>2. Owns(im.bmap, im.block, view)
  BY DEF Holds
<1>3. new \in Images /\ new.inode = next /\ new.block = im.block /\ SameBits(new, im)
  BY <1>1, PutInodeIs
<1>4. \A j \in Inodes : next[j] = IF j = i THEN in2 ELSE im.inode[j]
  BY <1>1, PutInodesIs
<1> HIDE DEF view, next, new
<1>5. \A n \in Places : Ptr(im.block, in2, n) = Ptr(im.block, in, n)
  BY DEF Ptr, SamePtrs
<1>6. TableOf(im.block, in2)
  BY <1>1 DEF TableOf, SamePtrs
<1>7. \A j \in Inodes, n \in Places : Ptr(im.block, next[j], n) = Ptr(im.block, view[j], n)
  BY <1>1, <1>4, <1>5
<1>8. \A j \in Inodes : TableOf(im.block, next[j])
  BY <1>1, <1>2, <1>4, <1>6 DEF Owns
<1>9. Owns(im.bmap, im.block, next)
  BY <1>2, <1>7, <1>8 DEF Owns, Apart, Marked
<1>10. \A j \in Inodes : Full(im.block, next[j])
  BY <1>1, <1>4
<1>11. Untouched(O, new, K)
  <2>1. \A j \in K : new.inode[j] = im.inode[j]
    BY <1>1, <1>3, <1>4
  <2>2. AsIn(im, new, K)
    BY <1>1, <1>3, <2>1 DEF AsIn, SameBits
  <2> QED
    BY <1>1, <2>2, StillUntouched
<1> QED
  BY <1>3, <1>9, <1>10, <1>11 DEF Safe, Good, SameBits, new

-----------------------------------------------------------------------------
(* dir.c and file.c: blocks for a copy *)

\* c works on a copy of the inode i; d is c some writes later.
Copying(c, O, K, i) == c \in Copies(Safe(O, K)) /\ Holds(O, K, i, Cur(c), c.in)
Further(d, c, O, K, i) ==
  /\ Copying(d, O, K, i) /\ KeepsExact(d, c)
  /\ Grows(Cur(c).block, c.in, Cur(d).block, d.in)
  /\ d.in.size = c.in.size /\ d.in.type = c.in.type

LEMMA FurtherTrans ==
  ASSUME NEW O, NEW K, NEW i, NEW c, NEW d, NEW e,
         Further(d, c, O, K, i), Further(e, d, O, K, i)
  PROVE  Further(e, c, O, K, i)
BY DEF Further, KeepsExact, Grows

LEMMA FurtherSelf ==
  ASSUME NEW O, NEW K, NEW i, NEW c, Copying(c, O, K, i)
  PROVE  Further(c, c, O, K, i)
BY DEF Further, KeepsExact, Grows

LEMMA CopyRet ==
  ASSUME NEW O, NEW K, NEW i, NEW c, Copying(c, O, K, i), NEW r \in Int
  PROVE  /\ Further(Ret(c, r), c, O, K, i) /\ Ret(c, r).ret = r
         /\ Cur(Ret(c, r)) = Cur(c) /\ Ret(c, r).in = c.in
<1>1. /\ Ret(c, r) \in Copies(Safe(O, K)) /\ Ret(c, r).in = c.in /\ Cur(Ret(c, r)) = Cur(c)
      /\ Ret(c, r).ret = r
  <2>1. c \in Copies(Safe(O, K)) /\ c \in Contexts(Safe(O, K)) \cup Copies(Safe(O, K))
    BY DEF Copying
  <2> QED
    BY <2>1, RetFollows DEF Follows
<1> QED
  BY <1>1 DEF Copying, Further, KeepsExact, Grows

LEMMA CopyAlloc ==
  ASSUME NEW O, NEW K \in SUBSET Inodes, NEW i, NEW c, Copying(c, O, K, i), ReadClear = {}
  PROVE  LET a == AllocZeroed(c)
         IN  /\ Further(a, c, O, K, i) /\ a.ret \in Int /\ a.in = c.in
             /\ ~(a.ret < 0) => Spare(Cur(a), i, a.in, a.ret)
             /\ \A n \in Places : Ptr(Cur(a).block, a.in, n) = Ptr(Cur(c).block, c.in, n)
<1> DEFINE a == AllocZeroed(c)
<1>1. c \in Copies(Safe(O, K)) /\ Holds(O, K, i, Cur(c), c.in)
  BY DEF Copying
<1>2. /\ Follows(a, c, Safe(O, K)) /\ a.ret \in Int /\ Clears(a, c) /\ KeepsExact(a, c)
  BY <1>1, AllocZeroedIs
<1> HIDE DEF a
<1>3. a \in Copies(Safe(O, K)) /\ a.in = c.in
  BY <1>1, <1>2 DEF Follows
<1>4. Cur(a) \in Safe(O, K)
  BY <1>3, CurIn
<1>5. CASE a.ret < 0
  <2>1. Cur(a) = Cur(c)
    BY <1>2, <1>5 DEF Clears
  <2> QED
    BY <1>1, <1>2, <1>3, <1>5, <2>1 DEF Further, Copying, Grows, a
<1>6. CASE ~(a.ret < 0)
  <2>1. /\ a.ret \in Recorded \ Cur(c).bmap /\ Cur(a).inode = Cur(c).inode
        /\ Cur(a).bmap = Cur(c).bmap \cup {a.ret}
        /\ Cur(a).block = Put(Cur(c).block, a.ret, ZeroBlock)
    BY <1>2, <1>6 DEF Clears
  <2>2. /\ Holds(O, K, i, Cur(a), c.in) /\ Spare(Cur(a), i, c.in, a.ret)
        /\ \A n \in Places : Ptr(Cur(a).block, c.in, n) = Ptr(Cur(c).block, c.in, n)
    BY <1>1, <1>4, <2>1, HoldsCleared
  <2> QED
    BY <1>1, <1>2, <1>3, <1>6, <2>2 DEF Further, Copying, Grows, a
<1> QED
  BY <1>5, <1>6

SetDirect(a, bn, b) == [a EXCEPT !.in.direct[bn] = b, !.in.blocks = @ + 1]
SetTable(a, b) == [a EXCEPT !.in.indirect = b]
MoreBlocks(a) == [a EXCEPT !.in.blocks = @ + 1]

LEMMA InodeFields ==
  ASSUME NEW in \in InodeSet
  PROVE  /\ \A d \in [0 .. NDirect - 1 -> Ptrs] :
              LET new == [in EXCEPT !.direct = d]
              IN  /\ new \in InodeSet /\ new.direct = d /\ new.indirect = in.indirect
                  /\ new.size = in.size /\ new.type = in.type
         /\ \A t \in Ptrs :
              LET new == [in EXCEPT !.indirect = t]
              IN  /\ new \in InodeSet /\ new.direct = in.direct /\ new.indirect = t
                  /\ new.size = in.size /\ new.type = in.type
         /\ \A k \in Int :
              LET new == [in EXCEPT !.blocks = k]
              IN  /\ new \in InodeSet /\ SamePtrs(in, new)
                  /\ new.size = in.size /\ new.type = in.type
         /\ \A s \in 0 .. Capacity :
              LET new == [in EXCEPT !.size = s]
              IN  /\ new \in InodeSet /\ SamePtrs(in, new)
                  /\ new.size = s /\ new.type = in.type
         /\ \A m \in Modes :
              LET new == [in EXCEPT !.mode = m]
              IN  /\ new \in InodeSet /\ SamePtrs(in, new)
                  /\ new.size = in.size /\ new.type = in.type
BY DEF InodeSet, SamePtrs

LEMMA MoreBlocksIs ==
  ASSUME NEW I, NEW a \in Copies(I)
  PROVE  LET d == MoreBlocks(a)
         IN  /\ d \in Copies(I) /\ Cur(d) = Cur(a) /\ d.ret = a.ret /\ d.log = a.log
             /\ d.in \in InodeSet /\ SamePtrs(a.in, d.in)
             /\ d.in.size = a.in.size /\ d.in.type = a.in.type
<1> DEFINE in2 == [a.in EXCEPT !.blocks = a.in.blocks + 1]
           d == [a EXCEPT !.in = in2]
<1>1. a.in \in InodeSet /\ a.in.blocks + 1 \in Int
  BY DEF Copies, InodeSet
<1>2. /\ in2 \in InodeSet /\ SamePtrs(a.in, in2)
      /\ in2.size = a.in.size /\ in2.type = a.in.type
  BY <1>1, InodeFields
<1>3. MoreBlocks(a) = d
  BY Zenon DEF MoreBlocks
<1> HIDE DEF in2
<1>4. d \in Copies(I) /\ d.in = in2 /\ d.log = a.log /\ d.ret = a.ret /\ Cur(d) = Cur(a)
  BY <1>2, CopySet
<1> HIDE DEF d
<1> QED
  BY <1>2, <1>3, <1>4

LEMMA SetTableIs ==
  ASSUME NEW I, NEW a \in Copies(I), NEW b \in Ptrs
  PROVE  LET d == SetTable(a, b)
         IN  /\ d \in Copies(I) /\ Cur(d) = Cur(a) /\ d.ret = a.ret /\ d.log = a.log
             /\ d.in \in InodeSet /\ d.in.direct = a.in.direct /\ d.in.indirect = b
             /\ d.in.size = a.in.size /\ d.in.type = a.in.type
<1> DEFINE in2 == [a.in EXCEPT !.indirect = b]
           d == [a EXCEPT !.in = in2]
<1>1. a.in \in InodeSet
  BY DEF Copies
<1>2. /\ in2 \in InodeSet /\ in2.direct = a.in.direct /\ in2.indirect = b
      /\ in2.size = a.in.size /\ in2.type = a.in.type
  BY <1>1, InodeFields
<1>3. SetTable(a, b) = d
  BY Zenon DEF SetTable
<1> HIDE DEF in2
<1>4. d \in Copies(I) /\ d.in = in2 /\ d.log = a.log /\ d.ret = a.ret /\ Cur(d) = Cur(a)
  BY <1>2, CopySet
<1> HIDE DEF d
<1> QED
  BY <1>2, <1>3, <1>4

LEMMA SetDirectIs ==
  ASSUME NEW I, NEW a \in Copies(I), NEW bn \in 0 .. NDirect - 1, NEW b \in Ptrs
  PROVE  LET d == SetDirect(a, bn, b)
         IN  /\ d \in Copies(I) /\ Cur(d) = Cur(a) /\ d.ret = a.ret /\ d.log = a.log
             /\ d.in \in InodeSet /\ d.in.direct = Put(a.in.direct, bn, b)
             /\ d.in.indirect = a.in.indirect
             /\ d.in.size = a.in.size /\ d.in.type = a.in.type
<1> DEFINE t == Put(a.in.direct, bn, b)
           in2 == [a.in EXCEPT !.direct = t]
           e == [a EXCEPT !.in = in2]
           d == MoreBlocks(e)
<1>1. a.in \in InodeSet /\ t \in [0 .. NDirect - 1 -> Ptrs]
  BY DEF Copies, InodeSet, Put
<1>2. /\ in2 \in InodeSet /\ in2.direct = t /\ in2.indirect = a.in.indirect
      /\ in2.size = a.in.size /\ in2.type = a.in.type
  BY <1>1, InodeFields
<1>3. SetDirect(a, bn, b) = d
  BY Zenon DEF SetDirect, MoreBlocks, Put
<1> HIDE DEF in2
<1>4. e \in Copies(I) /\ e.in = in2 /\ e.log = a.log /\ e.ret = a.ret /\ Cur(e) = Cur(a)
  BY <1>2, CopySet
<1> HIDE DEF e
<1>5. /\ d \in Copies(I) /\ Cur(d) = Cur(e) /\ d.ret = e.ret /\ d.log = e.log
      /\ d.in \in InodeSet /\ SamePtrs(e.in, d.in)
      /\ d.in.size = e.in.size /\ d.in.type = e.in.type
  BY <1>4, MoreBlocksIs
<1> HIDE DEF d
<1> QED
  BY <1>2, <1>3, <1>4, <1>5 DEF SamePtrs

\* A fresh block under a direct pointer that was nil.
NewDirect(c, bn) ==
  IfOk(AllocZeroed(c), LAMBDA a :
    [a EXCEPT !.in.direct[bn] = a.ret, !.in.blocks = @ + 1])

\* The block of the file that a copy gives for bn.
Mapped(m, bn) == m.ret = Ptr(Cur(m).block, m.in, bn) /\ m.ret # NilBlock

LEMMA NewDirectIs ==
  ASSUME NEW O, NEW K \in SUBSET Inodes, NEW i, NEW c, Copying(c, O, K, i), ReadClear = {},
         NEW bn \in 0 .. NDirect - 1, c.in.direct[bn] = NilBlock
  PROVE  LET d == NewDirect(c, bn)
         IN  /\ Further(d, c, O, K, i) /\ d.ret \in Int
             /\ ~(d.ret < 0) => Mapped(d, bn)
<1> DEFINE a == AllocZeroed(c)
           d == SetDirect(a, bn, a.ret)
<1>1. /\ Further(a, c, O, K, i) /\ a.ret \in Int /\ a.in = c.in
      /\ ~(a.ret < 0) => Spare(Cur(a), i, a.in, a.ret)
  BY CopyAlloc
<1>2. NewDirect(c, bn) = IF a.ret < 0 THEN a ELSE d
  BY Zenon DEF NewDirect, IfOk, SetDirect
<1> HIDE DEF a
<1>3. CASE a.ret < 0
  BY <1>1, <1>2, <1>3
<1>4. CASE ~(a.ret < 0)
  <2>1. Spare(Cur(a), i, a.in, a.ret) /\ a.ret \in Recorded /\ a.ret \in Ptrs /\ a.ret # NilBlock
    BY <1>1, <1>4, Ranges DEF Spare, Ptrs, NilBlock
  <2>2. a \in Copies(Safe(O, K)) /\ Holds(O, K, i, Cur(a), a.in)
    BY <1>1 DEF Further, Copying
  <2>3. /\ d \in Copies(Safe(O, K)) /\ Cur(d) = Cur(a) /\ d.ret = a.ret
        /\ d.in \in InodeSet /\ d.in.direct = Put(a.in.direct, bn, a.ret)
        /\ d.in.indirect = a.in.indirect
        /\ d.in.size = a.in.size /\ d.in.type = a.in.type
    BY <2>1, <2>2, SetDirectIs
  <2>4. NewDirect(c, bn) = d
    BY <1>2, <1>4
  <2> HIDE DEF d
  <2>5. /\ Holds(O, K, i, Cur(a), d.in) /\ Grows(Cur(a).block, a.in, Cur(a).block, d.in)
        /\ Ptr(Cur(a).block, d.in, bn) = a.ret
    BY <1>1, <2>1, <2>2, <2>3, HoldsDirect
  <2>6. Further(d, a, O, K, i)
    BY <2>3, <2>5 DEF Further, Copying, KeepsExact
  <2>7. Further(d, c, O, K, i)
    BY <1>1, <2>6, FurtherTrans
  <2> QED
    BY <1>1, <2>1, <2>3, <2>4, <2>5, <2>7 DEF Mapped
<1> QED
  BY <1>3, <1>4

LEMMA PtrsInt == Ptrs \subseteq Int
BY Ranges

LEMMA EnsureIs ==
  ASSUME NEW O, NEW K \in SUBSET Inodes, NEW i, NEW c, Copying(c, O, K, i), ReadClear = {},
         NEW bn \in Nat
  PROVE  LET d == ensure_dir_block(c, bn)
         IN  /\ Further(d, c, O, K, i) /\ d.ret \in Int
             /\ ~(d.ret < 0) => bn < NDirect /\ Mapped(d, bn)
<1>1. ensure_dir_block(c, bn)
        = IF bn >= NDirect THEN Ret(c, -4)
          ELSE IF c.in.direct[bn] # NilBlock THEN Ret(c, c.in.direct[bn])
          ELSE NewDirect(c, bn)
  BY Zenon DEF ensure_dir_block, NewDirect, FS_ENOSPC
<1>2. CASE bn >= NDirect
  <2>1. ensure_dir_block(c, bn) = Ret(c, -4)
    BY <1>1, <1>2
  <2>2. -4 \in Int /\ -4 < 0
    OBVIOUS
  <2> QED
    BY <2>1, <2>2, CopyRet
<1>3. CASE ~(bn >= NDirect) /\ c.in.direct[bn] # NilBlock
  <2> DEFINE r == c.in.direct[bn]
             d == Ret(c, r)
  <2>1. ensure_dir_block(c, bn) = d
    BY <1>1, <1>3
  <2>2. bn \in 0 .. NDirect - 1 /\ bn < NDirect
    BY <1>3, Geometry
  <2>3. c.in \in InodeSet
    BY HoldsIs DEF Copying
  <2>4. r \in Ptrs
    BY <2>2, <2>3 DEF InodeSet
  <2>5. r = Ptr(Cur(c).block, c.in, bn) /\ r \in Int /\ r # NilBlock
    BY <1>3, <2>2, <2>4, PtrsInt DEF Ptr
  <2> HIDE DEF r
  <2>6. Further(d, c, O, K, i) /\ d.ret = r /\ Cur(d) = Cur(c) /\ d.in = c.in
    BY <2>5, CopyRet
  <2> QED
    BY <2>1, <2>2, <2>5, <2>6 DEF Mapped
<1>4. CASE ~(bn >= NDirect) /\ ~(c.in.direct[bn] # NilBlock)
  <2>1. ensure_dir_block(c, bn) = NewDirect(c, bn)
    BY <1>1, <1>4
  <2>2. bn \in 0 .. NDirect - 1 /\ bn < NDirect
    BY <1>4, Geometry
  <2> QED
    BY <1>4, <2>1, <2>2, NewDirectIs
<1> QED
  BY <1>2, <1>3, <1>4

LEMMA IndirectIs ==
  ASSUME NEW O, NEW K \in SUBSET Inodes, NEW i, NEW c, Copying(c, O, K, i), ReadClear = {}
  PROVE  LET d == IndirectBlock(c)
         IN  /\ Further(d, c, O, K, i) /\ d.ret \in Int
             /\ ~(d.ret < 0) => d.in.indirect # NilBlock
<1>0. c \in Copies(Safe(O, K)) /\ Holds(O, K, i, Cur(c), c.in) /\ c.in \in InodeSet
  BY HoldsIs DEF Copying
<1>1. CASE c.in.indirect # NilBlock
  <2>1. IndirectBlock(c) = Ret(c, c.in.indirect)
    BY <1>1, Zenon DEF IndirectBlock
  <2>2. c.in.indirect \in Int
    BY <1>0, PtrsInt DEF InodeSet
  <2> QED
    BY <1>1, <2>1, <2>2, CopyRet
<1>2. CASE c.in.indirect = NilBlock
  <2> DEFINE a == AllocZeroed(c)
             d == SetTable(a, a.ret)
  <2>1. /\ Further(a, c, O, K, i) /\ a.ret \in Int /\ a.in = c.in
        /\ ~(a.ret < 0) => Spare(Cur(a), i, a.in, a.ret)
    BY CopyAlloc
  <2>2. IndirectBlock(c) = IF a.ret < 0 THEN a ELSE d
    BY <1>2, Zenon DEF IndirectBlock, IfOk, SetTable
  <2> HIDE DEF a
  <2>3. CASE a.ret < 0
    BY <2>1, <2>2, <2>3
  <2>4. CASE ~(a.ret < 0)
    <3>1. Spare(Cur(a), i, a.in, a.ret) /\ a.ret \in Recorded /\ a.ret \in Ptrs /\ a.ret # NilBlock
      BY <2>1, <2>4, Ranges DEF Spare, Ptrs, NilBlock
    <3>2. a \in Copies(Safe(O, K)) /\ Holds(O, K, i, Cur(a), a.in)
      BY <2>1 DEF Further, Copying
    <3>3. /\ d \in Copies(Safe(O, K)) /\ Cur(d) = Cur(a) /\ d.ret = a.ret
          /\ d.in \in InodeSet /\ d.in.direct = a.in.direct
          /\ d.in.indirect = a.ret
          /\ d.in.size = a.in.size /\ d.in.type = a.in.type
      BY <3>1, <3>2, SetTableIs
    <3>4. IndirectBlock(c) = d
      BY <2>2, <2>4
    <3> HIDE DEF d
    <3>5. Holds(O, K, i, Cur(a), d.in) /\ Grows(Cur(a).block, a.in, Cur(a).block, d.in)
      BY <1>2, <2>1, <3>1, <3>2, <3>3, HoldsTable
    <3>6. Further(d, a, O, K, i)
      BY <3>3, <3>5 DEF Further, Copying, KeepsExact
    <3>7. Further(d, c, O, K, i)
      BY <2>1, <3>6, FurtherTrans
    <3> QED
      BY <2>1, <3>1, <3>3, <3>4, <3>7
  <2> QED
    BY <2>3, <2>4
<1> QED
  BY <1>1, <1>2

\* The last statement of LinkNewBlock.
Linked(a, t, idx) ==
  [DevWrite(a, [Cur(a) EXCEPT !.block[t.in.indirect][idx] = Pointer(a.ret)])
     EXCEPT !.in.blocks = @ + 1, !.ret = a.ret]

LEMMA LinkIs ==
  ASSUME NEW O, NEW K \in SUBSET Inodes, NEW i, NEW t, Copying(t, O, K, i), ReadClear = {},
         t.in.indirect # NilBlock, NEW idx \in 0 .. Width - 1,
         Ptr(Cur(t).block, t.in, NDirect + idx) = NilBlock
  PROVE  LET d == LinkNewBlock(t, idx)
         IN  /\ Further(d, t, O, K, i) /\ d.ret \in Int
             /\ ~(d.ret < 0) => Mapped(d, NDirect + idx)
<1> DEFINE n0 == NDirect + idx
           a == AllocZeroed(t)
           new == PutCell(Cur(a), a.in.indirect, idx, Pointer(a.ret))
           w == DevWrite(a, new)
           m == MoreBlocks(w)
           d == Ret(m, a.ret)
<1>0. n0 \in Places
  BY Geometry DEF Places
<1>1. /\ Further(a, t, O, K, i) /\ a.ret \in Int /\ a.in = t.in
      /\ ~(a.ret < 0) => Spare(Cur(a), i, a.in, a.ret)
      /\ Ptr(Cur(a).block, a.in, n0) = Ptr(Cur(t).block, t.in, n0)
  BY <1>0, CopyAlloc
<1>2. LinkNewBlock(t, idx) = IF a.ret < 0 THEN a ELSE Linked(a, t, idx)
  BY Zenon DEF LinkNewBlock, IfOk, Linked
<1> HIDE DEF a
<1>3. Linked(a, t, idx) = d
  BY <1>1, Zenon DEF Linked, PutCell, MoreBlocks, Ret
<1>4. CASE a.ret < 0
  BY <1>1, <1>2, <1>4
<1>5. CASE ~(a.ret < 0)
  <2>1. Spare(Cur(a), i, a.in, a.ret) /\ a.ret \in Recorded /\ a.ret \in Ptrs /\ a.ret # NilBlock
    BY <1>1, <1>5, Ranges DEF Spare, Ptrs, NilBlock
  <2>2. a \in Copies(Safe(O, K)) /\ Holds(O, K, i, Cur(a), a.in)
    BY <1>1 DEF Further, Copying
  <2>3. a.in.indirect # NilBlock /\ Ptr(Cur(a).block, a.in, n0) = NilBlock
    BY <1>1
  <2>4. /\ Holds(O, K, i, new, a.in) /\ SameBits(new, Cur(a)) /\ new.inode = Cur(a).inode
        /\ Grows(Cur(a).block, a.in, new.block, a.in)
        /\ Ptr(new.block, a.in, n0) = a.ret
    BY <2>1, <2>2, <2>3, HoldsCell
  <2>5. LinkNewBlock(t, idx) = d
    BY <1>2, <1>3, <1>5
  <2> HIDE DEF new
  <2>6. new \in Safe(O, K)
    BY <2>4 DEF Holds
  <2>7. w \in Copies(Safe(O, K)) /\ w.in = a.in /\ Cur(w) = new
    BY <2>2, <2>6, DevWriteIn DEF Wrote
  <2> HIDE DEF w
  <2>8. /\ m \in Copies(Safe(O, K)) /\ Cur(m) = new
        /\ m.in \in InodeSet /\ SamePtrs(a.in, m.in)
        /\ m.in.size = a.in.size /\ m.in.type = a.in.type
    BY <2>7, MoreBlocksIs
  <2> HIDE DEF m
  <2>9. Holds(O, K, i, new, m.in) /\ Grows(new.block, a.in, new.block, m.in)
    BY <2>4, <2>8, HoldsSame
  <2>10. Copying(m, O, K, i)
    BY <2>8, <2>9 DEF Copying
  <2>11. /\ Further(d, m, O, K, i) /\ d.ret = a.ret /\ Cur(d) = new /\ d.in = m.in
    BY <1>1, <2>8, <2>10, CopyRet
  <2> HIDE DEF d
  <2>12. KeepsExact(d, a)
    BY <2>4, <2>11, SameBitsExact DEF KeepsExact
  <2>13. Grows(Cur(a).block, a.in, Cur(d).block, d.in)
    BY <2>4, <2>9, <2>11 DEF Grows
  <2>14. Further(d, a, O, K, i)
    BY <2>8, <2>11, <2>12, <2>13 DEF Further
  <2>15. Further(d, t, O, K, i)
    BY <1>1, <2>14, FurtherTrans
  <2>16. Ptr(new.block, m.in, n0) = a.ret
    BY <2>4, <2>8 DEF Ptr, SamePtrs
  <2> QED
    BY <1>1, <2>1, <2>5, <2>11, <2>15, <2>16 DEF Mapped
<1> QED
  BY <1>4, <1>5

LEMMA MapIndirectIs ==
  ASSUME NEW O, NEW K \in SUBSET Inodes, NEW i, NEW c, Copying(c, O, K, i), ReadClear = {},
         NEW idx \in 0 .. Width - 1
  PROVE  LET d == MapIndirect(c, idx)
         IN  /\ Further(d, c, O, K, i) /\ d.ret \in Int
             /\ ~(d.ret < 0) => Mapped(d, NDirect + idx)
<1> DEFINE n0 == NDirect + idx
           t == IndirectBlock(c)
           slot == AsPointer(Cur(t).block[t.in.indirect][idx])
<1>0. n0 \in Places /\ n0 # TablePlace /\ ~(n0 < NDirect) /\ n0 - NDirect = idx
  BY Geometry DEF Places, TablePlace
<1>1. /\ Further(t, c, O, K, i) /\ t.ret \in Int
      /\ ~(t.ret < 0) => t.in.indirect # NilBlock
  BY IndirectIs
<1>2. MapIndirect(c, idx) = IF t.ret < 0 THEN t
                            ELSE IF slot # NilBlock THEN Ret(t, slot) ELSE LinkNewBlock(t, idx)
  BY Zenon DEF MapIndirect, IfOk
<1> HIDE DEF t
<1>3. CASE t.ret < 0
  BY <1>1, <1>2, <1>3
<1>4. CASE ~(t.ret < 0)
  <2>1. Copying(t, O, K, i) /\ t.in.indirect # NilBlock
    BY <1>1, <1>4 DEF Further
  <2>2. Ptr(Cur(t).block, t.in, n0) = slot
    BY <1>0, <2>1 DEF Ptr
  <2>3. slot \in Int
    <3>1. Holds(O, K, i, Cur(t), t.in)
      BY <2>1 DEF Copying
    <3>2. \A n \in Places : Ptr(Cur(t).block, t.in, n) \in Ptrs
      BY <3>1, HoldsIs
    <3>3. Ptr(Cur(t).block, t.in, n0) \in Ptrs
      BY <1>0, <3>2
    <3> QED
      BY <2>2, <3>3, PtrsInt
  <2>4. CASE slot # NilBlock
    <3> DEFINE d == Ret(t, slot)
    <3>1. MapIndirect(c, idx) = d
      BY <1>2, <1>4, <2>4
    <3> HIDE DEF slot
    <3>2. Further(d, t, O, K, i) /\ d.ret = slot /\ Cur(d) = Cur(t) /\ d.in = t.in
      BY <2>1, <2>3, CopyRet
    <3> HIDE DEF d
    <3>3. Further(d, c, O, K, i)
      BY <1>1, <3>2, FurtherTrans
    <3> QED
      BY <2>2, <2>3, <2>4, <3>1, <3>2, <3>3 DEF Mapped
  <2>5. CASE slot = NilBlock
    <3> DEFINE d == LinkNewBlock(t, idx)
    <3>1. MapIndirect(c, idx) = d
      BY <1>2, <1>4, <2>5
    <3>2. Ptr(Cur(t).block, t.in, NDirect + idx) = NilBlock
      BY <2>2, <2>5
    <3>3. /\ Further(d, t, O, K, i) /\ d.ret \in Int
          /\ ~(d.ret < 0) => Mapped(d, NDirect + idx)
      BY <2>1, <3>2, LinkIs
    <3> HIDE DEF d
    <3>4. Further(d, c, O, K, i)
      BY <1>1, <3>3, FurtherTrans
    <3> QED
      BY <3>1, <3>3, <3>4
  <2> QED
    BY <2>4, <2>5
<1> QED
  BY <1>3, <1>4

LEMMA MapIs ==
  ASSUME NEW O, NEW K \in SUBSET Inodes, NEW i, NEW c, Copying(c, O, K, i), ReadClear = {},
         NEW bn \in Nat
  PROVE  LET d == map_bn_for_write(c, bn)
         IN  /\ Further(d, c, O, K, i) /\ d.ret \in Int
             /\ ~(d.ret < 0) => bn < TablePlace /\ Mapped(d, bn)
<1>1. map_bn_for_write(c, bn)
        = IF bn >= NDirect + Width THEN Ret(c, -4)
          ELSE IF bn >= NDirect THEN MapIndirect(c, bn - NDirect)
          ELSE IF c.in.direct[bn] # NilBlock THEN Ret(c, c.in.direct[bn])
          ELSE NewDirect(c, bn)
  BY Zenon DEF map_bn_for_write, NewDirect, FS_ENOSPC
<1>2. CASE bn >= NDirect + Width
  <2>1. map_bn_for_write(c, bn) = Ret(c, -4)
    BY <1>1, <1>2
  <2>2. -4 \in Int /\ -4 < 0
    OBVIOUS
  <2> QED
    BY <2>1, <2>2, CopyRet
<1>3. CASE bn >= NDirect /\ ~(bn >= NDirect + Width)
  <2>1. map_bn_for_write(c, bn) = MapIndirect(c, bn - NDirect)
    BY <1>1, <1>3
  <2>2. bn - NDirect \in 0 .. Width - 1 /\ bn < TablePlace /\ NDirect + (bn - NDirect) = bn
    BY <1>3, Geometry DEF TablePlace
  <2> DEFINE idx == bn - NDirect
  <2> HIDE DEF idx
  <2>3. idx \in 0 .. Width - 1 /\ NDirect + idx = bn /\ map_bn_for_write(c, bn) = MapIndirect(c, idx)
    BY <2>1, <2>2 DEF idx
  <2>4. LET d == MapIndirect(c, idx)
        IN  /\ Further(d, c, O, K, i) /\ d.ret \in Int
            /\ ~(d.ret < 0) => Mapped(d, NDirect + idx)
    BY <2>3, MapIndirectIs
  <2> QED
    BY <2>2, <2>3, <2>4
<1>4. CASE ~(bn >= NDirect)
  <2>1. map_bn_for_write(c, bn) = ensure_dir_block(c, bn)
    <3>1. ensure_dir_block(c, bn)
            = IF c.in.direct[bn] # NilBlock THEN Ret(c, c.in.direct[bn]) ELSE NewDirect(c, bn)
      BY <1>4, Zenon DEF ensure_dir_block, NewDirect
    <3>2. ~(bn >= NDirect + Width)
      BY <1>4, Geometry
    <3> QED
      BY <1>1, <1>4, <3>1, <3>2
  <2>2. LET d == ensure_dir_block(c, bn)
        IN  /\ Further(d, c, O, K, i) /\ d.ret \in Int
            /\ ~(d.ret < 0) => bn < NDirect /\ Mapped(d, bn)
    BY EnsureIs
  <2>3. bn < TablePlace
    BY <1>4, Geometry DEF TablePlace
  <2> QED
    BY <2>1, <2>2, <2>3
<1> QED
  BY <1>2, <1>3, <1>4

-----------------------------------------------------------------------------
(* file.c: writing *)

\* What one turn of the loop writes into the block x.
Over(x, bn, pos, len, v) ==
  [k \in 0 .. Width - 1 |-> IF bn * Width + k \in pos .. pos + len - 1 THEN Data(v) ELSE x[k]]

LEMMA OverContained ==
  ASSUME NEW x \in Contained, NEW bn, NEW pos, NEW len, NEW v \in Texts
  PROVE  Over(x, bn, pos, len, v) \in Contained
<1>1. Data(v) \in Cells
  BY DEF Cells
<1> HIDE DEF Data
<1> QED
  BY <1>1 DEF Over, Contained

LEMMA OverNameless ==
  ASSUME NEW x, Nameless(x), NEW bn, NEW pos, NEW len, NEW v
  PROVE  Nameless(Over(x, bn, pos, len, v))
<1>1. Data(v).kind # "entry"
  BY DEF Data
<1> QED
  BY <1>1 DEF Nameless, Over

LEMMA WriteBlockIs ==
  ASSUME NEW O, NEW K \in SUBSET Inodes, NEW i, NEW c, Copying(c, O, K, i), ReadClear = {},
         NEW bn \in Nat, NEW pos, NEW len, NEW v \in Texts
  PROVE  LET d == WriteBlock(c, bn, pos, len, v)
         IN  /\ Further(d, c, O, K, i) /\ d.ret \in Int
             /\ ~(d.ret < 0) => ~(c.ret < 0) /\ bn < TablePlace
                                /\ Ptr(Cur(d).block, d.in, bn) # NilBlock
<1> DEFINE m == map_bn_for_write(c, bn)
           x == Over(Cur(m).block[m.ret], bn, pos, len, v)
           new == PutBlock(Cur(m), m.ret, x)
           d == DevWrite(m, new)
<1>0. c.ret \in Int
  BY DEF Copying, Copies
<1>1. /\ Further(m, c, O, K, i) /\ m.ret \in Int
      /\ ~(m.ret < 0) => bn < TablePlace /\ Mapped(m, bn)
  BY MapIs
<1>2. WriteBlock(c, bn, pos, len, v)
        = IF c.ret < 0 THEN c
          ELSE IF m.ret < 0 THEN m ELSE IF m.ret \in Blocks THEN d ELSE Ret(m, FS_ERR)
  BY Zenon DEF WriteBlock, IfOk, PutBlock, Over
<1>3. CASE c.ret < 0
  BY <1>0, <1>2, <1>3, FurtherSelf
<1> HIDE DEF m
<1>4. CASE ~(c.ret < 0) /\ m.ret < 0
  BY <1>1, <1>2, <1>4
<1>5. CASE ~(c.ret < 0) /\ ~(m.ret < 0)
  <2>1. /\ bn < TablePlace /\ m.ret = Ptr(Cur(m).block, m.in, bn) /\ m.ret # NilBlock
        /\ m \in Copies(Safe(O, K)) /\ Holds(O, K, i, Cur(m), m.in)
    BY <1>1, <1>5 DEF Mapped, Further, Copying
  <2>2. bn \in Places /\ bn # TablePlace
    BY <2>1, Geometry DEF Places, TablePlace
  <2>3. m.ret \in Blocks /\ Cur(m).block \in [Blocks -> Contained]
    BY <2>1, <2>2, HoldsIs, Ranges DEF Ptrs
  <2>4. WriteBlock(c, bn, pos, len, v) = d
    BY <1>2, <1>5, <2>3
  <2>5. x \in Contained
    BY <2>3, OverContained
  <2>12. MayHold(m.in, x)
    <3>1. Full(Cur(m).block, m.in)
      BY <2>1 DEF Holds
    <3>2. m.in.type = "reg" => Nameless(Cur(m).block[m.ret])
      BY <2>1, <2>2, <3>1 DEF Full
    <3> QED
      BY <3>2, OverNameless DEF MayHold
  <2> HIDE DEF x
  <2>6. /\ Holds(O, K, i, new, m.in) /\ SameBits(new, Cur(m))
        /\ \A n \in Places : Ptr(new.block, m.in, n) = Ptr(Cur(m).block, m.in, n)
    BY <2>1, <2>2, <2>5, <2>12, HoldsWrite
  <2> HIDE DEF new
  <2>7. new \in Safe(O, K)
    BY <2>6 DEF Holds
  <2>8. d \in Copies(Safe(O, K)) /\ d.in = m.in /\ Cur(d) = new /\ d.ret = 0
    BY <2>1, <2>7, DevWriteIn DEF Wrote
  <2> HIDE DEF d
  <2>9. KeepsExact(d, m)
    BY <2>6, <2>8, SameBitsExact DEF KeepsExact
  <2>10. Further(d, m, O, K, i)
    BY <2>6, <2>8, <2>9 DEF Further, Copying, Grows
  <2>11. Further(d, c, O, K, i)
    BY <1>1, <2>10, FurtherTrans
  <2> QED
    BY <1>5, <2>1, <2>2, <2>4, <2>6, <2>8, <2>11
<1> QED
  BY <1>3, <1>4, <1>5

-----------------------------------------------------------------------------
(* Loops.  The folds of the model in one: Turn is one turn of each loop.    *)

Walk(im) == [kind |-> "namei", im |-> im]
Freeing == [kind |-> "truncate"]
Writing(pos, len, v) == [kind |-> "write", pos |-> pos, len |-> len, v |-> v]
Copy(ino, len, v, uid) == [kind |-> "copy", ino |-> ino, len |-> len, v |-> v, uid |-> uid]

Turn(loop, s, x) ==
  CASE loop.kind = "namei" -> IF s.ret # FS_OK THEN s ELSE dir_lookup(loop.im, s.ino, Stem[x])
    [] loop.kind = "truncate" -> free_block(s, x)
    [] loop.kind = "write" -> WriteBlock(s, x, loop.pos, loop.len, loop.v)
    [] loop.kind = "copy" ->
         IF s.ret < 0 THEN s
         ELSE fs_write(s, loop.ino, x * Width, Min({Width, loop.len - x * Width}),
                       loop.v, loop.uid)

LEMMA Turns ==
  /\ \A im, s, x : Turn(Walk(im), s, x)
       = IF s.ret # FS_OK THEN s ELSE dir_lookup(im, s.ino, Stem[x])
  /\ \A s, x : Turn(Freeing, s, x) = free_block(s, x)
  /\ \A pos, len, v, s, x : Turn(Writing(pos, len, v), s, x) = WriteBlock(s, x, pos, len, v)
  /\ \A ino, len, v, uid, s, x : Turn(Copy(ino, len, v, uid), s, x)
       = IF s.ret < 0 THEN s
         ELSE fs_write(s, ino, x * Width, Min({Width, len - x * Width}), v, uid)
BY DEF Turn, Walk, Freeing, Writing, Copy

\* g is the recursive function by which FoldLeft runs the loop over the elements
\* of seq at the positions in s, for the s of S.
RunOn(S, loop, base, seq, g) ==
  g = [s \in S |-> IF s = {} THEN base ELSE Turn(loop, g[s \ {Max(s)}], seq[Max(s)])]

LEMMA RunExists ==
  ASSUME NEW D, D \subseteq Nat, IsFiniteSet(D), NEW loop, NEW base, NEW seq
  PROVE  \E g : RunOn(SUBSET D, loop, base, seq, g)
<1> DEFINE Upto(n) == {s \in SUBSET D : Cardinality(s) <= n}
           T == {n \in Nat : \A g : ~RunOn(Upto(n), loop, base, seq, g)}
<1>1. \A s \in SUBSET D : IsFiniteSet(s) /\ Cardinality(s) \in Nat
  BY FS_Subset, FS_CardinalityType
<1>2. ASSUME NEW s \in SUBSET D, s # {}
      PROVE  /\ Max(s) \in s /\ s \ {Max(s)} \in SUBSET D
             /\ Cardinality(s \ {Max(s)}) = Cardinality(s) - 1
             /\ Cardinality(s) # 0
  <2>1. Max(s) \in s
    BY <1>1, <1>2, MaxProperty
  <2> QED
    BY <1>1, <1>2, <2>1, FS_RemoveElement, FS_EmptySet
<1>3. ASSUME T # {} PROVE FALSE
  <2>1. PICK n \in T : \A k \in T : n <= k
    BY <1>3, LeastElement
  <2>2. n # 0
    <3>1. \A s \in Upto(0) : s = {}
      BY <1>1, FS_EmptySet
    <3>2. RunOn(Upto(0), loop, base, seq, [s \in Upto(0) |-> base])
      BY <3>1 DEF RunOn
    <3> QED
      BY <3>2, <2>1
  <2>3. n - 1 \in Nat /\ n - 1 \notin T
    <3>1. n - 1 \in Nat /\ ~(n <= n - 1)
      BY <2>1, <2>2
    <3> QED
      BY <2>1, <3>1, Zenon
  <2>4. PICK g : RunOn(Upto(n - 1), loop, base, seq, g)
    BY <2>3
  <2> DEFINE h == [s \in Upto(n) |-> IF s = {} THEN base
                                     ELSE Turn(loop, g[s \ {Max(s)}], seq[Max(s)])]
  <2>5. ASSUME NEW s \in Upto(n - 1) PROVE s \in Upto(n) /\ h[s] = g[s]
    <3>1. s \in SUBSET D /\ Cardinality(s) \in Nat /\ Cardinality(s) <= n - 1 /\ n \in Nat
      BY <1>1, <2>1
    <3>2. s \in Upto(n)
      BY <3>1
    <3> QED
      BY <2>4, <3>2 DEF RunOn
  <2>6. \A s \in Upto(n) : s # {} => s \ {Max(s)} \in Upto(n - 1)
    BY <1>1, <1>2, <2>3
  <2>7. RunOn(Upto(n), loop, base, seq, h)
    BY <2>5, <2>6 DEF RunOn
  <2> QED
    BY <2>7, <2>1
<1>4. Cardinality(D) \in Nat /\ Cardinality(D) \notin T
  BY <1>1, <1>3
<1>5. \A s \in SUBSET D : Cardinality(s) <= Cardinality(D)
  BY FS_Subset
<1>6. Upto(Cardinality(D)) = SUBSET D
  BY <1>5
<1> QED
  BY <1>4, <1>6

LEMMA MaxOfFirst ==
  ASSUME NEW k \in Nat \ {0}
  PROVE  Max(1 .. k) = k /\ (1 .. k) \ {k} = 1 .. k - 1 /\ 1 .. k # {}
<1>1. IsFiniteSet(1 .. k) /\ 1 .. k \subseteq Nat /\ k \in 1 .. k
  BY FS_Interval
<1>2. Max(1 .. k) \in 1 .. k /\ Max(1 .. k) >= k
  BY <1>1, MaxProperty
<1> QED
  BY <1>2

RunAt(S, loop, base, seq, g) ==
  \A s \in S : g[s] = IF s = {} THEN base ELSE Turn(loop, g[s \ {Max(s)}], seq[Max(s)])

\* The states a loop over seq goes through: h[k] after k turns.
Through(h, loop, base, seq, end) ==
  /\ h[0] = base
  /\ \A k \in 1 .. Len(seq) : h[k] = Turn(loop, h[k - 1], seq[k])
  /\ end = h[Len(seq)]

LEMMA RunSteps ==
  ASSUME NEW E, NEW seq \in Seq(E), NEW loop, NEW base, NEW g,
         RunAt(SUBSET DOMAIN seq, loop, base, seq, g)
  PROVE  \E h : Through(h, loop, base, seq, g[DOMAIN seq])
<1> DEFINE D == DOMAIN seq
           n == Len(seq)
<1>1. D = 1 .. n /\ n \in Nat
  OBVIOUS
<1> HIDE DEF D, n
<1>3. RunAt(SUBSET D, loop, base, seq, g)
  BY DEF D
<1> DEFINE h == [k \in 0 .. n |-> g[1 .. k]]
<1>4. h[0] = base
  <2>1. 1 .. 0 = {} /\ {} \in SUBSET D /\ 0 \in 0 .. n
    BY <1>1
  <2> QED
    BY <1>3, <2>1 DEF RunAt
<1>5. ASSUME NEW k \in 1 .. n PROVE h[k] = Turn(loop, h[k - 1], seq[k])
  <2>1. k \in Nat \ {0} /\ k \in 0 .. n /\ k - 1 \in 0 .. n /\ 1 .. k \in SUBSET D
    BY <1>1
  <2>2. Max(1 .. k) = k /\ (1 .. k) \ {k} = 1 .. k - 1 /\ 1 .. k # {}
    BY <2>1, MaxOfFirst
  <2>3. g[1 .. k] = Turn(loop, g[1 .. k - 1], seq[k])
    BY <1>3, <2>1, <2>2 DEF RunAt
  <2> QED
    BY <2>1, <2>3
<1>6. g[D] = h[n]
  BY <1>1
<1>7. Through(h, loop, base, seq, g[D])
  BY <1>4, <1>5, <1>6 DEF Through, n
<1> QED
  BY <1>7 DEF D

LEMMA SeqRuns ==
  ASSUME NEW E, NEW seq \in Seq(E), NEW loop, NEW base
  PROVE  \E g : RunOn(SUBSET DOMAIN seq, loop, base, seq, g)
<1>1. DOMAIN seq = 1 .. Len(seq) /\ Len(seq) \in Nat
  OBVIOUS
<1>2. DOMAIN seq \subseteq Nat /\ IsFiniteSet(DOMAIN seq)
  BY <1>1, FS_Interval
<1> QED
  BY <1>2, RunExists

\* What holds at the start and is kept by every turn holds at the end.
LEMMA EveryStep ==
  ASSUME NEW n \in Nat, NEW T, 0 \in T, \A k \in 1 .. n : k - 1 \in T => k \in T
  PROVE  \A k \in 0 .. n : k \in T
<1> DEFINE B == {k \in 0 .. n : k \notin T}
<1>1. ASSUME B # {} PROVE FALSE
  <2>1. B \subseteq Nat
    OBVIOUS
  <2>2. PICK m \in B : \A k \in B : m <= k
    BY <1>1, <2>1, LeastElement
  <2>3. m \in 1 .. n /\ m \notin T /\ m - 1 \in 0 .. n /\ ~(m <= m - 1)
    BY <2>2
  <2>4. m - 1 \notin B
    BY <2>2, <2>3, Zenon
  <2> QED
    BY <2>3, <2>4
<1> QED
  BY <1>1

-----------------------------------------------------------------------------
(* The loops of the model are loops of Turn. *)

LEMMA NameiSteps ==
  ASSUME NEW im, NEW E, NEW path \in Seq(E)
  PROVE  \E h : Through(h, Walk(im), [ret |-> FS_OK, ino |-> RootIno], path, namei(im, path))
<1> DEFINE base == [ret |-> FS_OK, ino |-> RootIno]
           Body(s, x) == IF s.ret # FS_OK THEN s ELSE dir_lookup(im, s.ino, Stem[x])
           Is(g) == g = [s \in SUBSET DOMAIN path |-> IF s = {} THEN base
                           ELSE Body(g[s \ {Max(s)}], path[Max(s)])]
<1>1. PICK g : RunOn(SUBSET DOMAIN path, Walk(im), base, path, g)
  BY SeqRuns
<1>2. \A s, x : Turn(Walk(im), s, x) = Body(s, x)
  BY Turns
<1>3. Is(g)
  BY <1>1, <1>2 DEF RunOn
<1>4. PICK f : Is(f) /\ namei(im, path) = f[DOMAIN path]
  BY <1>3, Zenon DEF namei, FoldLeft, MapThenFoldSet
<1>5. RunAt(SUBSET DOMAIN path, Walk(im), base, path, f)
  <2> DEFINE S == SUBSET DOMAIN path
  <2>1. Is(f) /\ S = SUBSET DOMAIN path
    BY <1>4
  <2> HIDE DEF S
  <2>2. \A s \in S : f[s] = IF s = {} THEN base ELSE Body(f[s \ {Max(s)}], path[Max(s)])
    BY <2>1
  <2> HIDE DEF Is
  <2> SUFFICES ASSUME NEW s \in S
               PROVE  f[s] = IF s = {} THEN base ELSE Turn(Walk(im), f[s \ {Max(s)}], path[Max(s)])
    BY <2>1, Zenon DEF RunAt
  <2>3. CASE s = {}
    BY <2>2, <2>3
  <2>4. CASE s # {}
    <3>1. f[s] = Body(f[s \ {Max(s)}], path[Max(s)])
      BY <2>2, <2>4
    <3> QED
      BY <1>2, <2>4, <3>1, Zenon
  <2> QED
    BY <2>3, <2>4
<1>6. namei(im, path) = f[DOMAIN path]
  BY <1>4
<1> HIDE DEF base, Body, Is
<1>7. \E h : Through(h, Walk(im), base, path, f[DOMAIN path])
  BY <1>5, RunSteps
<1> QED
  BY <1>6, <1>7 DEF base

FreeAll(c, listed) == FoldLeft(free_block, c, listed)

LEMMA FreeAllSteps ==
  ASSUME NEW c, NEW E, NEW listed \in Seq(E)
  PROVE  \E h : Through(h, Freeing, c, listed, FreeAll(c, listed))
<1> DEFINE Is(g) == g = [s \in SUBSET DOMAIN listed |-> IF s = {} THEN c
                           ELSE free_block(g[s \ {Max(s)}], listed[Max(s)])]
<1>1. PICK g : RunOn(SUBSET DOMAIN listed, Freeing, c, listed, g)
  BY SeqRuns
<1>2. \A s, x : Turn(Freeing, s, x) = free_block(s, x)
  BY Turns
<1>3. Is(g)
  BY <1>1, <1>2 DEF RunOn
<1>4. PICK f : Is(f) /\ FreeAll(c, listed) = f[DOMAIN listed]
  BY <1>3, Zenon DEF FreeAll, FoldLeft, MapThenFoldSet
<1>5. RunAt(SUBSET DOMAIN listed, Freeing, c, listed, f)
  <2> DEFINE S == SUBSET DOMAIN listed
  <2>1. Is(f) /\ S = SUBSET DOMAIN listed
    BY <1>4
  <2> HIDE DEF S
  <2>2. \A s \in S : f[s] = IF s = {} THEN c ELSE free_block(f[s \ {Max(s)}], listed[Max(s)])
    BY <2>1
  <2> HIDE DEF Is
  <2> SUFFICES ASSUME NEW s \in S
               PROVE  f[s] = IF s = {} THEN c ELSE Turn(Freeing, f[s \ {Max(s)}], listed[Max(s)])
    BY <2>1, Zenon DEF RunAt
  <2>3. CASE s = {}
    BY <2>2, <2>3
  <2>4. CASE s # {}
    <3>1. f[s] = free_block(f[s \ {Max(s)}], listed[Max(s)])
      BY <2>2, <2>4
    <3> QED
      BY <1>2, <2>4, <3>1, Zenon
  <2> QED
    BY <2>3, <2>4
<1>6. FreeAll(c, listed) = f[DOMAIN listed]
  BY <1>4
<1> HIDE DEF Is
<1>7. \E h : Through(h, Freeing, c, listed, f[DOMAIN listed])
  BY <1>5, RunSteps
<1> QED
  BY <1>6, <1>7

WriteAll(c, blocks, pos, len, v) ==
  FoldLeft(LAMBDA s, bn : WriteBlock(s, bn, pos, len, v), c, blocks)

LEMMA WriteAllSteps ==
  ASSUME NEW c, NEW E, NEW blocks \in Seq(E), NEW pos, NEW len, NEW v
  PROVE  \E h : Through(h, Writing(pos, len, v), c, blocks, WriteAll(c, blocks, pos, len, v))
<1> DEFINE Is(g) == g = [s \in SUBSET DOMAIN blocks |-> IF s = {} THEN c
                           ELSE WriteBlock(g[s \ {Max(s)}], blocks[Max(s)], pos, len, v)]
           loop == Writing(pos, len, v)
<1>1. PICK g : RunOn(SUBSET DOMAIN blocks, loop, c, blocks, g)
  BY SeqRuns
<1>2. \A s, x : Turn(loop, s, x) = WriteBlock(s, x, pos, len, v)
  BY Turns
<1> HIDE DEF loop
<1>3. Is(g)
  BY <1>1, <1>2 DEF RunOn
<1>4. PICK f : Is(f) /\ WriteAll(c, blocks, pos, len, v) = f[DOMAIN blocks]
  BY <1>3, Zenon DEF WriteAll, FoldLeft, MapThenFoldSet
<1>5. RunAt(SUBSET DOMAIN blocks, loop, c, blocks, f)
  <2> DEFINE S == SUBSET DOMAIN blocks
  <2>1. Is(f) /\ S = SUBSET DOMAIN blocks
    BY <1>4
  <2> HIDE DEF S
  <2>2. \A s \in S : f[s] = IF s = {} THEN c
                           ELSE WriteBlock(f[s \ {Max(s)}], blocks[Max(s)], pos, len, v)
    BY <2>1
  <2> HIDE DEF Is
  <2> SUFFICES ASSUME NEW s \in S
               PROVE  f[s] = IF s = {} THEN c ELSE Turn(loop, f[s \ {Max(s)}], blocks[Max(s)])
    BY <2>1, Zenon DEF RunAt
  <2>3. CASE s = {}
    BY <2>2, <2>3
  <2>4. CASE s # {}
    <3>1. f[s] = WriteBlock(f[s \ {Max(s)}], blocks[Max(s)], pos, len, v)
      BY <2>2, <2>4
    <3> QED
      BY <1>2, <2>4, <3>1, Zenon
  <2> QED
    BY <2>3, <2>4
<1>6. WriteAll(c, blocks, pos, len, v) = f[DOMAIN blocks]
  BY <1>4
<1> HIDE DEF Is
<1>7. \E h : Through(h, loop, c, blocks, f[DOMAIN blocks])
  BY <1>5, RunSteps
<1> QED
  BY <1>6, <1>7 DEF loop

CopyAll(fd, chunks, ino, len, v, uid) ==
  FoldLeft(LAMBDA s, n : IF s.ret < 0 THEN s
                         ELSE fs_write(s, ino, n * Width, Min({Width, len - n * Width}), v, uid),
           fd, chunks)

LEMMA CopyAllSteps ==
  ASSUME NEW fd, NEW E, NEW chunks \in Seq(E), NEW ino, NEW len, NEW v, NEW uid
  PROVE  \E h : Through(h, Copy(ino, len, v, uid), fd, chunks,
                        CopyAll(fd, chunks, ino, len, v, uid))
<1> DEFINE Body(s, n) == IF s.ret < 0 THEN s
                         ELSE fs_write(s, ino, n * Width, Min({Width, len - n * Width}), v, uid)
           Is(g) == g = [s \in SUBSET DOMAIN chunks |-> IF s = {} THEN fd
                           ELSE Body(g[s \ {Max(s)}], chunks[Max(s)])]
           loop == Copy(ino, len, v, uid)
<1>1. PICK g : RunOn(SUBSET DOMAIN chunks, loop, fd, chunks, g)
  BY SeqRuns
<1>2. \A s, x : Turn(loop, s, x) = Body(s, x)
  BY Turns
<1> HIDE DEF loop
<1>3. Is(g)
  BY <1>1, <1>2 DEF RunOn
<1>4. PICK f : Is(f) /\ CopyAll(fd, chunks, ino, len, v, uid) = f[DOMAIN chunks]
  BY <1>3, Zenon DEF CopyAll, FoldLeft, MapThenFoldSet
<1>5. RunAt(SUBSET DOMAIN chunks, loop, fd, chunks, f)
  <2> DEFINE S == SUBSET DOMAIN chunks
  <2>1. Is(f) /\ S = SUBSET DOMAIN chunks
    BY <1>4
  <2> HIDE DEF S
  <2>2. \A s \in S : f[s] = IF s = {} THEN fd ELSE Body(f[s \ {Max(s)}], chunks[Max(s)])
    BY <2>1
  <2> HIDE DEF Is
  <2> SUFFICES ASSUME NEW s \in S
               PROVE  f[s] = IF s = {} THEN fd ELSE Turn(loop, f[s \ {Max(s)}], chunks[Max(s)])
    BY <2>1, Zenon DEF RunAt
  <2>3. CASE s = {}
    BY <2>2, <2>3
  <2>4. CASE s # {}
    <3>1. f[s] = Body(f[s \ {Max(s)}], chunks[Max(s)])
      BY <2>2, <2>4
    <3> QED
      BY <1>2, <2>4, <3>1, Zenon
  <2> QED
    BY <2>3, <2>4
<1>6. CopyAll(fd, chunks, ino, len, v, uid) = f[DOMAIN chunks]
  BY <1>4
<1> HIDE DEF Body, Is
<1>7. \E h : Through(h, loop, fd, chunks, f[DOMAIN chunks])
  BY <1>5, RunSteps
<1> QED
  BY <1>6, <1>7 DEF loop

-----------------------------------------------------------------------------
(* dir.c: looking names up *)

LEMMA Divided ==
  ASSUME NEW k \in Nat
  PROVE  /\ k \div Width \in Nat /\ k % Width \in 0 .. Width - 1
         /\ k = Width * (k \div Width) + (k % Width)
BY Geometry

LEMMA SlotIs ==
  ASSUME NEW im \in Images, NEW in \in InodeSet, NEW k \in Slots(in)
  PROVE  /\ k \in Nat /\ k < in.size /\ k \div Width \in 0 .. NDirect - 1
         /\ k % Width \in 0 .. Width - 1
         /\ in.direct[k \div Width] \in Blocks
         /\ in.direct[k \div Width] = Ptr(im.block, in, k \div Width)
         /\ SlotCell(im, in, k) \in Cells
<1>1. /\ in.size \in Nat /\ in.direct \in [0 .. NDirect - 1 -> Ptrs]
      /\ im.block \in [Blocks -> Contained]
  BY FieldsIn, Geometry DEF InodeSet, Capacity
<1>2. k \in 0 .. in.size - 1 /\ k \div Width < NDirect /\ in.direct[k \div Width] # NilBlock
  BY DEF Slots
<1>3. k \in Nat /\ k < in.size
  BY <1>1, <1>2
<1>4. k \div Width \in 0 .. NDirect - 1 /\ k % Width \in 0 .. Width - 1
  BY <1>2, <1>3, Divided, Geometry
<1>5. in.direct[k \div Width] \in Blocks
  BY <1>1, <1>2, <1>4, Ranges DEF Ptrs
<1> QED
  BY <1>1, <1>2, <1>3, <1>4, <1>5 DEF SlotCell, Contained, Ptr

LEMMA EntryCell ==
  ASSUME NEW cell \in Cells, cell.kind = "entry"
  PROVE  cell.ino \in Inodes /\ cell.ftype \in {"reg", "dir"} /\ \E n \in Spelled : cell.name = Stem[n]
BY DEF Cells, Zero, Pointer, Data, Entry

LEMMA LookupIs ==
  ASSUME NEW im \in Images, NEW dir \in Inodes, NEW name
  PROVE  LET r == dir_lookup(im, dir, name)
         IN  r.ret \in Int /\ r.ret <= 0 /\ (r.ret = FS_OK => r.ino \in Inodes)
<1> DEFINE in == im.inode[dir]
           found == Matches(im, dir, name)
<1>1. in \in InodeSet
  BY FieldsIn
<1>2. found \subseteq Slots(in) /\ \A k \in found : SlotCell(im, in, k).kind = "entry"
  BY Zenon DEF Matches
<1>3. CASE im.inode[dir].type # "dir" \/ found = {}
  BY <1>3 DEF dir_lookup, FS_ENOTDIR, FS_ENOENT, FS_OK
<1>4. CASE ~(im.inode[dir].type # "dir" \/ found = {})
  <2> DEFINE k == Min(found)
  <2>1. found \subseteq Nat
    BY <1>1, <1>2, SlotIs
  <2>2. k \in found
    BY <1>4, <2>1, MinProperty
  <2>3. dir_lookup(im, dir, name) = [ret |-> 0, ino |-> SlotCell(im, in, k).ino]
    BY <1>4 DEF dir_lookup, FS_OK
  <2> HIDE DEF k
  <2>4. SlotCell(im, in, k) \in Cells /\ SlotCell(im, in, k).kind = "entry"
    BY <1>1, <1>2, <2>2, SlotIs
  <2>5. SlotCell(im, in, k).ino \in Inodes
    BY <2>4, EntryCell
  <2> QED
    BY <2>3, <2>5
<1> QED
  BY <1>3, <1>4

LEMMA NameiIs ==
  ASSUME NEW im \in Images, NEW E, NEW path \in Seq(E)
  PROVE  namei(im, path).ret \in Int /\ namei(im, path).ret <= 0
         /\ (namei(im, path).ret = FS_OK => namei(im, path).ino \in Inodes)
<1>1. PICK h : Through(h, Walk(im), [ret |-> FS_OK, ino |-> RootIno], path, namei(im, path))
  BY NameiSteps
<1> DEFINE n == Len(path)
           T == {k \in 0 .. n : h[k].ret \in Int /\ h[k].ret <= 0 /\ (h[k].ret = FS_OK => h[k].ino \in Inodes)}
<1>2. n \in Nat
  OBVIOUS
<1>3. /\ h[0] = [ret |-> FS_OK, ino |-> RootIno] /\ namei(im, path) = h[n]
      /\ \A k \in 1 .. n : h[k] = Turn(Walk(im), h[k - 1], path[k])
  BY <1>1 DEF Through
<1> HIDE DEF n
<1>4. 0 \in T
  BY <1>2, <1>3, Ranges DEF FS_OK
<1>5. ASSUME NEW k \in 1 .. n, k - 1 \in T PROVE k \in T
  <2>1. k \in 0 .. n
    BY <1>2
  <2> DEFINE s == h[k - 1]
             r == dir_lookup(im, s.ino, Stem[path[k]])
  <2>2. h[k] = IF s.ret # FS_OK THEN s ELSE r
    BY <1>3, Turns
  <2>3. s.ret \in Int /\ s.ret <= 0 /\ (s.ret = FS_OK => s.ino \in Inodes)
    BY <1>5
  <2>4. s.ret = FS_OK => r.ret \in Int /\ r.ret <= 0 /\ (r.ret = FS_OK => r.ino \in Inodes)
    BY <2>3, LookupIs
  <2> QED
    BY <2>1, <2>2, <2>3, <2>4
<1>6. \A k \in 0 .. n : k \in T
  <2> HIDE DEF T
  <2> QED
    BY <1>2, <1>4, <1>5, EveryStep
<1> QED
  BY <1>2, <1>3, <1>6

-----------------------------------------------------------------------------
(* Inodes written on the disk *)

\* d is c some writes later, all images of it in Safe(o, K).
Adds(d, c, O, K) == d \in Contexts(Safe(O, K)) /\ KeepsExact(d, c)

LEMMA AddsTrans ==
  ASSUME NEW O, NEW K, NEW c, NEW d, NEW e, Adds(d, c, O, K), Adds(e, d, O, K)
  PROVE  Adds(e, c, O, K)
BY DEF Adds, KeepsExact

LEMMA AddsRet ==
  ASSUME NEW O, NEW K, NEW c \in Contexts(Safe(O, K)), NEW r \in Int
  PROVE  /\ Adds(Ret(c, r), c, O, K) /\ Ret(c, r).ret = r /\ Cur(Ret(c, r)) = Cur(c)
BY RetIn DEF Adds, KeepsExact

LEMMA AddsRetOf ==
  ASSUME NEW O, NEW K, NEW c, NEW d, Adds(d, c, O, K), NEW r \in Int
  PROVE  /\ Adds(Ret(d, r), c, O, K) /\ Ret(d, r).ret = r /\ Cur(Ret(d, r)) = Cur(d)
BY AddsRet, AddsTrans DEF Adds

LEMMA AddsIn ==
  ASSUME NEW O, NEW K, NEW c, NEW d, Adds(d, c, O, K)
  PROVE  d \in Contexts(Safe(O, K)) /\ d.ret \in Int /\ Cur(d) \in Safe(O, K) /\ Cur(d) \in Images
BY CurIn, SafeIs DEF Adds, Contexts

\* An image with the bits and counters of the last one is written.
LEMMA AddsWrite ==
  ASSUME NEW O, NEW K, NEW c \in Contexts(Safe(O, K)), NEW im \in Safe(O, K),
         SameBits(im, Cur(c))
  PROVE  LET d == DevWrite(c, im)
         IN  Adds(d, c, O, K) /\ Cur(d) = im /\ d.ret = 0
<1> DEFINE d == DevWrite(c, im)
<1>1. d \in Contexts(Safe(O, K)) /\ Cur(d) = im /\ d.ret = 0
  BY DevWriteIn DEF Wrote
<1> HIDE DEF d
<1>2. KeepsExact(d, c)
  BY <1>1, SameBitsExact DEF KeepsExact
<1> QED
  BY <1>1, <1>2 DEF Adds, d

Empty(in) == in.indirect = NilBlock /\ \A n \in 0 .. NDirect - 1 : in.direct[n] = NilBlock

LEMMA EmptyPtr ==
  ASSUME NEW block, NEW in, Empty(in)
  PROVE  TableOf(block, in) /\ \A n \in Places : Ptr(block, in, n) = NilBlock
BY Geometry DEF Empty, TableOf, Ptr, Places

\* The inode i gives up its blocks.
LEMMA DropInode ==
  ASSUME NEW bmap, NEW block, NEW inode \in [Inodes -> InodeSet], NEW i \in Inodes,
         Apart(block, inode), \A j \in Inodes : TableOf(block, inode[j]),
         \A j \in Inodes, n \in Places : j # i => Ptr(block, inode[j], n) \in bmap \cup {NilBlock},
         NEW in2 \in InodeSet, Empty(in2)
  PROVE  Owns(bmap, block, Put(inode, i, in2))
<1> DEFINE new == Put(inode, i, in2)
<1>1. /\ new[i] = in2 /\ \A j \in Inodes : j # i => new[j] = inode[j]
  BY PutInodesIs
<1> HIDE DEF new
<1>2. \A n \in Places : Ptr(block, new[i], n) = NilBlock
  BY <1>1, EmptyPtr
<1>3. \A j \in Inodes : TableOf(block, new[j])
  BY <1>1, EmptyPtr
<1>4. Apart(block, new)
  BY <1>1, <1>2 DEF Apart
<1>5. Marked(bmap, block, new)
  BY <1>1, <1>2 DEF Marked
<1> QED
  BY <1>3, <1>4, <1>5 DEF Owns, new

LEMMA EmptyWritten ==
  ASSUME NEW O, NEW K \in SUBSET Inodes, NEW im \in Safe(O, K), NEW i \in Inodes \ K,
         NEW in2 \in InodeSet, Empty(in2), in2.size = 0
  PROVE  LET new == PutInode(im, i, in2)
         IN  /\ new \in Safe(O, K) /\ SameBits(new, im) /\ new.inode = Put(im.inode, i, in2)
             /\ new.block = im.block
<1> DEFINE next == Put(im.inode, i, in2)
           new == PutInode(im, i, in2)
<1>1. /\ im \in Images /\ im.inode \in [Inodes -> InodeSet] /\ Untouched(O, im, K)
      /\ Owns(im.bmap, im.block, im.inode)
      /\ \A j \in Inodes : Full(im.block, im.inode[j])
  BY SafeIs
<1>2. new \in Images /\ new.inode = next /\ new.block = im.block /\ SameBits(new, im)
  BY <1>1, PutInodeIs
<1>3. next[i] = in2 /\ \A j \in Inodes : j # i => next[j] = im.inode[j]
  BY <1>1, PutInodesIs
<1>4. Owns(im.bmap, im.block, next)
  BY <1>1, DropInode DEF Owns, Marked
<1> HIDE DEF next, new
<1>5. Full(im.block, in2)
  <2>1. \A n \in Places : ~(n * Width < 0)
    BY Geometry DEF Places
  <2> QED
    BY <2>1, EmptyPtr DEF Full
<1>6. \A j \in Inodes : Full(im.block, next[j])
  BY <1>1, <1>3, <1>5
<1>7. Untouched(O, new, K)
  <2>1. AsIn(im, new, K)
    BY <1>1, <1>2, <1>3 DEF AsIn, SameBits
  <2> QED
    BY <1>1, <2>1, StillUntouched
<1> QED
  BY <1>2, <1>4, <1>6, <1>7 DEF Safe, Good, SameBits, new, next

\* An inode without blocks.
Fresh(type, uid, mode) == [NoInode EXCEPT !.type = type, !.uid = uid, !.mode = mode]

LEMMA FreshIs ==
  ASSUME NEW type \in {"none", "reg", "dir"}, NEW uid \in Uids \cup {0}, NEW mode \in Modes
  PROVE  LET in == Fresh(type, uid, mode)
         IN  in \in InodeSet /\ Empty(in) /\ in.size = 0 /\ in.type = type
<1> DEFINE S == [type : {"none", "reg", "dir"}, uid : Uids \cup {0}, mode : Modes,
                 size : 0 .. Capacity, blocks : Int,
                 direct : [0 .. NDirect - 1 -> Ptrs], indirect : Ptrs]
           Nothing(in) == Empty(in) /\ in.size = 0
           a == [NoInode EXCEPT !.type = type]
           b == [a EXCEPT !.uid = uid]
           d == [b EXCEPT !.mode = mode]
<1>1. {} \in Modes /\ NilBlock \in Ptrs /\ 0 \in 0 .. Capacity /\ "none" \in {"none", "reg", "dir"}
  BY Geometry DEF Modes, Ptrs, Capacity
<1>2. NoInode \in S /\ Nothing(NoInode)
  BY <1>1 DEF NoInode, Empty
<1> HIDE DEF S
<1>3. a \in S /\ Nothing(a) /\ a.type = type
  BY <1>2 DEF S, Empty
<1> HIDE DEF a
<1>4. b \in S /\ Nothing(b) /\ b.type = type
  BY <1>3 DEF S, Empty
<1> HIDE DEF b
<1>5. d \in S /\ Nothing(d) /\ d.type = type
  BY <1>4 DEF S, Empty
<1>6. Fresh(type, uid, mode) = d
  BY Zenon DEF Fresh, a, b
<1> HIDE DEF d
<1> QED
  BY <1>5, <1>6 DEF S, InodeSet

LEMMA NewInodeIs ==
  ASSUME NEW type \in {"none", "reg", "dir"}, NEW uid \in Uids \cup {0}
  PROVE  LET in == NewInode(type, uid)
         IN  in \in InodeSet /\ Empty(in) /\ in.size = 0 /\ in.type = type
<1>1. NewInode(type, uid) = Fresh(type, uid, DefaultMode)
  BY Zenon DEF NewInode, Fresh
<1>2. DefaultMode \in Modes
  BY DEF Modes
<1> QED
  BY <1>1, <1>2, FreshIs

\* K are files only, as o shows them.
FilesOnly(O, K) ==
  /\ K \subseteq Inodes
  /\ \A o \in O : K \subseteq o.imap /\ \A i \in K : o.inode[i].type = "reg"

LEMMA NotAFile ==
  ASSUME NEW O, NEW K, FilesOnly(O, K), NEW im \in Safe(O, K), NEW i \in Inodes,
         im.inode[i].type = "dir"
  PROVE  i \in Inodes \ K
BY SafeIs DEF FilesOnly, Untouched, AsIn

LEMMA DividedBelow ==
  ASSUME NEW s \in Nat, NEW n \in Nat, s \div Width < n
  PROVE  s < n * Width
<1>1. /\ s \div Width \in Nat /\ s % Width \in 0 .. Width - 1
      /\ s = Width * (s \div Width) + (s % Width) /\ Width \in Nat
  BY Divided, Geometry
<1> DEFINE q == s \div Width
           r == s % Width
<1> HIDE DEF q, r
<1>2. q \in Nat /\ r < Width /\ r \in Nat /\ s = Width * q + r /\ q + 1 <= n
  BY <1>1 DEF q, r
<1>3. Width * (q + 1) <= Width * n /\ Width * n = n * Width
  BY <1>1, <1>2
<1>4. Width * (q + 1) = Width * q + Width
  BY <1>1, <1>2
<1>5. Width * q \in Nat /\ n * Width \in Nat
  BY <1>1, <1>2
<1> QED
  BY <1>1, <1>2, <1>3, <1>4, <1>5

-----------------------------------------------------------------------------
(* dir.c: entering and removing names *)

LEMMA WriteInodeIs ==
  ASSUME NEW O, NEW K, NEW c \in Contexts(Safe(O, K)), NEW i, NEW in,
         PutInode(Cur(c), i, in) \in Safe(O, K), SameBits(PutInode(Cur(c), i, in), Cur(c))
  PROVE  LET d == write_inode(c, i, in)
         IN  Adds(d, c, O, K) /\ Cur(d) = PutInode(Cur(c), i, in) /\ d.ret = 0
<1>1. write_inode(c, i, in) = DevWrite(c, PutInode(Cur(c), i, in))
  BY Zenon DEF write_inode, PutInode
<1> QED
  BY <1>1, AddsWrite

\* The entry is written, then the inode.
Entered(e, dir, k, cell) ==
  write_inode(DevWrite(Returned(e), [Cur(e) EXCEPT !.block[e.ret][k] = cell]),
              dir, [e.in EXCEPT !.size = @ + 1])

LEMMA EnteredIs ==
  ASSUME NEW O, NEW K \in SUBSET Inodes, NEW i, NEW e, Copying(e, O, K, i),
         NEW n \in 0 .. NDirect - 1, Mapped(e, n), e.in.type = "dir",
         e.in.size + 1 \in 0 .. Capacity, NEW k \in 0 .. Width - 1, NEW cell \in Cells
  PROVE  LET d == Entered(e, i, k, cell)
         IN  d \in Contexts(Safe(O, K)) /\ d.ret \in Int /\ KeepsExact(d, e)
<1> DEFINE S == Safe(O, K)
           im == Cur(e)
           b == e.ret
           x == Put(im.block[b], k, cell)
           new == PutBlock(im, b, x)
           r == Returned(e)
           w == DevWrite(r, new)
           in2 == [e.in EXCEPT !.size = e.in.size + 1]
           d == write_inode(w, i, in2)
<1>1. e \in Copies(S) /\ Holds(O, K, i, im, e.in)
  BY DEF Copying
<1>2. n \in Places /\ n # TablePlace
  BY Geometry DEF Places, TablePlace
<1>3. Ptr(im.block, e.in, n) = b /\ b # NilBlock
  BY DEF Mapped
<1>4. Ptr(im.block, e.in, n) \in Ptrs /\ im \in Images
  BY <1>1, <1>2, HoldsIs
<1>5. b \in Blocks
  BY <1>3, <1>4, Ranges DEF Ptrs
<1>6. PutCell(im, b, k, cell) = new /\ x \in Contained
  BY <1>4, <1>5, PutCellIs
<1> HIDE DEF x
<1>7. /\ Holds(O, K, i, new, e.in) /\ SameBits(new, im) /\ new.inode = im.inode
  <2>1. MayHold(e.in, x)
    BY DEF MayHold
  <2> QED
    BY <1>1, <1>2, <1>3, <1>6, <2>1, HoldsWrite
<1> HIDE DEF new
<1>8. new \in S
  BY <1>7 DEF Holds
<1>9. r \in Contexts(S) /\ Cur(r) = im
  BY <1>1, CopyOf DEF Copies
<1> HIDE DEF r
<1>10. Adds(w, r, O, K) /\ Cur(w) = new
  BY <1>7, <1>8, <1>9, AddsWrite
<1> HIDE DEF w
<1>11. in2 \in InodeSet /\ SamePtrs(e.in, in2) /\ in2.type = e.in.type
  BY <1>1, InodeFields DEF Copies
<1> HIDE DEF in2
<1>12. Full(new.block, in2)
  BY <1>11 DEF Full
<1>13. PutInode(new, i, in2) \in S /\ SameBits(PutInode(new, i, in2), new)
  BY <1>7, <1>11, <1>12, HoldsReturn
<1>14. Adds(d, w, O, K)
  BY <1>10, <1>13, AddsIn, WriteInodeIs
<1> HIDE DEF d
<1>15. Adds(d, r, O, K)
  BY <1>10, <1>14, AddsTrans
<1>16. Entered(e, i, k, cell) = write_inode(DevWrite(r, PutCell(im, b, k, cell)), i, in2)
  BY Zenon DEF Entered, PutCell, in2, r
<1>17. Entered(e, i, k, cell) = d
  BY <1>6, <1>16 DEF d, w
<1>18. d \in Contexts(S) /\ d.ret \in Int
  BY <1>15, AddsIn
<1>19. KeepsExact(d, e)
  BY <1>9, <1>15 DEF Adds, KeepsExact
<1> QED
  BY <1>17, <1>18, <1>19

LEMMA DirAddSplits ==
  ASSUME NEW c, NEW dir, NEW name, NEW ftype, NEW child
  PROVE  LET in == Cur(c).inode[dir]
             e == ensure_dir_block(WithInode(c, in), in.size \div Width)
         IN  dir_add(c, dir, name, ftype, child)
               = IF in.type # "dir" THEN Ret(c, FS_ENOTDIR)
                 ELSE IF e.ret < 0 THEN Ret(Returned(e), FS_ENOSPC)
                 ELSE Entered(e, dir, in.size % Width, Entry(Stem[name], child, ftype))
<1> DEFINE in == Cur(c).inode[dir]
           rest == Then(ensure_dir_block(WithInode(c, in), in.size \div Width), LAMBDA e :
             IF e.ret < 0 THEN Ret(Returned(e), FS_ENOSPC)
             ELSE Entered(e, dir, in.size % Width, Entry(Stem[name], child, ftype)))
           e == ensure_dir_block(WithInode(c, in), in.size \div Width)
<1>1. dir_add(c, dir, name, ftype, child) = IF in.type # "dir" THEN Ret(c, FS_ENOTDIR) ELSE rest
  BY Zenon DEF dir_add, Entered
<1> HIDE DEF in
<1>2. rest = IF e.ret < 0 THEN Ret(Returned(e), FS_ENOSPC)
             ELSE Entered(e, dir, in.size % Width, Entry(Stem[name], child, ftype))
  BY Zenon DEF Then
<1> QED
  BY <1>1, <1>2, Zenon DEF in

LEMMA DirAddIs ==
  ASSUME NEW O, NEW K \in SUBSET Inodes, NEW c \in Contexts(Safe(O, K)), FilesOnly(O, K),
         ReadClear = {}, NEW dir \in Inodes, NEW name \in Spelled, NEW ftype \in {"reg", "dir"},
         NEW child \in Inodes
  PROVE  LET d == dir_add(c, dir, name, ftype, child)
         IN  Adds(d, c, O, K) /\ d.ret \in Int
<1> DEFINE in == Cur(c).inode[dir]
           S == Safe(O, K)
           c0 == WithInode(c, in)
           bn == in.size \div Width
           k == in.size % Width
           e == ensure_dir_block(c0, bn)
           cell == Entry(Stem[name], child, ftype)
           d == dir_add(c, dir, name, ftype, child)
<1>1. Cur(c) \in S
  BY CurIn
<1>2. Cur(c).inode \in [Inodes -> InodeSet]
  BY <1>1, SafeIs
<1>3. in \in InodeSet /\ in.size \in Nat
  BY <1>2 DEF InodeSet
<1>4. bn \in Nat /\ k \in 0 .. Width - 1
  BY <1>3, Divided
<1>5. cell \in Cells
  BY DEF Cells
<1>6. CASE in.type # "dir"
  <2>1. d = Ret(c, FS_ENOTDIR)
    BY <1>6, Zenon DEF dir_add
  <2>2. FS_ENOTDIR \in Int
    BY DEF FS_ENOTDIR
  <2> QED
    BY <2>1, <2>2, AddsRet
<1>7. CASE in.type = "dir"
  <2>1. dir \in Inodes \ K
    BY <1>1, <1>7, NotAFile
  <2>2. c0 \in Copies(S) /\ c0.in = in /\ Cur(c0) = Cur(c)
    BY <1>3, CopyOf
  <2>3. Copying(c0, O, K, dir)
    BY <1>1, <2>1, <2>2, HoldsStart DEF Copying
  <2>9. d = IF e.ret < 0 THEN Ret(Returned(e), FS_ENOSPC) ELSE Entered(e, dir, k, cell)
    <3>1. d = IF in.type # "dir" THEN Ret(c, FS_ENOTDIR)
              ELSE IF e.ret < 0 THEN Ret(Returned(e), FS_ENOSPC) ELSE Entered(e, dir, k, cell)
      BY Zenon, DirAddSplits
    <3> HIDE DEF d, e, in
    <3> QED
      BY <1>7, <3>1
  <2> HIDE DEF c0, bn, k, cell
  <2>4. /\ Further(e, c0, O, K, dir) /\ e.ret \in Int
        /\ ~(e.ret < 0) => bn < NDirect /\ Mapped(e, bn)
    BY <1>4, <2>3, EnsureIs
  <2> HIDE DEF e
  <2>5. /\ Copying(e, O, K, dir) /\ KeepsExact(e, c0)
        /\ e.in.size = in.size /\ e.in.type = in.type
    BY <2>2, <2>4 DEF Further
  <2>6. KeepsExact(e, c)
    BY <2>2, <2>5 DEF KeepsExact
  <2>7. CASE e.ret < 0
    <3>1. d = Ret(Returned(e), FS_ENOSPC)
      BY <2>7, <2>9, Zenon
    <3>2. Returned(e) \in Contexts(S) /\ Cur(Returned(e)) = Cur(e)
      BY <2>5, CopyOf DEF Copying, Copies
    <3>3. Adds(Returned(e), c, O, K)
      BY <2>6, <3>2 DEF Adds, KeepsExact
    <3>4. FS_ENOSPC \in Int
      BY DEF FS_ENOSPC
    <3> QED
      BY <3>1, <3>3, <3>4, AddsRetOf
  <2>8. CASE ~(e.ret < 0)
    <3>1. d = Entered(e, dir, k, cell)
      BY <2>8, <2>9, Zenon
    <3>2. bn \in 0 .. NDirect - 1 /\ Mapped(e, bn)
      BY <1>4, <2>4, <2>8, Geometry
    <3>3. in.size < NDirect * Width
      BY <1>3, <3>2, <1>4, <2>4, <2>8, Geometry, DividedBelow DEF bn
    <3>4. in.size + 1 \in 0 .. Capacity
      <4> DEFINE p == NDirect * Width
                 q == Width * Width
      <4>1. p \in Nat /\ q \in Nat /\ Capacity = p + q
        BY Geometry DEF Capacity
      <4> HIDE DEF p, q
      <4>2. in.size < p
        BY <3>3 DEF p
      <4> HIDE DEF in
      <4> QED
        BY <1>3, <4>1, <4>2
    <3>5. e.in.size + 1 \in 0 .. Capacity /\ e.in.type = "dir"
      BY <1>7, <2>5, <3>4
    <3>6. Entered(e, dir, k, cell) \in Contexts(S) /\ Entered(e, dir, k, cell).ret \in Int
          /\ KeepsExact(Entered(e, dir, k, cell), e)
      BY <1>4, <1>5, <2>5, <3>2, <3>5, EnteredIs
    <3> QED
      BY <2>6, <3>1, <3>6 DEF Adds, KeepsExact
  <2> QED
    BY <2>7, <2>8
<1> QED
  BY <1>6, <1>7

\* Pointers, size and type stay.
LEMMA SameWritten ==
  ASSUME NEW O, NEW K \in SUBSET Inodes, NEW im \in Safe(O, K), NEW i \in Inodes \ K,
         NEW in2 \in InodeSet, SamePtrs(im.inode[i], in2), in2.size = im.inode[i].size,
         in2.type = im.inode[i].type
  PROVE  PutInode(im, i, in2) \in Safe(O, K) /\ SameBits(PutInode(im, i, in2), im)
<1>1. Holds(O, K, i, im, im.inode[i])
  BY HoldsStart
<1>2. \A n \in Places : Ptr(im.block, in2, n) = Ptr(im.block, im.inode[i], n)
  BY Zenon DEF SamePtrs, Ptr
<1>3. Full(im.block, im.inode[i])
  BY SafeIs
<1>4. Full(im.block, in2)
  BY <1>2, <1>3 DEF Full
<1> QED
  BY <1>1, <1>4, HoldsReturn

LEMMA NoNamesInFile ==
  ASSUME NEW O, NEW K, NEW im \in Safe(O, K), NEW dir \in Inodes, im.inode[dir].type = "reg",
         NEW name
  PROVE  Matches(im, dir, name) = {}
<1> DEFINE in == im.inode[dir]
<1> SUFFICES ASSUME NEW k \in Slots(in), SlotCell(im, in, k).kind = "entry"
             PROVE  FALSE
  BY DEF Matches
<1>1. im \in Images /\ in \in InodeSet /\ Full(im.block, in)
  BY SafeIs
<1> HIDE DEF in
<1> DEFINE n == k \div Width
           b == in.direct[n]
<1>2. /\ n \in 0 .. NDirect - 1 /\ k % Width \in 0 .. Width - 1
      /\ b \in Blocks /\ b = Ptr(im.block, in, n)
  BY <1>1, SlotIs
<1>3. n \in Places /\ b # NilBlock /\ in.type = "reg"
  BY <1>2, Geometry, Ranges DEF Places, NilBlock, in
<1>4. SlotCell(im, in, k) = im.block[b][k % Width]
  BY DEF SlotCell
<1> HIDE DEF n, b
<1>5. Nameless(im.block[b])
  BY <1>1, <1>2, <1>3 DEF Full
<1> QED
  BY <1>2, <1>4, <1>5 DEF Nameless

LEMMA DirRemoveIs ==
  ASSUME NEW O, NEW K \in SUBSET Inodes, FilesOnly(O, K), NEW J, Safe(O, K) \subseteq J,
         NEW c \in Contexts(J), Cur(c) \in Safe(O, K), NEW dir, NEW name
  PROVE  LET d == dir_remove(c, dir, name)
         IN  d \in Contexts(J) /\ Cur(d) \in Safe(O, K) /\ KeepsExact(d, c)
<1> DEFINE S == Safe(O, K)
           im == Cur(c)
           in == im.inode[dir]
           found == Matches(im, dir, name)
           k == Min(found)
           d == dir_remove(c, dir, name)
<1>1. im \in S
  OBVIOUS
<1>7. CASE dir \notin Inodes
  <2>1. d = Ret(c, FS_ERR) /\ FS_ERR \in Int
    BY <1>7 DEF dir_remove, FS_ERR
  <2> QED
    BY <2>1, RetIn DEF KeepsExact
<1>8. CASE dir \in Inodes
  <2>2. im \in Images /\ im.inode \in [Inodes -> InodeSet] /\ im.block \in [Blocks -> Contained]
    BY <1>1, SafeIs
  <2>3. in \in InodeSet
    BY <1>8, <2>2
  <2>4. found \subseteq Slots(in)
    BY Zenon DEF Matches
  <2>5. CASE found = {}
    <3>1. d = Ret(c, FS_ENOENT) /\ FS_ENOENT \in Int
      BY <1>8, <2>5 DEF dir_remove, FS_ENOENT
    <3> QED
      BY <3>1, RetIn DEF KeepsExact
  <2>6. CASE found # {}
    <3> DEFINE n == k \div Width
               b == in.direct[n]
               x == Put(im.block[b], k % Width, Zero)
               new == PutBlock(im, b, x)
               w == DevWrite(c, new)
    <3>1. k \in Slots(in)
      <4>1. found \subseteq Nat
        BY <2>2, <2>3, <2>4, SlotIs
      <4> HIDE DEF found
      <4> QED
        BY <2>4, <2>6, <4>1, MinProperty
    <3> HIDE DEF k
    <3>2. /\ n \in 0 .. NDirect - 1 /\ k % Width \in 0 .. Width - 1
          /\ b \in Blocks /\ b = Ptr(im.block, in, n)
      BY <2>2, <2>3, <3>1, SlotIs
    <3>3. n \in Places /\ n # TablePlace /\ b # NilBlock
      BY <3>2, Geometry, Ranges DEF Places, TablePlace, NilBlock
    <3>4. Zero \in Cells
      BY DEF Cells
    <3>5. PutCell(im, b, k % Width, Zero) = new /\ x \in Contained
      BY <2>2, <3>2, <3>4, PutCellIs
    <3>6. d = write_inode(DevWrite(c, PutCell(im, b, k % Width, Zero)), dir, in)
      BY <1>8, <2>6, Zenon DEF dir_remove, PutCell, k
    <3>18. dir \notin K
      <4>1. dir \in K => in.type = "reg"
        BY <1>1, SafeIs DEF FilesOnly, Untouched, AsIn
      <4> QED
        BY <1>1, <1>8, <2>6, <4>1, NoNamesInFile
    <3>7. Holds(O, K, dir, im, in)
      BY <1>1, <1>8, <3>18, HoldsStart
    <3>17. MayHold(in, x)
      <4>1. in.type = "reg" => Nameless(im.block[b])
        BY <1>1, <1>8, <3>2, <3>3, SafeIs DEF Full
      <4>2. im.block[b] \in [0 .. Width - 1 -> Cells]
        BY <2>2, <3>2 DEF Contained
      <4>3. \A m \in 0 .. Width - 1 : x[m] = IF m = k % Width THEN Zero ELSE im.block[b][m]
        BY <4>2 DEF Put
      <4>4. Zero.kind # "entry"
        BY DEF Zero
      <4> HIDE DEF x, b
      <4> QED
        BY <4>1, <4>3, <4>4 DEF Nameless, MayHold
    <3> HIDE DEF x
    <3>8. Holds(O, K, dir, new, in) /\ SameBits(new, im) /\ new.inode = im.inode
      BY <3>2, <3>3, <3>5, <3>7, <3>17, HoldsWrite
    <3> HIDE DEF new
    <3>9. new \in S /\ Full(new.block, in)
      BY <3>8 DEF Holds
    <3>10. w \in Contexts(J) /\ Cur(w) = new
      BY <3>9, DevWriteIn DEF Wrote
    <3> HIDE DEF w
    <3> DEFINE last == PutInode(new, dir, in)
    <3>11. SamePtrs(in, in)
      BY DEF SamePtrs
    <3>12. last \in S /\ SameBits(last, new)
      BY <2>3, <3>8, <3>9, <3>11, HoldsReturn
    <3>13. write_inode(w, dir, in) = DevWrite(w, last)
      BY <3>10, Zenon DEF write_inode, PutInode
    <3> HIDE DEF last
    <3>14. d = DevWrite(w, last)
      BY <3>5, <3>6, <3>13 DEF w
    <3>15. DevWrite(w, last) \in Contexts(J) /\ Cur(DevWrite(w, last)) = last
      BY <3>10, <3>12, DevWriteIn DEF Wrote
    <3>16. KeepsExact(d, c)
      BY <3>8, <3>12, <3>14, <3>15, SameBitsExact DEF KeepsExact
    <3> QED
      BY <3>12, <3>14, <3>15, <3>16
  <2> QED
    BY <2>5, <2>6
<1> QED
  BY <1>7, <1>8

LEMMA ReadIs ==
  ASSUME NEW O, NEW K \in SUBSET Inodes, NEW c \in Contexts(Safe(O, K)),
         NEW ino \in Inodes \ K, NEW uid
  PROVE  LET d == fs_read(c, ino, uid)
         IN  Adds(d, c, O, K) /\ d.ret \in Int
<1> DEFINE S == Safe(O, K)
           im == Cur(c)
           in == im.inode[ino]
           d == fs_read(c, ino, uid)
           len == Len(Contents(im, ino))
<1>1. im \in S
  BY CurIn
<1>2. in \in InodeSet /\ in.size \in Nat
  BY <1>1, SafeIs DEF InodeSet
<1>3. CASE ~perm_can_read(in, uid)
  <2>1. d = Ret(c, FS_EPERM) /\ FS_EPERM \in Int
    BY <1>3 DEF fs_read, FS_EPERM
  <2> QED
    BY <2>1, AddsRet
<1>4. CASE perm_can_read(in, uid) /\ in.size = 0
  <2>1. d = Ret(c, 0)
    BY <1>4 DEF fs_read
  <2> QED
    BY <2>1, AddsRet
<1>5. CASE perm_can_read(in, uid) /\ in.size # 0
  <2> DEFINE w == write_inode(c, ino, in)
  <2>1. d = Ret(w, len)
    BY <1>5 DEF fs_read
  <2>2. len \in Int
    <3> DEFINE holes == {bn \in 0 .. (in.size - 1) \div Width :
                           map_bn_for_read(im, in, bn) \notin Blocks}
               T == {in.size} \cup {bn * Width : bn \in holes}
               l == IF in.size = 0 THEN 0 ELSE Min(T)
    <3>1. T \subseteq Nat /\ T # {}
      BY <1>2, Geometry
    <3>2. l \in Nat
      BY <3>1, MinProperty
    <3>3. Contents(im, ino)
            = [k \in 1 .. l |-> im.block[map_bn_for_read(im, in, (k - 1) \div Width)][(k - 1) % Width]]
      BY DEF Contents
    <3> HIDE DEF l
    <3>4. Len(Contents(im, ino)) = l
      BY <3>2, <3>3
    <3> QED
      BY <3>2, <3>4
  <2>3. SamePtrs(in, in)
    BY DEF SamePtrs
  <2> HIDE DEF len
  <2>4. PutInode(im, ino, in) \in S /\ SameBits(PutInode(im, ino, in), im)
    BY <1>1, <1>2, <2>3, SameWritten
  <2>5. Adds(w, c, O, K)
    BY <2>4, WriteInodeIs
  <2> HIDE DEF w
  <2> QED
    BY <2>1, <2>2, <2>5, AddsRetOf
<1> QED
  BY <1>3, <1>4, <1>5

-----------------------------------------------------------------------------
(* file.c: fs_write *)

LEMMA DividedBounds ==
  ASSUME NEW s \in Nat, NEW n \in Nat
  PROVE  /\ n * Width <= s => n <= s \div Width
         /\ s <= n * Width => s \div Width <= n
<1>1. /\ s \div Width \in Nat /\ s % Width \in 0 .. Width - 1
      /\ s = Width * (s \div Width) + (s % Width) /\ Width \in Nat /\ Width >= 1
  BY Divided, Geometry
<1> DEFINE q == s \div Width
           r == s % Width
<1> HIDE DEF q, r
<1>2. q \in Nat /\ r < Width /\ r \in Nat /\ s = Width * q + r
  BY <1>1 DEF q, r
<1> DEFINE wq == Width * q
           wn == n * Width
<1>3. wq \in Nat /\ wn \in Nat
  BY <1>1, <1>2
<1>4. CASE q < n
  <2>1. Width * (q + 1) <= Width * n /\ Width * n = wn /\ Width * (q + 1) = wq + Width
    BY <1>1, <1>2, <1>4
  <2> HIDE DEF wq, wn
  <2>2. s < wn
    BY <1>1, <1>2, <1>3, <2>1 DEF wq
  <2> QED
    BY <1>2, <1>3, <1>4, <2>2 DEF wn, q
<1>5. CASE n < q
  <2>1. Width * (n + 1) <= wq /\ Width * (n + 1) = wn + Width
    BY <1>1, <1>2, <1>5
  <2> HIDE DEF wq, wn
  <2>2. s > wn
    BY <1>1, <1>2, <1>3, <2>1 DEF wq
  <2> QED
    BY <1>2, <1>3, <1>5, <2>2 DEF wn, q
<1>6. CASE n = q
  BY <1>2, <1>6 DEF q
<1> QED
  BY <1>2, <1>4, <1>5, <1>6

\* The blocks first .. last of a file are there.
AllMapped(c, first, last) ==
  \A n \in first .. last : n < TablePlace /\ Ptr(Cur(c).block, c.in, n) # NilBlock

LEMMA MappedFurther ==
  ASSUME NEW O, NEW K, NEW i, NEW c, NEW d, Further(d, c, O, K, i), NEW first \in Nat,
         NEW last \in Int, AllMapped(c, first, last)
  PROVE  AllMapped(d, first, last)
<1>1. \A n \in first .. last : n \in Places
  BY Geometry DEF AllMapped, Places, TablePlace
<1> QED
  BY <1>1 DEF AllMapped, Further, Grows

LEMMA WriteBlocksIs ==
  ASSUME NEW O, NEW K \in SUBSET Inodes, NEW c \in Contexts(Safe(O, K)), ReadClear = {},
         NEW ino \in Inodes \ K, NEW pos \in Nat, NEW len \in Nat \ {0}, NEW v \in Texts
  PROVE  LET in == Cur(c).inode[ino]
             w == WriteBlocks(c, in, pos, len, v)
         IN  /\ Copying(w, O, K, ino) /\ KeepsExact(w, c) /\ w.ret \in Int
             /\ w.in.size = in.size /\ w.in.type = in.type
             /\ ~(w.ret < 0) => AllMapped(w, pos \div Width, (pos + len - 1) \div Width)
<1> DEFINE S == Safe(O, K)
           in == Cur(c).inode[ino]
           first == pos \div Width
           last == (pos + len - 1) \div Width
           count == last - first + 1
           blocks == [n \in 1 .. count |-> first + n - 1]
           base == WithInode(Ret(c, FS_OK), in)
           w == WriteBlocks(c, in, pos, len, v)
<1>1. first \in Nat /\ last \in Nat /\ first <= last
  <2>1. pos + len - 1 \in Nat /\ pos <= pos + len - 1
    OBVIOUS
  <2>2. first \in Nat /\ last \in Nat
    BY <2>1, Divided
  <2>3. first * Width <= pos /\ first * Width \in Nat
    <3> HIDE DEF first
    <3>1. pos = Width * first + (pos % Width) /\ pos % Width \in Nat /\ Width \in Nat
      BY Divided, Geometry DEF first
    <3> QED
      BY <2>2, <3>1
  <2>4. first * Width <= pos + len - 1
    BY <2>1, <2>3
  <2> QED
    BY <2>1, <2>2, <2>4, DividedBounds
<1> HIDE DEF first, last
<1>2. count \in Nat /\ blocks \in Seq(Nat) /\ Len(blocks) = count
  BY <1>1
<1>3. \A k \in 1 .. count : blocks[k] = first + k - 1
  BY <1>1
<1>4. w = WriteAll(base, blocks, pos, len, v)
  <2>1. len # 0
    OBVIOUS
  <2> QED
    BY <2>1, Zenon DEF WriteBlocks, WriteAll, first, last
<1> HIDE DEF w, blocks
<1>5. /\ base \in Copies(S) /\ Copying(base, O, K, ino) /\ Cur(base) = Cur(c) /\ base.in = in
  <2>1. Ret(c, FS_OK) \in Contexts(S) /\ Cur(Ret(c, FS_OK)) = Cur(c)
    BY RetIn DEF FS_OK
  <2>2. Cur(c) \in S /\ in \in InodeSet
    BY CurIn, SafeIs
  <2>3. base \in Copies(S) /\ base.in = in /\ Cur(base) = Cur(c)
    BY <2>1, <2>2, CopyOf
  <2> HIDE DEF base
  <2> QED
    BY <2>2, <2>3, HoldsStart DEF Copying
<1>6. base.ret \in Int
  BY <1>5 DEF Copies
<1> HIDE DEF base
<1>7. PICK h : Through(h, Writing(pos, len, v), base, blocks, w)
  BY <1>2, <1>4, WriteAllSteps
<1>8. /\ h[0] = base /\ w = h[count]
      /\ \A k \in 1 .. count : h[k] = WriteBlock(h[k - 1], blocks[k], pos, len, v)
  BY <1>2, <1>7, Turns DEF Through
<1> HIDE DEF count
<1> DEFINE Done(k) == /\ Further(h[k], base, O, K, ino) /\ h[k].ret \in Int
                      /\ ~(h[k].ret < 0) => AllMapped(h[k], first, first + k - 1)
           T == {k \in 0 .. count : Done(k)}
<1>9. 0 \in T
  <2>1. Further(h[0], base, O, K, ino) /\ h[0].ret \in Int
    BY <1>5, <1>6, <1>8, FurtherSelf
  <2>2. AllMapped(h[0], first, first + 0 - 1)
    BY <1>1 DEF AllMapped
  <2> QED
    BY <1>2, <2>1, <2>2
<1>10. ASSUME NEW k \in 1 .. count, k - 1 \in T PROVE k \in T
  <2> DEFINE s == h[k - 1]
             bn == first + k - 1
  <2>1. k \in 0 .. count /\ bn \in Nat
    BY <1>1, <1>2
  <2>2. Further(s, base, O, K, ino) /\ s.ret \in Int
        /\ (~(s.ret < 0) => AllMapped(s, first, first + (k - 1) - 1))
    BY <1>10
  <2>3. h[k] = WriteBlock(s, bn, pos, len, v)
    BY <1>3, <1>8
  <2>4. Copying(s, O, K, ino)
    BY <2>2 DEF Further
  <2> HIDE DEF s
  <2>5. /\ Further(h[k], s, O, K, ino) /\ h[k].ret \in Int
        /\ ~(h[k].ret < 0) => ~(s.ret < 0) /\ bn < TablePlace
                                /\ Ptr(Cur(h[k]).block, h[k].in, bn) # NilBlock
    BY <2>1, <2>3, <2>4, WriteBlockIs
  <2>6. Further(h[k], base, O, K, ino)
    BY <2>2, <2>5, FurtherTrans
  <2>7. ASSUME ~(h[k].ret < 0) PROVE AllMapped(h[k], first, first + k - 1)
    <3>1. AllMapped(s, first, first + (k - 1) - 1)
      BY <2>2, <2>5, <2>7
    <3>2. first + (k - 1) - 1 \in Int
      BY <2>1, <1>1
    <3>3. AllMapped(h[k], first, first + (k - 1) - 1)
      BY <1>1, <2>5, <3>1, <3>2, MappedFurther
    <3>4. \A n \in first .. first + k - 1 : n = bn \/ n \in first .. first + (k - 1) - 1
      BY <1>1
    <3> HIDE DEF bn
    <3> QED
      BY <2>5, <2>7, <3>3, <3>4 DEF AllMapped
  <2> QED
    BY <2>1, <2>5, <2>6, <2>7
<1>11. \A k \in 0 .. count : k \in T
  <2> HIDE DEF T
  <2> QED
    BY <1>2, <1>9, <1>10, EveryStep
<1>12. Done(count)
  BY <1>2, <1>11
<1>13. first + count - 1 = last
  BY <1>1 DEF count
<1>14. /\ Further(w, base, O, K, ino) /\ w.ret \in Int
       /\ ~(w.ret < 0) => AllMapped(w, first, last)
  BY <1>8, <1>12, <1>13
<1>15. KeepsExact(w, c)
  BY <1>5, <1>14 DEF Further, KeepsExact
<1> QED
  BY <1>5, <1>14, <1>15 DEF Further, w, first, last

LEMMA MaxOfTwo ==
  ASSUME NEW a \in Nat, NEW b \in Nat
  PROVE  /\ Max({a, b}) \in Nat /\ Max({a, b}) >= a /\ Max({a, b}) >= b
         /\ Max({a, b}) = a \/ Max({a, b}) = b
<1> DEFINE m == IF a <= b THEN b ELSE a
<1>1. m \in {a, b} /\ \A x \in {a, b} : x <= m
  OBVIOUS
<1>2. Max({a, b}) \in {a, b} /\ \A x \in {a, b} : x <= Max({a, b})
  BY <1>1 DEF Max
<1> QED
  BY <1>2

\* The inode with its new size, when all blocks of the write are there.
Resized(w, ino, pos, len) ==
  write_inode(Returned(w), ino, [w.in EXCEPT !.size = Max({@, pos + len})])

LEMMA ResizedIs ==
  ASSUME NEW O, NEW K \in SUBSET Inodes, NEW i, NEW w, Copying(w, O, K, i),
         NEW pos \in Nat, NEW len \in Nat \ {0}, pos <= w.in.size,
         AllMapped(w, pos \div Width, (pos + len - 1) \div Width)
  PROVE  LET d == Resized(w, i, pos, len)
         IN  /\ d \in Contexts(Safe(O, K)) /\ KeepsExact(d, w)
             /\ Cur(d).inode[i].size >= pos + len /\ Cur(d).inode[i].size \in Nat
             /\ Cur(d).inode[i].type = w.in.type
<1> DEFINE S == Safe(O, K)
           im == Cur(w)
           in == w.in
           end == pos + len - 1
           first == pos \div Width
           last == end \div Width
           size == Max({in.size, pos + len})
           in2 == [in EXCEPT !.size = size]
           r == Returned(w)
           new == PutInode(im, i, in2)
           d == Resized(w, i, pos, len)
<1>1. w \in Copies(S) /\ Holds(O, K, i, im, in) /\ in \in InodeSet
  BY DEF Copying, Copies
<1>2. in.size \in Nat /\ in.size \in 0 .. Capacity /\ end \in Nat /\ pos + len = end + 1 /\ pos <= end
  BY <1>1, Geometry DEF InodeSet
<1>3. first \in Nat /\ last \in Nat /\ first <= last
  <2>1. first \in Nat /\ last \in Nat
    BY <1>2, Divided
  <2>2. first * Width <= pos /\ first * Width \in Nat
    <3> HIDE DEF first
    <3>1. pos = Width * first + (pos % Width) /\ pos % Width \in Nat /\ Width \in Nat
      BY Divided, Geometry DEF first
    <3> QED
      BY <2>1, <3>1
  <2>3. first * Width <= end
    BY <1>2, <2>2
  <2> QED
    BY <1>2, <2>1, <2>3, DividedBounds
<1> HIDE DEF end
<1>4. last < TablePlace
  BY <1>3 DEF AllMapped, end
<1>5. end < Capacity
  BY <1>2, <1>4, DividedBelow, Geometry DEF TablePlace, Capacity
<1>6. size \in Nat /\ size >= in.size /\ size >= end + 1 /\ (size = in.size \/ size = end + 1)
  BY <1>2, MaxOfTwo
<1> HIDE DEF size
<1>7. size \in 0 .. Capacity
  BY <1>2, <1>5, <1>6, Geometry DEF Capacity
<1>8. /\ in2 \in InodeSet /\ SamePtrs(in, in2) /\ in2.size = size /\ in2.type = in.type
  BY <1>1, <1>7, InodeFields
<1> HIDE DEF in2
<1>9. \A n \in Places : Ptr(im.block, in2, n) = Ptr(im.block, in, n)
  BY <1>8, Zenon DEF SamePtrs, Ptr
<1>10. ASSUME NEW n \in Places, in.type = "reg", n * Width < size
       PROVE  Ptr(im.block, in, n) # NilBlock
  <2>1. n \in Nat /\ n * Width \in Nat
    BY Geometry DEF Places
  <2> DEFINE at == n * Width
  <2>2. CASE at < in.size
    BY <1>1, <1>10, <2>2 DEF Holds, Full
  <2>3. CASE ~(at < in.size)
    <3> HIDE DEF at
    <3>1. pos <= at /\ at <= end
      BY <1>2, <1>6, <1>10, <2>1, <2>3 DEF at
    <3>2. first <= n /\ n <= last
      BY <1>2, <2>1, <3>1, DividedBounds DEF at
    <3>3. n \in first .. last
      BY <1>3, <2>1, <3>2
    <3> QED
      BY <3>3 DEF AllMapped, end
  <2> QED
    BY <2>2, <2>3
<1>11. Full(im.block, in2)
  <2>1. Full(im.block, in)
    BY <1>1 DEF Holds
  <2> QED
    BY <1>8, <1>9, <1>10, <2>1 DEF Full
<1>12. new \in S /\ SameBits(new, im)
  BY <1>1, <1>8, <1>11, HoldsReturn
<1>13. r \in Contexts(S) /\ Cur(r) = im
  BY <1>1, CopyOf
<1>14. d = write_inode(r, i, in2)
  BY Zenon, <1>2 DEF Resized, in2, size
<1>15. Adds(write_inode(r, i, in2), r, O, K) /\ Cur(write_inode(r, i, in2)) = new
  BY <1>12, <1>13, WriteInodeIs
<1>16. new.inode[i] = in2
  <2>1. im \in Images /\ i \in Inodes /\ im.inode \in [Inodes -> InodeSet]
    BY <1>1, HoldsIs
  <2>2. new.inode = Put(im.inode, i, in2)
    BY <1>8, <2>1, PutInodeIs
  <2> QED
    BY <1>8, <2>1, <2>2, PutInodesIs
<1> HIDE DEF r, new
<1>17. /\ d \in Contexts(S) /\ KeepsExact(d, w)
       /\ Cur(d).inode[i].size >= end + 1 /\ Cur(d).inode[i].size \in Nat
       /\ Cur(d).inode[i].type = in.type
  BY <1>6, <1>8, <1>13, <1>14, <1>15, <1>16 DEF Adds, KeepsExact
<1> QED
  BY <1>2, <1>17

LEMMA WriteSplits ==
  ASSUME NEW c, NEW ino, NEW pos, NEW len, NEW v, NEW uid
  PROVE  LET in == Cur(c).inode[ino]
             w == WriteBlocks(c, in, pos, len, v)
         IN  fs_write(c, ino, pos, len, v, uid)
               = IF ~perm_can_write(in, uid) THEN Ret(c, FS_EPERM)
                 ELSE IF w.ret < 0 THEN Returned(w)
                 ELSE Ret(Resized(w, ino, pos, len), len)
BY Zenon DEF fs_write, WriteSize, Then, Resized

LEMMA WriteIs ==
  ASSUME NEW O, NEW K \in SUBSET Inodes, NEW c \in Contexts(Safe(O, K)), ReadClear = {},
         NEW ino \in Inodes \ K, NEW pos \in Nat, NEW len \in Nat \ {0}, NEW v \in Texts,
         pos <= Cur(c).inode[ino].size, NEW uid
  PROVE  LET d == fs_write(c, ino, pos, len, v, uid)
         IN  /\ Adds(d, c, O, K) /\ d.ret \in Int
             /\ Cur(d).inode[ino].type = Cur(c).inode[ino].type
             /\ ~(d.ret < 0) => /\ Cur(d).inode[ino].size \in Nat
                                /\ Cur(d).inode[ino].size >= pos + len
<1> DEFINE in == Cur(c).inode[ino]
           w == WriteBlocks(c, in, pos, len, v)
           d == fs_write(c, ino, pos, len, v, uid)
           z == Resized(w, ino, pos, len)
<1>1. d = IF ~perm_can_write(in, uid) THEN Ret(c, FS_EPERM)
          ELSE IF w.ret < 0 THEN Returned(w) ELSE Ret(z, len)
  BY Zenon, WriteSplits
<1>2. /\ Copying(w, O, K, ino) /\ KeepsExact(w, c) /\ w.ret \in Int
      /\ w.in.size = in.size /\ w.in.type = in.type
      /\ ~(w.ret < 0) => AllMapped(w, pos \div Width, (pos + len - 1) \div Width)
  BY WriteBlocksIs
<1> HIDE DEF d, w
<1>3. CASE ~perm_can_write(in, uid)
  <2>1. FS_EPERM \in Int /\ FS_EPERM < 0
    BY DEF FS_EPERM
  <2>2. d = Ret(c, FS_EPERM)
    BY <1>1, <1>3
  <2>3. Adds(d, c, O, K) /\ d.ret = FS_EPERM /\ Cur(d) = Cur(c)
    BY <2>1, <2>2, AddsRet
  <2> QED
    BY <2>1, <2>3 DEF d
<1>4. CASE perm_can_write(in, uid) /\ w.ret < 0
  <2>1. d = Returned(w)
    BY <1>1, <1>4
  <2>2. /\ Returned(w) \in Contexts(Safe(O, K)) /\ Returned(w).ret = w.ret
        /\ Cur(Returned(w)) = Cur(w)
    BY <1>2, CopyOf DEF Copying, Copies
  <2>3. Adds(d, c, O, K)
    BY <1>2, <2>1, <2>2 DEF Adds, KeepsExact
  <2>4. w.in.type = Cur(w).inode[ino].type
    BY <1>2, HoldsIs DEF Copying
  <2> QED
    BY <1>2, <1>4, <2>1, <2>2, <2>3, <2>4 DEF d
<1>5. CASE perm_can_write(in, uid) /\ ~(w.ret < 0)
  <2>1. d = Ret(z, len) /\ len \in Int
    BY <1>1, <1>5
  <2>2. /\ z \in Contexts(Safe(O, K)) /\ KeepsExact(z, w)
        /\ Cur(z).inode[ino].size >= pos + len /\ Cur(z).inode[ino].size \in Nat
        /\ Cur(z).inode[ino].type = w.in.type
    BY <1>2, <1>5, ResizedIs
  <2> HIDE DEF z
  <2>3. Adds(z, c, O, K)
    BY <1>2, <2>2 DEF Adds, KeepsExact
  <2>4. Adds(Ret(z, len), c, O, K) /\ Ret(z, len).ret = len /\ Cur(Ret(z, len)) = Cur(z)
    BY <2>1, <2>3, AddsRetOf
  <2> QED
    BY <1>2, <2>1, <2>2, <2>4 DEF d
<1> QED
  BY <1>3, <1>4, <1>5

-----------------------------------------------------------------------------
(* file.c: opening and creating *)

\* A user who may write the file path names does not find one of K there.
Avoids(im, path, K, uid) ==
  LET r == namei(im, path)
  IN  r.ret = FS_OK => r.ino \notin K \/ ~perm_can_write(im.inode[r.ino], uid)

\* A fresh inode of a type, written.
Fetched(c, type, uid) == write_inode(alloc_inode(c), alloc_inode(c).ret, NewInode(type, uid))

LEMMA FetchedIs ==
  ASSUME NEW O, NEW K \in SUBSET Inodes, NEW c \in Contexts(Safe(O, K)), FilesOnly(O, K),
         NEW type \in {"reg", "dir"}, NEW uid \in Uids \cup {0}
  PROVE  LET a == alloc_inode(c)
             d == Fetched(c, type, uid)
         IN  /\ Adds(a, c, O, K) /\ a.ret \in Int
             /\ ~(a.ret < 0) => Adds(d, c, O, K) /\ a.ret \in Inodes \ Cur(c).imap
                                  /\ a.ret \notin K
<1> DEFINE S == Safe(O, K)
           a == alloc_inode(c)
           in == NewInode(type, uid)
           d == Fetched(c, type, uid)
<1>1. Closed(S) /\ c \in Contexts(S) \cup Copies(S)
  BY SafeClosed
<1>2. Follows(a, c, S) /\ a.ret \in Int /\ TakesInode(a, c) /\ KeepsExact(a, c)
  BY <1>1, AllocInodeIs
<1> HIDE DEF a
<1>3. Adds(a, c, O, K)
  BY <1>2 DEF Adds, Follows
<1>4. ASSUME ~(a.ret < 0) PROVE Adds(d, c, O, K) /\ a.ret \in Inodes \ Cur(c).imap /\ a.ret \notin K
  <2>1. a.ret \in Inodes \ Cur(c).imap
    BY <1>2, <1>4 DEF TakesInode
  <2>2. K \subseteq Cur(c).imap
    BY CurIn, SafeIs DEF Untouched, AsIn, FilesOnly
  <2>3. a.ret \in Inodes \ K
    BY <2>1, <2>2
  <2>4. in \in InodeSet /\ Empty(in) /\ in.size = 0
    BY NewInodeIs
  <2> HIDE DEF in
  <2>5. Cur(a) \in S /\ a \in Contexts(S)
    BY <1>3, AddsIn
  <2>6. PutInode(Cur(a), a.ret, in) \in S /\ SameBits(PutInode(Cur(a), a.ret, in), Cur(a))
    BY <2>3, <2>4, <2>5, EmptyWritten
  <2>7. Adds(write_inode(a, a.ret, in), a, O, K)
    BY <2>5, <2>6, WriteInodeIs
  <2>8. Adds(d, c, O, K)
    BY <1>3, <2>7, AddsTrans DEF Fetched, a, in
  <2> QED
    BY <2>1, <2>3, <2>8
<1> QED
  BY <1>2, <1>3, <1>4 DEF a

LEMMA CreateSplits ==
  ASSUME NEW c, NEW dir, NEW name, NEW uid
  PROVE  LET a == alloc_inode(c)
             d == dir_add(Fetched(c, "reg", uid), dir, name, "reg", a.ret)
         IN  CreateFile(c, dir, name, uid)
               = IF a.ret < 0 THEN a ELSE Ret(d, IF d.ret < 0 THEN FS_ERR ELSE a.ret)
BY Zenon DEF CreateFile, IfOk, Then, Fetched

LEMMA CreateIs ==
  ASSUME NEW O, NEW K \in SUBSET Inodes, NEW c \in Contexts(Safe(O, K)), FilesOnly(O, K),
         ReadClear = {}, NEW dir \in Inodes, NEW name \in Spelled, NEW uid \in Uids \cup {0}
  PROVE  LET d == CreateFile(c, dir, name, uid)
         IN  Adds(d, c, O, K) /\ d.ret \in Int /\ (~(d.ret < 0) => d.ret \in Inodes \ K)
<1> DEFINE a == alloc_inode(c)
           b == Fetched(c, "reg", uid)
           e == dir_add(b, dir, name, "reg", a.ret)
           r == IF e.ret < 0 THEN FS_ERR ELSE a.ret
           d == CreateFile(c, dir, name, uid)
<1>1. d = IF a.ret < 0 THEN a ELSE Ret(e, r)
  BY Zenon, CreateSplits
<1>2. /\ Adds(a, c, O, K) /\ a.ret \in Int
      /\ ~(a.ret < 0) => Adds(b, c, O, K) /\ a.ret \in Inodes \ Cur(c).imap /\ a.ret \notin K
  BY FetchedIs
<1> HIDE DEF a, b, d
<1>3. CASE a.ret < 0
  BY <1>1, <1>2, <1>3 DEF d
<1>4. CASE ~(a.ret < 0)
  <2>1. Adds(b, c, O, K) /\ a.ret \in Inodes \ K /\ b \in Contexts(Safe(O, K))
    BY <1>2, <1>4, AddsIn
  <2>2. Adds(e, b, O, K) /\ e.ret \in Int
    BY <2>1, DirAddIs
  <2> HIDE DEF e
  <2>3. Adds(e, c, O, K)
    BY <2>1, <2>2, AddsTrans
  <2>4. r \in Int /\ (~(r < 0) => r \in Inodes \ K)
    BY <1>2, <2>1, <2>2 DEF FS_ERR
  <2> HIDE DEF r
  <2>5. Adds(Ret(e, r), c, O, K) /\ Ret(e, r).ret = r
    BY <2>3, <2>4, AddsRetOf
  <2> QED
    BY <1>1, <1>4, <2>4, <2>5 DEF d
<1> QED
  BY <1>3, <1>4

LEMMA OpenSplits ==
  ASSUME NEW c, NEW path, NEW writable, NEW uid
  PROVE  LET r == namei(Cur(c), path)
             parent == namei(Cur(c), Front(path))
         IN  fs_open(c, path, writable, uid)
               = IF r.ret = FS_OK THEN OpenExisting(c, r.ino, writable, uid)
                 ELSE IF ~writable THEN Ret(c, r.ret)
                 ELSE IF parent.ret # FS_OK THEN Ret(c, FS_ERR)
                 ELSE CreateFile(c, parent.ino, Last(path), uid)
BY Zenon DEF fs_open, Then

LEMMA OpenIs ==
  ASSUME NEW O, NEW K \in SUBSET Inodes, NEW c \in Contexts(Safe(O, K)), FilesOnly(O, K),
         ReadClear = {}, NEW E, NEW path \in Seq(E), NEW writable \in BOOLEAN,
         NEW uid \in Uids \cup {0},
         writable => path # <<>> /\ Last(path) \in Spelled /\ Avoids(Cur(c), path, K, uid)
  PROVE  LET d == fs_open(c, path, writable, uid)
         IN  /\ Adds(d, c, O, K) /\ d.ret \in Int
             /\ ~(d.ret < 0) => d.ret \in Inodes /\ (writable => d.ret \notin K)
<1> DEFINE im == Cur(c)
           r == namei(im, path)
           parent == namei(im, Front(path))
           d == fs_open(c, path, writable, uid)
<1>1. d = IF r.ret = FS_OK THEN OpenExisting(c, r.ino, writable, uid)
          ELSE IF ~writable THEN Ret(c, r.ret)
          ELSE IF parent.ret # FS_OK THEN Ret(c, FS_ERR)
          ELSE CreateFile(c, parent.ino, Last(path), uid)
  BY Zenon, OpenSplits
<1> HIDE DEF d
<1>2. im \in Images
  BY CurIn, SafeIs
<1>3. r.ret \in Int /\ r.ret <= 0 /\ (r.ret = FS_OK => r.ino \in Inodes)
  BY <1>2, NameiIs
<1>4. FS_EPERM \in Int /\ FS_EPERM < 0 /\ FS_ERR \in Int /\ FS_ERR < 0
  BY DEF FS_EPERM, FS_ERR
<1>5. CASE r.ret = FS_OK
  <2> DEFINE in == im.inode[r.ino]
             may == IF writable THEN perm_can_write(in, uid) ELSE perm_can_read(in, uid)
             x == IF may THEN r.ino ELSE FS_EPERM
  <2>1. d = Ret(c, x)
    BY <1>1, <1>5, Zenon DEF OpenExisting
  <2>2. writable /\ may => r.ino \notin K
    BY <1>5 DEF Avoids
  <2> HIDE DEF r, may
  <2>6. r.ino \in Nat
    BY <1>3, <1>5, Ranges
  <2>3. x \in Int
    BY <1>4, <2>6
  <2>4. ~(x < 0) => x \in Inodes /\ (writable => x \notin K)
    BY <1>3, <1>4, <1>5, <2>2
  <2> HIDE DEF x
  <2>5. Adds(Ret(c, x), c, O, K) /\ Ret(c, x).ret = x
    BY <2>3, AddsRet
  <2> QED
    BY <2>1, <2>3, <2>4, <2>5 DEF d
<1>6. CASE r.ret # FS_OK /\ ~writable
  <2>1. d = Ret(c, r.ret)
    BY <1>1, <1>6
  <2> HIDE DEF r
  <2>2. r.ret \in Int
    BY <1>3
  <2>3. Adds(Ret(c, r.ret), c, O, K) /\ Ret(c, r.ret).ret = r.ret
    BY <2>2, AddsRet
  <2>4. r.ret < 0
    BY <1>3, <1>6 DEF FS_OK
  <2> QED
    BY <2>1, <2>2, <2>3, <2>4 DEF d
<1>7. CASE r.ret # FS_OK /\ writable /\ parent.ret # FS_OK
  <2>1. d = Ret(c, FS_ERR)
    BY <1>1, <1>7
  <2>2. Adds(Ret(c, FS_ERR), c, O, K) /\ Ret(c, FS_ERR).ret = FS_ERR
    BY <1>4, AddsRet
  <2> QED
    BY <1>4, <2>1, <2>2 DEF d
<1>8. CASE r.ret # FS_OK /\ writable /\ parent.ret = FS_OK
  <2>1. d = CreateFile(c, parent.ino, Last(path), uid)
    BY <1>1, <1>8
  <2>2. Front(path) \in Seq(E)
    <3>1. Len(path) - 1 \in 0 .. Len(path)
      BY <1>8
    <3> QED
      BY <3>1 DEF Front
  <2>3. parent.ino \in Inodes
    BY <1>2, <1>8, <2>2, NameiIs
  <2> HIDE DEF parent
  <2>4. Last(path) \in Spelled
    BY <1>8
  <2> QED
    BY <2>1, <2>3, <2>4, CreateIs DEF d
<1> QED
  BY <1>5, <1>6, <1>7, <1>8

-----------------------------------------------------------------------------
(* cli.c: the commands that add *)

LEMMA MinOfTwo ==
  ASSUME NEW a \in Nat, NEW b \in Nat
  PROVE  Min({a, b}) \in {a, b} /\ Min({a, b}) <= a /\ Min({a, b}) <= b
BY MinProperty

\* The turns of the loop of writefile: each block of the host file once.
LEMMA ChunkIs ==
  ASSUME NEW len \in Nat \ {0}, NEW k \in 1 .. (len + Width - 1) \div Width
  PROVE  LET at == (k - 1) * Width
             chunk == Min({Width, len - at})
         IN  /\ at \in Nat /\ chunk \in Nat \ {0}
             /\ k < (len + Width - 1) \div Width => at + chunk = k * Width
<1> DEFINE s == len + Width - 1
           q == s \div Width
           at == (k - 1) * Width
           end == k * Width
           chunk == Min({Width, len - at})
<1>1. Width \in Nat /\ Width >= 1 /\ s \in Nat
  BY Geometry
<1>2. q \in Nat /\ Width * q <= s
  <2>1. q \in Nat /\ s % Width \in Nat /\ s = Width * q + (s % Width)
    BY <1>1, Divided
  <2> HIDE DEF q, s
  <2>2. Width * q \in Nat
    BY <1>1, <2>1
  <2> QED
    BY <1>1, <2>1, <2>2
<1> HIDE DEF q
<1>3. k \in Nat /\ k >= 1 /\ k <= q
  BY <1>2 DEF q
<1>4. end \in Nat /\ at \in Nat /\ end = at + Width
  BY <1>1, <1>3
<1>5. end <= Width * q /\ Width * q \in Nat
  BY <1>1, <1>2, <1>3
<1>6. k < q => end + Width <= Width * q
  <2>1. k < q => (k + 1) * Width <= Width * q /\ (k + 1) * Width = end + Width
    BY <1>1, <1>2, <1>3
  <2> QED
    BY <2>1
<1> DEFINE wq == Width * q
<1> HIDE DEF end, at, wq
<1>7. at < len /\ (k < q => end < len)
  BY <1>1, <1>2, <1>4, <1>5, <1>6 DEF wq
<1>8. len - at \in Nat /\ len - at >= 1
  BY <1>4, <1>7
<1>9. chunk \in {Width, len - at} /\ chunk <= Width /\ chunk <= len - at
  BY <1>1, <1>8, MinOfTwo
<1> HIDE DEF chunk
<1>10. chunk \in Nat \ {0}
  BY <1>1, <1>8, <1>9
<1>11. k < q => at + chunk = end
  BY <1>1, <1>4, <1>7, <1>8, <1>9, <1>10
<1> QED
  BY <1>4, <1>10, <1>11 DEF q, at, end, chunk

CopyTurnOf(s, k, ino, len, v, uid) ==
  IF s.ret < 0 THEN s ELSE fs_write(s, ino, k * Width, Min({Width, len - k * Width}), v, uid)

LEMMA CopyTurn ==
  ASSUME NEW ino, NEW len, NEW v, NEW uid, NEW s, NEW k
  PROVE  Turn(Copy(ino, len, v, uid), s, k) = CopyTurnOf(s, k, ino, len, v, uid)
BY DEF Turn, Copy, CopyTurnOf

LEMMA CopyAllIs ==
  ASSUME NEW O, NEW K \in SUBSET Inodes, NEW fd \in Contexts(Safe(O, K)), ReadClear = {},
         NEW ino \in Inodes \ K, NEW len \in Nat \ {0}, NEW v \in Texts, NEW uid
  PROVE  LET d == CopyAll(fd, [n \in 1 .. (len + Width - 1) \div Width |-> n - 1],
                          ino, len, v, uid)
         IN  Adds(d, fd, O, K) /\ d.ret \in Int
<1> DEFINE N == (len + Width - 1) \div Width
           chunks == [n \in 1 .. N |-> n - 1]
           d == CopyAll(fd, chunks, ino, len, v, uid)
<1>1. N \in Nat
  <2>1. len + Width - 1 \in Nat
    BY Geometry
  <2> QED
    BY <2>1, Divided
<1> HIDE DEF N
<1>2. chunks \in Seq(Nat) /\ Len(chunks) = N /\ \A k \in 1 .. N : chunks[k] = k - 1
  BY <1>1
<1> HIDE DEF chunks
<1>3. PICK h : Through(h, Copy(ino, len, v, uid), fd, chunks, d)
  BY <1>2, CopyAllSteps
<1> HIDE DEF d
<1>4. /\ h[0] = fd /\ d = h[N]
      /\ \A k \in 1 .. N : h[k] = Turn(Copy(ino, len, v, uid), h[k - 1], k - 1)
  BY <1>2, <1>3 DEF Through
<1> DEFINE Done(k) == /\ Adds(h[k], fd, O, K) /\ h[k].ret \in Int
                      /\ ~(h[k].ret < 0) /\ k < N => Cur(h[k]).inode[ino].size >= k * Width
           T == {k \in 0 .. N : Done(k)}
<1>5. 0 \in T
  <2>1. Adds(fd, fd, O, K) /\ fd.ret \in Int
    BY DEF Adds, KeepsExact, Contexts
  <2>2. Cur(fd).inode[ino].size >= 0 * Width
    <3>1. Cur(fd).inode \in [Inodes -> InodeSet]
      BY CurIn, SafeIs
    <3>2. Cur(fd).inode[ino].size \in Nat
      BY <3>1 DEF InodeSet
    <3> QED
      BY <3>2, Geometry
  <2> QED
    BY <1>1, <1>4, <2>1, <2>2
<1>6. ASSUME NEW k \in 1 .. N, k - 1 \in T PROVE k \in T
  <2> DEFINE s == h[k - 1]
             at == (k - 1) * Width
             chunk == Min({Width, len - at})
             w == fs_write(s, ino, at, chunk, v, uid)
  <2>1. k \in 0 .. N /\ k - 1 < N /\ k \in Nat
    BY <1>1
  <2>2. /\ Adds(s, fd, O, K) /\ s.ret \in Int
        /\ ~(s.ret < 0) => Cur(s).inode[ino].size >= at
    BY <1>6, <2>1
  <2>3. h[k] = CopyTurnOf(s, k - 1, ino, len, v, uid)
    <3>1. h[k] = Turn(Copy(ino, len, v, uid), s, k - 1)
      BY <1>4
    <3> HIDE DEF s
    <3> QED
      BY <3>1, CopyTurn
  <2> HIDE DEF s
  <2>4. /\ at \in Nat /\ chunk \in Nat \ {0} /\ (k < N => at + chunk = k * Width)
    BY ChunkIs DEF N
  <2> HIDE DEF T, chunk, at
  <2>5. CASE s.ret < 0
    <3>2. h[k] = s
      BY <2>3, <2>5, Zenon DEF CopyTurnOf
    <3>1. Done(k)
      BY <2>2, <3>2, <2>5
    <3> QED
      BY <2>1, <3>1 DEF T
  <2>6. CASE ~(s.ret < 0)
    <3>1. s \in Contexts(Safe(O, K)) /\ Cur(s) \in Safe(O, K)
      BY <2>2, AddsIn
    <3>2. Cur(s).inode[ino].size \in Nat
      BY <3>1, SafeIs DEF InodeSet
    <3>3. at <= Cur(s).inode[ino].size
      BY <2>2, <2>4, <2>6, <3>2
    <3>4. /\ Adds(w, s, O, K) /\ w.ret \in Int
          /\ ~(w.ret < 0) => /\ Cur(w).inode[ino].size \in Nat
                             /\ Cur(w).inode[ino].size >= at + chunk
      BY <2>4, <3>1, <3>3, WriteIs
    <3> HIDE DEF w
    <3>5. Adds(w, fd, O, K)
      BY <2>2, <3>4, AddsTrans
    <3>6. h[k] = w
      BY <2>3, <2>6, Zenon DEF CopyTurnOf, w, at, chunk
    <3>7. ~(w.ret < 0) /\ k < N => Cur(w).inode[ino].size >= k * Width
      BY <2>4, <3>4
    <3>8. Done(k)
      BY <3>4, <3>5, <3>6, <3>7
    <3> QED
      BY <2>1, <3>8 DEF T
  <2> QED
    BY <2>5, <2>6
<1>7. \A k \in 0 .. N : k \in T
  <2> HIDE DEF T
  <2> QED
    BY <1>1, <1>5, <1>6, EveryStep
<1>8. Done(N)
  BY <1>1, <1>7
<1> QED
  BY <1>4, <1>8 DEF d, chunks, N

\* A file opened for writing, then written from its start.
LEMMA WriteNewIs ==
  ASSUME NEW O, NEW K \in SUBSET Inodes, NEW c \in Contexts(Safe(O, K)), ReadClear = {},
         NEW ino \in Inodes \ K, NEW len \in Nat \ {0}, NEW v \in Texts, NEW uid
  PROVE  LET d == fs_write(c, ino, 0, len, v, uid)
         IN  /\ Adds(d, c, O, K) /\ d.ret \in Int
             /\ Cur(d).inode[ino].type = Cur(c).inode[ino].type
<1>1. Cur(c).inode[ino].size \in Nat
  BY CurIn, SafeIs DEF InodeSet
<1>2. 0 <= Cur(c).inode[ino].size /\ 0 \in Nat
  BY <1>1
<1> QED
  BY <1>2, WriteIs

WritefOf(c, path, len, v, uid) ==
  LET fd == fs_open(c, path, TRUE, uid)
  IN  IF fd.ret < 0 THEN fd ELSE fs_write(fd, fd.ret, 0, len, v, uid)

LEMMA WritefSplits ==
  ASSUME NEW c, NEW path, NEW len, NEW v, NEW uid
  PROVE  /\ cmd_writef(c, path, len, v, uid) = WritefOf(c, path, len, v, uid)
         /\ users_bootstrap(c) = IF namei(Cur(c), <<".users">>).ret = FS_OK THEN Ret(c, FS_OK)
                                 ELSE WritefOf(c, <<".users">>, 1, "users", 0)
<1>1. cmd_writef(c, path, len, v, uid) = WritefOf(c, path, len, v, uid)
  BY Zenon DEF cmd_writef, WritefOf, IfOk
<1>2. users_bootstrap(c) = IF namei(Cur(c), <<".users">>).ret = FS_OK THEN Ret(c, FS_OK)
                                 ELSE WritefOf(c, <<".users">>, 1, "users", 0)
  BY Zenon DEF users_bootstrap, IfOk, WritefOf
<1> QED
  BY <1>1, <1>2, Zenon

LEMMA WritefOfIs ==
  ASSUME NEW O, NEW K \in SUBSET Inodes, NEW c \in Contexts(Safe(O, K)), FilesOnly(O, K),
         ReadClear = {}, NEW E, NEW path \in Seq(E), path # <<>>, Last(path) \in Spelled,
         NEW len \in Nat \ {0}, NEW v \in Texts, NEW uid \in Uids \cup {0},
         Avoids(Cur(c), path, K, uid)
  PROVE  LET d == WritefOf(c, path, len, v, uid)
         IN  Adds(d, c, O, K) /\ d.ret \in Int
<1> DEFINE fd == fs_open(c, path, TRUE, uid)
           w == fs_write(fd, fd.ret, 0, len, v, uid)
           d == WritefOf(c, path, len, v, uid)
<1>1. /\ Adds(fd, c, O, K) /\ fd.ret \in Int
      /\ ~(fd.ret < 0) => fd.ret \in Inodes \ K
  BY OpenIs
<1>2. d = IF fd.ret < 0 THEN fd ELSE w
  BY Zenon DEF WritefOf
<1> HIDE DEF fd, d
<1>3. CASE fd.ret < 0
  BY <1>1, <1>2, <1>3 DEF d
<1>4. CASE ~(fd.ret < 0)
  <2>1. fd \in Contexts(Safe(O, K)) /\ fd.ret \in Inodes \ K
    BY <1>1, <1>4, AddsIn
  <2>2. Adds(w, fd, O, K) /\ w.ret \in Int
    BY <2>1, WriteNewIs
  <2> HIDE DEF w
  <2>3. Adds(w, c, O, K)
    BY <1>1, <2>2, AddsTrans
  <2> QED
    BY <1>2, <1>4, <2>2, <2>3 DEF d
<1> QED
  BY <1>3, <1>4

LEMMA BootstrapIs ==
  ASSUME NEW O, NEW K \in SUBSET Inodes, NEW c \in Contexts(Safe(O, K)), FilesOnly(O, K),
         ReadClear = {}
  PROVE  LET d == users_bootstrap(c)
         IN  Adds(d, c, O, K) /\ d.ret \in Int
<1> DEFINE d == users_bootstrap(c)
           path == <<".users">>
           w == WritefOf(c, path, 1, "users", 0)
           r == namei(Cur(c), path)
<1>1. d = IF r.ret = FS_OK THEN Ret(c, FS_OK) ELSE w
  BY Zenon, WritefSplits
<1> HIDE DEF d
<1>2. CASE r.ret = FS_OK
  <2>1. d = Ret(c, FS_OK) /\ FS_OK \in Int
    BY <1>1, <1>2 DEF FS_OK
  <2> QED
    BY <2>1, AddsRet DEF d
<1>3. CASE r.ret # FS_OK
  <2>1. Avoids(Cur(c), path, K, 0)
    BY <1>3 DEF Avoids
  <2>2. /\ path \in Seq({".users"}) /\ path # <<>> /\ Last(path) = ".users"
    BY DEF Last
  <2>3. Last(path) \in Spelled /\ "users" \in Texts /\ 1 \in Nat \ {0} /\ 0 \in Uids \cup {0}
    BY <2>2 DEF Spelled, Texts
  <2> HIDE DEF path
  <2>4. Adds(w, c, O, K) /\ w.ret \in Int
    BY <2>1, <2>2, <2>3, WritefOfIs
  <2> QED
    BY <1>1, <1>3, <2>4 DEF d
<1> QED
  BY <1>2, <1>3

LEMMA WritefileIs ==
  ASSUME NEW O, NEW K \in SUBSET Inodes, NEW c \in Contexts(Safe(O, K)), FilesOnly(O, K),
         ReadClear = {}, NEW E, NEW path \in Seq(E), path # <<>>, Last(path) \in Spelled,
         NEW len \in Nat \ {0}, NEW v \in Texts, NEW uid \in Uids \cup {0},
         Avoids(Cur(c), path, K, uid)
  PROVE  LET d == cmd_writefile(c, path, len, v, uid)
         IN  Adds(d, c, O, K) /\ d.ret \in Int
<1> DEFINE fd == fs_open(c, path, TRUE, uid)
           w == CopyAll(fd, [n \in 1 .. (len + Width - 1) \div Width |-> n - 1],
                        fd.ret, len, v, uid)
           d == cmd_writefile(c, path, len, v, uid)
<1>1. /\ Adds(fd, c, O, K) /\ fd.ret \in Int
      /\ ~(fd.ret < 0) => fd.ret \in Inodes \ K
  BY OpenIs
<1>2. d = IF fd.ret < 0 THEN fd ELSE w
  BY Zenon DEF cmd_writefile, CopyAll, IfOk
<1> HIDE DEF fd, d
<1>3. CASE fd.ret < 0
  BY <1>1, <1>2, <1>3 DEF d
<1>4. CASE ~(fd.ret < 0)
  <2>1. fd \in Contexts(Safe(O, K)) /\ fd.ret \in Inodes \ K
    BY <1>1, <1>4, AddsIn
  <2>2. Adds(w, fd, O, K) /\ w.ret \in Int
    BY <2>1, CopyAllIs
  <2> HIDE DEF w
  <2>3. Adds(w, c, O, K)
    BY <1>1, <2>2, AddsTrans
  <2> QED
    BY <1>2, <1>4, <2>2, <2>3 DEF d
<1> QED
  BY <1>3, <1>4

\* The new directory: its inode and its two entries, the results not looked at.
Dotted(s, ino, parent) ==
  dir_add(dir_add(s, ino, ".", "dir", ino), ino, "..", "dir", parent)

LEMMA DottedIs ==
  ASSUME NEW O, NEW K \in SUBSET Inodes, NEW s \in Contexts(Safe(O, K)), FilesOnly(O, K),
         ReadClear = {}, NEW ino \in Inodes, NEW parent \in Inodes
  PROVE  LET d == Dotted(s, ino, parent)
         IN  Adds(d, s, O, K) /\ d \in Contexts(Safe(O, K))
<1> DEFINE e == dir_add(s, ino, ".", "dir", ino)
           d == dir_add(e, ino, "..", "dir", parent)
<1>1. "." \in Spelled /\ ".." \in Spelled
  BY DEF Spelled
<1>2. Adds(e, s, O, K)
  BY <1>1, DirAddIs
<1>3. e \in Contexts(Safe(O, K))
  BY <1>2, AddsIn
<1> HIDE DEF e
<1>4. Adds(d, e, O, K)
  BY <1>1, <1>3, DirAddIs
<1>5. Adds(d, s, O, K)
  BY <1>2, <1>4, AddsTrans
<1> QED
  BY <1>5, AddsIn DEF Dotted, e

LEMMA MkdirSplits ==
  ASSUME NEW c, NEW path, NEW uid
  PROVE  LET parent == namei(Cur(c), Front(path))
             a == alloc_inode(c)
         IN  cmd_mkdir(c, path, uid)
               = IF parent.ret # FS_OK THEN Ret(c, FS_ERR)
                 ELSE IF a.ret < 0 THEN a
                 ELSE dir_add(Dotted(Fetched(c, "dir", uid), a.ret, parent.ino),
                              parent.ino, Last(path), "dir", a.ret)
<1> DEFINE parent == namei(Cur(c), Front(path))
           a == alloc_inode(c)
           rest == IfOk(alloc_inode(c), LAMBDA b :
                     dir_add(Dotted(write_inode(b, b.ret, NewInode("dir", uid)), b.ret, parent.ino),
                             parent.ino, Last(path), "dir", b.ret))
<1>1. cmd_mkdir(c, path, uid) = IF parent.ret # FS_OK THEN Ret(c, FS_ERR) ELSE rest
  BY Zenon DEF cmd_mkdir, Then, Dotted
<1> HIDE DEF parent
<1>2. rest = IF a.ret < 0 THEN a
             ELSE dir_add(Dotted(Fetched(c, "dir", uid), a.ret, parent.ino),
                          parent.ino, Last(path), "dir", a.ret)
  BY Zenon DEF IfOk, Fetched
<1> QED
  BY <1>1, <1>2, Zenon DEF parent

LEMMA MkdirIs ==
  ASSUME NEW O, NEW K \in SUBSET Inodes, NEW c \in Contexts(Safe(O, K)), FilesOnly(O, K),
         ReadClear = {}, NEW E, NEW path \in Seq(E), path # <<>>, Last(path) \in Spelled,
         NEW uid \in Uids \cup {0}
  PROVE  LET d == cmd_mkdir(c, path, uid)
         IN  Adds(d, c, O, K) /\ d.ret \in Int
<1> DEFINE im == Cur(c)
           parent == namei(im, Front(path))
           a == alloc_inode(c)
           s == Fetched(c, "dir", uid)
           t == Dotted(s, a.ret, parent.ino)
           z == dir_add(t, parent.ino, Last(path), "dir", a.ret)
           d == cmd_mkdir(c, path, uid)
<1>1. d = IF parent.ret # FS_OK THEN Ret(c, FS_ERR) ELSE IF a.ret < 0 THEN a ELSE z
  BY Zenon, MkdirSplits
<1>2. im \in Images
  BY CurIn, SafeIs
<1>3. Front(path) \in Seq(E)
  <2>1. Len(path) - 1 \in 0 .. Len(path)
    OBVIOUS
  <2> QED
    BY <2>1 DEF Front
<1>4. parent.ret = FS_OK => parent.ino \in Inodes
  BY <1>2, <1>3, NameiIs
<1>5. /\ Adds(a, c, O, K) /\ a.ret \in Int
      /\ ~(a.ret < 0) => Adds(s, c, O, K) /\ a.ret \in Inodes \ Cur(c).imap /\ a.ret \notin K
  BY FetchedIs
<1> HIDE DEF d, parent, a, s
<1>6. CASE parent.ret # FS_OK
  <2>1. d = Ret(c, FS_ERR) /\ FS_ERR \in Int
    BY <1>1, <1>6 DEF FS_ERR
  <2> QED
    BY <2>1, AddsRet DEF d
<1>7. CASE parent.ret = FS_OK /\ a.ret < 0
  BY <1>1, <1>5, <1>7 DEF d
<1>8. CASE parent.ret = FS_OK /\ ~(a.ret < 0)
  <2>1. parent.ino \in Inodes /\ a.ret \in Inodes /\ Adds(s, c, O, K)
    BY <1>4, <1>5, <1>8
  <2>2. s \in Contexts(Safe(O, K))
    BY <2>1, AddsIn
  <2>3. Adds(t, s, O, K) /\ t \in Contexts(Safe(O, K))
    BY <2>1, <2>2, DottedIs
  <2> HIDE DEF t
  <2>4. Adds(z, t, O, K) /\ z.ret \in Int
    BY <2>1, <2>3, DirAddIs
  <2>5. Adds(z, c, O, K)
    BY <2>1, <2>3, <2>4, AddsTrans
  <2>6. d = z
    BY <1>1, <1>8
  <2> QED
    BY <2>4, <2>5, <2>6 DEF d
<1> QED
  BY <1>6, <1>7, <1>8

-----------------------------------------------------------------------------
(* cli.c: the other commands.  They need no image to be left alone. *)

Sound == Safe({ZeroImage}, {})
Keeps(d, c) == Adds(d, c, {ZeroImage}, {})

LEMMA NoneKept == {} \in SUBSET Inodes /\ FilesOnly({ZeroImage}, {})
BY DEF FilesOnly

LEMMA NothingAvoided ==
  ASSUME NEW im, NEW path, NEW uid
  PROVE  Avoids(im, path, {}, uid)
BY DEF Avoids

LEMMA ReadfIs ==
  ASSUME NEW c \in Contexts(Sound), ReadClear = {}, NEW E, NEW path \in Seq(E),
         NEW uid \in Uids \cup {0}
  PROVE  LET d == cmd_readf(c, path, uid)
         IN  Keeps(d, c) /\ d.ret \in Int
<1> DEFINE fd == fs_open(c, path, FALSE, uid)
           w == fs_read(fd, fd.ret, uid)
           d == cmd_readf(c, path, uid)
<1>1. /\ Adds(fd, c, {ZeroImage}, {}) /\ fd.ret \in Int
      /\ ~(fd.ret < 0) => fd.ret \in Inodes
  BY NoneKept, OpenIs DEF Sound
<1>2. d = IF fd.ret < 0 THEN fd ELSE w
  BY Zenon DEF cmd_readf, IfOk
<1> HIDE DEF fd, d
<1>3. CASE fd.ret < 0
  BY <1>1, <1>2, <1>3 DEF d, Keeps
<1>4. CASE ~(fd.ret < 0)
  <2>1. fd \in Contexts(Safe({ZeroImage}, {})) /\ fd.ret \in Inodes \ {}
    BY <1>1, <1>4, AddsIn
  <2>2. Adds(w, fd, {ZeroImage}, {}) /\ w.ret \in Int
    BY <2>1, NoneKept, ReadIs
  <2> HIDE DEF w
  <2>3. Adds(w, c, {ZeroImage}, {})
    BY <1>1, <2>2, AddsTrans
  <2> QED
    BY <1>2, <1>4, <2>2, <2>3 DEF d, Keeps
<1> QED
  BY <1>3, <1>4

LEMMA LookIs ==
  ASSUME NEW c \in Contexts(Sound), NEW E, NEW path \in Seq(E)
  PROVE  /\ Keeps(cmd_cd(c, path), c) /\ Keeps(cmd_ls(c, path), c) /\ Keeps(cmd_fd(c), c)
         /\ cmd_cd(c, path).ret \in Int /\ cmd_ls(c, path).ret \in Int /\ cmd_fd(c).ret \in Int
<1> DEFINE r == namei(Cur(c), path)
           x == CASE r.ret # FS_OK -> FS_ENOENT
                  [] Cur(c).inode[r.ino].type # "dir" -> FS_ENOTDIR
                  [] OTHER -> FS_OK
<1>1. Cur(c) \in Images
  BY CurIn, SafeIs DEF Sound
<1>2. r.ret \in Int
  BY <1>1, NameiIs
<1>3. x \in Int /\ FS_EBADF \in Int
  BY DEF FS_ENOENT, FS_ENOTDIR, FS_OK, FS_EBADF
<1>4. cmd_ls(c, path) = Ret(c, x)
  BY Zenon DEF cmd_ls, Then
<1>5. cmd_cd(c, path) = Ret(c, r.ret) /\ cmd_fd(c) = Ret(c, FS_EBADF)
  BY DEF cmd_cd, cmd_fd
<1> HIDE DEF x, r
<1> QED
  BY <1>2, <1>3, <1>4, <1>5, AddsRet DEF Sound, Keeps

LEMMA ChmodIs ==
  ASSUME NEW c \in Contexts(Sound), NEW E, NEW path \in Seq(E), NEW mode \in Modes, NEW uid
  PROVE  LET d == cmd_chmod(c, path, mode, uid)
         IN  Keeps(d, c) /\ d.ret \in Int
<1> DEFINE im == Cur(c)
           r == namei(im, path)
           in == im.inode[r.ino]
           in2 == [in EXCEPT !.mode = mode]
           d == cmd_chmod(c, path, mode, uid)
<1>1. d = IF r.ret # FS_OK THEN Ret(c, FS_ENOENT)
          ELSE IF uid # 0 /\ in.uid # uid THEN Ret(c, FS_EPERM)
          ELSE write_inode(c, r.ino, in2)
  BY Zenon DEF cmd_chmod, Then
<1> HIDE DEF d
<1>2. im \in Safe({ZeroImage}, {}) /\ im \in Images
  BY CurIn, SafeIs DEF Sound
<1>3. r.ret = FS_OK => r.ino \in Inodes
  BY <1>2, NameiIs
<1> HIDE DEF r
<1>4. FS_ENOENT \in Int /\ FS_EPERM \in Int
  BY DEF FS_ENOENT, FS_EPERM
<1>5. CASE r.ret # FS_OK
  BY <1>1, <1>4, <1>5, AddsRet DEF Sound, Keeps, d
<1>6. CASE r.ret = FS_OK /\ uid # 0 /\ in.uid # uid
  BY <1>1, <1>4, <1>6, AddsRet DEF Sound, Keeps, d
<1>7. CASE r.ret = FS_OK /\ ~(uid # 0 /\ in.uid # uid)
  <2>1. d = write_inode(c, r.ino, in2)
    BY <1>1, <1>7
  <2>2. r.ino \in Inodes \ {} /\ in \in InodeSet
    BY <1>2, <1>3, <1>7, FieldsIn
  <2>3. in2 \in InodeSet /\ SamePtrs(in, in2) /\ in2.size = in.size /\ in2.type = in.type
    BY <2>2, InodeFields
  <2> HIDE DEF in2
  <2>4. PutInode(im, r.ino, in2) \in Safe({ZeroImage}, {}) /\ SameBits(PutInode(im, r.ino, in2), im)
    BY <1>2, <2>2, <2>3, NoneKept, SameWritten
  <2>5. LET w == write_inode(c, r.ino, in2) IN Adds(w, c, {ZeroImage}, {}) /\ w.ret = 0
    BY <2>4, WriteInodeIs DEF Sound
  <2> QED
    BY <2>1, <2>5 DEF Keeps, d
<1> QED
  BY <1>5, <1>6, <1>7

-----------------------------------------------------------------------------
(* cli.c: delete.  Between its writes the image is none of Sound: names of  *)
(* free inodes, pointers to free blocks.                                   *)

\* What is asked of the images on the way.
Kept(O, K) == {im \in Images : Untouched(O, im, K)}

\* d leaves a sound image, whatever the images before it.
Leaves(d, c, O, K) ==
  d \in Contexts(Kept(O, K)) /\ Cur(d) \in Safe(O, K) /\ KeepsExact(d, c)

LEMMA SoundIs == Sound \subseteq Images /\ Closed(Sound)
BY SafeClosed DEF Sound, Closed

LEMMA KeptIs ==
  ASSUME NEW O, NEW K
  PROVE  /\ Safe(O, K) \subseteq Kept(O, K) /\ Kept(O, K) \subseteq Images
         /\ \A i : i \notin K => BitsFree(Kept(O, K), i)
<1>1. ASSUME NEW i, i \notin K, NEW im \in Kept(O, K), NEW new \in Images,
             new.inode = im.inode, new.block = im.block, im.imap \ {i} \subseteq new.imap
      PROVE  new \in Kept(O, K)
  <2>1. AsIn(im, new, K)
    BY <1>1 DEF AsIn
  <2> QED
    BY <1>1, <2>1, StillUntouched DEF Kept
<1> QED
  BY <1>1 DEF Kept, Safe, BitsFree

LEMMA LeavesIs ==
  ASSUME NEW O, NEW K, NEW c, NEW d, Adds(d, c, O, K)
  PROVE  Leaves(d, c, O, K)
<1>1. d \in Contexts(Safe(O, K)) /\ KeepsExact(d, c)
  BY DEF Adds
<1>2. d \in Contexts(Kept(O, K)) /\ Cur(d) \in Safe(O, K)
  BY <1>1, KeptIs, ContextsMono, CurIn
<1> QED
  BY <1>1, <1>2 DEF Leaves

\* The pointers of an inode, and the list of them truncate goes through.
Held(block, in) == {Ptr(block, in, n) : n \in Places}
Listed(im, in) ==
  InOrder(in.direct, NDirect)
  \o (IF in.indirect = NilBlock THEN <<>>
      ELSE InOrder(Table(im, in.indirect), Width) \o <<in.indirect>>)

LEMMA ListedIs ==
  ASSUME NEW im \in Images, NEW in \in InodeSet
  PROVE  Listed(im, in) \in Seq(Held(im.block, in))
<1> DEFINE H == Held(im.block, in)
           direct == InOrder(in.direct, NDirect)
           table == InOrder(Table(im, in.indirect), Width)
<1>1. direct \in Seq(H)
  <2>1. ASSUME NEW k \in 1 .. NDirect
        PROVE  in.direct[k - 1] \in H
    <3>1. k - 1 \in Places /\ k - 1 < NDirect
      BY Geometry DEF Places
    <3>2. Ptr(im.block, in, k - 1) = in.direct[k - 1]
      BY <3>1 DEF Ptr
    <3> QED
      BY <3>1, <3>2 DEF Held
  <2> HIDE DEF H
  <2> QED
    BY <2>1, Geometry DEF InOrder
<1>2. CASE in.indirect = NilBlock
  <2>1. Listed(im, in) = direct \o <<>>
    BY <1>2 DEF Listed
  <2> HIDE DEF direct, H
  <2> QED
    BY <1>1, <2>1 DEF H
<1>3. CASE in.indirect # NilBlock
  <2>1. table \in Seq(H)
    <3>1. ASSUME NEW k \in 1 .. Width
          PROVE  Table(im, in.indirect)[k - 1] \in H
      <4>1. /\ NDirect + (k - 1) \in Places /\ ~(NDirect + (k - 1) < NDirect)
            /\ NDirect + (k - 1) # TablePlace /\ k - 1 \in 0 .. Width - 1
            /\ NDirect + (k - 1) - NDirect = k - 1
        BY Geometry DEF Places, TablePlace
      <4> DEFINE n == NDirect + (k - 1)
      <4> HIDE DEF n
      <4>4. n \in Places /\ ~(n < NDirect) /\ n # TablePlace /\ n - NDirect = k - 1
        BY Geometry DEF n, Places, TablePlace
      <4>2. Ptr(im.block, in, n) = AsPointer(im.block[in.indirect][k - 1])
        BY <1>3, <4>4, Zenon DEF Ptr
      <4>3. Table(im, in.indirect)[k - 1] = AsPointer(im.block[in.indirect][k - 1])
        BY <4>1 DEF Table
      <4> QED
        BY <4>2, <4>3, <4>4 DEF Held
    <3> HIDE DEF H
    <3> QED
      BY <3>1, Geometry DEF InOrder
  <2>2. in.indirect \in H
    BY TablePlaceIs DEF Held
  <2>3. Listed(im, in) = direct \o (table \o <<in.indirect>>)
    BY <1>3 DEF Listed
  <2> HIDE DEF direct, table, H
  <2> QED
    BY <1>1, <2>1, <2>2, <2>3 DEF H
<1> QED
  BY <1>2, <1>3

\* What the loop of truncate has done so far.
Freed(d, c, J, H) ==
  /\ d \in Contexts(J) /\ KeepsExact(d, c)
  /\ Cur(d).inode = Cur(c).inode /\ Cur(d).block = Cur(c).block
  /\ Cur(c).bmap \ H \subseteq Cur(d).bmap

LEMMA FreeAllIs ==
  ASSUME NEW J, NEW i, BitsFree(J, i), NEW c \in Contexts(J), NEW H \in SUBSET Ptrs,
         NEW listed \in Seq(H)
  PROVE  Freed(FreeAll(c, listed), c, J, H)
<1>1. PICK h : Through(h, Freeing, c, listed, FreeAll(c, listed))
  BY FreeAllSteps
<1> DEFINE T == {k \in Nat : Freed(h[k], c, J, H)}
<1>2. 0 \in T
  BY <1>1 DEF Through, Freed, KeepsExact
<1>3. ASSUME NEW k \in 1 .. Len(listed), k - 1 \in T
      PROVE  k \in T
  <2> DEFINE s == h[k - 1]
             x == listed[k]
             d == free_block(s, x)
  <2>1. h[k] = d
    BY <1>1, Turns DEF Through
  <2>2. x \in H /\ x \in Ptrs
    BY <1>3
  <2>3. Freed(s, c, J, H)
    BY <1>3
  <2>5. d \in Contexts(J) /\ FreesBlock(d, s, x) /\ KeepsExact(d, s)
    BY <2>2, <2>3, FreeBlockIs DEF Freed
  <2> HIDE DEF d, s, x
  <2>6. Freed(d, c, J, H)
    BY <2>2, <2>3, <2>5 DEF Freed, FreesBlock, BitsOnly, KeepsExact
  <2> QED
    BY <2>1, <2>6
<1>4. Len(listed) \in Nat
  OBVIOUS
<1> HIDE DEF T
<1>5. \A k \in 0 .. Len(listed) : k \in T
  BY <1>2, <1>3, <1>4, EveryStep
<1>6. Len(listed) \in T
  BY <1>4, <1>5
<1> QED
  BY <1>1, <1>6 DEF T, Through

LEMMA TruncateIs ==
  ASSUME NEW O, NEW K \in SUBSET Inodes, NEW c \in Contexts(Safe(O, K)),
         NEW ino \in Inodes \ K
  PROVE  Leaves(inode_truncate(c, ino), c, O, K)
<1> DEFINE J == Kept(O, K)
           im == Cur(c)
           in == im.inode[ino]
           listed == Listed(im, in)
           s == FreeAll(c, listed)
           in2 == Fresh(in.type, in.uid, in.mode)
           d == inode_truncate(c, ino)
<1>1. d = write_inode(s, ino, in2)
  BY Zenon DEF inode_truncate, FreeAll, Listed, Fresh
<1>2. /\ im \in Images /\ Owns(im.bmap, im.block, im.inode) /\ in \in InodeSet
      /\ \A i \in Inodes : Full(im.block, im.inode[i])
      /\ im.inode \in [Inodes -> InodeSet] /\ im.block \in [Blocks -> Contained]
  BY CurIn, SafeIs
<1> DEFINE H == Held(im.block, in)
<1>3. H \in SUBSET Ptrs
  BY <1>2, PtrIn DEF Held, Owns
<1>4. listed \in Seq(H)
  BY <1>2, ListedIs
<1>5. c \in Contexts(J) /\ BitsFree(J, ino) /\ J \subseteq Images
  BY KeptIs, ContextsMono
<1> HIDE DEF listed
<1>6. Freed(s, c, J, H)
  BY <1>3, <1>4, <1>5, FreeAllIs
<1> HIDE DEF s, d
<1> DEFINE now == Cur(s)
           new == PutInode(now, ino, in2)
<1>7. /\ s \in Contexts(J) /\ now \in J /\ now \in Images
      /\ now.inode = im.inode /\ now.block = im.block
  BY <1>5, <1>6, CurIn DEF Freed
<1>8. in2 \in InodeSet /\ Empty(in2) /\ in2.size = 0
  <2>1. in.type \in {"none", "reg", "dir"} /\ in.uid \in Uids \cup {0} /\ in.mode \in Modes
    BY <1>2 DEF InodeSet
  <2> QED
    BY <2>1, FreshIs
<1> HIDE DEF in2
<1>9. /\ new \in Images /\ new.inode = Put(im.inode, ino, in2) /\ new.block = im.block
      /\ SameBits(new, now)
  BY <1>7, <1>8, PutInodeIs
<1>10. \A j \in Inodes, n \in Places :
         j # ino => Ptr(im.block, im.inode[j], n) \in now.bmap \cup {NilBlock}
  <2> SUFFICES ASSUME NEW j \in Inodes, NEW n \in Places, j # ino,
                      Ptr(im.block, im.inode[j], n) # NilBlock
               PROVE  Ptr(im.block, im.inode[j], n) \in now.bmap
    OBVIOUS
  <2> DEFINE b == Ptr(im.block, im.inode[j], n)
  <2>1. b \in im.bmap
    BY <1>2 DEF Owns, Marked
  <2>2. b \notin H
    BY <1>2 DEF Owns, Apart, Held
  <2> QED
    BY <1>6, <2>1, <2>2 DEF Freed
<1>11. Owns(now.bmap, im.block, Put(im.inode, ino, in2))
  BY <1>2, <1>8, <1>10, DropInode DEF Owns
<1>12. ASSUME NEW j \in Inodes
       PROVE  Full(new.block, new.inode[j])
  <2>1. new.inode[j] = IF j = ino THEN in2 ELSE im.inode[j]
    BY <1>2, <1>8, <1>9, PutInodesIs
  <2>2. CASE j = ino
    <3>1. \A n \in Places : ~(n * Width < 0)
      BY Geometry DEF Places
    <3>2. \A n \in Places : Ptr(new.block, in2, n) = NilBlock
      BY <1>8, EmptyPtr
    <3> QED
      BY <1>8, <2>1, <2>2, <3>1, <3>2 DEF Full
  <2>3. CASE j # ino
    BY <1>2, <1>9, <2>1, <2>3
  <2> QED
    BY <2>2, <2>3
<1>17. Untouched(O, new, K)
  <2>1. ASSUME NEW j \in K
        PROVE  new.inode[j] = now.inode[j]
    <3>1. j \in Inodes /\ j # ino
      OBVIOUS
    <3>2. new.inode[j] = IF j = ino THEN in2 ELSE im.inode[j]
      BY <1>2, <1>8, <1>9, <3>1, PutInodesIs
    <3> QED
      BY <1>7, <3>1, <3>2
  <2>2. AsIn(now, new, K)
    BY <1>7, <1>9, <2>1 DEF AsIn, SameBits
  <2> QED
    BY <1>7, <2>2, StillUntouched DEF Kept
<1>13. new \in Safe(O, K) /\ new \in J
  BY <1>9, <1>11, <1>12, <1>17, KeptIs DEF Safe, Good, SameBits
<1> HIDE DEF new
<1>14. write_inode(s, ino, in2) = DevWrite(s, new)
  BY DEF write_inode, PutInode, new
<1>15. DevWrite(s, new) \in Contexts(J) /\ Cur(DevWrite(s, new)) = new
  BY <1>7, <1>13, DevWriteIn DEF Wrote
<1>16. KeepsExact(DevWrite(s, new), c)
  BY <1>6, <1>9, <1>15, SameBitsExact DEF Freed, KeepsExact
<1> QED
  BY <1>1, <1>13, <1>14, <1>15, <1>16 DEF Leaves, d

LEMMA LeavesRet ==
  ASSUME NEW O, NEW K, NEW c, NEW d, Leaves(d, c, O, K), NEW r \in Int
  PROVE  Leaves(Ret(d, r), c, O, K) /\ Ret(d, r).ret = r
BY RetIn DEF Leaves, KeepsExact

LEMMA FreeAndRemoveIs ==
  ASSUME NEW O, NEW K \in SUBSET Inodes, FilesOnly(O, K), NEW c \in Contexts(Safe(O, K)),
         NEW path, NEW ino \in Inodes \ K
  PROVE  LET d == FreeAndRemove(c, path, ino)
         IN  Leaves(d, c, O, K) /\ d.ret \in Int
<1> DEFINE J == Kept(O, K)
           t == inode_truncate(c, ino)
           s == free_inode(t, ino)
           dir == ParentOf(Cur(s), path)
           e == dir_remove(s, dir, Last(path))
           d == FreeAndRemove(c, path, ino)
<1>1. d = Ret(e, FS_OK)
  BY Zenon DEF FreeAndRemove, Then
<1>9. FS_OK \in Int
  BY DEF FS_OK
<1>2. Leaves(t, c, O, K)
  BY TruncateIs
<1> HIDE DEF t, d
<1>3. BitsFree(J, ino) /\ Safe(O, K) \subseteq J
  BY KeptIs
<1>4. s \in Contexts(J) /\ FreesInode(s, t, ino) /\ KeepsExact(s, t)
  BY <1>2, <1>3, FreeInodeIs DEF Leaves
<1> HIDE DEF s
<1>5. Cur(s) \in Safe(O, K)
  <2>1. /\ Cur(s) \in J /\ Cur(t) \in Safe(O, K)
        /\ Cur(s).inode = Cur(t).inode /\ Cur(s).block = Cur(t).block
        /\ Cur(s).bmap = Cur(t).bmap
    BY <1>2, <1>4, CurIn DEF FreesInode, BitsOnly, Leaves
  <2>2. Good(Cur(t))
    BY <2>1 DEF Safe
  <2>3. Good(Cur(s))
    BY <2>1, <2>2 DEF Good
  <2> QED
    BY <2>1, <2>3 DEF Safe, Kept
<1> HIDE DEF dir
<1>7. e \in Contexts(J) /\ Cur(e) \in Safe(O, K) /\ KeepsExact(e, s)
  <2> HIDE DEF J
  <2> QED
    BY <1>3, <1>4, <1>5, DirRemoveIs
<1> HIDE DEF e
<1>8. Leaves(e, c, O, K)
  BY <1>2, <1>4, <1>7 DEF Leaves, KeepsExact
<1> QED
  BY <1>1, <1>8, <1>9, LeavesRet DEF d

\* The path names none of K.
Misses(im, path, K) ==
  LET r == namei(im, path) IN r.ret = FS_OK => r.ino \notin K

LEMMA DeleteIs ==
  ASSUME NEW O, NEW K \in SUBSET Inodes, FilesOnly(O, K), NEW c \in Contexts(Safe(O, K)),
         NEW E, NEW path \in Seq(E), Misses(Cur(c), path, K)
  PROVE  LET d == cmd_delete(c, path)
         IN  Leaves(d, c, O, K) /\ d.ret \in Int
<1> DEFINE r == namei(Cur(c), path)
           in == Cur(c).inode[r.ino]
           e == FreeAndRemove(c, path, r.ino)
           d == cmd_delete(c, path)
<1>1. d = IF r.ret # FS_OK THEN Ret(c, FS_ENOENT)
          ELSE IF in.type = "dir" /\ in.size > 2 THEN Ret(c, FS_ERR) ELSE e
  BY Zenon DEF cmd_delete, Then
<1> HIDE DEF d
<1>2. Cur(c) \in Images
  BY CurIn, SafeIs
<1>3. r.ret = FS_OK => r.ino \in Inodes \ K
  BY <1>2, NameiIs DEF Misses
<1> HIDE DEF r
<1>4. Leaves(Ret(c, FS_ENOENT), c, O, K) /\ Ret(c, FS_ENOENT).ret \in Int
  BY AddsRet, LeavesIs DEF FS_ENOENT
<1>5. Leaves(Ret(c, FS_ERR), c, O, K) /\ Ret(c, FS_ERR).ret \in Int
  BY AddsRet, LeavesIs DEF FS_ERR
<1>6. r.ret = FS_OK => Leaves(e, c, O, K) /\ e.ret \in Int
  BY <1>3, FreeAndRemoveIs
<1> HIDE DEF e
<1>7. d = Ret(c, FS_ENOENT) \/ d = Ret(c, FS_ERR) \/ (r.ret = FS_OK /\ d = e)
  BY <1>1
<1> QED
  BY <1>4, <1>5, <1>6, <1>7 DEF d

-----------------------------------------------------------------------------
(* fs.c: format and mount *)

\* The two structures that hold the counters, written as format writes them.
Laid(s, blocks, inodes) ==
  LET n == [live |-> TRUE, blocks |-> blocks, inodes |-> inodes]
      t == DevWrite(s, [Cur(s) EXCEPT !.magic = TRUE, !.sb = n])
  IN  DevWrite(t, [Cur(t) EXCEPT !.gd = [blocks |-> blocks, inodes |-> inodes, tail |-> n]])

\* The bits, inodes and blocks of two images are the same.
SameData(new, im) ==
  /\ new.inode = im.inode /\ new.block = im.block
  /\ new.bmap = im.bmap /\ new.imap = im.imap

LEMMA SetMagic ==
  ASSUME NEW im \in Images, NEW m \in BOOLEAN
  PROVE  LET new == [im EXCEPT !.magic = m]
         IN  new \in Images /\ SameData(new, im)
BY DEF Images, SameData

LEMMA SameDataSound ==
  ASSUME NEW im \in Sound, NEW new \in Images, SameData(new, im)
  PROVE  new \in Sound
BY SoundIs DEF Closed, SameFiles, SameData

LEMMA LaidIs ==
  ASSUME NEW s \in Contexts(Sound), NEW blocks \in Int, NEW inodes \in Int
  PROVE  LET d == Laid(s, blocks, inodes)
         IN  /\ d \in Contexts(Sound) /\ Cur(d) \in Sound /\ SameData(Cur(d), Cur(s))
             /\ Counted(Cur(d), blocks, inodes)
<1> DEFINE n == [live |-> TRUE, blocks |-> blocks, inodes |-> inodes]
           g == [blocks |-> blocks, inodes |-> inodes, tail |-> n]
           im0 == [Cur(s) EXCEPT !.magic = TRUE]
           im1 == [im0 EXCEPT !.sb = n]
           t == DevWrite(s, im1)
           im2 == [Cur(t) EXCEPT !.gd = g]
           d == DevWrite(t, im2)
<1>1. Cur(s) \in Sound /\ Cur(s) \in Images
  BY CurIn, SoundIs
<1>2. n \in Counts /\ g \in Groups
  BY DEF Counts, Groups
<1>3. Laid(s, blocks, inodes) = d
  BY DEF Laid
<1> HIDE DEF n, g
<1>4. im1 \in Images /\ SameData(im1, Cur(s)) /\ im1.sb = n
  <2>1. im0 \in Images /\ SameData(im0, Cur(s))
    BY <1>1, SetMagic
  <2> HIDE DEF im0
  <2> QED
    BY <1>2, <2>1, SetSb DEF SameData
<1>5. im1 \in Sound
  BY <1>1, <1>4, SameDataSound
<1> HIDE DEF im1
<1>6. t \in Contexts(Sound) /\ Cur(t) = im1
  BY <1>5, DevWriteIn DEF Wrote
<1> HIDE DEF t
<1>7. /\ im2 \in Images /\ im2.gd = g /\ im2.sb = n /\ SameData(im2, Cur(s))
  BY <1>2, <1>4, <1>6, SetGd DEF SameData
<1>8. im2 \in Sound
  BY <1>1, <1>7, SameDataSound
<1> HIDE DEF im2
<1>9. d \in Contexts(Sound) /\ Cur(d) = im2
  BY <1>6, <1>8, DevWriteIn DEF Wrote
<1>10. Counted(im2, blocks, inodes)
  BY <1>7 DEF Counted, n, g
<1> QED
  BY <1>3, <1>7, <1>8, <1>9, <1>10

LEMMA ZeroImageIs ==
  /\ ZeroImage \in Sound /\ ZeroImage.bmap = {} /\ ZeroImage.imap = {}
<1>1. ZeroImage \in Images
  <2>1. NoInode \in InodeSet
    BY Geometry, Ranges DEF NoInode, InodeSet, Modes, Capacity, NilBlock
  <2>2. ZeroBlock \in Contained
    BY ZeroContained
  <2>3. ZeroCounters \in Counts
    BY DEF ZeroCounters, Counts
  <2> QED
    BY <2>1, <2>2, <2>3 DEF ZeroImage, Images, Groups
<1>2. \A i \in Inodes : ZeroImage.inode[i] = NoInode
  BY DEF ZeroImage
<1>3. Empty(NoInode) /\ NoInode.type # "reg"
  BY DEF Empty, NoInode
<1>4. \A i \in Inodes : /\ TableOf(ZeroImage.block, ZeroImage.inode[i])
                        /\ \A n \in Places : Ptr(ZeroImage.block, ZeroImage.inode[i], n) = NilBlock
  BY <1>2, <1>3, EmptyPtr
<1>5. Owns(ZeroImage.bmap, ZeroImage.block, ZeroImage.inode)
  BY <1>4 DEF Owns, Apart, Marked
<1>6. \A i \in Inodes : Full(ZeroImage.block, ZeroImage.inode[i])
  BY <1>2, <1>3 DEF Full
<1>7. ZeroImage.bmap = {} /\ ZeroImage.imap = {}
  BY DEF ZeroImage
<1>8. Untouched({ZeroImage}, ZeroImage, {})
  BY DEF Untouched, AsIn
<1> QED
  BY <1>1, <1>5, <1>6, <1>7, <1>8 DEF Sound, Safe, Good

\* What format does after its counters.
Rooted(c) ==
  users_bootstrap(
    dir_add(dir_add(write_inode(c, RootIno, NewInode("dir", 0)), RootIno, ".", "dir", RootIno),
            RootIno, "..", "dir", RootIno))

LEMMA RootedIs ==
  ASSUME NEW c \in Contexts(Sound), ReadClear = {}
  PROVE  Keeps(Rooted(c), c)
<1> DEFINE im == Cur(c)
           in == NewInode("dir", 0)
           w == write_inode(c, RootIno, in)
           e == Dotted(w, RootIno, RootIno)
<1>1. Rooted(c) = users_bootstrap(e)
  BY DEF Rooted, Dotted
<1>2. im \in Safe({ZeroImage}, {}) /\ RootIno \in Inodes \ {} /\ RootIno \in Inodes
  BY CurIn, Ranges DEF Sound
<1>3. in \in InodeSet /\ Empty(in) /\ in.size = 0
  BY NewInodeIs
<1> HIDE DEF in
<1>4. PutInode(im, RootIno, in) \in Safe({ZeroImage}, {}) /\ SameBits(PutInode(im, RootIno, in), im)
  BY <1>2, <1>3, NoneKept, EmptyWritten
<1>5. Adds(w, c, {ZeroImage}, {})
  BY <1>4, WriteInodeIs DEF Sound
<1>6. w \in Contexts(Safe({ZeroImage}, {}))
  BY <1>5, AddsIn
<1> HIDE DEF w
<1>7. Adds(e, w, {ZeroImage}, {}) /\ e \in Contexts(Safe({ZeroImage}, {}))
  BY <1>2, <1>6, NoneKept, DottedIs
<1> HIDE DEF e
<1>8. Adds(users_bootstrap(e), e, {ZeroImage}, {})
  BY <1>7, NoneKept, BootstrapIs
<1>9. Adds(users_bootstrap(e), c, {ZeroImage}, {})
  BY <1>5, <1>7, <1>8, AddsTrans
<1> QED
  BY <1>1, <1>9 DEF Keeps

LEMMA FormatSplits ==
  ASSUME NEW c
  PROVE  LET laid == Laid(DevWrite(c, ZeroImage), NBlocks + MetaBlocks, MaxInodes)
             reserved == Laid(laid, NBlocks, MaxInodes)
             marked == DevWrite(reserved, [Cur(reserved) EXCEPT !.imap = {RootIno}])
         IN  fs_format(c) = Ret(Rooted(Laid(marked, NBlocks, MaxInodes - 1)), FS_OK)
BY Zenon DEF fs_format, Laid, Then, Rooted

LEMMA FormatIs ==
  ASSUME NEW c \in Contexts(Sound), ReadClear = {}
  PROVE  LET d == fs_format(c)
         IN  d \in Contexts(Sound) /\ d.ret \in Int /\ ExactCounters(Cur(d))
<1> DEFINE zero == DevWrite(c, ZeroImage)
           laid == Laid(zero, NBlocks + MetaBlocks, MaxInodes)
           reserved == Laid(laid, NBlocks, MaxInodes)
           im == [Cur(reserved) EXCEPT !.imap = {RootIno}]
           marked == DevWrite(reserved, im)
           root == Laid(marked, NBlocks, MaxInodes - 1)
           d == fs_format(c)
<1>1. d = Ret(Rooted(root), FS_OK)
  BY FormatSplits
<1> HIDE DEF d
<1>2. zero \in Contexts(Sound) /\ Cur(zero) = ZeroImage
  BY ZeroImageIs, DevWriteIn DEF Wrote
<1> HIDE DEF zero
<1>3. /\ NBlocks + MetaBlocks \in Int /\ NBlocks \in Int /\ MaxInodes \in Int
      /\ MaxInodes - 1 \in Int
  BY Geometry DEF MetaBlocks
<1>4. laid \in Contexts(Sound) /\ SameData(Cur(laid), ZeroImage)
  BY <1>2, <1>3, LaidIs
<1> HIDE DEF laid
<1>5. reserved \in Contexts(Sound) /\ Cur(reserved) \in Sound /\ SameData(Cur(reserved), ZeroImage)
  BY <1>3, <1>4, LaidIs DEF SameData
<1> HIDE DEF reserved
<1>6. /\ im \in Sound /\ im.bmap = {} /\ im.imap = {RootIno}
  <2>1. Cur(reserved) \in Images /\ {RootIno} \in SUBSET Inodes
    BY <1>5, SoundIs, Ranges
  <2>2. /\ im \in Images /\ im.imap = {RootIno} /\ im.bmap = Cur(reserved).bmap
        /\ im.inode = Cur(reserved).inode /\ im.block = Cur(reserved).block
    BY <2>1, SetImap
  <2>3. Cur(reserved).imap = {} /\ Cur(reserved).bmap = {}
    BY <1>5, ZeroImageIs DEF SameData
  <2>4. SameFiles(im, Cur(reserved))
    BY <2>2, <2>3 DEF SameFiles
  <2> QED
    BY <1>5, <2>2, <2>3, <2>4, SoundIs DEF Closed
<1> HIDE DEF im
<1>7. marked \in Contexts(Sound) /\ Cur(marked) = im
  BY <1>5, <1>6, DevWriteIn DEF Wrote
<1> HIDE DEF marked
<1>8. /\ root \in Contexts(Sound) /\ Cur(root) \in Sound /\ SameData(Cur(root), im)
      /\ Counted(Cur(root), NBlocks, MaxInodes - 1)
  BY <1>3, <1>7, LaidIs
<1> HIDE DEF root
<1>9. ExactCounters(Cur(root))
  <2>1. Cardinality({RootIno}) = 1 /\ Cardinality({}) = 0
    BY FS_Singleton, FS_EmptySet
  <2>2. NBlocks - 0 = NBlocks
    BY Geometry
  <2>3. Cur(root).bmap = {} /\ Cur(root).imap = {RootIno} /\ Cur(root) \in Images
    BY <1>6, <1>8, SoundIs DEF SameData
  <2> QED
    BY <1>8, <2>1, <2>2, <2>3, ExactIs
<1>10. Keeps(Rooted(root), root)
  BY <1>8, RootedIs
<1>11. Adds(Ret(Rooted(root), FS_OK), root, {ZeroImage}, {}) /\ Ret(Rooted(root), FS_OK).ret = FS_OK
  BY <1>10, AddsRetOf DEF Keeps, FS_OK
<1> QED
  BY <1>1, <1>9, <1>11 DEF d, Adds, KeepsExact, Sound, FS_OK

LEMMA SameDataSafe ==
  ASSUME NEW O, NEW K, NEW im \in Safe(O, K), NEW new \in Images, SameData(new, im)
  PROVE  new \in Safe(O, K)
BY SafeClosed DEF Closed, SameFiles, SameData

LEMMA ZerosMountIs ==
  ASSUME NEW O, NEW K, NEW im \in Safe(O, K)
  PROVE  LET d == MountOfZeros(im)
         IN  d \in Contexts(Safe(O, K)) /\ d.ret \in Int
<1> DEFINE b == Begin(im)
           w == DevWrite(b, im)
           new == [im EXCEPT !.magic = FALSE]
           z == DevWrite(w, new)
<1>1. b \in Contexts(Safe(O, K))
  BY BeginIn
<1> HIDE DEF b
<1>2. w \in Contexts(Safe(O, K))
  BY <1>1, DevWriteIn
<1>3. new \in Safe(O, K)
  <2>1. im \in Images
    BY SafeIs
  <2>2. new \in Images /\ SameData(new, im)
    BY <2>1, SetMagic
  <2> HIDE DEF new
  <2> QED
    BY <2>2, SameDataSafe
<1> HIDE DEF w, new
<1>4. z \in Contexts(Safe(O, K))
  BY <1>2, <1>3, DevWriteIn
<1>5. MountOfZeros(im) = Ret(z, FS_ERR)
  BY DEF MountOfZeros, z, w, b, new
<1> HIDE DEF z
<1>6. FS_ERR \in Int
  BY DEF FS_ERR
<1> QED
  BY <1>4, <1>5, <1>6, RetIn

LEMMA MountSafe ==
  ASSUME NEW O, NEW K \in SUBSET Inodes, FilesOnly(O, K), NEW im \in Safe(O, K), ReadClear = {}
  PROVE  LET d == fs_mount(im)
         IN  /\ d \in Contexts(Safe(O, K)) /\ d.ret \in Int
             /\ ExactCounters(im) => ExactCounters(Cur(d))
<1> DEFINE sb == IF SbBehindGd THEN im.gd.tail ELSE im.sb
           new == [im EXCEPT !.sb = sb]
           b == Begin(new)
           u == users_bootstrap(b)
           d == fs_mount(im)
<1>1. d = IF ~im.magic THEN Ret(Begin(im), FS_ERR)
          ELSE IF ~sb.live THEN MountOfZeros(im) ELSE Ret(u, FS_OK)
  BY Zenon DEF fs_mount
<1> HIDE DEF d
<1>2. im \in Images /\ sb \in Counts
  BY SafeIs, FieldsIn DEF Groups
<1>3. ExactCounters(im) => sb = im.sb /\ sb.live
  BY DEF ExactCounters
<1> HIDE DEF sb
<1>4. FS_ERR \in Int /\ FS_OK \in Int
  BY DEF FS_ERR, FS_OK
<1>5. CASE ~im.magic
  <2>1. Begin(im) \in Contexts(Safe(O, K)) /\ Cur(Begin(im)) = im
    BY BeginIn
  <2>2. Ret(Begin(im), FS_ERR) \in Contexts(Safe(O, K)) /\ Cur(Ret(Begin(im), FS_ERR)) = im
        /\ Ret(Begin(im), FS_ERR).ret = FS_ERR
    BY <1>4, <2>1, RetIn
  <2> QED
    BY <1>1, <1>4, <1>5, <2>2 DEF d
<1>6. CASE im.magic /\ ~sb.live
  BY <1>1, <1>3, <1>6, ZerosMountIs DEF d
<1>7. CASE im.magic /\ sb.live
  <2>1. /\ new \in Images /\ SameData(new, im) /\ new.sb = sb /\ new.gd = im.gd
    BY <1>2, SetSb DEF SameData
  <2>2. new \in Safe(O, K)
    BY <2>1, SameDataSafe
  <2>3. ExactCounters(im) => ExactCounters(new)
    BY <1>3, <2>1 DEF ExactCounters, SameData
  <2> HIDE DEF new
  <2>4. b \in Contexts(Safe(O, K)) /\ Cur(b) = new
    BY <2>2, BeginIn
  <2> HIDE DEF b
  <2>5. Adds(u, b, O, K)
    BY <2>4, BootstrapIs
  <2> HIDE DEF u
  <2>6. Adds(Ret(u, FS_OK), b, O, K) /\ Ret(u, FS_OK).ret = FS_OK
    BY <1>4, <2>5, AddsRetOf
  <2> QED
    BY <1>1, <1>4, <1>7, <2>3, <2>4, <2>6 DEF d, Adds, KeepsExact
<1> QED
  BY <1>5, <1>6, <1>7

LEMMA MountIs ==
  ASSUME NEW im \in Sound, ReadClear = {}
  PROVE  LET d == fs_mount(im)
         IN  /\ d \in Contexts(Sound) /\ d.ret \in Int
             /\ ExactCounters(im) => ExactCounters(Cur(d))
BY NoneKept, MountSafe DEF Sound

-----------------------------------------------------------------------------
(* main: a mount and a command *)

\* d ends the command that began with the image im.
Ends(d, im) ==
  d \in Contexts(Images) /\ Cur(d) \in Sound /\ (ExactCounters(im) => ExactCounters(Cur(d)))
Stays(d, im) ==
  d \in Contexts(Sound) /\ (ExactCounters(im) => ExactCounters(Cur(d)))

LEMMA StaysIs ==
  ASSUME NEW im \in Sound, ReadClear = {}, NEW e,
         ~(fs_mount(im).ret < 0) => Keeps(e, fs_mount(im))
  PROVE  Stays(IF fs_mount(im).ret < 0 THEN fs_mount(im) ELSE e, im)
<1> DEFINE m == fs_mount(im)
<1>1. m \in Contexts(Sound) /\ (ExactCounters(im) => ExactCounters(Cur(m)))
  BY MountIs
<1> HIDE DEF m
<1>2. CASE m.ret < 0
  BY <1>1, <1>2 DEF Stays, m
<1>3. CASE ~(m.ret < 0)
  <2>1. Keeps(e, m)
    BY <1>3 DEF m
  <2>2. Stays(e, im)
    BY <1>1, <2>1 DEF Stays, Keeps, Adds, KeepsExact, Sound
  <2> QED
    BY <1>3, <2>2 DEF m
<1> QED
  BY <1>2, <1>3

LEMMA EndsIs ==
  ASSUME NEW im \in Sound, ReadClear = {}, NEW e,
         ~(fs_mount(im).ret < 0) => Leaves(e, fs_mount(im), {ZeroImage}, {})
  PROVE  Ends(IF fs_mount(im).ret < 0 THEN fs_mount(im) ELSE e, im)
<1> DEFINE m == fs_mount(im)
<1>1. m \in Contexts(Sound) /\ (ExactCounters(im) => ExactCounters(Cur(m)))
  BY MountIs
<1>2. m \in Contexts(Images) /\ Cur(m) \in Sound
  BY <1>1, SoundIs, ContextsMono, CurIn
<1> HIDE DEF m
<1>3. CASE m.ret < 0
  BY <1>1, <1>2, <1>3 DEF Ends, m
<1>4. CASE ~(m.ret < 0)
  <2>1. Leaves(e, m, {ZeroImage}, {})
    BY <1>4 DEF m
  <2>2. e \in Contexts(Images)
    BY <2>1, KeptIs, ContextsMono DEF Leaves
  <2>3. Ends(e, im)
    BY <1>1, <2>1, <2>2 DEF Ends, Leaves, KeepsExact, Sound
  <2> QED
    BY <1>4, <2>3 DEF m
<1> QED
  BY <1>3, <1>4

\* Run, command by command.
LEMMA RunSplits ==
  ASSUME NEW im, NEW p, NEW a, NEW uid
  PROVE  LET m == fs_mount(im)
         IN  /\ Mkdir(im, p, uid) = IF m.ret < 0 THEN m ELSE cmd_mkdir(m, p, uid)
             /\ Create(im, p, uid) = IF m.ret < 0 THEN m ELSE fs_open(m, p, TRUE, uid)
             /\ Open(im, p, uid) = IF m.ret < 0 THEN m ELSE fs_open(m, p, FALSE, uid)
             /\ Readf(im, p, uid) = IF m.ret < 0 THEN m ELSE cmd_readf(m, p, uid)
             /\ Cd(im, p) = IF m.ret < 0 THEN m ELSE cmd_cd(m, p)
             /\ Ls(im, p) = IF m.ret < 0 THEN m ELSE cmd_ls(m, p)
             /\ OnDescriptor(im) = IF m.ret < 0 THEN m ELSE cmd_fd(m)
             /\ Writef(im, a, uid)
                  = IF m.ret < 0 THEN m ELSE cmd_writef(m, a[1], a[2], a[3], uid)
             /\ Writefile(im, a, uid)
                  = IF m.ret < 0 THEN m ELSE cmd_writefile(m, a[1], a[2], a[3], uid)
             /\ Delete(im, p) = IF m.ret < 0 THEN m ELSE cmd_delete(m, p)
             /\ Chmod(im, a, uid) = IF m.ret < 0 THEN m ELSE cmd_chmod(m, a[1], a[2], uid)
BY Zenon DEF Mkdir, Create, Open, Readf, Cd, Ls, OnDescriptor, Writef, Writefile, Delete, Chmod,
             Run, IfOk, cmd_create, cmd_open

\* What the inputs are.
LEMMA InputsAre ==
  /\ \A p \in MkdirPaths \cup CreatePaths :
       p \in Seq(DOMAIN Stem) /\ p # <<>> /\ Last(p) \in Spelled
  /\ \A p \in DeletePaths \cup LookPaths : p \in Seq(DOMAIN Stem)
  /\ \A a \in WriteArgs \cup CopyArgs :
       /\ a[1] \in Seq(DOMAIN Stem) /\ a[1] # <<>> /\ Last(a[1]) \in Spelled
       /\ a[2] \in Nat \ {0} /\ a[3] \in Texts
  /\ \A a \in ChmodArgs : a[1] \in Seq(DOMAIN Stem) /\ a[2] \in Modes
BY InputAssumption DEF Spelled, Texts, Modes

LEMMA LooksStay ==
  ASSUME NEW im \in Sound, ReadClear = {}, NEW p \in LookPaths, NEW uid \in Uids \cup {0}
  PROVE  /\ Stays(Cd(im, p), im) /\ Stays(Ls(im, p), im) /\ Stays(OnDescriptor(im), im)
         /\ Stays(Open(im, p, uid), im) /\ Stays(Readf(im, p, uid), im)
<1> DEFINE m == fs_mount(im)
<1>1. m \in Contexts(Sound)
  BY MountIs
<1>2. p \in Seq(DOMAIN Stem)
  BY InputsAre
<1>3. Keeps(cmd_cd(m, p), m) /\ Keeps(cmd_ls(m, p), m) /\ Keeps(cmd_fd(m), m)
  BY <1>1, <1>2, LookIs
<1>4. Keeps(cmd_readf(m, p, uid), m)
  BY <1>1, <1>2, ReadfIs
<1>5. Keeps(fs_open(m, p, FALSE, uid), m)
  BY <1>1, <1>2, NoneKept, OpenIs DEF Sound, Keeps
<1> QED
  BY <1>3, <1>4, <1>5, StaysIs, RunSplits

LEMMA FdStays ==
  ASSUME NEW im \in Sound, ReadClear = {}
  PROVE  Stays(OnDescriptor(im), im)
<1> DEFINE m == fs_mount(im)
<1>1. m \in Contexts(Sound)
  BY MountIs
<1>2. <<>> \in Seq({})
  OBVIOUS
<1>3. Keeps(cmd_fd(m), m)
  BY <1>1, <1>2, LookIs
<1> QED
  BY <1>3, StaysIs, RunSplits

LEMMA MakesStay ==
  ASSUME NEW im \in Sound, ReadClear = {}, NEW uid \in Uids
  PROVE  /\ \A p \in MkdirPaths : Stays(Mkdir(im, p, uid), im)
         /\ \A p \in CreatePaths : Stays(Create(im, p, uid), im)
<1> DEFINE m == fs_mount(im)
<1>1. m \in Contexts(Safe({ZeroImage}, {}))
  BY MountIs DEF Sound
<1>2. ASSUME NEW p \in MkdirPaths
      PROVE  Stays(Mkdir(im, p, uid), im)
  <2>1. p \in Seq(DOMAIN Stem) /\ p # <<>> /\ Last(p) \in Spelled
    BY InputsAre
  <2>2. Adds(cmd_mkdir(m, p, uid), m, {ZeroImage}, {})
    BY <1>1, <2>1, NoneKept, MkdirIs
  <2> QED
    BY <2>2, StaysIs, RunSplits DEF Keeps
<1>3. ASSUME NEW p \in CreatePaths
      PROVE  Stays(Create(im, p, uid), im)
  <2>1. p \in Seq(DOMAIN Stem) /\ p # <<>> /\ Last(p) \in Spelled
    BY InputsAre
  <2>2. Adds(fs_open(m, p, TRUE, uid), m, {ZeroImage}, {})
    BY <1>1, <2>1, NoneKept, NothingAvoided, OpenIs
  <2> QED
    BY <2>2, StaysIs, RunSplits DEF Keeps
<1> QED
  BY <1>2, <1>3

LEMMA WritesStay ==
  ASSUME NEW im \in Sound, ReadClear = {}, NEW uid \in Uids
  PROVE  /\ \A a \in WriteArgs : Stays(Writef(im, a, uid), im)
         /\ \A a \in CopyArgs : Stays(Writefile(im, a, uid), im)
         /\ \A a \in ChmodArgs : Stays(Chmod(im, a, uid), im)
<1> DEFINE m == fs_mount(im)
<1>1. m \in Contexts(Safe({ZeroImage}, {}))
  BY MountIs DEF Sound
<1>2. ASSUME NEW a \in WriteArgs
      PROVE  Stays(Writef(im, a, uid), im)
  <2>1. /\ a[1] \in Seq(DOMAIN Stem) /\ a[1] # <<>> /\ Last(a[1]) \in Spelled
        /\ a[2] \in Nat \ {0} /\ a[3] \in Texts
    BY InputsAre
  <2>2. Adds(WritefOf(m, a[1], a[2], a[3], uid), m, {ZeroImage}, {})
    BY <1>1, <2>1, NoneKept, NothingAvoided, WritefOfIs
  <2>3. Adds(cmd_writef(m, a[1], a[2], a[3], uid), m, {ZeroImage}, {})
    BY <2>2, WritefSplits
  <2> QED
    BY <2>3, StaysIs, RunSplits DEF Keeps
<1>3. ASSUME NEW a \in CopyArgs
      PROVE  Stays(Writefile(im, a, uid), im)
  <2>1. /\ a[1] \in Seq(DOMAIN Stem) /\ a[1] # <<>> /\ Last(a[1]) \in Spelled
        /\ a[2] \in Nat \ {0} /\ a[3] \in Texts
    BY InputsAre
  <2>2. Adds(cmd_writefile(m, a[1], a[2], a[3], uid), m, {ZeroImage}, {})
    BY <1>1, <2>1, NoneKept, NothingAvoided, WritefileIs
  <2> QED
    BY <2>2, StaysIs, RunSplits DEF Keeps
<1>4. ASSUME NEW a \in ChmodArgs
      PROVE  Stays(Chmod(im, a, uid), im)
  <2>1. a[1] \in Seq(DOMAIN Stem) /\ a[2] \in Modes
    BY InputsAre
  <2>2. Keeps(cmd_chmod(m, a[1], a[2], uid), m)
    BY <1>1, <2>1, ChmodIs DEF Sound
  <2> QED
    BY <2>2, StaysIs, RunSplits
<1> QED
  BY <1>2, <1>3, <1>4

LEMMA DeletesEnd ==
  ASSUME NEW im \in Sound, ReadClear = {}, NEW p \in DeletePaths
  PROVE  Ends(Delete(im, p), im)
<1> DEFINE m == fs_mount(im)
<1>1. m \in Contexts(Sound) /\ p \in Seq(DOMAIN Stem)
  BY MountIs, InputsAre
<1>2. Leaves(cmd_delete(m, p), m, {ZeroImage}, {})
  BY <1>1, NoneKept, DeleteIs DEF Sound, Misses
<1> QED
  BY <1>2, EndsIs, RunSplits

-----------------------------------------------------------------------------
(* The inductive invariant *)

Commands == {"format", "mount", "fd", "cd", "ls", "open", "readf", "mkdir",
             "create", "writef", "writefile", "chmod", "delete"}

\* As long as no delete was killed the image is sound; as long as nothing was,
\* its counters are exact.
IInv ==
  /\ cut \in Seq(Commands)
  /\ "delete" \notin ToSet(cut) => disk \in Sound
  /\ cut = <<>> => ExactCounters(disk)

\* What a command has to do for IInv: of a delete only the image at its end counts.
Proper(name, c) ==
  "delete" \notin ToSet(cut) =>
    /\ Cur(c) \in Sound
    /\ name = "delete" \/ c \in Contexts(Sound)
    /\ cut = <<>> => ExactCounters(Cur(c))

LEMMA KilledOnes ==
  ASSUME NEW s \in Seq(Commands), NEW name \in Commands
  PROVE  /\ Append(s, name) \in Seq(Commands) /\ Append(s, name) # <<>>
         /\ ToSet(Append(s, name)) = ToSet(s) \cup {name}
         /\ ToSet(<<>>) = {}
<1> DEFINE t == Append(s, name)
<1>1. /\ t \in Seq(Commands) /\ t # <<>> /\ Len(t) = Len(s) + 1 /\ t[Len(s) + 1] = name
      /\ \A k \in 1 .. Len(s) : t[k] = s[k]
  BY AppendProperties
<1> HIDE DEF t
<1>2. ToSet(t) = ToSet(s) \cup {name}
  <2>1. DOMAIN t = DOMAIN s \cup {Len(s) + 1} /\ DOMAIN s = 1 .. Len(s)
    BY <1>1
  <2> QED
    BY <1>1, <2>1 DEF ToSet
<1>3. ToSet(<<>>) = {}
  BY DEF ToSet
<1> QED
  BY <1>1, <1>2, <1>3 DEF t

LEMMA StepKeeps ==
  ASSUME IInv, NEW name \in Commands, NEW c, Proper(name, c), RunOrKill(name, c)
  PROVE  IInv'
<1>1. CASE disk' = Cur(c) /\ UNCHANGED cut
  <2>1. <<>> \in Seq(Commands)
    OBVIOUS
  <2>2. cut = <<>> => "delete" \notin ToSet(cut)
    BY <2>1, KilledOnes
  <2> QED
    BY <1>1, <2>2 DEF IInv, Proper
<1>2. ASSUME NEW k \in 2 .. Len(c.log) - 1, disk' = c.log[k], cut' = Append(cut, name)
      PROVE  IInv'
  <2>1. /\ cut' \in Seq(Commands) /\ cut' # <<>> /\ ToSet(cut') = ToSet(cut) \cup {name}
    BY <1>2, KilledOnes DEF IInv
  <2>2. ASSUME "delete" \notin ToSet(cut')
        PROVE  disk' \in Sound
    <3>1. "delete" \notin ToSet(cut) /\ name # "delete"
      BY <2>1, <2>2
    <3>2. c \in Contexts(Sound)
      BY <3>1 DEF Proper
    <3>3. k \in DOMAIN c.log
      BY <3>2 DEF Contexts
    <3> QED
      BY <1>2, <3>2, <3>3, CurIn
  <2> QED
    BY <2>1, <2>2 DEF IInv
<1> QED
  BY <1>1, <1>2 DEF RunOrKill

LEMMA InitKeeps ==
  ASSUME ReadClear = {}, Init
  PROVE  IInv
<1>1. Begin(ZeroImage) \in Contexts(Sound)
  BY ZeroImageIs, BeginIn
<1>2. fs_format(Begin(ZeroImage)) \in Contexts(Sound) /\ ExactCounters(Cur(fs_format(Begin(ZeroImage))))
  BY <1>1, FormatIs
<1>3. Cur(fs_format(Begin(ZeroImage))) \in Sound
  BY <1>2, CurIn
<1>4. <<>> \in Seq(Commands)
  OBVIOUS
<1> QED
  BY <1>2, <1>3, <1>4 DEF Init, IInv

LEMMA StaysProper ==
  ASSUME IInv, NEW name, NEW c, disk \in Sound => Stays(c, disk)
  PROVE  Proper(name, c)
BY CurIn DEF IInv, Proper, Stays

LEMMA NextKeeps ==
  ASSUME ReadClear = {}, IInv, [Next]_vars
  PROVE  IInv'
<1>1. CASE UNCHANGED vars
  BY <1>1 DEF IInv, vars
<1>2. CASE DoFormat
  <2> DEFINE c == fs_format(Begin(disk))
  <2>1. disk \in Sound => c \in Contexts(Sound) /\ ExactCounters(Cur(c))
    BY BeginIn, FormatIs
  <2> HIDE DEF c
  <2>2. disk \in Sound => Stays(c, disk)
    BY <2>1 DEF Stays
  <2>3. Proper("format", c) /\ "format" \in Commands
    BY <2>2, StaysProper DEF Commands
  <2> QED
    BY <1>2, <2>3, StepKeeps DEF DoFormat, c
<1>3. CASE DoMount
  <2>1. disk \in Sound => Stays(fs_mount(disk), disk)
    BY MountIs DEF Stays
  <2>2. Proper("mount", fs_mount(disk)) /\ "mount" \in Commands
    BY <2>1, StaysProper DEF Commands
  <2> QED
    BY <1>3, <2>2, StepKeeps DEF DoMount, Execute
<1>4. CASE DoOnDescriptor
  <2>1. Proper("fd", OnDescriptor(disk)) /\ "fd" \in Commands
    BY FdStays, StaysProper DEF Commands
  <2> QED
    BY <1>4, <2>1, StepKeeps DEF DoOnDescriptor, Execute
<1>5. ASSUME NEW p \in LookPaths, DoLook(p)
      PROVE  IInv'
  <2> DEFINE user == 0
  <2>4. user \in Uids \cup {0}
    OBVIOUS
  <2> HIDE DEF user
  <2>1. disk \in Sound => Stays(Cd(disk, p), disk) /\ Stays(Ls(disk, p), disk)
    BY <2>4, LooksStay
  <2>2. Proper("cd", Cd(disk, p)) /\ Proper("ls", Ls(disk, p))
    BY <2>1, StaysProper
  <2>3. "cd" \in Commands /\ "ls" \in Commands
    BY DEF Commands
  <2> QED
    BY <1>5, <2>2, <2>3, StepKeeps DEF DoLook, Execute
<1>6. ASSUME NEW uid \in Uids, NEW p \in LookPaths, DoOpen(p, uid) \/ DoReadf(p, uid)
      PROVE  IInv'
  <2>1. disk \in Sound => Stays(Open(disk, p, uid), disk) /\ Stays(Readf(disk, p, uid), disk)
    BY LooksStay
  <2>2. Proper("open", Open(disk, p, uid)) /\ Proper("readf", Readf(disk, p, uid))
    BY <2>1, StaysProper
  <2>3. "open" \in Commands /\ "readf" \in Commands
    BY DEF Commands
  <2> QED
    BY <1>6, <2>2, <2>3, StepKeeps DEF DoOpen, DoReadf, Execute
<1>7. ASSUME NEW uid \in Uids, NEW p \in MkdirPaths, DoMkdir(p, uid)
      PROVE  IInv'
  <2>1. Proper("mkdir", Mkdir(disk, p, uid)) /\ "mkdir" \in Commands
    BY MakesStay, StaysProper DEF Commands
  <2> QED
    BY <1>7, <2>1, StepKeeps DEF DoMkdir, Execute
<1>8. ASSUME NEW uid \in Uids, NEW p \in CreatePaths, DoCreate(p, uid)
      PROVE  IInv'
  <2>1. Proper("create", Create(disk, p, uid)) /\ "create" \in Commands
    BY MakesStay, StaysProper DEF Commands
  <2> QED
    BY <1>8, <2>1, StepKeeps DEF DoCreate, Execute
<1>9. ASSUME NEW uid \in Uids, NEW a \in WriteArgs, DoWritef(a, uid)
      PROVE  IInv'
  <2>1. Proper("writef", Writef(disk, a, uid)) /\ "writef" \in Commands
    BY WritesStay, StaysProper DEF Commands
  <2> QED
    BY <1>9, <2>1, StepKeeps DEF DoWritef, Execute
<1>10. ASSUME NEW uid \in Uids, NEW a \in CopyArgs, DoWritefile(a, uid)
       PROVE  IInv'
  <2>1. Proper("writefile", Writefile(disk, a, uid)) /\ "writefile" \in Commands
    BY WritesStay, StaysProper DEF Commands
  <2> QED
    BY <1>10, <2>1, StepKeeps DEF DoWritefile, Execute
<1>11. ASSUME NEW uid \in Uids, NEW a \in ChmodArgs, DoChmod(a, uid)
       PROVE  IInv'
  <2>1. Proper("chmod", Chmod(disk, a, uid)) /\ "chmod" \in Commands
    BY WritesStay, StaysProper DEF Commands
  <2> QED
    BY <1>11, <2>1, StepKeeps DEF DoChmod, Execute
<1>12. ASSUME NEW p \in DeletePaths, DoDelete(p)
       PROVE  IInv'
  <2> DEFINE c == Delete(disk, p)
  <2>1. disk \in Sound => Ends(c, disk)
    BY DeletesEnd
  <2> HIDE DEF c
  <2>2. Proper("delete", c) /\ "delete" \in Commands
    BY <2>1 DEF Proper, Ends, IInv, Commands
  <2> QED
    BY <1>12, <2>2, StepKeeps DEF DoDelete, Execute, c
<1> QED
  BY <1>1, <1>2, <1>3, <1>4, <1>5, <1>6, <1>7, <1>8, <1>9, <1>10, <1>11, <1>12 DEF Next

\* From the format on, every image is sound until a delete is killed in the middle.
THEOREM AlwaysSound ==
  ASSUME ReadClear = {}
  PROVE  Spec => []IInv
<1>1. Init => IInv
  BY InitKeeps
<1>2. IInv /\ [Next]_vars => IInv'
  BY NextKeeps
<1> QED
  BY <1>1, <1>2, PTL DEF Spec

-----------------------------------------------------------------------------
(* Sound images have one owner for each block, and no holes. *)

\* How Fsck writes the place n of an inode.
HoldingAt(im, in, n) ==
  IF n < NDirect THEN <<"direct", n, in.direct[n]>>
  ELSE IF n = TablePlace THEN <<"table", 0, in.indirect>>
  ELSE <<"indirect", n - NDirect, Table(im, in.indirect)[n - NDirect]>>

LEMMA HoldingsAre ==
  ASSUME NEW im, NEW i, NEW h \in Holdings(im, i)
  PROVE  LET in == im.inode[i]
         IN  \E n \in Places :
               h = HoldingAt(im, in, n) /\ h[3] = Ptr(im.block, in, n) /\ h[3] # NilBlock
<1> DEFINE in == im.inode[i]
           slots == IF in.indirect = NilBlock THEN {} ELSE 0 .. Width - 1
<1>1. h[3] # NilBlock
  BY DEF Holdings
<1>2. \/ \E n \in 0 .. NDirect - 1 : h = <<"direct", n, in.direct[n]>>
      \/ h = <<"table", 0, in.indirect>>
      \/ \E n \in slots : h = <<"indirect", n, Table(im, in.indirect)[n]>>
  BY Zenon DEF Holdings
<1>3. ASSUME NEW n \in 0 .. NDirect - 1, h = <<"direct", n, in.direct[n]>>
      PROVE  \E m \in Places :
               h = HoldingAt(im, in, m) /\ h[3] = Ptr(im.block, in, m) /\ h[3] # NilBlock
  <2>1. n \in Places /\ n < NDirect
    BY Geometry DEF Places
  <2>2. h = HoldingAt(im, in, n) /\ Ptr(im.block, in, n) = in.direct[n] /\ h[3] = in.direct[n]
    BY <1>3, <2>1 DEF HoldingAt, Ptr
  <2> QED
    BY <1>1, <2>1, <2>2
<1>4. CASE h = <<"table", 0, in.indirect>>
  <2>1. TablePlace \in Places /\ ~(TablePlace < NDirect)
    BY Geometry DEF Places, TablePlace
  <2>2. /\ h = HoldingAt(im, in, TablePlace) /\ Ptr(im.block, in, TablePlace) = in.indirect
        /\ h[3] = in.indirect
    BY <1>4, <2>1, TablePlaceIs DEF HoldingAt
  <2> QED
    BY <1>1, <2>1, <2>2
<1>5. ASSUME NEW k \in slots, h = <<"indirect", k, Table(im, in.indirect)[k]>>
      PROVE  \E m \in Places :
               h = HoldingAt(im, in, m) /\ h[3] = Ptr(im.block, in, m) /\ h[3] # NilBlock
  <2>1. in.indirect # NilBlock /\ k \in 0 .. Width - 1
    BY <1>5
  <2> DEFINE n == NDirect + k
  <2>2. n \in Places /\ ~(n < NDirect) /\ n # TablePlace /\ n - NDirect = k
    BY <2>1, Geometry DEF Places, TablePlace
  <2> HIDE DEF n
  <2>3. h = HoldingAt(im, in, n) /\ h[3] = Table(im, in.indirect)[k]
    BY <1>5, <2>2 DEF HoldingAt
  <2>4. Ptr(im.block, in, n) = AsPointer(im.block[in.indirect][k])
    BY <2>1, <2>2 DEF Ptr
  <2>5. Table(im, in.indirect)[k] = AsPointer(im.block[in.indirect][k])
    BY <2>1 DEF Table
  <2> QED
    BY <1>1, <2>2, <2>3, <2>4, <2>5
<1> QED
  BY <1>2, <1>3, <1>4, <1>5

LEMMA SoundOwns ==
  ASSUME NEW im \in Sound
  PROVE  OwnBlocks(im)
<1>1. /\ im \in Images /\ im.bmap \subseteq Recorded /\ im.imap \subseteq Inodes
      /\ Apart(im.block, im.inode) /\ Marked(im.bmap, im.block, im.inode)
  BY SafeIs DEF Sound, Owns
<1>2. ASSUME NEW i \in Inodes, NEW b \in BlocksOf(im, i)
      PROVE  \E n \in Places : b = Ptr(im.block, im.inode[i], n) /\ b # NilBlock
  BY HoldingsAre DEF BlocksOf
<1>3. ASSUME NEW i \in Inodes
      PROVE  Cardinality(BlocksOf(im, i)) = Cardinality(Holdings(im, i))
  <2> DEFINE H == Holdings(im, i)
             B == BlocksOf(im, i)
             f == [h \in H |-> h[3]]
  <2>1. ASSUME NEW g \in H, NEW h \in H, g[3] = h[3]
        PROVE  g = h
    <3>1. PICK m \in Places : /\ g = HoldingAt(im, im.inode[i], m)
                              /\ g[3] = Ptr(im.block, im.inode[i], m) /\ g[3] # NilBlock
      BY HoldingsAre
    <3>2. PICK n \in Places : /\ h = HoldingAt(im, im.inode[i], n)
                              /\ h[3] = Ptr(im.block, im.inode[i], n)
      BY HoldingsAre
    <3>3. m = n
      BY <1>1, <2>1, <3>1, <3>2 DEF Apart
    <3> QED
      BY <3>1, <3>2, <3>3
  <2>2. B = {h[3] : h \in H}
    BY DEF BlocksOf
  <2> HIDE DEF H, B
  <2>3. f \in Injection(H, B) /\ f \in Surjection(H, B)
    BY <2>1, <2>2 DEF Injection, IsInjective, Surjection
  <2>4. B \subseteq Recorded
    <3>1. ASSUME NEW b \in B
          PROVE  b \in Recorded
      <4>1. PICK n \in Places : b = Ptr(im.block, im.inode[i], n) /\ b # NilBlock
        BY <1>2 DEF B
      <4> QED
        BY <1>1, <4>1 DEF Marked
    <3> QED
      BY <3>1
  <2>5. IsFiniteSet(Recorded)
    BY Geometry, FS_Interval DEF Recorded
  <2>6. IsFiniteSet(B)
    BY <2>4, <2>5, FS_Subset
  <2> HIDE DEF f
  <2>7. Cardinality(H) = Cardinality(B)
    BY <2>3, <2>6, FS_Injection
  <2> QED
    BY <2>7 DEF H, B
<1>4. ASSUME NEW i \in Inodes, NEW j \in Inodes, i # j
      PROVE  BlocksOf(im, i) \cap BlocksOf(im, j) = {}
  <2> SUFFICES ASSUME NEW b \in BlocksOf(im, i), b \in BlocksOf(im, j)
               PROVE  FALSE
    OBVIOUS
  <2>1. PICK m \in Places : b = Ptr(im.block, im.inode[i], m) /\ b # NilBlock
    BY <1>2
  <2>2. PICK n \in Places : b = Ptr(im.block, im.inode[j], n)
    BY <1>2
  <2>3. Apart(im.block, im.inode)
    BY <1>1
  <2>4. i = j
    <3>1. /\ Ptr(im.block, im.inode[i], m) # NilBlock
          /\ Ptr(im.block, im.inode[i], m) = Ptr(im.block, im.inode[j], n)
      BY <2>1, <2>2
    <3> QED
      BY <2>3, <3>1 DEF Apart
  <2> QED
    BY <1>4, <2>4
<1>5. Disjoint(im)
  <2>1. ASSUME NEW i \in im.imap
        PROVE  /\ Cardinality(BlocksOf(im, i)) = Cardinality(Holdings(im, i))
               /\ \A j \in im.imap \ {i} : BlocksOf(im, i) \cap BlocksOf(im, j) = {}
    BY <1>1, <1>3, <1>4
  <2> QED
    BY <2>1 DEF Disjoint
<1>6. Owned(im) \subseteq im.bmap
  <2>1. ASSUME NEW i \in im.imap, NEW b \in BlocksOf(im, i)
        PROVE  b \in im.bmap
    <3>1. i \in Inodes
      BY <1>1
    <3>2. PICK n \in Places : b = Ptr(im.block, im.inode[i], n) /\ b # NilBlock
      BY <1>2, <3>1
    <3> QED
      BY <1>1, <3>1, <3>2 DEF Marked
  <2> QED
    BY <2>1 DEF Owned
<1> QED
  BY <1>5, <1>6 DEF OwnBlocks

\* Reading reaches the block of a place.
LEMMA ReadMaps ==
  ASSUME NEW im, NEW in, NEW bn \in Nat, bn < TablePlace, Ptr(im.block, in, bn) # NilBlock
  PROVE  map_bn_for_read(im, in, bn) = Ptr(im.block, in, bn)
<1>1. CASE bn < NDirect
  BY <1>1 DEF map_bn_for_read, Ptr
<1>2. CASE ~(bn < NDirect)
  <2>1. bn - NDirect \in 0 .. Width - 1 /\ ~(bn >= NDirect + Width) /\ bn # TablePlace
    BY <1>2, Geometry DEF TablePlace
  <2>2. /\ in.indirect # NilBlock
        /\ Ptr(im.block, in, bn) = AsPointer(im.block[in.indirect][bn - NDirect])
    BY <1>2, <2>1 DEF Ptr
  <2>3. Table(im, in.indirect)[bn - NDirect] = AsPointer(im.block[in.indirect][bn - NDirect])
    BY <2>1 DEF Table
  <2> QED
    BY <1>2, <2>1, <2>2, <2>3, Zenon DEF map_bn_for_read
<1> QED
  BY <1>1, <1>2

\* The block of the cell k of a file.
LEMMA BlockOfCell ==
  ASSUME NEW size \in 0 .. Capacity, NEW k \in 0 .. size - 1, NEW bn \in 0 .. k \div Width
  PROVE  bn \in Places /\ bn \in Nat /\ bn < TablePlace /\ bn * Width < size
<1>1. Capacity \in Nat /\ size \in Nat /\ k \in Nat /\ k < size /\ k < Capacity
  BY Geometry DEF Capacity
<1> DEFINE q == k \div Width
<1>2. q \in Nat /\ k % Width \in Nat /\ k = Width * q + (k % Width)
  BY <1>1, Divided
<1>3. bn \in Nat /\ bn <= q
  BY <1>2
<1> HIDE DEF q
<1> DEFINE wq == Width * q
           wb == Width * bn
<1>4. wq \in Nat /\ wb \in Nat /\ wb <= wq
  BY <1>2, <1>3, Geometry
<1>5. wq <= k
  <2> HIDE DEF wq, wb
  <2>1. k = wq + (k % Width)
    BY <1>2 DEF wq
  <2> QED
    BY <1>1, <1>2, <1>4, <2>1
<1>6. wb <= k
  <2> HIDE DEF wq, wb
  <2> QED
    BY <1>1, <1>4, <1>5
<1>7. bn * Width = wb
  BY <1>3, Geometry
<1>8. bn < TablePlace
  <2>1. bn * Width < (NDirect + Width) * Width
    <3> HIDE DEF wb
    <3>1. wb < Capacity
      BY <1>1, <1>4, <1>6
    <3> QED
      BY <1>7, <3>1 DEF Capacity
  <2> QED
    BY <1>3, <2>1, Geometry DEF TablePlace
<1>9. bn * Width < size
  <2> HIDE DEF wb
  <2> QED
    BY <1>1, <1>4, <1>6, <1>7
<1> QED
  BY <1>3, <1>8, <1>9, Geometry DEF Places, TablePlace

\* All blocks below its size are there.
Whole(im, in) == \A n \in Places : n * Width < in.size => Ptr(im.block, in, n) \in Blocks
CellsOf(im, in) ==
  [k \in 1 .. in.size |-> im.block[Ptr(im.block, in, (k - 1) \div Width)][(k - 1) % Width]]

LEMMA ContentsAre ==
  ASSUME NEW im, NEW i, im.inode[i] \in InodeSet, Whole(im, im.inode[i])
  PROVE  Contents(im, i) = CellsOf(im, im.inode[i])
<1> DEFINE in == im.inode[i]
           holes == {bn \in 0 .. (in.size - 1) \div Width : map_bn_for_read(im, in, bn) \notin Blocks}
           len == IF in.size = 0 THEN 0 ELSE Min({in.size} \cup {bn * Width : bn \in holes})
<1>1. in.size \in 0 .. Capacity /\ in.size \in Nat
  BY Geometry DEF InodeSet, Capacity
<1>2. ASSUME NEW k \in 0 .. in.size - 1, NEW bn \in 0 .. k \div Width
      PROVE  /\ map_bn_for_read(im, in, bn) = Ptr(im.block, in, bn)
             /\ map_bn_for_read(im, in, bn) \in Blocks
  <2>1. bn \in Places /\ bn \in Nat /\ bn < TablePlace /\ bn * Width < in.size
    BY <1>1, BlockOfCell
  <2>2. Ptr(im.block, in, bn) \in Blocks
    BY <2>1 DEF Whole
  <2>3. Ptr(im.block, in, bn) # NilBlock
    BY <2>2, Ranges DEF NilBlock
  <2> QED
    BY <2>1, <2>2, <2>3, ReadMaps
<1>3. in.size # 0 => holes = {}
  <2> SUFFICES ASSUME in.size # 0, NEW bn \in 0 .. (in.size - 1) \div Width
               PROVE  map_bn_for_read(im, in, bn) \in Blocks
    OBVIOUS
  <2>1. in.size - 1 \in 0 .. in.size - 1
    BY <1>1
  <2> QED
    BY <1>2, <2>1
<1>4. len = in.size
  <2>1. CASE in.size = 0
    BY <2>1
  <2>2. CASE in.size # 0
    <3> DEFINE T == {in.size} \cup {bn * Width : bn \in holes}
    <3>1. T = {in.size}
      BY <1>3, <2>2
    <3> HIDE DEF T
    <3>2. Min(T) = in.size
      BY <1>1, <3>1, MinProperty
    <3> QED
      BY <2>2, <3>2 DEF T
  <2> QED
    BY <2>1, <2>2
<1>5. Contents(im, i)
        = [k \in 1 .. len |-> im.block[map_bn_for_read(im, in, (k - 1) \div Width)][(k - 1) % Width]]
  BY DEF Contents
<1> HIDE DEF len
<1>6. ASSUME NEW k \in 1 .. in.size
      PROVE  map_bn_for_read(im, in, (k - 1) \div Width) = Ptr(im.block, in, (k - 1) \div Width)
  <2>1. k - 1 \in 0 .. in.size - 1 /\ k - 1 \in Nat
    BY <1>1
  <2>2. (k - 1) \div Width \in 0 .. (k - 1) \div Width
    BY <2>1, Divided
  <2> QED
    BY <1>2, <2>1, <2>2
<1> QED
  BY <1>4, <1>5, <1>6 DEF CellsOf

LEMMA SafeWhole ==
  ASSUME NEW O, NEW K, NEW im \in Safe(O, K), NEW i \in Inodes, im.inode[i].type = "reg"
  PROVE  im.inode[i] \in InodeSet /\ Whole(im, im.inode[i])
<1> DEFINE in == im.inode[i]
<1>1. /\ Marked(im.bmap, im.block, im.inode) /\ Full(im.block, in)
      /\ im.bmap \subseteq Recorded /\ in \in InodeSet
  BY SafeIs DEF Owns
<1>2. ASSUME NEW n \in Places, n * Width < in.size
      PROVE  Ptr(im.block, in, n) \in Blocks
  <2>1. Ptr(im.block, in, n) # NilBlock
    BY <1>1, <1>2 DEF Full
  <2>2. Ptr(im.block, in, n) \in im.bmap \cup {NilBlock}
    BY <1>1 DEF Marked
  <2> QED
    BY <1>1, <2>1, <2>2, Ranges
<1> QED
  BY <1>1, <1>2 DEF Whole

LEMMA SoundFull ==
  ASSUME NEW im \in Sound, NEW i \in Inodes, im.inode[i].type = "reg"
  PROVE  Len(Contents(im, i)) = im.inode[i].size
<1>1. im.inode[i] \in InodeSet /\ Whole(im, im.inode[i])
  BY SafeWhole DEF Sound
<1>2. Contents(im, i) = CellsOf(im, im.inode[i])
  BY <1>1, ContentsAre
<1>3. im.inode[i].size \in Nat
  BY <1>1, Geometry DEF InodeSet, Capacity
<1> QED
  BY <1>2, <1>3 DEF CellsOf

\* A file that is untouched reads the same.
LEMMA ContentsSame ==
  ASSUME NEW o \in Sound, NEW im, NEW K \in SUBSET Inodes, AsIn(o, im, K),
         NEW i \in K, i \in Files(o)
  PROVE  i \in Files(im) /\ Contents(im, i) = Contents(o, i)
<1> DEFINE in == o.inode[i]
<1>1. im.inode[i] = in /\ in.type = "reg" /\ i \in Inodes /\ i \in im.imap
  BY DEF AsIn, Files
<1>2. in \in InodeSet /\ Whole(o, in)
  BY <1>1, SafeWhole DEF Sound
<1>3. \A n \in Places : Ptr(im.block, in, n) = Ptr(o.block, in, n)
  BY <1>1, AsInPtr
<1>4. Whole(im, in)
  BY <1>2, <1>3 DEF Whole
<1>5. Contents(o, i) = CellsOf(o, in) /\ Contents(im, i) = CellsOf(im, in)
  BY <1>1, <1>2, <1>4, ContentsAre
<1>6. in.size \in 0 .. Capacity /\ in.size \in Nat
  BY <1>2, Geometry DEF InodeSet, Capacity
<1>7. ASSUME NEW k \in 1 .. in.size
      PROVE  im.block[Ptr(im.block, in, (k - 1) \div Width)]
               = o.block[Ptr(o.block, in, (k - 1) \div Width)]
  <2> DEFINE q == (k - 1) \div Width
  <2>1. k - 1 \in 0 .. in.size - 1 /\ k - 1 \in Nat
    BY <1>6
  <2>2. q \in 0 .. (k - 1) \div Width
    BY <2>1, Divided
  <2>3. q \in Places /\ q * Width < in.size
    BY <1>6, <2>1, <2>2, BlockOfCell
  <2> HIDE DEF q
  <2>4. Ptr(o.block, in, q) # NilBlock
    BY <1>2, <2>3, Ranges DEF Whole, NilBlock
  <2>5. im.block[Ptr(o.block, in, q)] = o.block[Ptr(o.block, in, q)]
    BY <2>3, <2>4 DEF AsIn
  <2> QED
    BY <1>3, <2>3, <2>5 DEF q
<1>8. CellsOf(im, in) = CellsOf(o, in)
  BY <1>7 DEF CellsOf
<1> QED
  BY <1>1, <1>5, <1>8 DEF Files

-----------------------------------------------------------------------------
(* The invariants of Fsck *)

LEMMA SoundTypes ==
  ASSUME disk \in Sound, ExactCounters(disk), cut \in Seq(Commands)
  PROVE  TypeOK
<1>1. disk \in Images
  BY SoundIs
<1>2. /\ disk.magic \in BOOLEAN /\ disk.bmap \subseteq Recorded /\ disk.imap \subseteq Inodes
      /\ disk.inode \in [Inodes -> InodeSet] /\ disk.block \in [Blocks -> Contained]
  BY <1>1, FieldsIn
<1>3. /\ NBlocks - Cardinality(disk.bmap) \in Nat /\ MaxInodes - Cardinality(disk.imap) \in Nat
  <2>1. /\ IsFiniteSet(1 .. NBits) /\ Cardinality(1 .. NBits) = NBits
        /\ IsFiniteSet(1 .. MaxInodes) /\ Cardinality(1 .. MaxInodes) = MaxInodes
    <3>1. NBits \in Nat /\ MaxInodes \in Nat /\ 1 \in Int /\ NBits \in Int /\ MaxInodes \in Int
      BY Geometry
    <3>2. Cardinality(1 .. NBits) = (IF 1 > NBits THEN 0 ELSE NBits - 1 + 1)
      BY <3>1, FS_Interval
    <3>3. Cardinality(1 .. MaxInodes) = (IF 1 > MaxInodes THEN 0 ELSE MaxInodes - 1 + 1)
      BY <3>1, FS_Interval
    <3> QED
      BY <3>1, <3>2, <3>3, FS_Interval, Geometry
  <2>2. /\ Cardinality(disk.bmap) <= NBits /\ Cardinality(disk.imap) <= MaxInodes
    <3>1. disk.bmap \in SUBSET (1 .. NBits) /\ disk.imap \in SUBSET (1 .. MaxInodes)
      BY <1>2 DEF Recorded, Inodes
    <3>2. Cardinality(disk.bmap) <= Cardinality(1 .. NBits)
      BY <2>1, <3>1, FS_Subset
    <3>3. Cardinality(disk.imap) <= Cardinality(1 .. MaxInodes)
      BY <2>1, <3>1, FS_Subset
    <3> QED
      BY <2>1, <3>2, <3>3
  <2>3. Cardinality(disk.bmap) \in Nat /\ Cardinality(disk.imap) \in Nat
    BY <1>1, ExactIs
  <2> QED
    BY <2>2, <2>3, Geometry
<1>4. \A f \in {"blocks", "inodes"} : disk.sb[f] \in Nat /\ disk.gd[f] \in Nat
  <2>1. /\ disk.sb.blocks \in Nat /\ disk.sb.inodes \in Nat
        /\ disk.gd.blocks \in Nat /\ disk.gd.inodes \in Nat
    BY <1>3 DEF ExactCounters
  <2> QED
    BY <2>1
<1>5. ASSUME NEW i \in Inodes
      PROVE  LET in == disk.inode[i]
             IN  /\ in.type \in {"none", "reg", "dir"}
                 /\ in.size \in 0..(NDirect + Width) * Width
                 /\ in.direct \in [0..NDirect - 1 -> Blocks \cup {NilBlock}]
                 /\ in.indirect \in Blocks \cup {NilBlock}
  <2> DEFINE in == disk.inode[i]
  <2>1. in \in InodeSet
    BY <1>2
  <2> HIDE DEF in
  <2>2. Ptrs \subseteq Blocks \cup {NilBlock}
    BY Ranges DEF Ptrs
  <2>3. /\ in.type \in {"none", "reg", "dir"} /\ in.size \in 0 .. Capacity
        /\ in.direct \in [0 .. NDirect - 1 -> Ptrs] /\ in.indirect \in Ptrs
    BY <2>1 DEF InodeSet
  <2>4. in.direct \in [0..NDirect - 1 -> Blocks \cup {NilBlock}]
    BY <2>2, <2>3
  <2>5. in.indirect \in Blocks \cup {NilBlock}
    BY <2>2, <2>3
  <2> QED
    BY <2>3, <2>4, <2>5 DEF Capacity, in
<1>6. ASSUME NEW b \in Blocks, NEW n \in 0 .. Width - 1
      PROVE  disk.block[b][n].kind \in {"zero", "entry", "pointer", "data"}
  <2>1. disk.block[b][n] \in Cells
    BY <1>2 DEF Contained
  <2>2. \A x \in Cells : x.kind \in {"zero", "entry", "pointer", "data"}
    BY DEF Cells, Zero, Pointer, Data, Entry
  <2> QED
    BY <2>1, <2>2
<1>7. ToSet(cut) \subseteq {"format", "mount", "fd", "cd", "ls", "open", "readf", "mkdir",
                           "create", "writef", "writefile", "chmod", "delete"}
  BY DEF ToSet, Commands
<1> QED
  BY <1>2, <1>4, <1>5, <1>6, <1>7 DEF TypeOK

LEMMA SoundFiles ==
  ASSUME disk \in Sound
  PROVE  Ownership /\ NoHoles
<1>1. Ownership
  BY SoundOwns DEF Ownership
<1>2. ASSUME NEW i \in Files(disk)
      PROVE  Len(Contents(disk, i)) = disk.inode[i].size
  <2>1. i \in Inodes /\ disk.inode[i].type = "reg"
    BY SoundIs, FieldsIn DEF Files
  <2> QED
    BY <2>1, SoundFull
<1> QED
  BY <1>1, <1>2 DEF NoHoles

\* Whatever is killed but a delete, each block stays in one place at most, where
\* the bitmap shows it, and files keep blocks below their sizes.
THEOREM KillsKeepOwnership ==
  ASSUME ReadClear = {}
  PROVE  Spec => []("delete" \notin ToSet(cut) => Ownership /\ NoHoles)
<1>1. IInv => ("delete" \notin ToSet(cut) => Ownership /\ NoHoles)
  BY SoundFiles DEF IInv
<1> QED
  BY <1>1, AlwaysSound, PTL

LEMMA NoneKilledStep ==
  ASSUME MaxCuts = 0, cut = <<>>, [Next]_vars
  PROVE  cut' = <<>>
<1>1. ~(Len(cut) < MaxCuts)
  OBVIOUS
<1>2. ASSUME NEW name, NEW c, RunOrKill(name, c)
      PROVE  cut' = <<>>
  BY <1>1, <1>2 DEF RunOrKill
<1>3. ASSUME NEW name, NEW c, Execute(name, c)
      PROVE  cut' = <<>>
  BY <1>2, <1>3 DEF Execute
<1>4. CASE UNCHANGED vars
  BY <1>4 DEF vars
<1>5. CASE DoFormat \/ DoMount \/ DoOnDescriptor \/ \E p \in LookPaths : DoLook(p)
  BY <1>2, <1>3, <1>5 DEF DoFormat, DoMount, DoOnDescriptor, DoLook
<1>6. ASSUME NEW uid \in Uids, \E p \in LookPaths : DoOpen(p, uid) \/ DoReadf(p, uid)
      PROVE  cut' = <<>>
  BY <1>3, <1>6 DEF DoOpen, DoReadf
<1>7. ASSUME NEW uid \in Uids,
             \/ \E p \in MkdirPaths : DoMkdir(p, uid)
             \/ \E p \in CreatePaths : DoCreate(p, uid)
      PROVE  cut' = <<>>
  BY <1>3, <1>7 DEF DoMkdir, DoCreate
<1>8. ASSUME NEW uid \in Uids,
             \/ \E a \in WriteArgs : DoWritef(a, uid)
             \/ \E a \in CopyArgs : DoWritefile(a, uid)
             \/ \E a \in ChmodArgs : DoChmod(a, uid)
      PROVE  cut' = <<>>
  BY <1>3, <1>8 DEF DoWritef, DoWritefile, DoChmod
<1>9. CASE \E p \in DeletePaths : DoDelete(p)
  BY <1>3, <1>9 DEF DoDelete
<1> QED
  BY <1>4, <1>5, <1>6, <1>7, <1>8, <1>9 DEF Next

\* As long as no command was killed, the image is well formed and its counters
\* agree with its bitmaps.
THEOREM CountersStayExact ==
  ASSUME ReadClear = {}
  PROVE  Spec => [](cut = <<>> => TypeOK /\ CountersExact)
<1>1. IInv => (cut = <<>> => TypeOK /\ CountersExact)
  <2> SUFFICES ASSUME IInv, cut = <<>>
               PROVE  TypeOK /\ CountersExact
    OBVIOUS
  <2>1. "delete" \notin ToSet(cut)
    BY DEF ToSet
  <2> QED
    BY <2>1, SoundTypes DEF IInv, CountersExact
<1> QED
  BY <1>1, AlwaysSound, PTL

-----------------------------------------------------------------------------
(* Files that stay as they are *)

\* What an image owes its file i.
LEMMA Itself ==
  ASSUME NEW o \in Sound, NEW i \in Files(o)
  PROVE  /\ o \in Safe({o}, {i}) /\ FilesOnly({o}, {i}) /\ {i} \in SUBSET Inodes
         /\ i \in o.imap /\ i \in Inodes
<1>1. o \in Images /\ Good(o)
  BY DEF Sound, Safe
<1>2. i \in o.imap /\ i \in Inodes /\ o.inode[i].type = "reg"
  BY <1>1, FieldsIn DEF Files
<1>3. Untouched({o}, o, {i})
  BY DEF Untouched, AsIn
<1> QED
  BY <1>1, <1>2, <1>3 DEF Safe, FilesOnly

LEMMA FileKept ==
  ASSUME NEW o \in Sound, NEW i \in Files(o), NEW im \in Safe({o}, {i})
  PROVE  i \in Files(im) /\ Contents(im, i) = Contents(o, i)
<1>1. Untouched({o}, im, {i}) /\ {i} \in SUBSET Inodes /\ i \in {i}
  BY Itself, SafeIs
<1>2. AsIn(o, im, {i})
  BY <1>1 DEF Untouched
<1> QED
  BY <1>1, <1>2, ContentsSame

\* A writef or writefile that does not find the file under its path, or may not
\* write it, leaves it alone with every one of its block writes.
LEMMA WritesAvoid ==
  ASSUME NEW o \in Sound, NEW i \in Files(o), ReadClear = {}, NEW uid \in Uids
  PROVE  /\ \A a \in WriteArgs : Avoids(Cur(fs_mount(o)), a[1], {i}, uid)
              => Writef(o, a, uid) \in Contexts(Safe({o}, {i}))
         /\ \A a \in CopyArgs : Avoids(Cur(fs_mount(o)), a[1], {i}, uid)
              => Writefile(o, a, uid) \in Contexts(Safe({o}, {i}))
<1> DEFINE m == fs_mount(o)
           K == {i}
<1>1. o \in Safe({o}, K) /\ FilesOnly({o}, K) /\ K \in SUBSET Inodes
  BY Itself
<1>2. m \in Contexts(Safe({o}, K))
  BY <1>1, MountSafe
<1>3. ASSUME NEW a \in WriteArgs, Avoids(Cur(m), a[1], K, uid)
      PROVE  Writef(o, a, uid) \in Contexts(Safe({o}, K))
  <2>1. /\ a[1] \in Seq(DOMAIN Stem) /\ a[1] # <<>> /\ Last(a[1]) \in Spelled
        /\ a[2] \in Nat \ {0} /\ a[3] \in Texts
    BY InputsAre
  <2> HIDE DEF K, m
  <2>2. Adds(WritefOf(m, a[1], a[2], a[3], uid), m, {o}, K)
    BY <1>1, <1>2, <1>3, <2>1, WritefOfIs
  <2>3. cmd_writef(m, a[1], a[2], a[3], uid) \in Contexts(Safe({o}, K))
    BY <2>2, AddsIn, WritefSplits
  <2> QED
    BY <1>2, <2>3, RunSplits DEF m
<1>4. ASSUME NEW a \in CopyArgs, Avoids(Cur(m), a[1], K, uid)
      PROVE  Writefile(o, a, uid) \in Contexts(Safe({o}, K))
  <2>1. /\ a[1] \in Seq(DOMAIN Stem) /\ a[1] # <<>> /\ Last(a[1]) \in Spelled
        /\ a[2] \in Nat \ {0} /\ a[3] \in Texts
    BY InputsAre
  <2> HIDE DEF K, m
  <2>2. Adds(cmd_writefile(m, a[1], a[2], a[3], uid), m, {o}, K)
    BY <1>1, <1>2, <1>4, <2>1, WritefileIs
  <2>3. cmd_writefile(m, a[1], a[2], a[3], uid) \in Contexts(Safe({o}, K))
    BY <2>2, AddsIn
  <2> QED
    BY <1>2, <2>3, RunSplits DEF m
<1> QED
  BY <1>3, <1>4

\* A file that a user may not write is avoided by all of the user's paths.
LEMMA ProtectedAvoids ==
  ASSUME NEW o \in Sound, NEW i \in Files(o), ReadClear = {}, NEW uid,
         ~MayWrite(o.inode[i], uid), NEW path
  PROVE  Avoids(Cur(fs_mount(o)), path, {i}, uid)
<1>1. o \in Safe({o}, {i}) /\ FilesOnly({o}, {i}) /\ {i} \in SUBSET Inodes
  BY Itself
<1>2. Cur(fs_mount(o)) \in Safe({o}, {i})
  BY <1>1, MountSafe, CurIn
<1>3. Cur(fs_mount(o)).inode[i] = o.inode[i]
  BY <1>2, SafeIs DEF Untouched, AsIn
<1>4. ~perm_can_write(o.inode[i], uid)
  BY DEF MayWrite, perm_can_write
<1> QED
  BY <1>3, <1>4 DEF Avoids

LEMMA SoundProtected ==
  ASSUME disk \in Sound, ReadClear = {}
  PROVE  ProtectedFilesKept
<1> SUFFICES ASSUME NEW w \in Writes, NEW i \in Files(disk), ~MayWrite(disk.inode[i], w.uid)
             PROVE  Contents(Cur(w.ctx), i) = Contents(disk, i)
  BY DEF ProtectedFilesKept
<1>1. w.ctx \in Contexts(Safe({disk}, {i}))
  <2>1. CASE \E a \in WriteArgs, u \in Uids : w.uid = u /\ w.ctx = Writef(disk, a, u)
    BY <2>1, ProtectedAvoids, WritesAvoid
  <2>2. CASE \E a \in CopyArgs, u \in Uids : w.uid = u /\ w.ctx = Writefile(disk, a, u)
    BY <2>2, ProtectedAvoids, WritesAvoid
  <2> QED
    BY <2>1, <2>2 DEF Writes
<1>2. Cur(w.ctx) \in Safe({disk}, {i})
  BY <1>1, CurIn
<1> QED
  BY <1>2, FileKept

\* Whatever is killed but a delete: a user who may not write a file leaves what is
\* in it alone.
THEOREM ProtectionHolds ==
  ASSUME ReadClear = {}
  PROVE  Spec => []ProtectedFilesKept
<1>1. IInv => ProtectedFilesKept
  <2> SUFFICES ASSUME IInv, CutNothingButAdds
               PROVE  ProtectedFilesKept
    BY DEF ProtectedFilesKept
  <2>1. "delete" \notin ToSet(cut)
    BY DEF CutNothingButAdds
  <2> QED
    BY <2>1, SoundProtected DEF IInv
<1> QED
  BY <1>1, AlwaysSound, PTL


-----------------------------------------------------------------------------
(* What a mount changes of the way a path takes.  It may enter /.users, and  *)
(* the inode it takes for it may be one that names of deleted files still    *)
(* lead to.                                                                  *)

\* What looks up in new finds the same in old, or the inode j.
Finds(new, old, j, d) ==
  \A name : LET r == dir_lookup(new, d, name)
                s == dir_lookup(old, d, name)
            IN  r.ret = FS_OK => r.ino = j \/ (s.ret = FS_OK /\ s.ino = r.ino)
Sees(new, old, j) == \A d \in Inodes \ {j} : Finds(new, old, j, d)

LEMMA SeesTrans ==
  ASSUME NEW a, NEW b, NEW c, NEW j, Sees(c, b, j), Sees(b, a, j)
  PROVE  Sees(c, a, j)
BY Zenon DEF Sees, Finds

\* A directory that is the same with the blocks it holds.
LEMMA LookupSame ==
  ASSUME NEW old \in Images, NEW new \in Images, NEW d \in Inodes,
         new.inode[d] = old.inode[d],
         \A n \in Places : LET b == Ptr(old.block, old.inode[d], n)
                           IN  b # NilBlock => new.block[b] = old.block[b],
         NEW name
  PROVE  dir_lookup(new, d, name) = dir_lookup(old, d, name)
<1> DEFINE in == old.inode[d]
<1>1. in \in InodeSet
  BY FieldsIn
<1>2. ASSUME NEW k \in Slots(in)
      PROVE  SlotCell(new, in, k) = SlotCell(old, in, k)
  <2> DEFINE n == k \div Width
             b == in.direct[n]
  <2>1. b \in Blocks /\ b = Ptr(old.block, in, n) /\ n \in 0 .. NDirect - 1
    BY <1>1, SlotIs
  <2>2. b # NilBlock /\ n \in Places
    BY <2>1, Geometry, Ranges DEF NilBlock, Places
  <2> HIDE DEF n
  <2>3. new.block[b] = old.block[b]
    BY <2>1, <2>2
  <2> QED
    BY <2>3 DEF SlotCell, n
<1>3. new.inode[d] = in
  OBVIOUS
<1> HIDE DEF in
<1> DEFINE Named1(im, k) == SlotCell(im, in, k).kind = "entry" /\ SlotCell(im, in, k).name = name
<1>4. /\ Matches(new, d, name) = {k \in Slots(in) : Named1(new, k)}
      /\ Matches(old, d, name) = {k \in Slots(in) : Named1(old, k)}
  BY <1>3, Zenon DEF Matches, in
<1>5. \A k \in Slots(in) : Named1(new, k) <=> Named1(old, k)
  BY <1>2
<1> HIDE DEF Named1
<1>6. Matches(new, d, name) = Matches(old, d, name)
  BY <1>4, <1>5
<1> DEFINE m == Matches(old, d, name)
           k == Min(m)
<1>7. m # {} => k \in m
  <2>1. m \subseteq Slots(in)
    BY <1>4
  <2>2. m \subseteq Nat
    BY <1>1, <2>1, SlotIs
  <2> HIDE DEF m
  <2> QED
    BY <2>2, MinProperty
<1>8. m # {} => SlotCell(new, in, k) = SlotCell(old, in, k)
  BY <1>2, <1>4, <1>7
<1> HIDE DEF k
<1>9. CASE m = {}
  BY <1>3, <1>6, <1>9 DEF dir_lookup, in, m
<1>10. CASE m # {}
  <2>1. dir_lookup(new, d, name) = IF in.type # "dir" THEN [ret |-> FS_ENOTDIR, ino |-> 0]
                                   ELSE [ret |-> FS_OK, ino |-> SlotCell(new, in, k).ino]
    BY <1>3, <1>6, <1>10 DEF dir_lookup, m, k
  <2>2. dir_lookup(old, d, name) = IF in.type # "dir" THEN [ret |-> FS_ENOTDIR, ino |-> 0]
                                   ELSE [ret |-> FS_OK, ino |-> SlotCell(old, in, k).ino]
    BY <1>10 DEF dir_lookup, m, k, in
  <2> QED
    BY <1>8, <1>10, <2>1, <2>2
<1> QED
  BY <1>9, <1>10

\* The images in which one finds what old shows, or j.
Seen(old, j) == {im \in Images : Sees(im, old, j)}

LEMMA SeesSafe ==
  ASSUME NEW old, NEW j, NEW im \in Safe(Seen(old, j), Inodes \ {j})
  PROVE  im \in Sound /\ Sees(im, old, j)
<1>1. PICK w \in Images : Sees(w, old, j) /\ AsIn(w, im, Inodes \ {j})
  BY DEF Safe, Untouched, Seen
<1>2. im \in Images
  BY DEF Safe
<1>3. ASSUME NEW d \in Inodes \ {j}
      PROVE  Finds(im, old, j, d)
  <2>1. \A name : dir_lookup(im, d, name) = dir_lookup(w, d, name)
    BY <1>1, <1>2, LookupSame DEF AsIn
  <2>2. Finds(w, old, j, d)
    BY <1>1 DEF Sees
  <2> QED
    BY <2>1, <2>2 DEF Finds
<1>4. im \in Sound
  BY DEF Safe, Sound, Untouched, AsIn
<1> QED
  BY <1>3, <1>4 DEF Sees

LEMMA SafeSees ==
  ASSUME NEW old, NEW j, NEW im \in Sound, Sees(im, old, j)
  PROVE  im \in Safe(Seen(old, j), Inodes \ {j})
<1>1. im \in Images /\ Good(im)
  BY DEF Sound, Safe
<1>2. im \in Seen(old, j)
  BY <1>1 DEF Seen
<1>3. AsIn(im, im, Inodes \ {j})
  BY DEF AsIn
<1> QED
  BY <1>1, <1>2, <1>3 DEF Safe, Untouched

\* One entry more at the end of a directory: for the name of j.
MoreSlots(new, old, j, d, k0) ==
  LET in == old.inode[d]
      in2 == new.inode[d]
  IN  /\ k0 \in Nat
      /\ \A k \in Slots(in) : /\ k < k0 /\ k \in Slots(in2)
                              /\ SlotCell(new, in2, k) = SlotCell(old, in, k)
      /\ \A k \in Slots(in2) : (k # k0 /\ SlotCell(new, in2, k).kind = "entry") => k \in Slots(in)
      /\ k0 \in Slots(in2) => SlotCell(new, in2, k0).ino = j

LEMMA LookupMore ==
  ASSUME NEW old \in Images, NEW new \in Images, NEW j, NEW d \in Inodes, NEW k0,
         old.inode[d].type = "dir", MoreSlots(new, old, j, d, k0)
  PROVE  Finds(new, old, j, d)
<1> DEFINE in == old.inode[d]
           in2 == new.inode[d]
<1>1. in \in InodeSet /\ in2 \in InodeSet
  BY FieldsIn
<1>2. /\ k0 \in Nat
      /\ \A k \in Slots(in) : /\ k < k0 /\ k \in Slots(in2)
                              /\ SlotCell(new, in2, k) = SlotCell(old, in, k)
      /\ \A k \in Slots(in2) : (k # k0 /\ SlotCell(new, in2, k).kind = "entry") => k \in Slots(in)
      /\ k0 \in Slots(in2) => SlotCell(new, in2, k0).ino = j
  BY DEF MoreSlots
<1> SUFFICES ASSUME NEW name, dir_lookup(new, d, name).ret = FS_OK,
                    dir_lookup(new, d, name).ino # j
             PROVE  /\ dir_lookup(old, d, name).ret = FS_OK
                    /\ dir_lookup(old, d, name).ino = dir_lookup(new, d, name).ino
  BY DEF Finds
<1> DEFINE m == Matches(old, d, name)
           m2 == Matches(new, d, name)
           k == Min(m2)
<1>3. /\ m2 = {n \in Slots(in2) : SlotCell(new, in2, n).kind = "entry"
                                  /\ SlotCell(new, in2, n).name = name}
      /\ m = {n \in Slots(in) : SlotCell(old, in, n).kind = "entry"
                                /\ SlotCell(old, in, n).name = name}
  BY Zenon DEF Matches
<1>4. /\ dir_lookup(new, d, name) = IF in2.type # "dir" THEN [ret |-> -5, ino |-> 0]
           ELSE IF m2 = {} THEN [ret |-> -2, ino |-> 0]
           ELSE [ret |-> 0, ino |-> SlotCell(new, in2, k).ino]
      /\ dir_lookup(old, d, name) = IF in.type # "dir" THEN [ret |-> -5, ino |-> 0]
           ELSE IF m = {} THEN [ret |-> -2, ino |-> 0]
           ELSE [ret |-> 0, ino |-> SlotCell(old, in, Min(m)).ino]
  BY DEF dir_lookup, FS_ENOTDIR, FS_ENOENT, FS_OK
<1>5. in2.type = "dir" /\ m2 # {} /\ SlotCell(new, in2, k).ino # j
  BY <1>4 DEF FS_OK
<1> HIDE DEF in, in2, m, m2
<1>6. m \subseteq Nat /\ m2 \subseteq Nat
  BY <1>1, <1>3, SlotIs
<1>7. k \in m2 /\ \A n \in m2 : k <= n
  BY <1>5, <1>6, MinProperty
<1>8. k # k0
  BY <1>2, <1>3, <1>5, <1>7
<1>9. k \in m
  BY <1>2, <1>3, <1>7, <1>8
<1>10. m \subseteq m2
  BY <1>2, <1>3
<1> HIDE DEF k
<1>11. Min(m) \in m /\ \A n \in m : Min(m) <= n
  BY <1>6, <1>9, MinProperty
<1>12. Min(m) = k
  <2>1. Min(m) \in Nat /\ k \in Nat /\ Min(m) <= k /\ k <= Min(m)
    BY <1>6, <1>7, <1>9, <1>10, <1>11
  <2> QED
    BY <2>1
<1>13. SlotCell(new, in2, k) = SlotCell(old, in, k)
  BY <1>2, <1>3, <1>9
<1>14. dir_lookup(old, d, name) = [ret |-> 0, ino |-> SlotCell(old, in, k).ino]
  BY <1>4, <1>9, <1>12 DEF in
<1>15. dir_lookup(new, d, name) = [ret |-> 0, ino |-> SlotCell(new, in2, k).ino]
  BY <1>4, <1>5 DEF k
<1> QED
  BY <1>13, <1>14, <1>15 DEF FS_OK

\* The image while the name of j is entered: the cell is written, and the inode of
\* the directory perhaps.
Entering(x, im, dir, bn, b, start, cell) ==
  LET in == im.inode[dir]
  IN  /\ \/ in.direct[bn] = b /\ start = im.block[b]
         \/ in.direct[bn] = NilBlock /\ b \notin im.bmap /\ start = ZeroBlock
      /\ x.block[b] = Put(start, in.size % Width, cell)
      /\ \A y \in Blocks : y # b => x.block[y] = im.block[y]
      /\ \A d \in Inodes : d # dir => x.inode[d] = im.inode[d]
      /\ x.inode[dir].size \in {in.size, in.size + 1}
      /\ \A n \in 0 .. NDirect - 1 :
           \/ x.inode[dir].direct[n] = in.direct[n]
           \/ n = bn /\ x.inode[dir].direct[n] = b

LEMMA EnteringSees ==
  ASSUME NEW im \in Sound, NEW x \in Images, NEW j, NEW dir \in Inodes,
         im.inode[dir].type = "dir", NEW bn \in 0 .. NDirect - 1,
         bn = im.inode[dir].size \div Width, NEW b \in Recorded,
         NEW start \in Contained, NEW cell, cell.ino = j,
         Entering(x, im, dir, bn, b, start, cell)
  PROVE  Sees(x, im, j)
<1> DEFINE in == im.inode[dir]
           in2 == x.inode[dir]
           k0 == in.size
           at == k0 % Width
<1>1. /\ im \in Images /\ Owns(im.bmap, im.block, im.inode)
      /\ \A i \in Inodes : im.inode[i] \in InodeSet
      /\ x.inode[dir] \in InodeSet
  BY FieldsIn, SafeIs DEF Sound
<1>2. k0 \in Nat /\ at \in 0 .. Width - 1 /\ k0 = Width * bn + at
  <2>1. k0 \in Nat /\ bn = k0 \div Width
    BY <1>1 DEF InodeSet
  <2> HIDE DEF k0
  <2> QED
    BY <2>1, Divided
<1>3. b \in Blocks /\ b # NilBlock
  BY Ranges DEF NilBlock
<1>4. /\ \/ in.direct[bn] = b /\ start = im.block[b]
         \/ in.direct[bn] = NilBlock /\ b \notin im.bmap /\ start = ZeroBlock
      /\ x.block[b] = Put(start, at, cell)
      /\ \A y \in Blocks : y # b => x.block[y] = im.block[y]
      /\ \A d \in Inodes : d # dir => x.inode[d] = im.inode[d]
      /\ in2.size \in {in.size, in.size + 1}
      /\ \A n \in 0 .. NDirect - 1 : in2.direct[n] = in.direct[n] \/ (n = bn /\ in2.direct[n] = b)
  BY DEF Entering
<1>5. /\ x.block[b][at] = cell
      /\ \A m \in 0 .. Width - 1 : m # at => x.block[b][m] = start[m]
  BY <1>2, <1>4 DEF Contained, Put
<1>6. \A i \in Inodes, n \in Places :
        Ptr(im.block, im.inode[i], n) = b => i = dir /\ n = bn /\ in.direct[bn] = b
  <2> SUFFICES ASSUME NEW i \in Inodes, NEW n \in Places, Ptr(im.block, im.inode[i], n) = b
               PROVE  i = dir /\ n = bn /\ in.direct[bn] = b
    OBVIOUS
  <2>1. b \in im.bmap
    BY <1>1, <1>3 DEF Owns, Marked
  <2>2. in.direct[bn] = b
    BY <1>4, <2>1
  <2>3. bn \in Places /\ Ptr(im.block, in, bn) = b
    BY <2>2, Geometry DEF Places, Ptr
  <2> QED
    BY <1>1, <1>3, <2>2, <2>3 DEF Owns, Apart
<1>7. ASSUME NEW d \in Inodes, d # dir
      PROVE  Finds(x, im, j, d)
  <2>1. x.inode[d] = im.inode[d]
    BY <1>4, <1>7
  <2>2. ASSUME NEW n \in Places, Ptr(im.block, im.inode[d], n) # NilBlock
        PROVE  x.block[Ptr(im.block, im.inode[d], n)] = im.block[Ptr(im.block, im.inode[d], n)]
    <3> DEFINE y == Ptr(im.block, im.inode[d], n)
    <3>1. y \in Ptrs
      BY <1>1, PtrIn, FieldsIn DEF Owns
    <3>2. y \in Blocks
      BY <2>2, <3>1, Ranges DEF Ptrs
    <3>3. y # b
      BY <1>6, <1>7
    <3> QED
      BY <1>4, <3>2, <3>3
  <2>3. \A name : dir_lookup(x, d, name) = dir_lookup(im, d, name)
    BY <1>1, <2>1, <2>2, LookupSame
  <2> QED
    BY <2>3 DEF Finds
<1>8. ASSUME NEW k \in Nat, k \div Width = bn, k % Width = at
      PROVE  k = k0
  BY <1>2, <1>8, Divided
<1>9. in2.size \in Nat
  BY <1>2, <1>4
<1> HIDE DEF in, in2, k0, at
<1>10. in \in InodeSet /\ in2 \in InodeSet
  BY <1>1 DEF in, in2
<1>11. ASSUME NEW k \in Slots(in)
       PROVE  /\ k < k0 /\ k \in Slots(in2)
              /\ SlotCell(x, in2, k) = SlotCell(im, in, k)
  <2> DEFINE n == k \div Width
             m == k % Width
             y == in.direct[n]
  <2>1. /\ k \in Nat /\ k < k0 /\ n \in 0 .. NDirect - 1 /\ m \in 0 .. Width - 1
        /\ y \in Blocks /\ y = Ptr(im.block, in, n)
    BY <1>1, <1>10, SlotIs DEF k0
  <2>2. y # NilBlock /\ n \in Places
    BY <2>1, Geometry, Ranges DEF NilBlock, Places
  <2>3. n = bn /\ m = at => k = k0
    BY <1>8, <2>1
  <2> HIDE DEF n, m
  <2>4. in2.direct[n] = y
    <3>1. in2.direct[n] = y \/ (n = bn /\ in2.direct[n] = b)
      BY <1>4, <2>1 DEF in, in2
    <3>2. n = bn => y = b
      BY <1>4, <2>2 DEF in
    <3> QED
      BY <3>1, <3>2
  <2>5. x.block[y][m] = im.block[y][m]
    <3>1. CASE y # b
      BY <1>4, <2>1, <3>1
    <3>2. CASE y = b
      <4>1. n = bn /\ in.direct[bn] = b
        BY <1>6, <2>1, <2>2, <3>2 DEF in
      <4>2. m # at
        BY <1>2, <2>1, <2>3, <4>1 DEF k0
      <4>3. start = im.block[b]
        BY <1>3, <1>4, <4>1 DEF in
      <4> QED
        BY <1>5, <2>1, <3>2, <4>2, <4>3 DEF at
    <3> QED
      BY <3>1, <3>2
  <2>6. k \in Slots(in2)
    <3>1. k \in 0 .. in2.size - 1
      <4>1. in2.size \in {k0, k0 + 1}
        BY <1>4 DEF k0, in, in2
      <4> QED
        BY <1>2, <1>9, <2>1, <4>1
    <3> QED
      BY <2>1, <2>2, <2>4, <3>1, Geometry DEF Slots, n
  <2> QED
    BY <2>1, <2>4, <2>5, <2>6 DEF SlotCell, n, m
<1>12. ASSUME NEW k \in Slots(in2), k # k0, SlotCell(x, in2, k).kind = "entry"
       PROVE  k \in Slots(in)
  <2> DEFINE n == k \div Width
             m == k % Width
  <2>1. /\ k \in Nat /\ k < in2.size /\ n \in 0 .. NDirect - 1 /\ m \in 0 .. Width - 1
        /\ in2.direct[n] \in Blocks
    BY <1>10, SlotIs
  <2>2. k \in 0 .. in.size - 1
    <3>1. in2.size \in {k0, k0 + 1}
      BY <1>4 DEF k0, in, in2
    <3>2. k \in 0 .. k0 - 1
      BY <1>2, <1>12, <2>1, <3>1
    <3> QED
      BY <3>2 DEF k0
  <2>3. ~(n = bn /\ m = at)
    BY <1>8, <1>12, <2>1
  <2> HIDE DEF n, m
  <2>4. in.direct[n] # NilBlock
    <3> SUFFICES ASSUME in.direct[n] = NilBlock
                 PROVE  FALSE
      OBVIOUS
    <3>1. n = bn /\ in2.direct[n] = b
      BY <1>4, <2>1, Ranges DEF in, in2, NilBlock
    <3>2. start = ZeroBlock
      BY <1>3, <1>4, <3>1 DEF in
    <3>3. x.block[b][m] = Zero
      BY <1>5, <2>1, <2>3, <3>1, <3>2 DEF ZeroBlock, at
    <3> QED
      BY <1>12, <3>1, <3>3 DEF SlotCell, n, m, Zero
  <2> QED
    BY <2>1, <2>2, <2>4, Geometry DEF Slots, n
<1>13. ASSUME k0 \in Slots(in2)
       PROVE  SlotCell(x, in2, k0).ino = j
  <2>1. k0 \div Width = bn /\ k0 % Width = at
    BY DEF k0, at, in
  <2>2. in2.direct[bn] \in Blocks
    BY <1>10, <1>13, <2>1, SlotIs
  <2>3. in2.direct[bn] = b
    BY <1>4, <2>2, Ranges DEF in, in2, NilBlock
  <2>4. x.block[b][at] = cell
    BY <1>5 DEF at
  <2> QED
    BY <2>1, <2>3, <2>4 DEF SlotCell
<1>14. MoreSlots(x, im, j, dir, k0)
  BY <1>2, <1>11, <1>12, <1>13 DEF MoreSlots, in, in2, k0
<1>15. Finds(x, im, j, dir)
  BY <1>1, <1>14, LookupMore
<1> QED
  BY <1>7, <1>15 DEF Sees

\* The block ensure_dir_block gives: the one that is there, or a fresh one.
Ensured(d, c, bn) ==
  LET b == d.ret
  IN  /\ b \in Recorded /\ Cur(d).inode = Cur(c).inode
      /\ d.in.size = c.in.size /\ d.in.type = c.in.type
      /\ d.in.direct = Put(c.in.direct, bn, b)
      /\ \/ c.in.direct[bn] = b /\ Cur(d).block = Cur(c).block
         \/ /\ c.in.direct[bn] = NilBlock /\ b \notin Cur(c).bmap
            /\ Cur(d).block = Put(Cur(c).block, b, ZeroBlock)

LEMMA EnsureExact ==
  ASSUME NEW O, NEW K \in SUBSET Inodes, NEW c \in Copies(Safe(O, K)), ReadClear = {},
         NEW bn \in Nat
  PROVE  LET d == ensure_dir_block(c, bn)
         IN  /\ d \in Copies(Safe(O, K)) /\ (d.ret < 0 => Cur(d) = Cur(c))
             /\ ~(d.ret < 0) => bn < NDirect /\ Ensured(d, c, bn)
<1> DEFINE S == Safe(O, K)
<1>1. ensure_dir_block(c, bn)
        = IF bn >= NDirect THEN Ret(c, -4)
          ELSE IF c.in.direct[bn] # NilBlock THEN Ret(c, c.in.direct[bn])
          ELSE NewDirect(c, bn)
  BY Zenon DEF ensure_dir_block, NewDirect, FS_ENOSPC
<1>2. c.in \in InodeSet /\ c.in.direct \in [0 .. NDirect - 1 -> Ptrs]
  BY DEF Copies, InodeSet
<1>3. CASE bn >= NDirect
  <2>1. ensure_dir_block(c, bn) = Ret(c, -4)
    BY <1>1, <1>3
  <2>2. -4 \in Int /\ -4 < 0 /\ c \in Contexts(S) \cup Copies(S)
    OBVIOUS
  <2>3. Ret(c, -4) \in Copies(S) /\ Ret(c, -4).ret = -4 /\ Cur(Ret(c, -4)) = Cur(c)
    BY <2>2, RetFollows DEF Follows
  <2> QED
    BY <2>1, <2>2, <2>3
<1>4. CASE ~(bn >= NDirect) /\ c.in.direct[bn] # NilBlock
  <2> DEFINE r == c.in.direct[bn]
             d == Ret(c, r)
  <2>1. ensure_dir_block(c, bn) = d
    BY <1>1, <1>4
  <2>2. bn \in 0 .. NDirect - 1 /\ bn < NDirect
    BY <1>4, Geometry
  <2>3. r \in Ptrs /\ r # NilBlock
    BY <1>2, <1>4, <2>2
  <2>4. r \in Recorded /\ r \in Int
    BY <2>3, PtrsInt DEF Ptrs
  <2>5. c.in.direct = Put(c.in.direct, bn, r)
    BY <1>2, <2>2 DEF Put
  <2> HIDE DEF r
  <2>8. c \in Contexts(S) \cup Copies(S)
    OBVIOUS
  <2>6. d \in Copies(S) /\ d.ret = r /\ Cur(d) = Cur(c) /\ d.in = c.in
    BY <2>4, <2>8, RetFollows DEF Follows
  <2>7. Ensured(d, c, bn)
    BY <2>4, <2>5, <2>6 DEF Ensured, r
  <2> QED
    BY <2>1, <2>2, <2>6, <2>7
<1>5. CASE ~(bn >= NDirect) /\ ~(c.in.direct[bn] # NilBlock)
  <2> DEFINE a == AllocZeroed(c)
             d == SetDirect(a, bn, a.ret)
  <2>1. bn \in 0 .. NDirect - 1 /\ bn < NDirect
    BY <1>5, Geometry
  <2>2. ensure_dir_block(c, bn) = NewDirect(c, bn)
    BY <1>1, <1>5
  <2>3. NewDirect(c, bn) = IF a.ret < 0 THEN a ELSE d
    BY Zenon DEF NewDirect, IfOk, SetDirect
  <2>4. a \in Copies(S) /\ a.in = c.in /\ a.ret \in Int /\ Clears(a, c)
    BY AllocZeroedIs DEF Follows
  <2> HIDE DEF a
  <2>5. CASE a.ret < 0
    BY <2>2, <2>3, <2>4, <2>5 DEF Clears
  <2>6. CASE ~(a.ret < 0)
    <3>1. /\ a.ret \in Recorded \ Cur(c).bmap /\ Cur(a).inode = Cur(c).inode
          /\ Cur(a).block = Put(Cur(c).block, a.ret, ZeroBlock)
      BY <2>4, <2>6 DEF Clears
    <3>2. a.ret \in Ptrs
      BY <3>1 DEF Ptrs
    <3>3. /\ d \in Copies(S) /\ Cur(d) = Cur(a) /\ d.ret = a.ret
          /\ d.in.direct = Put(a.in.direct, bn, a.ret)
          /\ d.in.size = a.in.size /\ d.in.type = a.in.type
      BY <2>1, <2>4, <3>2, SetDirectIs
    <3> HIDE DEF d
    <3>4. Ensured(d, c, bn)
      BY <1>5, <2>4, <3>1, <3>3 DEF Ensured
    <3>5. ensure_dir_block(c, bn) = d
      BY <2>2, <2>3, <2>6
    <3> QED
      BY <2>1, <2>6, <3>3, <3>4, <3>5
  <2> QED
    BY <2>5, <2>6
<1> QED
  BY <1>3, <1>4, <1>5

LEMMA CopiesMono ==
  ASSUME NEW I, NEW J, I \subseteq J
  PROVE  Copies(I) \subseteq Copies(J)
<1>1. Seq(I) \subseteq Seq(J)
  OBVIOUS
<1> QED
  BY <1>1 DEF Copies

LEMMA TwoMore ==
  ASSUME NEW S, NEW s \in Seq(S), NEW a, NEW b, NEW t, t = Append(Append(s, a), b)
  PROVE  /\ Len(s) + 1 \in DOMAIN t /\ Len(s) + 2 \in DOMAIN t
         /\ t[Len(s) + 1] = a /\ t[Len(s) + 2] = b
         /\ a \in S /\ b \in S => t \in Seq(S) \ {<<>>}
<1> DEFINE T == S \cup {a, b}
           m == Append(s, a)
<1>1. s \in Seq(T) /\ a \in T /\ b \in T /\ Len(s) \in Nat
  OBVIOUS
<1>2. m \in Seq(T) /\ Len(m) = Len(s) + 1 /\ m[Len(s) + 1] = a
  BY <1>1, AppendProperties
<1> HIDE DEF m
<1>3. t \in Seq(T) /\ Len(t) = Len(m) + 1 /\ t[Len(m) + 1] = b
      /\ (\A i \in 1 .. Len(m) : t[i] = m[i]) /\ t # <<>>
  BY <1>1, <1>2, AppendProperties DEF m
<1>4. Len(s) + 1 \in 1 .. Len(m) /\ Len(s) + 1 \in 1 .. Len(t) /\ Len(s) + 2 \in 1 .. Len(t)
      /\ Len(m) + 1 = Len(s) + 2
  BY <1>1, <1>2, <1>3
<1>5. t[Len(s) + 1] = a /\ t[Len(s) + 2] = b
  BY <1>2, <1>3, <1>4
<1>6. DOMAIN t = 1 .. Len(t)
  BY <1>3
<1>7. a \in S /\ b \in S => T = S
  OBVIOUS
<1> HIDE DEF T
<1>8. a \in S /\ b \in S => t \in Seq(S) \ {<<>>}
  BY <1>3, <1>7
<1> QED
  BY <1>4, <1>5, <1>6, <1>8

LEMMA LastOfTwo ==
  ASSUME NEW S, NEW s \in Seq(S), NEW a, NEW b
  PROVE  Last(Append(Append(s, a), b)) = b
<1>1. s \in Seq(S \cup {a, b}) /\ Append(s, a) \in Seq(S \cup {a, b})
  OBVIOUS
<1> QED
  BY <1>1, AppendProperties DEF Last

\* mid and p are the two images dir_add writes for e, its copy of the directory.
Enters(mid, p, e, dir, k, cell) ==
  LET im == Cur(e)
      b == e.ret
  IN  /\ mid.inode = im.inode /\ p.block = mid.block
      /\ mid.block = Put(im.block, b, Put(im.block[b], k, cell))
      /\ \A i \in Inodes : i # dir => p.inode[i] = mid.inode[i]
      /\ p.inode[dir].size = e.in.size + 1 /\ p.inode[dir].direct = e.in.direct

LEMMA EnteredWrites ==
  ASSUME NEW I, I \subseteq Images, NEW e \in Copies(I), NEW dir \in Inodes, e.ret \in Blocks,
         NEW k \in 0 .. Width - 1, NEW cell \in Cells, e.in.size + 1 \in 0 .. Capacity
  PROVE  \E mid, p \in Images :
           /\ Entered(e, dir, k, cell).log = Append(Append(e.log, mid), p)
           /\ Enters(mid, p, e, dir, k, cell)
<1> DEFINE im == Cur(e)
           b == e.ret
           mid == PutCell(im, b, k, cell)
           r == Returned(e)
           w == DevWrite(r, mid)
           in2 == [e.in EXCEPT !.size = e.in.size + 1]
           p == PutInode(mid, dir, in2)
           d == DevWrite(w, p)
<1>1. im \in Images
  BY CurIn
<1>2. mid \in Images /\ mid.inode = im.inode /\ mid.block = Put(im.block, b, Put(im.block[b], k, cell))
  BY <1>1, PutCellIs
<1>3. r \in Contexts(I) /\ r.log = e.log
  BY CopyOf DEF Copies
<1>4. r \in Contexts(Images)
  BY <1>3, ContextsMono
<1> HIDE DEF r, mid
<1>5. w \in Contexts(Images) /\ w.log = Append(e.log, mid) /\ Cur(w) = mid
  BY <1>2, <1>3, <1>4, DevWriteIn DEF Wrote
<1>6. in2 \in InodeSet /\ in2.size = e.in.size + 1 /\ in2.direct = e.in.direct
  BY InodeFields DEF Copies, SamePtrs
<1> HIDE DEF in2, w
<1>7. p \in Images /\ p.block = mid.block /\ p.inode = Put(mid.inode, dir, in2)
  BY <1>2, <1>6, PutInodeIs
<1>8. mid.inode \in [Inodes -> InodeSet]
  BY <1>2, FieldsIn
<1>9. /\ p.inode[dir] = in2
      /\ \A i \in Inodes : i # dir => p.inode[i] = mid.inode[i]
  BY <1>6, <1>7, <1>8, PutInodesIs
<1> HIDE DEF p
<1>10. d.log = Append(Append(e.log, mid), p)
  BY <1>5, <1>7, DevWriteIn DEF Wrote
<1>11. Entered(e, dir, k, cell) = write_inode(w, dir, in2)
  BY Zenon DEF Entered, PutCell, in2, r, w, mid
<1>12. write_inode(w, dir, in2) = d
  BY <1>5 DEF write_inode, PutInode, p
<1> HIDE DEF d
<1>13. Enters(mid, p, e, dir, k, cell)
  BY <1>2, <1>6, <1>7, <1>9 DEF Enters
<1> QED
  BY <1>2, <1>7, <1>10, <1>11, <1>12, <1>13

LEMMA SeenSound ==
  ASSUME NEW old, NEW j
  PROVE  /\ Safe(Seen(old, j), Inodes \ {j}) \subseteq Sound
         /\ Contexts(Safe(Seen(old, j), Inodes \ {j})) \subseteq Contexts(Sound)
<1>1. Safe(Seen(old, j), Inodes \ {j}) \subseteq Sound
  BY SeesSafe
<1> QED
  BY <1>1, ContextsMono

\* Where the next entry of a directory goes: the place of its block, and the cell.
AtEnd(in, bn, k) == bn = in.size \div Width /\ k = in.size % Width

\* What one finds in them is what was there, or j.
LEMMA EntersSees ==
  ASSUME NEW im \in Sound, NEW c, Cur(c) = im, NEW dir \in Inodes, c.in = im.inode[dir],
         c.in.type = "dir", NEW e, Cur(e) \in Images,
         NEW bn \in 0 .. NDirect - 1, NEW k, AtEnd(c.in, bn, k), Ensured(e, c, bn),
         NEW j, NEW cell, cell.ino = j, NEW mid \in Images, NEW p \in Images,
         Enters(mid, p, e, dir, k, cell)
  PROVE  Sees(mid, im, j) /\ Sees(p, im, j)
<1> DEFINE in == im.inode[dir]
           b == e.ret
           was == im.block
           now == Cur(e).block
           new == mid.block
           start == now[b]
           direct == e.in.direct
<1>1. /\ was \in [Blocks -> Contained] /\ now \in [Blocks -> Contained]
      /\ im \in Images /\ in \in InodeSet /\ in.direct \in [0 .. NDirect - 1 -> Ptrs]
  BY FieldsIn, SoundIs DEF InodeSet
<1>2. /\ b \in Recorded /\ Cur(e).inode = im.inode /\ e.in.size = in.size
      /\ direct = Put(in.direct, bn, b)
      /\ \/ in.direct[bn] = b /\ now = was
         \/ in.direct[bn] = NilBlock /\ b \notin im.bmap /\ now = Put(was, b, ZeroBlock)
  BY DEF Ensured
<1>3. /\ new = Put(now, b, Put(start, k, cell))
      /\ mid.inode = Cur(e).inode /\ p.block = new
      /\ \A i \in Inodes : i # dir => p.inode[i] = mid.inode[i]
      /\ p.inode[dir].size = e.in.size + 1 /\ p.inode[dir].direct = direct
  BY DEF Enters
<1>4. b \in Blocks
  BY <1>2, Ranges
<1>5. bn \in 0 .. NDirect - 1
  OBVIOUS
<1> HIDE DEF b, was, now, new, direct
<1>6. \/ in.direct[bn] = b /\ start = was[b]
      \/ in.direct[bn] = NilBlock /\ b \notin im.bmap /\ start = ZeroBlock
  BY <1>1, <1>2, <1>4, PutOther
<1>7. \A y \in Blocks : y # b => now[y] = was[y]
  BY <1>1, <1>2, <1>4, PutOther
<1>8. start \in Contained
  BY <1>1, <1>4
<1> HIDE DEF start
<1>9. /\ new[b] = Put(start, k, cell)
      /\ \A y \in Blocks : y # b => new[y] = was[y]
  BY <1>1, <1>3, <1>4, <1>7, PutOther
<1>10. \A n \in 0 .. NDirect - 1 : direct[n] = in.direct[n] \/ (n = bn /\ direct[n] = b)
  BY <1>1, <1>2, <1>5 DEF Put
<1>11. k = in.size % Width /\ bn = in.size \div Width
  BY DEF AtEnd
<1> DEFINE Entered1(x) ==
      /\ x.block[b] = Put(start, k, cell)
      /\ \A y \in Blocks : y # b => x.block[y] = im.block[y]
      /\ \A d \in Inodes : d # dir => x.inode[d] = im.inode[d]
      /\ x.inode[dir].size \in {in.size, in.size + 1}
      /\ \A n \in 0 .. NDirect - 1 :
           \/ x.inode[dir].direct[n] = in.direct[n]
           \/ n = bn /\ x.inode[dir].direct[n] = b
<1>12. Entered1(mid)
  BY <1>2, <1>3, <1>9 DEF was, new
<1>13. Entered1(p)
  <2>1. \A n \in 0 .. NDirect - 1 : p.inode[dir].direct[n] = direct[n]
    BY <1>3
  <2> QED
    BY <1>2, <1>3, <1>9, <1>10, <2>1 DEF was
<1>14. \A x : Entered1(x) => Entering(x, im, dir, bn, b, start, cell)
  BY <1>6, <1>11, Zenon DEF Entering, was
<1> HIDE DEF Entered1
<1>15. Entering(mid, im, dir, bn, b, start, cell) /\ Entering(p, im, dir, bn, b, start, cell)
  BY <1>12, <1>13, <1>14
<1> QED
  BY <1>2, <1>5, <1>8, <1>11, <1>15, EnteringSees

\* All inodes but one are the same.
SameBut(new, im, dir) == \A i \in Inodes : i # dir => new.inode[i] = im.inode[i]

\* The name of j is entered: what one finds then is what was there, or j.
LEMMA EnteredSees ==
  ASSUME NEW old, NEW j \in Inodes, NEW dir \in Inodes, NEW c, NEW e, ReadClear = {},
         NEW S, S = Safe(Seen(old, j), Inodes \ {j}), c \in Copies(S),
         NEW im, im = Cur(c), NEW in, in = c.in, in = im.inode[dir], in.type = "dir",
         NEW bn, NEW k, AtEnd(in, bn, k), e = ensure_dir_block(c, bn), ~(e.ret < 0), NEW cell \in Cells, cell.ino = j,
         NEW d, d = Entered(e, dir, k, cell)
  PROVE  d \in Contexts(S) /\ SameBut(Cur(d), im, dir)
<1> DEFINE K == Inodes \ {j}
           b == e.ret
<1>1. S \subseteq Sound /\ Sound \subseteq Images /\ im \in Sound /\ im \in Images /\ im \in S
  BY CurIn, SeenSound, SoundIs
<1>2. in \in InodeSet /\ in.size \in Nat /\ in.direct \in [0 .. NDirect - 1 -> Ptrs]
  <2>1. in \in InodeSet
    BY DEF Copies
  <2> QED
    BY <2>1 DEF InodeSet
<1>3. bn \in Nat /\ k \in 0 .. Width - 1
  BY <1>2, Divided DEF AtEnd
<1>4. /\ e \in Copies(S) /\ bn < NDirect /\ Ensured(e, c, bn)
  BY <1>3, EnsureExact
<1>5. /\ Copying(e, {ZeroImage}, {}, dir) /\ Mapped(e, bn)
  <2>1. c \in Copies(Safe({ZeroImage}, {}))
    BY <1>1, CopiesMono DEF Sound
  <2>2. Holds({ZeroImage}, {}, dir, im, in)
    BY <1>1, HoldsStart DEF Sound
  <2>3. Copying(c, {ZeroImage}, {}, dir) /\ {} \in SUBSET Inodes
    BY <2>1, <2>2 DEF Copying
  <2>4. /\ Further(e, c, {ZeroImage}, {}, dir) /\ (~(e.ret < 0) => bn < NDirect /\ Mapped(e, bn))
    BY <1>3, <2>3, EnsureIs
  <2> QED
    BY <2>4 DEF Further
<1>6. bn \in 0 .. NDirect - 1
  BY <1>3, <1>4, Geometry
<1>7. in.size + 1 \in 0 .. Capacity
  <2> DEFINE p == NDirect * Width
             q == Width * Width
  <2>1. p \in Nat /\ q \in Nat /\ Capacity = p + q
    BY Geometry DEF Capacity
  <2>2. in.size < NDirect * Width
    BY <1>2, <1>4, Geometry, DividedBelow DEF AtEnd
  <2>3. in.size < p
    BY <2>2
  <2> HIDE DEF p, q
  <2> QED
    BY <1>2, <2>1, <2>3
<1>8. e.in.size = in.size /\ e.in.type = "dir" /\ b \in Recorded /\ b \in Blocks
  BY <1>4, Ranges DEF Ensured
<1>9. d \in Contexts(Sound)
  BY <1>3, <1>5, <1>6, <1>7, <1>8, EnteredIs DEF Sound
<1>10. PICK mid \in Images, p \in Images :
          d.log = Append(Append(e.log, mid), p) /\ Enters(mid, p, e, dir, k, cell)
  <2>1. S \subseteq Images /\ e.in.size + 1 \in 0 .. Capacity
    BY <1>1, <1>7, <1>8
  <2>2. e \in Copies(S) /\ k \in 0 .. Width - 1 /\ e.ret \in Blocks
    BY <1>3, <1>4, <1>8
  <2>3. \E mid \in Images, p \in Images :
          /\ Entered(e, dir, k, cell).log = Append(Append(e.log, mid), p)
          /\ Enters(mid, p, e, dir, k, cell)
    BY <2>1, <2>2, EnteredWrites
  <2> QED
    BY <2>3
<1>11. mid \in Sound /\ p \in Sound
  <2>1. e.log \in Seq(S)
    BY <1>4 DEF Copies
  <2>2. /\ Len(e.log) + 1 \in DOMAIN d.log /\ Len(e.log) + 2 \in DOMAIN d.log
        /\ d.log[Len(e.log) + 1] = mid /\ d.log[Len(e.log) + 2] = p
    BY <1>10, <2>1, TwoMore
  <2> QED
    BY <1>9, <2>2, CurIn
<1>12. Sees(mid, im, j) /\ Sees(p, im, j)
  <2>1. Cur(e) \in Images
    BY <1>1, <1>4, CurIn
  <2> QED
    BY <1>1, <1>4, <1>6, <1>10, <2>1, EntersSees
<1>13. Sees(im, old, j)
  BY <1>1, SeesSafe
<1>14. mid \in S /\ p \in S
  BY <1>11, <1>12, <1>13, SeesTrans, SafeSees
<1>15. d.log \in Seq(S) \ {<<>>}
  <2>1. e.log \in Seq(S)
    BY <1>4 DEF Copies
  <2> QED
    BY <1>10, <1>14, <2>1, TwoMore
<1>16. Cur(d) = p
  <2>1. e.log \in Seq(S)
    BY <1>4 DEF Copies
  <2>2. Last(Append(Append(e.log, mid), p)) = p
    BY <2>1, LastOfTwo
  <2>3. d.log = Append(Append(e.log, mid), p)
    BY <1>10
  <2> QED
    BY <2>2, <2>3, Zenon DEF Cur
<1>17. \A i \in Inodes : i # dir => p.inode[i] = im.inode[i]
  BY <1>4, <1>10 DEF Ensured, Enters
<1>18. d \in Contexts(S)
  BY <1>9, <1>15 DEF Contexts
<1> QED
  BY <1>16, <1>17, <1>18 DEF SameBut

LEMMA DirAddSees ==
  ASSUME NEW old, NEW j \in Inodes, NEW c \in Contexts(Safe(Seen(old, j), Inodes \ {j})),
         ReadClear = {}, Cur(c).inode[j].type # "dir", NEW dir \in Inodes, NEW name \in Spelled,
         NEW ftype \in {"reg", "dir"}
  PROVE  /\ dir_add(c, dir, name, ftype, j) \in Contexts(Safe(Seen(old, j), Inodes \ {j}))
         /\ Cur(dir_add(c, dir, name, ftype, j)).inode[j] = Cur(c).inode[j]
<1> DEFINE S == Safe(Seen(old, j), Inodes \ {j})
           in == Cur(c).inode[dir]
           c0 == WithInode(c, in)
           e == ensure_dir_block(c0, in.size \div Width)
           cell == Entry(Stem[name], j, ftype)
           d == dir_add(c, dir, name, ftype, j)
<1>1. d = IF in.type # "dir" THEN Ret(c, FS_ENOTDIR)
          ELSE IF e.ret < 0 THEN Ret(Returned(e), FS_ENOSPC)
          ELSE Entered(e, dir, in.size % Width, cell)
  BY Zenon, DirAddSplits
<1> HIDE DEF d, e
<1>2. Cur(c) \in Images
  BY CurIn, SeenSound, SoundIs
<1>3. in \in InodeSet /\ in.size \in Nat
  BY <1>2, FieldsIn DEF InodeSet
<1>4. c0 \in Copies(S) /\ c0.in = in /\ Cur(c0) = Cur(c)
  BY <1>3, CopyOf
<1>5. FS_ENOTDIR \in Int /\ FS_ENOSPC \in Int
  BY DEF FS_ENOTDIR, FS_ENOSPC
<1>6. cell \in Cells /\ cell.ino = j
  BY DEF Cells, Entry
<1> HIDE DEF cell, c0
<1>7. CASE in.type # "dir"
  BY <1>1, <1>5, <1>7, RetIn DEF d
<1>8. CASE in.type = "dir" /\ e.ret < 0
  <2>1. e \in Copies(S) /\ (e.ret < 0 => Cur(e) = Cur(c0))
    <3> DEFINE bn == in.size \div Width
               f == ensure_dir_block(c0, bn)
    <3>1. bn \in Nat
      BY <1>3, Divided
    <3> HIDE DEF bn
    <3>2. /\ f \in Copies(S) /\ (f.ret < 0 => Cur(f) = Cur(c0))
          /\ ~(f.ret < 0) => bn < NDirect /\ Ensured(f, c0, bn)
      BY <1>4, <3>1, EnsureExact
    <3> QED
      BY <3>2 DEF e, bn
  <2>2. Returned(e) \in Contexts(S) /\ Cur(Returned(e)) = Cur(c)
    BY <1>4, <1>8, <2>1, CopyOf DEF Copies
  <2>3. Ret(Returned(e), FS_ENOSPC) \in Contexts(S) /\ Cur(Ret(Returned(e), FS_ENOSPC)) = Cur(c)
    BY <1>5, <2>2, RetIn
  <2> QED
    BY <1>1, <1>8, <2>3 DEF d
<1>9. CASE in.type = "dir" /\ ~(e.ret < 0)
  <2>1. /\ Entered(e, dir, in.size % Width, cell) \in Contexts(S)
        /\ Cur(Entered(e, dir, in.size % Width, cell)).inode[j] = Cur(c).inode[j]
    <3> DEFINE im == Cur(c)
               bn == in.size \div Width
               k == in.size % Width
               f == Entered(e, dir, k, cell)
    <3>1. /\ c0 \in Copies(S) /\ im = Cur(c0) /\ in = c0.in /\ in = im.inode[dir]
          /\ in.type = "dir" /\ e = ensure_dir_block(c0, bn) /\ ~(e.ret < 0)
          /\ cell \in Cells /\ cell.ino = j
      BY <1>4, <1>6, <1>9 DEF e
    <3>3. AtEnd(in, bn, k)
      BY DEF AtEnd
    <3> HIDE DEF im, bn, k, f, in, e
    <3>4. j # dir
      BY <1>9 DEF in
    <3>2. f \in Contexts(S) /\ SameBut(Cur(f), im, dir)
      BY <3>1, <3>3, EnteredSees DEF f
    <3> QED
      BY <3>2, <3>4 DEF f, k, im, SameBut
  <2> QED
    BY <1>1, <1>9, <2>1 DEF d
<1> QED
  BY <1>7, <1>8, <1>9

\* The images on the way to a new file j.
Coming(im, j) == Safe(Seen(im, j), Inodes \ {j})

LEMMA ComingIs ==
  ASSUME NEW im \in Sound, NEW j
  PROVE  /\ Closed(Coming(im, j)) /\ Begin(im) \in Contexts(Coming(im, j))
         /\ Cur(Begin(im)) = im /\ Begin(im) \in Contexts(Sound)
         /\ Inodes \ {j} \in SUBSET Inodes
<1>1. Sees(im, im, j)
  BY Zenon DEF Sees, Finds
<1>2. im \in Coming(im, j)
  BY <1>1, SafeSees DEF Coming
<1> QED
  BY <1>2, BeginIn, SafeClosed DEF Coming

\* The file j that create enters: it was free, and what one finds in any image
\* on the way is what was there, or j.
NewFile(d, im, j) ==
  /\ j \in Inodes \ im.imap /\ d \in Contexts(Coming(im, j)) /\ d.ret \in Int
  /\ Cur(d).inode[j].type = "reg" /\ (d.ret < 0 \/ d.ret = j)

LEMMA CreateSees ==
  ASSUME NEW im \in Sound, ReadClear = {}, NEW dir \in Inodes, NEW name \in Spelled,
         NEW uid \in Uids \cup {0}
  PROVE  LET d == CreateFile(Begin(im), dir, name, uid)
         IN  (d.ret < 0 /\ Cur(d) = im) \/ \E j \in Inodes : NewFile(d, im, j)
<1> DEFINE c == Begin(im)
           a == alloc_inode(c)
           j == a.ret
           in == NewInode("reg", uid)
           b == Fetched(c, "reg", uid)
           e == dir_add(b, dir, name, "reg", j)
           r == IF e.ret < 0 THEN FS_ERR ELSE j
           d == CreateFile(c, dir, name, uid)
<1>1. d = IF a.ret < 0 THEN a ELSE Ret(e, r)
  BY Zenon, CreateSplits
<1>2. a.ret \in Int /\ TakesInode(a, c) /\ Cur(c) = im
  BY SoundIs, ComingIs, AllocInodeIs
<1> HIDE DEF d, e
<1>3. CASE a.ret < 0
  BY <1>1, <1>2, <1>3 DEF TakesInode, d, c
<1>4. CASE ~(a.ret < 0)
  <2> DEFINE S == Coming(im, j)
             K == Inodes \ {j}
  <2>1. j \in Inodes \ im.imap /\ j \in Inodes /\ j \in Int
    BY <1>2, <1>4 DEF TakesInode
  <2> HIDE DEF c
  <2>2. c \in Contexts(S) /\ Closed(S) /\ S = Safe(Seen(im, j), K) /\ K \in SUBSET Inodes
    BY ComingIs DEF Coming, c
  <2> HIDE DEF S
  <2>3. a \in Contexts(S) /\ Cur(a) \in S
    BY <2>2, AllocInodeIs, CurIn DEF Follows
  <2>4. in \in InodeSet /\ Empty(in) /\ in.size = 0 /\ in.type = "reg"
    BY NewInodeIs
  <2> HIDE DEF in, a
  <2> DEFINE x == PutInode(Cur(a), j, in)
  <2>5. /\ x \in Safe(Seen(im, j), K) /\ SameBits(x, Cur(a)) /\ x.inode = Put(Cur(a).inode, j, in)
    <3>1. j \in Inodes \ K /\ Cur(a) \in Safe(Seen(im, j), K)
      BY <2>1, <2>2, <2>3
    <3> HIDE DEF j
    <3> QED
      BY <2>2, <2>4, <3>1, EmptyWritten
  <2>6. Cur(a).inode \in [Inodes -> InodeSet]
    BY <2>2, <2>3, SafeIs
  <2>7. x.inode[j].type = "reg"
    BY <2>1, <2>4, <2>5, <2>6, PutInodesIs
  <2> HIDE DEF j
  <2>8. b = write_inode(a, j, in)
    BY Zenon DEF Fetched, a, j, in
  <2>9. b \in Contexts(S) /\ Cur(b) = x
    <3>1. Adds(write_inode(a, j, in), a, Seen(im, j), K) /\ Cur(write_inode(a, j, in)) = x
      BY <2>2, <2>3, <2>5, WriteInodeIs
    <3> QED
      BY <2>2, <2>8, <3>1 DEF Adds
  <2> HIDE DEF b, x
  <2>10. e \in Contexts(S) /\ Cur(e).inode[j].type = "reg"
    <3>1. /\ b \in Contexts(Safe(Seen(im, j), Inodes \ {j})) /\ Cur(b).inode[j].type # "dir"
      BY <2>2, <2>7, <2>9
    <3>2. /\ dir_add(b, dir, name, "reg", j) \in Contexts(Safe(Seen(im, j), Inodes \ {j}))
          /\ Cur(dir_add(b, dir, name, "reg", j)).inode[j] = Cur(b).inode[j]
      BY <2>1, <3>1, DirAddSees
    <3> QED
      BY <2>2, <2>7, <2>9, <3>2 DEF e
  <2>11. r \in Int /\ (r < 0 \/ r = j)
    BY <2>1 DEF FS_ERR
  <2>12. d = Ret(e, r)
    BY <1>1, <1>4 DEF a, c
  <2> HIDE DEF r
  <2>13. d \in Contexts(S) /\ Cur(d).inode[j].type = "reg" /\ d.ret = r
    BY <2>10, <2>11, <2>12, RetIn
  <2>14. NewFile(d, im, j)
    BY <2>1, <2>11, <2>13 DEF NewFile, S
  <2> QED
    BY <2>1, <2>14 DEF d, c
<1> QED
  BY <1>3, <1>4

\* What a mount leaves: directories as they were, or /.users is new.
Unmoved(new, im) ==
  \A d \in Inodes : \A name : dir_lookup(new, d, name) = dir_lookup(im, d, name)
After(new, im) ==
  \/ Unmoved(new, im)
  \/ \E j \in Inodes \ im.imap : Sees(new, im, j) /\ new.inode[j].type # "dir"

LEMMA BootSees ==
  ASSUME NEW im \in Sound, ReadClear = {}
  PROVE  After(Cur(users_bootstrap(Begin(im))), im)
<1> DEFINE c == Begin(im)
           path == <<".users">>
           r == namei(im, path)
           parent == namei(im, Front(path))
           fd == fs_open(c, path, TRUE, 0)
           f == CreateFile(c, parent.ino, Last(path), 0)
           w == fs_write(fd, fd.ret, 0, 1, "users", 0)
           d == users_bootstrap(c)
<1>1. Cur(c) = im /\ Unmoved(im, im)
  BY ComingIs DEF Unmoved
<1>2. d = IF r.ret = FS_OK THEN Ret(c, FS_OK)
          ELSE IF fd.ret < 0 THEN fd ELSE w
  BY <1>1, Zenon, WritefSplits DEF WritefOf
<1>3. r.ret # FS_OK => fd = IF parent.ret # FS_OK THEN Ret(c, FS_ERR) ELSE f
  BY <1>1, Zenon, OpenSplits
<1>4. c \in Contexts(Sound) /\ FS_OK \in Int /\ FS_ERR \in Int /\ FS_ERR < 0
  BY ComingIs DEF FS_OK, FS_ERR
<1>5. Cur(Ret(c, FS_OK)) = im /\ Cur(Ret(c, FS_ERR)) = im /\ Ret(c, FS_ERR).ret = FS_ERR
  BY <1>1, <1>4, RetIn
<1>6. Last(path) \in Spelled /\ 0 \in Uids \cup {0} /\ "users" \in Texts /\ Front(path) \in Seq({".users"})
  BY DEF Last, Front, Spelled, Texts
<1>7. parent.ret = FS_OK => parent.ino \in Inodes
  BY <1>6, SoundIs, NameiIs
<1> HIDE DEF d, c, path, r, w
<1>8. CASE r.ret = FS_OK
  BY <1>1, <1>2, <1>5, <1>8 DEF After, d, c
<1>9. CASE r.ret # FS_OK /\ parent.ret # FS_OK
  BY <1>1, <1>2, <1>3, <1>4, <1>5, <1>9 DEF After, d, c
<1>10. CASE r.ret # FS_OK /\ parent.ret = FS_OK
  <2>1. (f.ret < 0 /\ Cur(f) = im) \/ \E j \in Inodes : NewFile(f, im, j)
    BY <1>6, <1>7, <1>10, CreateSees DEF c
  <2>2. fd = f
    BY <1>3, <1>10
  <2> HIDE DEF f, fd
  <2>3. CASE f.ret < 0 /\ Cur(f) = im
    BY <1>1, <1>2, <1>10, <2>2, <2>3 DEF After, d, c
  <2>4. ASSUME NEW j \in Inodes, NewFile(f, im, j) PROVE After(Cur(d), im)
    <3> DEFINE S == Safe(Seen(im, j), Inodes \ {j})
    <3>1. /\ j \in Inodes \ im.imap /\ f \in Contexts(S) /\ Cur(f).inode[j].type = "reg"
          /\ (f.ret < 0 \/ f.ret = j)
      BY <2>4 DEF NewFile, Coming
    <3>2. d \in Contexts(S) /\ Cur(d).inode[j].type = "reg"
      <4>1. CASE f.ret < 0
        BY <1>2, <1>10, <2>2, <3>1, <4>1
      <4>2. CASE ~(f.ret < 0)
        <5>1. d = w /\ f.ret = j
          BY <1>2, <1>10, <2>2, <3>1, <4>2
        <5>2. w = fs_write(f, j, 0, 1, "users", 0)
          BY <2>2, <5>1 DEF w
        <5>3. Inodes \ {j} \in SUBSET Inodes /\ j \in Inodes \ (Inodes \ {j}) /\ 1 \in Nat \ {0}
          OBVIOUS
        <5> HIDE DEF S
        <5> DEFINE z == fs_write(f, j, 0, 1, "users", 0)
        <5>4. /\ Adds(z, f, Seen(im, j), Inodes \ {j}) /\ z.ret \in Int
              /\ Cur(z).inode[j].type = Cur(f).inode[j].type
          BY <1>6, <3>1, <5>3, WriteNewIs DEF S
        <5> HIDE DEF z
        <5> QED
          BY <3>1, <5>1, <5>2, <5>4 DEF Adds, S, z
      <4> QED
        BY <4>1, <4>2
    <3>3. Sees(Cur(d), im, j)
      BY <3>2, CurIn, SeesSafe
    <3> QED
      BY <3>1, <3>2, <3>3 DEF After
  <2> QED
    BY <2>1, <2>3, <2>4 DEF d, c
<1> QED
  BY <1>8, <1>9, <1>10

LEMMA SameUnmoved ==
  ASSUME NEW im \in Images, NEW new \in Images, SameData(new, im)
  PROVE  Unmoved(new, im)
<1>1. new.inode = im.inode /\ new.block = im.block
  BY DEF SameData
<1>2. \A d \in Inodes : \A name : dir_lookup(new, d, name) = dir_lookup(im, d, name)
  BY <1>1, LookupSame
<1> QED
  BY <1>2 DEF Unmoved

\* Looking past g_sb: only the inodes and blocks are read.
LEMMA AfterSame ==
  ASSUME NEW im \in Images, NEW mid \in Images, SameData(mid, im), NEW new, After(new, mid)
  PROVE  After(new, im)
<1>1. Unmoved(mid, im) /\ mid.imap = im.imap
  BY SameUnmoved DEF SameData
<1>2. CASE Unmoved(new, mid)
  BY <1>1, <1>2 DEF After, Unmoved
<1>3. ASSUME NEW j \in Inodes \ mid.imap, Sees(new, mid, j), new.inode[j].type # "dir"
      PROVE  After(new, im)
  <2>1. Sees(new, im, j)
    <3> SUFFICES ASSUME NEW d \in Inodes \ {j}, NEW name
                 PROVE  LET r == dir_lookup(new, d, name)
                            s == dir_lookup(im, d, name)
                        IN  r.ret = FS_OK => r.ino = j \/ (s.ret = FS_OK /\ s.ino = r.ino)
      BY Zenon DEF Sees, Finds
    <3>1. dir_lookup(mid, d, name) = dir_lookup(im, d, name)
      BY <1>1 DEF Unmoved
    <3>2. LET r == dir_lookup(new, d, name)
              s == dir_lookup(mid, d, name)
          IN  r.ret = FS_OK => r.ino = j \/ (s.ret = FS_OK /\ s.ino = r.ino)
      BY <1>3, Zenon DEF Sees, Finds
    <3> QED
      BY <3>1, <3>2, Zenon
  <2> QED
    BY <1>1, <1>3, <2>1 DEF After
<1> QED
  BY <1>2, <1>3 DEF After

LEMMA MountAfter ==
  ASSUME NEW im \in Sound, ReadClear = {}, ~(fs_mount(im).ret < 0)
  PROVE  After(Cur(fs_mount(im)), im)
<1> DEFINE sb == IF SbBehindGd THEN im.gd.tail ELSE im.sb
           new == [im EXCEPT !.sb = sb]
           u == users_bootstrap(Begin(new))
           d == fs_mount(im)
<1>1. d = IF ~im.magic THEN Ret(Begin(im), FS_ERR)
          ELSE IF ~sb.live THEN MountOfZeros(im) ELSE Ret(u, FS_OK)
  BY Zenon DEF fs_mount
<1> HIDE DEF d
<1>2. im \in Images /\ sb \in Counts
  BY SoundIs, FieldsIn DEF Groups
<1> HIDE DEF sb
<1>3. FS_ERR \in Int /\ FS_OK \in Int /\ FS_ERR < 0
  BY DEF FS_ERR, FS_OK
<1>4. CASE ~im.magic
  <2>1. Ret(Begin(im), FS_ERR).ret = FS_ERR
    BY <1>3, BeginIn, RetIn
  <2> QED
    BY <1>1, <1>3, <1>4, <2>1 DEF d
<1>5. CASE im.magic /\ ~sb.live
  <2> DEFINE z == DevWrite(DevWrite(Begin(im), im), [im EXCEPT !.magic = FALSE])
  <2>1. z \in Contexts(Images)
    <3>1. [im EXCEPT !.magic = FALSE] \in Images
      BY <1>2, SetMagic
    <3> HIDE DEF z
    <3>2. DevWrite(Begin(im), im) \in Contexts(Images)
      BY <1>2, BeginIn, DevWriteIn
    <3> QED
      BY <3>1, <3>2, DevWriteIn DEF z
  <2>2. d = Ret(z, FS_ERR)
    BY <1>1, <1>5, Zenon DEF MountOfZeros
  <2> HIDE DEF z
  <2>3. d.ret = FS_ERR
    BY <1>3, <2>1, <2>2, RetIn
  <2> QED
    BY <1>3, <2>3 DEF d
<1>6. CASE im.magic /\ sb.live
  <2>1. new \in Images /\ SameData(new, im)
    BY <1>2, SetSb DEF SameData
  <2> HIDE DEF new
  <2>2. new \in Sound
    BY <2>1, SameDataSound
  <2>3. After(Cur(u), new)
    BY <2>2, BootSees
  <2>4. u \in Contexts(Sound)
    BY <2>2, BeginIn, NoneKept, BootstrapIs DEF Adds, Sound
  <2> HIDE DEF u
  <2>5. d = Ret(u, FS_OK) /\ Cur(Ret(u, FS_OK)) = Cur(u)
    BY <1>1, <1>3, <1>6, <2>4, RetIn
  <2> QED
    BY <1>2, <2>1, <2>3, <2>5, AfterSame DEF d
<1> QED
  BY <1>4, <1>5, <1>6

\* What one finds in new is what im shows, or a file of J, where no path goes on.
Leads(new, im, J) ==
  \A d \in Inodes : \A name :
    LET r == dir_lookup(new, d, name)
        s == dir_lookup(im, d, name)
    IN  r.ret = FS_OK => d \notin J /\ (r.ino \in J \/ (s.ret = FS_OK /\ s.ino = r.ino))

LEMMA AfterLeads ==
  ASSUME NEW im, NEW new, After(new, im)
  PROVE  \E J \in SUBSET (Inodes \ im.imap) : Leads(new, im, J)
<1>1. CASE Unmoved(new, im)
  <2>1. Leads(new, im, {})
    BY <1>1 DEF Unmoved, Leads
  <2> QED
    BY <2>1
<1>2. ASSUME NEW j \in Inodes \ im.imap, Sees(new, im, j), new.inode[j].type # "dir"
      PROVE  \E J \in SUBSET (Inodes \ im.imap) : Leads(new, im, J)
  <2>1. \A name : dir_lookup(new, j, name).ret # FS_OK
    BY <1>2 DEF dir_lookup, FS_ENOTDIR, FS_ENOENT, FS_OK
  <2>2. Leads(new, im, {j})
    <3> SUFFICES ASSUME NEW d \in Inodes, NEW name
                 PROVE  LET r == dir_lookup(new, d, name)
                            s == dir_lookup(im, d, name)
                        IN  r.ret = FS_OK =>
                              d \notin {j} /\ (r.ino \in {j} \/ (s.ret = FS_OK /\ s.ino = r.ino))
      BY Zenon DEF Leads
    <3>1. CASE d = j
      BY <2>1, <3>1
    <3>2. CASE d # j
      <4>1. LET r == dir_lookup(new, d, name)
                s == dir_lookup(im, d, name)
            IN  r.ret = FS_OK => r.ino = j \/ (s.ret = FS_OK /\ s.ino = r.ino)
        BY <1>2, <3>2, Zenon DEF Sees, Finds
      <4> QED
        BY <3>2, <4>1
    <3> QED
      BY <3>1, <3>2
  <2> QED
    BY <1>2, <2>2
<1> QED
  BY <1>1, <1>2 DEF After

\* A path that leads to an inode in use after a mount led there before it.
LEMMA SameWay ==
  ASSUME NEW im, NEW new \in Images, After(new, im), NEW E, NEW path \in Seq(E),
         namei(new, path).ret = FS_OK, namei(new, path).ino \in im.imap
  PROVE  namei(im, path).ret = FS_OK /\ namei(im, path).ino = namei(new, path).ino
<1>1. PICK J \in SUBSET (Inodes \ im.imap) : Leads(new, im, J)
  BY AfterLeads
<1>2. PICK h : Through(h, Walk(new), [ret |-> FS_OK, ino |-> RootIno], path, namei(new, path))
  BY NameiSteps
<1>3. PICK g : Through(g, Walk(im), [ret |-> FS_OK, ino |-> RootIno], path, namei(im, path))
  BY NameiSteps
<1> DEFINE n == Len(path)
           Ways(s, t) == s.ret = FS_OK =>
             s.ino \in Inodes /\ (s.ino \in J \/ (t.ret = FS_OK /\ t.ino = s.ino))
           T == {k \in 0 .. n : Ways(h[k], g[k])}
<1>4. n \in Nat
  OBVIOUS
<1>5. /\ h[0] = [ret |-> FS_OK, ino |-> RootIno] /\ namei(new, path) = h[n]
      /\ \A k \in 1 .. n : h[k] = Turn(Walk(new), h[k - 1], path[k])
      /\ g[0] = [ret |-> FS_OK, ino |-> RootIno] /\ namei(im, path) = g[n]
      /\ \A k \in 1 .. n : g[k] = Turn(Walk(im), g[k - 1], path[k])
  BY <1>2, <1>3 DEF Through
<1> HIDE DEF n
<1>6. 0 \in T
  BY <1>4, <1>5, Ranges
<1>7. ASSUME NEW k \in 1 .. n, k - 1 \in T PROVE k \in T
  <2>1. k \in 0 .. n
    BY <1>4
  <2> DEFINE s == h[k - 1]
             t == g[k - 1]
             name == Stem[path[k]]
             r == dir_lookup(new, s.ino, name)
             q == dir_lookup(im, t.ino, name)
  <2>2. h[k] = (IF s.ret # FS_OK THEN s ELSE r) /\ g[k] = (IF t.ret # FS_OK THEN t ELSE q)
    BY <1>5, Turns
  <2>3. Ways(s, t)
    BY <1>7
  <2>4. s.ret = FS_OK => (r.ret = FS_OK => r.ino \in Inodes)
    BY <2>3, LookupIs
  <2>5. s.ret = FS_OK /\ r.ret = FS_OK =>
          s.ino \notin J /\ (r.ino \in J \/ (t.ret = FS_OK /\ q.ret = FS_OK /\ q.ino = r.ino))
    <3> SUFFICES ASSUME s.ret = FS_OK, r.ret = FS_OK
                 PROVE  s.ino \notin J /\ (r.ino \in J \/ (t.ret = FS_OK /\ q.ret = FS_OK /\ q.ino = r.ino))
      OBVIOUS
    <3>1. s.ino \in Inodes
      BY <2>3
    <3> DEFINE d == s.ino
               p == dir_lookup(im, d, name)
    <3>2. d \notin J /\ (r.ino \in J \/ (p.ret = FS_OK /\ p.ino = r.ino))
      BY <1>1, <3>1, Zenon DEF Leads
    <3>3. t.ret = FS_OK /\ t.ino = d
      BY <2>3, <3>2
    <3> QED
      BY <3>2, <3>3
  <2> HIDE DEF s, t, r, q, name
  <2>6. Ways(h[k], g[k])
    BY <2>2, <2>4, <2>5
  <2> QED
    BY <2>1, <2>6
<1>8. \A k \in 0 .. n : k \in T
  <2> HIDE DEF T
  <2> QED
    BY <1>4, <1>6, <1>7, EveryStep
<1>9. Ways(h[n], g[n])
  BY <1>4, <1>8
<1> QED
  BY <1>1, <1>5, <1>9

-----------------------------------------------------------------------------
(* Files a command was not asked to change *)

\* The images that keep the file i as o has it.
Keeping(o, i) == Kept({o}, {i})

LEMMA KeepingIs ==
  ASSUME NEW o \in Sound, NEW i \in Files(o)
  PROVE  /\ Contexts(Safe({o}, {i})) \subseteq Contexts(Keeping(o, i))
         /\ \A im \in Keeping(o, i) : i \in Files(im) /\ Contents(im, i) = Contents(o, i)
<1>1. Contexts(Safe({o}, {i})) \subseteq Contexts(Keeping(o, i))
  BY KeptIs, ContextsMono DEF Keeping
<1>2. ASSUME NEW im \in Keeping(o, i)
      PROVE  i \in Files(im) /\ Contents(im, i) = Contents(o, i)
  <2>1. AsIn(o, im, {i}) /\ {i} \in SUBSET Inodes /\ i \in {i}
    BY Itself DEF Keeping, Kept, Untouched
  <2> QED
    BY <2>1, ContentsSame
<1> QED
  BY <1>1, <1>2

\* A path that named another inode before the mount does so after it.
LEMMA StillMisses ==
  ASSUME NEW o \in Sound, NEW i \in Files(o), ReadClear = {}, ~(fs_mount(o).ret < 0),
         NEW E, NEW path \in Seq(E), i \notin At(o, path)
  PROVE  Misses(Cur(fs_mount(o)), path, {i})
<1> DEFINE new == Cur(fs_mount(o))
<1>1. After(new, o) /\ i \in o.imap
  BY MountAfter, Itself
<1>2. new \in Images
  BY MountIs, CurIn, SoundIs
<1> HIDE DEF new
<1>3. SUFFICES ASSUME namei(new, path).ret = FS_OK, namei(new, path).ino = i
               PROVE  FALSE
  BY DEF Misses, new
<1>4. namei(o, path).ret = FS_OK /\ namei(o, path).ino = i
  BY <1>1, <1>2, <1>3, SameWay
<1> QED
  BY <1>4 DEF At

\* What a command leaves alone when the mount has failed, and when it has not.
LEMMA RunKeeps ==
  ASSUME NEW o \in Sound, NEW i \in Files(o), ReadClear = {}, NEW e,
         ~(fs_mount(o).ret < 0) => e \in Contexts(Keeping(o, i))
  PROVE  (IF fs_mount(o).ret < 0 THEN fs_mount(o) ELSE e) \in Contexts(Keeping(o, i))
<1>1. fs_mount(o) \in Contexts(Safe({o}, {i}))
  BY Itself, MountSafe
<1> QED
  BY <1>1, KeepingIs

LEMMA WritesKeep ==
  ASSUME NEW o \in Sound, NEW i \in Files(o), ReadClear = {}, NEW uid \in Uids
  PROVE  /\ \A a \in WriteArgs :
              i \notin At(o, a[1]) => Writef(o, a, uid) \in Contexts(Keeping(o, i))
         /\ \A a \in CopyArgs :
              i \notin At(o, a[1]) => Writefile(o, a, uid) \in Contexts(Keeping(o, i))
<1> DEFINE m == fs_mount(o)
<1>1. ASSUME NEW a \in WriteArgs \cup CopyArgs, i \notin At(o, a[1]), ~(m.ret < 0)
      PROVE  Avoids(Cur(m), a[1], {i}, uid)
  <2>1. Misses(Cur(m), a[1], {i})
    BY <1>1, StillMisses, InputsAre
  <2> QED
    BY <2>1 DEF Misses, Avoids
<1>2. m.ret < 0 => /\ \A a \in WriteArgs : Writef(o, a, uid) = m
                   /\ \A a \in CopyArgs : Writefile(o, a, uid) = m
  BY RunSplits
<1>3. m \in Contexts(Safe({o}, {i}))
  BY Itself, MountSafe
<1> HIDE DEF m
<1>4. ASSUME NEW a \in WriteArgs, i \notin At(o, a[1])
      PROVE  Writef(o, a, uid) \in Contexts(Safe({o}, {i}))
  BY <1>1, <1>2, <1>3, <1>4, WritesAvoid DEF m
<1>5. ASSUME NEW a \in CopyArgs, i \notin At(o, a[1])
      PROVE  Writefile(o, a, uid) \in Contexts(Safe({o}, {i}))
  BY <1>1, <1>2, <1>3, <1>5, WritesAvoid DEF m
<1> QED
  BY <1>4, <1>5, KeepingIs

LEMMA MakesKeep ==
  ASSUME NEW o \in Sound, NEW i \in Files(o), ReadClear = {}, NEW uid \in Uids
  PROVE  /\ \A p \in MkdirPaths : Mkdir(o, p, uid) \in Contexts(Keeping(o, i))
         /\ \A p \in CreatePaths :
              i \notin At(o, p) => Create(o, p, uid) \in Contexts(Keeping(o, i))
<1> DEFINE m == fs_mount(o)
           K == {i}
<1>1. o \in Safe({o}, K) /\ FilesOnly({o}, K) /\ K \in SUBSET Inodes
  BY Itself
<1>2. m \in Contexts(Safe({o}, K))
  BY <1>1, MountSafe
<1>3. \A p \in MkdirPaths \cup CreatePaths :
        p \in Seq(DOMAIN Stem) /\ p # <<>> /\ Last(p) \in Spelled
  BY InputsAre
<1>4. ASSUME NEW p \in MkdirPaths
      PROVE  Mkdir(o, p, uid) \in Contexts(Keeping(o, i))
  <2> HIDE DEF K, m
  <2>1. Adds(cmd_mkdir(m, p, uid), m, {o}, K)
    BY <1>1, <1>2, <1>3, MkdirIs
  <2>2. cmd_mkdir(m, p, uid) \in Contexts(Keeping(o, i))
    BY <2>1, KeepingIs DEF Adds, K
  <2> QED
    BY <2>2, RunKeeps, RunSplits DEF m
<1>5. ASSUME NEW p \in CreatePaths, i \notin At(o, p)
      PROVE  Create(o, p, uid) \in Contexts(Keeping(o, i))
  <2>1. ASSUME ~(m.ret < 0) PROVE fs_open(m, p, TRUE, uid) \in Contexts(Keeping(o, i))
    <3>1. Misses(Cur(m), p, K)
      BY <1>3, <1>5, <2>1, StillMisses
    <3>2. Avoids(Cur(m), p, K, uid)
      BY <3>1 DEF Misses, Avoids
    <3> HIDE DEF K, m
    <3>3. Adds(fs_open(m, p, TRUE, uid), m, {o}, K)
      BY <1>1, <1>2, <1>3, <3>2, OpenIs
    <3> QED
      BY <3>3, KeepingIs DEF Adds, K
  <2> QED
    BY <2>1, RunKeeps, RunSplits
<1> QED
  BY <1>4, <1>5

LEMMA DeletesKeep ==
  ASSUME NEW o \in Sound, NEW i \in Files(o), ReadClear = {}, NEW p \in DeletePaths,
         i \notin At(o, p)
  PROVE  Delete(o, p) \in Contexts(Keeping(o, i))
<1> DEFINE m == fs_mount(o)
           K == {i}
<1>1. o \in Safe({o}, K) /\ FilesOnly({o}, K) /\ K \in SUBSET Inodes
  BY Itself
<1>2. m \in Contexts(Safe({o}, K)) /\ p \in Seq(DOMAIN Stem)
  BY <1>1, MountSafe, InputsAre
<1>3. ASSUME ~(m.ret < 0) PROVE cmd_delete(m, p) \in Contexts(Keeping(o, i))
  <2>1. Misses(Cur(m), p, K)
    BY <1>2, <1>3, StillMisses
  <2> HIDE DEF K, m
  <2>2. Leaves(cmd_delete(m, p), m, {o}, K)
    BY <1>1, <1>2, <2>1, DeleteIs
  <2> QED
    BY <2>2 DEF Leaves, Keeping, K
<1> QED
  BY <1>3, RunKeeps, RunSplits

LEMMA SoundOthers ==
  ASSUME disk \in Sound, ReadClear = {}
  PROVE  OthersUntouched
<1>1. ASSUME NEW c \in Writes \cup Makes \cup Deletes, NEW i \in Files(disk) \ At(disk, c.path)
      PROVE  c.ctx \in Contexts(Keeping(disk, i))
  <2>1. CASE \E a \in WriteArgs, u \in Uids : c.path = a[1] /\ c.ctx = Writef(disk, a, u)
    BY <1>1, <2>1, WritesKeep
  <2>2. CASE \E a \in CopyArgs, u \in Uids : c.path = a[1] /\ c.ctx = Writefile(disk, a, u)
    BY <1>1, <2>2, WritesKeep
  <2>3. CASE \E p \in MkdirPaths, u \in Uids : c.path = p /\ c.ctx = Mkdir(disk, p, u)
    BY <1>1, <2>3, MakesKeep
  <2>4. CASE \E p \in CreatePaths, u \in Uids : c.path = p /\ c.ctx = Create(disk, p, u)
    BY <1>1, <2>4, MakesKeep
  <2>5. CASE \E p \in DeletePaths : c.path = p /\ c.ctx = Delete(disk, p)
    BY <1>1, <2>5, DeletesKeep
  <2> QED
    BY <2>1, <2>2, <2>3, <2>4, <2>5 DEF Writes, Makes, Deletes
<1>2. ASSUME NEW c \in Writes \cup Makes \cup Deletes, NEW i \in Files(disk) \ At(disk, c.path),
             NEW k \in DOMAIN c.ctx.log
      PROVE  i \in Files(c.ctx.log[k]) /\ Contents(c.ctx.log[k], i) = Contents(disk, i)
  <2>1. c.ctx.log[k] \in Keeping(disk, i)
    BY <1>1, CurIn
  <2> QED
    BY <2>1, KeepingIs
<1> QED
  BY <1>2 DEF OthersUntouched

\* As long as no delete was killed, no command changes a file it was not asked to
\* change, with none of its block writes.
THEOREM OthersLeftAlone ==
  ASSUME ReadClear = {}
  PROVE  Spec => []("delete" \notin ToSet(cut) => OthersUntouched)
<1>1. IInv => ("delete" \notin ToSet(cut) => OthersUntouched)
  BY SoundOthers DEF IInv
<1> QED
  BY <1>1, AlwaysSound, PTL

\* All of it, where nothing is ever killed.
THEOREM UndisturbedImage ==
  ASSUME ReadClear = {}, MaxCuts = 0
  PROVE  Spec => [](TypeOK /\ Ownership /\ CountersExact /\ NoHoles /\ OthersUntouched)
<1>1. Spec => [](cut = <<>>)
  <2>1. Init => cut = <<>>
    BY DEF Init
  <2>2. cut = <<>> /\ [Next]_vars => (cut = <<>>)'
    BY NoneKilledStep
  <2> QED
    BY <2>1, <2>2, PTL DEF Spec
<1>2. cut = <<>> => "delete" \notin ToSet(cut)
  BY DEF ToSet
<1> QED
  BY <1>1, <1>2, KillsKeepOwnership, CountersStayExact, OthersLeftAlone, PTL

=============================================================================
