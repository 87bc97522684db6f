------------------------------ MODULE Ext2Image ------------------------------
(***************************************************************************)
(* The disk image of mini_ext2 (project3) and the functions of bitmap.c,   *)
(* inode.c, dir.c and file.c as operators on it.                           *)
(*                                                                         *)
(* They are operators on call contexts (CallContext).                      *)
(*                                                                         *)
(* Sizes are counted in cells: one cell is the 64 bytes of a dirent_t, a   *)
(* block has Width cells and an indirect block Width pointers.  Timestamps *)
(* and link counts are left out: nothing reads them but ls.                *)
(***************************************************************************)
EXTENDS CallContext

CONSTANTS NBlocks,      \* data blocks (BLK_DATA_START .. TOTAL_BLOCKS-1)
          NBits,        \* those of them that have a bit in the block bitmap
          ReadClear,    \* blocks without a bit that look free (see alloc_block)
          MaxInodes,    \* MAX_INODES
          NDirect,      \* NDIRECT
          Width,        \* BLOCK_SIZE / sizeof(dirent_t), and pointers per block
          Stem,         \* a name cut to the NAME_MAX_LEN-1 characters stored
          SbBehindGd    \* TRUE when the linker puts g_sb behind g_gd (below)

ASSUME GeometryAssumption ==
  /\ {NBlocks, MaxInodes, NDirect, Width} \subseteq Nat \ {0}
  /\ NBits \in 1..NBlocks /\ ReadClear \subseteq NBits + 1..NBlocks
  /\ \A n \in DOMAIN Stem : Stem[n] \in DOMAIN Stem
  /\ SbBehindGd \in BOOLEAN

Blocks == 1..NBlocks
Recorded == 1..NBits
Inodes == 1..MaxInodes
RootIno == 1
NilBlock == 0

\* What a cell of a block holds.
Zero == [kind |-> "zero"]
Entry(name, ino, ftype) ==
  [kind |-> "entry", name |-> name, ino |-> ino, ftype |-> ftype]
Pointer(b) == [kind |-> "pointer", blk |-> b]
Data(v) == [kind |-> "data", val |-> v]

ZeroBlock == [i \in 0..Width - 1 |-> Zero]
NoInode == [type |-> "none", uid |-> 0, mode |-> {}, size |-> 0, blocks |-> 0,
            direct |-> [n \in 0..NDirect - 1 |-> NilBlock], indirect |-> NilBlock]
NewInode(type, uid) ==
  [NoInode EXCEPT !.type = type, !.uid = uid,
                  !.mode = DefaultMode]

-----------------------------------------------------------------------------
(* bitmap.c: the bit is written first, then the counter of the superblock, *)
(* then the counter of the group descriptor.  Both structures are shorter  *)
(* than the block dev_write_block takes them for, so the block of g_gd also*)
(* receives what the linker put behind it; "tail" is that copy of g_sb.    *)

\* Mutants: every allocation counted twice; the group descriptor forgotten.
CountTwice(c, what, k) ==
  Then(DevWrite(c, [Cur(c) EXCEPT !.sb[what] = @ + 2 * k]),
       LAMBDA s : DevWrite(s, [Cur(s) EXCEPT !.gd[what] = @ + 2 * k,
                                             !.gd.tail = Cur(s).sb]))
CountSbOnly(c, what, k) == DevWrite(c, [Cur(c) EXCEPT !.sb[what] = @ + k])

Count(c, what, k) ==
  Then(DevWrite(c, [Cur(c) EXCEPT !.sb[what] = @ + k]),
       LAMBDA s : DevWrite(s, [Cur(s) EXCEPT !.gd[what] = @ + k,
                                             !.gd.tail = Cur(s).sb]))

\* Mutants: the bit is not written back; the last bit is never looked at.
AllocForgetsBit(c, bitmap, range, what) ==
  LET free == range \ Cur(c)[bitmap]
  IN  IF free = {} THEN Ret(c, FS_ENOSPC) ELSE Ret(Count(c, what, -1), Min(free))

AllocSkipsLast(c, bitmap, range, what) ==
  LET free == (range \ {Max(range)}) \ Cur(c)[bitmap]
      x == Min(free)
  IN  IF free = {} THEN Ret(c, FS_ENOSPC)
      ELSE Ret(Count(DevWrite(c, [Cur(c) EXCEPT ![bitmap] = @ \cup {x}]),
                     what, -1), x)

Alloc(c, bitmap, range, what) ==
  LET free == range \ Cur(c)[bitmap]
      x == Min(free)
  IN  IF free = {} THEN Ret(c, FS_ENOSPC)
      ELSE Ret(Count(DevWrite(c, [Cur(c) EXCEPT ![bitmap] = @ \cup {x}]),
                     what, -1), x)

\* Mutant: the next bit is cleared instead.
FreeNextBit(c, bitmap, range, what, x) ==
  IF x \notin range \/ x \notin Cur(c)[bitmap] THEN c
  ELSE Count(DevWrite(c, [Cur(c) EXCEPT ![bitmap] = @ \ {x + 1}]), what, 1)

Free(c, bitmap, range, what, x) ==
  IF x \notin range \/ x \notin Cur(c)[bitmap] THEN c
  ELSE Count(DevWrite(c, [Cur(c) EXCEPT ![bitmap] = @ \ {x}]), what, 1)

\* The bitmap is one block of 4096 bits, the device has 4611 blocks.  For the
\* last ones both functions read and write the stack behind their copy of the
\* bitmap: what they find is any value, what they change is not kept, and the
\* counters move all the same.  (That the process dies of it is a kill.)
alloc_block(c) ==
  IF Recorded \subseteq Cur(c).bmap /\ ReadClear # {}
  THEN Ret(Count(DevWrite(c, Cur(c)), "blocks", -1), Min(ReadClear))
  ELSE Alloc(c, "bmap", Recorded, "blocks")
free_block(c, b) ==
  IF b \in Blocks \ (Recorded \cup ReadClear)
  THEN Count(DevWrite(c, Cur(c)), "blocks", 1)
  ELSE Free(c, "bmap", Recorded, "blocks", b)
alloc_inode(c) == Alloc(c, "imap", Inodes, "inodes")
free_inode(c, ino) == Free(c, "imap", Inodes, "inodes", ino)

\* dir.c and file.c clear every block they allocate.
AllocZeroed(c) ==
  IfOk(alloc_block(c), LAMBDA a :
    Ret(DevWrite(a, [Cur(a) EXCEPT !.block[a.ret] = ZeroBlock]), a.ret))

\* A context that also holds the running function's copy of an inode, and the
\* context it returns to its caller.
WithInode(c, in) == [log |-> c.log, ret |-> c.ret, in |-> in]
Returned(c) == [log |-> c.log, ret |-> c.ret]

-----------------------------------------------------------------------------
(* inode.c *)

write_inode(c, ino, in) == DevWrite(c, [Cur(c) EXCEPT !.inode[ino] = in])

\* A table cell as the uint32_t the code reads: text gives numbers past the end
\* of the device.  A directory block is never read here (see DirBlockAsTable).
AsPointer(cell) ==
  CASE cell.kind = "zero" -> NilBlock
    [] cell.kind = "pointer" -> cell.blk
    [] cell.kind = "data" -> NBlocks + 1

Table(im, b) == [i \in 0..Width - 1 |-> AsPointer(im.block[b][i])]

InOrder(f, n) == [i \in 1..n |-> f[i - 1]]

\* The code passes nil pointers over; free_block does nothing for them.
inode_truncate(c, ino) ==
  LET in == Cur(c).inode[ino]
      listed == InOrder(in.direct, NDirect)
                \o (IF in.indirect = NilBlock THEN <<>>
                    ELSE InOrder(Table(Cur(c), in.indirect), Width)
                         \o <<in.indirect>>)
  IN  write_inode(FoldLeft(free_block, c, listed), ino,
                  [NoInode EXCEPT !.type = in.type, !.uid = in.uid,
                                  !.mode = in.mode])

-----------------------------------------------------------------------------
(* dir.c *)

\* The slots of a directory that read_dir_block can reach, and what they hold.
Slots(in) == {k \in 0..in.size - 1 : /\ k \div Width < NDirect
                                     /\ in.direct[k \div Width] # NilBlock}
SlotCell(im, in, k) == im.block[in.direct[k \div Width]][k % Width]
Matches(im, dir, name) ==
  LET in == im.inode[dir]
  IN  {k \in Slots(in) : /\ SlotCell(im, in, k).kind = "entry"
                         /\ SlotCell(im, in, k).name = name}

dir_lookup(im, dir, name) ==
  LET found == Matches(im, dir, name)
  IN  CASE im.inode[dir].type # "dir" -> [ret |-> FS_ENOTDIR, ino |-> 0]
        [] found = {} -> [ret |-> FS_ENOENT, ino |-> 0]
        [] OTHER -> [ret |-> FS_OK,
                     ino |-> SlotCell(im, im.inode[dir], Min(found)).ino]

\* Directories use the direct pointers only.
ensure_dir_block(c, bn) ==
  IF bn >= NDirect THEN Ret(c, FS_ENOSPC)
  ELSE IF c.in.direct[bn] # NilBlock THEN Ret(c, c.in.direct[bn])
  ELSE IfOk(AllocZeroed(c), LAMBDA a :
         [a EXCEPT !.in.direct[bn] = a.ret, !.in.blocks = @ + 1])

\* Appends at the end of the directory; a slot emptied earlier is not reused.
dir_add(c, dir, name, ftype, child) ==
  LET in == Cur(c).inode[dir]
      Enter(e) ==
        write_inode(DevWrite(Returned(e),
                      [Cur(e) EXCEPT !.block[e.ret][in.size % Width] =
                                       Entry(Stem[name], child, ftype)]),
                    dir, [e.in EXCEPT !.size = @ + 1])
  IN  IF in.type # "dir" THEN Ret(c, FS_ENOTDIR)
      ELSE Then(ensure_dir_block(WithInode(c, in), in.size \div Width), LAMBDA e :
             IF e.ret < 0 THEN Ret(Returned(e), FS_ENOSPC) ELSE Enter(e))

\* Mutant: the entry is not cleared.
RemoveKeepsEntry(c, dir, name) ==
  IF Matches(Cur(c), dir, name) = {} THEN Ret(c, FS_ENOENT)
  ELSE write_inode(c, dir, Cur(c).inode[dir])

\* The name is compared as the caller spells it, not cut to its stem.
dir_remove(c, dir, name) ==
  LET im == Cur(c)
      in == im.inode[dir]
      k == Min(Matches(im, dir, name))
  IN  IF dir \notin Inodes THEN Ret(c, FS_ERR)
      ELSE IF Matches(im, dir, name) = {} THEN Ret(c, FS_ENOENT)
      ELSE write_inode(DevWrite(c, [im EXCEPT
             !.block[in.direct[k \div Width]][k % Width] = Zero]), dir, in)

\* A path is the sequence of its segments from the root: a command starts with
\* g_cwd = root_ino, so relative and absolute paths are the same.
namei(im, path) ==
  FoldLeft(LAMBDA r, seg : IF r.ret # FS_OK THEN r
                           ELSE dir_lookup(im, r.ino, Stem[seg]),
           [ret |-> FS_OK, ino |-> RootIno], path)

-----------------------------------------------------------------------------
(* file.c *)

IndirectBlock(c) ==
  IF c.in.indirect # NilBlock THEN Ret(c, c.in.indirect)
  ELSE IfOk(AllocZeroed(c), LAMBDA a : [a EXCEPT !.in.indirect = a.ret])

\* Mutant: the new pointer is not written to the indirect block.
LinkForgotten(t, idx) ==
  IfOk(AllocZeroed(t), LAMBDA a : [a EXCEPT !.in.blocks = @ + 1])

LinkNewBlock(t, idx) ==
  IfOk(AllocZeroed(t), LAMBDA a :
    [DevWrite(a, [Cur(a) EXCEPT !.block[t.in.indirect][idx] = Pointer(a.ret)])
       EXCEPT !.in.blocks = @ + 1, !.ret = a.ret])

MapIndirect(c, idx) ==
  IfOk(IndirectBlock(c), LAMBDA t :
    LET slot == AsPointer(Cur(t).block[t.in.indirect][idx])
    IN  IF slot # NilBlock THEN Ret(t, slot) ELSE LinkNewBlock(t, idx))

map_bn_for_write(c, bn) ==
  IF bn >= NDirect + Width THEN Ret(c, FS_ENOSPC)
  ELSE IF bn >= NDirect THEN MapIndirect(c, bn - NDirect)
  ELSE IF c.in.direct[bn] # NilBlock THEN Ret(c, c.in.direct[bn])
  ELSE IfOk(AllocZeroed(c), LAMBDA a :
         [a EXCEPT !.in.direct[bn] = a.ret, !.in.blocks = @ + 1])

map_bn_for_read(im, in, bn) ==
  LET b == IF bn < NDirect THEN in.direct[bn]
           ELSE IF in.indirect = NilBlock \/ bn >= NDirect + Width THEN NilBlock
           ELSE Table(im, in.indirect)[bn - NDirect]
  IN  IF b = NilBlock THEN FS_ERR ELSE b

OpenExisting(c, ino, writable, uid) ==
  LET in == Cur(c).inode[ino]
      may == IF writable THEN perm_can_write(in, uid) ELSE perm_can_read(in, uid)
  IN  Ret(c, IF may THEN ino ELSE FS_EPERM)

\* Mutant: the name is entered before the inode is written.
CreateNamesFirst(c, dir, name, uid) ==
  IfOk(alloc_inode(c), LAMBDA a :
    Then(dir_add(a, dir, name, "reg", a.ret), LAMBDA d :
      IF d.ret < 0 THEN Ret(d, FS_ERR)
      ELSE Ret(write_inode(d, a.ret, NewInode("reg", uid)), a.ret)))

\* Mutant: whether the name could be entered is not looked at, as in cmd_mkdir.
CreateUnentered(c, dir, name, uid) ==
  IfOk(alloc_inode(c), LAMBDA a :
    Ret(dir_add(write_inode(a, a.ret, NewInode("reg", uid)),
                dir, name, "reg", a.ret), a.ret))

CreateFile(c, dir, name, uid) ==
  IfOk(alloc_inode(c), LAMBDA a :
    Then(dir_add(write_inode(a, a.ret, NewInode("reg", uid)),
                 dir, name, "reg", a.ret),
         LAMBDA d : Ret(d, IF d.ret < 0 THEN FS_ERR ELSE a.ret)))

\* Gives the inode behind the descriptor in ret: a command holds one
\* descriptor at a time, so its table of MAX_OPEN slots is never full.
fs_open(c, path, writable, uid) ==
  Then(namei(Cur(c), path), LAMBDA r :
    IF r.ret = FS_OK THEN OpenExisting(c, r.ino, writable, uid)
    ELSE IF ~writable THEN Ret(c, r.ret)
    ELSE Then(namei(Cur(c), Front(path)), LAMBDA parent :
           IF parent.ret # FS_OK THEN Ret(c, FS_ERR)
           ELSE CreateFile(c, parent.ino, Last(path), uid)))

\* Mutant: one cell too many.
WriteTooFar(c, bn, pos, len, v) ==
  LET inside(i) == bn * Width + i \in pos..pos + len
      Overwrite(m) ==
        DevWrite(m, [Cur(m) EXCEPT !.block[m.ret] =
          [i \in 0..Width - 1 |-> IF inside(i) THEN Data(v) ELSE @[i]]])
  IN  IF c.ret < 0 THEN c
      ELSE IfOk(map_bn_for_write(c, bn), LAMBDA m :
             IF m.ret \in Blocks THEN Overwrite(m) ELSE Ret(m, FS_ERR))

\* One turn of the loop of fs_write: map the block, then overwrite the cells of
\* pos .. pos+len-1 that lie in it.
WriteBlock(c, bn, pos, len, v) ==
  LET inside(i) == bn * Width + i \in pos..pos + len - 1
      Overwrite(m) ==
        DevWrite(m, [Cur(m) EXCEPT !.block[m.ret] =
          [i \in 0..Width - 1 |-> IF inside(i) THEN Data(v) ELSE @[i]]])
  IN  IF c.ret < 0 THEN c
      ELSE IfOk(map_bn_for_write(c, bn), LAMBDA m :
             IF m.ret \in Blocks THEN Overwrite(m) ELSE Ret(m, FS_ERR))

\* The loop as a whole.
WriteBlocks(c, in, pos, len, v) ==
  LET first == pos \div Width
      count == IF len = 0 THEN 0 ELSE (pos + len - 1) \div Width - first + 1
  IN  FoldLeft(LAMBDA s, bn : WriteBlock(s, bn, pos, len, v),
               WithInode(Ret(c, FS_OK), in), [n \in 1..count |-> first + n - 1])

\* Mutant: the size becomes the end of what was written last.
SizeShrinks(w, ino, pos, len) ==
  IF w.ret < 0 THEN Returned(w)
  ELSE Ret(write_inode(Returned(w), ino, [w.in EXCEPT !.size = pos + len]), len)

\* What follows the loop.  On an error the inode is not written back.
WriteSize(w, ino, pos, len) ==
  IF w.ret < 0 THEN Returned(w)
  ELSE Ret(write_inode(Returned(w), ino,
                       [w.in EXCEPT !.size = Max({@, pos + len})]), len)

\* Writes len cells of v at pos.
fs_write(c, ino, pos, len, v, uid) ==
  LET in == Cur(c).inode[ino]
  IN  IF ~perm_can_write(in, uid) THEN Ret(c, FS_EPERM)
      ELSE Then(WriteBlocks(c, in, pos, len, v),
                LAMBDA w : WriteSize(w, ino, pos, len))

\* What fs_read from offset 0 to the end returns: it stops at the first block
\* that is not mapped.
Contents(im, ino) ==
  LET in == im.inode[ino]
      holes == {bn \in 0..(in.size - 1) \div Width :
                  map_bn_for_read(im, in, bn) \notin Blocks}
      len == IF in.size = 0 THEN 0
             ELSE Min({in.size} \cup {bn * Width : bn \in holes})
  IN  [k \in 1..len |->
         im.block[map_bn_for_read(im, in, (k - 1) \div Width)][(k - 1) % Width]]

\* Called with a length no smaller than the file.  The inode is written back for
\* its atime.
fs_read(c, ino, uid) ==
  LET in == Cur(c).inode[ino]
  IN  IF ~perm_can_read(in, uid) THEN Ret(c, FS_EPERM)
      ELSE IF in.size = 0 THEN Ret(c, 0)
      ELSE Ret(write_inode(c, ino, in), Len(Contents(Cur(c), ino)))
=============================================================================
