-------------------------------- MODULE Fsck --------------------------------
(***************************************************************************)
(* What an fsck of the mini_ext2 image would look for, and what each       *)
(* command owes its caller.  The source has no such tool: these are the    *)
(* properties of MiniExt2.                                                 *)
(***************************************************************************)
EXTENDS MiniExt2

-----------------------------------------------------------------------------
(* Which inodes hold which blocks. *)

Files(im) == {i \in im.imap : im.inode[i].type = "reg"}
Dirs(im) == {i \in im.imap : im.inode[i].type = "dir"}

\* The blocks of an inode, each with the place the inode holds it by.
Holdings(im, i) ==
  LET in == im.inode[i]
      slots == IF in.indirect = NilBlock THEN {} ELSE 0..Width - 1
  IN  {h \in {<<"direct", n, in.direct[n]>> : n \in 0..NDirect - 1}
             \cup {<<"table", 0, in.indirect>>}
             \cup {<<"indirect", n, Table(im, in.indirect)[n]>> : n \in slots} :
         h[3] # NilBlock}
BlocksOf(im, i) == {h[3] : h \in Holdings(im, i)}

\* No block has two places, in one inode or in two.
Disjoint(im) ==
  \A i \in im.imap :
    LET blocks == BlocksOf(im, i)
    IN  /\ Cardinality(blocks) = Cardinality(Holdings(im, i))
        /\ \A j \in im.imap \ {i} : blocks \cap BlocksOf(im, j) = {}

Owned(im) == UNION {BlocksOf(im, i) : i \in im.imap}

-----------------------------------------------------------------------------
(* The directory tree. *)

Entries(im, d) ==
  LET in == im.inode[d]
      cells == {<<k, SlotCell(im, in, k)>> : k \in Slots(in)}
  IN  {[name |-> s[2].name, ino |-> s[2].ino, ftype |-> s[2].ftype, slot |-> s[1]] :
          s \in {t \in cells : t[2].kind = "entry"}}
Children(im, d) == {e \in Entries(im, d) : e.name \notin {".", ".."}}
Names(im, i) ==
  UNION {{<<d, e>> : e \in {f \in Children(im, d) : f.ino = i}} : d \in Dirs(im)}
Orphans(im) ==
  im.imap \ ({RootIno} \cup {e.ino : e \in UNION {Children(im, d) : d \in Dirs(im)}})

\* An entry names an allocated inode of the type it says.
Resolves(im, e) == e.ino \in im.imap /\ im.inode[e.ino].type = e.ftype
Dangling(im) == {e \in UNION {Entries(im, d) : d \in Dirs(im)} : ~Resolves(im, e)}

\* The blocks marked used that no inode with a name has.
LostBlocks(im) == im.bmap \ UNION {BlocksOf(im, i) : i \in im.imap \ Orphans(im)}
-----------------------------------------------------------------------------
(* Every command that could run now, with what it was asked to work on. *)

Writes ==
  {[path |-> a[1], len |-> a[2], val |-> a[3], uid |-> u,
    ctx |-> Writef(disk, a, u)] : a \in WriteArgs, u \in Uids}
  \cup {[path |-> a[1], len |-> a[2], val |-> a[3], uid |-> u,
          ctx |-> Writefile(disk, a, u)] : a \in CopyArgs, u \in Uids}
Makes == {[path |-> p, len |-> 0, uid |-> u, ctx |-> Mkdir(disk, p, u)] :
            p \in MkdirPaths, u \in Uids}
         \cup {[path |-> p, len |-> 0, uid |-> u, ctx |-> Create(disk, p, u)] :
                  p \in CreatePaths, u \in Uids}
Deletes == {[path |-> p, ctx |-> Delete(disk, p)] : p \in DeletePaths}

\* The inodes a path names in an image: one or none.
At(im, path) ==
  LET r == namei(im, path) IN IF r.ret = FS_OK THEN {r.ino} ELSE {}

\* The rule README.md states for the mode bits ("chmod 600 ... only oneself").
MayWrite(in, uid) ==
  \/ uid = 0
  \/ in.uid = uid /\ "ownerW" \in in.mode
  \/ in.uid # uid /\ "otherW" \in in.mode

InputPaths == MkdirPaths \cup CreatePaths \cup DeletePaths \cup LookPaths
              \cup {a[1] : a \in WriteArgs \cup CopyArgs}

CutNothingButAdds == {"delete", "format"} \cap ToSet(cut) = {}

-----------------------------------------------------------------------------
(* Invariants of the image. *)

\* The image is an image: bitmaps, counters, inodes and blocks of the right
\* kind (the superblock of fs.h, the inode_t and the dirent_t cells).
TypeOK ==
  /\ disk.magic \in BOOLEAN
  /\ disk.bmap \subseteq Recorded /\ disk.imap \subseteq Inodes
  /\ \A f \in {"blocks", "inodes"} : disk.sb[f] \in Nat /\ disk.gd[f] \in Nat
  /\ \A i \in Inodes :
       LET in == disk.inode[i]
       IN  /\ in.type \in {"none", "reg", "dir"}
           /\ in.size \in 0..(NDirect + Width) * Width
           /\ in.direct \in [0..NDirect - 1 -> Blocks \cup {NilBlock}]
           /\ in.indirect \in Blocks \cup {NilBlock}
  /\ \A b \in Blocks, n \in 0..Width - 1 :
       disk.block[b][n].kind \in {"zero", "entry", "pointer", "data"}
  /\ ToSet(cut) \subseteq {"format", "mount", "fd", "cd", "ls", "open", "readf", "mkdir",
                         "create", "writef", "writefile", "chmod", "delete"}

\* A data block is held in one place only, and only blocks the bitmap shows as
\* used are held: alloc_block never hands out a block some inode still reaches,
\* whatever was deleted, failed with ENOSPC or was truncated before.
OwnBlocks(im) == Disjoint(im) /\ Owned(im) \subseteq im.bmap
Ownership == OwnBlocks(disk)

\* The free counters of superblock and group descriptor agree with the bitmaps
\* and with each other, and so does the copy behind the group descriptor.
ExactCounters(im) ==
  LET free == [live |-> TRUE, blocks |-> NBlocks - Cardinality(im.bmap),
               inodes |-> MaxInodes - Cardinality(im.imap)]
  IN  /\ im.sb = free
      /\ im.gd = [blocks |-> free.blocks, inodes |-> free.inodes, tail |-> free]
CountersExact == ExactCounters(disk)

\* The directories form a tree: every entry names an allocated inode of its
\* type, no inode has two names, "." names the directory itself and ".." the
\* directory that names it.  (So it is until something is deleted that leaves its
\* name or a child behind, see StaleNameAnswers and DeleteOrphans.)
TreeShaped ==
  /\ Dangling(disk) = {}
  /\ \A i \in disk.imap : Cardinality(Names(disk, i)) <= (IF i = RootIno THEN 0 ELSE 1)
  /\ \A d \in Dirs(disk) : \A e \in Entries(disk, d) :
       /\ e.name = "." => e.ino = d
       /\ e.name = ".." =>
            \A n \in Names(disk, d) : e.ino = n[1]

\* A regular file has no hole: every block below its size is mapped to a block
\* in use, also after writes that stopped at ENOSPC half way.
NoHoles ==
  \A i \in Files(disk) : Len(Contents(disk, i)) = disk.inode[i].size

-----------------------------------------------------------------------------
(* What the commands owe, for every command that can run in a reachable     *)
(* image.                                                                   *)

\* No command changes a file it was not asked to change, not even for a moment:
\* this holds after each of its block writes.
OthersUntouched ==
  \A c \in Writes \cup Makes \cup Deletes :
    \A i \in Files(disk) \ At(disk, c.path) :
      LET text == Contents(disk, i)
      IN  \A k \in DOMAIN c.ctx.log :
            i \in Files(c.ctx.log[k]) /\ Contents(c.ctx.log[k], i) = text

\* A writef or writefile by a user who may not write a file leaves its contents
\* alone, by whichever path it is tried, also after killed creates and writes.
\* (delete asks for no permission at all.)
ProtectedFilesKept ==
  CutNothingButAdds => \A w \in Writes, i \in Files(disk) :
    ~MayWrite(disk.inode[i], w.uid) =>
      Contents(Cur(w.ctx), i) = Contents(disk, i)

\* A mkdir, create, writef or writefile that succeeds leaves nothing marked used
\* that has no name.  A create that fails loses its inode at most, for want of a slot
\* for the name; a mkdir the inode and the block its "." and ".." are in by then; a
\* write the blocks it took, since it drops its copy of the inode.
LeakBound ==
  LET orphans == Orphans(disk)
      lost == LostBlocks(disk)
  IN  \A c \in Writes \cup Makes :
        LET im == Cur(c.ctx)
            inodes == Orphans(im) \ orphans
            blocks == LostBlocks(im) \ lost
        IN  At(disk, c.path) \cap Dirs(disk) = {} \/ c.len = 0 =>
              /\ c.ctx.ret >= 0 => inodes = {} /\ blocks = {}
              /\ Cardinality(inodes) <= 1
              /\ Cardinality(blocks) <=
                   IF inodes = {} THEN (IF c.len = 0 THEN 0 ELSE 1 + (c.len + Width - 1) \div Width)
                   ELSE Cardinality(inodes \cap Dirs(im))

\* What a delete leaves without a name are children of the directory it deletes, and
\* those only if it has no "." and "..": its emptiness test counts entries.
DeleteOrphans ==
  \A c \in Deletes :
    \A i \in Orphans(Cur(c.ctx)) \ Orphans(disk) :
      \E d \in At(disk, c.path) \cap Dirs(disk) :
        /\ i \in {e.ino : e \in Children(disk, d)}
        /\ ~({".", ".."} \subseteq {e.name : e \in Entries(disk, d)})

\* No command fails without a limit or a right that is missing: the parent is no
\* directory or was given all the names it takes (also when they are deleted since),
\* all inodes are used, or all blocks are, or the text is longer than a file can be;
\* that one fails for sure.  (For paths whose parent fits into the 256 bytes of
\* fs_open and cmd_mkdir.)
FailsAtALimit ==
  LET longest == (NDirect + Width) * Width
      over == {[path |-> p, len |-> longest + 1, uid |-> 0,
                ctx |-> Writef(disk, <<p, longest + 1, "text">>, 0)] :
                 p \in {a[1] : a \in WriteArgs} \cup {<<".users">>}}
  IN  \A c \in Writes \cup Makes \cup over :
        /\ c.ctx.ret < 0 =>
             \/ Inodes \subseteq disk.imap
             \/ Recorded \subseteq Cur(c.ctx).bmap
             \/ c.len > longest
             \/ \E i \in At(disk, c.path) : ~MayWrite(disk.inode[i], c.uid)
             \/ ~\E d \in At(disk, Front(c.path)) :
                  disk.inode[d].type = "dir" /\ disk.inode[d].size < NDirect * Width
        /\ c.len > longest => c.ctx.ret < 0

\* fs_open does not refuse a directory: a writef on one turns its first slots into
\* text.  That costs the names in these slots, of which nothing is said here (a short
\* text spares the name and spoils the inode number), and no more: the entries
\* behind the text stay, every file keeps its contents, blocks keep their owners, the
\* counters stay exact.
WritingOverDirectory ==
  \A path \in InputPaths, len \in {1, Width + 1} :
    \A d \in At(disk, path) \cap Dirs(disk) :
      LET im == Cur(Writef(disk, <<path, len, "text">>, 0))
          Behind(s) == {e \in s : e.slot >= len}
      IN  /\ Behind(Entries(im, d)) = Behind(Entries(disk, d))
          /\ \A i \in Files(disk) : Contents(im, i) = Contents(disk, i)
          /\ OwnBlocks(im) /\ ExactCounters(im)

\* A file is deleted by the name the caller spells and entered by the 55 characters
\* that are stored.  A name that is longer stays behind when its file goes, and
\* the next file that is made answers to it, too.
StaleNameAnswers ==
  \A n \in DOMAIN Stem :
    At(disk, <<n>>) = {} =>
      LET made == Create(disk, <<n>>, 0)
          gone == Delete(Cur(made), <<n>>)
      IN  made.ret >= 0 =>
            /\ At(Cur(gone), <<n>>) = IF Stem[n] = n THEN {} ELSE {made.ret}
            /\ \A other \in CreatePaths :
                 LET next == Create(Cur(gone), other, 0)
                 IN  (next.ret >= 0 /\ At(disk, other) = {}) =>
                       At(Cur(next), <<n>>) = IF Stem[n] = n THEN {} ELSE At(Cur(next), other)

\* A delete killed after any of its block writes can be run again: bitmaps,
\* inodes and directories then are what the undisturbed delete leaves.
RetryDelete ==
  LET Shape(im) == [im EXCEPT !.sb = 0, !.gd = 0]
  IN  ~DirBlockAsTable(disk) =>
        \A c \in Deletes : \A i \in At(disk, c.path) :
          disk.inode[i].type = "reg" =>
            \A k \in DOMAIN c.ctx.log :
              Shape(Cur(Delete(c.ctx.log[k], c.path))) = Shape(Cur(c.ctx))

-----------------------------------------------------------------------------
(* The image as the FileStore its user sees. *)

\* The paths that resolve, as deep as the inputs go, each with its entry: the
\* first of its name in the directory, and the later ones of that name.
Named(im, x) ==
  UNION {{[path |-> Append(x.path, e.name), ino |-> e.ino,
           later |-> {f \in children : f.name = e.name /\ f.slot > e.slot}] :
            e \in {f \in children : \A g \in children :
                     g.name = f.name => f.slot <= g.slot}} :
         children \in {Children(im, d) : d \in {x.ino} \cap Dirs(im)}}
Shown(im) ==
  LET Deeper(S, n) == S \cup UNION {Named(im, x) : x \in S}
  IN  FoldLeft(Deeper, {[path |-> <<>>, ino |-> RootIno, later |-> {}]},
               [n \in 1..Max({Len(p) : p \in InputPaths}) |-> n])

ShownNode(im, x) ==
  LET dir == im.inode[x.ino].type = "dir"
      slots == SetToSortSeq({e.slot : e \in x.later}, <)
      SizeOf(slot) == im.inode[(CHOOSE e \in x.later : e.slot = slot).ino].size
  IN  [path |-> x.path, kind |-> im.inode[x.ino].type,
       cells |-> IF dir THEN <<>> ELSE Contents(im, x.ino),
       entered |-> IF dir THEN im.inode[x.ino].size ELSE 0,
       behind |-> IF x.later = {} THEN <<>>
                  ELSE [n \in 1..Cardinality(x.later) |-> SizeOf(slots[n])]]

InCells(args) == {<<a[1], a[2], Data(a[3])>> : a \in args}

Store == INSTANCE FileStore WITH
           Capacity <- NDirect * Width,
           Chunk <- Width,
           WriteArgs <- InCells(WriteArgs),
           CopyArgs <- InCells(CopyArgs),
           UserTable <- <<Data("users")>>,
           store <- {ShownNode(disk, x) : x \in Shown(disk)}

\* The commands are those of a FileStore: whatever the disk is full of, a path
\* names what was put there last, a command changes the one path it is given,
\* and a directory made for a path already taken comes forth when that goes.
Implements == Store!Spec

-----------------------------------------------------------------------------
(* After kills. *)

\* Killing mkdir, create, writef, writefile or chmod after any block write costs
\* at most leaked blocks and inodes, whatever runs afterwards: ownership, tree
\* and files stay intact.  (A killed delete may cost more: see BlockAlloc.)
KillTolerant == CutNothingButAdds => Ownership /\ TreeShaped /\ NoHoles

\* What a command reports as done the next command finds, in an image it can
\* mount: also after a killed format, which leaves an image that mounts and has
\* no root directory or no g_sb.  (A killed delete leaves names of free inodes.)
SuccessSurvives ==
  "delete" \notin ToSet(cut) => \A c \in Writes \cup Makes :
    c.ctx.ret >= 0 =>
      LET next == fs_mount(Cur(c.ctx))
      IN  /\ next.ret = FS_OK
          /\ \E i \in At(Cur(next), c.path) :
               /\ i \in Cur(next).imap
               /\ Cur(next).inode[i].type = "reg" => c.len <= Len(Contents(Cur(next), i))

-----------------------------------------------------------------------------
(* What README.md says of the commands.                                     *)

\* README.md, section 2: writef a text, and readf shows it.
ReadsBack ==
  \A w \in Writes : w.ctx.ret >= 0 =>
    \A i \in At(Cur(w.ctx), w.path) :
      IsPrefix([k \in 1..w.len |-> Data(w.val)], Contents(Cur(w.ctx), i))
=============================================================================
