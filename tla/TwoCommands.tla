----------------------------- MODULE TwoCommands -----------------------------
(***************************************************************************)
(* Two or more mini_ext2 commands at once on one disk.img, which nothing   *)
(* locks: create, writef, readf and delete of files in the root directory, *)
(* each dev_read_block and dev_write_block a step.                         *)
(*                                                                         *)
(* (When stdio serves several reads from one read of its own, that is the  *)
(* interleaving in which nothing comes between them.)                      *)
(*                                                                         *)
(* While a function runs, the process keeps copies of an inode and of the  *)
(* block last read.  What it is still to read and write is a list, "todo". *)
(*                                                                         *)
(* A file has one block at most.  All inodes lie in one block of the       *)
(* table, all entries in one block of the directory.  The free counters,   *)
(* on which nothing depends, are left out.  There is no /.session: with    *)
(* one, every mount would also write the inode of that file back.          *)
(***************************************************************************)
EXTENDS Integers, Sequences, SequencesExt, FiniteSetsExt

CONSTANTS Processes,
          Names,         \* files that may be there
          Targets,       \* those of them that commands are given
          Blocks, Inodes, Slots,
          MaxStarts      \* bound on the number of commands given each of them

RootIno == 1
Others == Names \ Targets
ASSUME InputAssumption ==
  /\ IsFiniteSet(Names) /\ "none" \notin Names /\ Targets \subseteq Names
  /\ RootIno..Cardinality(Names) + 1 \subseteq Inodes /\ Inodes \subseteq Nat \ {0}
  /\ 0..Cardinality(Names) - 1 \subseteq Slots /\ Slots \subseteq Nat
  /\ 1..Cardinality(Names) \subseteq Blocks /\ Blocks \subseteq Nat \ {0}
  /\ MaxStarts \in [Targets -> Nat]

VARIABLES disk,          \* the image: bitmaps, counters, inode table, root, data
          process,       \* what each process does and has in memory
          starts,        \* commands started so far, by the file they are given
          calm,          \* the image when no command was running last (history)
          since          \* the commands started since then, in order (history)
vars == <<disk, process, starts, calm, since>>

NilBlock == 0
NoInode == [size |-> 0, blk |-> NilBlock]
NoEntry == [name |-> "none", ino |-> 0]
NoBuffer == [imap |-> {}, bmap |-> {}, table |-> <<>>, dir |-> <<>>]
Idle == [cmd |-> "none", name |-> "none", todo |-> <<>>,
         buf |-> NoBuffer, ino |-> 0, at |-> 0, in |-> NoInode,
         old |-> NilBlock]

-----------------------------------------------------------------------------
(* What the commands read and write.  A step with the name of a block reads *)
(* that block, to change and write it next.                                 *)

AllocInode == <<"imap", "take inode">>
WriteInode == <<"table", "write inode">>
DirAdd == <<"read root", "dir", "enter name">> \o WriteInode
CreateFile == AllocInode \o WriteInode \o DirAdd
AllocBlock == <<"bmap", "take block", "clear block">>
WriteFile == <<"read inode to write", "write data">> \o WriteInode
ReadFile == <<"read inode to read">> \o WriteInode
FreeBlock == <<"test block", "bmap", "drop block">>
FreeInode == <<"test inode", "imap", "drop inode">>
DirRemove == <<"read root", "dir", "remove name">> \o WriteInode
DeleteFile == <<"read inode to truncate">> \o WriteInode \o FreeInode \o DirRemove

Commands == {"create", "writef", "readf", "delete"}
Found == [create |-> <<>>, writef |-> WriteFile,
          readf |-> ReadFile, delete |-> DeleteFile]
Missing == [create |-> CreateFile, writef |-> CreateFile \o WriteFile,
            readf |-> <<>>, delete |-> <<>>]

-----------------------------------------------------------------------------
(* Steps.  A step takes the first entry of the list.                       *)

At(p, step) == process[p].todo # <<>> /\ Head(process[p].todo) = step
Rest(p) == Tail(process[p].todo)

\* The process goes on as me, with rest left to do; the last step is its end.
Continue(p, me, rest) ==
  process' = [process EXCEPT ![p] = IF rest = <<>> THEN Idle
                                    ELSE [me EXCEPT !.todo = rest]]
ReadOnly(p, me, rest) == Continue(p, me, rest) /\ UNCHANGED disk

Start(p, cmd, name) ==
  /\ process[p].todo = <<>> /\ starts[name] < MaxStarts[name]
  /\ starts' = [starts EXCEPT ![name] = @ + 1]
  /\ Continue(p, [Idle EXCEPT !.cmd = cmd, !.name = name],
              <<"read root", "look up">>)
  /\ IF \A q \in Processes : process[q].todo = <<>>
     THEN calm' = disk /\ since' = <<<<cmd, name>>>>
     ELSE since' = Append(since, <<cmd, name>>) /\ UNCHANGED calm
  /\ UNCHANGED disk

\* read_inode of the root directory.
ReadRoot(p) ==
  /\ At(p, "read root")
  /\ ReadOnly(p, [process[p] EXCEPT !.in = disk.table[RootIno], !.at = RootIno],
              Rest(p))

EntriesOf(dir, size, name) == {k \in Slots : k < size /\ dir[k].name = name}

\* namei, with the size of the root directory read before.
LookUp(p) ==
  LET me == process[p]
      found == EntriesOf(disk.dir, me.in.size, me.name)
  IN  /\ At(p, "look up")
      /\ IF found = {} THEN ReadOnly(p, me, Missing[me.cmd])
         ELSE ReadOnly(p, [me EXCEPT !.ino = disk.dir[Min(found)].ino], Found[me.cmd])

\* read_inode in fs_write, with map_bn_for_write; in fs_read; in inode_truncate.
ReadInode(p) ==
  LET in == disk.table[process[p].ino]
      me == [process[p] EXCEPT !.in = in, !.at = process[p].ino]
  IN  \/ /\ At(p, "read inode to write")
         /\ ReadOnly(p, me, (IF in.blk = NilBlock THEN AllocBlock ELSE <<>>) \o Rest(p))
      \/ /\ At(p, "read inode to read")
         /\ ReadOnly(p, me, IF in.size = 0 THEN <<>> ELSE Rest(p))
      \/ /\ At(p, "read inode to truncate")
         /\ ReadOnly(p, [me EXCEPT !.in = NoInode, !.old = in.blk],
                     (IF in.blk = NilBlock THEN <<>> ELSE FreeBlock) \o Rest(p))

\* The first half of each change of a block.
ReadBlock(p) ==
  \E b \in {"imap", "bmap", "table", "dir"} :
    /\ At(p, b)
    /\ ReadOnly(p, [process[p] EXCEPT !.buf = [NoBuffer EXCEPT ![b] = disk[b]]], Rest(p))

\* The other half.
Write(p, im, me) == disk' = im /\ Continue(p, me, Rest(p))
Fail(p) == ReadOnly(p, Idle, <<>>)

WriteTable(p) ==
  LET me == process[p]
  IN  /\ At(p, "write inode")
      /\ Write(p, [disk EXCEPT !.table = [me.buf.table EXCEPT ![me.at] = me.in]], me)

\* alloc_inode, with the inode that fs_open then writes.
TakeInode(p) ==
  LET me == process[p]
      free == Inodes \ me.buf.imap
      x == Min(free)
  IN  /\ At(p, "take inode")
      /\ IF free = {} THEN Fail(p)
         ELSE Write(p, [disk EXCEPT !.imap = me.buf.imap \cup {x}],
                    [me EXCEPT !.ino = x, !.at = x, !.in = NoInode])

\* Mutant: the bit is not written back.
TakeUnwritten(p) ==
  LET me == process[p]
      free == Blocks \ me.buf.bmap
  IN  /\ At(p, "take block")
      /\ IF free = {} THEN Fail(p) ELSE Write(p, disk, [me EXCEPT !.in.blk = Min(free)])

\* alloc_block, with the entry in the copy of the inode.
TakeBlock(p) ==
  LET me == process[p]
      free == Blocks \ me.buf.bmap
      x == Min(free)
  IN  /\ At(p, "take block")
      /\ IF free = {} THEN Fail(p)
         ELSE Write(p, [disk EXCEPT !.bmap = me.buf.bmap \cup {x}],
                    [me EXCEPT !.in.blk = x])

WriteData(p) ==
  LET me == process[p]
  IN  \/ /\ At(p, "clear block")
         /\ Write(p, [disk EXCEPT !.data[me.in.blk] = "zeros"], me)
      \/ /\ At(p, "write data")
         /\ Write(p, [disk EXCEPT !.data[me.in.blk] = me.name], [me EXCEPT !.in.size = 1])

\* bmap_test in free_block and free_inode: a clear bit ends the function.
TestBit(p) ==
  LET me == process[p]
      Go(set) == ReadOnly(p, me, IF set THEN Rest(p) ELSE SubSeq(Rest(p), 3, Len(Rest(p))))
  IN  \/ At(p, "test block") /\ Go(me.old \in disk.bmap)
      \/ At(p, "test inode") /\ Go(me.ino \in disk.imap)

\* Mutant: the next bit is cleared.
DropNextBit(p) ==
  LET me == process[p]
  IN  \/ /\ At(p, "drop block")
         /\ Write(p, [disk EXCEPT !.bmap = me.buf.bmap \ {me.old + 1}], me)
      \/ /\ At(p, "drop inode")
         /\ Write(p, [disk EXCEPT !.imap = me.buf.imap \ {me.ino + 1}], me)

DropBit(p) ==
  LET me == process[p]
  IN  \/ /\ At(p, "drop block")
         /\ Write(p, [disk EXCEPT !.bmap = me.buf.bmap \ {me.old}], me)
      \/ /\ At(p, "drop inode")
         /\ Write(p, [disk EXCEPT !.imap = me.buf.imap \ {me.ino}], me)

\* dir_add and dir_remove, with the copy of the root's inode read before.
ChangeName(p) ==
  LET me == process[p]
      found == EntriesOf(me.buf.dir, me.in.size, me.name)
      SetSlot(k, e) == [disk EXCEPT !.dir = [me.buf.dir EXCEPT ![k] = e]]
  IN  \/ /\ At(p, "enter name")
         /\ IF me.in.size \notin Slots THEN Fail(p)
            ELSE Write(p, SetSlot(me.in.size, [name |-> me.name, ino |-> me.ino]),
                       [me EXCEPT !.in.size = @ + 1])
      \/ /\ At(p, "remove name")
         /\ IF found = {} THEN Fail(p) ELSE Write(p, SetSlot(Min(found), NoEntry), me)

Step(p) ==
  \/ ReadRoot(p) \/ LookUp(p) \/ ReadInode(p) \/ ReadBlock(p)
  \/ WriteTable(p) \/ WriteData(p)
  \/ TakeInode(p) \/ TakeBlock(p) \/ TestBit(p) \/ DropBit(p) \/ ChangeName(p)

\* An image with files that were created and written one after the other, and
\* nothing deleted yet.
ImageOf(files, written) ==
  LET f == SetToSeq(files)
      w == SetToSeq(written)
      BlockOf(n) == IF n \in written THEN CHOOSE b \in DOMAIN w : w[b] = n ELSE NilBlock
      InodeOf(n) == [size |-> IF n \in written THEN 1 ELSE 0, blk |-> BlockOf(n)]
  IN  [imap |-> RootIno..RootIno + Len(f), bmap |-> 1..Len(w),
       table |-> [i \in Inodes |->
                    IF i = RootIno THEN [size |-> Len(f), blk |-> NilBlock]
                    ELSE IF i - 1 \in DOMAIN f THEN InodeOf(f[i - 1]) ELSE NoInode],
       dir |-> [k \in Slots |->
                  IF k + 1 \in DOMAIN f THEN [name |-> f[k + 1], ino |-> k + 2]
                  ELSE NoEntry],
       data |-> [b \in Blocks |-> IF b \in DOMAIN w THEN w[b] ELSE "zeros"]]

Init ==
  /\ \E files \in SUBSET Targets : \E written \in SUBSET files :
       disk = ImageOf(files \cup Others, written \cup Others)
  /\ process = [p \in Processes |-> Idle]
  /\ starts = [n \in Targets |-> 0] /\ calm = disk /\ since = <<>>

Next ==
  \E p \in Processes :
    \/ \E cmd \in Commands, name \in Targets : Start(p, cmd, name)
    \/ Step(p) /\ UNCHANGED <<starts, calm, since>>

Spec == Init /\ [][Next]_vars

-----------------------------------------------------------------------------
(* Properties *)

Files(im) == {k \in Slots : k < im.table[RootIno].size /\ im.dir[k] # NoEntry}
InodesNamed(im) == {im.dir[k].ino : k \in Files(im)}
BlocksNamed(im) == {im.table[i].blk : i \in InodesNamed(im)} \ {NilBlock}

\* No inode has two names, no block two inodes, and what is named is marked used.
Sound(im) ==
  /\ \A j, k \in Files(im) : j # k => im.dir[j].ino # im.dir[k].ino
  /\ \A i, j \in InodesNamed(im) :
       (i # j /\ im.table[i].blk # NilBlock) => im.table[i].blk # im.table[j].blk
  /\ InodesNamed(im) \subseteq im.imap /\ BlocksNamed(im) \subseteq im.bmap

\* Inodes that have no name list no block.
Cleared(im) == \A i \in Inodes \ InodesNamed(im) : im.table[i].blk = NilBlock

\* No entry is left behind the end of the root directory, where a later name
\* would uncover it.
NothingBehind(im) == \A k \in Slots : k >= im.table[RootIno].size => im.dir[k] = NoEntry

\* An image without remains of commands that overlapped.
Clean(im) == Sound(im) /\ Cleared(im) /\ NothingBehind(im)

\* The files of a name: slot, inode, contents, and whether they are marked used.
FilesOf(im, n) ==
  {[slot |-> k, ino |-> im.dir[k].ino, inode |-> im.table[im.dir[k].ino],
    data |-> {im.data[b] : b \in {im.table[im.dir[k].ino].blk} \ {NilBlock}},
    marked |-> im.dir[k].ino \in im.imap
               /\ {im.table[im.dir[k].ino].blk} \ {NilBlock} \subseteq im.bmap] :
     k \in {j \in Files(im) : im.dir[j].name = n}}

\* However commands overlap, and however long one of them takes, a file that none
\* of them is given keeps its name, its inode, its blocks and its contents.  This
\* needs a clean image to begin with: an entry or a block that earlier commands
\* left behind may bring a file back, or have two files share a block.
BystandersSafe ==
  Clean(calm) =>
    \A n \in Names \ {s[2] : s \in ToSet(since)} : FilesOf(disk, n) = FilesOf(calm, n)

\* Of the commands that overlapped, one at most does not only read.
OneWriter == \A j, k \in DOMAIN since : "readf" \notin {since[j][1], since[k][1]} => j = k

\* Readers write, too: each puts back the inode, and with it the block of the
\* inode table, as it was before.  This can undo what a writer did, but it never
\* makes two owners or a free block held: for that two writers have to overlap.
OneWriterOwns ==
  (/\ \A p \in Processes : process[p].todo = <<>>
   /\ Sound(calm) /\ Cleared(calm) /\ OneWriter) => Sound(disk)
=============================================================================
