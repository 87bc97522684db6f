------------------------------- MODULE MiniExt2 -------------------------------
(***************************************************************************)
(* mini_ext2: the commands of cli.c run one after the other on one image.  *)
(* Every command is a process of its own that mounts the image, does its   *)
(* work and exits, so nothing but the image survives it; any of them can   *)
(* be killed between two block writes, which leaves the image as it then   *)
(* is.                                                                     *)
(***************************************************************************)
EXTENDS Ext2Image

CONSTANTS Uids,          \* the uid session_load restores at the mount
          MkdirPaths, CreatePaths, DeletePaths,
          LookPaths,     \* for readf, open, ls and cd
          WriteArgs,     \* <<path, length in cells, value>> for writef
          CopyArgs,      \* <<path, length in cells, value>> for writefile
          ChmodArgs,     \* <<path, mode>>
          UnsetParent,   \* what an uninitialized p holds (see ParentOf)
          MaxCuts        \* bound on the number of commands killed half way

ASSUME InputAssumption ==
  /\ {MaxCuts, UnsetParent} \subseteq Nat
  /\ <<>> \notin MkdirPaths \cup CreatePaths \cup DeletePaths
  /\ MkdirPaths \cup CreatePaths \cup DeletePaths \cup LookPaths \subseteq Seq(DOMAIN Stem)
  /\ \A p \in DeletePaths : {".", ".."} \cap ToSet(p) = {}
  /\ \A a \in WriteArgs \cup CopyArgs : a[1] # <<>> /\ a[2] \in Nat \ {0}
  /\ \A a \in WriteArgs \cup CopyArgs \cup ChmodArgs : a[1] \in Seq(DOMAIN Stem)

VARIABLES disk,          \* disk.img
          cut            \* the commands killed so far (history)
vars == <<disk, cut>>

-----------------------------------------------------------------------------
(* fs.c *)

ZeroCounters == [live |-> FALSE, blocks |-> 0, inodes |-> 0]
ZeroImage == [magic |-> FALSE, bmap |-> {}, imap |-> {}, sb |-> ZeroCounters,
              gd |-> [blocks |-> 0, inodes |-> 0, tail |-> ZeroCounters],
              inode |-> [i \in Inodes |-> NoInode],
              block |-> [b \in Blocks |-> ZeroBlock]]

users_bootstrap(c) ==
  IF namei(Cur(c), <<".users">>).ret = FS_OK THEN Ret(c, FS_OK)
  ELSE IfOk(fs_open(c, <<".users">>, TRUE, 0),
            LAMBDA fd : fs_write(fd, fd.ret, 0, 1, "users", 0))

\* BLK_DATA_START: the metadata blocks.  Their bits are outside Blocks.
MetaBlocks == 69

\* fopen with "wb+" empties the file, and it cannot be read as an image until all
\* its zeros are written; so up to there it is ZeroImage.
fs_format(c) ==
  LET Counters(s, blocks, inodes) ==
        LET n == [live |-> TRUE, blocks |-> blocks, inodes |-> inodes]
        IN  Then(DevWrite(s, [Cur(s) EXCEPT !.magic = TRUE, !.sb = n]), LAMBDA t :
              DevWrite(t, [Cur(t) EXCEPT
                !.gd = [blocks |-> blocks, inodes |-> inodes, tail |-> n]]))
      laid == Counters(DevWrite(c, ZeroImage), NBlocks + MetaBlocks, MaxInodes)
      reserved == Counters(laid, NBlocks, MaxInodes)
      root == Counters(DevWrite(reserved, [Cur(reserved) EXCEPT !.imap = {RootIno}]),
                       NBlocks, MaxInodes - 1)
  IN  Ret(users_bootstrap(
            dir_add(dir_add(write_inode(root, RootIno, NewInode("dir", 0)),
                            RootIno, ".", "dir", RootIno),
                    RootIno, "..", "dir", RootIno)), FS_OK)

\* g_sb is all zeros: bitmaps, inode table and root are where the boot block is.
\* users_bootstrap takes an inode there and writes g_sb over the superblock, and
\* no image is left.  No path resolves, so the command fails as if the mount had,
\* although this one still reports success; what it writes nobody reads.
MountOfZeros(im) ==
  Ret(DevWrite(DevWrite(Begin(im), im), [im EXCEPT !.magic = FALSE]), FS_ERR)

\* Reading the block of g_gd runs past it and puts its tail into g_sb: "sb" is
\* g_sb from here on, the device's copy is never read again.  Creates
\* /.users again when it is missing; whether that worked is not looked at.  The
\* session gives the uid of the command, chosen in Next.
fs_mount(im) ==
  LET sb == IF SbBehindGd THEN im.gd.tail ELSE im.sb
  IN  IF ~im.magic THEN Ret(Begin(im), FS_ERR)
      ELSE IF ~sb.live THEN MountOfZeros(im)
      ELSE Ret(users_bootstrap(Begin([im EXCEPT !.sb = sb])), FS_OK)

-----------------------------------------------------------------------------
(* cli.c: the commands. *)

\* The results of the two dir_add into the new directory are not looked at.
cmd_mkdir(c, path, uid) ==
  LET Dots(s, ino, parent) ==
        dir_add(dir_add(s, ino, ".", "dir", ino), ino, "..", "dir", parent)
  IN  Then(namei(Cur(c), Front(path)), LAMBDA parent :
        IF parent.ret # FS_OK THEN Ret(c, FS_ERR)
        ELSE IfOk(alloc_inode(c), LAMBDA a :
               dir_add(Dots(write_inode(a, a.ret, NewInode("dir", uid)),
                            a.ret, parent.ino),
                       parent.ino, Last(path), "dir", a.ret)))

cmd_create(c, path, uid) == fs_open(c, path, TRUE, uid)
cmd_open(c, path, writable, uid) == fs_open(c, path, writable, uid)
cmd_readf(c, path, uid) ==
  IfOk(fs_open(c, path, FALSE, uid), LAMBDA fd : fs_read(fd, fd.ret, uid))

\* The mount has cleared the descriptors of earlier commands.
cmd_fd(c) == Ret(c, FS_EBADF)

\* What cd changes (g_cwd) ends with the process.
cmd_cd(c, path) == Ret(c, namei(Cur(c), path).ret)
cmd_ls(c, path) ==
  Then(namei(Cur(c), path), LAMBDA r :
    Ret(c, CASE r.ret # FS_OK -> FS_ENOENT
             [] Cur(c).inode[r.ino].type # "dir" -> FS_ENOTDIR
             [] OTHER -> FS_OK))

cmd_writef(c, path, len, v, uid) ==
  IfOk(fs_open(c, path, TRUE, uid),
       LAMBDA fd : fs_write(fd, fd.ret, 0, len, v, uid))

\* Copies a host file one block at a time and stops at the first failure.
cmd_writefile(c, path, len, v, uid) ==
  LET chunk(n) == Min({Width, len - n * Width})
      Copy(fd) ==
        FoldLeft(LAMBDA s, n :
                   IF s.ret < 0 THEN s
                   ELSE fs_write(s, fd.ret, n * Width, chunk(n), v, uid),
                 fd, [n \in 1..(len + Width - 1) \div Width |-> n - 1])
  IN  IfOk(fs_open(c, path, TRUE, uid), Copy)

\* cmd_delete does not look whether the parent resolves: p is not set if it does
\* not.  (It does, for the path of no directory leads through the directory
\* itself: no dots.)
ParentOf(im, path) ==
  LET r == namei(im, Front(path)) IN IF r.ret = FS_OK THEN r.ino ELSE UnsetParent

\* Mutant: the name goes first.
NameFirst(c, path, ino) ==
  Then(dir_remove(c, ParentOf(Cur(c), path), Last(path)),
       LAMBDA s : Ret(free_inode(inode_truncate(s, ino), ino), FS_OK))

\* Blocks first, then the inode, then the name.
FreeAndRemove(c, path, ino) ==
  Then(free_inode(inode_truncate(c, ino), ino), LAMBDA s :
    Ret(dir_remove(s, ParentOf(Cur(s), path), Last(path)), FS_OK))

\* Mutant: a directory may have one entry beside "." and "..".
DeleteOneLeft(c, path) ==
  Then(namei(Cur(c), path), LAMBDA r :
    LET in == Cur(c).inode[r.ino]
    IN  IF r.ret # FS_OK THEN Ret(c, FS_ENOENT)
        ELSE IF in.type = "dir" /\ in.size > 3 THEN Ret(c, FS_ERR)
        ELSE FreeAndRemove(c, path, r.ino))

cmd_delete(c, path) ==
  Then(namei(Cur(c), path), LAMBDA r :
    LET in == Cur(c).inode[r.ino]
    IN  IF r.ret # FS_OK THEN Ret(c, FS_ENOENT)
        ELSE IF in.type = "dir" /\ in.size > 2 THEN Ret(c, FS_ERR)
        ELSE FreeAndRemove(c, path, r.ino))

cmd_chmod(c, path, mode, uid) ==
  Then(namei(Cur(c), path), LAMBDA r :
    LET in == Cur(c).inode[r.ino]
    IN  IF r.ret # FS_OK THEN Ret(c, FS_ENOENT)
        ELSE IF uid # 0 /\ in.uid # uid THEN Ret(c, FS_EPERM)
        ELSE write_inode(c, r.ino, [in EXCEPT !.mode = mode]))

-----------------------------------------------------------------------------
(* main: every command but format mounts first and gives up if that fails. *)

Run(im, cmd(_)) == IfOk(fs_mount(im), cmd)

Mkdir(im, path, uid) == Run(im, LAMBDA c : cmd_mkdir(c, path, uid))
Create(im, path, uid) == Run(im, LAMBDA c : cmd_create(c, path, uid))
Open(im, path, uid) == Run(im, LAMBDA c : cmd_open(c, path, FALSE, uid))
Readf(im, path, uid) == Run(im, LAMBDA c : cmd_readf(c, path, uid))
Cd(im, path) == Run(im, LAMBDA c : cmd_cd(c, path))
Ls(im, path) == Run(im, LAMBDA c : cmd_ls(c, path))
OnDescriptor(im) == Run(im, cmd_fd)
Writef(im, a, uid) == Run(im, LAMBDA c : cmd_writef(c, a[1], a[2], a[3], uid))
Writefile(im, a, uid) ==
  Run(im, LAMBDA c : cmd_writefile(c, a[1], a[2], a[3], uid))
Delete(im, path) == Run(im, LAMBDA c : cmd_delete(c, path))
Chmod(im, a, uid) == Run(im, LAMBDA c : cmd_chmod(c, a[1], a[2], uid))

\* Where the model ends: a directory block that some inode takes for its indirect
\* block, its inode numbers read as block numbers.  Only a delete killed inside
\* inode_truncate leads there (BlockAlloc).  Formatting is all that is left.
DirBlockAsTable(im) ==
  \E i \in Inodes, n \in 0..Width - 1 :
    /\ im.inode[i].indirect # NilBlock
    /\ im.block[im.inode[i].indirect][n].kind = "entry"

\* The command runs to its end, or is killed after one of its block writes.
RunOrKill(name, c) ==
  \/ /\ disk' = Cur(c)
     /\ UNCHANGED cut
  \/ /\ Len(cut) < MaxCuts
     /\ \E k \in 2..Len(c.log) - 1 : disk' = c.log[k]
     /\ cut' = Append(cut, name)
Execute(name, c) == ~DirBlockAsTable(disk) /\ RunOrKill(name, c)

Init == /\ disk = Cur(fs_format(Begin(ZeroImage)))
        /\ cut = <<>>

DoFormat == RunOrKill("format", fs_format(Begin(disk)))
DoMount == Execute("mount", fs_mount(disk))
DoOnDescriptor == Execute("fd", OnDescriptor(disk))
DoLook(p) == Execute("cd", Cd(disk, p)) \/ Execute("ls", Ls(disk, p))
DoOpen(p, uid) == Execute("open", Open(disk, p, uid))
DoReadf(p, uid) == Execute("readf", Readf(disk, p, uid))
DoMkdir(p, uid) == Execute("mkdir", Mkdir(disk, p, uid))
DoCreate(p, uid) == Execute("create", Create(disk, p, uid))
DoWritef(a, uid) == Execute("writef", Writef(disk, a, uid))
DoWritefile(a, uid) == Execute("writefile", Writefile(disk, a, uid))
DoDelete(p) == Execute("delete", Delete(disk, p))
DoChmod(a, uid) == Execute("chmod", Chmod(disk, a, uid))

Next ==
  \/ DoFormat \/ DoMount \/ DoOnDescriptor
  \/ \E p \in LookPaths : DoLook(p)
  \/ \E uid \in Uids :
       \/ \E p \in LookPaths : DoOpen(p, uid) \/ DoReadf(p, uid)
       \/ \E p \in MkdirPaths : DoMkdir(p, uid)
       \/ \E p \in CreatePaths : DoCreate(p, uid)
       \/ \E a \in WriteArgs : DoWritef(a, uid)
       \/ \E a \in CopyArgs : DoWritefile(a, uid)
       \/ \E a \in ChmodArgs : DoChmod(a, uid)
  \/ \E p \in DeletePaths : DoDelete(p)

Spec == Init /\ [][Next]_vars
=============================================================================
