----------------------------- MODULE CallContext -----------------------------
(***************************************************************************)
(* A function of the C code is an operator from a call context to a call   *)
(* context.  A context is a record                                         *)
(*     log : the images after each dev_write_block so far, oldest first    *)
(*     ret : what the last function returned (negative = an FS_ error)     *)
(* so the whole effect of a command is the last image of its log, and what *)
(* a kill in the middle of the command leaves is an earlier one.           *)
(***************************************************************************)
EXTENDS Integers, Sequences, SequencesExt

FS_OK == 0
FS_ERR == -1
FS_ENOENT == -2
FS_EEXIST == -3
FS_ENOSPC == -4
FS_ENOTDIR == -5
FS_EPERM == -7
FS_EBADF == -8

Begin(im) == [log |-> <<im>>, ret |-> FS_OK]
Cur(c) == Last(c.log)
Ret(c, r) == [c EXCEPT !.ret = r]
DevWrite(c, im) == [c EXCEPT !.log = Append(@, im), !.ret = FS_OK]

\* What happens next: F takes over from c; or F does unless c is an error, which
\* is passed on at once.
Then(c, F(_)) == F(c)
IfOk(c, F(_)) == IF c.ret < 0 THEN c ELSE F(c)

\* The permission rules of file.c.  A file or inode has an owner "uid" and the
\* set "mode" of its read and write bits; MODE_FILE is 0644.
DefaultMode == {"ownerR", "ownerW", "otherR"}
perm_can_read(in, uid) ==
  \/ uid = 0
  \/ IF in.uid = uid THEN "ownerR" \in in.mode ELSE "otherR" \in in.mode

\* Mutant: the owner's bit counts for everybody.
WriteByOwnerBit(in, uid) == uid = 0 \/ "ownerW" \in in.mode

perm_can_write(in, uid) ==
  \/ uid = 0
  \/ IF in.uid = uid THEN "ownerW" \in in.mode ELSE "otherW" \in in.mode
=============================================================================
