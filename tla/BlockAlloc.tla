----------------------------- MODULE BlockAlloc -----------------------------
(***************************************************************************)
(* Data blocks of mini_ext2: who holds them, block write by block write.   *)
(*                                                                         *)
(* One command at a time writes a file (fs_write, or dir_add for a         *)
(* directory) or truncates one (inode_truncate, from delete).  A step is   *)
(* one dev_write_block.  A crash between two of them loses the caller's    *)
(* copy of the inode and leaves the image as it is.                        *)
(*                                                                         *)
(* Which logical block is mapped, and in which slot, is left open: direct  *)
(* pointers and the cells of an indirect block are sets.                   *)
(***************************************************************************)
EXTENDS Integers, FiniteSets

CONSTANTS Blocks,       \* the data blocks that have a bit in the bitmap
          Unrecorded,   \* how many have none: 515 (see Ext2Image, alloc_block)
          NilBlock,     \* 0: no block
          Inodes,
          Word,         \* 2^32, the counters' modulus
          MaxCrashes,   \* bound on the number of crashes
          SbBehindGd    \* TRUE when the linker puts g_sb behind g_gd

ASSUME BlocksAssumption == IsFiniteSet(Blocks) /\ NilBlock \notin Blocks
ASSUME WordAssumption ==
  /\ MaxCrashes \in Nat /\ Word \in Nat /\ Unrecorded \in Nat
  /\ MaxCrashes + Cardinality(Blocks) + Unrecorded < Word
ASSUME LayoutAssumption == SbBehindGd \in BOOLEAN

VARIABLES
  bbm,        \* the block bitmap
  sb, gd,     \* free_blocks of the superblock and of the group descriptor
  tail,       \* g_sb as the last write of g_gd took it along (see WriteGd)
  direct,     \* direct[i]: the non-zero direct pointers of inode i on disk
  ind,        \* ind[i]: its indirect block, or NilBlock
  table,      \* table[b]: the non-zero pointers in b, read as an indirect block
  op, pc,     \* the running function, and where it stands
  cur,        \* the inode it works on
  mdir, mind, \* its copy of the inode
  use, new,   \* what the block being allocated is for; that block
  todo,       \* the blocks inode_truncate has still to free
  crashes, torn, reused  \* history: crashes so far; inodes whose truncate was
                         \* cut and not run again; some inode's block was handed out

counters == <<sb, gd, tail>>
inode == <<direct, ind>>
mem == <<cur, mdir, mind, use, new, todo>>
history == <<crashes, torn, reused>>
vars == <<bbm, counters, inode, table, op, pc, mem, history>>

\* What an inode with direct pointers d and indirect block x reaches.
Entered(x) == IF x = NilBlock THEN {} ELSE table[x]
Reach(d, x) == d \cup Entered(x) \cup ({x} \ {NilBlock})
Refs(i) == Reach(direct[i], ind[i])

\* uint32_t arithmetic.
Inc(n) == IF n = Word - 1 THEN 0 ELSE n + 1

Dec(n) == IF n = 0 THEN Word - 1 ELSE n - 1
Count(n) == IF op = "truncate" THEN Inc(n) ELSE Dec(n)

\* fs_format counts all data blocks as free, those without a bit among them.
Init ==
  /\ bbm = {}
  /\ sb = Cardinality(Blocks) + Unrecorded /\ gd = sb /\ tail = sb
  /\ direct = [i \in Inodes |-> {}]
  /\ ind = [i \in Inodes |-> NilBlock]
  /\ table = [b \in Blocks |-> {}]
  /\ op = "none" /\ pc = "idle"
  /\ cur \in Inodes /\ mdir = {} /\ mind = NilBlock
  /\ use = "none" /\ new = NilBlock /\ todo = {}
  /\ crashes = 0 /\ torn = {} /\ reused = FALSE

\* The function returns: its variables are gone.
Return ==
  /\ op' = "none" /\ pc' = "idle"
  /\ mdir' = {} /\ mind' = NilBlock /\ use' = "none" /\ new' = NilBlock /\ todo' = {}
  /\ UNCHANGED cur

-----------------------------------------------------------------------------
(* fs_write and dir_add *)

StartWrite(i) ==
  /\ pc = "idle"
  /\ op' = "write" /\ pc' = "map" /\ cur' = i
  /\ mdir' = direct[i] /\ mind' = ind[i]
  /\ UNCHANGED <<bbm, counters, inode, table, use, new, todo, history>>

\* Mutant: the bitmap is not looked at.
AllocAnyBit(u, b) ==
  /\ op = "write" /\ pc \in {"map", "leaf"}
  /\ u = IF mind = NilBlock THEN "table" ELSE "leaf"
  /\ bbm' = bbm \cup {b}
  /\ use' = u /\ new' = b /\ pc' = "sb"
  /\ reused' = (reused \/ \E i \in Inodes : b \in Refs(i))
  /\ UNCHANGED <<counters, inode, table, op, cur, mdir, mind, todo, crashes, torn>>

\* alloc_block, called for a direct block, for an indirect block, or for a block
\* to be entered in the indirect block.  The bit goes to the device first.
AllocBit(u, b) ==
  /\ op = "write"
  /\ \/ pc = "map" /\ u = "direct"
     \/ pc = "map" /\ u = IF mind = NilBlock THEN "table" ELSE "leaf"
     \/ pc = "leaf" /\ u = "leaf"
  /\ b \in Blocks \ bbm
  /\ bbm' = bbm \cup {b}
  /\ use' = u /\ new' = b /\ pc' = "sb"
  /\ reused' = (reused \/ \E i \in Inodes : b \in Refs(i))
  /\ UNCHANGED <<counters, inode, table, op, cur, mdir, mind, todo, crashes, torn>>

\* FS_ENOSPC: the caller returns at once and does not write its inode back.  (The
\* blocks past the end of the bitmap look used: see Ext2Image, alloc_block.)
AllocFail ==
  /\ pc \in {"map", "leaf"} /\ bbm = Blocks
  /\ Return
  /\ UNCHANGED <<bbm, counters, inode, table, history>>

\* Mutant: the new block is not cleared.
EnterUncleared ==
  /\ pc = "zero"
  /\ \/ use = "direct" /\ pc' = "map" /\ mdir' = mdir \cup {new} /\ UNCHANGED mind
     \/ use = "table" /\ pc' = "leaf" /\ mind' = new /\ UNCHANGED mdir
     \/ use = "leaf" /\ pc' = "link" /\ UNCHANGED <<mdir, mind>>
  /\ UNCHANGED <<bbm, counters, inode, table, op, cur, use, new, todo, history>>

\* The new block is cleared and entered in the copy of the inode; a block for
\* the indirect block waits for its entry there.
ZeroBlock ==
  /\ pc = "zero"
  /\ table' = [table EXCEPT ![new] = {}]
  /\ \/ use = "direct" /\ pc' = "map" /\ mdir' = mdir \cup {new} /\ UNCHANGED mind
     \/ use = "table" /\ pc' = "leaf" /\ mind' = new /\ UNCHANGED mdir
     \/ use = "leaf" /\ pc' = "link" /\ UNCHANGED <<mdir, mind>>
  /\ UNCHANGED <<bbm, counters, inode, op, cur, use, new, todo, history>>

LinkTable ==
  /\ pc = "link"
  /\ table' = [table EXCEPT ![mind] = @ \cup {new}]
  /\ pc' = "map"
  /\ UNCHANGED <<bbm, counters, inode, op, mem, history>>

\* Mutant: data may go to the indirect block.
WriteDataAnywhere(b) ==
  /\ pc = "map"
  /\ b \in Reach(mdir, mind)
  /\ b \in {mind} \cup {ind[i] : i \in Inodes}
  /\ \E garbage \in SUBSET Blocks : table' = [table EXCEPT ![b] = garbage]
  /\ UNCHANGED <<bbm, counters, inode, op, pc, mem, history>>

\* Data goes to a mapped block b.  Should some inode take b for its indirect
\* block, the data are its pointers from now on.
WriteData(b) ==
  /\ pc = "map"
  /\ b \in mdir \cup Entered(mind)
  /\ b \in {mind} \cup {ind[i] : i \in Inodes}
  /\ \E garbage \in SUBSET Blocks : table' = [table EXCEPT ![b] = garbage]
  /\ UNCHANGED <<bbm, counters, inode, op, pc, mem, history>>

\* write_inode at the end of a successful write.
FinishWrite ==
  /\ pc = "map"
  /\ direct' = [direct EXCEPT ![cur] = mdir]
  /\ ind' = [ind EXCEPT ![cur] = mind]
  /\ Return
  /\ UNCHANGED <<bbm, counters, table, history>>

-----------------------------------------------------------------------------
(* inode_truncate *)

StartTruncate(i) ==
  /\ pc = "idle"
  /\ op' = "truncate" /\ pc' = "free" /\ cur' = i
  /\ mdir' = direct[i] /\ mind' = ind[i] /\ todo' = Refs(i)
  /\ UNCHANGED <<bbm, counters, inode, table, use, new, history>>

\* Direct blocks, then those in the indirect block, then the indirect block.
NextToFree ==
  IF todo \cap mdir # {} THEN todo \cap mdir
  ELSE IF todo \ {mind} # {} THEN todo \ {mind}
  ELSE todo

\* Mutant: the counters move also when the bit was clear.
FreeUntested(b) ==
  /\ pc = "free" /\ b \in NextToFree
  /\ todo' = todo \ {b}
  /\ bbm' = bbm \ {b}
  /\ pc' = "sb"
  /\ UNCHANGED <<counters, inode, table, op, cur, mdir, mind, use, new, history>>

\* free_block: nothing happens to a block whose bit is clear already.
FreeBit(b) ==
  /\ pc = "free" /\ b \in NextToFree
  /\ todo' = todo \ {b}
  /\ bbm' = bbm \ {b}
  /\ pc' = IF b \in bbm THEN "sb" ELSE "free"
  /\ UNCHANGED <<counters, inode, table, op, cur, mdir, mind, use, new, history>>

\* write_inode with all pointers cleared.
ClearInode ==
  /\ pc = "free" /\ todo = {}
  /\ direct' = [direct EXCEPT ![cur] = {}]
  /\ ind' = [ind EXCEPT ![cur] = NilBlock]
  /\ torn' = torn \ {cur}
  /\ Return
  /\ UNCHANGED <<bbm, counters, table, crashes, reused>>

-----------------------------------------------------------------------------
(* The counters, for alloc_block and free_block. *)

WriteSb ==
  /\ pc = "sb"
  /\ sb' = Count(sb)
  /\ pc' = "gd"
  /\ UNCHANGED <<bbm, gd, tail, inode, table, op, mem, history>>

\* g_gd is shorter than the block written for it: what lies behind it goes to
\* the device too, and comes back over g_sb when a mount reads the block.
WriteGd ==
  /\ pc = "gd"
  /\ gd' = Count(gd) /\ tail' = sb
  /\ pc' = IF op = "truncate" THEN "free" ELSE "zero"
  /\ UNCHANGED <<bbm, sb, inode, table, op, mem, history>>

-----------------------------------------------------------------------------
\* The command is killed; the next one mounts the image.
Crash ==
  /\ pc # "idle" /\ crashes < MaxCrashes
  /\ crashes' = crashes + 1
  /\ torn' = IF op = "truncate" THEN torn \cup {cur} ELSE torn
  /\ sb' = IF SbBehindGd THEN tail ELSE sb
  /\ Return
  /\ UNCHANGED <<bbm, gd, tail, inode, table, reused>>

Next ==
  \/ \E i \in Inodes : StartWrite(i) \/ StartTruncate(i)
  \/ \E b \in Blocks :
       \/ \E u \in {"direct", "table", "leaf"} : AllocBit(u, b)
       \/ WriteData(b)
       \/ FreeBit(b)
  \/ AllocFail \/ ZeroBlock \/ LinkTable \/ FinishWrite
  \/ ClearInode
  \/ WriteSb \/ WriteGd
  \/ Crash

Spec == Init /\ [][Next]_vars

-----------------------------------------------------------------------------
(* Properties *)

\* The variables hold what the C types hold; "new" is a block exactly while one
\* is being allocated, and inode_truncate frees only what it found in the inode.
TypeOK ==
  /\ bbm \in SUBSET Blocks
  /\ sb \in 0..Word - 1 /\ gd \in 0..Word - 1 /\ tail \in 0..Word - 1
  /\ direct \in [Inodes -> SUBSET Blocks]
  /\ ind \in [Inodes -> Blocks \cup {NilBlock}]
  /\ table \in [Blocks -> SUBSET Blocks]
  /\ op \in {"none", "write", "truncate"}
  /\ pc \in {"idle", "map", "leaf", "sb", "gd", "zero", "link", "free"}
  /\ cur \in Inodes
  /\ mdir \in SUBSET Blocks /\ mind \in Blocks \cup {NilBlock}
  /\ use \in {"none", "direct", "table", "leaf"} /\ new \in Blocks \cup {NilBlock}
  /\ todo \in SUBSET Blocks
  /\ crashes \in 0..MaxCrashes /\ torn \in SUBSET Inodes /\ reused \in BOOLEAN

\* The inodes that may point at freed blocks: those whose truncate is under way
\* or was cut.
Loose == torn \cup (IF op = "truncate" THEN {cur} ELSE {})

\* Until a block of some inode is handed out again, no block is held twice, by
\* two inodes or in two places of one, and every block held is marked used but
\* for those of a truncate that was cut.
Ownership ==
  ~reused =>
    /\ \A i, j \in Inodes : i # j => Refs(i) \cap Refs(j) = {}
    /\ \A i \in Inodes : /\ direct[i] \cap Entered(ind[i]) = {}
                          /\ ind[i] \notin direct[i] \cup Entered(ind[i])
    /\ \A i \in Inodes \ Loose : Refs(i) \subseteq bbm

\* A block some inode still reaches is handed out only after a crash inside
\* inode_truncate: after bits were cleared and before the inode was, with that
\* delete not run again since.  Crashes in writes, full disks and failed writes
\* never lead there.
ReuseOnlyAfterTornTruncate ==
  [][~reused /\ reused' => \E i \in torn : new' \in Refs(i)]_vars

\* The pointers in an indirect block an inode has stay there: no data and no
\* clearing of a new block hits it.
TablesKept ==
  [][\A i \in Inodes :
       (~reused' /\ ind[i] # NilBlock) => table[ind[i]] \subseteq table'[ind[i]]]_vars

\* What the counters should say: the clear bits, and the blocks without a bit,
\* which are counted from the start and never handed out.
Free == Cardinality(Blocks \ bbm) + Unrecorded
Before == IF op = "truncate" THEN Free - 1 ELSE Free + 1
Wrap(n) == IF n < 0 THEN n + Word ELSE n
Near(counter, n) == \E k \in -crashes..crashes : counter = Wrap(n + k)

\* Each crash moves a free counter by one at most from the number of clear bits and
\* blocks without a bit, whichever layout the build has; without crashes the
\* counters are exactly that between two operations.  After more crashes than there
\* are blocks without a bit a counter can be below zero, that is, near 2^32.
CounterDrift ==
  /\ Near(sb, IF pc = "sb" THEN Before ELSE Free)
  /\ Near(gd, IF pc \in {"sb", "gd"} THEN Before ELSE Free)
  /\ Near(tail, IF pc \in {"sb", "gd"} THEN Before ELSE Free)
=============================================================================
